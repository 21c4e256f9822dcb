------------------------- MODULE MCTestbenchProofs --------------------------
(***************************************************************************)
(* What is proved of one part on its own holds of it in the testbench: the *)
(* choice of MCTestbench adds nothing to its state and takes no step from  *)
(* it.                                                                     *)
(*                                                                         *)
(* The types of all parts, and the checks of program counters, of          *)
(* uniqueness, of causality, of data memory and of progress are proved     *)
(* here.  What a causality check misses is a matter of the checker alone,  *)
(* on any core; that it rejects no core that keeps causality and the order *)
(* of writes is one of the core: what it has retired is closed under       *)
(* "writes the register (byte) before n reads or writes it" (Closed), so   *)
(* that the instruction under check, which retires last, is not in there.  *)
(* The memory checker's word is the memory, lane by lane, as far as it is  *)
(* known; and a core that keeps its latency and shows nothing new for that *)
(* long has nothing left to show.                                          *)
(***************************************************************************)
EXTENDS MCTestbench, WellFoundedInduction, TLAPS

RegProofs == INSTANCE RvfiRegCheckProofs
               WITH KEEP_CAUSALITY <- TRUE, KEEP_WRITE_ORDER <- TRUE
HippoProofs == INSTANCE RegFileStackProofs
NervProofs  == INSTANCE NervCoreProofs WITH FAULT <- TRUE, QUIET <- TRUE
PlainProofs == INSTANCE NervCoreProofs WITH FAULT <- FALSE, QUIET <- FALSE

(* The testbench keeps the part it starts with, and only its steps change  *)
(* its variables.                                                          *)
LEMMA SamePart == [MCNext]_<<vars, coreVars, stackVars>> => checker' = checker
  BY DEF MCNext, Next, vars

LEMMA CheckerInit == MCInit /\ checker \notin {"nerv", "nerv_plain", "stack"} => Init
  BY DEF MCInit

LEMMA CheckerNext ==
  [MCNext]_<<vars, coreVars, stackVars>> /\ checker \notin {"nerv", "nerv_plain", "stack"}
    => [Next]_vars
  BY DEF MCNext

(* The two instances of the checker are the same formulas.                 *)
LEMMA RegInit == Init /\ checker = "reg" => RegProofs!Init
  BY DEF Init, Reg!Init, RegProofs!Init, Reg!StreamInit, RegProofs!StreamInit,
         Reg!Packet, RegProofs!Packet, Reg!Orders, RegProofs!Orders

(* A step of the testbench with the register checker is one of its own.   *)
LEMMA RegNext ==
  [Next]_vars /\ checker = "reg" => [RegProofs!Next]_(RegProofs!vars)
<1>1. Reg!Next => RegProofs!Next
  BY Zenon DEF Reg!Next, RegProofs!Next, Reg!ResetCycle, RegProofs!ResetCycle,
         Reg!ObserveCycle, RegProofs!ObserveCycle, Reg!CheckCycle,
         RegProofs!CheckCycle, Reg!Retire, RegProofs!Retire, Reg!Unique,
         RegProofs!Unique, Reg!Causal, RegProofs!Causal, Reg!WritesInOrder,
         RegProofs!WritesInOrder, Reg!Before, RegProofs!Before, Reg!Lower,
         RegProofs!Lower, Reg!Reads, RegProofs!Reads, Reg!HasWriter,
         RegProofs!HasWriter, Reg!IsLastWriter, RegProofs!IsLastWriter,
         Reg!Writes, RegProofs!Writes, Reg!FoldShadow, RegProofs!FoldShadow,
         Reg!Hits, RegProofs!Hits, Reg!rvfi_rd_wdata,
         RegProofs!rvfi_rd_wdata, Reg!Mismatch, RegProofs!Mismatch,
         Reg!WriteValues, RegProofs!WriteValues, Reg!consts,
         RegProofs!consts, Reg!Cycle, RegProofs!Cycle, Reg!Channels,
         RegProofs!Channels, Reg!Idle, RegProofs!Idle, Reg!Orders,
         RegProofs!Orders
<1>2. Next /\ checker = "reg" => Reg!Next
  BY Zenon DEF Next
<1>3. vars' = vars => RegProofs!vars' = RegProofs!vars
  BY DEF vars, regVars, causalVars, RegProofs!vars, RegProofs!streamVars,
         RegProofs!checkVars
<1>. QED
  BY <1>1, <1>2, <1>3

(* The verdict is the one the testbench's property is about.               *)
LEMMA RegVerdict == RegProofs!VerdictExact => VerdictExact
  BY DEF Reg!VerdictExact, RegProofs!VerdictExact, Reg!WriteSeen,
         RegProofs!WriteSeen, Reg!WrongRead, RegProofs!WrongRead,
         Reg!IsArchValue, RegProofs!IsArchValue, Reg!HasWriter,
         RegProofs!HasWriter, Reg!IsLastWriter, RegProofs!IsLastWriter,
         Reg!Writes, RegProofs!Writes, Reg!Orders, RegProofs!Orders,
         VerdictExact

(* rvfi_reg_check in the testbench raises no false alarm and misses        *)
(* nothing it was shown, when writes to one register retire in order.      *)
THEOREM RegExact ==
  ASSUME NRET \in Nat \ {0}, CHANNEL_IDX \in 0 .. NRET - 1, N \in Nat
  PROVE  MCSpec => []VerdictExact
<1>. DEFINE I == checker = "reg" => RegProofs!IInv
<1>1. MCInit => I
  BY CheckerInit, RegInit, RegProofs!InitInv
<1>2. I /\ [MCNext]_<<vars, coreVars, stackVars>> => I'
  <2>1. RegProofs!IInv /\ [RegProofs!Next]_(RegProofs!vars) => RegProofs!IInv'
    BY RegProofs!Step
  <2>. QED  BY <2>1, CheckerNext, RegNext, SamePart
<1>3. I => VerdictExact
  BY RegVerdict DEF RegProofs!IInv, VerdictExact
<1>. HIDE DEF I
<1>. QED  BY <1>1, <1>2, <1>3, PTL DEF MCSpec
-----------------------------------------------------------------------------
Shape == NRET \in Nat \ {0} /\ CHANNEL_IDX \in 0 .. NRET - 1 /\ N \in Nat

(* Before the trigger every use of the order is another instruction's;     *)
(* after it the first is the trigger's own.                                *)
UniqueCounts ==
  /\ ~triggered => (found_other_insn <=> uses[insn_order] # 0)
  /\ triggered  => uses[insn_order] # 0 /\ (found_other_insn <=> uses[insn_order] = 2)

(* Nothing is counted in reset.                                            *)
UniqueInReset == reset => ~triggered /\ uses[insn_order] = 0

UniqueDecided == verdict # "none" => triggered /\ (verdict = "fail" <=> found_other_insn)

UniqueInv == Uniq!TypeOK /\ UniqueCounts /\ UniqueInReset /\ UniqueDecided

(* The checker starts with nothing counted.                                *)
LEMMA UniqueInitInv == Shape /\ Uniq!Init => UniqueInv
<1> SUFFICES ASSUME Shape, Uniq!Init PROVE UniqueInv
  OBVIOUS
<1>1. Uniq!TypeOK
  <2>1. uses \in [Uniq!Orders -> 0 .. 2]
    BY DEF Uniq!Init
  <2> QED
    BY <2>1 DEF Uniq!Init, Uniq!TypeOK
<1>2. uses[insn_order] = 0
  BY DEF Uniq!Init
<1> QED
  BY <1>1, <1>2 DEF Uniq!Init, UniqueInv, UniqueCounts, UniqueInReset, UniqueDecided

(* The packet under check is alone exactly when no other channel carries   *)
(* its order.                                                              *)
LEMMA UniqueAlone ==
  ASSUME Shape, NEW ch \in Uniq!Cycle, NEW n \in Uniq!Orders, ch[CHANNEL_IDX] = n
  PROVE  /\ CHANNEL_IDX \in Uniq!Channels /\ CHANNEL_IDX \in Uniq!Carriers(ch, n)
         /\ (\E c \in Uniq!Channels : Uniq!Carriers(ch, n) = {c})
              <=> ~ \E c \in Uniq!Channels : ch[c] = n /\ c # CHANNEL_IDX
<1>1. CHANNEL_IDX \in Uniq!Channels
  BY DEF Shape, Uniq!Channels
<1>2. CHANNEL_IDX \in Uniq!Carriers(ch, n)
  BY <1>1 DEF Uniq!Carriers
<1>3. ASSUME NEW c \in Uniq!Channels, Uniq!Carriers(ch, n) = {c}
      PROVE  ~ \E d \in Uniq!Channels : ch[d] = n /\ d # CHANNEL_IDX
  BY <1>2, <1>3 DEF Uniq!Carriers
<1>4. ASSUME ~ \E d \in Uniq!Channels : ch[d] = n /\ d # CHANNEL_IDX
      PROVE  Uniq!Carriers(ch, n) = {CHANNEL_IDX}
  BY <1>2, <1>4 DEF Uniq!Carriers
<1> QED
  BY <1>1, <1>2, <1>3, <1>4

(* A cycle without the trigger: the count moves exactly when some channel  *)
(* carries the order, and then the checker has found it.                   *)
LEMMA UniqueCounted ==
  ASSUME Shape, Uniq!TypeOK, NEW ch \in Uniq!Cycle, Uniq!CountUses(ch)
  PROVE  /\ uses' \in [Uniq!Orders -> 0 .. 2]
         /\ Uniq!Carriers(ch, insn_order) = {} => uses'[insn_order] = uses[insn_order]
         /\ Uniq!Carriers(ch, insn_order) # {} => uses'[insn_order] # 0
         /\ uses[insn_order] # 0 /\ Uniq!Carriers(ch, insn_order) # {} => uses'[insn_order] = 2
         /\ uses[insn_order] = 0 /\ Uniq!Carriers(ch, insn_order) # {} =>
              (uses'[insn_order] = 1 <=> \E c \in Uniq!Channels : Uniq!Carriers(ch, insn_order) = {c})
<1>1. \A n \in Uniq!Orders : uses'[n] =
        IF Uniq!Carriers(ch, n) = {} THEN uses[n]
        ELSE IF uses[n] = 0 /\ \E c \in Uniq!Channels : Uniq!Carriers(ch, n) = {c} THEN 1
        ELSE 2
  BY DEF Uniq!CountUses
<1>2. uses' \in [Uniq!Orders -> 0 .. 2]
  BY DEF Uniq!CountUses, Uniq!TypeOK
<1> QED
  BY <1>1, <1>2 DEF Uniq!TypeOK

(* A cycle out of reset keeps the count.                                   *)
LEMMA UniqueObserveInv ==
  ASSUME Shape, UniqueInv, NEW ch \in Uniq!Cycle, NEW trig \in BOOLEAN, NEW check \in BOOLEAN,
         Uniq!ObserveCycle(ch, trig, check)
  PROVE  UniqueInv'
<1> USE DEF UniqueInv
<1>1. insn_order \in Uniq!Orders /\ insn_order' = insn_order /\ Uniq!CountUses(ch)
  BY DEF Uniq!ObserveCycle, Uniq!TypeOK
<1>2. (\E c \in Uniq!Channels : ch[c] = insn_order) <=> Uniq!Carriers(ch, insn_order) # {}
  BY DEF Uniq!Carriers
<1>3. uses[insn_order] \in 0 .. 2 /\ uses'[insn_order] \in 0 .. 2
  BY <1>1, UniqueCounted DEF Uniq!TypeOK
<1>4. Uniq!TypeOK'
  BY <1>1, UniqueCounted DEF Uniq!ObserveCycle, Uniq!TypeOK, Uniq!OtherInsn
<1>5. UniqueCounts'
  <2>1. CASE ~trig
    <3>1. found_other_insn' = (found_other_insn \/ Uniq!Carriers(ch, insn_order) # {})
      BY <1>2, <2>1 DEF Uniq!ObserveCycle, Uniq!OtherInsn
    <3>2. triggered' = triggered
      BY <2>1 DEF Uniq!ObserveCycle, Uniq!TypeOK
    <3> QED
      BY <1>1, <1>3, <3>1, <3>2, UniqueCounted DEF UniqueCounts
  <2>2. CASE trig
    <3>1. ~triggered /\ triggered' /\ ch[CHANNEL_IDX] = insn_order
      BY <2>2 DEF Uniq!ObserveCycle
    <3>2. found_other_insn' =
            (found_other_insn \/ \E c \in Uniq!Channels : ch[c] = insn_order /\ c # CHANNEL_IDX)
      BY <2>2 DEF Uniq!ObserveCycle, Uniq!OtherInsn
    <3>3. Uniq!Carriers(ch, insn_order) # {}
      BY <1>1, <3>1, UniqueAlone
    <3>4. (\E c \in Uniq!Channels : Uniq!Carriers(ch, insn_order) = {c})
            <=> ~ \E c \in Uniq!Channels : ch[c] = insn_order /\ c # CHANNEL_IDX
      BY <1>1, <3>1, UniqueAlone
    <3>5. uses[insn_order] # 0 => uses'[insn_order] = 2
      BY <1>1, <3>3, UniqueCounted
    <3>6. uses[insn_order] = 0 =>
            (uses'[insn_order] = 1 <=> ~ \E c \in Uniq!Channels : ch[c] = insn_order /\ c # CHANNEL_IDX)
      BY <1>1, <3>3, <3>4, UniqueCounted
    <3>7. uses'[insn_order] # 0
      BY <1>1, <3>3, UniqueCounted
    <3> QED
      <4>1. CASE uses[insn_order] = 0
        <5>1. found_other_insn' <=> \E c \in Uniq!Channels : ch[c] = insn_order /\ c # CHANNEL_IDX
          BY <3>1, <3>2, <4>1 DEF UniqueCounts
        <5>2. uses'[insn_order] = 2 <=> \E c \in Uniq!Channels : ch[c] = insn_order /\ c # CHANNEL_IDX
          BY <1>3, <3>6, <3>7, <4>1
        <5> QED
          BY <1>1, <3>1, <3>7, <5>1, <5>2 DEF UniqueCounts
      <4>2. CASE uses[insn_order] # 0
        BY <1>1, <1>3, <3>1, <3>2, <3>5, <4>2 DEF UniqueCounts, Uniq!TypeOK
      <4> QED
        BY <4>1, <4>2
  <2> QED
    BY <2>1, <2>2
<1>6. UniqueInReset' /\ UniqueDecided'
  BY DEF Uniq!ObserveCycle, UniqueInReset, UniqueDecided
<1> QED
  BY <1>4, <1>5, <1>6

(* A cycle keeps the count.                                                *)
LEMMA UniqueStepInv == Shape /\ UniqueInv /\ [Uniq!Next]_(Uniq!vars) => UniqueInv'
<1> SUFFICES ASSUME Shape, UniqueInv, [Uniq!Next]_(Uniq!vars) PROVE UniqueInv'
  OBVIOUS
<1>1. ASSUME NEW ch \in Uniq!Cycle, Uniq!ResetCycle(ch) PROVE UniqueInv'
  <2>1. Uniq!TypeOK'
    BY <1>1 DEF UniqueInv, Uniq!ResetCycle, Uniq!TypeOK
  <2>2. uses'[insn_order'] = uses[insn_order] /\ triggered' = triggered /\ uses[insn_order] = 0
    BY <1>1 DEF UniqueInv, UniqueInReset, Uniq!ResetCycle
  <2>3. UniqueCounts' /\ UniqueInReset' /\ UniqueDecided'
    BY <1>1, <2>2 DEF UniqueInv, Uniq!ResetCycle, UniqueCounts, UniqueInReset, UniqueDecided
  <2> QED
    BY <2>1, <2>3 DEF UniqueInv
<1>2. CASE UNCHANGED Uniq!vars
  BY <1>2 DEF Uniq!vars, UniqueInv, Uniq!TypeOK, UniqueCounts, UniqueInReset, UniqueDecided
<1> QED
  BY <1>1, <1>2, UniqueObserveInv DEF Uniq!Next

(* rvfi_unique_check in the testbench fails exactly when the order of the  *)
(* triggering instruction was used twice, whatever the core does.          *)
THEOREM UniqueOrders ==
  ASSUME NRET \in Nat \ {0}, CHANNEL_IDX \in 0 .. NRET - 1, N \in Nat
  PROVE  MCSpec => []UniqueExact
<1>. DEFINE I == checker = "unique" => UniqueInv
<1>1. MCInit => I
  BY CheckerInit, UniqueInitInv DEF Init, Shape
<1>2. I /\ [MCNext]_<<vars, coreVars, stackVars>> => I'
  <2>1. checker = "unique" /\ [Next]_vars => [Uniq!Next]_(Uniq!vars)
    BY DEF Next, vars, uniqueVars, Uniq!vars
  <2>. QED  BY <2>1, CheckerNext, SamePart, UniqueStepInv DEF Shape
<1>3. I => UniqueExact
  BY DEF UniqueInv, Uniq!TypeOK, UniqueCounts, UniqueDecided, UniqueExact, Uniq!UniqueExact
<1>. HIDE DEF I
<1>. QED  BY <1>1, <1>2, <1>3, PTL DEF MCSpec
-----------------------------------------------------------------------------
(* What both checkers have of a stream: each order retires once, and the   *)
(* program counters are in range.                                          *)
PcInv ==
  /\ prog \in [Pc!Orders -> Pc!Packet] /\ seen \subseteq Pc!Orders
  /\ fwd \in Pc!Checker /\ "verdict" \in DOMAIN bwd
  /\ Pc!Running =>
       /\ fwd.expect_pc_valid <=> fwd.insn_order - 1 \in seen
       /\ fwd.expect_pc_valid => fwd.expect_pc = prog[fwd.insn_order - 1].pc_wdata
  /\ Pc!FwdExact

LEMMA PcInit ==
  ASSUME N \in Nat, Init, checker = "pc"
  PROVE  PcInv
<1>1. Pc!Init
  BY DEF Init
<1>2. prog \in [Pc!Orders -> Pc!Packet] /\ seen = {} /\ fwd \in Pc!Checker
  BY <1>1 DEF Pc!Init
<1>3. fwd.verdict = "none" /\ fwd.expect_pc_valid = FALSE /\ "verdict" \in DOMAIN bwd
  BY <1>1 DEF Pc!Init, Pc!Checker
<1> QED
  BY <1>2, <1>3 DEF PcInv, Pc!FwdExact

(* The fold over the channels below m knows the predecessor if it has been *)
(* shown or is on one of them.                                             *)
LEMMA PcFold ==
  ASSUME NRET \in Nat \ {0}, N \in Nat, PcInv, Pc!Running,
         NEW ch \in Pc!Cycle, NEW m \in 0 .. NRET, NEW f, f = Pc!FwdFold(ch, m)
  PROVE  /\ f \in Pc!Checker /\ f.insn_order = fwd.insn_order /\ f.verdict = "none"
         /\ seen \cup Pc!Lower(ch, m) \subseteq Pc!Orders
         /\ f.expect_pc_valid <=> fwd.insn_order - 1 \in seen \cup Pc!Lower(ch, m)
         /\ f.expect_pc_valid => f.expect_pc = prog[fwd.insn_order - 1].pc_wdata
<1>1. fwd \in Pc!Checker /\ fwd.insn_order \in Int
  BY DEF PcInv, Pc!Checker, Pc!Orders
<1>2. \A d \in 0 .. m - 1 : ch[d] \in Pc!Orders \cup {Pc!Idle}
  BY DEF Pc!Cycle, Pc!Channels
<1>3. seen \cup Pc!Lower(ch, m) \subseteq Pc!Orders
  BY <1>2 DEF PcInv, Pc!Lower
<1>4. Pc!CarriedBy(ch, m, fwd.insn_order - 1) # {} <=> fwd.insn_order - 1 \in Pc!Lower(ch, m)
  BY DEF Pc!CarriedBy, Pc!Lower
<1>5. CASE fwd.insn_order - 1 \in Pc!Lower(ch, m)
  <2>1. prog[fwd.insn_order - 1].pc_wdata \in PCs
    BY <1>3, <1>5 DEF PcInv, Pc!Packet
  <2>2. f = [fwd EXCEPT !.expect_pc = prog[fwd.insn_order - 1].pc_wdata, !.expect_pc_valid = TRUE]
    BY <1>4, <1>5 DEF Pc!FwdFold
  <2> QED
    BY <1>1, <1>3, <1>5, <2>1, <2>2 DEF Pc!Checker, Pc!Running
<1>6. CASE fwd.insn_order - 1 \notin Pc!Lower(ch, m)
  <2>1. f = fwd
    BY <1>4, <1>6 DEF Pc!FwdFold
  <2> QED
    BY <1>1, <1>3, <1>6, <2>1 DEF PcInv, Pc!Running
<1> QED
  BY <1>5, <1>6

LEMMA PcStep ==
  ASSUME NRET \in Nat \ {0}, CHANNEL_IDX \in 0 .. NRET - 1, N \in Nat,
         PcInv, NEW ch \in Pc!Cycle,
         \/ Pc!ResetCycle(ch) \/ Pc!ObserveCycle(ch)
         \/ Pc!FwdCheckCycle(ch) \/ Pc!BwdCheckCycle(ch)
  PROVE  PcInv'
<1>1. prog' = prog /\ Pc!Running
  BY DEF Pc!ResetCycle, Pc!ObserveCycle, Pc!FwdCheckCycle, Pc!BwdCheckCycle, Pc!Retire
<1>2. Pc!FwdExact /\ fwd \in Pc!Checker /\ prog \in [Pc!Orders -> Pc!Packet]
  BY DEF PcInv
<1>0. "verdict" \in DOMAIN bwd /\ "verdict" \in DOMAIN bwd'
  <2>1. "verdict" \in DOMAIN bwd
    BY DEF PcInv
  <2>2. ASSUME NEW m, NEW intr PROVE "verdict" \in DOMAIN Pc!BwdFold(ch, m, intr)
    BY <2>1 DEF Pc!BwdFold
  <2> QED
    BY <2>1, <2>2 DEF Pc!ResetCycle, Pc!ObserveCycle, Pc!FwdCheckCycle, Pc!BwdCheckCycle
<1>3. CASE Pc!ResetCycle(ch)
  <2>1. fwd' = [fwd EXCEPT !.expect_pc_valid = FALSE] /\ seen' = {}
    BY <1>3 DEF Pc!ResetCycle
  <2>2. fwd' \in Pc!Checker /\ fwd'.verdict = "none" /\ fwd'.expect_pc_valid = FALSE
    BY <1>1, <1>2, <2>1 DEF Pc!Checker, Pc!Running
  <2> QED
    BY <1>0, <1>1, <1>2, <2>1, <2>2 DEF PcInv, Pc!FwdExact
<1>4. CASE Pc!ObserveCycle(ch)
  <2>1. fwd' = Pc!FwdFold(ch, NRET) /\ seen' = seen \cup Pc!Lower(ch, NRET)
    BY <1>4 DEF Pc!ObserveCycle
  <2>2. NRET \in 0 .. NRET
    OBVIOUS
  <2>3. /\ fwd' \in Pc!Checker /\ fwd'.insn_order = fwd.insn_order /\ fwd'.verdict = "none"
        /\ seen' \subseteq Pc!Orders
        /\ fwd'.expect_pc_valid <=> fwd.insn_order - 1 \in seen'
        /\ fwd'.expect_pc_valid => fwd'.expect_pc = prog[fwd.insn_order - 1].pc_wdata
    BY <1>1, <2>1, <2>2, PcFold
  <2> QED
    BY <1>0, <1>1, <1>2, <2>3 DEF PcInv, Pc!FwdExact
<1>5. CASE Pc!FwdCheckCycle(ch)
  <2>. DEFINE f == Pc!FwdFold(ch, CHANNEL_IDX)
  <2>1. /\ fwd' = [f EXCEPT !.verdict = IF Pc!FwdAsserts(f) THEN "pass" ELSE "fail"]
        /\ seen' = seen \cup Pc!Lower(ch, CHANNEL_IDX)
    BY <1>5 DEF Pc!FwdCheckCycle
  <2>2. CHANNEL_IDX \in 0 .. NRET
    OBVIOUS
  <2>3. /\ f \in Pc!Checker /\ f.insn_order = fwd.insn_order
        /\ seen' \subseteq Pc!Orders
        /\ f.expect_pc_valid <=> fwd.insn_order - 1 \in seen'
        /\ f.expect_pc_valid => f.expect_pc = prog[fwd.insn_order - 1].pc_wdata
    BY <1>1, <2>1, <2>2, PcFold
  <2>. HIDE DEF f
  <2>4. fwd' \in Pc!Checker /\ fwd'.insn_order = f.insn_order /\ fwd'.verdict # "none"
        /\ (fwd'.verdict = "fail" <=> ~Pc!FwdAsserts(f))
    BY <2>1, <2>3 DEF Pc!Checker
  <2>5. f.insn_order \in Int /\ f.insn_order - 1 + 1 = f.insn_order
    BY <2>3 DEF Pc!Checker, Pc!Orders
  <2>6. ~Pc!FwdAsserts(f)
          <=> f.insn_order - 1 \in seen' /\ Pc!Discontinuity(f.insn_order - 1)
    BY <2>3, <2>5 DEF Pc!FwdAsserts, Pc!Discontinuity
  <2>7. Pc!FwdExact'
    BY <1>1, <2>4, <2>6 DEF Pc!FwdExact, Pc!Discontinuity
  <2> QED
    BY <1>0, <1>1, <1>2, <2>3, <2>4, <2>7 DEF PcInv, Pc!Running
<1>6. CASE Pc!BwdCheckCycle(ch)
  <2>1. fwd' = fwd /\ fwd.verdict = "none" /\ seen' = seen \cup Pc!Lower(ch, CHANNEL_IDX)
    BY <1>1, <1>6 DEF Pc!BwdCheckCycle, Pc!Running
  <2>2. seen' \subseteq Pc!Orders
    <3>1. CHANNEL_IDX \in 0 .. NRET
      OBVIOUS
    <3> QED
      BY <1>1, <2>1, <3>1, PcFold
  <2>3. ~Pc!Running'
    <3>1. ASSUME NEW m, NEW intr, NEW v PROVE [Pc!BwdFold(ch, m, intr) EXCEPT !.verdict = v].verdict = v
      <4>1. "verdict" \in DOMAIN Pc!BwdFold(ch, m, intr)
        BY <1>0 DEF Pc!BwdFold
      <4> QED
        BY <4>1
    <3>2. bwd'.verdict \in {"pass", "fail"}
      BY <1>6, <3>1 DEF Pc!BwdCheckCycle
    <3> QED
      BY <3>2 DEF Pc!Running
  <2> QED
    BY <1>0, <1>1, <1>2, <2>1, <2>2, <2>3 DEF PcInv, Pc!FwdExact
<1> QED
  BY <1>3, <1>4, <1>5, <1>6

(* With one channel pc_bwd remembers the successor and its own interrupt   *)
(* flag.                                                                   *)
NarrowInv ==
  /\ prog \in [PcNarrow!Orders -> PcNarrow!Packet] /\ seen \subseteq PcNarrow!Orders
  /\ bwd \in PcNarrow!Checker /\ "verdict" \in DOMAIN fwd
  /\ PcNarrow!Running =>
       /\ bwd.expect_pc_valid <=> bwd.insn_order + 1 \in seen /\ ~prog[bwd.insn_order + 1].intr
       /\ bwd.expect_pc_valid => bwd.expect_pc = prog[bwd.insn_order + 1].pc_rdata
  /\ PcNarrow!BwdExact

LEMMA NarrowInit ==
  ASSUME N \in Nat, Init, checker = "pc_narrow"
  PROVE  NarrowInv
<1>1. PcNarrow!Init
  BY DEF Init
<1>2. prog \in [PcNarrow!Orders -> PcNarrow!Packet] /\ seen = {} /\ bwd \in PcNarrow!Checker
  BY <1>1 DEF PcNarrow!Init
<1>3. bwd.verdict = "none" /\ bwd.expect_pc_valid = FALSE /\ "verdict" \in DOMAIN fwd
  BY <1>1 DEF PcNarrow!Init, PcNarrow!Checker
<1> QED
  BY <1>2, <1>3 DEF NarrowInv, PcNarrow!BwdExact

(* The fold over no channel or the one there is.  A packet comes once, so  *)
(* the successor is not shown a second time.                               *)
LEMMA NarrowFold ==
  ASSUME N \in Nat, NarrowInv, PcNarrow!Running,
         NEW ch \in PcNarrow!Cycle, NEW m \in 0 .. 1,
         NEW intr \in PcNarrow!IntrOnChannelIdx(ch),
         NEW b, b = PcNarrow!BwdFold(ch, m, intr)
  PROVE  /\ b \in PcNarrow!Checker /\ b.insn_order = bwd.insn_order /\ b.verdict = "none"
         /\ seen \cup PcNarrow!Lower(ch, m) \subseteq PcNarrow!Orders
         /\ b.expect_pc_valid <=> /\ bwd.insn_order + 1 \in seen \cup PcNarrow!Lower(ch, m)
                                  /\ ~prog[bwd.insn_order + 1].intr
         /\ b.expect_pc_valid => b.expect_pc = prog[bwd.insn_order + 1].pc_rdata
<1>1. bwd \in PcNarrow!Checker /\ bwd.insn_order \in Nat /\ bwd.insn_order + 1 # PcNarrow!Idle
  BY DEF NarrowInv, PcNarrow!Checker, PcNarrow!Orders, PcNarrow!Idle
<1>2. 0 \in PcNarrow!Channels /\ ch[0] \in PcNarrow!Orders \cup {PcNarrow!Idle}
  BY DEF PcNarrow!Cycle, PcNarrow!Channels
<1>3. seen \cup PcNarrow!Lower(ch, m) \subseteq PcNarrow!Orders
  BY <1>2 DEF NarrowInv, PcNarrow!Lower
<1>4. PcNarrow!CarriedBy(ch, m, bwd.insn_order + 1) # {}
        <=> bwd.insn_order + 1 \in PcNarrow!Lower(ch, m)
  BY DEF PcNarrow!CarriedBy, PcNarrow!Lower
<1>5. CASE bwd.insn_order + 1 \in PcNarrow!Lower(ch, m)
  <2>1. ch[0] = bwd.insn_order + 1 /\ ch[0] # PcNarrow!Idle
    BY <1>5 DEF PcNarrow!Lower
  <2>2. intr = prog[bwd.insn_order + 1].intr
    BY <2>1 DEF PcNarrow!IntrOnChannelIdx
  <2>3. prog[bwd.insn_order + 1] \in PcNarrow!Packet
    BY <1>3, <1>5 DEF NarrowInv
  <2>4. prog[bwd.insn_order + 1].pc_rdata \in PCs /\ intr \in BOOLEAN
    BY <2>2, <2>3 DEF PcNarrow!Packet
  <2>5. b = [bwd EXCEPT !.expect_pc = prog[bwd.insn_order + 1].pc_rdata,
                        !.expect_pc_valid = ~intr]
    BY <1>4, <1>5 DEF PcNarrow!BwdFold
  <2> QED
    BY <1>1, <1>3, <1>5, <2>2, <2>4, <2>5 DEF PcNarrow!Checker, PcNarrow!Running
<1>6. CASE bwd.insn_order + 1 \notin PcNarrow!Lower(ch, m)
  <2>1. b = bwd
    BY <1>4, <1>6 DEF PcNarrow!BwdFold
  <2> QED
    BY <1>1, <1>3, <1>6, <2>1 DEF NarrowInv, PcNarrow!Running
<1> QED
  BY <1>5, <1>6

LEMMA NarrowStep ==
  ASSUME N \in Nat, NarrowInv, NEW ch \in PcNarrow!Cycle,
         \/ PcNarrow!ResetCycle(ch) \/ PcNarrow!ObserveCycle(ch)
         \/ PcNarrow!FwdCheckCycle(ch) \/ PcNarrow!BwdCheckCycle(ch)
  PROVE  NarrowInv'
<1>1. prog' = prog /\ PcNarrow!Running
  BY DEF PcNarrow!ResetCycle, PcNarrow!ObserveCycle, PcNarrow!FwdCheckCycle,
         PcNarrow!BwdCheckCycle, PcNarrow!Retire
<1>2. bwd \in PcNarrow!Checker /\ prog \in [PcNarrow!Orders -> PcNarrow!Packet]
  BY DEF NarrowInv
<1>0. "verdict" \in DOMAIN fwd'
  <2>1. "verdict" \in DOMAIN fwd
    BY DEF NarrowInv
  <2>2. ASSUME NEW m PROVE "verdict" \in DOMAIN PcNarrow!FwdFold(ch, m)
    BY <2>1 DEF PcNarrow!FwdFold
  <2> QED
    BY <2>1, <2>2 DEF PcNarrow!ResetCycle, PcNarrow!ObserveCycle,
                      PcNarrow!FwdCheckCycle, PcNarrow!BwdCheckCycle
<1>3. CASE PcNarrow!ResetCycle(ch)
  <2>1. bwd' = [bwd EXCEPT !.expect_pc_valid = FALSE] /\ seen' = {}
    BY <1>3 DEF PcNarrow!ResetCycle
  <2>2. bwd' \in PcNarrow!Checker /\ bwd'.verdict = "none" /\ bwd'.expect_pc_valid = FALSE
    BY <1>1, <1>2, <2>1 DEF PcNarrow!Checker, PcNarrow!Running
  <2> QED
    BY <1>0, <1>1, <1>2, <2>1, <2>2 DEF NarrowInv, PcNarrow!BwdExact
<1>4. CASE PcNarrow!ObserveCycle(ch)
  <2>1. PICK intr \in PcNarrow!IntrOnChannelIdx(ch) : bwd' = PcNarrow!BwdFold(ch, 1, intr)
    BY <1>4 DEF PcNarrow!ObserveCycle
  <2>2. seen' = seen \cup PcNarrow!Lower(ch, 1) /\ 1 \in 0 .. 1
    BY <1>4 DEF PcNarrow!ObserveCycle
  <2>3. /\ bwd' \in PcNarrow!Checker /\ bwd'.insn_order = bwd.insn_order /\ bwd'.verdict = "none"
        /\ seen' \subseteq PcNarrow!Orders
        /\ bwd'.expect_pc_valid
             <=> bwd.insn_order + 1 \in seen' /\ ~prog[bwd.insn_order + 1].intr
        /\ bwd'.expect_pc_valid => bwd'.expect_pc = prog[bwd.insn_order + 1].pc_rdata
    BY <1>1, <2>1, <2>2, NarrowFold
  <2> QED
    BY <1>0, <1>1, <1>2, <2>3 DEF NarrowInv, PcNarrow!BwdExact
<1>5. CASE PcNarrow!BwdCheckCycle(ch)
  <2>1. PICK intr \in PcNarrow!IntrOnChannelIdx(ch) :
          bwd' = [PcNarrow!BwdFold(ch, 0, intr) EXCEPT
                    !.verdict = IF PcNarrow!BwdAsserts(PcNarrow!BwdFold(ch, 0, intr))
                                THEN "pass" ELSE "fail"]
    BY <1>5 DEF PcNarrow!BwdCheckCycle
  <2>. DEFINE b == PcNarrow!BwdFold(ch, 0, intr)
  <2>2. seen' = seen \cup PcNarrow!Lower(ch, 0) /\ 0 \in 0 .. 1
    BY <1>5 DEF PcNarrow!BwdCheckCycle
  <2>3. /\ b \in PcNarrow!Checker /\ b.insn_order = bwd.insn_order
        /\ seen' \subseteq PcNarrow!Orders
        /\ b.expect_pc_valid
             <=> bwd.insn_order + 1 \in seen' /\ ~prog[bwd.insn_order + 1].intr
        /\ b.expect_pc_valid => b.expect_pc = prog[bwd.insn_order + 1].pc_rdata
    BY <1>1, <2>2, NarrowFold
  <2>4. bwd' = [b EXCEPT !.verdict = IF PcNarrow!BwdAsserts(b) THEN "pass" ELSE "fail"]
    BY <2>1
  <2>. HIDE DEF b
  <2>5. bwd' \in PcNarrow!Checker /\ bwd'.insn_order = b.insn_order /\ bwd'.verdict # "none"
        /\ (bwd'.verdict = "fail" <=> ~PcNarrow!BwdAsserts(b))
    BY <2>3, <2>4 DEF PcNarrow!Checker
  <2>6. ~PcNarrow!BwdAsserts(b)
          <=> b.insn_order + 1 \in seen' /\ PcNarrow!Discontinuity(b.insn_order)
    BY <2>3 DEF PcNarrow!BwdAsserts, PcNarrow!Discontinuity
  <2>7. PcNarrow!BwdExact'
    BY <1>1, <2>5, <2>6 DEF PcNarrow!BwdExact, PcNarrow!Discontinuity
  <2> QED
    BY <1>0, <1>1, <1>2, <2>3, <2>5, <2>7 DEF NarrowInv, PcNarrow!Running
<1>6. CASE PcNarrow!FwdCheckCycle(ch)
  <2>1. bwd' = bwd /\ bwd.verdict = "none" /\ seen' = seen \cup PcNarrow!Lower(ch, 0)
    BY <1>1, <1>6 DEF PcNarrow!FwdCheckCycle, PcNarrow!Running
  <2>2. seen' = seen /\ seen \subseteq PcNarrow!Orders
    BY <2>1 DEF NarrowInv, PcNarrow!Lower
  <2>3. ~PcNarrow!Running'
    <3>1. ASSUME NEW m, NEW v PROVE [PcNarrow!FwdFold(ch, m) EXCEPT !.verdict = v].verdict = v
      <4>1. "verdict" \in DOMAIN PcNarrow!FwdFold(ch, m)
        BY DEF NarrowInv, PcNarrow!FwdFold
      <4> QED
        BY <4>1
    <3>2. fwd'.verdict \in {"pass", "fail"}
      BY <1>6, <3>1 DEF PcNarrow!FwdCheckCycle
    <3> QED
      BY <3>2 DEF PcNarrow!Running
  <2> QED
    BY <1>0, <1>1, <1>2, <2>1, <2>2, <2>3 DEF NarrowInv, PcNarrow!BwdExact
<1> QED
  BY <1>3, <1>4, <1>5, <1>6

(* The program counter checks in the testbench fail exactly when the       *)
(* neighbour in program order was shown and the two disagree: pc_fwd for   *)
(* any number of channels, pc_bwd with one.                                *)
THEOREM Neighbours ==
  ASSUME NRET \in Nat \ {0}, CHANNEL_IDX \in 0 .. NRET - 1, N \in Nat
  PROVE  MCSpec => []NeighbourExact
<1>. DEFINE I == (checker = "pc" => PcInv) /\ (checker = "pc_narrow" => NarrowInv)
<1>1. MCInit => I
  BY CheckerInit, PcInit, NarrowInit
<1>2. I /\ [MCNext]_<<vars, coreVars, stackVars>> => I'
  <2>1. SUFFICES ASSUME I, [MCNext]_<<vars, coreVars, stackVars>> PROVE I'
    OBVIOUS
  <2>2. checker' = checker
    BY <2>1, SamePart
  <2>3. CASE UNCHANGED vars
    <3>1. UNCHANGED <<prog, seen, fwd, bwd>>
      BY <2>3 DEF vars, pcVars
    <3> QED
      BY <2>1, <2>2, <3>1
         DEF PcInv, Pc!Running, Pc!FwdExact, Pc!Discontinuity, NarrowInv,
             PcNarrow!Running, PcNarrow!BwdExact, PcNarrow!Discontinuity
  <2>4. CASE checker = "pc" /\ ~UNCHANGED vars
    <3>1. Pc!Next
      BY <2>1, <2>4, CheckerNext DEF Next
    <3> QED
      BY <2>1, <2>2, <2>4, <3>1, PcStep DEF Pc!Next
  <2>5. CASE checker = "pc_narrow" /\ ~UNCHANGED vars
    <3>1. PcNarrow!Next
      BY <2>1, <2>5, CheckerNext DEF Next
    <3> QED
      BY <2>1, <2>2, <2>5, <3>1, NarrowStep DEF PcNarrow!Next
  <2> QED
    BY <2>2, <2>3, <2>4, <2>5
<1>3. I => NeighbourExact
  BY DEF PcInv, NarrowInv, NeighbourExact
<1>. HIDE DEF I
<1>. QED  BY <1>1, <1>2, <1>3, PTL DEF MCSpec
-----------------------------------------------------------------------------
(* The two instances of the register file are the same formulas.           *)
LEMMA HippoInit == Hippo!Init => HippoProofs!Init
  BY DEF Hippo!Init, HippoProofs!Init, Hippo!Zero, HippoProofs!Zero,
         Hippo!Instances, HippoProofs!Instances

LEMMA HippoNext == Hippo!Next => HippoProofs!Next
  BY DEF Hippo!Next, HippoProofs!Next, Hippo!Reset, HippoProofs!Reset,
         Hippo!Normal, HippoProofs!Normal, Hippo!Push, HippoProofs!Push,
         Hippo!Pop, HippoProofs!Pop, Hippo!Written, HippoProofs!Written,
         Hippo!Takes, HippoProofs!Takes, Hippo!Popped, HippoProofs!Popped,
         Hippo!push_data, HippoProofs!push_data, Hippo!pop_data,
         HippoProofs!pop_data, Hippo!Instance, HippoProofs!Instance,
         Hippo!Zero, HippoProofs!Zero, Hippo!Instances,
         HippoProofs!Instances, Hippo!Contents, HippoProofs!Contents

(* Only the register file's own steps change it.                           *)
LEMMA StackNext ==
  [MCNext]_<<vars, coreVars, stackVars>> /\ checker = "stack" =>
    /\ [HippoProofs!Next]_(HippoProofs!vars)
    /\ checker' = checker
  BY HippoNext DEF MCNext, Next, vars, stackVars, HippoProofs!vars

(* A clock edge that leaves the stack of contexts alone is work without a  *)
(* write.                                                                  *)
LEMMA StackRestore ==
  ASSUME HippoProofs!TypeOK, HippoProofs!TypeOK', HippoProofs!Next
  PROVE  Hippo!Restore
<1>1. [HippoProofs!Stack!Next]_(HippoProofs!Stack!vars)
  BY HippoProofs!StackStep, DepthAssumption, MaskAssumption, DataAssumption
<1>2. UNCHANGED HippoProofs!Stack!vars => HippoProofs!Stack!Next
  BY DEF HippoProofs!Stack!vars, HippoProofs!Stack!Next, HippoProofs!Stack!Work,
         HippoProofs!Stack!Written
<1>3. HippoProofs!Stack!Next => Hippo!Restore
  BY DEF Hippo!Restore, Hippo!Stack!Next, HippoProofs!Stack!Next,
         Hippo!Stack!Reset, HippoProofs!Stack!Reset, Hippo!Stack!Work,
         HippoProofs!Stack!Work, Hippo!Stack!Written,
         HippoProofs!Stack!Written, Hippo!Stack!Enter,
         HippoProofs!Stack!Enter, Hippo!Stack!Return,
         HippoProofs!Stack!Return, Hippo!Stack!ReturnLost,
         HippoProofs!Stack!ReturnLost, Hippo!Stack!Restored,
         HippoProofs!Stack!Restored, Hippo!Stack!Saved,
         HippoProofs!Stack!Saved, Hippo!Stack!Kept, HippoProofs!Stack!Kept,
         Hippo!Stack!Held, HippoProofs!Stack!Held
<1>. QED  BY <1>1, <1>2, <1>3

(* In the testbench, too, every return from an interrupt restores exactly  *)
(* what the matching entry saved, whatever the depth, the registers, the   *)
(* masks and the width of the data.                                        *)
THEOREM StackRestores == MCSpec => Restores
<1>. DEFINE I == checker = "stack" => HippoProofs!TypeOK
<1>1. MCInit => I
  <2>1. Init => checker # "stack"
    BY DEF Init
  <2>. QED  BY <2>1, HippoInit, HippoProofs!TypeInit, DepthAssumption, MaskAssumption, DataAssumption
              DEF MCInit
<1>2. I /\ [MCNext]_<<vars, coreVars, stackVars>> => I'
  <2>1. HippoProofs!TypeOK /\ [HippoProofs!Next]_(HippoProofs!vars) => HippoProofs!TypeOK'
    BY HippoProofs!TypeStep, DepthAssumption, MaskAssumption, DataAssumption
  <2>. QED  BY <2>1, StackNext, SamePart
<1>3. I /\ I' /\ [MCNext]_<<vars, coreVars, stackVars>>
        => [checker = "stack" => Hippo!Restore]_stackVars
  <2>1. UNCHANGED HippoProofs!vars => UNCHANGED stackVars
    BY DEF HippoProofs!vars, stackVars
  <2>2. HippoProofs!TypeOK /\ HippoProofs!TypeOK' /\ HippoProofs!Next => Hippo!Restore
    BY StackRestore
  <2>. QED  BY <2>1, <2>2, StackNext, SamePart
<1>. HIDE DEF I
<1>. QED  BY <1>1, <1>2, <1>3, PTL DEF MCSpec, Restores
-----------------------------------------------------------------------------
(* The two instances of the core are the same formulas.                    *)
LEMMA NervNext == Nerv!Next => NervProofs!Next
<1>1. Nerv!Inputs = NervProofs!Inputs
  BY DEF Nerv!Inputs, NervProofs!Inputs, Nerv!May, NervProofs!May, Nerv!Pending,
         NervProofs!Pending, Nerv!Late, NervProofs!Late
<1>2. \A irq : Nerv!irq_num(irq) = NervProofs!irq_num(irq)
  BY DEF Nerv!irq_num, NervProofs!irq_num, Nerv!Max, NervProofs!Max
<1>3. \A in : Nerv!cycle(in) = NervProofs!cycle(in) /\ Nerv!csr_mode(in) = NervProofs!csr_mode(in)
  BY <1>2 DEF Nerv!cycle, NervProofs!cycle, Nerv!illinsn, NervProofs!illinsn,
         Nerv!csr_mode, NervProofs!csr_mode, Nerv!Late, NervProofs!Late
<1>4. \A next, cause, mpie : Nerv!Entry(next, cause, mpie) = NervProofs!Entry(next, cause, mpie)
  BY DEF Nerv!Entry, NervProofs!Entry
<1>5. \A in : Nerv!csr_opcode(in) = NervProofs!csr_opcode(in)
  BY <1>3, <1>4 DEF Nerv!csr_opcode, NervProofs!csr_opcode, Nerv!csr_wdata,
         NervProofs!csr_wdata
<1>6. \A in : Nerv!csr_next(in) = NervProofs!csr_next(in)
  BY <1>2, <1>3, <1>4, <1>5 DEF Nerv!csr_next, NervProofs!csr_next, Nerv!NoCsrs,
         NervProofs!NoCsrs
<1>7. \A in : Nerv!npc(in) = NervProofs!npc(in)
  BY <1>2, <1>3 DEF Nerv!npc, NervProofs!npc, Nerv!npc_opcode, NervProofs!npc_opcode,
         Nerv!handler, NervProofs!handler
<1>8. \A in : Nerv!Bus(in) = NervProofs!Bus(in)
  BY <1>3 DEF Nerv!Bus, NervProofs!Bus, Nerv!NoAccess, NervProofs!NoAccess
<1>9. \A in : Nerv!Write(in) = NervProofs!Write(in)
  BY <1>3 DEF Nerv!Write, NervProofs!Write
<1>10. \A in, p : Nerv!Result(in, p) = NervProofs!Result(in, p)
  BY <1>9 DEF Nerv!Result, NervProofs!Result
<1>11. \A in : Nerv!FirstCycle(in) = NervProofs!FirstCycle(in)
  BY <1>3, <1>7, <1>8, <1>10 DEF Nerv!FirstCycle, NervProofs!FirstCycle
<1>12. \A in : Nerv!rvfiNext(in) = NervProofs!rvfiNext(in)
  BY <1>3, <1>10, <1>11 DEF Nerv!rvfiNext, NervProofs!rvfiNext, Nerv!NoPacket,
         NervProofs!NoPacket
<1>13. \A in : Nerv!Clock(in) = NervProofs!Clock(in)
  <2>1. \A in : Nerv!reset_qNext(in) = NervProofs!reset_qNext(in)
    BY DEF Nerv!reset_qNext, NervProofs!reset_qNext
  <2>2. \A in : Nerv!next_rvfi_valid(in) = NervProofs!next_rvfi_valid(in)
    BY <1>3, <1>8 DEF Nerv!next_rvfi_valid, NervProofs!next_rvfi_valid
  <2>3. \A in : Nerv!next_rvfi_intrNext(in) = NervProofs!next_rvfi_intrNext(in)
    BY <1>3 DEF Nerv!next_rvfi_intrNext, NervProofs!next_rvfi_intrNext
  <2>. QED
    BY <1>3, <1>6, <1>7, <1>8, <1>9, <1>12, <2>1, <2>2, <2>3, ZenonT(60)
       DEF Nerv!Clock, NervProofs!Clock
<1>14. \A in : Nerv!Quiet(in) = NervProofs!Quiet(in) /\ Nerv!Seen(in) = NervProofs!Seen(in)
  BY <1>3 DEF Nerv!Quiet, NervProofs!Quiet, Nerv!Seen, NervProofs!Seen
<1>. QED
  BY <1>1, <1>3, <1>13, <1>14 DEF Nerv!Next, NervProofs!Next, Nerv!Pending,
         NervProofs!Pending, Nerv!Late, NervProofs!Late

LEMMA NervExecute == NervProofs!Execute => Nerv!Execute
  BY ZenonT(60) DEF Nerv!Execute, NervProofs!Execute, Nerv!ShownPc, NervProofs!ShownPc,
         Nerv!ShownOrder, NervProofs!ShownOrder, Nerv!ShownEntering,
         NervProofs!ShownEntering, Nerv!ShownPacket, NervProofs!ShownPacket,
         Nerv!M!Next, NervProofs!M!Next, Nerv!M!Rest, NervProofs!M!Rest, Nerv!M!Reset,
         NervProofs!M!Reset, Nerv!M!FetchFault, NervProofs!M!FetchFault,
         Nerv!M!Compute, NervProofs!M!Compute, Nerv!M!System, NervProofs!M!System,
         Nerv!M!Load, NervProofs!M!Load, Nerv!M!Store, NervProofs!M!Store,
         Nerv!M!Illegal, NervProofs!M!Illegal, Nerv!M!AccessFault,
         NervProofs!M!AccessFault, Nerv!M!Interrupt, NervProofs!M!Interrupt,
         Nerv!M!Retires, NervProofs!M!Retires, Nerv!M!Link, NervProofs!M!Link,
         Nerv!M!Packet, NervProofs!M!Packet, Nerv!M!Written, NervProofs!M!Written,
         Nerv!M!Waited, NervProofs!M!Waited, Nerv!M!Called, NervProofs!M!Called,
         Nerv!M!Returned, NervProofs!M!Returned, Nerv!M!Entered, NervProofs!M!Entered,
         Nerv!M!NoCsrs, NervProofs!M!NoCsrs, Nerv!M!After, NervProofs!M!After,
         Nerv!M!Handler, NervProofs!M!Handler, Nerv!M!Vectored, NervProofs!M!Vectored,
         Nerv!Late, NervProofs!Late, Nerv!Pending, NervProofs!Pending

LEMMA NervInit == Nerv!Init => NervProofs!Init
  BY DEF Nerv!Init, NervProofs!Init, Nerv!NoCsrs, NervProofs!NoCsrs, Nerv!NoAccess,
         NervProofs!NoAccess, Nerv!NoPacket, NervProofs!NoPacket

LEMMA NervInvariant == NervProofs!Parameters /\ NervProofs!IInv => Nerv!TypeOK /\ Nerv!OneAtATime
  BY NervProofs!InvTypes DEF NervProofs!IInv, Nerv!TypeOK, NervProofs!TypeOK,
         Nerv!Addresses, NervProofs!Addresses, Nerv!OneAtATime, NervProofs!OneAtATime,
         Nerv!Late, NervProofs!Late

LEMMA NervParameters == Nerv!Parameters => NervProofs!Parameters
  BY DEF Nerv!Parameters, NervProofs!Parameters, Nerv!Addresses, NervProofs!Addresses

LEMMA PlainNext == Plain!Next => PlainProofs!Next
<1>1. Plain!Inputs = PlainProofs!Inputs
  BY DEF Plain!Inputs, PlainProofs!Inputs, Plain!May, PlainProofs!May, Plain!Pending,
         PlainProofs!Pending, Plain!Late, PlainProofs!Late
<1>2. \A irq : Plain!irq_num(irq) = PlainProofs!irq_num(irq)
  BY DEF Plain!irq_num, PlainProofs!irq_num, Plain!Max, PlainProofs!Max
<1>3. \A in : Plain!cycle(in) = PlainProofs!cycle(in) /\ Plain!csr_mode(in) = PlainProofs!csr_mode(in)
  BY <1>2 DEF Plain!cycle, PlainProofs!cycle, Plain!illinsn, PlainProofs!illinsn,
         Plain!csr_mode, PlainProofs!csr_mode, Plain!Late, PlainProofs!Late
<1>4. \A next, cause, mpie : Plain!Entry(next, cause, mpie) = PlainProofs!Entry(next, cause, mpie)
  BY DEF Plain!Entry, PlainProofs!Entry
<1>5. \A in : Plain!csr_opcode(in) = PlainProofs!csr_opcode(in)
  BY <1>3, <1>4 DEF Plain!csr_opcode, PlainProofs!csr_opcode, Plain!csr_wdata,
         PlainProofs!csr_wdata
<1>6. \A in : Plain!csr_next(in) = PlainProofs!csr_next(in)
  BY <1>2, <1>3, <1>4, <1>5 DEF Plain!csr_next, PlainProofs!csr_next, Plain!NoCsrs,
         PlainProofs!NoCsrs
<1>7. \A in : Plain!npc(in) = PlainProofs!npc(in)
  BY <1>2, <1>3 DEF Plain!npc, PlainProofs!npc, Plain!npc_opcode,
         PlainProofs!npc_opcode, Plain!handler, PlainProofs!handler
<1>8. \A in : Plain!Bus(in) = PlainProofs!Bus(in)
  BY <1>3 DEF Plain!Bus, PlainProofs!Bus, Plain!NoAccess, PlainProofs!NoAccess
<1>9. \A in : Plain!Write(in) = PlainProofs!Write(in)
  BY <1>3 DEF Plain!Write, PlainProofs!Write
<1>10. \A in, p : Plain!Result(in, p) = PlainProofs!Result(in, p)
  BY <1>9 DEF Plain!Result, PlainProofs!Result
<1>11. \A in : Plain!FirstCycle(in) = PlainProofs!FirstCycle(in)
  BY <1>3, <1>7, <1>8, <1>10 DEF Plain!FirstCycle, PlainProofs!FirstCycle
<1>12. \A in : Plain!rvfiNext(in) = PlainProofs!rvfiNext(in)
  BY <1>3, <1>10, <1>11 DEF Plain!rvfiNext, PlainProofs!rvfiNext, Plain!NoPacket,
         PlainProofs!NoPacket
<1>13. \A in : Plain!Clock(in) = PlainProofs!Clock(in)
  <2>1. \A in : Plain!reset_qNext(in) = PlainProofs!reset_qNext(in)
    BY DEF Plain!reset_qNext, PlainProofs!reset_qNext
  <2>2. \A in : Plain!next_rvfi_valid(in) = PlainProofs!next_rvfi_valid(in)
    BY <1>3, <1>8 DEF Plain!next_rvfi_valid, PlainProofs!next_rvfi_valid
  <2>3. \A in : Plain!next_rvfi_intrNext(in) = PlainProofs!next_rvfi_intrNext(in)
    BY <1>3 DEF Plain!next_rvfi_intrNext, PlainProofs!next_rvfi_intrNext
  <2>. QED
    BY <1>3, <1>6, <1>7, <1>8, <1>9, <1>12, <2>1, <2>2, <2>3, ZenonT(60)
       DEF Plain!Clock, PlainProofs!Clock
<1>14. \A in : Plain!Quiet(in) = PlainProofs!Quiet(in) /\ Plain!Seen(in) = PlainProofs!Seen(in)
  BY <1>3 DEF Plain!Quiet, PlainProofs!Quiet, Plain!Seen, PlainProofs!Seen
<1>. QED
  BY <1>1, <1>3, <1>13, <1>14 DEF Plain!Next, PlainProofs!Next, Plain!Pending,
         PlainProofs!Pending, Plain!Late, PlainProofs!Late

LEMMA PlainExecute == PlainProofs!Execute => Plain!Execute
  BY ZenonT(60) DEF Plain!Execute, PlainProofs!Execute, Plain!ShownPc, PlainProofs!ShownPc,
         Plain!ShownOrder, PlainProofs!ShownOrder, Plain!ShownEntering,
         PlainProofs!ShownEntering, Plain!ShownPacket, PlainProofs!ShownPacket,
         Plain!M!Next, PlainProofs!M!Next, Plain!M!Rest, PlainProofs!M!Rest,
         Plain!M!Reset, PlainProofs!M!Reset, Plain!M!FetchFault,
         PlainProofs!M!FetchFault, Plain!M!Compute, PlainProofs!M!Compute,
         Plain!M!System, PlainProofs!M!System, Plain!M!Load, PlainProofs!M!Load,
         Plain!M!Store, PlainProofs!M!Store, Plain!M!Illegal, PlainProofs!M!Illegal,
         Plain!M!AccessFault, PlainProofs!M!AccessFault, Plain!M!Interrupt,
         PlainProofs!M!Interrupt, Plain!M!Retires, PlainProofs!M!Retires,
         Plain!M!Link, PlainProofs!M!Link, Plain!M!Packet, PlainProofs!M!Packet,
         Plain!M!Written, PlainProofs!M!Written, Plain!M!Waited, PlainProofs!M!Waited,
         Plain!M!Called, PlainProofs!M!Called, Plain!M!Returned,
         PlainProofs!M!Returned, Plain!M!Entered, PlainProofs!M!Entered,
         Plain!M!NoCsrs, PlainProofs!M!NoCsrs, Plain!M!After, PlainProofs!M!After,
         Plain!M!Handler, PlainProofs!M!Handler, Plain!M!Vectored,
         PlainProofs!M!Vectored, Plain!Late, PlainProofs!Late, Plain!Pending,
         PlainProofs!Pending

LEMMA PlainInit == Plain!Init => PlainProofs!Init
  BY DEF Plain!Init, PlainProofs!Init, Plain!NoCsrs, PlainProofs!NoCsrs,
         Plain!NoAccess, PlainProofs!NoAccess, Plain!NoPacket, PlainProofs!NoPacket

LEMMA PlainInvariant == PlainProofs!Parameters /\ PlainProofs!IInv => Plain!TypeOK /\ Plain!OneAtATime
  BY PlainProofs!InvTypes DEF PlainProofs!IInv, Plain!TypeOK, PlainProofs!TypeOK,
         Plain!Addresses, PlainProofs!Addresses, Plain!OneAtATime,
         PlainProofs!OneAtATime, Plain!Late, PlainProofs!Late

LEMMA PlainParameters == Plain!Parameters => PlainProofs!Parameters
  BY DEF Plain!Parameters, PlainProofs!Parameters, Plain!Addresses,
         PlainProofs!Addresses

(* The invariant of the core that runs.                                    *)
NervInv ==
  /\ checker = "nerv"       => NervProofs!IInv
  /\ checker = "nerv_plain" => PlainProofs!IInv

LEMMA NervInvInit == MCInit => NervInv
<1>1. MCInit /\ checker = "nerv" => Nerv!Init
  BY DEF MCInit, Init
<1>2. MCInit /\ checker = "nerv_plain" => Plain!Init
  BY DEF MCInit, Init
<1>. QED
  BY <1>1, <1>2, CoreAssumption, NervInit, PlainInit, NervParameters, PlainParameters,
     NervProofs!InitInv, PlainProofs!InitInv DEF NervInv

LEMMA NervInvStep ==
  ASSUME NervInv, [MCNext]_<<vars, coreVars, stackVars>>
  PROVE  /\ NervInv'
         /\ [/\ checker = "nerv"       => Nerv!Execute
             /\ checker = "nerv_plain" => Plain!Execute]_coreVars
<1>1. checker' = checker
  BY SamePart
<1>2. CASE UNCHANGED coreVars
  <2>1. UNCHANGED NervProofs!vars /\ UNCHANGED PlainProofs!vars
    BY <1>2 DEF coreVars, NervProofs!vars, PlainProofs!vars
  <2>. QED
    BY <1>1, <1>2, <2>1, NervProofs!StutterInv, PlainProofs!StutterInv DEF NervInv
<1>3. CASE checker = "nerv" /\ Nerv!Next
  BY <1>1, <1>3, CoreAssumption, NervParameters, NervNext, NervExecute, NervProofs!StepInv
     DEF NervInv
<1>4. CASE checker = "nerv_plain" /\ Plain!Next
  BY <1>1, <1>4, CoreAssumption, PlainParameters, PlainNext, PlainExecute,
     PlainProofs!StepInv DEF NervInv
<1>. QED
  BY <1>2, <1>3, <1>4 DEF MCNext

(* Whatever stalls, faults, interrupts and resets come in whatever cycle,  *)
(* nerv.sv's RVFI port shows a run of the in-order machine: no instruction *)
(* is lost, done twice or left half done, in either build of the core.     *)
THEOREM NervExecutes == MCSpec => Executes
<1>1. MCInit => NervInv
  BY NervInvInit
<1>2. NervInv /\ [MCNext]_<<vars, coreVars, stackVars>>
        => /\ NervInv'
           /\ [/\ checker = "nerv"       => Nerv!Execute
               /\ checker = "nerv_plain" => Plain!Execute]_coreVars
  BY NervInvStep
<1>. QED  BY <1>1, <1>2, PTL DEF MCSpec, Executes

(* Every load and store that retires has been on the data bus of nerv.sv   *)
(* once and no other instruction has, and an instruction comes out in its  *)
(* first or second cycle that is not stalled.                              *)
THEOREM NervOneAtATime == MCSpec => []OneAtATime
<1>1. MCInit => NervInv
  BY NervInvInit
<1>2. NervInv /\ [MCNext]_<<vars, coreVars, stackVars>> => NervInv'
  BY NervInvStep
<1>3. NervInv => OneAtATime
  BY CoreAssumption, NervParameters, PlainParameters, NervInvariant, PlainInvariant
     DEF NervInv, OneAtATime
<1>. QED  BY <1>1, <1>2, <1>3, PTL DEF MCSpec
-----------------------------------------------------------------------------
(* rvfi_causal_check on any core: without the flag, no later reader of the *)
(* register has been shown.                                                *)
CausalInv ==
  /\ insn_order \in Causal!Orders /\ seen \subseteq Causal!Orders
  /\ found_non_causal \in BOOLEAN
  /\ verdict = "none" /\ ~found_non_causal =>
       \A m \in seen : ~(m > insn_order /\ Causal!Reads(m, register_index))
  /\ Causal!NothingMissed

LEMMA CausalInit ==
  ASSUME Init, checker = "causal"
  PROVE  CausalInv
<1>1. Causal!Init
  BY DEF Init
<1> QED
  BY <1>1 DEF Causal!Init, CausalInv, Causal!NothingMissed

(* A flag that is still clear has seen no later reader on these channels.  *)
LEMMA CausalFold ==
  ASSUME NRET \in Nat \ {0}, CausalInv, verdict = "none",
         NEW ch \in Causal!Cycle, NEW m \in 0 .. NRET,
         ~(found_non_causal \/ Causal!LaterReader(ch, m))
  PROVE  \A n \in seen \cup Causal!Lower(ch, m) :
           ~(n > insn_order /\ Causal!Reads(n, register_index))
<1> SUFFICES ASSUME NEW n \in seen \cup Causal!Lower(ch, m), n > insn_order, Causal!Reads(n, register_index)
             PROVE  FALSE
  OBVIOUS
<1>1. n \notin seen
  BY DEF CausalInv
<1>2. PICK d \in 0 .. m - 1 : n = ch[d] /\ ch[d] # Causal!Idle
  BY <1>1 DEF Causal!Lower
<1> QED
  BY <1>2 DEF Causal!LaterReader

LEMMA CausalLower ==
  ASSUME NRET \in Nat \ {0}, NEW ch \in Causal!Cycle, NEW m \in 0 .. NRET
  PROVE  Causal!Lower(ch, m) \subseteq Causal!Orders
  BY DEF Causal!Lower, Causal!Cycle, Causal!Channels, Causal!Idle

LEMMA CausalStep ==
  ASSUME NRET \in Nat \ {0}, CHANNEL_IDX \in 0 .. NRET - 1, N \in Nat,
         CausalInv, NEW ch \in Causal!Cycle,
         Causal!ResetCycle(ch) \/ Causal!ObserveCycle(ch) \/ Causal!CheckCycle(ch)
  PROVE  CausalInv'
<1>1. verdict = "none" /\ insn_order' = insn_order /\ register_index' = register_index /\ prog' = prog
  BY DEF Causal!ResetCycle, Causal!ObserveCycle, Causal!CheckCycle, Causal!consts, Causal!Retire
<1>2. insn_order \in Causal!Orders /\ seen \subseteq Causal!Orders /\ found_non_causal \in BOOLEAN
  BY DEF CausalInv
<1>3. NRET \in 0 .. NRET /\ CHANNEL_IDX \in 0 .. NRET
  OBVIOUS
<1>4. CASE Causal!ResetCycle(ch)
  BY <1>1, <1>2, <1>4 DEF Causal!ResetCycle, CausalInv, Causal!NothingMissed
<1>5. CASE Causal!ObserveCycle(ch)
  <2>1. /\ found_non_causal' = (found_non_causal \/ Causal!LaterReader(ch, NRET))
        /\ seen' = seen \cup Causal!Lower(ch, NRET) /\ verdict' = "none"
    BY <1>1, <1>5 DEF Causal!ObserveCycle
  <2>2. seen' \subseteq Causal!Orders
    BY <1>2, <1>3, <2>1, CausalLower
  <2>3. ~found_non_causal' => \A m \in seen' : ~(m > insn_order /\ Causal!Reads(m, register_index))
    BY <1>1, <1>3, <2>1, CausalFold
  <2>4. found_non_causal' \in BOOLEAN
    BY <1>2, <2>1
  <2> QED
    BY <1>1, <1>2, <2>1, <2>2, <2>3, <2>4 DEF CausalInv, Causal!NothingMissed, Causal!Reads
<1>6. CASE Causal!CheckCycle(ch)
  <2>1. /\ found_non_causal' = (found_non_causal \/ Causal!LaterReader(ch, CHANNEL_IDX))
        /\ seen' = seen \cup Causal!Lower(ch, CHANNEL_IDX)
        /\ verdict' = IF found_non_causal' THEN "fail" ELSE "pass"
    BY <1>6 DEF Causal!CheckCycle
  <2>2. seen' \subseteq Causal!Orders
    BY <1>2, <1>3, <2>1, CausalLower
  <2>3. ~found_non_causal' => \A m \in seen' : ~(m > insn_order /\ Causal!Reads(m, register_index))
    BY <1>1, <1>3, <2>1, CausalFold
  <2>4. found_non_causal' \in BOOLEAN
    BY <1>2, <2>1
  <2>5. verdict' # "none" /\ (verdict' = "pass" => ~found_non_causal')
    BY <2>1
  <2>6. verdict' = "pass" => \A m \in seen' : ~Causal!DependsOnChecked(m)'
    BY <1>1, <1>2, <2>2, <2>3, <2>5
       DEF Causal!DependsOnChecked, Causal!IsLastWriter, Causal!Reads, Causal!Orders
  <2> QED
    BY <1>1, <1>2, <2>2, <2>4, <2>5, <2>6 DEF CausalInv, Causal!NothingMissed
<1> QED
  BY <1>4, <1>5, <1>6
-----------------------------------------------------------------------------
(* A set of orders in which every instruction comes after the earlier      *)
(* writes of a register that it writes, or also of those that it reads.    *)
WritesClosed(S) ==
  \A n \in S, i \in Kept!Orders, r \in Regs \ {0} :
    i < n /\ Kept!Writes(i, r) /\ Kept!Writes(n, r) => i \in S
Closed(S) ==
  \A n \in S, i \in Kept!Orders, r \in Regs \ {0} :
    i < n /\ Kept!Writes(i, r) /\ Kept!Reads(n, r) => i \in S

(* rvfi_causal_check on a core that keeps both.                            *)
KeptInv ==
  /\ prog \in [Kept!Orders -> Kept!Packet] /\ retired \subseteq Kept!Orders
  /\ \A n \in Kept!Orders : prog[n].trap => prog[n].rd = 0
  /\ insn_order \in Kept!Orders /\ register_index \in Regs \ {0}
  /\ seen \subseteq retired
  /\ WritesClosed(retired) /\ Closed(retired)
  /\ found_non_causal \in BOOLEAN
  /\ verdict = "none" /\ found_non_causal =>
       \E m \in seen : insn_order < m /\ Kept!Reads(m, register_index)
  /\ verdict # "fail"

LEMMA KeptInit ==
  ASSUME Init, checker = "causal_kept"
  PROVE  KeptInv
<1>1. Kept!Init
  BY DEF Init
<1> QED
  BY <1>1 DEF Kept!Init, Kept!StreamInit, KeptInv, WritesClosed, Closed

(* What has retired before any channel of a cycle is closed, too.          *)
LEMMA KeptBefore ==
  ASSUME NRET \in Nat \ {0}, KeptInv, NEW ch \in Kept!Cycle, Kept!Retire(ch),
         NEW m \in 0 .. NRET
  PROVE  /\ Kept!Before(ch, m) \subseteq Kept!Orders
         /\ WritesClosed(Kept!Before(ch, m)) /\ Closed(Kept!Before(ch, m))
<1>1. ASSUME NEW c \in 0 .. NRET
      PROVE  Kept!Before(ch, c) \subseteq Kept!Orders
  BY DEF KeptInv, Kept!Before, Kept!Lower, Kept!Cycle, Kept!Channels, Kept!Idle
<1>2. ASSUME NEW c \in 0 .. NRET, NEW d \in 0 .. c - 1
      PROVE  /\ d \in Kept!Channels /\ d \in 0 .. NRET
             /\ Kept!Before(ch, d) \subseteq Kept!Before(ch, c)
  BY DEF Kept!Before, Kept!Lower, Kept!Channels
<1>3. ASSUME NEW c \in 0 .. NRET, NEW n \in Kept!Before(ch, c), n \notin retired
      PROVE  \E d \in 0 .. c - 1 : n = ch[d] /\ ch[d] # Kept!Idle
  BY <1>3 DEF Kept!Before, Kept!Lower
<1>4. ASSUME NEW c \in 0 .. NRET
      PROVE  WritesClosed(Kept!Before(ch, c))
  <2>1. SUFFICES ASSUME NEW n \in Kept!Before(ch, c), NEW i \in Kept!Orders, NEW r \in Regs \ {0},
                        i < n, Kept!Writes(i, r), Kept!Writes(n, r)
                 PROVE  i \in Kept!Before(ch, c)
    BY DEF WritesClosed
  <2>2. CASE n \in retired
    BY <2>1, <2>2 DEF KeptInv, WritesClosed, Kept!Before
  <2>3. CASE n \notin retired
    <3>1. PICK d \in 0 .. c - 1 : n = ch[d] /\ ch[d] # Kept!Idle
      BY <1>3, <2>3
    <3>2. d \in Kept!Channels /\ Kept!Before(ch, d) \subseteq Kept!Before(ch, c)
      BY <1>2
    <3>3. prog[ch[d]].rd = r /\ prog[ch[d]].rd # 0
      BY <2>1, <3>1 DEF Kept!Writes
    <3>4. i \in Kept!Before(ch, d)
      BY <2>1, <3>1, <3>2, <3>3 DEF Kept!Retire, Kept!WritesInOrder
    <3> QED
      BY <3>2, <3>4
  <2> QED
    BY <2>2, <2>3
<1>5. Closed(Kept!Before(ch, m))
  <2>1. SUFFICES ASSUME NEW n \in Kept!Before(ch, m), NEW i \in Kept!Orders, NEW r \in Regs \ {0},
                        i < n, Kept!Writes(i, r), Kept!Reads(n, r)
                 PROVE  i \in Kept!Before(ch, m)
    BY DEF Closed
  <2>2. CASE n \in retired
    BY <2>1, <2>2 DEF KeptInv, Closed, Kept!Before
  <2>3. CASE n \notin retired
    <3>1. PICK d \in 0 .. m - 1 : n = ch[d] /\ ch[d] # Kept!Idle
      BY <1>3, <2>3
    <3>2. d \in Kept!Channels /\ d \in 0 .. NRET /\ Kept!Before(ch, d) \subseteq Kept!Before(ch, m)
      BY <1>2
    <3>3. Kept!HasWriter(r, ch[d])
      BY <2>1, <3>1 DEF Kept!HasWriter
    <3>4. PICK j \in Kept!Before(ch, d) : Kept!IsLastWriter(j, r, ch[d])
      BY <2>1, <3>1, <3>2, <3>3 DEF Kept!Retire, Kept!Causal
    <3>5. j \in Kept!Orders /\ Kept!Writes(j, r) /\ (i = j \/ i < j)
      BY <2>1, <3>1, <3>4 DEF Kept!IsLastWriter, Kept!Orders
    <3>6. i \in Kept!Before(ch, d)
      BY <1>4, <2>1, <3>2, <3>4, <3>5 DEF WritesClosed
    <3> QED
      BY <3>2, <3>6
  <2> QED
    BY <2>2, <2>3
<1> QED
  BY <1>1, <1>4, <1>5

LEMMA KeptRetire ==
  ASSUME NRET \in Nat \ {0}, NEW ch \in Kept!Cycle, Kept!Retire(ch)
  PROVE  prog' = prog /\ retired' = Kept!Before(ch, NRET)
  BY DEF Kept!Retire, Kept!Before, Kept!Lower, Kept!Channels

LEMMA KeptStep ==
  ASSUME NRET \in Nat \ {0}, CHANNEL_IDX \in 0 .. NRET - 1, N \in Nat,
         KeptInv, NEW ch \in Kept!Cycle,
         Kept!ResetCycle(ch) \/ Kept!ObserveCycle(ch) \/ Kept!CheckCycle(ch)
  PROVE  KeptInv'
<1>1. /\ verdict = "none" /\ Kept!Retire(ch)
      /\ insn_order' = insn_order /\ register_index' = register_index
  BY DEF Kept!ResetCycle, Kept!ObserveCycle, Kept!CheckCycle, Kept!consts
<1>2. NRET \in 0 .. NRET /\ CHANNEL_IDX \in 0 .. NRET
  OBVIOUS
<1>3. prog' = prog /\ retired' = Kept!Before(ch, NRET)
  BY <1>1, KeptRetire
<1>4. /\ prog' \in [Kept!Orders -> Kept!Packet] /\ retired' \subseteq Kept!Orders
      /\ \A n \in Kept!Orders : prog'[n].trap => prog'[n].rd = 0
      /\ insn_order' \in Kept!Orders /\ register_index' \in Regs \ {0}
  BY <1>1, <1>2, <1>3, KeptBefore DEF KeptInv
<1>5. WritesClosed(retired)' /\ Closed(retired)'
  <2>1. WritesClosed(Kept!Before(ch, NRET)) /\ Closed(Kept!Before(ch, NRET))
    BY <1>1, <1>2, KeptBefore
  <2> QED
    BY <1>3, <2>1 DEF WritesClosed, Closed, Kept!Writes, Kept!Reads
<1>6. \A m \in 0 .. NRET : Kept!Lower(ch, m) \subseteq retired' /\ retired \subseteq retired'
  BY <1>3 DEF Kept!Before, Kept!Lower
<1>7. CASE Kept!ResetCycle(ch)
  <2>1. found_non_causal' = FALSE /\ seen' = {} /\ verdict' = "none"
    BY <1>1, <1>7 DEF Kept!ResetCycle
  <2> QED
    BY <1>4, <1>5, <2>1 DEF KeptInv
<1>8. ASSUME NEW m \in 0 .. NRET, found_non_causal \/ Kept!LaterReader(ch, m)
      PROVE  \E n \in seen \cup Kept!Lower(ch, m) : insn_order < n /\ Kept!Reads(n, register_index)
  <2>1. CASE found_non_causal
    BY <1>1, <2>1 DEF KeptInv
  <2>2. CASE Kept!LaterReader(ch, m)
    <3>1. PICK d \in 0 .. m - 1 :
            ch[d] # Kept!Idle /\ ch[d] > insn_order /\ Kept!Reads(ch[d], register_index)
      BY <2>2 DEF Kept!LaterReader
    <3>2. ch[d] \in Kept!Lower(ch, m)
      BY <3>1 DEF Kept!Lower
    <3>3. ch[d] \in Int /\ insn_order \in Int
      BY DEF KeptInv, Kept!Orders, Kept!Cycle, Kept!Channels, Kept!Idle
    <3>4. insn_order < ch[d]
      BY <3>1, <3>3
    <3> QED
      BY <3>1, <3>2, <3>4
  <2> QED
    BY <1>8, <2>1, <2>2
<1>9. CASE Kept!ObserveCycle(ch)
  <2>1. /\ found_non_causal' = (found_non_causal \/ Kept!LaterReader(ch, NRET))
        /\ seen' = seen \cup Kept!Lower(ch, NRET) /\ verdict' = "none"
    BY <1>1, <1>9 DEF Kept!ObserveCycle
  <2>2. seen' \subseteq retired'
    BY <1>2, <1>6, <2>1 DEF KeptInv
  <2>3. found_non_causal' => \E n \in seen' : insn_order < n /\ Kept!Reads(n, register_index)
    BY <1>2, <1>8, <2>1
  <2>4. found_non_causal' \in BOOLEAN
    BY <2>1 DEF KeptInv, Kept!LaterReader
  <2> QED
    BY <1>1, <1>3, <1>4, <1>5, <2>1, <2>2, <2>3, <2>4 DEF KeptInv, Kept!Reads
<1>10. CASE Kept!CheckCycle(ch)
  <2>1. /\ found_non_causal' = (found_non_causal \/ Kept!LaterReader(ch, CHANNEL_IDX))
        /\ seen' = seen \cup Kept!Lower(ch, CHANNEL_IDX)
        /\ verdict' = IF found_non_causal' THEN "fail" ELSE "pass"
        /\ ch[CHANNEL_IDX] = insn_order /\ prog[insn_order].rd = register_index
    BY <1>10 DEF Kept!CheckCycle
  <2>2. seen' \subseteq retired'
    BY <1>2, <1>6, <2>1 DEF KeptInv
  <2>3. ~(found_non_causal \/ Kept!LaterReader(ch, CHANNEL_IDX))
    <3>1. SUFFICES ASSUME found_non_causal \/ Kept!LaterReader(ch, CHANNEL_IDX)
                   PROVE  FALSE
      OBVIOUS
    <3>2. PICK n \in seen \cup Kept!Lower(ch, CHANNEL_IDX) :
            insn_order < n /\ Kept!Reads(n, register_index)
      BY <1>2, <1>8, <3>1
    <3>3. n \in Kept!Before(ch, CHANNEL_IDX)
      BY <3>2 DEF KeptInv, Kept!Before
    <3>4. Kept!Writes(insn_order, register_index)
      BY <2>1 DEF KeptInv, Kept!Writes
    <3>5. insn_order \in Kept!Before(ch, CHANNEL_IDX)
      BY <1>1, <1>2, <3>2, <3>3, <3>4, KeptBefore DEF Closed, KeptInv
    <3>6. CHANNEL_IDX \in Kept!Channels /\ ch[CHANNEL_IDX] # Kept!Idle
      BY <2>1 DEF KeptInv, Kept!Channels, Kept!Orders, Kept!Idle
    <3> QED
      BY <1>1, <2>1, <3>5, <3>6 DEF Kept!Retire, Kept!Unique
  <2>4. found_non_causal' \in BOOLEAN /\ verdict' = "pass"
    BY <2>1, <2>3
  <2> QED
    BY <1>1, <1>4, <1>5, <2>2, <2>4 DEF KeptInv
<1> QED
  BY <1>7, <1>9, <1>10

(* rvfi_causal_check misses no write that retires after a read of its      *)
(* value on any core, and rejects no core that keeps causality and the     *)
(* order of writes, for every number of channels, orders and registers.    *)
THEOREM Causality ==
  ASSUME NRET \in Nat \ {0}, CHANNEL_IDX \in 0 .. NRET - 1, N \in Nat
  PROVE  MCSpec => []CausalVerdict
<1>. DEFINE I == (checker = "causal" => CausalInv) /\ (checker = "causal_kept" => KeptInv)
<1>1. MCInit => I
  BY CheckerInit, CausalInit, KeptInit
<1>2. I /\ [MCNext]_<<vars, coreVars, stackVars>> => I'
  <2>1. SUFFICES ASSUME I, [MCNext]_<<vars, coreVars, stackVars>> PROVE I'
    OBVIOUS
  <2>2. checker' = checker
    BY <2>1, SamePart
  <2>3. CASE UNCHANGED vars
    <3>1. UNCHANGED <<prog, retired, seen, insn_order, verdict, register_index, found_non_causal>>
      BY <2>3 DEF vars, causalVars
    <3>2. checker = "causal" => CausalInv'
      BY <2>1, <3>1
         DEF CausalInv, Causal!NothingMissed, Causal!DependsOnChecked,
             Causal!IsLastWriter, Causal!Writes, Causal!Reads
    <3>3. checker = "causal_kept" => KeptInv'
      BY <2>1, <3>1 DEF KeptInv, WritesClosed, Closed, Kept!Writes, Kept!Reads
    <3> QED
      BY <2>2, <3>2, <3>3
  <2>4. CASE checker = "causal" /\ ~UNCHANGED vars
    <3>1. Causal!Next
      BY <2>1, <2>4, CheckerNext DEF Next
    <3> QED
      BY <2>1, <2>2, <2>4, <3>1, CausalStep DEF Causal!Next
  <2>5. CASE checker = "causal_kept" /\ ~UNCHANGED vars
    <3>1. Kept!Next
      BY <2>1, <2>5, CheckerNext DEF Next
    <3> QED
      BY <2>1, <2>2, <2>5, <3>1, KeptStep DEF Kept!Next
  <2> QED
    BY <2>2, <2>3, <2>4, <2>5
<1>3. I => CausalVerdict
  BY DEF CausalInv, KeptInv, CausalVerdict, Kept!NoFalseAlarm
<1>. HIDE DEF I
<1>. QED  BY <1>1, <1>2, <1>3, PTL DEF MCSpec
-----------------------------------------------------------------------------
(* rvfi_causal_mem_check and rvfi_causal_io_check on any core: without the *)
(* first flag no later reader of the byte has been shown, and the second   *)
(* is set exactly when a later i/o access has.                             *)
MemInv ==
  /\ insn_order \in Mem!Orders /\ seen \subseteq Mem!Orders
  /\ found_non_causal \in BOOLEAN /\ found_io \in BOOLEAN
  /\ Mem!Running /\ ~found_non_causal =>
       \A m \in seen : ~(m > insn_order /\ check_addr \in prog[m].reads)
  /\ Mem!Running =>
       (found_io <=> \E m \in seen : m > insn_order /\ Mem!performs_io(m))
  /\ Mem!MemNothingMissed /\ Mem!IoExact

LEMMA MemInit ==
  ASSUME Init, checker = "mem"
  PROVE  MemInv
<1>1. Mem!Init
  BY DEF Init
<1> QED
  BY <1>1 DEF Mem!Init, MemInv, Mem!MemNothingMissed, Mem!IoExact, Mem!Running

LEMMA MemLower ==
  ASSUME NRET \in Nat \ {0}, NEW ch \in Mem!Cycle, NEW m \in 0 .. NRET
  PROVE  Mem!Lower(ch, m) \subseteq Mem!Orders
  BY DEF Mem!Lower, Mem!Cycle, Mem!Channels, Mem!Idle

(* What the two flags are after the channels below m.                      *)
LEMMA MemFold ==
  ASSUME NRET \in Nat \ {0}, MemInv, Mem!Running,
         NEW ch \in Mem!Cycle, NEW m \in 0 .. NRET
  PROVE  /\ ~(found_non_causal \/ Mem!LaterRead(ch, m)) =>
              \A n \in seen \cup Mem!Lower(ch, m) : ~(n > insn_order /\ check_addr \in prog[n].reads)
         /\ (found_io \/ Mem!LaterIo(ch, m)) <=>
              \E n \in seen \cup Mem!Lower(ch, m) : n > insn_order /\ Mem!performs_io(n)
<1>1. \A n : n \in Mem!Lower(ch, m) <=> \E d \in 0 .. m - 1 : n = ch[d] /\ ch[d] # Mem!Idle
  BY DEF Mem!Lower
<1>2. Mem!LaterRead(ch, m) <=>
        \E n \in Mem!Lower(ch, m) : n > insn_order /\ check_addr \in prog[n].reads
  BY <1>1 DEF Mem!LaterRead
<1>3. Mem!LaterIo(ch, m) <=> \E n \in Mem!Lower(ch, m) : n > insn_order /\ Mem!performs_io(n)
  BY <1>1 DEF Mem!LaterIo
<1> QED
  BY <1>2, <1>3 DEF MemInv

LEMMA MemStep ==
  ASSUME NRET \in Nat \ {0}, CHANNEL_IDX \in 0 .. NRET - 1, N \in Nat,
         MemInv, NEW ch \in Mem!Cycle,
         \/ Mem!ResetCycle(ch) \/ Mem!ObserveCycle(ch)
         \/ Mem!MemCheckCycle(ch) \/ Mem!IoCheckCycle(ch)
  PROVE  MemInv'
<1>1. /\ Mem!Running /\ prog' = prog
      /\ insn_order' = insn_order /\ check_addr' = check_addr
  BY DEF Mem!ResetCycle, Mem!ObserveCycle, Mem!MemCheckCycle, Mem!IoCheckCycle, Mem!consts, Mem!Retire
<1>2. /\ insn_order \in Mem!Orders /\ seen \subseteq Mem!Orders
      /\ found_non_causal \in BOOLEAN /\ found_io \in BOOLEAN
  BY DEF MemInv
<1>3. NRET \in 0 .. NRET /\ CHANNEL_IDX \in 0 .. NRET
  OBVIOUS
<1>4. CASE Mem!ResetCycle(ch)
  BY <1>1, <1>2, <1>4 DEF Mem!ResetCycle, MemInv, Mem!MemNothingMissed, Mem!IoExact, Mem!Running
<1>5. CASE Mem!ObserveCycle(ch)
  <2>1. /\ found_non_causal' = (found_non_causal \/ Mem!LaterRead(ch, NRET))
        /\ found_io' = (found_io \/ Mem!LaterIo(ch, NRET))
        /\ seen' = seen \cup Mem!Lower(ch, NRET) /\ mem' = "none" /\ io' = "none"
    BY <1>1, <1>5 DEF Mem!ObserveCycle, Mem!Fold, Mem!Running
  <2>2. seen' \subseteq Mem!Orders
    BY <1>2, <1>3, <2>1, MemLower
  <2>3. /\ ~found_non_causal' => \A n \in seen' : ~(n > insn_order /\ check_addr \in prog[n].reads)
        /\ found_io' <=> \E n \in seen' : n > insn_order /\ Mem!performs_io(n)
    BY <1>1, <1>3, <2>1, MemFold
  <2>4. found_non_causal' \in BOOLEAN /\ found_io' \in BOOLEAN
    BY <1>2, <2>1 DEF Mem!LaterRead, Mem!LaterIo
  <2> QED
    BY <1>1, <1>2, <2>1, <2>2, <2>3, <2>4
       DEF MemInv, Mem!MemNothingMissed, Mem!IoExact, Mem!performs_io
<1>6. CASE Mem!MemCheckCycle(ch)
  <2>1. /\ mem' = IF found_non_causal \/ Mem!LaterRead(ch, CHANNEL_IDX) THEN "fail" ELSE "pass"
        /\ found_non_causal' = (found_non_causal \/ Mem!LaterRead(ch, NRET))
        /\ found_io' = (found_io \/ Mem!LaterIo(ch, NRET))
        /\ seen' = seen \cup Mem!Lower(ch, CHANNEL_IDX) /\ io' = "none"
    BY <1>1, <1>6 DEF Mem!MemCheckCycle, Mem!Fold, Mem!Running
  <2>2. seen' \subseteq Mem!Orders
    BY <1>2, <1>3, <2>1, MemLower
  <2>3. mem' = "pass" => \A n \in seen' : ~(n > insn_order /\ check_addr \in prog[n].reads)
    BY <1>1, <1>3, <2>1, MemFold
  <2>4. found_non_causal' \in BOOLEAN /\ found_io' \in BOOLEAN
    BY <1>2, <2>1 DEF Mem!LaterRead, Mem!LaterIo
  <2>5. ~Mem!Running' /\ Mem!IoExact'
    BY <2>1 DEF Mem!Running, Mem!IoExact
  <2>6. Mem!MemNothingMissed'
    BY <1>1, <1>2, <2>2, <2>3
       DEF Mem!MemNothingMissed, Mem!DependsOnChecked, Mem!IsLastWriter, Mem!Orders
  <2> QED
    BY <1>1, <1>2, <2>2, <2>4, <2>5, <2>6 DEF MemInv
<1>7. CASE Mem!IoCheckCycle(ch)
  <2>1. /\ io' = IF found_io \/ Mem!LaterIo(ch, CHANNEL_IDX) THEN "fail" ELSE "pass"
        /\ found_non_causal' = (found_non_causal \/ Mem!LaterRead(ch, NRET))
        /\ found_io' = (found_io \/ Mem!LaterIo(ch, NRET))
        /\ seen' = seen \cup Mem!Lower(ch, CHANNEL_IDX) /\ mem' = "none"
    BY <1>1, <1>7 DEF Mem!IoCheckCycle, Mem!Fold, Mem!Running
  <2>2. seen' \subseteq Mem!Orders
    BY <1>2, <1>3, <2>1, MemLower
  <2>3. io' = "fail" <=> \E n \in seen' : n > insn_order /\ Mem!performs_io(n)
    BY <1>1, <1>3, <2>1, MemFold
  <2>4. found_non_causal' \in BOOLEAN /\ found_io' \in BOOLEAN
    BY <1>2, <2>1 DEF Mem!LaterRead, Mem!LaterIo
  <2>5. ~Mem!Running' /\ Mem!MemNothingMissed'
    BY <2>1 DEF Mem!Running, Mem!MemNothingMissed
  <2>6. Mem!IoExact'
    BY <1>1, <2>3 DEF Mem!IoExact, Mem!performs_io
  <2> QED
    BY <1>1, <1>2, <2>2, <2>4, <2>5, <2>6 DEF MemInv
<1> QED
  BY <1>4, <1>5, <1>6, <1>7
-----------------------------------------------------------------------------
(* The same sets of orders, for bytes of memory.                           *)
MemWritesClosed(S) ==
  \A n \in S, i \in MemKept!Orders :
    i < n /\ 0 \in prog[i].writes /\ 0 \in prog[n].writes => i \in S
MemClosed(S) ==
  \A n \in S, i \in MemKept!Orders :
    i < n /\ 0 \in prog[i].writes /\ 0 \in prog[n].reads => i \in S

(* rvfi_causal_mem_check on a core that keeps both.                        *)
MemKeptInv ==
  /\ retired \subseteq MemKept!Orders
  /\ insn_order \in MemKept!Orders /\ check_addr = 0
  /\ seen \subseteq retired
  /\ MemWritesClosed(retired) /\ MemClosed(retired)
  /\ MemKept!Running /\ found_non_causal =>
       \E m \in seen : insn_order < m /\ 0 \in prog[m].reads
  /\ mem # "fail"

LEMMA MemKeptInit ==
  ASSUME Init, checker = "mem_kept"
  PROVE  MemKeptInv
<1>1. MemKept!Init
  BY DEF Init
<1> QED
  BY <1>1 DEF MemKept!Init, MemKeptInv, MemWritesClosed, MemClosed

LEMMA MemKeptBefore ==
  ASSUME NRET \in Nat \ {0}, MemKeptInv, NEW ch \in MemKept!Cycle, MemKept!Retire(ch),
         NEW m \in 0 .. NRET
  PROVE  /\ MemKept!Before(ch, m) \subseteq MemKept!Orders
         /\ MemWritesClosed(MemKept!Before(ch, m)) /\ MemClosed(MemKept!Before(ch, m))
<1>1. ASSUME NEW c \in 0 .. NRET
      PROVE  MemKept!Before(ch, c) \subseteq MemKept!Orders
  BY DEF MemKeptInv, MemKept!Before, MemKept!Lower, MemKept!Cycle, MemKept!Channels, MemKept!Idle
<1>2. ASSUME NEW c \in 0 .. NRET, NEW d \in 0 .. c - 1
      PROVE  /\ d \in MemKept!Channels /\ d \in 0 .. NRET
             /\ MemKept!Before(ch, d) \subseteq MemKept!Before(ch, c)
  BY DEF MemKept!Before, MemKept!Lower, MemKept!Channels
<1>3. ASSUME NEW c \in 0 .. NRET, NEW n \in MemKept!Before(ch, c), n \notin retired
      PROVE  \E d \in 0 .. c - 1 : n = ch[d] /\ ch[d] # MemKept!Idle
  BY <1>3 DEF MemKept!Before, MemKept!Lower
<1>4. MemKept!Causal(ch)
  BY DEF MemKept!Retire
<1>5. ASSUME NEW c \in 0 .. NRET
      PROVE  MemWritesClosed(MemKept!Before(ch, c))
  <2>1. SUFFICES ASSUME NEW n \in MemKept!Before(ch, c), NEW i \in MemKept!Orders,
                        i < n, 0 \in prog[i].writes, 0 \in prog[n].writes
                 PROVE  i \in MemKept!Before(ch, c)
    BY DEF MemWritesClosed
  <2>2. CASE n \in retired
    BY <2>1, <2>2 DEF MemKeptInv, MemWritesClosed, MemKept!Before
  <2>3. CASE n \notin retired
    <3>1. PICK d \in 0 .. c - 1 : n = ch[d] /\ ch[d] # MemKept!Idle
      BY <1>3, <2>3
    <3>2. d \in MemKept!Channels /\ MemKept!Before(ch, d) \subseteq MemKept!Before(ch, c)
      BY <1>2
    <3>3. i \in MemKept!Before(ch, d)
      BY <1>4, <2>1, <3>1, <3>2 DEF MemKept!Causal
    <3> QED
      BY <3>2, <3>3
  <2> QED
    BY <2>2, <2>3
<1>6. MemClosed(MemKept!Before(ch, m))
  <2>1. SUFFICES ASSUME NEW n \in MemKept!Before(ch, m), NEW i \in MemKept!Orders,
                        i < n, 0 \in prog[i].writes, 0 \in prog[n].reads
                 PROVE  i \in MemKept!Before(ch, m)
    BY DEF MemClosed
  <2>2. CASE n \in retired
    BY <2>1, <2>2 DEF MemKeptInv, MemClosed, MemKept!Before
  <2>3. CASE n \notin retired
    <3>1. PICK d \in 0 .. m - 1 : n = ch[d] /\ ch[d] # MemKept!Idle
      BY <1>3, <2>3
    <3>2. d \in MemKept!Channels /\ d \in 0 .. NRET /\ MemKept!Before(ch, d) \subseteq MemKept!Before(ch, m)
      BY <1>2
    <3>3. MemKept!HasWriter(0, ch[d])
      BY <2>1, <3>1 DEF MemKept!HasWriter
    <3>4. PICK j \in MemKept!Before(ch, d) : MemKept!IsLastWriter(j, 0, ch[d])
      BY <1>4, <2>1, <3>1, <3>2, <3>3 DEF MemKept!Causal
    <3>5. j \in MemKept!Orders /\ 0 \in prog[j].writes /\ (i = j \/ i < j)
      BY <2>1, <3>1, <3>4 DEF MemKept!IsLastWriter, MemKept!Orders
    <3>6. i \in MemKept!Before(ch, d)
      BY <1>5, <2>1, <3>2, <3>4, <3>5 DEF MemWritesClosed
    <3> QED
      BY <3>2, <3>6
  <2> QED
    BY <2>2, <2>3
<1> QED
  BY <1>1, <1>5, <1>6

LEMMA MemKeptRetire ==
  ASSUME NRET \in Nat \ {0}, NEW ch \in MemKept!Cycle, MemKept!Retire(ch)
  PROVE  prog' = prog /\ retired' = MemKept!Before(ch, NRET)
  BY DEF MemKept!Retire, MemKept!Before

LEMMA MemKeptStep ==
  ASSUME NRET \in Nat \ {0}, CHANNEL_IDX \in 0 .. NRET - 1, N \in Nat,
         MemKeptInv, NEW ch \in MemKept!Cycle,
         \/ MemKept!ResetCycle(ch) \/ MemKept!ObserveCycle(ch)
         \/ MemKept!MemCheckCycle(ch) \/ MemKept!IoCheckCycle(ch)
  PROVE  MemKeptInv'
<1>1. /\ MemKept!Running /\ MemKept!Retire(ch)
      /\ insn_order' = insn_order /\ check_addr' = check_addr
  BY DEF MemKept!ResetCycle, MemKept!ObserveCycle, MemKept!MemCheckCycle, MemKept!IoCheckCycle,
         MemKept!consts
<1>2. NRET \in 0 .. NRET /\ CHANNEL_IDX \in 0 .. NRET
  OBVIOUS
<1>3. prog' = prog /\ retired' = MemKept!Before(ch, NRET)
  BY <1>1, MemKeptRetire
<1>4. retired' \subseteq MemKept!Orders /\ insn_order' \in MemKept!Orders /\ check_addr' = 0
  BY <1>1, <1>2, <1>3, MemKeptBefore DEF MemKeptInv
<1>5. MemWritesClosed(retired)' /\ MemClosed(retired)'
  <2>1. MemWritesClosed(MemKept!Before(ch, NRET)) /\ MemClosed(MemKept!Before(ch, NRET))
    BY <1>1, <1>2, MemKeptBefore
  <2> QED
    BY <1>3, <2>1 DEF MemWritesClosed, MemClosed
<1>6. \A m \in 0 .. NRET : MemKept!Lower(ch, m) \subseteq retired' /\ retired \subseteq retired'
  BY <1>3 DEF MemKept!Before, MemKept!Lower
<1>7. CASE MemKept!ResetCycle(ch)
  <2>1. found_non_causal' = FALSE /\ seen' = {} /\ mem' = "none"
    BY <1>1, <1>7 DEF MemKept!ResetCycle, MemKept!Running
  <2> QED
    BY <1>4, <1>5, <2>1 DEF MemKeptInv
<1>8. ASSUME NEW m \in 0 .. NRET, found_non_causal \/ MemKept!LaterRead(ch, m)
      PROVE  \E n \in seen \cup MemKept!Lower(ch, m) : insn_order < n /\ 0 \in prog[n].reads
  <2>1. CASE found_non_causal
    BY <1>1, <2>1 DEF MemKeptInv
  <2>2. CASE MemKept!LaterRead(ch, m)
    <3>1. PICK d \in 0 .. m - 1 :
            ch[d] # MemKept!Idle /\ ch[d] > insn_order /\ 0 \in prog[ch[d]].reads
      BY <2>2 DEF MemKept!LaterRead, MemKeptInv
    <3>2. ch[d] \in MemKept!Lower(ch, m)
      BY <3>1 DEF MemKept!Lower
    <3>3. ch[d] \in Int /\ insn_order \in Int
      BY DEF MemKeptInv, MemKept!Orders, MemKept!Cycle, MemKept!Channels, MemKept!Idle
    <3>4. insn_order < ch[d]
      BY <3>1, <3>3
    <3> QED
      BY <3>1, <3>2, <3>4
  <2> QED
    BY <1>8, <2>1, <2>2
<1>9. CASE MemKept!ObserveCycle(ch)
  <2>1. /\ found_non_causal' = (found_non_causal \/ MemKept!LaterRead(ch, NRET))
        /\ seen' = seen \cup MemKept!Lower(ch, NRET) /\ mem' = "none"
    BY <1>1, <1>9 DEF MemKept!ObserveCycle, MemKept!Fold, MemKept!Running
  <2>2. seen' \subseteq retired'
    BY <1>2, <1>6, <2>1 DEF MemKeptInv
  <2>3. found_non_causal' => \E n \in seen' : insn_order < n /\ 0 \in prog[n].reads
    BY <1>2, <1>8, <2>1
  <2> QED
    BY <1>1, <1>3, <1>4, <1>5, <2>1, <2>2, <2>3 DEF MemKeptInv
<1>10. CASE MemKept!MemCheckCycle(ch)
  <2>1. /\ mem' = IF found_non_causal \/ MemKept!LaterRead(ch, CHANNEL_IDX) THEN "fail" ELSE "pass"
        /\ seen' = seen \cup MemKept!Lower(ch, CHANNEL_IDX)
        /\ ch[CHANNEL_IDX] = insn_order /\ 0 \in prog[insn_order].writes
    BY <1>10 DEF MemKept!MemCheckCycle, MemKeptInv
  <2>2. seen' \subseteq retired'
    BY <1>2, <1>6, <2>1 DEF MemKeptInv
  <2>3. ~(found_non_causal \/ MemKept!LaterRead(ch, CHANNEL_IDX))
    <3>1. SUFFICES ASSUME found_non_causal \/ MemKept!LaterRead(ch, CHANNEL_IDX)
                   PROVE  FALSE
      OBVIOUS
    <3>2. PICK n \in seen \cup MemKept!Lower(ch, CHANNEL_IDX) :
            insn_order < n /\ 0 \in prog[n].reads
      BY <1>2, <1>8, <3>1
    <3>3. n \in MemKept!Before(ch, CHANNEL_IDX)
      BY <3>2 DEF MemKeptInv, MemKept!Before
    <3>4. insn_order \in MemKept!Before(ch, CHANNEL_IDX)
      BY <1>1, <1>2, <2>1, <3>2, <3>3, MemKeptBefore DEF MemClosed, MemKeptInv
    <3>5. CHANNEL_IDX \in MemKept!Channels /\ ch[CHANNEL_IDX] # MemKept!Idle
      BY <2>1 DEF MemKeptInv, MemKept!Channels, MemKept!Orders, MemKept!Idle
    <3> QED
      BY <1>1, <2>1, <3>4, <3>5 DEF MemKept!Retire
  <2>4. mem' = "pass"
    BY <2>1, <2>3
  <2> QED
    BY <1>4, <1>5, <2>2, <2>4 DEF MemKeptInv, MemKept!Running
<1>11. CASE MemKept!IoCheckCycle(ch)
  <2>1. io' # "none" /\ mem' = "none" /\ seen' = seen \cup MemKept!Lower(ch, CHANNEL_IDX)
    BY <1>1, <1>11 DEF MemKept!IoCheckCycle, MemKept!Running
  <2>2. seen' \subseteq retired'
    BY <1>2, <1>6, <2>1 DEF MemKeptInv
  <2> QED
    BY <1>4, <1>5, <2>1, <2>2 DEF MemKeptInv, MemKept!Running
<1> QED
  BY <1>7, <1>9, <1>10, <1>11

(* The parts of the testbench with the two checkers of memory.             *)
MemI == (checker = "mem" => MemInv) /\ (checker = "mem_kept" => MemKeptInv)

LEMMA MemPartInit == MCInit => MemI
  BY CheckerInit, MemInit, MemKeptInit DEF MemI

LEMMA MemPartStep ==
  ASSUME NRET \in Nat \ {0}, CHANNEL_IDX \in 0 .. NRET - 1, N \in Nat,
         MemI, [MCNext]_<<vars, coreVars, stackVars>>
  PROVE  MemI'
<1>1. checker' = checker
  BY SamePart
<1>2. CASE UNCHANGED vars
  <2>1. UNCHANGED <<prog, retired, seen, insn_order, check_addr, found_non_causal, found_io, mem, io>>
    BY <1>2 DEF vars, causalVars, memVars
  <2>2. checker = "mem" => MemInv'
    BY <2>1 DEF MemI, MemInv, Mem!MemNothingMissed, Mem!IoExact, Mem!Running, Mem!performs_io,
                Mem!DependsOnChecked, Mem!IsLastWriter
  <2>3. checker = "mem_kept" => MemKeptInv'
    BY <2>1 DEF MemI, MemKeptInv, MemWritesClosed, MemClosed, MemKept!Running
  <2> QED
    BY <1>1, <2>2, <2>3 DEF MemI
<1>3. CASE checker = "mem" /\ ~UNCHANGED vars
  <2>1. Mem!Next
    BY <1>3, CheckerNext DEF Next
  <2> QED
    BY <1>1, <1>3, <2>1, MemStep DEF Mem!Next, MemI
<1>4. CASE checker = "mem_kept" /\ ~UNCHANGED vars
  <2>1. MemKept!Next
    BY <1>4, CheckerNext DEF Next
  <2> QED
    BY <1>1, <1>4, <2>1, MemKeptStep DEF MemKept!Next, MemI
<1> QED
  BY <1>1, <1>2, <1>3, <1>4 DEF MemI

(* rvfi_causal_mem_check misses no write of a byte that retires after a    *)
(* read of it on any core, and rejects no core that keeps causality and    *)
(* the order of writes, for every number of channels and orders.           *)
THEOREM MemoryCausality ==
  ASSUME NRET \in Nat \ {0}, CHANNEL_IDX \in 0 .. NRET - 1, N \in Nat
  PROVE  MCSpec => []MemVerdict
<1>1. MemI => MemVerdict
  BY DEF MemI, MemInv, MemKeptInv, MemVerdict, MemKept!MemNoFalseAlarm
<1>. QED  BY <1>1, MemPartInit, MemPartStep, PTL DEF MCSpec

(* rvfi_causal_io_check fails exactly when a later i/o access retired      *)
(* before the checked one, on any core.                                    *)
THEOREM IoCausality ==
  ASSUME NRET \in Nat \ {0}, CHANNEL_IDX \in 0 .. NRET - 1, N \in Nat
  PROVE  MCSpec => []IoExact
<1>1. MemI => IoExact
  BY DEF MemI, MemInv, IoExact
<1>. QED  BY <1>1, MemPartInit, MemPartStep, PTL DEF MCSpec
-----------------------------------------------------------------------------
(* The registers of rvfi_dmem_check before and after the only channel.     *)
Dm0 == [shadow |-> dmem_shadow, written |-> dmem_written]
Dm1(a) ==
  IF Dmem!Touches(a)
  THEN [shadow |-> Dmem!Stored(dmem_shadow, a.wmask, a.wdata), written |-> dmem_written \cup a.wmask]
  ELSE Dm0

LEMMA DmemFold ==
  ASSUME NEW acc
  PROVE  /\ Dmem!Fold(acc)[0] = Dm0
         /\ Dmem!Fold(acc)[1] = Dm1(acc[0])
<1>. DEFINE F(f) == [c \in 0 .. 1 |->
        IF c = 0 THEN [shadow |-> dmem_shadow, written |-> dmem_written]
        ELSE LET b == f[c - 1]
                 a == acc[c - 1]
             IN  IF Dmem!Touches(a)
                   THEN [shadow  |-> Dmem!Stored(b.shadow, a.wmask,
                                            acc[Dmem!DataChannel(c - 1)].wdata),
                         written |-> b.written \cup a.wmask]
                   ELSE b]
     g == [c \in 0 .. 1 |-> IF c = 0 THEN Dm0 ELSE Dm1(acc[0])]
<1>1. g = F(g)
  <2>1. g[0] = Dm0
    OBVIOUS
  <2>2. \A c \in 0 .. 1 : c # 0 => c - 1 = 0
    OBVIOUS
  <2> QED BY <2>1, <2>2 DEF Dm0, Dm1, Dmem!DataChannel
<1>2. Dmem!Fold(acc) = CHOOSE f : f = F(f)
  BY DEF Dmem!Fold
<1>. DEFINE h == Dmem!Fold(acc)
<1>3. h = F(h)
  <2>. HIDE DEF F
  <2> QED BY <1>1, <1>2
<1>4. h[0] = Dm0
  BY <1>3 DEF Dm0
<1>5. h[1] = F(h)[1]
  BY <1>3
<1>6. F(h)[1] = Dm1(acc[0])
  <2>1. h[1 - 1] = Dm0 /\ 1 - 1 = 0
    BY <1>4
  <2>. HIDE DEF h
  <2>2. F(h)[1] = IF Dmem!Touches(acc[1 - 1])
                    THEN [shadow  |-> Dmem!Stored(h[1 - 1].shadow, acc[1 - 1].wmask, acc[0].wdata),
                          written |-> h[1 - 1].written \cup acc[1 - 1].wmask]
                    ELSE h[1 - 1]
    BY DEF Dmem!DataChannel
  <2>3. @ = IF Dmem!Touches(acc[0])
              THEN [shadow  |-> Dmem!Stored(Dm0.shadow, acc[0].wmask, acc[0].wdata),
                    written |-> Dm0.written \cup acc[0].wmask]
              ELSE Dm0
    BY <2>1
  <2> QED
    BY <2>2, <2>3 DEF Dm0, Dm1
<1> QED
  BY <1>4, <1>5, <1>6

(* The memory after the only channel.                                      *)
Stores(a) ==
  IF a.valid
  THEN [memory EXCEPT ![a.addr] = [i \in Lanes |-> IF i \in a.wmask THEN a.wdata[i] ELSE @[i]]]
  ELSE memory

LEMMA DmemMemory ==
  ASSUME NEW acc
  PROVE  /\ Dmem!Memory(acc)[0] = memory
         /\ Dmem!Memory(acc)[1] = Stores(acc[0])
<1>. DEFINE F(f) == [c \in 0 .. 1 |->
        IF c = 0 THEN memory
        ELSE LET a == acc[c - 1]
             IN  IF a.valid
                   THEN [f[c - 1] EXCEPT ![a.addr] =
                           [i \in Lanes |-> IF i \in a.wmask THEN a.wdata[i] ELSE @[i]]]
                   ELSE f[c - 1]]
     g == [c \in 0 .. 1 |-> IF c = 0 THEN memory ELSE Stores(acc[0])]
<1>1. g = F(g)
  <2>1. g[0] = memory
    OBVIOUS
  <2>2. \A c \in 0 .. 1 : c # 0 => c - 1 = 0
    OBVIOUS
  <2> QED BY <2>1, <2>2 DEF Stores
<1>2. Dmem!Memory(acc) = CHOOSE f : f = F(f)
  BY DEF Dmem!Memory
<1>. DEFINE h == Dmem!Memory(acc)
<1>3. h = F(h)
  <2>. HIDE DEF F
  <2> QED BY <1>1, <1>2
<1>4. h[0] = memory
  BY <1>3
<1>5. h[1] = F(h)[1]
  BY <1>3
<1>6. F(h)[1] = Stores(acc[0])
  <2>1. h[1 - 1] = memory /\ 1 - 1 = 0
    BY <1>4
  <2>. HIDE DEF h
  <2> QED
    BY <2>1 DEF Stores
<1> QED
  BY <1>4, <1>5, <1>6

(* The shadow is the word under check, as far as it is known; of an        *)
(* address that is not valid nothing is recorded.                          *)
DmemInv ==
  /\ dmem_addr \in Words
  /\ dmem_shadow \in [Lanes -> Data] /\ dmem_written \in SUBSET Lanes
  /\ memory \in [Words -> [Lanes -> Data \cup {Dmem!Unknown}]]
  /\ dmem_addr \in ValidAddrs => \A i \in Lanes :
       memory[dmem_addr][i] = IF i \in dmem_written THEN dmem_shadow[i] ELSE Dmem!Unknown
  /\ reset => dmem_written = {}
  /\ Dmem!DmemExact

LEMMA DmemInit ==
  ASSUME Init, checker = "dmem"
  PROVE  DmemInv
<1>1. Dmem!Init
  BY DEF Init
<1> QED
  BY <1>1 DEF Dmem!Init, DmemInv, Dmem!DmemExact

LEMMA DmemReset ==
  ASSUME DmemInv, Dmem!ResetCycle
  PROVE  DmemInv'
  BY DEF DmemInv, Dmem!ResetCycle, Dmem!DmemExact

LEMMA DmemCheck ==
  ASSUME Data \subseteq Nat, DmemInv,
         NEW acc \in [Dmem!Channels -> Dmem!Access], NEW enable \in BOOLEAN,
         Dmem!CheckCycle(acc, enable)
  PROVE  DmemInv'
<1>. DEFINE a == acc[0]
<1>1. Dmem!Channels = {0} /\ a \in Dmem!Access
  BY DEF Dmem!Channels
<1>2. /\ dmem_shadow' = Dm1(a).shadow /\ dmem_written' = Dm1(a).written
      /\ memory' = Stores(a) /\ dmem_addr' = dmem_addr /\ reset' = reset /\ ~reset
  BY DmemFold, DmemMemory DEF Dmem!CheckCycle
<1>3. ~Dmem!Unknown \in Data
  BY DEF Dmem!Unknown
<1>. HIDE DEF a
<1>4. /\ a.valid \in BOOLEAN /\ a.addr \in Words /\ a.rmask \in SUBSET Lanes /\ a.wmask \in SUBSET Lanes
      /\ a.rdata \in [Lanes -> Data] /\ a.wdata \in [Lanes -> Data]
  BY <1>1 DEF Dmem!Access
<1>5. Dmem!Fails(acc, 0) <=> Dmem!ReadsWrong(acc, 0)
  <2>1. Dmem!Fails(acc, 0) <=>
          Dmem!Touches(a) /\ \E i \in a.rmask \cap dmem_written : dmem_shadow[i] # a.rdata[i]
    BY DmemFold DEF Dmem!Fails, Dmem!DataChannel, Dm0, a
  <2>2. Dmem!ReadsWrong(acc, 0) <=>
          Dmem!Touches(a) /\ \E i \in a.rmask : memory[dmem_addr][i] \notin {Dmem!Unknown, a.rdata[i]}
    BY DmemMemory DEF Dmem!ReadsWrong, Dmem!Touches, a
  <2>3. Dmem!Touches(a) => \A i \in a.rmask :
          i \in dmem_written /\ dmem_shadow[i] # a.rdata[i]
            <=> memory[dmem_addr][i] \notin {Dmem!Unknown, a.rdata[i]}
    BY <1>3, <1>4 DEF DmemInv, Dmem!Touches
  <2> QED
    BY <2>1, <2>2, <2>3
<1>6. Dmem!DmemExact'
  BY <1>1, <1>5 DEF Dmem!DmemExact, Dmem!CheckCycle
<1>7. CASE Dmem!Touches(a)
  <2>1. /\ dmem_shadow' = [i \in Lanes |-> IF i \in a.wmask THEN a.wdata[i] ELSE dmem_shadow[i]]
        /\ dmem_written' = dmem_written \cup a.wmask
    BY <1>2, <1>7 DEF Dm1, Dmem!Stored
  <2>2. memory' = [memory EXCEPT ![dmem_addr] =
                     [i \in Lanes |-> IF i \in a.wmask THEN a.wdata[i] ELSE @[i]]]
    BY <1>2, <1>7 DEF Stores, Dmem!Touches
  <2> QED
    BY <1>2, <1>4, <1>6, <2>1, <2>2 DEF DmemInv
<1>8. CASE ~Dmem!Touches(a)
  <2>1. dmem_shadow' = dmem_shadow /\ dmem_written' = dmem_written
    BY <1>2, <1>8 DEF Dm1, Dm0
  <2>2. /\ memory' \in [Words -> [Lanes -> Data \cup {Dmem!Unknown}]]
        /\ dmem_addr \in ValidAddrs => memory'[dmem_addr] = memory[dmem_addr]
    BY <1>2, <1>4, <1>8 DEF Stores, Dmem!Touches, DmemInv
  <2> QED
    BY <1>2, <1>6, <2>1, <2>2 DEF DmemInv
<1> QED
  BY <1>7, <1>8

LEMMA DmemStep ==
  ASSUME Data \subseteq Nat, DmemInv, Dmem!Next
  PROVE  DmemInv'
<1>1. CASE Dmem!ResetCycle
  BY <1>1, DmemReset
<1>2. ASSUME NEW acc \in [Dmem!Channels -> Dmem!Access], NEW enable \in BOOLEAN,
             Dmem!CheckCycle(acc, enable)
      PROVE  DmemInv'
  BY <1>2, DmemCheck
<1> QED
  BY <1>1, <1>2 DEF Dmem!Next

(* rvfi_dmem_check fails exactly when an enabled packet reads from the     *)
(* word under check, at a valid address, a byte other than the one last    *)
(* written there, for every memory, every word and every choice of the     *)
(* valid addresses.                                                        *)
THEOREM DataMemory ==
  ASSUME Data \subseteq Nat
  PROVE  MCSpec => []DmemExact
<1>. DEFINE I == checker = "dmem" => DmemInv
<1>1. MCInit => I
  BY CheckerInit, DmemInit
<1>2. I /\ [MCNext]_<<vars, coreVars, stackVars>> => I'
  <2>1. SUFFICES ASSUME I, [MCNext]_<<vars, coreVars, stackVars>>, checker = "dmem" PROVE I'
    BY SamePart
  <2>2. CASE UNCHANGED vars
    <3>1. UNCHANGED <<reset, dmem_addr, dmem_shadow, dmem_written, failed, memory, wrong>>
      BY <2>2 DEF vars, dmemVars
    <3> QED
      BY <2>1, <3>1 DEF DmemInv, Dmem!DmemExact
  <2>3. CASE ~UNCHANGED vars
    <3>1. Dmem!Next
      BY <2>1, <2>3, CheckerNext DEF Next
    <3> QED
      BY <2>1, <3>1, DmemStep
  <2> QED
    BY <2>2, <2>3
<1>3. I => DmemExact
  BY DEF DmemInv, DmemExact
<1>. HIDE DEF I
<1>. QED  BY <1>1, <1>2, <1>3, PTL DEF MCSpec
-----------------------------------------------------------------------------
(* A set of natural numbers up to some bound that has 0 and the next of    *)
(* each of its members has all of them.                                    *)
LEMMA AllUpTo ==
  ASSUME NEW last \in Nat, NEW S, 0 \in S,
         \A n \in 0 .. last : n \in S /\ n + 1 \in 0 .. last => n + 1 \in S
  PROVE  0 .. last \subseteq S
<1>. DEFINE T == (0 .. last) \ S
<1>1. SUFFICES ASSUME T # {} PROVE FALSE
  OBVIOUS
<1>2. T \subseteq Nat
  OBVIOUS
<1>3. PICK m \in T : \A k \in T : ~(<<k, m>> \in OpToRel(<, Nat))
  BY <1>1, <1>2, NatLessThanWellFounded, WFMin
<1>4. m # 0 /\ m - 1 \in 0 .. last /\ (m - 1) + 1 = m
  OBVIOUS
<1>5. m - 1 \in T
  BY <1>4
<1>6. <<m - 1, m>> \in OpToRel(<, Nat)
  BY <1>2, <1>4, <1>5 DEF OpToRel
<1> QED
  BY <1>3, <1>5, <1>6

(* The core keeps its latency, and the two flags say what was seen after   *)
(* reset.                                                                  *)
CoreInv ==
  /\ now \in Nat /\ when \in [Progress!Orders -> Nat \cup {Progress!Never}]
  /\ halting \in Progress!Orders \cup {Progress!Never}
  /\ \A n \in Progress!Orders : when[n] < now
  /\ \A n \in Progress!Orders :
       /\ n + 1 \in Progress!Orders /\ n # halting
       /\ when[n] # Progress!Never /\ when[n + 1] = Progress!Never
       => now - 1 - when[n] < LATENCY
  /\ when[0] = Progress!Never => now < LATENCY

FlagsInv ==
  /\ released \in Nat /\ released <= now
  /\ found_next_insn <=>
       when[insn_order + 1] # Progress!Never /\ when[insn_order + 1] >= released
  /\ okay <=> \E n \in Progress!Orders : when[n] # Progress!Never /\ when[n] >= released

ProgressInv ==
  /\ CoreInv
  /\ insn_order \in Progress!Orders /\ insn_order + 1 \in Progress!Orders
  /\ found_next_insn \in BOOLEAN /\ okay \in BOOLEAN
  /\ trig_cycle \in Nat \cup {Progress!Never}
  /\ Progress!Running /\ reset => trig_cycle = Progress!Never
  /\ Progress!Running /\ ~reset => FlagsInv
  /\ trig_cycle # Progress!Never => when[insn_order] = trig_cycle /\ insn_order # halting
  /\ Progress!LivenessVerdict /\ Progress!HangVerdict

LEMMA ProgressInit ==
  ASSUME N \in Nat, LATENCY \in Nat \ {0}, Init, checker = "progress"
  PROVE  ProgressInv
<1>1. Progress!Init
  BY DEF Init
<1>2. CoreInv
  BY <1>1 DEF Progress!Init, CoreInv, Progress!Orders, Progress!Never
<1>3. insn_order \in Progress!Orders /\ insn_order + 1 \in Progress!Orders
  BY <1>1 DEF Progress!Init, Progress!Orders
<1> QED
  BY <1>1, <1>2, <1>3
     DEF Progress!Init, ProgressInv, Progress!LivenessVerdict, Progress!HangVerdict

(* What a cycle does to the core's side.                                   *)
LEMMA ProgressRetire ==
  ASSUME N \in Nat, NRET \in Nat \ {0}, LATENCY \in Nat \ {0}, ProgressInv,
         NEW ch \in Progress!Cycle, Progress!Retire(ch)
  PROVE  /\ now' = now + 1 /\ insn_order' = insn_order /\ halting' = halting
         /\ \A n \in Progress!Orders :
              when'[n] = IF n \in Progress!Carried(ch) THEN now ELSE when[n]
         /\ \A n \in Progress!Carried(ch) : n \in Progress!Orders /\ when[n] = Progress!Never
         /\ CoreInv'
<1>1. /\ now' = now + 1 /\ insn_order' = insn_order /\ halting' = halting
      /\ when' = [n \in Progress!Orders |-> IF n \in Progress!Carried(ch) THEN now ELSE when[n]]
      /\ \A n \in Progress!Carried(ch) : when[n] = Progress!Never
  BY DEF Progress!Retire, Progress!Later
<1>2. Progress!Carried(ch) \subseteq Progress!Orders
  BY DEF Progress!Carried, Progress!Lower, Progress!Cycle, Progress!Channels
<1>3. /\ now' \in Nat /\ when' \in [Progress!Orders -> Nat \cup {Progress!Never}]
      /\ halting' \in Progress!Orders \cup {Progress!Never}
  BY <1>1 DEF ProgressInv, CoreInv
<1>4. \A n \in Progress!Orders : when'[n] < now'
  BY <1>1 DEF ProgressInv, CoreInv, Progress!Never
<1>5. ASSUME NEW n \in Progress!Orders, n + 1 \in Progress!Orders, n # halting,
             when'[n] # Progress!Never, when'[n + 1] = Progress!Never
      PROVE  now' - 1 - when'[n] < LATENCY
  <2>1. n # (N + 1) - 1
    BY <1>5 DEF Progress!Orders
  <2>2. now - when'[n] < LATENCY
    BY <1>5, <2>1 DEF Progress!Retire
  <2> QED
    BY <1>1, <2>2 DEF ProgressInv, CoreInv
<1>6. when'[0] = Progress!Never => now' < LATENCY
  BY <1>1 DEF Progress!Retire, ProgressInv, CoreInv
<1>7. CoreInv'
  BY <1>1, <1>3, <1>4, <1>5, <1>6 DEF CoreInv, Progress!Orders, Progress!Never
<1> QED
  BY <1>1, <1>2, <1>7

(* What one cycle does to the flags of a checker that is out of reset.     *)
LEMMA ProgressFlags ==
  ASSUME N \in Nat, NRET \in Nat \ {0}, LATENCY \in Nat \ {0}, ProgressInv, Progress!Running, ~reset,
         NEW ch \in Progress!Cycle, Progress!Retire(ch), released' = released,
         found_next_insn' = Progress!LivenessFold(ch), okay' = Progress!HangFold(ch)
  PROVE  FlagsInv'
<1>1. /\ now' = now + 1 /\ insn_order' = insn_order
      /\ \A n \in Progress!Orders :
           when'[n] = IF n \in Progress!Carried(ch) THEN now ELSE when[n]
      /\ \A n \in Progress!Carried(ch) : n \in Progress!Orders /\ when[n] = Progress!Never
  BY ProgressRetire
<1>2. FlagsInv /\ now \in Nat /\ insn_order + 1 \in Progress!Orders
  BY DEF ProgressInv, CoreInv
<1>3. released' \in Nat /\ released' <= now' /\ released <= now
  BY <1>1, <1>2 DEF FlagsInv
<1>4. \A n \in Progress!Carried(ch) : when'[n] # Progress!Never /\ when'[n] >= released
  BY <1>1, <1>2, <1>3 DEF Progress!Never
<1>5. found_next_insn' <=>
        when'[insn_order + 1] # Progress!Never /\ when'[insn_order + 1] >= released
  <2>1. CASE insn_order + 1 \in Progress!Carried(ch)
    BY <1>4, <2>1 DEF Progress!LivenessFold
  <2>2. CASE insn_order + 1 \notin Progress!Carried(ch)
    <3>1. when'[insn_order + 1] = when[insn_order + 1]
      BY <1>1, <1>2, <2>2
    <3>2. found_next_insn' <=> found_next_insn
      BY <2>2 DEF Progress!LivenessFold
    <3> QED
      BY <1>2, <3>1, <3>2 DEF FlagsInv
  <2> QED
    BY <2>1, <2>2
<1>6. okay' <=> \E n \in Progress!Orders : when'[n] # Progress!Never /\ when'[n] >= released
  <2>1. CASE Progress!Carried(ch) # {}
    BY <1>1, <1>4, <2>1 DEF Progress!HangFold
  <2>2. CASE Progress!Carried(ch) = {}
    <3>1. \A n \in Progress!Orders : when'[n] = when[n]
      BY <1>1, <2>2
    <3>2. okay' <=> okay
      BY <2>2 DEF Progress!HangFold
    <3> QED
      BY <1>2, <3>1, <3>2 DEF FlagsInv
  <2> QED
    BY <2>1, <2>2
<1> QED
  BY <1>1, <1>3, <1>5, <1>6 DEF FlagsInv, Progress!Orders, Progress!Never

LEMMA ProgressReset ==
  ASSUME N \in Nat, NRET \in Nat \ {0}, LATENCY \in Nat \ {0}, ProgressInv,
         NEW ch \in Progress!Cycle, Progress!ResetCycle(ch)
  PROVE  ProgressInv'
<1>1. Progress!Retire(ch) /\ Progress!Running /\ reset
  BY DEF Progress!ResetCycle
<1>2. /\ CoreInv' /\ insn_order' = insn_order /\ halting' = halting /\ now' = now + 1
      /\ \A n \in Progress!Orders : when'[n] = Progress!Never \/ when'[n] < now'
  BY <1>1, ProgressRetire DEF CoreInv
<1>3. /\ found_next_insn' = FALSE /\ okay' = FALSE /\ trig_cycle' = trig_cycle
      /\ liveness' = "none" /\ hang' = "none" /\ reset' \in BOOLEAN
      /\ (~reset' => released' = now + 1)
      /\ trig_cycle = Progress!Never
  BY <1>1 DEF Progress!ResetCycle, Progress!Running, ProgressInv
<1>4. now \in Nat /\ insn_order \in Progress!Orders /\ insn_order + 1 \in Progress!Orders
  BY DEF ProgressInv, CoreInv
<1>5. ~reset' => FlagsInv'
  <2>1. SUFFICES ASSUME ~reset' PROVE FlagsInv'
    OBVIOUS
  <2>2. released' = now' /\ now' \in Nat
    BY <1>2, <1>3, <1>4, <2>1
  <2>3. \A n \in Progress!Orders : when'[n] \in Int /\ ~(when'[n] # Progress!Never /\ when'[n] >= released')
    BY <1>2, <2>2 DEF CoreInv, Progress!Never
  <2> QED
    BY <1>2, <1>3, <1>4, <2>2, <2>3 DEF FlagsInv, Progress!Orders, Progress!Never
<1> QED
  BY <1>2, <1>3, <1>4, <1>5
     DEF ProgressInv, Progress!Orders, Progress!Never, Progress!LivenessVerdict, Progress!HangVerdict

LEMMA ProgressObserve ==
  ASSUME N \in Nat, NRET \in Nat \ {0}, CHANNEL_IDX \in 0 .. NRET - 1, LATENCY \in Nat \ {0},
         ProgressInv, NEW ch \in Progress!Cycle, NEW trig \in BOOLEAN,
         Progress!ObserveCycle(ch, trig)
  PROVE  ProgressInv'
<1>1. Progress!Retire(ch) /\ Progress!Running /\ ~reset
  BY DEF Progress!ObserveCycle
<1>2. /\ CoreInv' /\ insn_order' = insn_order /\ halting' = halting
      /\ \A n \in Progress!Orders :
           when'[n] = IF n \in Progress!Carried(ch) THEN now ELSE when[n]
      /\ \A n \in Progress!Carried(ch) : when[n] = Progress!Never
  BY <1>1, ProgressRetire
<1>3. /\ reset' = reset /\ released' = released /\ liveness' = "none" /\ hang' = "none"
      /\ trig_cycle' = IF trig THEN now ELSE trig_cycle
      /\ found_next_insn' = Progress!LivenessFold(ch) /\ okay' = Progress!HangFold(ch)
  BY <1>1 DEF Progress!ObserveCycle, Progress!Running
<1>4. FlagsInv'
  BY <1>1, <1>3, ProgressFlags
<1>5. found_next_insn' \in BOOLEAN /\ okay' \in BOOLEAN
  BY <1>3 DEF Progress!LivenessFold, Progress!HangFold, ProgressInv
<1>6. now \in Nat /\ trig_cycle \in Nat \cup {Progress!Never}
      /\ insn_order \in Progress!Orders /\ insn_order + 1 \in Progress!Orders
  BY DEF ProgressInv, CoreInv
<1>7. trig_cycle' # Progress!Never => when'[insn_order] = trig_cycle' /\ insn_order # halting
  <2>1. CASE trig
    <3>1. ch[CHANNEL_IDX] = insn_order /\ insn_order # halting
      BY <2>1 DEF Progress!ObserveCycle
    <3>2. insn_order \in Progress!Carried(ch)
      BY <1>6, <3>1 DEF Progress!Carried, Progress!Lower, Progress!Idle, Progress!Orders
    <3> QED
      BY <1>2, <1>3, <1>6, <2>1, <3>1, <3>2
  <2>2. CASE ~trig
    <3>1. trig_cycle # Progress!Never => when[insn_order] # Progress!Never
      BY DEF ProgressInv
    <3> QED
      BY <1>2, <1>3, <1>6, <2>2, <3>1 DEF ProgressInv
  <2> QED
    BY <2>1, <2>2
<1> QED
  BY <1>1, <1>2, <1>3, <1>4, <1>5, <1>6, <1>7
     DEF ProgressInv, Progress!Orders, Progress!Never, Progress!LivenessVerdict, Progress!HangVerdict

(* The two check cycles end the trace: the rest of the invariant is kept   *)
(* for the sake of its types only.                                         *)
LEMMA ProgressCheck ==
  ASSUME N \in Nat, NRET \in Nat \ {0}, LATENCY \in Nat \ {0}, ProgressInv,
         NEW ch \in Progress!Cycle,
         Progress!LivenessCheckCycle(ch) \/ Progress!HangCheckCycle(ch)
  PROVE  ProgressInv'
<1>1. Progress!Retire(ch) /\ Progress!Running /\ ~reset
  BY DEF Progress!LivenessCheckCycle, Progress!HangCheckCycle
<1>2. /\ CoreInv' /\ insn_order' = insn_order /\ halting' = halting /\ now' = now + 1
      /\ \A n \in Progress!Orders :
           when'[n] = IF n \in Progress!Carried(ch) THEN now ELSE when[n]
      /\ \A n \in Progress!Carried(ch) : when[n] = Progress!Never
  BY <1>1, ProgressRetire
<1>3. /\ reset' = reset /\ released' = released /\ trig_cycle' = trig_cycle
      /\ found_next_insn' = Progress!LivenessFold(ch) /\ okay' = Progress!HangFold(ch)
  BY DEF Progress!LivenessCheckCycle, Progress!HangCheckCycle
<1>4. FlagsInv /\ FlagsInv'
  BY <1>1, <1>3, ProgressFlags DEF ProgressInv
<1>5. found_next_insn' \in BOOLEAN /\ okay' \in BOOLEAN
  BY <1>3 DEF Progress!LivenessFold, Progress!HangFold, ProgressInv
<1>6. /\ now \in Nat /\ trig_cycle \in Nat \cup {Progress!Never} /\ released \in Nat
      /\ insn_order \in Progress!Orders /\ insn_order + 1 \in Progress!Orders
      /\ CoreInv
  BY <1>4 DEF ProgressInv, CoreInv, FlagsInv
<1>7. trig_cycle' # Progress!Never => when'[insn_order] = trig_cycle' /\ insn_order # halting
  BY <1>2, <1>3, <1>6 DEF ProgressInv
<1>8. CASE Progress!LivenessCheckCycle(ch)
  <2>1. /\ hang' = "none" /\ trig_cycle # Progress!Never
        /\ liveness' = IF found_next_insn' THEN "pass" ELSE "fail"
    BY <1>1, <1>8 DEF Progress!LivenessCheckCycle, Progress!Running
  <2>2. found_next_insn' <=>
          when'[insn_order + 1] # Progress!Never /\ when'[insn_order + 1] >= released
    BY <1>2, <1>3, <1>4 DEF FlagsInv
  <2>3. ASSUME found_next_insn' PROVE Progress!LivenessVerdict'
    BY <1>2, <1>3, <2>1, <2>2, <2>3 DEF Progress!LivenessVerdict
  <2>4. ASSUME ~found_next_insn' PROVE Progress!LivenessVerdict'
    <3>1. CASE when'[insn_order + 1] = Progress!Never
      <4>1. now' - 1 - trig_cycle < LATENCY
        BY <1>2, <1>3, <1>6, <1>7, <2>1, <3>1 DEF CoreInv
      <4> QED
        BY <1>3, <2>1, <2>4, <4>1 DEF Progress!LivenessVerdict, Progress!CheckedIn
    <3>2. CASE when'[insn_order + 1] # Progress!Never
      <4>1. when'[insn_order + 1] < released
        BY <1>2, <1>6, <2>2, <2>4, <3>2 DEF CoreInv, Progress!Never
      <4> QED
        BY <1>2, <1>3, <2>1, <2>4, <3>2, <4>1 DEF Progress!LivenessVerdict
    <3> QED
      BY <3>1, <3>2
  <2>5. Progress!LivenessVerdict'
    BY <1>5, <2>3, <2>4
  <2>6. Progress!HangVerdict'
    BY <2>1 DEF Progress!HangVerdict
  <2> QED
    BY <1>1, <1>2, <1>3, <1>5, <1>6, <1>7, <2>1, <2>5, <2>6 DEF ProgressInv, Progress!Running
<1>9. CASE Progress!HangCheckCycle(ch)
  <2>1. /\ liveness' = "none" /\ hang' = IF okay THEN "pass" ELSE "fail"
        /\ \A n \in Progress!Orders : when'[n] # Progress!Never => n # halting
    BY <1>1, <1>9 DEF Progress!HangCheckCycle, Progress!Running
  <2>2. ASSUME okay PROVE Progress!HangVerdict'
    <3>1. PICK n \in Progress!Orders : when[n] # Progress!Never /\ when[n] >= released
      BY <1>4, <2>2 DEF FlagsInv
    <3>2. when'[n] = when[n] /\ when[n] < now
      BY <1>2, <1>6, <3>1 DEF CoreInv
    <3> QED
      BY <1>2, <1>3, <1>6, <2>1, <2>2, <3>1, <3>2 DEF Progress!HangVerdict, Progress!CheckedIn
  <2>3. ASSUME ~okay PROVE Progress!HangVerdict'
    <3>1. SUFFICES ASSUME ~(now - released < LATENCY)
                   PROVE  \A n \in Progress!Orders : when'[n] # Progress!Never
      BY <1>2, <1>3, <1>6, <2>1, <2>3 DEF Progress!HangVerdict, Progress!CheckedIn
    <3>. DEFINE W == {n \in Progress!Orders : when[n] # Progress!Never}
    <3>2. Progress!Orders = 0 .. N /\ \A n \in Progress!Orders : when[n] \in Int
      BY <1>6 DEF Progress!Orders, CoreInv, Progress!Never
    <3>3. 0 \in W
      BY <1>6, <3>1, <3>2 DEF CoreInv
    <3>4. \A n \in W : when[n] < released /\ n # halting
      <4>1. \A n \in Progress!Orders : ~(when[n] # Progress!Never /\ when[n] >= released)
        BY <1>4, <2>3 DEF FlagsInv
      <4>2. \A n \in W : when'[n] = when[n]
        BY <1>2
      <4> QED
        BY <1>6, <2>1, <3>2, <4>1, <4>2
    <3>5. \A n \in 0 .. N : n \in W /\ n + 1 \in 0 .. N => n + 1 \in W
      BY <1>6, <3>1, <3>2, <3>4 DEF CoreInv
    <3>6. 0 .. N \subseteq W
      <4>. HIDE DEF W
      <4> QED
        BY <3>3, <3>5, AllUpTo
    <3> QED
      BY <1>2, <1>6, <3>2, <3>6 DEF Progress!Never
  <2>4. Progress!HangVerdict'
    BY <2>2, <2>3 DEF ProgressInv
  <2>5. Progress!LivenessVerdict'
    BY <2>1 DEF Progress!LivenessVerdict
  <2> QED
    BY <1>1, <1>2, <1>3, <1>5, <1>6, <1>7, <2>1, <2>4, <2>5 DEF ProgressInv, Progress!Running
<1> QED
  BY <1>8, <1>9

(* The liveness and hang checks reject a core that keeps its latency only  *)
(* when the depths of the check do not match it, or when the successor     *)
(* retired during reset or the program is over; and what they accept has   *)
(* made progress.  For every latency, number of channels and of orders.    *)
THEOREM BoundedProgress ==
  ASSUME NRET \in Nat \ {0}, CHANNEL_IDX \in 0 .. NRET - 1, N \in Nat,
         LATENCY \in Nat \ {0}
  PROVE  MCSpec => []ProgressVerdict
<1>. DEFINE I == checker = "progress" => ProgressInv
<1>1. MCInit => I
  BY CheckerInit, ProgressInit
<1>2. I /\ [MCNext]_<<vars, coreVars, stackVars>> => I'
  <2>1. SUFFICES ASSUME I, [MCNext]_<<vars, coreVars, stackVars>>, checker = "progress" PROVE I'
    BY SamePart
  <2>2. CASE UNCHANGED vars
    <3>1. UNCHANGED <<now, halting, when, reset, insn_order, found_next_insn, trig_cycle,
                      liveness, okay, released, hang>>
      BY <2>2 DEF vars, progressVars
    <3> QED
      BY <2>1, <3>1
         DEF ProgressInv, CoreInv, FlagsInv, Progress!Running, Progress!CheckedIn,
             Progress!LivenessVerdict, Progress!HangVerdict
  <2>3. CASE ~UNCHANGED vars
    <3>1. Progress!Next
      BY <2>1, <2>3, CheckerNext DEF Next
    <3> QED
      BY <2>1, <3>1, ProgressReset, ProgressObserve, ProgressCheck DEF Progress!Next
  <2> QED
    BY <2>2, <2>3
<1>3. I => ProgressVerdict
  BY DEF ProgressInv, ProgressVerdict
<1>. HIDE DEF I
<1>. QED  BY <1>1, <1>2, <1>3, PTL DEF MCSpec
-----------------------------------------------------------------------------
(* Types.  pc_fwd and pc_bwd take what they expect from a packet of the    *)
(* program.                                                                *)
LEMMA PcTypes ==
  ASSUME Shape, Pc!TypeOK, Pc!Next
  PROVE  Pc!TypeOK'
<1>1. PICK ch \in Pc!Cycle : \/ Pc!ResetCycle(ch) \/ Pc!ObserveCycle(ch)
                             \/ Pc!FwdCheckCycle(ch) \/ Pc!BwdCheckCycle(ch)
  BY DEF Pc!Next
<1>2. /\ prog \in [Pc!Orders -> Pc!Packet] /\ retired \subseteq Pc!Orders /\ seen \subseteq retired
      /\ reset \in BOOLEAN /\ fwd \in Pc!Checker /\ bwd \in Pc!Checker
  BY DEF Pc!TypeOK
<1>3. NRET \in 0 .. NRET /\ CHANNEL_IDX \in 0 .. NRET /\ CHANNEL_IDX \in Pc!Channels
  BY DEF Shape, Pc!Channels
<1>4. \A c \in Pc!Channels : ch[c] \in Pc!Orders \cup {Pc!Idle}
  BY DEF Pc!Cycle
<1>5. \A m \in 0 .. NRET : /\ Pc!Lower(ch, m) \subseteq Pc!Lower(ch, NRET)
                           /\ Pc!Lower(ch, m) \subseteq Pc!Orders
  BY <1>4 DEF Pc!Lower, Pc!Channels, Shape
<1>6. \A n \in Pc!Orders : prog[n].pc_rdata \in PCs /\ prog[n].pc_wdata \in PCs /\ prog[n].intr \in BOOLEAN
  BY <1>2 DEF Pc!Packet
<1>7. ASSUME NEW m \in 0 .. NRET PROVE Pc!FwdFold(ch, m) \in Pc!Checker
  <2>1. CASE Pc!CarriedBy(ch, m, fwd.insn_order - 1) = {}
    BY <1>2, <2>1 DEF Pc!FwdFold
  <2>2. CASE Pc!CarriedBy(ch, m, fwd.insn_order - 1) # {}
    <3>1. fwd.insn_order - 1 \in Pc!Orders
      <4>1. PICK d \in 0 .. m - 1 : ch[d] # Pc!Idle /\ ch[d] = fwd.insn_order - 1
        BY <2>2 DEF Pc!CarriedBy
      <4> QED
        BY <1>4, <4>1 DEF Pc!Channels, Shape
    <3>2. Pc!FwdFold(ch, m) = [fwd EXCEPT !.expect_pc = prog[fwd.insn_order - 1].pc_wdata,
                                          !.expect_pc_valid = TRUE]
      BY <2>2 DEF Pc!FwdFold
    <3> QED
      BY <1>2, <1>6, <3>1, <3>2 DEF Pc!Checker
  <2> QED
    BY <2>1, <2>2
<1>8. ASSUME NEW m \in 0 .. NRET, NEW intr \in Pc!IntrOnChannelIdx(ch)
      PROVE  Pc!BwdFold(ch, m, intr) \in Pc!Checker
  <2>1. CASE Pc!CarriedBy(ch, m, bwd.insn_order + 1) = {}
    BY <1>2, <2>1 DEF Pc!BwdFold
  <2>2. CASE Pc!CarriedBy(ch, m, bwd.insn_order + 1) # {}
    <3>1. bwd.insn_order + 1 \in Pc!Orders
      <4>1. PICK d \in 0 .. m - 1 : ch[d] # Pc!Idle /\ ch[d] = bwd.insn_order + 1
        BY <2>2 DEF Pc!CarriedBy
      <4> QED
        BY <1>4, <4>1 DEF Pc!Channels, Shape
    <3>2. Pc!BwdFold(ch, m, intr) = [bwd EXCEPT !.expect_pc = prog[bwd.insn_order + 1].pc_rdata,
                                                !.expect_pc_valid = ~intr]
      BY <2>2 DEF Pc!BwdFold
    <3> QED
      BY <1>2, <1>6, <3>1, <3>2 DEF Pc!Checker
  <2> QED
    BY <2>1, <2>2
<1>9. \A f \in Pc!Checker, v \in {"pass", "fail"} : [f EXCEPT !.verdict = v] \in Pc!Checker
  BY DEF Pc!Checker
<1>10. /\ prog' = prog /\ retired' = retired \cup Pc!Lower(ch, NRET)
       /\ seen' \subseteq seen \cup Pc!Lower(ch, NRET)
  BY <1>1, <1>3, <1>5 DEF Pc!ResetCycle, Pc!ObserveCycle, Pc!FwdCheckCycle, Pc!BwdCheckCycle, Pc!Retire
<1>11. fwd' \in Pc!Checker /\ bwd' \in Pc!Checker /\ reset' \in BOOLEAN
  <2>1. CASE Pc!ResetCycle(ch)
    BY <1>2, <2>1 DEF Pc!ResetCycle, Pc!Checker
  <2>2. CASE Pc!ObserveCycle(ch)
    BY <1>2, <1>3, <1>7, <1>8, <2>2 DEF Pc!ObserveCycle
  <2>3. CASE Pc!FwdCheckCycle(ch)
    BY <1>2, <1>3, <1>7, <1>9, <2>3 DEF Pc!FwdCheckCycle
  <2>4. CASE Pc!BwdCheckCycle(ch)
    BY <1>2, <1>3, <1>8, <1>9, <2>4 DEF Pc!BwdCheckCycle
  <2> QED
    BY <1>1, <2>1, <2>2, <2>3, <2>4
<1> QED
  BY <1>2, <1>3, <1>5, <1>10, <1>11 DEF Pc!TypeOK

(* What the causality checkers have seen has retired.                      *)
LEMMA CausalTypes ==
  ASSUME Shape, Causal!TypeOK, Causal!Next
  PROVE  Causal!TypeOK'
<1>1. PICK ch \in Causal!Cycle : Causal!ResetCycle(ch) \/ Causal!ObserveCycle(ch) \/ Causal!CheckCycle(ch)
  BY DEF Causal!Next
<1>2. NRET \in 0 .. NRET /\ CHANNEL_IDX \in 0 .. NRET
  BY DEF Shape
<1>3. \A m \in 0 .. NRET : Causal!Lower(ch, m) \subseteq Causal!Lower(ch, NRET)
  BY DEF Causal!Lower, Shape
<1>4. Causal!Lower(ch, NRET) \subseteq Causal!Orders
  BY <1>2, CausalLower DEF Shape
<1>5. Causal!Lower(ch, NRET) = {ch[c] : c \in Causal!Channels} \ {Causal!Idle}
  BY DEF Causal!Lower, Causal!Channels
<1>6. /\ prog' = prog /\ retired' = retired \cup Causal!Lower(ch, NRET)
      /\ seen' \subseteq seen \cup Causal!Lower(ch, NRET)
      /\ insn_order' = insn_order /\ register_index' = register_index
  BY <1>1, <1>2, <1>3, <1>5
     DEF Causal!ResetCycle, Causal!ObserveCycle, Causal!CheckCycle, Causal!Retire, Causal!consts
<1>7. reset' \in BOOLEAN /\ found_non_causal' \in BOOLEAN /\ verdict' \in {"none", "pass", "fail"}
  <2>1. \A m : Causal!LaterReader(ch, m) \in BOOLEAN
    BY DEF Causal!LaterReader
  <2> QED
    BY <1>1, <2>1 DEF Causal!ResetCycle, Causal!ObserveCycle, Causal!CheckCycle, Causal!TypeOK
<1> QED
  BY <1>4, <1>6, <1>7 DEF Causal!TypeOK, Causal!StreamTypeOK

LEMMA MemTypes ==
  ASSUME Shape, Mem!TypeOK, Mem!Next
  PROVE  Mem!TypeOK'
<1>1. PICK ch \in Mem!Cycle : \/ Mem!ResetCycle(ch) \/ Mem!ObserveCycle(ch)
                              \/ Mem!MemCheckCycle(ch) \/ Mem!IoCheckCycle(ch)
  BY DEF Mem!Next
<1>2. NRET \in 0 .. NRET /\ CHANNEL_IDX \in 0 .. NRET
  BY DEF Shape
<1>3. \A m \in 0 .. NRET : Mem!Lower(ch, m) \subseteq Mem!Lower(ch, NRET)
  BY DEF Mem!Lower, Shape
<1>4. Mem!Lower(ch, NRET) \subseteq Mem!Orders
  BY <1>2, MemLower DEF Shape
<1>5. /\ prog' = prog /\ retired' = retired \cup Mem!Lower(ch, NRET)
      /\ seen' \subseteq seen \cup Mem!Lower(ch, NRET)
      /\ insn_order' = insn_order /\ check_addr' = check_addr
  BY <1>1, <1>2, <1>3
     DEF Mem!ResetCycle, Mem!ObserveCycle, Mem!MemCheckCycle, Mem!IoCheckCycle, Mem!Retire, Mem!consts
<1>6. /\ reset' \in BOOLEAN /\ found_non_causal' \in BOOLEAN /\ found_io' \in BOOLEAN
      /\ mem' \in {"none", "pass", "fail"} /\ io' \in {"none", "pass", "fail"}
  <2>1. \A m : Mem!LaterRead(ch, m) \in BOOLEAN /\ Mem!LaterIo(ch, m) \in BOOLEAN
    BY DEF Mem!LaterRead, Mem!LaterIo
  <2> QED
    BY <1>1, <2>1 DEF Mem!ResetCycle, Mem!ObserveCycle, Mem!MemCheckCycle, Mem!IoCheckCycle,
                      Mem!Fold, Mem!TypeOK
<1> QED
  BY <1>4, <1>5, <1>6 DEF Mem!TypeOK

(* released is a cycle that has begun, and nothing is triggered in reset.  *)
ProgressTyped == Progress!TypeOK /\ released <= now /\ (reset => trig_cycle = Progress!Never)

LEMMA ProgressTypesStart ==
  ASSUME MAX_CYCLES \in Nat, Progress!Init
  PROVE  ProgressTyped
<1>1. /\ now = 0 /\ halting \in Progress!Orders \cup {Progress!Never} /\ insn_order \in Progress!Orders
      /\ when = [n \in Progress!Orders |-> Progress!Never]
      /\ reset = TRUE /\ found_next_insn = FALSE /\ okay = FALSE
      /\ trig_cycle = Progress!Never /\ released = Progress!Never
      /\ liveness = "none" /\ hang = "none"
  BY DEF Progress!Init
<1>2. 0 \in 0 .. MAX_CYCLES /\ when \in [Progress!Orders -> 0 .. MAX_CYCLES \cup {Progress!Never}]
  BY <1>1
<1>3. /\ trig_cycle \in 0 .. MAX_CYCLES \cup {Progress!Never}
      /\ released \in 0 .. MAX_CYCLES \cup {Progress!Never}
      /\ reset \in BOOLEAN /\ found_next_insn \in BOOLEAN /\ okay \in BOOLEAN
      /\ liveness \in {"none", "pass", "fail"} /\ hang \in {"none", "pass", "fail"}
  BY <1>1
<1>4. released <= now
  BY <1>1 DEF Progress!Never
<1> QED
  BY <1>1, <1>2, <1>3, <1>4 DEF ProgressTyped, Progress!TypeOK

LEMMA ProgressTypes ==
  ASSUME Shape, MAX_CYCLES \in Nat, ProgressTyped, Progress!Next
  PROVE  ProgressTyped'
<1>1. PICK ch \in Progress!Cycle : \/ Progress!ResetCycle(ch)
                                   \/ \E trig \in BOOLEAN : Progress!ObserveCycle(ch, trig)
                                   \/ Progress!LivenessCheckCycle(ch) \/ Progress!HangCheckCycle(ch)
  BY DEF Progress!Next
<1>2. /\ now < MAX_CYCLES /\ now' = now + 1 /\ halting' = halting /\ insn_order' = insn_order
      /\ when' = [n \in Progress!Orders |-> IF n \in Progress!Carried(ch) THEN now ELSE when[n]]
  BY <1>1 DEF Progress!ResetCycle, Progress!ObserveCycle, Progress!LivenessCheckCycle,
              Progress!HangCheckCycle, Progress!Retire, Progress!Later
<1>3. /\ now \in 0 .. MAX_CYCLES /\ when \in [Progress!Orders -> 0 .. MAX_CYCLES \cup {Progress!Never}]
      /\ halting \in Progress!Orders \cup {Progress!Never} /\ insn_order \in Progress!Orders
      /\ reset \in BOOLEAN /\ found_next_insn \in BOOLEAN /\ okay \in BOOLEAN
      /\ trig_cycle \in 0 .. MAX_CYCLES \cup {Progress!Never}
      /\ released \in 0 .. MAX_CYCLES \cup {Progress!Never} /\ released <= now
      /\ liveness \in {"none", "pass", "fail"} /\ hang \in {"none", "pass", "fail"}
      /\ trig_cycle # Progress!Never => released <= trig_cycle /\ trig_cycle < now
      /\ reset => trig_cycle = Progress!Never
  BY DEF ProgressTyped, Progress!TypeOK
<1>4. now' \in 0 .. MAX_CYCLES /\ when' \in [Progress!Orders -> 0 .. MAX_CYCLES \cup {Progress!Never}]
  BY <1>2, <1>3
<1>5. /\ reset' \in BOOLEAN /\ found_next_insn' \in BOOLEAN /\ okay' \in BOOLEAN
      /\ liveness' \in {"none", "pass", "fail"} /\ hang' \in {"none", "pass", "fail"}
  BY <1>1, <1>3 DEF Progress!ResetCycle, Progress!ObserveCycle, Progress!LivenessCheckCycle,
              Progress!HangCheckCycle, Progress!LivenessFold, Progress!HangFold
<1>6. CASE Progress!ResetCycle(ch)
  <2>1. /\ trig_cycle' = Progress!Never
        /\ released' = (IF reset' THEN Progress!Never ELSE now + 1)
    BY <1>3, <1>6 DEF Progress!ResetCycle
  <2> QED
    BY <1>2, <1>3, <1>4, <1>5, <2>1 DEF ProgressTyped, Progress!TypeOK, Progress!Never
<1>7. CASE ~reset /\ reset' = reset /\ released' = released /\ trig_cycle' \in {trig_cycle, now}
  BY <1>2, <1>3, <1>4, <1>5, <1>7 DEF ProgressTyped, Progress!TypeOK, Progress!Never
<1> QED
  BY <1>1, <1>6, <1>7 DEF Progress!ObserveCycle, Progress!LivenessCheckCycle, Progress!HangCheckCycle

(* The shadow and the memory are typed by DmemInv.                         *)
LEMMA DmemTypes ==
  ASSUME DmemInv, Dmem!TypeOK, DmemInv', Dmem!Next
  PROVE  Dmem!TypeOK'
<1>1. reset' \in BOOLEAN /\ failed' \in BOOLEAN /\ wrong' \in BOOLEAN
  BY DEF Dmem!Next, Dmem!ResetCycle, Dmem!CheckCycle, Dmem!TypeOK
<1> QED
  BY <1>1 DEF DmemInv, Dmem!TypeOK

(* A core that keeps causality is one that may break it.                   *)
LEMMA KeptTypes ==
  ASSUME Shape, Kept!TypeOK, Kept!Next
  PROVE  Kept!TypeOK'
<1>1. Causal!TypeOK <=> Kept!TypeOK
  BY DEF Causal!TypeOK, Kept!TypeOK, Causal!StreamTypeOK, Kept!StreamTypeOK, Causal!Orders, Kept!Orders,
         Causal!Packet, Kept!Packet
<1>2. Causal!TypeOK' <=> Kept!TypeOK'
  BY DEF Causal!TypeOK, Kept!TypeOK, Causal!StreamTypeOK, Kept!StreamTypeOK, Causal!Orders, Kept!Orders,
         Causal!Packet, Kept!Packet
<1>3. Kept!Next => Causal!Next
  <2>1. Kept!Cycle = Causal!Cycle
    BY DEF Kept!Cycle, Causal!Cycle, Kept!Channels, Causal!Channels, Kept!Orders, Causal!Orders,
           Kept!Idle, Causal!Idle
  <2>2. ASSUME NEW ch \in Kept!Cycle
        PROVE  /\ Kept!Retire(ch) => Causal!Retire(ch)
               /\ \A m : /\ Kept!Lower(ch, m) = Causal!Lower(ch, m)
                        /\ Kept!LaterReader(ch, m) = Causal!LaterReader(ch, m)
    BY DEF Kept!Retire, Causal!Retire, Kept!Unique, Causal!Unique, Kept!Before, Causal!Before,
           Kept!Lower, Causal!Lower, Kept!Channels, Causal!Channels, Kept!Idle, Causal!Idle,
           Kept!LaterReader, Causal!LaterReader, Kept!Reads, Causal!Reads
  <2>3. ASSUME NEW ch \in Kept!Cycle
        PROVE  /\ Kept!ResetCycle(ch) => Causal!ResetCycle(ch)
               /\ Kept!ObserveCycle(ch) => Causal!ObserveCycle(ch)
               /\ Kept!CheckCycle(ch) => Causal!CheckCycle(ch)
    BY <2>2, Zenon DEF Kept!ResetCycle, Causal!ResetCycle, Kept!ObserveCycle, Causal!ObserveCycle,
           Kept!CheckCycle, Causal!CheckCycle, Kept!consts, Causal!consts
  <2> QED
    BY <2>1, <2>3 DEF Kept!Next, Causal!Next
<1> QED
  BY <1>1, <1>2, <1>3, CausalTypes

LEMMA MemKeptTypes ==
  ASSUME Shape, MemKept!TypeOK, MemKept!Next
  PROVE  MemKept!TypeOK'
<1>1. PICK ch \in MemKept!Cycle : \/ MemKept!ResetCycle(ch) \/ MemKept!ObserveCycle(ch)
                              \/ MemKept!MemCheckCycle(ch) \/ MemKept!IoCheckCycle(ch)
  BY DEF MemKept!Next
<1>2. NRET \in 0 .. NRET /\ CHANNEL_IDX \in 0 .. NRET
  BY DEF Shape
<1>3. \A m \in 0 .. NRET : MemKept!Lower(ch, m) \subseteq MemKept!Lower(ch, NRET)
  BY DEF MemKept!Lower, Shape
<1>4. MemKept!Lower(ch, NRET) \subseteq MemKept!Orders
  BY DEF MemKept!Lower, MemKept!Cycle, MemKept!Channels, MemKept!Idle, Shape
<1>5. /\ prog' = prog /\ retired' = retired \cup MemKept!Lower(ch, NRET)
      /\ seen' \subseteq seen \cup MemKept!Lower(ch, NRET)
      /\ insn_order' = insn_order /\ check_addr' = check_addr
  BY <1>1, <1>2, <1>3
     DEF MemKept!ResetCycle, MemKept!ObserveCycle, MemKept!MemCheckCycle, MemKept!IoCheckCycle,
         MemKept!Retire, MemKept!consts
<1>6. /\ reset' \in BOOLEAN /\ found_non_causal' \in BOOLEAN /\ found_io' \in BOOLEAN
      /\ mem' \in {"none", "pass", "fail"} /\ io' \in {"none", "pass", "fail"}
  <2>1. \A m : MemKept!LaterRead(ch, m) \in BOOLEAN /\ MemKept!LaterIo(ch, m) \in BOOLEAN
    BY DEF MemKept!LaterRead, MemKept!LaterIo
  <2> QED
    BY <1>1, <2>1 DEF MemKept!ResetCycle, MemKept!ObserveCycle, MemKept!MemCheckCycle,
                      MemKept!IoCheckCycle, MemKept!Fold, MemKept!TypeOK
<1> QED
  BY <1>4, <1>5, <1>6 DEF MemKept!TypeOK

(* The same of the pc checks with one channel.                             *)
LEMMA NarrowTypes ==
  ASSUME PcNarrow!TypeOK, PcNarrow!Next
  PROVE  PcNarrow!TypeOK'
<1>1. PICK ch \in PcNarrow!Cycle : \/ PcNarrow!ResetCycle(ch) \/ PcNarrow!ObserveCycle(ch)
                             \/ PcNarrow!FwdCheckCycle(ch) \/ PcNarrow!BwdCheckCycle(ch)
  BY DEF PcNarrow!Next
<1>2. /\ prog \in [PcNarrow!Orders -> PcNarrow!Packet]
      /\ retired \subseteq PcNarrow!Orders
      /\ seen \subseteq retired
      /\ reset \in BOOLEAN /\ fwd \in PcNarrow!Checker /\ bwd \in PcNarrow!Checker
  BY DEF PcNarrow!TypeOK
<1>3. PcNarrow!Channels = {0}
  BY DEF PcNarrow!Channels
<1>4. \A c \in PcNarrow!Channels : ch[c] \in PcNarrow!Orders \cup {PcNarrow!Idle}
  BY DEF PcNarrow!Cycle
<1>5. \A m \in 0 .. 1 : /\ PcNarrow!Lower(ch, m) \subseteq PcNarrow!Lower(ch, 1)
                           /\ PcNarrow!Lower(ch, m) \subseteq PcNarrow!Orders
  BY <1>4 DEF PcNarrow!Lower, PcNarrow!Channels
<1>6. \A n \in PcNarrow!Orders :
        prog[n].pc_rdata \in PCs /\ prog[n].pc_wdata \in PCs /\ prog[n].intr \in BOOLEAN
  BY <1>2 DEF PcNarrow!Packet
<1>7. ASSUME NEW m \in 0 .. 1 PROVE PcNarrow!FwdFold(ch, m) \in PcNarrow!Checker
  <2>1. CASE PcNarrow!CarriedBy(ch, m, fwd.insn_order - 1) = {}
    BY <1>2, <2>1 DEF PcNarrow!FwdFold
  <2>2. CASE PcNarrow!CarriedBy(ch, m, fwd.insn_order - 1) # {}
    <3>1. fwd.insn_order - 1 \in PcNarrow!Orders
      <4>1. PICK d \in 0 .. m - 1 : ch[d] # PcNarrow!Idle /\ ch[d] = fwd.insn_order - 1
        BY <2>2 DEF PcNarrow!CarriedBy
      <4> QED
        BY <1>4, <4>1 DEF PcNarrow!Channels
    <3>2. PcNarrow!FwdFold(ch, m) = [fwd EXCEPT !.expect_pc = prog[fwd.insn_order - 1].pc_wdata,
                                          !.expect_pc_valid = TRUE]
      BY <2>2 DEF PcNarrow!FwdFold
    <3> QED
      BY <1>2, <1>6, <3>1, <3>2 DEF PcNarrow!Checker
  <2> QED
    BY <2>1, <2>2
<1>8. ASSUME NEW m \in 0 .. 1, NEW intr \in PcNarrow!IntrOnChannelIdx(ch)
      PROVE  PcNarrow!BwdFold(ch, m, intr) \in PcNarrow!Checker
  <2>1. CASE PcNarrow!CarriedBy(ch, m, bwd.insn_order + 1) = {}
    BY <1>2, <2>1 DEF PcNarrow!BwdFold
  <2>2. CASE PcNarrow!CarriedBy(ch, m, bwd.insn_order + 1) # {}
    <3>1. bwd.insn_order + 1 \in PcNarrow!Orders
      <4>1. PICK d \in 0 .. m - 1 : ch[d] # PcNarrow!Idle /\ ch[d] = bwd.insn_order + 1
        BY <2>2 DEF PcNarrow!CarriedBy
      <4> QED
        BY <1>4, <4>1 DEF PcNarrow!Channels
    <3>2. PcNarrow!BwdFold(ch, m, intr) = [bwd EXCEPT !.expect_pc = prog[bwd.insn_order + 1].pc_rdata,
                                                !.expect_pc_valid = ~intr]
      BY <2>2 DEF PcNarrow!BwdFold
    <3> QED
      BY <1>2, <1>6, <3>1, <3>2 DEF PcNarrow!Checker
  <2> QED
    BY <2>1, <2>2
<1>9. \A f \in PcNarrow!Checker, v \in {"pass", "fail"} : [f EXCEPT !.verdict = v] \in PcNarrow!Checker
  BY DEF PcNarrow!Checker
<1>10. /\ prog' = prog /\ retired' = retired \cup PcNarrow!Lower(ch, 1)
       /\ seen' \subseteq seen \cup PcNarrow!Lower(ch, 1)
  BY <1>1, <1>3, <1>5 DEF PcNarrow!ResetCycle, PcNarrow!ObserveCycle, PcNarrow!FwdCheckCycle,
                          PcNarrow!BwdCheckCycle, PcNarrow!Retire
<1>11. fwd' \in PcNarrow!Checker /\ bwd' \in PcNarrow!Checker /\ reset' \in BOOLEAN
  <2>1. CASE PcNarrow!ResetCycle(ch)
    BY <1>2, <2>1 DEF PcNarrow!ResetCycle, PcNarrow!Checker
  <2>2. CASE PcNarrow!ObserveCycle(ch)
    BY <1>2, <1>3, <1>7, <1>8, <2>2 DEF PcNarrow!ObserveCycle
  <2>3. CASE PcNarrow!FwdCheckCycle(ch)
    <3>1. PcNarrow!FwdFold(ch, 0) \in PcNarrow!Checker
      BY <1>7
    <3> QED
      BY <1>2, <1>9, <2>3, <3>1 DEF PcNarrow!FwdCheckCycle
  <2>4. CASE PcNarrow!BwdCheckCycle(ch)
    <3>1. \A intr \in PcNarrow!IntrOnChannelIdx(ch) : PcNarrow!BwdFold(ch, 0, intr) \in PcNarrow!Checker
      BY <1>8
    <3> QED
      BY <1>2, <1>9, <2>4, <3>1 DEF PcNarrow!BwdCheckCycle
  <2> QED
    BY <1>1, <2>1, <2>2, <2>3, <2>4
<1> QED
  BY <1>2, <1>3, <1>5, <1>10, <1>11 DEF PcNarrow!TypeOK

(* What has to be known of each part for its types.                        *)
TypesInv ==
  /\ checker = "reg"         => RegProofs!IInv
  /\ checker = "pc"          => Pc!TypeOK
  /\ checker = "pc_narrow"   => PcNarrow!TypeOK
  /\ checker = "causal"      => Causal!TypeOK
  /\ checker = "causal_kept" => Kept!TypeOK
  /\ checker = "unique"      => UniqueInv
  /\ checker = "progress"    => ProgressTyped
  /\ checker = "mem"         => Mem!TypeOK
  /\ checker = "mem_kept"    => MemKept!TypeOK
  /\ checker = "dmem"        => Dmem!TypeOK /\ DmemInv
  /\ checker = "stack"       => HippoProofs!TypeOK
  /\ NervInv

LEMMA TypesStart ==
  ASSUME Shape, MAX_CYCLES \in Nat, MCInit
  PROVE  TypesInv
<1>1. CASE Init
  <2>1. checker \notin {"nerv", "nerv_plain", "stack"}
    BY <1>1 DEF Init
  <2>2. /\ checker = "pc"          => Pc!Init
        /\ checker = "pc_narrow"   => PcNarrow!Init
        /\ checker = "causal"      => Causal!Init
        /\ checker = "causal_kept" => Kept!Init
        /\ checker = "unique"      => Uniq!Init
        /\ checker = "progress"    => Progress!Init
        /\ checker = "mem"         => Mem!Init
        /\ checker = "mem_kept"    => MemKept!Init
        /\ checker = "dmem"        => Dmem!Init
    BY <1>1 DEF Init
  <2>3. Pc!Init => Pc!TypeOK
    BY DEF Pc!Init, Pc!TypeOK
  <2>4. PcNarrow!Init => PcNarrow!TypeOK
    BY DEF PcNarrow!Init, PcNarrow!TypeOK
  <2>5. Causal!Init => Causal!TypeOK
    BY DEF Causal!Init, Causal!StreamInit, Causal!TypeOK, Causal!StreamTypeOK
  <2>6. Kept!Init => Kept!TypeOK
    BY DEF Kept!Init, Kept!StreamInit, Kept!TypeOK, Kept!StreamTypeOK
  <2>7. Mem!Init => Mem!TypeOK
    BY DEF Mem!Init, Mem!TypeOK
  <2>8. MemKept!Init => MemKept!TypeOK
    BY DEF MemKept!Init, MemKept!TypeOK
  <2>9. Dmem!Init => Dmem!TypeOK
    BY DEF Dmem!Init, Dmem!TypeOK
  <2>10. checker = "reg" => RegProofs!IInv
    BY <1>1, RegInit, RegProofs!InitInv DEF Shape
  <2> QED
    BY <1>1, <2>1, <2>2, <2>3, <2>4, <2>5, <2>6, <2>7, <2>8, <2>9, <2>10,
       UniqueInitInv, ProgressTypesStart, DmemInit, NervInvInit DEF TypesInv
<1>2. CASE checker = "stack" /\ Hippo!Init
  BY <1>2, HippoInit, HippoProofs!TypeInit, DepthAssumption, MaskAssumption, DataAssumption, NervInvInit
     DEF TypesInv
<1>3. CASE checker \in {"nerv", "nerv_plain"}
  BY <1>3, NervInvInit DEF TypesInv
<1> QED
  BY <1>1, <1>2, <1>3 DEF MCInit

LEMMA TypesStep ==
  ASSUME Shape, MAX_CYCLES \in Nat, Data \subseteq Nat,
         TypesInv, [MCNext]_<<vars, coreVars, stackVars>>
  PROVE  TypesInv'
<1>1. checker' = checker
  BY SamePart
<1>2. NervInv'
  BY NervInvStep DEF TypesInv
<1>3. checker = "reg" => RegProofs!IInv'
  BY CheckerNext, RegNext, RegProofs!Step DEF TypesInv, Shape
<1>4. checker = "stack" => HippoProofs!TypeOK'
  BY StackNext, HippoProofs!TypeStep, DepthAssumption, MaskAssumption, DataAssumption DEF TypesInv
<1>5. CASE UNCHANGED vars
  <2>1. UNCHANGED <<prog, retired, reset, seen, insn_order, verdict, fwd, bwd, register_index,
                    found_non_causal, triggered, found_other_insn, uses>>
    BY <1>5 DEF vars, pcVars, causalVars, uniqueVars
  <2>2. UNCHANGED <<now, halting, when, found_next_insn, trig_cycle, liveness, okay, released, hang>>
    BY <1>5 DEF vars, progressVars
  <2>3. UNCHANGED <<check_addr, found_io, mem, io, dmem_addr, dmem_shadow, dmem_written, failed,
                    memory, wrong>>
    BY <1>5 DEF vars, memVars, dmemVars
  <2>4. /\ checker = "pc" => Pc!TypeOK'
        /\ checker = "pc_narrow" => PcNarrow!TypeOK'
    BY <2>1 DEF TypesInv, Pc!TypeOK, PcNarrow!TypeOK
  <2>5. /\ checker = "causal" => Causal!TypeOK'
        /\ checker = "causal_kept" => Kept!TypeOK'
    BY <2>1 DEF TypesInv, Causal!TypeOK, Causal!StreamTypeOK, Kept!TypeOK, Kept!StreamTypeOK
  <2>6. checker = "unique" => UniqueInv'
    BY <2>1, UniqueStepInv DEF TypesInv, Uniq!vars
  <2>7. checker = "progress" => ProgressTyped'
    BY <2>1, <2>2 DEF TypesInv, ProgressTyped, Progress!TypeOK
  <2>8. /\ checker = "mem" => Mem!TypeOK'
        /\ checker = "mem_kept" => MemKept!TypeOK'
    BY <2>1, <2>3 DEF TypesInv, Mem!TypeOK, MemKept!TypeOK
  <2>9. checker = "dmem" => Dmem!TypeOK' /\ DmemInv'
    BY <2>1, <2>3 DEF TypesInv, Dmem!TypeOK, DmemInv, Dmem!DmemExact
  <2> QED
    BY <1>1, <1>2, <1>3, <1>4, <2>4, <2>5, <2>6, <2>7, <2>8, <2>9 DEF TypesInv
<1>6. CASE ~UNCHANGED vars /\ checker \notin {"nerv", "nerv_plain", "stack"}
  <2>1. Next
    BY <1>6, CheckerNext
  <2>2. /\ checker = "pc"          => Pc!Next
        /\ checker = "pc_narrow"   => PcNarrow!Next
        /\ checker = "causal"      => Causal!Next
        /\ checker = "causal_kept" => Kept!Next
        /\ checker = "unique"      => Uniq!Next
        /\ checker = "progress"    => Progress!Next
        /\ checker = "mem"         => Mem!Next
        /\ checker = "mem_kept"    => MemKept!Next
        /\ checker = "dmem"        => Dmem!Next
    BY <2>1, Zenon DEF Next
  <2>3. checker = "unique" => UniqueInv'
    BY <2>2, UniqueStepInv DEF TypesInv
  <2>4. checker = "dmem" => Dmem!TypeOK' /\ DmemInv'
    BY <2>2, DmemStep, DmemTypes DEF TypesInv
  <2>5. /\ checker = "pc"          => Pc!TypeOK'
        /\ checker = "pc_narrow"   => PcNarrow!TypeOK'
        /\ checker = "causal"      => Causal!TypeOK'
        /\ checker = "causal_kept" => Kept!TypeOK'
        /\ checker = "progress"    => ProgressTyped'
        /\ checker = "mem"         => Mem!TypeOK'
        /\ checker = "mem_kept"    => MemKept!TypeOK'
    BY <2>2, PcTypes, NarrowTypes, CausalTypes, KeptTypes, ProgressTypes, MemTypes, MemKeptTypes
       DEF TypesInv
  <2> QED
    BY <1>1, <1>2, <1>3, <1>4, <2>3, <2>4, <2>5 DEF TypesInv
<1>7. CASE checker \in {"nerv", "nerv_plain", "stack"}
  BY <1>1, <1>2, <1>4, <1>7 DEF TypesInv
<1> QED
  BY <1>5, <1>6, <1>7

LEMMA TypesAre ==
  ASSUME TypesInv
  PROVE  PartsTyped
<1>1. RegProofs!IInv => Reg!TypeOK
  BY DEF RegProofs!IInv, RegProofs!TypeOK, Reg!TypeOK, RegProofs!StreamTypeOK, Reg!StreamTypeOK,
         RegProofs!Orders, Reg!Orders, RegProofs!Packet, Reg!Packet, RegProofs!WriteValues, Reg!WriteValues
<1>2. HippoProofs!TypeOK => Hippo!TypeOK
  BY DEF HippoProofs!TypeOK, Hippo!TypeOK, HippoProofs!Instances, Hippo!Instances,
         HippoProofs!Contents, Hippo!Contents
<1>3. NervInv => /\ checker = "nerv" => Nerv!TypeOK
                 /\ checker = "nerv_plain" => Plain!TypeOK
  BY CoreAssumption, NervParameters, PlainParameters, NervInvariant, PlainInvariant DEF NervInv
<1> QED
  BY <1>1, <1>2, <1>3 DEF TypesInv, UniqueInv, ProgressTyped, TypeOK, PartsTyped

(* The registers of every checker and core of the testbench, and the       *)
(* history beside them, have their types, for every shape of the core.     *)
THEOREM TestbenchTypes ==
  ASSUME NRET \in Nat \ {0}, CHANNEL_IDX \in 0 .. NRET - 1, N \in Nat,
         MAX_CYCLES \in Nat, Data \subseteq Nat
  PROVE  MCSpec => []PartsTyped
<1>1. MCInit => TypesInv
  BY TypesStart DEF Shape
<1>2. TypesInv /\ [MCNext]_<<vars, coreVars, stackVars>> => TypesInv'
  BY TypesStep DEF Shape
<1>3. TypesInv => PartsTyped
  BY TypesAre
<1>. QED  BY <1>1, <1>2, <1>3, PTL DEF MCSpec
=============================================================================
