------------------------- MODULE RvfiRegCheckProofs -------------------------
(***************************************************************************)
(* The register check is exact, for every program, every number of         *)
(* channels and every reset and check cycle, provided the core keeps       *)
(* causality and retires writes to one register in program order.          *)
(*                                                                         *)
(* VerdictExact is not inductive: that the shadow holds the last write     *)
(* *seen* is only worth something because what was retired before the      *)
(* checker left reset precedes, register by register, what came after      *)
(* (SeenLater), which in turn needs the retired writers of a register to   *)
(* be a prefix of its writers (WritersPrefix).                             *)
(***************************************************************************)
EXTENDS RvfiRegCheck, TLAPS

(* The retired writers of a register are a prefix of its writers.          *)
WritersPrefix ==
  \A n \in retired, j \in Orders, r \in Regs \ {0} :
    j < n /\ Writes(n, r) /\ Writes(j, r) => j \in retired

(* What the checker missed in reset is older than what it saw.             *)
SeenLater ==
  \A j \in retired \ seen, k \in seen, r \in Regs \ {0} :
    Writes(j, r) /\ Writes(k, r) => j < k

(* The shadow is the value of the newest write seen.                       *)
ShadowNewest ==
  /\ register_written <=> WriteSeen
  /\ register_written /\ register_index = 0 => register_shadow = 0
  /\ register_written /\ register_index # 0 =>
       \E k \in seen :
         /\ k < insn_order /\ Writes(k, register_index)
         /\ register_shadow = k + 1
         /\ \A j \in seen : j < insn_order /\ Writes(j, register_index) => j <= k

IInv ==
  /\ TypeOK
  /\ WritersPrefix
  /\ verdict = "none" => SeenLater /\ ShadowNewest
  /\ VerdictExact

(* The initial states satisfy the invariant.                               *)
LEMMA InitInv == Init => IInv
<1> SUFFICES ASSUME Init PROVE IInv
  OBVIOUS
<1>0. 0 \in WriteValues
  BY NAssumption DEF WriteValues
<1>1. TypeOK
  BY <1>0 DEF Init, StreamInit, TypeOK, StreamTypeOK
<1>2. WritersPrefix
  BY DEF Init, StreamInit, WritersPrefix
<1>3. SeenLater /\ ShadowNewest
  BY DEF Init, StreamInit, SeenLater, ShadowNewest, WriteSeen
<1>4. VerdictExact
  BY DEF Init, VerdictExact
<1>. QED  BY <1>1, <1>2, <1>3, <1>4 DEF IInv

(* The orders on the lower channels of a cycle are orders.                 *)
LEMMA LowerOrders ==
  ASSUME NEW ch \in Cycle, NEW m \in 0 .. NRET
  PROVE  /\ Lower(ch, m) \subseteq Orders
         /\ Lower(ch, m) \subseteq {ch[c] : c \in Channels} \ {Idle}
  BY NRETAssumption DEF Lower, Cycle, Channels, Idle

(* All channels of a cycle are below NRET.                                 *)
LEMMA LowerAll ==
  ASSUME NEW ch \in Cycle
  PROVE  Lower(ch, NRET) = {ch[c] : c \in Channels} \ {Idle}
  BY NRETAssumption DEF Lower, Channels

(* Retiring a cycle keeps the stream well typed.                           *)
LEMMA RetireType ==
  ASSUME NEW ch \in Cycle, StreamTypeOK, Retire(ch)
  PROVE  StreamTypeOK'
  BY DEF StreamTypeOK, Retire, Cycle

(* Writes retire in order, register by register.                           *)
LEMMA RetirePrefix ==
  ASSUME NEW ch \in Cycle, StreamTypeOK, WritersPrefix, Retire(ch),
         KEEP_WRITE_ORDER
  PROVE  WritersPrefix'
<1> SUFFICES ASSUME NEW n \in retired', NEW j \in Orders, NEW r \in Regs \ {0},
                    j < n, Writes(n, r)', Writes(j, r)'
             PROVE  j \in retired'
  BY DEF WritersPrefix
<1>1. Writes(n, r) /\ Writes(j, r)
  BY DEF Writes, Retire
<1>2. CASE n \in retired
  BY <1>1, <1>2 DEF WritersPrefix, Retire
<1>3. CASE n \notin retired
  <2>1. PICK c \in Channels : n = ch[c] /\ ch[c] # Idle
    BY <1>3 DEF Retire
  <2>2. prog[ch[c]].rd = r
    BY <1>1, <2>1 DEF Writes
  <2>3. j \in Before(ch, c)
    BY <1>1, <2>1, <2>2 DEF Retire, WritesInOrder
  <2>4. c \in 0 .. NRET
    BY NRETAssumption DEF Channels
  <2>5. Lower(ch, c) \subseteq {ch[d] : d \in Channels} \ {Idle}
    BY <2>4, LowerOrders
  <2>. QED  BY <2>3, <2>5 DEF Before, Retire
<1>. QED  BY <1>2, <1>3

(* A write that retires now is newer than every write that is retired.     *)
LEMMA NewWriteIsNewer ==
  ASSUME NEW ch \in Cycle, StreamTypeOK, WritersPrefix, Unique(ch),
         NEW c \in Channels, ch[c] # Idle,
         NEW j \in retired, NEW r \in Regs \ {0},
         Writes(j, r), Writes(ch[c], r)
  PROVE  j < ch[c]
<1>1. ch[c] \notin retired
  BY DEF Unique, Before
<1>2. ch[c] \in Orders /\ j \in Orders
  BY DEF Cycle, StreamTypeOK
<1>3. ~(ch[c] < j)
  BY <1>1, <1>2 DEF WritersPrefix
<1>. QED  BY <1>1, <1>2, <1>3, NAssumption DEF Orders

(* Folding the channels below m, the checker has been shown Lower(ch, m)   *)
(* on top of what it saw before, and the shadow holds the newest write.    *)
LEMMA FoldNewest ==
  ASSUME NEW ch \in Cycle, TypeOK, WritersPrefix, ShadowNewest,
         Retire(ch), KEEP_WRITE_ORDER,
         NEW m \in 0 .. NRET, FoldShadow(ch, m),
         seen' = seen \cup Lower(ch, m), UNCHANGED consts
  PROVE  ShadowNewest'
<1> USE DEF TypeOK, StreamTypeOK, consts
<1>0. /\ prog' = prog /\ Unique(ch) /\ WritesInOrder(ch)
      /\ \A k, r : Writes(k, r)' <=> Writes(k, r)
  BY DEF Retire, Writes
<1>1. Lower(ch, m) \subseteq Orders /\ seen \subseteq Orders
  BY LowerOrders
<1>2. \A d \in 0 .. m - 1 : d \in Channels /\ ch[d] \in Orders \cup {Idle}
  BY NRETAssumption DEF Channels, Cycle
<1>3. \A k : k \in Lower(ch, m) /\ k < insn_order /\ Writes(k, register_index)
              <=> \E d \in Hits(ch, m) : k = ch[d]
  BY DEF Hits, Lower
<1>4. CASE Hits(ch, m) = {} /\ UNCHANGED <<register_shadow, register_written>>
  <2>1. \A k : k \in seen' /\ k < insn_order /\ Writes(k, register_index)
               <=> k \in seen /\ k < insn_order /\ Writes(k, register_index)
    BY <1>3, <1>4
  <2>2. WriteSeen' <=> WriteSeen
    BY <2>1, <1>0 DEF WriteSeen
  <2>. QED  BY <1>0, <1>4, <2>1, <2>2 DEF ShadowNewest
<1>5. ASSUME NEW d \in Hits(ch, m), \A e \in Hits(ch, m) : e <= d,
             register_shadow' = rvfi_rd_wdata(ch[d]), register_written' = TRUE
      PROVE  ShadowNewest'
  <2>1. /\ d \in 0 .. m - 1 /\ d \in Channels /\ ch[d] # Idle /\ ch[d] \in Orders
        /\ ch[d] < insn_order /\ Writes(ch[d], register_index)
        /\ ch[d] \in seen'
    BY <1>2, <1>3, <1>5 DEF Hits
  <2>2. WriteSeen'
    BY <1>0, <2>1 DEF WriteSeen
  <2>3. prog[ch[d]].rd = register_index
    BY <2>1 DEF Writes
  <2>4. CASE register_index = 0
    BY <2>2, <2>3, <2>4, <1>5 DEF ShadowNewest, rvfi_rd_wdata
  <2>5. CASE register_index # 0
    <3>1. register_shadow' = ch[d] + 1
      BY <2>3, <2>5, <1>5 DEF rvfi_rd_wdata
    <3>2. ASSUME NEW j \in seen', j < insn_order, Writes(j, register_index)
          PROVE  j <= ch[d]
      <4>1. CASE j \in seen
        BY <4>1, <2>1, <2>5, <3>2, <1>0, <1>1, NewWriteIsNewer DEF Orders
      <4>2. CASE j \in Lower(ch, m)
        <5>1. PICK e \in Hits(ch, m) : j = ch[e]
          BY <1>3, <3>2, <4>2
        <5>2. e \in 0 .. m - 1 /\ e \in Channels /\ e <= d
          BY <5>1, <1>2, <1>5 DEF Hits
        <5>3. CASE e = d
          BY <5>1, <5>3, <2>1 DEF Orders
        <5>4. CASE e < d
          <6>1. ch[e] # Idle
            BY DEF Hits
          <6>2. ch[e] \in Lower(ch, d)
            BY <6>1, <5>4, <5>2, <2>1 DEF Lower
          <6>3. ~(ch[d] < ch[e])
            <7> SUFFICES ASSUME ch[d] < ch[e] PROVE FALSE
              OBVIOUS
            <7>1. ch[d] \in Before(ch, e)
              BY <6>1, <5>1, <5>2, <2>1, <2>3, <2>5, <3>2, <1>0
                 DEF WritesInOrder, Writes
            <7>2. ch[d] \in Before(ch, d)
              BY <7>1, <5>4, <5>2, <2>1 DEF Before, Lower
            <7>. QED  BY <7>2, <2>1, <1>0 DEF Unique
          <6>. QED  BY <6>3, <5>1, <5>2, <2>1, <3>2, <1>1, <4>2, NAssumption DEF Orders
        <5>. QED  BY <5>2, <5>3, <5>4, <2>1 DEF Channels
      <4>. QED  BY <4>1, <4>2, <3>2
    <3>. QED  BY <1>0, <1>5, <2>1, <2>2, <2>5, <3>1, <3>2 DEF ShadowNewest
  <2>. QED  BY <2>4, <2>5
<1>. QED  BY <1>4, <1>5 DEF FoldShadow

(* A register has one last writer before an instruction.                   *)
LEMMA LastWriterUnique ==
  ASSUME NEW i \in Orders, NEW j \in Orders, NEW r, NEW n \in Orders,
         IsLastWriter(i, r, n), IsLastWriter(j, r, n)
  PROVE  i = j
  BY NAssumption DEF IsLastWriter, Orders

(* Where the shadow is the newest write seen and every last writer of a    *)
(* register the checked instruction reads is retired, an assertion on a    *)
(* source port fails exactly when it should.                               *)
LEMMA PortExact ==
  ASSUME NEW ch \in Cycle, IInv, CheckCycle(ch), KEEP_CAUSALITY, KEEP_WRITE_ORDER,
         ShadowNewest', NEW rs \in Regs, NEW rdata \in WriteValues,
         rs = prog[insn_order].rs1 \/ rs = prog[insn_order].rs2
  PROVE  Mismatch(rs, rdata) <=> WriteSeen' /\ WrongRead(rs, rdata)'
<1> USE DEF IInv, TypeOK, StreamTypeOK
<1>0. /\ prog' = prog /\ UNCHANGED consts /\ verdict = "none"
      /\ ch[CHANNEL_IDX] = insn_order
      /\ seen' = seen \cup Lower(ch, CHANNEL_IDX)
      /\ Unique(ch) /\ Causal(ch) /\ WritesInOrder(ch)
      /\ register_index' = register_index /\ insn_order' = insn_order
      /\ \A k, r : Writes(k, r)' <=> Writes(k, r)
  BY DEF CheckCycle, Retire, consts, Writes
<1>1. CHANNEL_IDX \in Channels /\ CHANNEL_IDX \in 0 .. NRET /\ insn_order # Idle
  BY ChannelAssumption, NRETAssumption, NAssumption DEF Channels, Orders, Idle
<1>2. Lower(ch, CHANNEL_IDX) \subseteq Orders /\ seen' \subseteq Orders
  BY <1>0, <1>1, LowerOrders
<1>3. register_written' <=> WriteSeen'
  BY DEF ShadowNewest
<1>4. CASE ~(register_written' /\ rs = register_index)
  BY <1>0, <1>3, <1>4 DEF Mismatch, WrongRead
<1>5. CASE register_written' /\ rs = register_index /\ register_index = 0
  BY <1>0, <1>3, <1>5 DEF Mismatch, WrongRead, IsArchValue, ShadowNewest
<1>6. CASE register_written' /\ rs = register_index /\ register_index # 0
  <2>1. PICK k \in seen' :
          /\ k < insn_order /\ Writes(k, register_index)
          /\ register_shadow' = k + 1
          /\ \A j \in seen' : j < insn_order /\ Writes(j, register_index) => j <= k
    BY <1>0, <1>6 DEF ShadowNewest
  <2>2. HasWriter(register_index, insn_order) /\ Reads(insn_order, register_index)
    BY <1>2, <1>6, <2>1 DEF HasWriter, Reads
  <2>3. PICK w \in Before(ch, CHANNEL_IDX) : IsLastWriter(w, register_index, insn_order)
    BY <1>0, <1>1, <1>6, <2>2 DEF Causal
  <2>4. w \in Orders /\ w < insn_order /\ Writes(w, register_index)
    BY <2>3 DEF IsLastWriter
  <2>5. ~(w < k)
    BY <1>2, <2>1, <2>3 DEF IsLastWriter
  <2>6. ~(k < w)
    <3> SUFFICES ASSUME k < w PROVE FALSE
      OBVIOUS
    <3>1. w \notin seen'
      BY <2>1, <2>4, <1>2, NAssumption DEF Orders
    <3>2. w \in retired \ seen
      BY <3>1, <2>3, <1>0 DEF Before
    <3>3. CASE k \in seen
      BY <3>2, <3>3, <2>1, <2>4, <1>0, <1>2, <1>6, NAssumption DEF SeenLater, Orders
    <3>4. CASE k \in Lower(ch, CHANNEL_IDX)
      <4>1. PICK d \in 0 .. CHANNEL_IDX - 1 : k = ch[d] /\ ch[d] # Idle
        BY <3>4 DEF Lower
      <4>2. d \in Channels
        BY <4>1, ChannelAssumption, NRETAssumption DEF Channels
      <4>3. w < k
        BY <4>1, <4>2, <3>2, <2>1, <2>4, <1>0, <1>6, NewWriteIsNewer
      <4>. QED  BY <4>3, <2>4, <1>2, NAssumption DEF Orders
    <3>. QED  BY <3>3, <3>4, <1>0
  <2>7. w = k
    BY <2>4, <2>5, <2>6, <1>2, NAssumption DEF Orders
  <2>8. IsArchValue(rdata, register_index, insn_order) <=> rdata = k + 1
    BY <2>2, <2>3, <2>4, <2>7, <1>6, LastWriterUnique DEF IsArchValue
  <2>9. IsArchValue(rdata, register_index, insn_order)'
          <=> IsArchValue(rdata, register_index, insn_order)
    BY <1>0 DEF IsArchValue, HasWriter, IsLastWriter
  <2>. QED  BY <2>1, <2>8, <2>9, <1>0, <1>3, <1>6 DEF Mismatch, WrongRead
<1>. QED  BY <1>4, <1>5, <1>6

(* In reset the checker has seen nothing and its shadow is cleared.        *)
LEMMA ResetStep ==
  ASSUME NEW ch \in Cycle, IInv, ResetCycle(ch), KEEP_WRITE_ORDER
  PROVE  IInv'
<1>1. TypeOK'
  <2>1. StreamTypeOK'
    BY RetireType DEF IInv, TypeOK, ResetCycle
  <2>2. 0 \in WriteValues
    BY NAssumption DEF WriteValues
  <2>. QED  BY <2>1, <2>2 DEF IInv, TypeOK, ResetCycle, consts
<1>2. WritersPrefix'
  BY RetirePrefix DEF IInv, TypeOK, ResetCycle
<1>3. SeenLater' /\ ShadowNewest'
  BY DEF ResetCycle, SeenLater, ShadowNewest, WriteSeen
<1>4. VerdictExact'
  BY DEF IInv, ResetCycle, VerdictExact
<1>. QED  BY <1>1, <1>2, <1>3, <1>4 DEF IInv

(* A step that folds keeps the shadow a register value.                    *)
LEMMA FoldType ==
  ASSUME NEW ch \in Cycle, TypeOK, NEW m \in 0 .. NRET, FoldShadow(ch, m)
  PROVE  /\ register_shadow' \in WriteValues /\ register_written' \in BOOLEAN
         /\ ~register_written' => register_shadow' = 0
<1>1. \A d \in Hits(ch, m) : ch[d] \in Orders
  BY NRETAssumption DEF Hits, Cycle, Channels
<1>2. \A d \in Hits(ch, m) : rvfi_rd_wdata(ch[d]) \in WriteValues
  BY <1>1, NAssumption DEF rvfi_rd_wdata, WriteValues, Orders
<1>. QED  BY <1>2 DEF FoldShadow, TypeOK

(* Observing a cycle keeps the invariant.                                  *)
LEMMA ObserveStep ==
  ASSUME NEW ch \in Cycle, IInv, ObserveCycle(ch), KEEP_WRITE_ORDER
  PROVE  IInv'
<1>0. NRET \in 0 .. NRET
  BY NRETAssumption
<1>1. TypeOK'
  <2>1. StreamTypeOK'
    BY RetireType DEF IInv, TypeOK, ObserveCycle
  <2>2. /\ register_shadow' \in WriteValues /\ register_written' \in BOOLEAN
        /\ ~register_written' => register_shadow' = 0
    BY <1>0, FoldType DEF IInv, ObserveCycle
  <2>3. seen' \subseteq retired'
    BY LowerAll DEF IInv, TypeOK, ObserveCycle, Retire
  <2>. QED  BY <2>1, <2>2, <2>3 DEF IInv, TypeOK, ObserveCycle, consts
<1>2. WritersPrefix'
  BY RetirePrefix DEF IInv, TypeOK, ObserveCycle
<1>3. ShadowNewest'
  BY <1>0, FoldNewest DEF IInv, ObserveCycle
<1>4. SeenLater'
  <2> SUFFICES ASSUME NEW j \in retired' \ seen', NEW k \in seen', NEW r \in Regs \ {0},
                      Writes(j, r)', Writes(k, r)'
               PROVE  j < k
    BY DEF SeenLater
  <2>1. Writes(j, r) /\ Writes(k, r)
    BY DEF Writes, ObserveCycle, Retire
  <2>2. j \in retired \ seen
    BY LowerAll DEF ObserveCycle, Retire
  <2>3. CASE k \in seen
    BY <2>1, <2>2, <2>3 DEF IInv, SeenLater, ObserveCycle
  <2>4. CASE k \notin seen
    <3>1. PICK c \in Channels : k = ch[c] /\ ch[c] # Idle
      BY <2>4, LowerAll DEF ObserveCycle
    <3>. QED
      BY <2>1, <2>2, <3>1, NewWriteIsNewer DEF IInv, TypeOK, ObserveCycle, Retire
  <2>. QED  BY <2>3, <2>4
<1>5. VerdictExact'
  BY DEF IInv, ObserveCycle, VerdictExact
<1>. QED  BY <1>1, <1>2, <1>3, <1>4, <1>5 DEF IInv

(* The check cycle keeps it and gives the right verdict.                   *)
LEMMA CheckStep ==
  ASSUME NEW ch \in Cycle, IInv, CheckCycle(ch), KEEP_CAUSALITY, KEEP_WRITE_ORDER
  PROVE  IInv'
<1>0. CHANNEL_IDX \in 0 .. NRET
  BY ChannelAssumption, NRETAssumption
<1>1. TypeOK'
  <2>1. StreamTypeOK'
    BY RetireType DEF IInv, TypeOK, CheckCycle
  <2>2. /\ register_shadow' \in WriteValues /\ register_written' \in BOOLEAN
        /\ ~register_written' => register_shadow' = 0
    BY <1>0, FoldType DEF IInv, CheckCycle
  <2>3. seen' \subseteq retired'
    BY <1>0, LowerOrders DEF IInv, TypeOK, CheckCycle, Retire
  <2>. QED  BY <2>1, <2>2, <2>3 DEF IInv, TypeOK, CheckCycle, consts
<1>2. WritersPrefix'
  BY RetirePrefix DEF IInv, TypeOK, CheckCycle
<1>3. ShadowNewest'
  BY <1>0, FoldNewest DEF IInv, CheckCycle
<1>4. VerdictExact'
  <2>1. /\ prog[insn_order].rs1 \in Regs /\ prog[insn_order].rs2 \in Regs
        /\ prog' = prog /\ insn_order' = insn_order
        /\ rs1_rdata' \in WriteValues /\ rs2_rdata' \in WriteValues
    BY DEF IInv, TypeOK, StreamTypeOK, Packet, CheckCycle, Retire, consts
  <2>2. Mismatch(prog[insn_order].rs1, rs1_rdata')
          <=> WriteSeen' /\ WrongRead(prog[insn_order].rs1, rs1_rdata)'
    BY <1>3, <2>1, PortExact
  <2>3. Mismatch(prog[insn_order].rs2, rs2_rdata')
          <=> WriteSeen' /\ WrongRead(prog[insn_order].rs2, rs2_rdata)'
    BY <1>3, <2>1, PortExact
  <2>. QED  BY <2>1, <2>2, <2>3 DEF VerdictExact, CheckCycle
<1>5. verdict' # "none"
  BY DEF CheckCycle
<1>. QED  BY <1>1, <1>2, <1>4, <1>5 DEF IInv

(* So does a step that changes nothing.                                    *)
LEMMA StutterStep == IInv /\ UNCHANGED vars => IInv'
  BY DEF IInv, vars, streamVars, checkVars, TypeOK, StreamTypeOK, WritersPrefix,
         SeenLater, ShadowNewest, WriteSeen, Writes, VerdictExact, WrongRead,
         IsArchValue, HasWriter, IsLastWriter

(* Every step of a core that keeps causality and the order of writes to a  *)
(* register preserves the strengthening.                                   *)
LEMMA Step ==
  ASSUME KEEP_CAUSALITY, KEEP_WRITE_ORDER
  PROVE  IInv /\ [Next]_vars => IInv'
  BY ResetStep, ObserveStep, CheckStep, StutterStep DEF Next

(* The strengthening of VerdictExact is an inductive invariant of a core   *)
(* that keeps causality and the order of writes to a register.             *)
THEOREM Inductive ==
  ASSUME KEEP_CAUSALITY, KEEP_WRITE_ORDER
  PROVE  Spec => []IInv
  BY Step, InitInv, PTL DEF Spec

(* The types of the checker hold at all times.                             *)
THEOREM Typed ==
  ASSUME KEEP_CAUSALITY, KEEP_WRITE_ORDER
  PROVE  Spec => []TypeOK
<1>1. IInv => TypeOK
  BY DEF IInv
<1>. QED  BY <1>1, Inductive, PTL

(* The register check raises no false alarm and misses nothing it was      *)
(* shown, when writes to one register retire in program order.             *)
THEOREM Exact ==
  ASSUME KEEP_CAUSALITY, KEEP_WRITE_ORDER
  PROVE  Spec => []VerdictExact
<1>1. IInv => VerdictExact
  BY DEF IInv
<1>. QED  BY <1>1, Inductive, PTL
=============================================================================
