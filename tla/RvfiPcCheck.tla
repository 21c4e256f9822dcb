----------------------------- MODULE RvfiPcCheck ----------------------------
(***************************************************************************)
(* checks/rvfi_pc_fwd_check.sv and checks/rvfi_pc_bwd_check.sv: the two    *)
(* checkers that consecutive instructions agree on the program counter.    *)
(* pc_fwd catches the later instruction of a pair when it retires second,  *)
(* pc_bwd the earlier one when the pair retires in the other order.        *)
(*                                                                         *)
(* Both observe one core.  The core retires the orders 0 .. N-1, each      *)
(* once, in any order: for the program counter the interface puts no       *)
(* causality on retirement.  Its program counters are arbitrary, right or  *)
(* wrong.  As in RvfiRegCheck, a checker leaves reset at some cycle, its   *)
(* check comes in some later cycle, and its trace ends there; the bounds   *)
(* insn_order - 1 and insn_order + 1 do not wrap, since no packet carries  *)
(* the order 2^64 - 1.                                                     *)
(***************************************************************************)
EXTENDS RvfiChannels

CONSTANT PCs  \* program counter values, 0 among them

VARIABLES
  prog,    \* packets by rvfi_order
  retired, \* orders retired so far
  reset,   \* reset input of both checkers
  fwd,     \* state of pc_fwd
  bwd,     \* state of pc_bwd
  seen     \* history: orders shown since reset, but for the ones on
           \* channels from CHANNEL_IDX up in a check cycle

vars == <<prog, retired, reset, fwd, bwd, seen>>

Packet == [pc_rdata: PCs, pc_wdata: PCs, intr: BOOLEAN]

(* One checker: its rand const, its two registers and how its trace ended. *)
Checker == [insn_order: Orders, expect_pc: PCs, expect_pc_valid: BOOLEAN,
            verdict: {"none", "pass", "fail"}]

Before(ch, c) == retired \cup Lower(ch, c)

Retire(ch) ==
  /\ \A c \in Channels : ch[c] # Idle => ch[c] \notin Before(ch, c)
  /\ retired' = retired \cup Lower(ch, NRET)
  /\ UNCHANGED prog

(* The channel below m that carries order n.                               *)
CarriedBy(ch, m, n) == {d \in 0 .. m - 1 : ch[d] # Idle /\ ch[d] = n}

(* Mutant of FwdFold: the wrong slice of the packet, rvfi_order.           *)
FwdFoldOrder(ch, m) ==
  IF CarriedBy(ch, m, fwd.insn_order - 1) # {}
    THEN [fwd EXCEPT !.expect_pc = fwd.insn_order - 1,
                     !.expect_pc_valid = TRUE]
    ELSE fwd

(* pc_fwd, the loop over the channels below m: remember where the          *)
(* predecessor says execution continues.                                   *)
FwdFold(ch, m) ==
  IF CarriedBy(ch, m, fwd.insn_order - 1) # {}
    THEN [fwd EXCEPT !.expect_pc = prog[fwd.insn_order - 1].pc_wdata,
                     !.expect_pc_valid = TRUE]
    ELSE fwd

(* Mutant of FwdAsserts: the first instruction of a handler is not exempt. *)
FwdAssertsIntrToo(f) ==
  f.expect_pc_valid => f.expect_pc = prog[f.insn_order].pc_rdata

FwdAsserts(f) ==
  f.expect_pc_valid /\ ~prog[f.insn_order].intr
    => f.expect_pc = prog[f.insn_order].pc_rdata

(* pc_bwd, the loop: remember where the successor says it was fetched.     *)
(* The interrupt flag is read from channel CHANNEL_IDX, whatever channel   *)
(* the successor is on; there it is the flag of the packet that happens to *)
(* be on that channel, or any value when the channel is not valid.         *)
IntrOnChannelIdx(ch) ==
  IF ch[CHANNEL_IDX] = Idle THEN BOOLEAN ELSE {prog[ch[CHANNEL_IDX]].intr}

(* Mutant of BwdFold: the interrupt flag of the successor is ignored.      *)
BwdFoldIntrToo(ch, m, intr) ==
  IF CarriedBy(ch, m, bwd.insn_order + 1) # {}
    THEN [bwd EXCEPT !.expect_pc = prog[bwd.insn_order + 1].pc_rdata,
                     !.expect_pc_valid = TRUE]
    ELSE bwd

BwdFold(ch, m, intr) ==
  IF CarriedBy(ch, m, bwd.insn_order + 1) # {}
    THEN [bwd EXCEPT !.expect_pc = prog[bwd.insn_order + 1].pc_rdata,
                     !.expect_pc_valid = ~intr]
    ELSE bwd

BwdAsserts(b) ==
  b.expect_pc_valid => b.expect_pc = prog[b.insn_order].pc_wdata

Init ==
  /\ prog \in [Orders -> Packet]
  /\ retired = {}
  /\ reset = TRUE
  /\ fwd \in {c \in Checker : c.expect_pc = 0 /\ ~c.expect_pc_valid /\ c.verdict = "none"}
  /\ bwd \in {c \in Checker : c.expect_pc = 0 /\ ~c.expect_pc_valid /\ c.verdict = "none"}
  /\ seen = {}

Running == fwd.verdict = "none" /\ bwd.verdict = "none"

(* A cycle in reset; only expect_pc_valid has a reset value.               *)
ResetCycle(ch) ==
  /\ Running /\ reset
  /\ Retire(ch)
  /\ fwd' = [fwd EXCEPT !.expect_pc_valid = FALSE]
  /\ bwd' = [bwd EXCEPT !.expect_pc_valid = FALSE]
  /\ reset' \in BOOLEAN
  /\ seen' = {}

ObserveCycle(ch) ==
  /\ Running /\ ~reset
  /\ Retire(ch)
  /\ fwd' = FwdFold(ch, NRET)
  /\ \E intr \in IntrOnChannelIdx(ch) : bwd' = BwdFold(ch, NRET, intr)
  /\ seen' = seen \cup Lower(ch, NRET)
  /\ UNCHANGED reset

(* The check cycle of pc_fwd.                                              *)
FwdCheckCycle(ch) ==
  /\ Running /\ ~reset
  /\ Retire(ch)
  /\ ch[CHANNEL_IDX] = fwd.insn_order
  /\ LET f == FwdFold(ch, CHANNEL_IDX)
     IN  fwd' = [f EXCEPT !.verdict = IF FwdAsserts(f) THEN "pass" ELSE "fail"]
  /\ seen' = seen \cup Lower(ch, CHANNEL_IDX)
  /\ UNCHANGED <<reset, bwd>>

(* The check cycle of pc_bwd.                                              *)
BwdCheckCycle(ch) ==
  /\ Running /\ ~reset
  /\ Retire(ch)
  /\ ch[CHANNEL_IDX] = bwd.insn_order
  /\ \E intr \in IntrOnChannelIdx(ch) :
       LET b == BwdFold(ch, CHANNEL_IDX, intr)
       IN  bwd' = [b EXCEPT !.verdict = IF BwdAsserts(b) THEN "pass" ELSE "fail"]
  /\ seen' = seen \cup Lower(ch, CHANNEL_IDX)
  /\ UNCHANGED <<reset, fwd>>

Next == \E ch \in Cycle :
  \/ ResetCycle(ch) \/ ObserveCycle(ch)
  \/ FwdCheckCycle(ch) \/ BwdCheckCycle(ch)

Spec == Init /\ [][Next]_vars
-----------------------------------------------------------------------------
(* Types of the two checkers and of the stream.                            *)
TypeOK ==
  /\ prog \in [Orders -> Packet]
  /\ retired \subseteq Orders /\ seen \subseteq retired
  /\ reset \in BOOLEAN
  /\ fwd \in Checker /\ bwd \in Checker

(* Instructions n and n + 1 disagree on the program counter: the second is *)
(* not the first instruction of a trap handler and yet does not start      *)
(* where the first one said.                                               *)
Discontinuity(n) ==
  ~prog[n + 1].intr /\ prog[n].pc_wdata # prog[n + 1].pc_rdata

(* pc_fwd fails exactly when the predecessor was retired before the        *)
(* checked instruction and the two disagree.                               *)
FwdExact ==
  fwd.verdict # "none" =>
    (fwd.verdict = "fail" <=>
       fwd.insn_order - 1 \in seen /\ Discontinuity(fwd.insn_order - 1))

(* pc_bwd fails exactly when the successor was retired before the checked  *)
(* instruction and the two disagree.  "pc_bwd is like pc_fwd but for pairs *)
(* of instructions that have been executed out of order"                   *)
(* (docs/source/procedure.rst:334).                                        *)
BwdExact ==
  bwd.verdict # "none" =>
    (bwd.verdict = "fail" <=>
       bwd.insn_order + 1 \in seen /\ Discontinuity(bwd.insn_order))
=============================================================================
