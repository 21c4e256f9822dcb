---------------------------- MODULE RvfiRegCheck ----------------------------
(***************************************************************************)
(* checks/rvfi_reg_check.sv: the checker that a value read from a register *)
(* is the value an earlier instruction wrote to it.                        *)
(*                                                                         *)
(* insn_order and register_index are the checker's rand-const registers.   *)
(* Every clock cycle the core drives a cycle of packets and the checker    *)
(* folds it into register_shadow with blocking assignments in channel      *)
(* order, so that the highest hit channel wins.  In the check cycle it     *)
(* folds only the channels below CHANNEL_IDX and then compares the         *)
(* packet on CHANNEL_IDX.  The checker is held in reset for a while        *)
(* (RISCV_FORMAL_RESET_CYCLES, any number of cycles here) during which the *)
(* core already runs, and check comes in any later cycle                   *)
(* (RISCV_FORMAL_CHECK_CYCLE, or the free check input of an unbounded      *)
(* proof).  The solver's trace ends with the check cycle.                  *)
(***************************************************************************)
EXTENDS RvfiStream

VARIABLES
  reset,            \* the checker's reset input
  insn_order,       \* rand const: order of the reading instruction
  register_index,   \* rand const: register under check
  register_shadow,  \* last value seen written
  register_written, \* a write has been seen
  verdict,          \* "none" before the check cycle, then "pass" or "fail"
  rs1_rdata,        \* rvfi_rs1_rdata of the checked packet
  rs2_rdata,        \* rvfi_rs2_rdata of the checked packet
  seen              \* history: orders the checker has been shown

checkVars == <<reset, insn_order, register_index, register_shadow,
               register_written, verdict, rs1_rdata, rs2_rdata, seen>>
vars == <<streamVars, checkVars>>

WriteValues == 0 .. N

(* Mutant of Hits: the order of the write is not looked at.                *)
HitsAnyOrder(ch, m) ==
  {d \in 0 .. m - 1 : ch[d] # Idle /\ Writes(ch[d], register_index)}

(* The channels below m whose packet writes register_index before          *)
(* insn_order.                                                             *)
Hits(ch, m) ==
  {d \in 0 .. m - 1 : /\ ch[d] # Idle
                      /\ ch[d] < insn_order
                      /\ Writes(ch[d], register_index)}

(* Mutant of FoldShadow: the write is kept but not noted.                  *)
FoldShadowUnnoted(ch, m) ==
  \/ /\ Hits(ch, m) = {}
     /\ UNCHANGED <<register_shadow, register_written>>
  \/ \E d \in Hits(ch, m) :
       /\ \A e \in Hits(ch, m) : e <= d
       /\ register_shadow' = rvfi_rd_wdata(ch[d])
       /\ UNCHANGED register_written

(* The for loop over channels: the last hit leaves its value behind.       *)
FoldShadow(ch, m) ==
  \/ /\ Hits(ch, m) = {}
     /\ UNCHANGED <<register_shadow, register_written>>
  \/ \E d \in Hits(ch, m) :
       /\ \A e \in Hits(ch, m) : e <= d
       /\ register_shadow' = rvfi_rd_wdata(ch[d])
       /\ register_written' = TRUE

(* A read through port rs disagrees with the shadow.                       *)
Mismatch(rs, rdata) ==
  register_written' /\ rs = register_index /\ register_shadow' # rdata

Init ==
  /\ StreamInit
  /\ reset = TRUE
  /\ insn_order \in Orders
  /\ register_index \in Regs
  /\ register_shadow = 0 /\ register_written = FALSE
  /\ verdict = "none"
  /\ rs1_rdata = 0 /\ rs2_rdata = 0
  /\ seen = {}

consts == <<insn_order, register_index>>

(* A cycle with the checker in reset; reset may be released after it.      *)
ResetCycle(ch) ==
  /\ verdict = "none" /\ reset
  /\ Retire(ch)
  /\ register_shadow' = 0 /\ register_written' = FALSE
  /\ seen' = {}
  /\ reset' \in BOOLEAN
  /\ UNCHANGED <<consts, verdict, rs1_rdata, rs2_rdata>>

(* A cycle with check low.                                                 *)
ObserveCycle(ch) ==
  /\ verdict = "none" /\ ~reset
  /\ Retire(ch)
  /\ FoldShadow(ch, NRET)
  /\ seen' = seen \cup Lower(ch, NRET)
  /\ UNCHANGED <<consts, reset, verdict, rs1_rdata, rs2_rdata>>

(* The check cycle: the assumptions select the packet on CHANNEL_IDX, the  *)
(* core reports some value for each source register, right or wrong.       *)
CheckCycle(ch) ==
  /\ verdict = "none" /\ ~reset
  /\ Retire(ch)
  /\ FoldShadow(ch, CHANNEL_IDX)
  /\ ch[CHANNEL_IDX] = insn_order
  /\ rs1_rdata' \in WriteValues /\ rs2_rdata' \in WriteValues
  /\ verdict' = IF \/ Mismatch(prog[insn_order].rs1, rs1_rdata')
                   \/ Mismatch(prog[insn_order].rs2, rs2_rdata')
                THEN "fail" ELSE "pass"
  /\ seen' = seen \cup Lower(ch, CHANNEL_IDX)
  /\ UNCHANGED <<consts, reset>>

Next == \E ch \in Cycle : ResetCycle(ch) \/ ObserveCycle(ch) \/ CheckCycle(ch)

Spec == Init /\ [][Next]_vars
-----------------------------------------------------------------------------
(* Types of the checker's registers and of the history; the shadow keeps   *)
(* its reset value until a write is seen.                                  *)
TypeOK ==
  /\ StreamTypeOK
  /\ reset \in BOOLEAN
  /\ insn_order \in Orders
  /\ register_index \in Regs
  /\ register_shadow \in WriteValues
  /\ register_written \in BOOLEAN
  /\ ~register_written => register_shadow = 0
  /\ verdict \in {"none", "pass", "fail"}
  /\ rs1_rdata \in WriteValues /\ rs2_rdata \in WriteValues
  /\ seen \subseteq retired

(* The checker was shown a write of the register under check.              *)
WriteSeen ==
  \E k \in seen : k < insn_order /\ Writes(k, register_index)

(* The value read through port rs is not the architectural one.            *)
WrongRead(rs, rdata) ==
  rs = register_index /\ ~IsArchValue(rdata, register_index, insn_order)

(* The assertion of rvfi_reg_check fails exactly when it should: the       *)
(* checked instruction reads the register under check, the checker has     *)
(* been shown a write of it, and the core reports another value than the   *)
(* one the program left there.  No false alarm, no miss.                   *)
VerdictExact ==
  verdict # "none" =>
    (verdict = "fail" <=>
       /\ WriteSeen
       /\ \/ WrongRead(prog[insn_order].rs1, rs1_rdata)
          \/ WrongRead(prog[insn_order].rs2, rs2_rdata))

(* "Instructions may be retired in a reordered fashion, as long as         *)
(* causality is preserved" (docs/source/rvfi.rst:42): a core that keeps    *)
(* causality and reports the architectural value for every source register *)
(* is never rejected.                                                      *)
NoFalseAlarm ==
  verdict = "fail" =>
    \/ WrongRead(prog[insn_order].rs1, rs1_rdata)
    \/ WrongRead(prog[insn_order].rs2, rs2_rdata)
=============================================================================
