--------------------------- MODULE RvfiCausalCheck --------------------------
(***************************************************************************)
(* checks/rvfi_causal_check.sv: the checker that no instruction that reads *)
(* a register retires before an earlier one that writes it.                *)
(*                                                                         *)
(* The checker remembers in found_non_causal that a packet with an order   *)
(* above insn_order read register_index; in the check cycle insn_order     *)
(* itself retires on CHANNEL_IDX and names register_index as destination.  *)
(***************************************************************************)
EXTENDS RvfiStream

VARIABLES
  reset,            \* the checker's reset input
  insn_order,       \* rand const: order of the writing instruction
  register_index,   \* rand const: register under check
  found_non_causal, \* a later reader has been seen
  verdict,          \* "none", then "pass" or "fail"
  seen              \* history: orders the checker has been shown

consts == <<insn_order, register_index>>
vars == <<streamVars, reset, consts, found_non_causal, verdict, seen>>

(* Mutant of LaterReader: only the first source register is looked at.     *)
LaterReaderRs1(ch, m) ==
  \E d \in 0 .. m - 1 :
    ch[d] # Idle /\ ch[d] > insn_order /\ prog[ch[d]].rs1 = register_index

(* Mutant of LaterReader: earlier readers count too.                       *)
AnyReader(ch, m) ==
  \E d \in 0 .. m - 1 : ch[d] # Idle /\ Reads(ch[d], register_index)

(* A channel below m carries a later instruction that reads the register.  *)
LaterReader(ch, m) ==
  \E d \in 0 .. m - 1 :
    ch[d] # Idle /\ ch[d] > insn_order /\ Reads(ch[d], register_index)

(* "For an instruction that writes no rd register, this output must always *)
(* be zero": a trapping instruction names no destination here.             *)
Init ==
  /\ StreamInit
  /\ \A n \in Orders : prog[n].trap => prog[n].rd = 0
  /\ reset = TRUE
  /\ insn_order \in Orders
  /\ register_index \in Regs \ {0}
  /\ found_non_causal = FALSE
  /\ verdict = "none"
  /\ seen = {}

ResetCycle(ch) ==
  /\ verdict = "none" /\ reset
  /\ Retire(ch)
  /\ found_non_causal' = FALSE
  /\ seen' = {}
  /\ reset' \in BOOLEAN
  /\ UNCHANGED <<consts, verdict>>

ObserveCycle(ch) ==
  /\ verdict = "none" /\ ~reset
  /\ Retire(ch)
  /\ found_non_causal' = (found_non_causal \/ LaterReader(ch, NRET))
  /\ seen' = seen \cup Lower(ch, NRET)
  /\ UNCHANGED <<consts, reset, verdict>>

CheckCycle(ch) ==
  /\ verdict = "none" /\ ~reset
  /\ Retire(ch)
  /\ ch[CHANNEL_IDX] = insn_order
  /\ prog[insn_order].rd = register_index
  /\ found_non_causal' = (found_non_causal \/ LaterReader(ch, CHANNEL_IDX))
  /\ verdict' = IF found_non_causal' THEN "fail" ELSE "pass"
  /\ seen' = seen \cup Lower(ch, CHANNEL_IDX)
  /\ UNCHANGED <<consts, reset>>

Next == \E ch \in Cycle : ResetCycle(ch) \/ ObserveCycle(ch) \/ CheckCycle(ch)

Spec == Init /\ [][Next]_vars
-----------------------------------------------------------------------------
(* Types of the checker.                                                   *)
TypeOK ==
  /\ StreamTypeOK
  /\ reset \in BOOLEAN /\ found_non_causal \in BOOLEAN
  /\ insn_order \in Orders /\ register_index \in Regs \ {0}
  /\ verdict \in {"none", "pass", "fail"}
  /\ seen \subseteq retired

(* Instruction m reads the register under check and the value it must read *)
(* is the one insn_order writes.                                           *)
DependsOnChecked(m) ==
  Reads(m, register_index) /\ IsLastWriter(insn_order, register_index, m)

(* "The causal check tests if the instruction stream is causal with        *)
(* respect to registers" (docs/source/procedure.rst:377): whatever the     *)
(* core does, a write that retires after a read that depends on it is      *)
(* caught.                                                                 *)
NothingMissed ==
  verdict = "pass" => \A m \in seen : ~DependsOnChecked(m)

(* A core that retires every write before the reads that depend on it is   *)
(* never rejected.  "The core may retire instructions out-of-order as long *)
(* as causality is preserved. (This means a write must be retired before   *)
(* the reads that depend on it.)" (docs/source/procedure.rst:373)          *)
NoFalseAlarm == verdict = "fail" => \E m \in seen : DependsOnChecked(m)
=============================================================================
