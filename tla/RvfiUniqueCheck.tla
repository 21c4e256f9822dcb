--------------------------- MODULE RvfiUniqueCheck --------------------------
(***************************************************************************)
(* checks/rvfi_unique_check.sv: the checker that no rvfi_order is used     *)
(* twice.  The core is any core: in every cycle it may put any order on    *)
(* any channel, also one it has used before.  (A core that rolls back      *)
(* reuses orders legally; the checker does not look at the rollback        *)
(* signals of docs/source/rvfi.rst and takes the reuse for a duplicate.)   *)
(***************************************************************************)
EXTENDS RvfiChannels

VARIABLES
  reset,            \* the checker's reset input
  triggered,        \* the trigger cycle has passed
  insn_order,       \* rand const
  found_other_insn, \* insn_order seen on a packet other than the trigger
  verdict,          \* "none" before the check cycle, then "pass" or "fail"
  uses              \* history: packets shown per order, counted to 2

vars == <<reset, triggered, insn_order, found_other_insn, verdict, uses>>

Carriers(ch, n) == {c \in Channels : ch[c] = n}

(* History: an order on two channels of a cycle counts twice.              *)
CountUses(ch) ==
  uses' = [n \in Orders |->
             IF Carriers(ch, n) = {} THEN uses[n]
             ELSE IF uses[n] = 0 /\ \E c \in Channels : Carriers(ch, n) = {c} THEN 1
             ELSE 2]

(* Mutant of OtherInsn: CHANNEL_IDX is left out in every cycle.            *)
OtherInsnElsewhere(ch, trig) ==
  \E c \in Channels : ch[c] = insn_order /\ c # CHANNEL_IDX

(* The loop over all channels; in the trigger cycle CHANNEL_IDX is the     *)
(* instruction under check itself.                                         *)
OtherInsn(ch, trig) ==
  \E c \in Channels : ch[c] = insn_order /\ (~trig \/ c # CHANNEL_IDX)

Init ==
  /\ reset = TRUE
  /\ triggered = FALSE
  /\ insn_order \in Orders
  /\ found_other_insn = FALSE
  /\ verdict = "none"
  /\ uses = [n \in Orders |-> 0]

ResetCycle(ch) ==
  /\ verdict = "none" /\ reset
  /\ found_other_insn' = FALSE
  /\ reset' \in BOOLEAN
  /\ UNCHANGED <<triggered, insn_order, verdict, uses>>

(* A cycle out of reset, with the trigger input and the check input.  The  *)
(* trigger comes once, before the check or with it.                        *)
ObserveCycle(ch, trig, check) ==
  /\ verdict = "none" /\ ~reset
  /\ trig => ~triggered /\ ch[CHANNEL_IDX] = insn_order
  /\ check => triggered \/ trig
  /\ triggered' = (triggered \/ trig)
  /\ found_other_insn' = (found_other_insn \/ OtherInsn(ch, trig))
  /\ verdict' = IF ~check THEN "none" ELSE IF found_other_insn' THEN "fail" ELSE "pass"
  /\ CountUses(ch)
  /\ UNCHANGED <<reset, insn_order>>

Next ==
  \E ch \in Cycle :
    \/ ResetCycle(ch)
    \/ \E trig, check \in BOOLEAN : ObserveCycle(ch, trig, check)

Spec == Init /\ [][Next]_vars
-----------------------------------------------------------------------------
(* Types of the checker and of the history.                                *)
TypeOK ==
  /\ reset \in BOOLEAN /\ triggered \in BOOLEAN /\ found_other_insn \in BOOLEAN
  /\ insn_order \in Orders
  /\ verdict \in {"none", "pass", "fail"}
  /\ uses \in [Orders -> 0 .. 2]

(* The uniqueness check fails exactly when the order of the triggering     *)
(* instruction was used by a second packet, before it, after it or next to *)
(* it in the same cycle.                                                   *)
UniqueExact == verdict # "none" => (verdict = "fail" <=> uses[insn_order] = 2)
=============================================================================
