---------------------------- MODULE ContextStack ----------------------------
(***************************************************************************)
(* What the stacked register file of the Hippomenes core promises          *)
(* (cores/hippomenes/hippo_veryl/veryl_stacked_regfile/README.md): taking  *)
(* an interrupt saves the registers of StackMask and leaves their values   *)
(* to the handler, which may write in the same cycle; returning restores   *)
(* them, and only them.  CAPACITY contexts fit; one more pushes out the    *)
(* outermost.                                                              *)
(***************************************************************************)
EXTENDS Integers, Sequences

CONSTANTS
  Mask,      \* the registers there are
  StackMask, \* those an interrupt saves
  Data, CAPACITY

VARIABLES
  regs,     \* their values
  contexts  \* the saved ones, innermost first

vars == <<regs, contexts>>

Saved(S) == [r \in StackMask |-> S[r]]
Kept(n)  == IF n < CAPACITY THEN n ELSE CAPACITY
Held     == Len(contexts)

Init == regs = [r \in Mask |-> 0] /\ contexts = <<>>

Reset == regs' = [r \in Mask |-> 0] /\ contexts' = <<>>

Written == regs' = regs \/ \E r \in Mask, d \in Data : regs' = [regs EXCEPT ![r] = d]

Work == Written /\ UNCHANGED contexts

Enter ==
  /\ Written
  /\ contexts' = [k \in 1 .. Kept(Held + 1) |-> IF k = 1 THEN Saved(regs) ELSE contexts[k - 1]]

Restored(context) == regs' = [r \in Mask |-> IF r \in StackMask THEN context[r] ELSE regs[r]]

Return ==
  /\ Held > 0
  /\ Restored(contexts[1])
  /\ contexts' = [k \in 1 .. Held - 1 |-> contexts[k + 1]]

(* A return from a context that was pushed out restores something else.    *)
ReturnLost ==
  /\ Held = 0
  /\ \E context \in [StackMask -> Data] : Restored(context)
  /\ UNCHANGED contexts

Next == Reset \/ Work \/ Enter \/ Return \/ ReturnLost

Spec == Init /\ [][Next]_vars
=============================================================================
