------------------------- MODULE RegFileParameters -------------------------
(***************************************************************************)
(* The parameters of the stacked register file of the Hippomenes core.     *)
(***************************************************************************)
EXTENDS Integers

CONSTANTS
  Depth,      \* one more than the number of contexts that fit
  Registers,  \* the addresses of the registers
  mask,       \* those with backing store
  stack_mask, \* those that a push saves
  RegData     \* the values of a register

ASSUME DepthAssumption == Depth \in Nat \ {0}
ASSUME MaskAssumption ==
  Registers \subseteq Nat /\ mask \subseteq Registers /\ stack_mask \subseteq mask
ASSUME DataAssumption == 0 \in RegData
=============================================================================
