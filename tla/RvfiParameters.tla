--------------------------- MODULE RvfiParameters ---------------------------
(***************************************************************************)
(* The parameters of the RVFI port that every checker of checks/ shares.   *)
(***************************************************************************)
EXTENDS Integers

CONSTANTS
  NRET,        \* number of RVFI channels, RISCV_FORMAL_NRET
  CHANNEL_IDX, \* the channel under check, RISCV_FORMAL_CHANNEL_IDX
  N            \* bound: number of instructions

ASSUME NRETAssumption == NRET \in Nat \ {0}
ASSUME ChannelAssumption == CHANNEL_IDX \in 0 .. NRET - 1
ASSUME NAssumption == N \in Nat
=============================================================================
