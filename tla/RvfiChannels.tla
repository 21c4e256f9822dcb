---------------------------- MODULE RvfiChannels ----------------------------
(***************************************************************************)
(* What every checker of checks/ sees of the core: in each clock cycle     *)
(* NRET channels, each idle (rvfi_valid low) or with one packet.  A packet *)
(* is its rvfi_order; the rest of it is a function of that number.  A      *)
(* cycle is a function ch from channels to orders.                         *)
(***************************************************************************)
EXTENDS RvfiParameters

Channels == 0 .. NRET - 1
Orders   == 0 .. N - 1
Idle     == -1
Cycle    == [Channels -> Orders \cup {Idle}]

(* The orders on the channels below c; the channels of one cycle retire    *)
(* from the lowest to the highest.                                         *)
Lower(ch, c) == {ch[d] : d \in 0 .. c - 1} \ {Idle}
=============================================================================
