--------------------------- MODULE InOrderStream ---------------------------
(***************************************************************************)
(* What the monitor's reorder buffer promises to the shadow state behind   *)
(* it (monitor/generate.py): the instructions the core retires, in any     *)
(* order, come out in program order, each one once, never before the core  *)
(* has retired it, at most NRET of them in a clock cycle and on the lowest *)
(* channels.                                                               *)
(*                                                                         *)
(* An instruction is its rvfi_order; the packet that goes with it is a     *)
(* function of that number.                                                *)
(***************************************************************************)
EXTENDS Integers

CONSTANTS
  NRET, \* number of RVFI channels
  N     \* bound: number of instructions

VARIABLES
  retired, \* orders the core has retired
  cursor,  \* the next order to come out
  out      \* the packets that come out this cycle, by channel

streamVars == <<retired, cursor, out>>

Channels == 0 .. NRET - 1
Orders   == 0 .. N - 1
Idle     == -1
Cycle    == [Channels -> Orders \cup {Idle}]

Orders_of(ch) == {ch[c] : c \in Channels} \ {Idle}

StreamInit ==
  /\ retired = {}
  /\ cursor = 0
  /\ out = [c \in Channels |-> Idle]

(* A cycle of the core with the orders new, all of them fresh.             *)
RetireSet(new) ==
  /\ new \subseteq Orders \ retired
  /\ retired' = retired \cup new

(* The next k orders come out.                                             *)
Deliver(k) ==
  /\ cursor .. cursor + k - 1 \subseteq retired
  /\ cursor' = cursor + k
  /\ out' = [c \in Channels |-> IF c < k THEN cursor + c ELSE Idle]

Clock ==
  \E new \in SUBSET Orders, k \in 0 .. NRET : RetireSet(new) /\ Deliver(k)

StreamSpec == StreamInit /\ [][Clock]_streamVars
=============================================================================
