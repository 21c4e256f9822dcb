----------------------------- MODULE MonitorRob -----------------------------
(***************************************************************************)
(* The reorder buffer of the runtime monitor (the <prefix>_rob module that *)
(* monitor/generate.py emits, option -r).  A packet with order o goes to   *)
(* slot o modulo DEPTH; every cycle up to NRET packets leave from slot     *)
(* cursor onwards as long as the slots are valid.  The pops and the        *)
(* overflow test of a cycle see the valid bits and the buffer of the       *)
(* cycle's start (nonblocking assignments), and a pop's clear of a slot    *)
(* wins over a push into it in the same cycle.                             *)
(*                                                                         *)
(* The core is any core that retires an order less than WINDOW beyond the  *)
(* oldest one not yet retired: WINDOW bounds its reordering.               *)
(***************************************************************************)
EXTENDS Integers, FiniteSets

CONSTANTS
  NRET,   \* number of RVFI channels, option -c
  N,      \* bound: number of instructions
  DEPTH,  \* option -r, a power of two
  WINDOW  \* how far ahead of the oldest missing instruction the core retires

ASSUME NRETAssumption == NRET \in Nat \ {0}
ASSUME NAssumption == N \in Nat
ASSUME DepthAssumption == DEPTH \in Nat \ {0} /\ NRET <= DEPTH
ASSUME WindowAssumption == WINDOW \in Nat \ {0}

VARIABLES
  retired,  \* orders the core has retired
  buffer,   \* the order stored in each slot
  valid,    \* the valid slots
  cursor,   \* order that leaves next
  out,      \* o<c>_valid and o<c>_order: the packets that leave, by channel
  errcode,  \* the buffer's error code of the last cycle
  reported  \* history: an error code has been raised

vars == <<retired, buffer, valid, cursor, out, errcode, reported>>

Channels == 0 .. NRET - 1
Orders   == 0 .. N - 1
Idle     == -1
Slots    == 0 .. DEPTH - 1
Cycle    == [Channels -> Orders \cup {Idle}]

Overflow == 60000
Disorder == 61000

Slot(o) == o % DEPTH

Orders_of(ch) == {ch[c] : c \in Channels} \ {Idle}

(* The orders a core with this reordering window may retire now.           *)
InWindow ==
  {o \in Orders \ retired :
     \A u \in Orders \ retired : o < u + WINDOW}

(* Mutant of Storing: channels whose valid input is low store too.         *)
StoringIdleToo(ch, s) == {c \in Channels : Slot(ch[c]) = s}

(* The channels of a cycle that store into slot s; the highest one wins.   *)
Storing(ch, s) == {c \in Channels : ch[c] # Idle /\ Slot(ch[c]) = s}

Stored(ch, s) ==
  IF Storing(ch, s) = {} THEN buffer[s]
  ELSE ch[CHOOSE c \in Storing(ch, s) : \A d \in Storing(ch, s) : d <= c]

(* Mutant of Leaving: the valid bit of a slot is not looked at first.      *)
LeavingInvalidToo(k) == k < NRET => Slot(cursor + k) \notin valid

(* Mutant of Leaving: packets leave only when every channel has one.       *)
LeavingFull(k) ==
  LET full == \A c \in Channels : Slot(cursor + c) \in valid
  IN  k = IF full THEN NRET ELSE 0

(* k packets leave: their slots are valid and either all channels are      *)
(* taken or the next slot is empty (continue_flag).                        *)
Leaving(k) ==
  /\ \A c \in 0 .. k - 1 : Slot(cursor + c) \in valid
  /\ k < NRET => Slot(cursor + k) \notin valid

Pushed(ch) == {Slot(o) : o \in Orders_of(ch)}

(* Mutant of Popped: the slot of the last packet that leaves stays valid.  *)
PoppedButLast(k) == {Slot(cursor + c) : c \in 0 .. k - 2}

Popped(k)  == {Slot(cursor + c) : c \in 0 .. k - 1}

(* Mutant of Errcode: the order of a packet that leaves is not compared.   *)
ErrcodeNoDisorder(ch, k) == IF Pushed(ch) \cap valid # {} THEN Overflow ELSE 0

(* Two nonblocking writes of errcode: the disorder one is last.            *)
Errcode(ch, k) ==
  IF \E c \in 0 .. k - 1 : buffer[Slot(cursor + c)] # cursor + c THEN Disorder
  ELSE IF Pushed(ch) \cap valid # {} THEN Overflow
  ELSE 0

Init ==
  /\ retired = {}
  /\ buffer = [s \in Slots |-> 0]
  /\ valid = {}
  /\ cursor = 0
  /\ out = [c \in Channels |-> Idle]
  /\ errcode = 0
  /\ reported = FALSE

(* One rising edge of clock: the core presents ch, k packets leave.        *)
Clock(ch, k) ==
  /\ Orders_of(ch) \subseteq InWindow
  /\ \A c, d \in Channels : ch[c] = ch[d] /\ ch[c] # Idle => c = d
  /\ Leaving(k)
  /\ retired' = retired \cup Orders_of(ch)
  /\ buffer' = [s \in Slots |-> Stored(ch, s)]
  /\ valid' = (valid \cup Pushed(ch)) \ Popped(k)
  /\ cursor' = cursor + k
  /\ out' = [c \in Channels |->
               IF c < k THEN buffer[Slot(cursor + c)] ELSE Idle]
  /\ errcode' = Errcode(ch, k)
  /\ reported' = (reported \/ errcode' # 0)

Next ==
  \E ch \in [Channels -> InWindow \cup {Idle}], k \in 0 .. NRET :
    cursor + k <= N /\ Clock(ch, k)

Spec == Init /\ [][Next]_vars /\ WF_vars(Next)
-----------------------------------------------------------------------------
(* Types of the buffer; valid is a set of slots.                           *)
TypeOK ==
  /\ retired \subseteq Orders
  /\ buffer \in [Slots -> Orders \cup {0}]
  /\ valid \subseteq Slots
  /\ cursor \in 0 .. N
  /\ out \in Cycle
  /\ errcode \in {0, Overflow, Disorder}
  /\ reported \in BOOLEAN

(* The buffer never complains about a core whose reordering fits: the pops *)
(* keep up with the pushes even though the overflow test does not see the  *)
(* pops of its own cycle.                                                  *)
NeverComplains == ~reported

(* A retired instruction that has neither left the buffer nor is stored.   *)
Lost(o) ==
  /\ o \in retired /\ cursor <= o
  /\ ~(Slot(o) \in valid /\ buffer[Slot(o)] = o)

(* The buffer implements the in-order stream the shadow state relies on.   *)
InOrder == INSTANCE InOrderStream
Reorders == InOrder!StreamSpec

(* Whatever the core's window, also one this buffer has no room for: as    *)
(* long as no error is reported, what comes out is the next orders of the  *)
(* stream, all of them retired, and an order that was lost (silently when  *)
(* two packets of one cycle go to one slot) stays lost, so that nothing    *)
(* from it on comes out any more.                                          *)
Sound == InOrder!Clock /\ \A o \in Orders : Lost(o) => Lost(o)'
SoundUntilReported == [][reported' \/ Sound]_vars

(* Every instruction comes out once it and all before it have retired.     *)
ComesOut ==
  \A o \in Orders : (0 .. o \subseteq retired) ~> (o < cursor)
=============================================================================
