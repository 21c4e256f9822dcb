-------------------------- MODULE MonitorRobProofs --------------------------
(***************************************************************************)
(* The reorder buffer of the monitor, for every number of channels, depth, *)
(* window and instructions.  As long as it reports no error it is sound:   *)
(* it shows the in-order stream and nothing beyond an order that it lost;  *)
(* for that a valid slot needs to hold a retired order of that slot only   *)
(* (Holds).  And a buffer at least twice as deep as the core's reordering  *)
(* window never reports an error and implements the in-order stream.       *)
(*                                                                         *)
(* The argument for the second counts: at most WINDOW packets wait in the  *)
(* buffer (FewWait).  Either all NRET channels are popped, and no more     *)
(* than NRET packets arrive, or the buffer stops at an instruction the     *)
(* core has not retired, and everything that waits lies within the window  *)
(* beyond it.  So nothing that waits or arrives is 2 * WINDOW or more      *)
(* beyond cursor, and no two of these orders share a slot.                 *)
(***************************************************************************)
EXTENDS MonitorRob, FiniteSetTheorems, WellFoundedInduction, TLAPS

(* A valid slot holds a retired order that goes there.                     *)
Holds == \A s \in valid : buffer[s] \in retired /\ Slot(buffer[s]) = s

(* The retired orders that have not left the buffer.                       *)
Waiting == {o \in retired : cursor <= o}

(* Everything before cursor has been retired.                              *)
PrefixRetired == 0 .. cursor - 1 \subseteq retired

(* The valid slots hold the waiting orders, each in its own.               *)
SlotsHold ==
  /\ valid = {Slot(o) : o \in Waiting}
  /\ \A o \in Waiting : buffer[Slot(o)] = o

(* The core has kept to its window.                                        *)
KeptWindow == \A o \in retired, u \in Orders \ retired : o < u + WINDOW

FewWait == IsFiniteSet(Waiting) /\ Cardinality(Waiting) <= WINDOW

IInv ==
  /\ TypeOK
  /\ Holds
  /\ PrefixRetired
  /\ SlotsHold
  /\ KeptWindow
  /\ FewWait
  /\ NeverComplains
-----------------------------------------------------------------------------
(* A number is its quotient and its remainder.                             *)
LEMMA DivMod ==
  \A a \in Nat : /\ a = DEPTH * (a \div DEPTH) + (a % DEPTH)
                 /\ a \div DEPTH \in Nat
                 /\ a % DEPTH \in Slots
  BY DepthAssumption, SMTT(30) DEF Slots

(* Two orders less than DEPTH apart do not share a slot.                   *)
LEMMA SlotInjective ==
  ASSUME NEW a \in Nat, NEW b \in Nat,
         a < b + DEPTH, b < a + DEPTH, Slot(a) = Slot(b)
  PROVE  a = b
<1> DEFINE x == a \div DEPTH
           y == b \div DEPTH
<1>1. /\ x \in Nat /\ y \in Nat
      /\ a = DEPTH * x + (a % DEPTH) /\ b = DEPTH * y + (b % DEPTH)
      /\ a % DEPTH \in Nat /\ a % DEPTH = b % DEPTH
  BY DivMod DEF Slot, Slots
<1> HIDE DEF x, y
<1>2. DEPTH * (y - x) = b - a
  BY <1>1, DepthAssumption
<1>3. ~(y - x >= 1)
  <2> SUFFICES ASSUME y - x >= 1 PROVE FALSE
    OBVIOUS
  <2>1. DEPTH * (y - x) >= DEPTH
    BY <1>1, DepthAssumption
  <2> QED BY <1>2, <2>1, DepthAssumption
<1>4. ~(y - x <= -1)
  <2> SUFFICES ASSUME y - x <= -1 PROVE FALSE
    OBVIOUS
  <2>1. DEPTH * (y - x) <= -DEPTH
    BY <1>1, DepthAssumption
  <2> QED BY <1>2, <2>1, DepthAssumption
<1>5. y = x
  BY <1>1, <1>3, <1>4
<1> QED BY <1>1, <1>5, DepthAssumption

(* The orders of a cycle are at most as many as the channels.              *)
LEMMA FewOrders ==
  ASSUME NEW ch \in Cycle
  PROVE  /\ Orders_of(ch) \subseteq Orders
         /\ IsFiniteSet(Orders_of(ch))
         /\ Cardinality(Orders_of(ch)) <= NRET
<1> DEFINE C == {c \in Channels : ch[c] # Idle}
           f == [c \in C |-> ch[c]]
<1>1. /\ IsFiniteSet(Channels) /\ Cardinality(Channels) = NRET
  <2>1. IsFiniteSet(Channels) /\ Cardinality(Channels) =
          IF 0 > NRET - 1 THEN 0 ELSE NRET - 1 - 0 + 1
    BY NRETAssumption, FS_Interval DEF Channels
  <2> QED BY <2>1, NRETAssumption
<1>2. IsFiniteSet(C) /\ Cardinality(C) <= Cardinality(Channels)
  BY <1>1, FS_Subset
<1>3. f \in Surjection(C, Orders_of(ch))
  BY DEF Surjection, Orders_of
<1>4. /\ IsFiniteSet(Orders_of(ch))
      /\ Cardinality(Orders_of(ch)) <= Cardinality(C)
  BY <1>2, <1>3, FS_Surjection
<1>5. Cardinality(C) \in Nat /\ Cardinality(Orders_of(ch)) \in Nat
  BY <1>2, <1>4, FS_CardinalityType
<1>6. Orders_of(ch) \subseteq Orders
  BY DEF Orders_of, Cycle, Idle
<1> QED BY <1>1, <1>2, <1>4, <1>5, <1>6, NRETAssumption

(* Of some channels one is the highest.                                    *)
LEMMA Highest ==
  ASSUME NEW S \in SUBSET Channels, S # {}
  PROVE  \E c \in S : \A d \in S : d <= c
<1> DEFINE T == {NRET - 1 - c : c \in S}
<1>1. T # {} /\ T \subseteq Nat
  <2>1. \A c \in S : c \in Int /\ NRET - 1 - c \in Nat
    BY NRETAssumption DEF Channels
  <2> QED BY <2>1
<1>2. PICK m \in T : \A k \in T : ~(<<k, m>> \in OpToRel(<, Nat))
  BY <1>1, NatLessThanWellFounded, WFMin
<1>3. PICK c \in S : m = NRET - 1 - c
  OBVIOUS
<1>4. ASSUME NEW d \in S PROVE d <= c
  <2>1. NRET - 1 - d \in T /\ NRET - 1 - d \in Nat /\ m \in Nat
    BY <1>1
  <2>2. ~(NRET - 1 - d < m)
    BY <1>2, <2>1 DEF OpToRel
  <2> QED BY <1>3, <2>2, NRETAssumption DEF Channels
<1> QED BY <1>4

(* A slot that a cycle stores into takes an order of that cycle.           *)
LEMMA StoredOrder ==
  ASSUME NEW ch \in Cycle, NEW s \in Slots, Storing(ch, s) # {}
  PROVE  Stored(ch, s) \in Orders_of(ch) /\ Slot(Stored(ch, s)) = s
<1>1. Storing(ch, s) \in SUBSET Channels
  BY DEF Storing
<1>2. \E c \in Storing(ch, s) : \A d \in Storing(ch, s) : d <= c
  BY <1>1, Highest
<1>3. (CHOOSE c \in Storing(ch, s) : \A d \in Storing(ch, s) : d <= c) \in Storing(ch, s)
  BY <1>2
<1> QED BY <1>3 DEF Stored, Storing, Orders_of

(* A valid slot that a cycle does not store into was valid and holds what  *)
(* it held.                                                                *)
LEMMA KeptSlot ==
  ASSUME NEW ch \in Cycle, NEW k \in 0 .. NRET, Clock(ch, k), TypeOK,
         NEW s \in valid', s \in Slots, Storing(ch, s) = {}
  PROVE  s \in valid /\ buffer'[s] = buffer[s]
<1>1. s \notin Pushed(ch)
  BY DEF Pushed, Orders_of, Storing
<1> QED BY <1>1 DEF Clock, Stored

(* The types and Holds are inductive, whatever the depth and the window.   *)
LEMMA TypeInit == Init => TypeOK /\ Holds
<1> SUFFICES ASSUME Init PROVE TypeOK /\ Holds
  OBVIOUS
<1>1. 0 \in 0 .. N
  BY NAssumption
<1>2. buffer \in [Slots -> Orders \cup {0}] /\ out \in Cycle
  BY DEF Init, Cycle
<1>3. reported \in BOOLEAN
  BY Zenon DEF Init
<1> QED BY <1>1, <1>2, <1>3 DEF Init, TypeOK, Holds

LEMMA TypeStep ==
  ASSUME TypeOK, Holds, NEW ch \in Cycle, NEW k \in 0 .. NRET,
         cursor + k <= N, Clock(ch, k)
  PROVE  TypeOK' /\ Holds'
<1>1. cursor \in Nat /\ k \in Nat /\ N \in Nat
  BY NRETAssumption, NAssumption DEF TypeOK
<1>2. retired' \subseteq Orders
  BY FewOrders DEF Clock, TypeOK
<1>3. buffer' \in [Slots -> Orders \cup {0}]
  <2>1. ASSUME NEW s \in Slots PROVE Stored(ch, s) \in Orders \cup {0}
    <3>1. CASE Storing(ch, s) = {}
      BY <3>1 DEF Stored, TypeOK
    <3>2. CASE Storing(ch, s) # {}
      BY <3>2, StoredOrder, FewOrders
    <3> QED BY <3>1, <3>2
  <2> QED BY <2>1 DEF Clock
<1>4. valid' \subseteq Slots
  <2>1. Pushed(ch) \subseteq Slots
    BY FewOrders, DivMod DEF Pushed, Slot, Orders
  <2> QED BY <2>1 DEF Clock, TypeOK
<1>5. cursor' \in 0 .. N
  BY <1>1 DEF Clock
<1>6. out' \in Cycle
  <2>1. ASSUME NEW c \in Channels, c < k PROVE buffer[Slot(cursor + c)] \in Orders
    <3>1. c \in 0 .. k - 1
      BY <2>1, <1>1, NRETAssumption DEF Channels
    <3> QED BY <3>1 DEF Clock, Leaving, Holds, TypeOK
  <2> QED BY <2>1 DEF Clock, Cycle
<1>7. errcode' \in {0, Overflow, Disorder}
  BY DEF Clock, Errcode
<1>8. reported' \in BOOLEAN
  <2>1. reported' = (reported \/ errcode' # 0)
    BY DEF Clock
  <2> QED BY <2>1, Zenon
<1>9. ASSUME NEW s \in valid' PROVE buffer'[s] \in retired' /\ Slot(buffer'[s]) = s
  <2>1. s \in Slots
    BY <1>4
  <2>2. CASE Storing(ch, s) = {}
    BY <2>1, <2>2, KeptSlot DEF Holds, Clock
  <2>3. CASE Storing(ch, s) # {}
    <3>1. buffer'[s] = Stored(ch, s)
      BY <2>1 DEF Clock
    <3> QED BY <2>1, <2>3, <3>1, StoredOrder DEF Clock
  <2> QED BY <2>2, <2>3
<1>10. Holds'
  BY <1>9 DEF Holds
<1>11. TypeOK'
  BY <1>2, <1>3, <1>4, <1>5, <1>6, <1>7, <1>8 DEF TypeOK
<1> QED BY <1>10, <1>11

(* A cycle that raises no error shows the stream, and what has been lost   *)
(* stays lost.                                                             *)
LEMMA SoundStep ==
  ASSUME TypeOK, Holds, NEW ch \in Cycle, NEW k \in 0 .. NRET, Clock(ch, k),
         errcode' = 0
  PROVE  Sound
<1>1. cursor \in Nat /\ k \in Nat
  BY NRETAssumption DEF TypeOK
<1>2. \A c \in 0 .. k - 1 : buffer[Slot(cursor + c)] = cursor + c
  BY DEF Clock, Errcode, Disorder
<1>3. ASSUME NEW g \in cursor .. cursor + k - 1
      PROVE  g \in retired /\ Slot(g) \in valid /\ buffer[Slot(g)] = g
  <2>1. g - cursor \in 0 .. k - 1 /\ cursor + (g - cursor) = g
    BY <1>1
  <2> QED BY <1>2, <2>1 DEF Clock, Leaving, Holds
<1>4. InOrder!Clock
  <2>1. Orders_of(ch) \in SUBSET InOrder!Orders
    BY FewOrders DEF InOrder!Orders, Orders
  <2>2. InOrder!RetireSet(Orders_of(ch))
    BY <2>1 DEF Clock, InWindow, InOrder!RetireSet, InOrder!Orders, Orders
  <2>3. out' = [c \in Channels |-> IF c < k THEN cursor + c ELSE Idle]
    <3>1. ASSUME NEW c \in Channels, c < k PROVE buffer[Slot(cursor + c)] = cursor + c
      <4>1. c \in 0 .. k - 1
        BY <3>1, <1>1, NRETAssumption DEF Channels
      <4> QED BY <1>2, <4>1
    <3> QED BY <3>1 DEF Clock
  <2>4. InOrder!Deliver(k)
    BY <1>3, <2>3 DEF Clock, InOrder!Deliver, InOrder!Channels, InOrder!Idle, Channels, Idle
  <2> QED BY <2>1, <2>2, <2>4 DEF InOrder!Clock
<1>5. ASSUME NEW o \in Orders, Lost(o) PROVE Lost(o)'
  <2>1. o \in retired /\ o \in retired' /\ o \in Nat
    BY <1>5, NAssumption DEF Lost, Clock, Orders
  <2>2. cursor' <= o
    BY <1>1, <1>3, <1>5, <2>1 DEF Lost, Clock
  <2>3. ASSUME Slot(o) \in valid', buffer'[Slot(o)] = o PROVE FALSE
    <3>1. Slot(o) \in Slots
      BY <2>1, DivMod DEF Slot
    <3>2. CASE Storing(ch, Slot(o)) = {}
      BY <1>5, <2>3, <3>1, <3>2, KeptSlot DEF Lost
    <3>3. CASE Storing(ch, Slot(o)) # {}
      <4>1. buffer'[Slot(o)] = Stored(ch, Slot(o))
        BY <3>1 DEF Clock
      <4>2. o \in Orders_of(ch)
        BY <2>3, <3>1, <3>3, <4>1, StoredOrder
      <4> QED BY <2>1, <4>2 DEF Clock, InWindow
    <3> QED BY <3>2, <3>3
  <2> QED BY <2>1, <2>2, <2>3 DEF Lost
<1> QED BY <1>4, <1>5 DEF Sound

-----------------------------------------------------------------------------
(* Among WINDOW + 1 orders from cursor on, one has not been retired; so    *)
(* what waits or may be retired is less than 2 * WINDOW beyond cursor.     *)
LEMMA Span ==
  ASSUME IInv, NEW o \in Orders, cursor <= o,
         o \in retired \/ o \in InWindow
  PROVE  o < cursor + 2 * WINDOW
<1> SUFFICES ASSUME o >= cursor + 2 * WINDOW
             PROVE  FALSE
  BY NAssumption, WindowAssumption DEF IInv, TypeOK, Orders
<1> DEFINE Next2W == cursor .. cursor + WINDOW
<1>1. cursor \in Nat /\ WINDOW \in Nat /\ o \in Nat /\ N \in Nat /\ o < N
  BY NAssumption, WindowAssumption DEF IInv, TypeOK, Orders
<1>2. IsFiniteSet(Next2W) /\ Cardinality(Next2W) = WINDOW + 1
  <2>1. IsFiniteSet(Next2W) /\ Cardinality(Next2W) =
          IF cursor > cursor + WINDOW THEN 0 ELSE cursor + WINDOW - cursor + 1
    BY <1>1, FS_Interval
  <2> QED BY <1>1, <2>1
<1>3. PICK u \in Next2W : u \notin Waiting
  <2> SUFFICES ASSUME Next2W \subseteq Waiting PROVE FALSE
    OBVIOUS
  <2>1. Cardinality(Next2W) <= Cardinality(Waiting)
    BY FS_Subset DEF IInv, FewWait
  <2>2. Cardinality(Waiting) \in Nat
    BY FS_CardinalityType DEF IInv, FewWait
  <2> QED BY <1>1, <1>2, <2>1, <2>2 DEF IInv, FewWait
<1>4. u \in Orders \ retired
  BY <1>1, <1>3 DEF Waiting, Orders
<1>5. o < u + WINDOW
  BY <1>4 DEF IInv, KeptWindow, InWindow
<1> QED BY <1>1, <1>3, <1>5

(* What waits or may be retired has slots of its own.                      *)
LEMMA OwnSlots ==
  ASSUME 2 * WINDOW <= DEPTH, IInv,
         NEW a \in Nat, NEW b \in Nat, Slot(a) = Slot(b),
         cursor <= a, a < cursor + DEPTH, 
         cursor <= b, b < cursor + DEPTH
  PROVE  a = b
<1>1. cursor \in Nat /\ DEPTH \in Nat
  BY NAssumption, DepthAssumption DEF IInv, TypeOK
<1> QED BY <1>1, SlotInjective

(* A fresh order lies in the window beyond cursor.                         *)
LEMMA FreshSpan ==
  ASSUME 2 * WINDOW <= DEPTH, IInv,
         NEW o \in Orders, o \in Waiting \/ o \in InWindow
  PROVE  o \in Nat /\ cursor <= o /\ o < cursor + DEPTH
<1>1. cursor \in Nat /\ o \in Nat /\ WINDOW \in Nat /\ DEPTH \in Nat
  BY NAssumption, WindowAssumption, DepthAssumption DEF IInv, TypeOK, Orders
<1>2. cursor <= o
  BY <1>1 DEF Waiting, InWindow, IInv, PrefixRetired
<1>3. o < cursor + 2 * WINDOW
  BY <1>2, Span DEF Waiting
<1> QED BY <1>1, <1>2, <1>3
-----------------------------------------------------------------------------
(* Only waiting orders leave, and the buffer stops at a missing one.       *)
LEMMA LeavingWait ==
  ASSUME 2 * WINDOW <= DEPTH, IInv, NEW k \in 0 .. NRET, Leaving(k)
  PROVE  /\ \A c \in 0 .. k - 1 : cursor + c \in Waiting
         /\ k < NRET => cursor + k \notin Waiting
<1>1. /\ cursor \in Nat /\ NRET \in Nat /\ DEPTH \in Nat /\ NRET <= DEPTH
      /\ k \in Nat /\ k <= NRET
  BY NRETAssumption, DepthAssumption DEF IInv, TypeOK
<1>2. ASSUME NEW c \in 0 .. k - 1 PROVE cursor + c \in Waiting
  <2>1. PICK o \in Waiting : Slot(o) = Slot(cursor + c)
    BY DEF Leaving, IInv, SlotsHold
  <2>2. o \in Orders
    BY DEF Waiting, IInv, TypeOK
  <2>3. o \in Nat /\ cursor <= o /\ o < cursor + DEPTH
    BY <2>1, <2>2, FreshSpan
  <2>4. /\ cursor + c \in Nat /\ cursor <= cursor + c
        /\ cursor + c < cursor + DEPTH
    BY <1>1
  <2>5. o = cursor + c
    BY <2>1, <2>3, <2>4, OwnSlots
  <2> QED BY <2>1, <2>5
<1>3. k < NRET => cursor + k \notin Waiting
  BY DEF Leaving, IInv, SlotsHold
<1> QED BY <1>2, <1>3

(* What waits after a step: the old and the new orders less those that     *)
(* have left.                                                              *)
LEMMA WaitingStep ==
  ASSUME 2 * WINDOW <= DEPTH, IInv, NEW ch \in Cycle, NEW k \in 0 .. NRET,
         Clock(ch, k)
  PROVE  Waiting' = {o \in Waiting \cup Orders_of(ch) : cursor + k <= o}
<1>1. cursor \in Nat /\ k \in Nat /\ cursor' = cursor + k
  BY NRETAssumption DEF IInv, TypeOK, Clock
<1>2. retired' = retired \cup Orders_of(ch) /\ retired \subseteq Nat
  BY DEF Clock, IInv, TypeOK, Orders
<1>3. ASSUME NEW o \in Orders_of(ch) PROVE o \in Nat /\ cursor <= o
  <2>1. o \in Orders /\ o \in InWindow
    BY FewOrders DEF Clock
  <2> QED BY <2>1, FreshSpan
<1>4. ASSUME NEW o \in retired' PROVE
        cursor' <= o <=> o \in Waiting \cup Orders_of(ch) /\ cursor + k <= o
  BY <1>1, <1>2, <1>3 DEF Waiting
<1> QED BY <1>1, <1>2, <1>4 DEF Waiting

(* No more than WINDOW orders wait after a step.                           *)
LEMMA FewWaitStep ==
  ASSUME 2 * WINDOW <= DEPTH, IInv, NEW ch \in Cycle, NEW k \in 0 .. NRET,
         cursor + k <= N, Clock(ch, k)
  PROVE  FewWait'
<1> DEFINE New == Orders_of(ch)
           Gone == cursor .. cursor + k - 1
           Rest == {o \in Waiting \cup New : cursor + k <= o}
<1>1. /\ cursor \in Nat /\ k \in Nat /\ NRET \in Nat /\ WINDOW \in Nat
      /\ k <= NRET /\ WINDOW >= 1 /\ N \in Nat
  BY NRETAssumption, WindowAssumption, NAssumption DEF IInv, TypeOK
<1>2. /\ IsFiniteSet(New) /\ Cardinality(New) <= NRET
      /\ IsFiniteSet(Waiting) /\ Cardinality(Waiting) <= WINDOW
      /\ Cardinality(New) \in Nat /\ Cardinality(Waiting) \in Nat
  BY FewOrders, FS_CardinalityType DEF IInv, FewWait
<1>3. Waiting' = Rest
  BY WaitingStep
<1>4. /\ IsFiniteSet(Waiting \cup New)
      /\ Cardinality(Waiting \cup New) <= Cardinality(Waiting) + Cardinality(New)
      /\ Cardinality(Waiting \cup New) \in Nat
  <2>1. /\ IsFiniteSet(Waiting \cup New)
        /\ Cardinality(Waiting \cup New) =
             Cardinality(Waiting) + Cardinality(New) - Cardinality(Waiting \cap New)
    BY <1>2, FS_Union
  <2>2. IsFiniteSet(Waiting \cap New)
    BY <1>2, FS_Intersection
  <2>3. Cardinality(Waiting \cap New) \in Nat
    BY <2>2, FS_CardinalityType
  <2>4. Cardinality(Waiting \cup New) \in Nat
    BY <2>1, FS_CardinalityType
  <2> QED BY <1>2, <2>1, <2>3, <2>4
<1>5. IsFiniteSet(Rest) /\ Cardinality(Rest) \in Nat
  <2>1. Rest \in SUBSET (Waiting \cup New)
    OBVIOUS
  <2>2. IsFiniteSet(Rest)
    BY <1>4, <2>1, FS_Subset
  <2> QED BY <2>2, FS_CardinalityType
<1>6. CASE k = NRET
  <2>1. Gone \subseteq Waiting
    <3>1. ASSUME NEW g \in Gone PROVE g \in Waiting
      <4>1. g - cursor \in 0 .. k - 1 /\ cursor + (g - cursor) = g
        BY <1>1
      <4> QED BY <4>1, LeavingWait DEF Clock
    <3> QED BY <3>1
  <2>2. IsFiniteSet(Gone) /\ Cardinality(Gone) = k
    <3>1. IsFiniteSet(Gone) /\ Cardinality(Gone) =
            IF cursor > cursor + k - 1 THEN 0 ELSE cursor + k - 1 - cursor + 1
      BY <1>1, FS_Interval
    <3> QED BY <1>1, <3>1
  <2>3. Rest \cap Gone = {}
    BY <1>1
  <2>4. Cardinality(Rest \cup Gone) = Cardinality(Rest) + Cardinality(Gone)
    <3>1. Cardinality(Rest \cup Gone) =
            Cardinality(Rest) + Cardinality(Gone) - Cardinality(Rest \cap Gone)
      BY <1>5, <2>2, FS_Union
    <3>2. Cardinality(Rest \cap Gone) = 0
      BY <2>3, FS_EmptySet
    <3> HIDE DEF Rest, Gone
    <3> QED BY <1>1, <1>5, <2>2, <3>1, <3>2
  <2>5. /\ Cardinality(Rest \cup Gone) <= Cardinality(Waiting \cup New)
    <3>1. Rest \cup Gone \in SUBSET (Waiting \cup New)
      BY <2>1
    <3> QED BY <1>4, <3>1, FS_Subset
  <2>6. Cardinality(Rest) <= WINDOW
    <3> HIDE DEF Rest, Gone, New
    <3> QED BY <1>1, <1>2, <1>4, <1>5, <1>6, <2>2, <2>4, <2>5
  <2> QED BY <1>3, <1>5, <2>6 DEF FewWait
<1>7. CASE k < NRET /\ cursor + k < N
  <2>1. cursor + k \in Orders \ retired
    <3>1. cursor + k \notin Waiting
      BY <1>7, LeavingWait DEF Clock
    <3> QED BY <1>1, <1>7, <3>1 DEF Waiting, Orders
  <2>2. ASSUME NEW o \in Rest
        PROVE  o \in Nat /\ cursor + k <= o /\ o <= cursor + k + WINDOW - 1
    <3>1. o \in Nat
      BY FewOrders DEF Waiting, IInv, TypeOK, Orders
    <3>2. o < cursor + k + WINDOW
      <4>1. CASE o \in Waiting
        BY <2>1, <4>1 DEF Waiting, IInv, KeptWindow
      <4>2. CASE o \in New
        BY <2>1, <4>2 DEF Clock, InWindow
      <4> QED BY <4>1, <4>2
    <3> QED BY <1>1, <3>1, <3>2
  <2>3. Rest \in SUBSET (cursor + k .. cursor + k + WINDOW - 1)
    BY <2>2, <1>1
  <2>4. /\ IsFiniteSet(cursor + k .. cursor + k + WINDOW - 1)
        /\ Cardinality(cursor + k .. cursor + k + WINDOW - 1) = WINDOW
    <3> DEFINE a == cursor + k
               b == cursor + k + WINDOW - 1
    <3>1. a \in Int /\ b \in Int /\ ~(a > b) /\ b - a + 1 = WINDOW
      BY <1>1
    <3>2. /\ IsFiniteSet(a .. b)
          /\ Cardinality(a .. b) = IF a > b THEN 0 ELSE b - a + 1
      BY <3>1, FS_Interval
    <3> QED BY <3>1, <3>2
  <2>5. Cardinality(Rest) <= WINDOW
    BY <2>3, <2>4, FS_Subset
  <2> QED BY <1>3, <1>5, <2>5 DEF FewWait
<1>8. CASE cursor + k = N
  <2>1. Rest = {}
    <3>1. ASSUME NEW o \in Waiting \cup New PROVE o \in 0 .. N - 1
      BY FewOrders DEF Waiting, IInv, TypeOK, Orders
    <3> QED BY <1>1, <1>8, <3>1
  <2> QED BY <1>1, <1>3, <2>1, FS_EmptySet DEF FewWait
<1> QED BY <1>1, <1>6, <1>7, <1>8

(* No error is raised: what is popped is where it belongs and what is      *)
(* pushed finds an empty slot.                                             *)
LEMMA NoError ==
  ASSUME 2 * WINDOW <= DEPTH, IInv, NEW ch \in Cycle, NEW k \in 0 .. NRET,
         Clock(ch, k)
  PROVE  errcode' = 0
<1>1. \A c \in 0 .. k - 1 : buffer[Slot(cursor + c)] = cursor + c
  BY LeavingWait DEF Clock, IInv, SlotsHold
<1>2. Pushed(ch) \cap valid = {}
  <2> SUFFICES ASSUME NEW o \in Orders_of(ch), Slot(o) \in valid
               PROVE  FALSE
    BY DEF Pushed
  <2>1. PICK e \in Waiting : Slot(e) = Slot(o)
    BY DEF IInv, SlotsHold
  <2>2. e \in Orders /\ o \in Orders /\ o \in InWindow
    BY FewOrders DEF Clock, Waiting, IInv, TypeOK
  <2>3. e = o
    BY <2>1, <2>2, FreshSpan, OwnSlots
  <2> QED BY <2>2, <2>3 DEF Waiting, InWindow
<1> QED BY <1>1, <1>2 DEF Clock, Errcode

(* The slots hold the waiting orders after a step.                         *)
LEMMA SlotsHoldStep ==
  ASSUME 2 * WINDOW <= DEPTH, IInv, NEW ch \in Cycle, NEW k \in 0 .. NRET,
         Clock(ch, k)
  PROVE  SlotsHold'
<1> DEFINE All == Waiting \cup Orders_of(ch)
<1>1. cursor \in Nat /\ k \in Nat /\ k <= DEPTH
  BY NRETAssumption, DepthAssumption DEF IInv, TypeOK
<1>2. Waiting' = {o \in All : cursor + k <= o}
  BY WaitingStep
<1>3. ASSUME NEW o \in All
      PROVE  o \in Nat /\ cursor <= o /\ o < cursor + DEPTH
  <2>1. o \in Orders /\ (o \in Waiting \/ o \in InWindow)
    BY FewOrders DEF Clock, Waiting, IInv, TypeOK
  <2> QED BY <2>1, FreshSpan
<1>4. ASSUME NEW o \in All, NEW p \in All, Slot(o) = Slot(p)
      PROVE  o = p
  BY <1>3, <1>4, OwnSlots
<1>5. ASSUME NEW o \in All
      PROVE  Slot(o) \in Popped(k) <=> ~(cursor + k <= o)
  <2>1. ASSUME Slot(o) \in Popped(k) PROVE ~(cursor + k <= o)
    <3>1. PICK c \in 0 .. k - 1 : Slot(o) = Slot(cursor + c)
      BY <2>1 DEF Popped
    <3>2. cursor + c \in Waiting
      BY LeavingWait DEF Clock
    <3>3. o = cursor + c
      BY <1>4, <3>1, <3>2
    <3> QED BY <1>1, <3>3
  <2>2. ASSUME ~(cursor + k <= o) PROVE Slot(o) \in Popped(k)
    <3>1. o - cursor \in 0 .. k - 1 /\ o = cursor + (o - cursor)
      BY <1>1, <1>3, <2>2
    <3> QED BY <3>1 DEF Popped
  <2> QED BY <2>1, <2>2
<1>6. valid' = {Slot(o) : o \in Waiting'}
  <2>1. valid \cup Pushed(ch) = {Slot(o) : o \in All}
    BY DEF IInv, SlotsHold, Pushed
  <2>2. valid' = {Slot(o) : o \in All} \ Popped(k)
    BY <2>1 DEF Clock
  <2> QED BY <1>2, <1>5, <2>2
<1>7. ASSUME NEW o \in Waiting' PROVE buffer'[Slot(o)] = o
  <2>1. o \in All /\ o \in Nat
    BY <1>2, <1>3
  <2>2. Slot(o) \in Slots
    BY <2>1, DivMod DEF Slot
  <2>3. buffer'[Slot(o)] = Stored(ch, Slot(o))
    BY <2>2 DEF Clock
  <2>4. ASSUME NEW c \in Storing(ch, Slot(o)) PROVE ch[c] = o
    <3>1. ch[c] \in Orders_of(ch) /\ Slot(ch[c]) = Slot(o)
      BY DEF Storing, Orders_of
    <3> QED BY <1>4, <2>1, <3>1
  <2>5. CASE Storing(ch, Slot(o)) = {}
    <3>1. o \notin Orders_of(ch)
      BY <2>5 DEF Storing, Orders_of
    <3> QED BY <2>1, <2>3, <2>5, <3>1 DEF Stored, IInv, SlotsHold
  <2>6. CASE Storing(ch, Slot(o)) # {}
    <3>1. PICK c \in Storing(ch, Slot(o)) : TRUE
      BY <2>6
    <3>2. \A d \in Storing(ch, Slot(o)) : d = c
      BY <2>4, <3>1 DEF Clock, Storing
    <3>3. c \in Int
      BY <3>1 DEF Storing, Channels
    <3>4. \A d \in Storing(ch, Slot(o)) : d <= c
      BY <3>2, <3>3
    <3>5. (CHOOSE x \in Storing(ch, Slot(o)) :
             \A d \in Storing(ch, Slot(o)) : d <= x) \in Storing(ch, Slot(o))
      BY <3>1, <3>4
    <3> QED BY <2>3, <2>4, <2>6, <3>5 DEF Stored
  <2> QED BY <2>5, <2>6
<1> QED BY <1>6, <1>7 DEF SlotsHold
-----------------------------------------------------------------------------
(* Initially nothing waits.                                                *)
LEMMA InitIInv == Init => IInv
<1> SUFFICES ASSUME Init PROVE IInv
  OBVIOUS
<1>1. TypeOK /\ Holds
  BY TypeInit
<1>2. Waiting = {}
  BY DEF Init, Waiting
<1>3. PrefixRetired /\ SlotsHold /\ KeptWindow
  BY <1>2 DEF Init, PrefixRetired, SlotsHold, KeptWindow
<1>4. FewWait
  BY <1>2, FS_EmptySet, WindowAssumption DEF FewWait
<1> QED BY <1>1, <1>3, <1>4 DEF IInv, NeverComplains, Init

(* What comes out is the next k orders.                                    *)
LEMMA OutStep ==
  ASSUME 2 * WINDOW <= DEPTH, IInv, NEW ch \in Cycle, NEW k \in 0 .. NRET,
         Clock(ch, k)
  PROVE  /\ cursor .. cursor + k - 1 \subseteq retired
         /\ out' = [c \in Channels |-> IF c < k THEN cursor + c ELSE Idle]
<1>1. cursor \in Nat /\ k \in Nat
  BY NRETAssumption DEF IInv, TypeOK
<1>2. \A c \in 0 .. k - 1 : /\ cursor + c \in Waiting
                            /\ buffer[Slot(cursor + c)] = cursor + c
  BY LeavingWait DEF Clock, IInv, SlotsHold
<1>3. cursor .. cursor + k - 1 \subseteq retired
  <2> SUFFICES ASSUME NEW g \in cursor .. cursor + k - 1 PROVE g \in retired
    OBVIOUS
  <2>1. g - cursor \in 0 .. k - 1 /\ cursor + (g - cursor) = g
    BY <1>1
  <2> QED BY <1>2, <2>1 DEF Waiting
<1>4. ASSUME NEW c \in Channels
      PROVE  (IF c < k THEN buffer[Slot(cursor + c)] ELSE Idle)
               = (IF c < k THEN cursor + c ELSE Idle)
  <2>1. CASE c < k
    <3>1. c \in 0 .. k - 1
      BY <2>1, <1>1, NRETAssumption DEF Channels
    <3> QED BY <1>2, <2>1, <3>1
  <2>2. CASE ~(c < k)
    BY <2>2
  <2> QED BY <2>1, <2>2
<1> QED BY <1>3, <1>4 DEF Clock

(* A clock edge preserves the strengthened invariant.                      *)
LEMMA ClockStep ==
  ASSUME 2 * WINDOW <= DEPTH, IInv, NEW ch \in Cycle, NEW k \in 0 .. NRET,
         cursor + k <= N, Clock(ch, k)
  PROVE  IInv'
<1>1. PrefixRetired'
  <2>1. cursor \in Nat /\ k \in Nat
    BY NRETAssumption DEF IInv, TypeOK
  <2>2. \A g \in 0 .. cursor + k - 1 : g \in 0 .. cursor - 1 \/ g \in cursor .. cursor + k - 1
    BY <2>1
  <2>3. cursor .. cursor + k - 1 \subseteq retired
    BY OutStep
  <2>4. 0 .. cursor - 1 \subseteq retired
    BY DEF IInv, PrefixRetired
  <2>5. cursor' = cursor + k /\ retired \subseteq retired'
    BY DEF Clock
  <2>6. 0 .. cursor + k - 1 \subseteq retired
    BY <2>2, <2>3, <2>4
  <2>7. 0 .. cursor' - 1 \subseteq retired'
    <3> SUFFICES ASSUME NEW g \in 0 .. cursor' - 1 PROVE g \in retired
      BY <2>5
    <3>1. g \in 0 .. cursor + k - 1
      BY <2>1, <2>5
    <3> QED BY <2>6, <3>1
  <2> QED BY <2>7 DEF PrefixRetired
<1>2. KeptWindow'
  <2>1. /\ retired' = retired \cup Orders_of(ch)
        /\ \A o \in Orders_of(ch), u \in Orders \ retired : o < u + WINDOW
    BY DEF Clock, InWindow
  <2> QED BY <2>1 DEF IInv, KeptWindow
<1>3. NeverComplains'
  BY NoError DEF Clock, IInv, NeverComplains
<1> QED BY <1>1, <1>2, <1>3, TypeStep, SlotsHoldStep, FewWaitStep DEF IInv

(* What a core with this window presents is a cycle of orders.             *)
LEMMA PresentedIsCycle == [Channels -> InWindow \cup {Idle}] \subseteq Cycle
BY DEF Cycle, InWindow

(* The strengthened invariant holds at all times.                          *)
THEOREM Inductive ==
  ASSUME 2 * WINDOW <= DEPTH
  PROVE  Spec => []IInv
<1>1. IInv /\ [Next]_vars => IInv'
  <2>1. IInv /\ Next => IInv'
    BY ClockStep, PresentedIsCycle DEF Next
  <2>2. IInv /\ UNCHANGED vars => IInv'
    BY DEF vars, IInv, TypeOK, PrefixRetired, SlotsHold, KeptWindow, FewWait,
           Waiting, NeverComplains, Holds
  <2> QED BY <2>1, <2>2
<1> QED BY <1>1, InitIInv, PTL DEF Spec

(* A buffer twice as deep as the core's window never reports an error.     *)
THEOREM Fits ==
  ASSUME 2 * WINDOW <= DEPTH
  PROVE  Spec => []NeverComplains
<1>1. IInv => NeverComplains
  BY DEF IInv
<1> QED BY <1>1, Inductive, PTL

LEMMA TypeNext == TypeOK /\ Holds /\ [Next]_vars => (TypeOK /\ Holds)'
<1>1. TypeOK /\ Holds /\ Next => (TypeOK /\ Holds)'
  BY TypeStep, PresentedIsCycle DEF Next
<1>2. TypeOK /\ Holds /\ UNCHANGED vars => (TypeOK /\ Holds)'
  BY DEF vars, TypeOK, Holds
<1> QED BY <1>1, <1>2

(* The types of the buffer's registers hold at all times, whatever the     *)
(* depth and the window.                                                   *)
THEOREM Typed == Spec => []TypeOK
BY TypeInit, TypeNext, PTL DEF Spec

(* Until it reports an error the buffer shows the stream, and nothing from *)
(* an order on that it lost, whatever the depth and the window.            *)
THEOREM SoundAlways == Spec => SoundUntilReported
<1>1. TypeOK /\ Holds /\ [Next]_vars => [reported' \/ Sound]_vars
  <2>1. ASSUME TypeOK, Holds, Next PROVE reported' \/ Sound
    <3>1. PICK ch \in Cycle, k \in 0 .. NRET : Clock(ch, k)
      BY <2>1, PresentedIsCycle DEF Next
    <3>2. errcode' # 0 => reported'
      BY <3>1 DEF Clock
    <3> QED BY <2>1, <3>1, <3>2, SoundStep
  <2> QED BY <2>1
<1> QED BY <1>1, TypeInit, TypeNext, PTL DEF Spec, SoundUntilReported

(* A buffer twice as deep as the core's window implements the in-order     *)
(* stream.                                                                 *)
THEOREM Refines ==
  ASSUME 2 * WINDOW <= DEPTH
  PROVE  Spec => Reorders
<1>1. Init => InOrder!StreamInit
  BY DEF Init, InOrder!StreamInit, Channels, Idle, InOrder!Channels, InOrder!Idle
<1>2. IInv /\ [Next]_vars => [InOrder!Clock]_(InOrder!streamVars)
  <2>1. ASSUME IInv, NEW ch \in Cycle, NEW k \in 0 .. NRET, Clock(ch, k)
        PROVE  InOrder!Clock
    <3>1. InOrder!RetireSet(Orders_of(ch))
      <4>1. Orders_of(ch) \subseteq Orders \ retired
        BY <2>1 DEF Clock, InWindow
      <4> QED BY <2>1, <4>1 DEF Clock, InOrder!RetireSet, InOrder!Orders, Orders
    <3>2. InOrder!Deliver(k)
      BY <2>1, OutStep DEF Clock, InOrder!Deliver, InOrder!Channels, InOrder!Idle,
         Channels, Idle
    <3>3. Orders_of(ch) \in SUBSET InOrder!Orders
      BY <2>1, FewOrders DEF InOrder!Orders, Orders
    <3> QED BY <2>1, <3>1, <3>2, <3>3 DEF InOrder!Clock
  <2>2. UNCHANGED vars => UNCHANGED InOrder!streamVars
    BY DEF vars, InOrder!streamVars
  <2> QED BY <2>1, <2>2, PresentedIsCycle DEF Next
<1> QED BY <1>1, <1>2, Inductive, PTL DEF Spec, Reorders, InOrder!StreamSpec
=============================================================================
