-------------------------- MODULE GeneratedProofs ---------------------------
(***************************************************************************)
(* What the scripts generate: the schedule of a check, the monitor, and    *)
(* the instruction check with the models' outputs as its inputs.           *)
(*                                                                         *)
(* The schedule, for every counter width and every configured depth: the   *)
(* step number is not known to the hardware; the argument is that the      *)
(* counter equals it until it saturates (CounterIsStep), so that the       *)
(* comparison with depth can be true in step depth only.                   *)
(*                                                                         *)
(* The checks of the monitor, for every number of channels and of          *)
(* instructions, every program and every order in which it retires: the    *)
(* k packets a check sees in a cycle are the orders first to               *)
(* first + k - 1 of the stream (Came).  The shadow state is that of the    *)
(* program before first (PcShadow, RegShadow); what is forwarded from the  *)
(* lower channels of the cycle adds the orders between first and that of   *)
(* the channel.  So each packet is compared with what the program left     *)
(* just before it.                                                         *)
(*                                                                         *)
(* The instruction checks: lane i of a word is one address (LaneOf), so    *)
(* that what is asserted of the lanes is an equality of memories           *)
(* (SameLanes).  The error code of the monitor is a register behind the    *)
(* packets and another behind that; CheckInv says what each of the two     *)
(* holds of the packets it is about (Judged).                              *)
(***************************************************************************)
EXTENDS MCMonitor, CheckSchedule, InsnChecks, WellFoundedInduction, TLAPS

(* The counter is the number of the step, until it saturates.              *)
CounterIsStep ==
  /\ reset <=> step = 0
  /\ step > 0 => cycle_reg = IF step <= MAX_CYCLE THEN step ELSE MAX_CYCLE

(* What has been recorded so far, of a check whose depth fits.             *)
Recorded ==
  FitsCounter =>
    /\ checks = IF step > depth THEN {depth} ELSE {}
    /\ trigs = IF step > trigger THEN {trigger} ELSE {}

ScheduleInv == TypeOK /\ CounterIsStep /\ Recorded

(* The first step is step 0, in reset, with nothing recorded.              *)
LEMMA ScheduleInit == Init => ScheduleInv
  BY ScheduleAssumption DEF Init, ScheduleInv, TypeOK, CounterIsStep, Recorded

(* The counter goes on being the step number.                              *)
LEMMA TickCounter ==
  ASSUME TypeOK, CounterIsStep, Tick
  PROVE  CounterIsStep'
  BY ScheduleAssumption DEF TypeOK, CounterIsStep, Tick, NextCycle

(* The counter the comparisons see in a step of a fitting check.           *)
LEMMA CycleIsStep ==
  ASSUME TypeOK, CounterIsStep, FitsCounter, step <= depth
  PROVE  cycle = step
  BY ScheduleAssumption DEF TypeOK, CounterIsStep, FitsCounter, cycle

(* A step records the trigger in step trigger and the check in step depth. *)
LEMMA TickRecorded ==
  ASSUME ScheduleInv, Tick
  PROVE  Recorded'
<1> SUFFICES ASSUME FitsCounter
             PROVE  /\ checks' = IF step' > depth THEN {depth} ELSE {}
                    /\ trigs' = IF step' > trigger THEN {trigger} ELSE {}
  BY DEF Tick, config, Recorded, FitsCounter
<1>1. cycle = step /\ step \in Nat /\ depth \in Nat /\ trigger \in Nat
      /\ start <= trigger /\ trigger <= depth /\ start \in Nat
  BY CycleIsStep, ScheduleAssumption DEF ScheduleInv, TypeOK, Tick
<1>2. checks = {} /\ trigs = IF step > trigger THEN {trigger} ELSE {}
  BY <1>1 DEF ScheduleInv, Recorded, Tick
<1>3. checks' = IF step = depth THEN {depth} ELSE {}
  <2>1. (check /\ ~checker_reset) <=> step = depth
    BY <1>1 DEF check, checker_reset
  <2> QED BY <1>2, <2>1 DEF Tick
<1>4. trigs' = IF step = trigger THEN trigs \cup {step} ELSE trigs
  <2>1. (trig /\ ~checker_reset) <=> step = trigger
    BY <1>1 DEF trig, checker_reset
  <2> QED BY <2>1 DEF Tick
<1>5. step' = step + 1 /\ step <= depth
  BY DEF Tick
<1> QED BY <1>1, <1>2, <1>3, <1>4, <1>5

(* A step keeps the types.                                                 *)
LEMMA TickTypes ==
  ASSUME ScheduleInv, Tick
  PROVE  TypeOK'
<1>1. checks' \subseteq 0 .. depth /\ trigs' \subseteq 0 .. depth
  BY DEF ScheduleInv, TypeOK, Tick
<1>2. cycle_reg' \in 0 .. MAX_CYCLE
  BY ScheduleAssumption DEF ScheduleInv, TypeOK, Tick, NextCycle
<1>3. step' \in 0 .. depth + 1 /\ reset' \in BOOLEAN
  <2>1. depth \in Nat /\ step \in Nat
    BY ScheduleAssumption DEF ScheduleInv, TypeOK
  <2>2. step <= depth /\ step' = step + 1 /\ reset' = FALSE
    BY DEF Tick
  <2>3. step' \in 0 .. depth + 1
    BY <2>1, <2>2
  <2>4. reset' \in BOOLEAN
    BY <2>2, Zenon
  <2> QED BY <2>3, <2>4
<1>4. depth' = depth /\ trigger' = trigger /\ start' = start
  BY DEF Tick, config
<1> QED BY <1>1, <1>2, <1>3, <1>4 DEF ScheduleInv, TypeOK

(* The strengthened invariant holds in every step of every run.            *)
THEOREM ScheduleInvariant == Spec => []ScheduleInv
<1>1. ScheduleInv /\ [Next]_vars => ScheduleInv'
  <2> SUFFICES ASSUME ScheduleInv, [Next]_vars PROVE ScheduleInv'
    OBVIOUS
  <2>1. CASE Tick
    BY <2>1, TickCounter, TickRecorded, TickTypes DEF ScheduleInv
  <2>2. CASE UNCHANGED vars
    BY <2>2 DEF vars, config, ScheduleInv, TypeOK, CounterIsStep, Recorded, FitsCounter
  <2> QED BY <2>1, <2>2 DEF Next
<1> QED BY ScheduleInit, <1>1, PTL DEF Spec

(* A check whose depth fits the counter checks the last step and only it.  *)
THEOREM Schedules == Spec => []OnSchedule
<1>1. ScheduleInv => OnSchedule
  BY DEF ScheduleInv, TypeOK, Recorded, OnSchedule, ChecksLastStep, TriggersOnce, Done
<1> QED BY ScheduleInvariant, <1>1, PTL
-----------------------------------------------------------------------------

(* The w channels show the k orders from first on.                         *)
Came(w, first, k) == stream = [c \in 0 .. w - 1 |-> IF c < k THEN first + c ELSE -1]

StreamInv ==
  /\ cursor \in 0 .. N
  /\ retired \subseteq 0 .. N - 1
  /\ 0 .. cursor - 1 \subseteq retired

(* A cycle of the stream: the next k orders come out.                      *)
StreamStep(w, k) ==
  /\ \E new \in SUBSET (0 .. N - 1) : retired' = retired \cup new
  /\ cursor .. cursor + k - 1 \subseteq retired
  /\ cursor' = cursor + k
  /\ stream' = [c \in 0 .. w - 1 |-> IF c < k THEN cursor + c ELSE -1]

LEMMA StreamSteps ==
  /\ Pc!Clock       => \E k \in 0 .. NRET : StreamStep(NRET, k)
  /\ PcNarrow!Clock => \E k \in 0 .. 1 : StreamStep(1, k)
  /\ R!Clock        => \E k \in 0 .. NRET : StreamStep(NRET, k)
<1>1. ASSUME Pc!Clock PROVE \E k \in 0 .. NRET : StreamStep(NRET, k)
  <2>1. PICK new \in SUBSET Pc!Orders, k \in 0 .. NRET : Pc!RetireSet(new) /\ Pc!Deliver(k)
    BY <1>1 DEF Pc!Clock
  <2>2. StreamStep(NRET, k)
    BY <2>1 DEF Pc!RetireSet, Pc!Deliver, Pc!Orders, Pc!Channels, Pc!Idle, StreamStep, Came
  <2> QED
    BY <2>2
<1>2. ASSUME PcNarrow!Clock PROVE \E k \in 0 .. 1 : StreamStep(1, k)
  <2>1. PICK new \in SUBSET PcNarrow!Orders, k \in 0 .. 1 :
          PcNarrow!RetireSet(new) /\ PcNarrow!Deliver(k)
    BY <1>2 DEF PcNarrow!Clock
  <2>2. StreamStep(1, k)
    BY <2>1 DEF PcNarrow!RetireSet, PcNarrow!Deliver, PcNarrow!Orders, PcNarrow!Channels,
                PcNarrow!Idle, StreamStep, Came
  <2> QED
    BY <2>2
<1>3. ASSUME R!Clock PROVE \E k \in 0 .. NRET : StreamStep(NRET, k)
  <2>1. PICK new \in SUBSET R!Orders, k \in 0 .. NRET : R!RetireSet(new) /\ R!Deliver(k)
    BY <1>3 DEF R!Clock
  <2>2. StreamStep(NRET, k)
    BY <2>1 DEF R!RetireSet, R!Deliver, R!Orders, R!Channels, R!Idle, StreamStep, Came
  <2> QED
    BY <2>2
<1> QED
  BY <1>1, <1>2, <1>3

(* What comes out next starts where the cycle ended.                       *)
LEMMA StreamStepInv ==
  ASSUME NEW w \in Nat, NEW k \in 0 .. w, StreamInv, StreamStep(w, k)
  PROVE  StreamInv' /\ k <= cursor' /\ cursor = cursor' - k /\ Came(w, cursor - k, k)'
<1>1. cursor \in Nat /\ k \in Nat /\ N \in Nat
  BY NAssumption DEF StreamInv
<1>2. cursor + k <= N
  <2>1. CASE k = 0
    BY <1>1, <2>1 DEF StreamInv
  <2>2. CASE k # 0
    <3>1. cursor + k - 1 \in cursor .. cursor + k - 1
      BY <1>1, <2>2
    <3>2. cursor + k - 1 \in 0 .. N - 1
      BY <3>1 DEF StreamStep, StreamInv
    <3> QED
      BY <1>1, <3>2
  <2> QED
    BY <2>1, <2>2
<1>3. 0 .. cursor' - 1 \subseteq retired'
  <2>1. \A g \in 0 .. cursor + k - 1 : g \in 0 .. cursor - 1 \/ g \in cursor .. cursor + k - 1
    BY <1>1
  <2> QED
    BY <2>1 DEF StreamStep, StreamInv
<1> QED
  BY <1>1, <1>2, <1>3 DEF StreamStep, StreamInv, Came

(* Some set of natural numbers below a bound: Last is its greatest.        *)
LEMMA Greatest ==
  ASSUME NEW b \in Nat, NEW S \in SUBSET (0 .. b), S # {}
  PROVE  \E c \in S : \A d \in S : d <= c
<1> DEFINE T == {b - c : c \in S}
<1>1. T # {} /\ T \subseteq Nat
  <2>1. \A c \in S : b - c \in Nat
    OBVIOUS
  <2> QED
    BY <2>1
<1>2. PICK m \in T : \A k \in T : ~(<<k, m>> \in OpToRel(<, Nat))
  BY <1>1, NatLessThanWellFounded, WFMin
<1>3. PICK c \in S : m = b - c
  OBVIOUS
<1>4. ASSUME NEW d \in S PROVE d <= c
  <2>1. b - d \in T /\ b - d \in Nat /\ m \in Nat
    BY <1>1
  <2>2. ~(b - d < m)
    BY <1>2, <2>1 DEF OpToRel
  <2> QED
    BY <1>3, <2>2
<1> QED
  BY <1>4
-----------------------------------------------------------------------------
(* The shadow of the program counter is the packet before first.           *)
PcShadow(first) ==
  IF first = 0 THEN ~shadow_pc_valid
  ELSE /\ shadow_pc_valid <=> ~prog[first - 1].trap
       /\ shadow_pc_trap <=> prog[first - 1].trap
       /\ shadow_pc = prog[first - 1].pc_wdata

PcPackets == [pc_rdata: MonitorPCs, pc_wdata: MonitorPCs, intr: BOOLEAN, trap: BOOLEAN]

PcInv(w) ==
  /\ StreamInv
  /\ prog \in [0 .. N - 1 -> PcPackets]
  /\ shadow_pc_valid \in BOOLEAN /\ shadow_pc_trap \in BOOLEAN /\ shadow_pc \in MonitorPCs
  /\ \E k \in 0 .. w : k <= cursor /\ Came(w, cursor - k, k) /\ PcShadow(cursor - k)

(* The packets on the lowest m channels, as long as all of them are busy.  *)
LEMMA PcBusy ==
  ASSUME NEW first \in Nat, NEW k \in 0 .. NRET, Came(NRET, first, k), NEW m \in 0 .. NRET
  PROVE  Pc!Busy(m) = 0 .. (IF m < k THEN m ELSE k) - 1
<1>1. \A c \in 0 .. m - 1 : stream[c] # Pc!Idle <=> c < k
  BY NRETAssumption DEF Came, Pc!Idle
<1>2. NRET \in Nat
  BY NRETAssumption
<1> QED
  BY <1>1, <1>2 DEF Pc!Busy

LEMMA NarrowBusy ==
  ASSUME NEW first \in Nat, NEW k \in 0 .. 1, Came(1, first, k), NEW m \in 0 .. 1
  PROVE  PcNarrow!Busy(m) = 0 .. (IF m < k THEN m ELSE k) - 1
  BY DEF PcNarrow!Busy, Came, PcNarrow!Idle

LEMMA LastBusy ==
  ASSUME NEW m \in Nat, m # 0
  PROVE  Pc!Last(0 .. m - 1) = m - 1 /\ PcNarrow!Last(0 .. m - 1) = m - 1
<1>1. m - 1 \in 0 .. m - 1 /\ \A d \in 0 .. m - 1 : d <= m - 1
  OBVIOUS
<1>2. \A c \in 0 .. m - 1 : (\A d \in 0 .. m - 1 : d <= c) => c = m - 1
  <2>1. \A c \in 0 .. m - 1 : m - 1 <= c => c = m - 1
    OBVIOUS
  <2> QED
    BY <1>1, <2>1
<1> QED
  BY <1>1, <1>2 DEF Pc!Last, PcNarrow!Last

(* What channel c is compared with: the packet of the order before it; the *)
(* flags for "valid" and "trapped" exclude each other.                     *)
LEMMA PcCompared ==
  ASSUME PcInv(NRET), NEW k \in 0 .. NRET, k <= cursor, Came(NRET, cursor - k, k),
         PcShadow(cursor - k), NEW c \in 0 .. k - 1, Pc!Shadow(c).valid
  PROVE  /\ ~Pc!Shadow(c).trap
         /\ cursor - k + c # 0
         /\ Pc!Shadow(c).rdata = prog[cursor - k + c - 1].pc_wdata
<1> DEFINE first == cursor - k
<1>1. /\ cursor \in Nat /\ k \in Nat /\ NRET \in Nat /\ N \in Nat /\ c \in Nat /\ c < k /\ k <= NRET
      /\ first \in Nat /\ cursor <= N /\ c \in 0 .. NRET /\ c \in 0 .. NRET - 1
  BY NRETAssumption, NAssumption DEF PcInv, StreamInv
<1>2. Pc!Busy(c) = 0 .. c - 1
  <2>1. Pc!Busy(c) = 0 .. (IF c < k THEN c ELSE k) - 1
    BY <1>1, PcBusy
  <2> QED
    BY <1>1, <2>1
<1>3. CASE c = 0
  <2>1. Pc!Busy(c) = {}
    BY <1>2, <1>3
  <2>2. Pc!Shadow(c) = [valid |-> shadow_pc_valid, trap |-> shadow_pc_trap, rdata |-> shadow_pc]
    BY <2>1 DEF Pc!Shadow
  <2>3. shadow_pc_valid /\ Pc!Shadow(c).trap = shadow_pc_trap /\ Pc!Shadow(c).rdata = shadow_pc
    BY <2>2
  <2>4. first # 0 /\ first + c = first
    BY <1>1, <1>3, <2>3 DEF PcShadow
  <2>5. ~shadow_pc_trap /\ shadow_pc = prog[first - 1].pc_wdata
    BY <2>3, <2>4 DEF PcShadow
  <2>6. first + c - 1 = first - 1
    BY <1>1, <1>3
  <2>7. ~Pc!Shadow(c).trap
    BY <2>3, <2>5, Zenon
  <2> QED
    BY <2>3, <2>4, <2>5, <2>6, <2>7
<1>4. CASE c # 0
  <2>1. Pc!Busy(c) # {} /\ Pc!Last(Pc!Busy(c)) = c - 1
    <3>1. 0 \in 0 .. c - 1
      BY <1>1, <1>4
    <3> QED
      BY <1>1, <1>2, <1>4, <3>1, LastBusy
  <2>2. stream[c - 1] = first + c - 1
    BY <1>1, <1>4 DEF Came
  <2> DEFINE untrapped == ~prog[stream[c]].trap
  <2>3. Pc!Shadow(c) = [valid |-> untrapped, trap |-> prog[stream[c]].trap,
                        rdata |-> prog[first + c - 1].pc_wdata]
    BY <2>1, <2>2 DEF Pc!Shadow
  <2> HIDE DEF untrapped
  <2>4. /\ Pc!Shadow(c).valid = untrapped
        /\ Pc!Shadow(c).trap = prog[stream[c]].trap
        /\ Pc!Shadow(c).rdata = prog[first + c - 1].pc_wdata
    BY <2>3
  <2>5. ~Pc!Shadow(c).trap
    BY <2>4, Zenon DEF untrapped
  <2> QED
    BY <1>1, <1>4, <2>4, <2>5
<1> QED
  BY <1>3, <1>4

(* The last packet of the cycle becomes the shadow, and the next packets   *)
(* come after it.                                                          *)
LEMMA PcStep ==
  ASSUME PcInv(NRET), Pc!Next
  PROVE  PcInv(NRET)'
<1>1. PICK k \in 0 .. NRET : k <= cursor /\ Came(NRET, cursor - k, k) /\ PcShadow(cursor - k)
  BY DEF PcInv
<1>2. PICK j \in 0 .. NRET : StreamStep(NRET, j)
  BY StreamSteps DEF Pc!Next
<1>3. StreamInv' /\ j <= cursor' /\ cursor = cursor' - j /\ Came(NRET, cursor - j, j)'
  BY <1>2, StreamStepInv, NRETAssumption DEF PcInv
<1>4. /\ cursor \in Nat /\ k \in Nat /\ NRET \in Nat /\ N \in Nat /\ cursor <= N
      /\ cursor - k \in Nat
  BY <1>1, NRETAssumption, NAssumption DEF PcInv, StreamInv
<1>5. Pc!Busy(NRET) = 0 .. k - 1
  <2>1. Pc!Busy(NRET) = 0 .. (IF NRET < k THEN NRET ELSE k) - 1
    BY <1>1, <1>4, PcBusy
  <2> QED
    BY <1>4, <2>1
<1>6. prog' = prog /\ Pc!Keep
  BY DEF Pc!Next
<1>7. CASE k = 0
  <2>1. UNCHANGED <<shadow_pc_valid, shadow_pc_trap, shadow_pc>> /\ PcShadow(cursor)
    BY <1>1, <1>4, <1>5, <1>6, <1>7 DEF Pc!Keep
  <2>2. PcShadow(cursor - j)'
    BY <1>3, <1>6, <2>1 DEF PcShadow
  <2> QED
    BY <1>3, <1>6, <2>1, <2>2 DEF PcInv
<1>8. CASE k # 0
  <2>1. Pc!Busy(NRET) # {} /\ Pc!Last(Pc!Busy(NRET)) = k - 1
    <3>1. 0 \in 0 .. k - 1
      BY <1>4, <1>8
    <3> QED
      BY <1>4, <1>5, <1>8, <3>1, LastBusy
  <2>2. stream[k - 1] = cursor - 1 /\ cursor - 1 \in 0 .. N - 1
    BY <1>1, <1>4, <1>8 DEF Came
  <2>3. /\ shadow_pc_valid' = ~prog[cursor - 1].trap
        /\ shadow_pc_trap' = prog[cursor - 1].trap
        /\ shadow_pc' = prog[cursor - 1].pc_wdata
    BY <1>6, <2>1, <2>2 DEF Pc!Keep
  <2>4. (shadow_pc_valid' <=> ~prog[cursor - 1].trap) /\ (shadow_pc_trap' <=> prog[cursor - 1].trap)
    BY <2>3, Zenon
  <2>5. prog[cursor - 1] \in PcPackets
    BY <2>2 DEF PcInv
  <2>6. shadow_pc_valid' \in BOOLEAN /\ shadow_pc_trap' \in BOOLEAN /\ shadow_pc' \in MonitorPCs
    BY <2>3, <2>5, Zenon DEF PcPackets
  <2>7. PcShadow(cursor - j)'
    BY <1>3, <1>4, <1>6, <1>8, <2>3, <2>4 DEF PcShadow
  <2> QED
    BY <1>3, <1>6, <2>6, <2>7 DEF PcInv
<1> QED
  BY <1>7, <1>8

(* An error is a mismatch with the packet before.                          *)
LEMMA PcErrors ==
  ASSUME PcInv(NRET), Pc!Next
  PROVE  Pc!NoFalseAlarm' /\ Pc!TypeOK'
<1>1. PICK k \in 0 .. NRET : k <= cursor /\ Came(NRET, cursor - k, k) /\ PcShadow(cursor - k)
  BY DEF PcInv
<1>2. PcInv(NRET)'
  BY PcStep
<1>3. errcode_p' = [c \in Pc!Channels |-> Pc!Errcode(c)] /\ was' = stream /\ prog' = prog
  BY DEF Pc!Next
<1>4. /\ cursor \in Nat /\ k \in Nat /\ NRET \in Nat /\ N \in Nat /\ cursor <= N
      /\ cursor - k \in Nat
  BY <1>1, NRETAssumption, NAssumption DEF PcInv, StreamInv
<1>5. ASSUME NEW c \in Pc!Channels, stream[c] # Pc!Idle, Pc!Errcode(c) # 0
      PROVE  Pc!Jumps(stream[c])
  <2>1. c \in 0 .. k - 1 /\ stream[c] = cursor - k + c
    BY <1>1, <1>4, <1>5 DEF Came, Pc!Channels, Pc!Idle
  <2>2. Pc!Shadow(c).valid /\ ~prog[stream[c]].intr
    BY <1>5 DEF Pc!Errcode
  <2>3. /\ ~Pc!Shadow(c).trap
        /\ cursor - k + c # 0
        /\ Pc!Shadow(c).rdata = prog[cursor - k + c - 1].pc_wdata
    BY <1>1, <2>1, <2>2, PcCompared
  <2>4. Pc!Shadow(c).rdata # prog[stream[c]].pc_rdata
    BY <1>5, <2>3 DEF Pc!Errcode
  <2> QED
    BY <1>4, <2>1, <2>2, <2>3, <2>4 DEF Pc!Jumps
<1>6. Pc!NoFalseAlarm'
  BY <1>3, <1>5 DEF Pc!NoFalseAlarm, Pc!Checked, Pc!Jumps
<1>7. \A c \in Pc!Channels : Pc!Errcode(c) \in {0, Pc!Mismatch(c), Pc!ExpectedIntr(c)}
  BY DEF Pc!Errcode
<1>8. \A c \in Pc!Channels : errcode_p'[c] \in {0, Pc!Mismatch(c), Pc!ExpectedIntr(c)}
  BY <1>3, <1>7
<1>9. Pc!TypeOK'
  BY <1>2, <1>8 DEF Pc!TypeOK, PcInv, Pc!Orders, Pc!Packet, PcPackets, Pc!Mismatch, Pc!ExpectedIntr, Pc!Channels
<1> QED
  BY <1>6, <1>9

LEMMA PcInit ==
  ASSUME Pc!Init
  PROVE  PcInv(NRET) /\ Pc!NoFalseAlarm /\ Pc!TypeOK
<1>1. StreamInv /\ cursor = 0
  BY NAssumption DEF Pc!Init, Pc!StreamInit, StreamInv
<1>2. Came(NRET, 0, 0) /\ 0 \in 0 .. NRET
  BY NRETAssumption DEF Pc!Init, Pc!StreamInit, Came, Pc!Channels, Pc!Idle
<1>3. /\ prog \in [0 .. N - 1 -> PcPackets]
      /\ shadow_pc_valid \in BOOLEAN /\ shadow_pc_trap \in BOOLEAN /\ shadow_pc \in MonitorPCs
  BY Zenon DEF Pc!Init, Pc!Packet, PcPackets, Pc!Orders
<1>4. PcShadow(0)
  BY DEF Pc!Init, PcShadow
<1>5. PcInv(NRET)
  BY <1>1, <1>2, <1>3, <1>4 DEF PcInv
<1>6. Pc!NoFalseAlarm
  BY DEF Pc!Init, Pc!NoFalseAlarm, Pc!Checked
<1>7. \A c \in Pc!Channels : errcode_p[c] \in {0, Pc!Mismatch(c), Pc!ExpectedIntr(c)}
  BY DEF Pc!Init
<1>8. Pc!TypeOK
  BY <1>3, <1>7 DEF Pc!TypeOK, Pc!Orders, Pc!Packet, PcPackets
<1> QED
  BY <1>5, <1>6, <1>8
-----------------------------------------------------------------------------
(* One channel: the only packet of a cycle is compared with the shadow.    *)
LEMMA NarrowCompared == PcNarrow!Shadow(0) = [valid |-> shadow_pc_valid, trap |-> shadow_pc_trap, rdata |-> shadow_pc]
<1>1. PcNarrow!Busy(0) = {}
  BY DEF PcNarrow!Busy
<1> QED
  BY <1>1 DEF PcNarrow!Shadow

(* The error is raised for exactly the packets that jump after one that    *)
(* did not trap.                                                           *)
LEMMA NarrowErrcode ==
  ASSUME PcInv(1), NEW k \in 0 .. 1, k <= cursor, Came(1, cursor - k, k), PcShadow(cursor - k),
         stream[0] # PcNarrow!Idle
  PROVE  PcNarrow!Errcode(0) =
           IF PcNarrow!Jumps(stream[0]) /\ ~prog[stream[0] - 1].trap THEN PcNarrow!Mismatch(0) ELSE 0
<1>1. k = 1 /\ stream[0] = cursor - 1 /\ cursor - 1 \in Nat /\ cursor - k = cursor - 1
  BY DEF Came, PcNarrow!Idle, PcInv, StreamInv
<1>2. /\ PcNarrow!Shadow(0).valid = shadow_pc_valid /\ PcNarrow!Shadow(0).trap = shadow_pc_trap
      /\ PcNarrow!Shadow(0).rdata = shadow_pc
  BY NarrowCompared
<1>3. CASE cursor - 1 = 0
  <2>1. ~PcNarrow!Shadow(0).valid
    <3>1. ~shadow_pc_valid
      BY <1>1, <1>3 DEF PcShadow
    <3> QED
      BY <1>2, <3>1, Zenon
  <2>2. ~PcNarrow!Jumps(stream[0])
    BY <1>1, <1>3 DEF PcNarrow!Jumps
  <2> QED
    BY <2>1, <2>2 DEF PcNarrow!Errcode
<1>4. CASE cursor - 1 # 0
  <2>1. /\ shadow_pc_valid <=> ~prog[stream[0] - 1].trap
        /\ shadow_pc_trap <=> prog[stream[0] - 1].trap
        /\ shadow_pc = prog[stream[0] - 1].pc_wdata
    BY <1>1, <1>4 DEF PcShadow
  <2>2. /\ PcNarrow!Shadow(0).valid <=> ~prog[stream[0] - 1].trap
        /\ PcNarrow!Shadow(0).trap <=> prog[stream[0] - 1].trap
    BY <1>2, <2>1, Zenon
  <2>3. stream[0] \in Nat /\ stream[0] # 0
    BY <1>1, <1>4
  <2> QED
    BY <1>2, <2>1, <2>2, <2>3 DEF PcNarrow!Errcode, PcNarrow!Jumps
<1> QED
  BY <1>3, <1>4

LEMMA NarrowStep ==
  ASSUME PcInv(1), PcNarrow!Next
  PROVE  PcInv(1)' /\ PcNarrow!PcExact' /\ PcNarrow!TypeOK'
<1>1. PICK k \in 0 .. 1 : k <= cursor /\ Came(1, cursor - k, k) /\ PcShadow(cursor - k)
  BY DEF PcInv
<1>2. PICK j \in 0 .. 1 : StreamStep(1, j)
  BY StreamSteps DEF PcNarrow!Next
<1>3. StreamInv' /\ j <= cursor' /\ cursor = cursor' - j /\ Came(1, cursor - j, j)'
  BY <1>2, StreamStepInv DEF PcInv
<1>4. cursor \in Nat /\ k \in Nat /\ N \in Nat /\ cursor <= N /\ cursor - k \in Nat
  BY <1>1, NAssumption DEF PcInv, StreamInv
<1>5. /\ prog' = prog /\ was' = stream /\ PcNarrow!Keep
      /\ errcode_p' = [c \in PcNarrow!Channels |-> PcNarrow!Errcode(c)]
  BY DEF PcNarrow!Next
<1>6. PcNarrow!Busy(1) = 0 .. k - 1
  <2>1. PcNarrow!Busy(1) = 0 .. (IF 1 < k THEN 1 ELSE k) - 1
    <3>1. 1 \in 0 .. 1
      OBVIOUS
    <3> QED
      BY <1>1, <1>4, <3>1, NarrowBusy
  <2> QED
    BY <1>4, <2>1
<1>7. PcInv(1)'
  <2>1. CASE k = 0
    <3>1. UNCHANGED <<shadow_pc_valid, shadow_pc_trap, shadow_pc>> /\ PcShadow(cursor)
      BY <1>1, <1>4, <1>5, <1>6, <2>1 DEF PcNarrow!Keep
    <3>2. PcShadow(cursor - j)'
      BY <1>3, <1>5, <3>1 DEF PcShadow
    <3> QED
      BY <1>3, <1>5, <3>1, <3>2 DEF PcInv
  <2>2. CASE k # 0
    <3>1. PcNarrow!Busy(1) # {} /\ PcNarrow!Last(PcNarrow!Busy(1)) = k - 1
      <4>1. 0 \in 0 .. k - 1
        BY <1>4, <2>2
      <4> QED
        BY <1>4, <1>6, <2>2, <4>1, LastBusy
    <3>2. stream[k - 1] = cursor - 1 /\ cursor - 1 \in 0 .. N - 1
      BY <1>1, <1>4, <2>2 DEF Came
    <3>3. /\ shadow_pc_valid' = ~prog[cursor - 1].trap
          /\ shadow_pc_trap' = prog[cursor - 1].trap
          /\ shadow_pc' = prog[cursor - 1].pc_wdata
      BY <1>5, <3>1, <3>2 DEF PcNarrow!Keep
    <3>4. (shadow_pc_valid' <=> ~prog[cursor - 1].trap) /\ (shadow_pc_trap' <=> prog[cursor - 1].trap)
      BY <3>3, Zenon
    <3>5. prog[cursor - 1] \in PcPackets
      BY <3>2 DEF PcInv
    <3>6. shadow_pc_valid' \in BOOLEAN /\ shadow_pc_trap' \in BOOLEAN /\ shadow_pc' \in MonitorPCs
      BY <3>3, <3>5, Zenon DEF PcPackets
    <3>7. PcShadow(cursor - j)'
      BY <1>3, <1>4, <1>5, <2>2, <3>3, <3>4 DEF PcShadow
    <3> QED
      BY <1>3, <1>5, <3>6, <3>7 DEF PcInv
  <2> QED
    BY <2>1, <2>2
<1>8. PcNarrow!PcExact'
  <2>1. ASSUME NEW c \in PcNarrow!Channels, stream[c] # PcNarrow!Idle
        PROVE  PcNarrow!Errcode(c) =
                 IF PcNarrow!Jumps(stream[c]) /\ ~prog[stream[c] - 1].trap THEN PcNarrow!Mismatch(c) ELSE 0
    <3>1. c = 0
      BY DEF PcNarrow!Channels
    <3> QED
      BY <1>1, <2>1, <3>1, NarrowErrcode
  <2> QED
    BY <1>5, <2>1 DEF PcNarrow!PcExact, PcNarrow!Checked, PcNarrow!Jumps, PcNarrow!Mismatch
<1>9. \A c \in PcNarrow!Channels :
        PcNarrow!Errcode(c) \in {0, PcNarrow!Mismatch(c), PcNarrow!ExpectedIntr(c)}
  BY DEF PcNarrow!Errcode
<1>10. \A c \in PcNarrow!Channels :
         errcode_p'[c] \in {0, PcNarrow!Mismatch(c), PcNarrow!ExpectedIntr(c)}
  BY <1>5, <1>9
<1>11. PcNarrow!TypeOK'
  BY <1>7, <1>10 DEF PcNarrow!TypeOK, PcInv, PcNarrow!Orders, PcNarrow!Packet, PcPackets,
                     PcNarrow!Mismatch, PcNarrow!ExpectedIntr, PcNarrow!Channels
<1> QED
  BY <1>7, <1>8, <1>11

LEMMA NarrowInit ==
  ASSUME PcNarrow!Init
  PROVE  PcInv(1) /\ PcNarrow!PcExact /\ PcNarrow!TypeOK
<1>1. StreamInv /\ cursor = 0
  BY NAssumption DEF PcNarrow!Init, PcNarrow!StreamInit, StreamInv
<1>2. Came(1, 0, 0)
  BY DEF PcNarrow!Init, PcNarrow!StreamInit, Came, PcNarrow!Channels, PcNarrow!Idle
<1>3. /\ prog \in [0 .. N - 1 -> PcPackets]
      /\ shadow_pc_valid \in BOOLEAN /\ shadow_pc_trap \in BOOLEAN /\ shadow_pc \in MonitorPCs
  BY Zenon DEF PcNarrow!Init, PcNarrow!Packet, PcPackets, PcNarrow!Orders
<1>4. PcShadow(0)
  BY DEF PcNarrow!Init, PcShadow
<1>5. PcInv(1)
  BY <1>1, <1>2, <1>3, <1>4 DEF PcInv
<1>6. PcNarrow!PcExact
  BY DEF PcNarrow!Init, PcNarrow!PcExact, PcNarrow!Checked
<1>7. \A c \in PcNarrow!Channels :
        errcode_p[c] \in {0, PcNarrow!Mismatch(c), PcNarrow!ExpectedIntr(c)}
  BY DEF PcNarrow!Init
<1>8. PcNarrow!TypeOK
  BY <1>3, <1>7 DEF PcNarrow!TypeOK, PcNarrow!Orders, PcNarrow!Packet, PcPackets
<1> QED
  BY <1>5, <1>6, <1>8
-----------------------------------------------------------------------------
(* The shadow register file has what the program left before first, and    *)
(* knows the registers that were written.                                  *)
RegShadow(first) ==
  \A r \in MonitorRegs :
    /\ shadow_xregs[r] = R!Left(r, first)
    /\ r \in shadow_xregs_valid <=> r = 0 \/ R!Writers(r, first) # {}

RegInv ==
  /\ StreamInv
  /\ prog \in [0 .. N - 1 -> R!Packet]
  /\ shadow_xregs_valid \subseteq MonitorRegs
  /\ shadow_xregs \in [MonitorRegs -> 0 .. N]
  /\ \E k \in 0 .. NRET : k <= cursor /\ Came(NRET, cursor - k, k) /\ RegShadow(cursor - k)

(* The greatest of some natural numbers below a bound.                     *)
LEMMA LastIs ==
  ASSUME NEW b \in Nat, NEW S \in SUBSET (0 .. b), S # {}
  PROVE  R!Last(S) \in S /\ \A d \in S : d <= R!Last(S)
  BY Greatest DEF R!Last

LEMMA LastUnique ==
  ASSUME NEW b \in Nat, NEW S \in SUBSET (0 .. b), NEW x \in S, \A d \in S : d <= x
  PROVE  R!Last(S) = x
<1> DEFINE l == R!Last(S)
<1>1. l \in S /\ x <= l /\ l <= x
  BY LastIs
<1> HIDE DEF l
<1>2. l \in Nat /\ x \in Nat
  BY <1>1
<1> QED
  BY <1>1, <1>2 DEF l

(* The writers before the packet of channel c: those before first, and     *)
(* those on the lower channels.  Forwarded is the latter, by channel.      *)
Forwarded(r, first, c) == {i \in 0 .. c - 1 : prog[first + i].rd = r}

LEMMA WritersSplit ==
  ASSUME NEW first \in Nat, NEW c \in Nat, NEW r
  PROVE  R!Writers(r, first + c) = R!Writers(r, first) \cup {first + i : i \in Forwarded(r, first, c)}
<1>1. ASSUME NEW k \in R!Writers(r, first + c)
      PROVE  k \in R!Writers(r, first) \cup {first + i : i \in Forwarded(r, first, c)}
  <2>1. k \in Nat /\ k < first + c /\ prog[k].rd = r
    BY DEF R!Writers
  <2>2. CASE k < first
    BY <2>1, <2>2 DEF R!Writers
  <2>3. CASE ~(k < first)
    <3>1. k - first \in 0 .. c - 1 /\ k = first + (k - first)
      BY <2>1, <2>3
    <3> QED
      BY <2>1, <3>1 DEF Forwarded
  <2> QED
    BY <2>2, <2>3
<1>2. ASSUME NEW k \in R!Writers(r, first) PROVE k \in R!Writers(r, first + c)
  BY DEF R!Writers
<1>3. ASSUME NEW i \in Forwarded(r, first, c) PROVE first + i \in R!Writers(r, first + c)
  BY DEF R!Writers, Forwarded
<1> QED
  BY <1>1, <1>2, <1>3

(* So what the program left before that packet is what the highest of      *)
(* those channels wrote, or else what it had left before first.            *)
LEMMA LeftForwarded ==
  ASSUME NEW first \in Nat, NEW c \in Nat, NEW r \in MonitorRegs, Forwarded(r, first, c) # {}
  PROVE  /\ R!Left(r, first + c) = R!rd_wdata(first + R!Last(Forwarded(r, first, c)))
         /\ R!Writers(r, first + c) # {}
         /\ R!Last(Forwarded(r, first, c)) \in 0 .. c - 1
<1> DEFINE I == Forwarded(r, first, c)
           top == R!Last(I)
<1>1. I \in SUBSET (0 .. c) /\ \A i \in I : i \in 0 .. c - 1 /\ i \in Nat /\ prog[first + i].rd = r
  BY DEF Forwarded
<1>2. top \in I /\ \A i \in I : i <= top
  BY <1>1, LastIs
<1>3. R!Writers(r, first + c) \in SUBSET (0 .. first + c)
  BY DEF R!Writers
<1>0. R!Writers(r, first + c) = R!Writers(r, first) \cup {first + i : i \in I}
  BY WritersSplit
<1> HIDE DEF I, top
<1>4. first + top \in R!Writers(r, first + c)
  BY <1>0, <1>2
<1>5. ASSUME NEW k \in R!Writers(r, first + c) PROVE k <= first + top
  <2>1. CASE k \in R!Writers(r, first)
    <3>1. k \in Int /\ k < first
      BY <2>1 DEF R!Writers
    <3>2. top \in Nat
      BY <1>1, <1>2
    <3> QED
      BY <3>1, <3>2
  <2>2. CASE k \in {first + i : i \in I}
    BY <1>1, <1>2, <2>2
  <2> QED
    BY <1>0, <2>1, <2>2
<1>6. R!Last(R!Writers(r, first + c)) = first + top
  <2>1. first + c \in Nat
    OBVIOUS
  <2> QED
    BY <1>3, <1>4, <1>5, <2>1, LastUnique
<1>7. R!Left(r, first + c) = R!rd_wdata(first + top)
  <2>1. CASE r = 0
    BY <1>1, <1>2, <2>1 DEF R!Left, R!rd_wdata
  <2>2. CASE r # 0
    BY <1>4, <1>6, <2>2 DEF R!Left
  <2> QED
    BY <2>1, <2>2
<1> QED
  BY <1>1, <1>2, <1>4, <1>7 DEF I, top

LEMMA LeftBefore ==
  ASSUME NEW first \in Nat, NEW c \in Nat, NEW r \in MonitorRegs, Forwarded(r, first, c) = {}
  PROVE  /\ R!Left(r, first + c) = R!Left(r, first)
         /\ R!Writers(r, first + c) = R!Writers(r, first)
<1>1. R!Writers(r, first + c) = R!Writers(r, first) \cup {first + i : i \in Forwarded(r, first, c)}
  BY WritersSplit
<1>2. R!Writers(r, first + c) = R!Writers(r, first)
  BY <1>1
<1> QED
  BY <1>2 DEF R!Left

(* What channel c is compared with is what the program left before its     *)
(* packet, and it is compared when that is known.                          *)
LEMMA RegCompared ==
  ASSUME RegInv, NEW k \in 0 .. NRET, k <= cursor, Came(NRET, cursor - k, k), RegShadow(cursor - k),
         NEW c \in R!Channels, stream[c] # R!Idle, NEW p \in R!Ports
  PROVE  R!Differs(c, p) <=> R!WrongRead(stream[c], p)
<1> DEFINE first == cursor - k
           n == first + c
           r == prog[n].addr[p]
<1>1. /\ cursor \in Nat /\ k \in Nat /\ NRET \in Nat /\ N \in Nat /\ cursor <= N
      /\ first \in Nat /\ c \in 0 .. NRET - 1 /\ c \in Nat
  BY NRETAssumption, NAssumption DEF RegInv, StreamInv, R!Channels
<1>2. stream[c] = n /\ c < k /\ n \in 0 .. N - 1
  BY <1>1 DEF Came, R!Idle
<1>3. r \in MonitorRegs /\ prog[n].right[p] \in BOOLEAN
  BY <1>2 DEF RegInv, R!Packet
<1>4. R!Forwarding(c, p) = Forwarded(r, first, c)
  <2>1. \A i \in 0 .. c - 1 : stream[i] = first + i /\ stream[i] # R!Idle
    BY <1>1, <1>2 DEF Came, R!Idle
  <2> QED
    BY <1>2, <2>1 DEF R!Forwarding, Forwarded
<1>5. R!rdata(n, p) = IF prog[n].right[p] THEN R!Left(r, n) ELSE N + 1
  BY DEF R!rdata, R!Wrong
<1> HIDE DEF first, n, r
<1>6. CASE Forwarded(r, first, c) # {}
  <2> DEFINE i == R!Last(Forwarded(r, first, c))
  <2>1. R!Left(r, n) = R!rd_wdata(first + i) /\ R!Writers(r, n) # {} /\ i \in 0 .. c - 1
    BY <1>1, <1>3, <1>6, LeftForwarded DEF n
  <2> HIDE DEF i
  <2>2. stream[i] = first + i
    BY <1>1, <1>2, <2>1 DEF Came, first
  <2>3. R!Differs(c, p) <=> R!rd_wdata(first + i) # R!rdata(n, p)
    BY <1>2, <1>4, <1>6, <2>2 DEF R!Differs, r, i
  <2>4. R!rd_wdata(first + i) # N + 1
    BY <1>1, <1>2, <2>1 DEF R!rd_wdata, n
  <2> QED
    BY <1>2, <1>3, <1>5, <2>1, <2>3, <2>4 DEF R!WrongRead, r
<1>7. CASE Forwarded(r, first, c) = {}
  <2>1. R!Left(r, n) = R!Left(r, first) /\ R!Writers(r, n) = R!Writers(r, first)
    BY <1>1, <1>3, <1>7, LeftBefore DEF n
  <2>2. /\ shadow_xregs[r] = R!Left(r, first) /\ shadow_xregs[r] \in 0 .. N
        /\ r \in shadow_xregs_valid <=> r = 0 \/ R!Writers(r, first) # {}
    BY <1>3 DEF RegShadow, RegInv, first
  <2>3. R!Differs(c, p) <=> r \in shadow_xregs_valid /\ shadow_xregs[r] # R!rdata(n, p)
    BY <1>2, <1>4, <1>7 DEF R!Differs, r
  <2>4. shadow_xregs[r] # N + 1
    BY <1>1, <2>2
  <2> QED
    BY <1>2, <1>3, <1>5, <2>1, <2>2, <2>3, <2>4 DEF R!WrongRead, r
<1> QED
  BY <1>6, <1>7

(* Each error names the port of a wrong read.                              *)
LEMMA RegErrors ==
  ASSUME RegInv, R!Next
  PROVE  R!RegExact'
<1>1. PICK k \in 0 .. NRET : k <= cursor /\ Came(NRET, cursor - k, k) /\ RegShadow(cursor - k)
  BY DEF RegInv
<1>2. errcode_r' = [c \in R!Channels |-> R!Errcode(c)] /\ was' = stream /\ prog' = prog
  BY DEF R!Next
<1>3. ASSUME NEW c \in R!Channels, stream[c] # R!Idle
      PROVE  R!Errcode(c) = IF R!WrongRead(stream[c], "rs2") THEN R!MismatchRs2(c)
                            ELSE IF R!WrongRead(stream[c], "rs1") THEN R!MismatchRs1(c)
                            ELSE 0
  <2>1. /\ R!Differs(c, "rs1") <=> R!WrongRead(stream[c], "rs1")
        /\ R!Differs(c, "rs2") <=> R!WrongRead(stream[c], "rs2")
    BY <1>1, <1>3, RegCompared DEF R!Ports
  <2> QED
    BY <1>3, <2>1 DEF R!Errcode
<1>4. \A n, p : R!WrongRead(n, p)' <=> R!WrongRead(n, p)
  BY <1>2 DEF R!WrongRead, R!Writers
<1> QED
  BY <1>2, <1>3, <1>4 DEF R!RegExact, R!MismatchRs1, R!MismatchRs2

(* The shadow register file takes what the cycle writes.                   *)
LEMMA RegKeep ==
  ASSUME RegInv, R!Next, NEW k \in 0 .. NRET, k <= cursor, Came(NRET, cursor - k, k),
         RegShadow(cursor - k), NEW r \in MonitorRegs
  PROVE  /\ shadow_xregs'[r] = R!Left(r, cursor) /\ shadow_xregs'[r] \in 0 .. N
         /\ r \in shadow_xregs_valid' <=> r = 0 \/ R!Writers(r, cursor) # {}
<1> DEFINE first == cursor - k
           top == R!Last(Forwarded(r, first, k))
<1>1. /\ cursor \in Nat /\ k \in Nat /\ NRET \in Nat /\ N \in Nat /\ cursor <= N
      /\ first \in Nat /\ first + k = cursor
  BY NRETAssumption, NAssumption DEF RegInv, StreamInv
<1>2. R!Writing(r) = Forwarded(r, first, k)
  <2>1. \A c \in R!Channels : stream[c] # R!Idle <=> c < k
    BY <1>1 DEF Came, R!Idle, R!Channels
  <2>2. \A c \in 0 .. k - 1 : c \in R!Channels /\ c < k /\ stream[c] = first + c
    BY <1>1 DEF Came, R!Channels
  <2>3. \A c \in R!Channels : c < k => c \in 0 .. k - 1
    BY <1>1 DEF R!Channels
  <2> QED
    BY <2>1, <2>2, <2>3 DEF R!Writing, Forwarded
<1>3. /\ shadow_xregs'[r] = IF R!Writing(r) = {} THEN shadow_xregs[r]
                            ELSE R!Written(stream[R!Last(R!Writing(r))])
      /\ r \in shadow_xregs_valid' <=> r \in shadow_xregs_valid \/ R!Writing(r) # {}
  BY DEF R!Next
<1>4. /\ shadow_xregs[r] = R!Left(r, first) /\ shadow_xregs[r] \in 0 .. N
      /\ r \in shadow_xregs_valid <=> r = 0 \/ R!Writers(r, first) # {}
  BY DEF RegShadow, RegInv
<1> HIDE DEF first, top
<1>5. CASE Forwarded(r, first, k) = {}
  <2>1. R!Left(r, cursor) = R!Left(r, first) /\ R!Writers(r, cursor) = R!Writers(r, first)
    BY <1>1, <1>5, LeftBefore
  <2> QED
    BY <1>2, <1>3, <1>4, <1>5, <2>1
<1>6. CASE Forwarded(r, first, k) # {}
  <2>1. R!Left(r, cursor) = R!rd_wdata(first + top) /\ R!Writers(r, cursor) # {} /\ top \in 0 .. k - 1
    BY <1>1, <1>6, LeftForwarded DEF top
  <2>2. stream[top] = first + top
    BY <1>1, <2>1 DEF Came, first
  <2>3. R!rd_wdata(first + top) \in 0 .. N
    BY <1>1, <2>1 DEF R!rd_wdata
  <2> QED
    BY <1>2, <1>3, <1>6, <2>1, <2>2, <2>3 DEF R!Written, top
<1> QED
  BY <1>5, <1>6

LEMMA RegStep ==
  ASSUME RegInv, R!Next
  PROVE  RegInv' /\ R!TypeOK'
<1>1. PICK k \in 0 .. NRET : k <= cursor /\ Came(NRET, cursor - k, k) /\ RegShadow(cursor - k)
  BY DEF RegInv
<1>2. PICK j \in 0 .. NRET : StreamStep(NRET, j)
  BY StreamSteps DEF R!Next
<1>3. StreamInv' /\ j <= cursor' /\ cursor = cursor' - j /\ Came(NRET, cursor - j, j)'
  BY <1>2, StreamStepInv, NRETAssumption DEF RegInv
<1>4. prog' = prog /\ errcode_r' = [c \in R!Channels |-> R!Errcode(c)]
  BY DEF R!Next
<1>5. \A r \in MonitorRegs :
        /\ shadow_xregs'[r] = R!Left(r, cursor) /\ shadow_xregs'[r] \in 0 .. N
        /\ r \in shadow_xregs_valid' <=> r = 0 \/ R!Writers(r, cursor) # {}
  BY <1>1, RegKeep
<1>6. RegShadow(cursor - j)'
  BY <1>3, <1>4, <1>5 DEF RegShadow, R!Left, R!Writers, R!rd_wdata
<1>7. shadow_xregs_valid' \subseteq MonitorRegs /\ shadow_xregs' \in [MonitorRegs -> 0 .. N]
  BY <1>5 DEF R!Next, RegInv
<1>8. RegInv'
  BY <1>3, <1>4, <1>6, <1>7 DEF RegInv, R!Packet
<1>9. \A c \in R!Channels : R!Errcode(c) \in {0, R!MismatchRs1(c), R!MismatchRs2(c)}
  BY DEF R!Errcode
<1>10. \A c \in R!Channels : errcode_r'[c] \in {0, R!MismatchRs1(c), R!MismatchRs2(c)}
  BY <1>4, <1>9
<1>11. R!TypeOK'
  BY <1>8, <1>10 DEF R!TypeOK, RegInv, R!Packet, R!Orders, R!MismatchRs1, R!MismatchRs2, R!Channels
<1> QED
  BY <1>8, <1>11

LEMMA RegInit ==
  ASSUME R!Init
  PROVE  RegInv /\ R!RegExact /\ R!TypeOK
<1>1. StreamInv /\ cursor = 0
  BY NAssumption DEF R!Init, R!StreamInit, StreamInv
<1>2. Came(NRET, 0, 0) /\ 0 \in 0 .. NRET
  BY NRETAssumption DEF R!Init, R!StreamInit, Came, R!Channels, R!Idle
<1>3. /\ prog \in [0 .. N - 1 -> R!Packet]
      /\ shadow_xregs_valid \subseteq MonitorRegs /\ shadow_xregs \in [MonitorRegs -> 0 .. N]
  BY MonitorAssumption, NAssumption DEF R!Init, R!Orders
<1>4. \A r : R!Writers(r, 0) = {}
  BY DEF R!Writers
<1>5. RegShadow(0)
  BY <1>4 DEF R!Init, RegShadow, R!Left
<1>6. RegInv
  BY <1>1, <1>2, <1>3, <1>5 DEF RegInv
<1>7. R!RegExact
  BY DEF R!Init, R!RegExact
<1>8. \A c \in R!Channels : errcode_r[c] \in {0, R!MismatchRs1(c), R!MismatchRs2(c)}
  BY DEF R!Init
<1>9. R!TypeOK
  BY <1>3, <1>8 DEF R!TypeOK, R!Orders
<1> QED
  BY <1>6, <1>7, <1>9
-----------------------------------------------------------------------------
(* The reorder buffer, with a core whose window is the whole program.      *)
RobProofs == INSTANCE MonitorRobProofs WITH N <- ROB_N, WINDOW <- ROB_N, out <- stream

LEMMA RobInit == Rob!Init => RobProofs!Init
  BY DEF Rob!Init, RobProofs!Init, Rob!Slots, RobProofs!Slots, Rob!Channels,
         RobProofs!Channels, Rob!Idle, RobProofs!Idle

LEMMA RobNext == Rob!Next => RobProofs!Next
<1>1. \A ch, s : Rob!Stored(ch, s) = RobProofs!Stored(ch, s)
  BY DEF Rob!Stored, RobProofs!Stored, Rob!Storing, RobProofs!Storing, Rob!Channels,
         RobProofs!Channels, Rob!Idle, RobProofs!Idle, Rob!Slot, RobProofs!Slot
<1>2. \A ch : Rob!Orders_of(ch) = RobProofs!Orders_of(ch) /\ Rob!Pushed(ch) = RobProofs!Pushed(ch)
  BY DEF Rob!Orders_of, RobProofs!Orders_of, Rob!Pushed, RobProofs!Pushed, Rob!Channels,
         RobProofs!Channels, Rob!Idle, RobProofs!Idle, Rob!Slot, RobProofs!Slot
<1>3. \A k : Rob!Popped(k) = RobProofs!Popped(k) /\ (Rob!Leaving(k) <=> RobProofs!Leaving(k))
  BY DEF Rob!Popped, RobProofs!Popped, Rob!Leaving, RobProofs!Leaving, Rob!Slot, RobProofs!Slot
<1>4. Rob!InWindow = RobProofs!InWindow
  BY DEF Rob!InWindow, RobProofs!InWindow, Rob!Orders, RobProofs!Orders
<1>5. \A ch, k : Rob!Errcode(ch, k) = RobProofs!Errcode(ch, k)
  BY <1>2 DEF Rob!Errcode, RobProofs!Errcode, Rob!Slot, RobProofs!Slot, Rob!Overflow,
         RobProofs!Overflow, Rob!Disorder, RobProofs!Disorder
<1>6. ASSUME NEW ch, NEW k, Rob!Clock(ch, k) PROVE RobProofs!Clock(ch, k)
  BY <1>1, <1>2, <1>3, <1>4, <1>5, <1>6 DEF Rob!Clock, RobProofs!Clock, Rob!Channels,
     RobProofs!Channels, Rob!Idle, RobProofs!Idle, Rob!Slot, RobProofs!Slot, Rob!Slots,
     RobProofs!Slots
<1> QED
  BY <1>4, <1>6 DEF Rob!Next, RobProofs!Next, Rob!Channels, RobProofs!Channels, Rob!Idle,
     RobProofs!Idle

LEMMA RobTyped == RobProofs!TypeOK => Rob!TypeOK
  BY DEF Rob!TypeOK, RobProofs!TypeOK, Rob!Orders, RobProofs!Orders, Rob!Slots,
         RobProofs!Slots, Rob!Cycle, RobProofs!Cycle, Rob!Channels, RobProofs!Channels,
         Rob!Idle, RobProofs!Idle, Rob!Overflow, RobProofs!Overflow, Rob!Disorder,
         RobProofs!Disorder

LEMMA RobSound == RobProofs!Sound => Rob!Sound
<1>1. RobProofs!InOrder!Clock => Rob!InOrder!Clock
  BY DEF Rob!InOrder!Clock, RobProofs!InOrder!Clock, Rob!InOrder!RetireSet,
         RobProofs!InOrder!RetireSet, Rob!InOrder!Deliver, RobProofs!InOrder!Deliver,
         Rob!InOrder!Orders, RobProofs!InOrder!Orders, Rob!InOrder!Channels,
         RobProofs!InOrder!Channels, Rob!InOrder!Idle, RobProofs!InOrder!Idle
<1>2. \A o : Rob!Lost(o) <=> RobProofs!Lost(o)
  BY DEF Rob!Lost, RobProofs!Lost, Rob!Slot, RobProofs!Slot
<1>3. \A o : Rob!Lost(o)' <=> RobProofs!Lost(o)'
  BY DEF Rob!Lost, RobProofs!Lost, Rob!Slot, RobProofs!Slot
<1> QED
  BY <1>1, <1>2, <1>3 DEF Rob!Sound, RobProofs!Sound, Rob!Orders, RobProofs!Orders
-----------------------------------------------------------------------------
(* One part runs at a time, and only its own steps change it.              *)
LEMMA PartNext ==
  [MonitorNext]_monitorVars =>
    /\ monitor' = monitor
    /\ monitor = "pc"        => Pc!Next \/ UNCHANGED monitorVars
    /\ monitor = "pc_narrow" => PcNarrow!Next \/ UNCHANGED monitorVars
    /\ monitor = "regs"      => R!Next \/ UNCHANGED monitorVars
    /\ monitor = "rob"       => Rob!Next \/ UNCHANGED monitorVars
  BY DEF MonitorNext, monitorVars

LEMMA PartInit ==
  MonitorInit \/ MonitorOff =>
    /\ monitor = "pc"        => Pc!Init
    /\ monitor = "pc_narrow" => PcNarrow!Init
    /\ monitor = "regs"      => R!Init
    /\ monitor = "rob"       => Rob!Init
  BY DEF MonitorInit, MonitorOff

(* The invariant of each part, with the properties it gives.               *)
PcPart     == monitor = "pc" => PcInv(NRET) /\ Pc!NoFalseAlarm /\ Pc!TypeOK
NarrowPart == monitor = "pc_narrow" => PcInv(1) /\ PcNarrow!PcExact /\ PcNarrow!TypeOK
RegPart    == monitor = "regs" => RegInv /\ R!RegExact /\ R!TypeOK
RobPart    == monitor = "rob" => RobProofs!TypeOK /\ RobProofs!Holds

LEMMA PcPartStep == PcPart /\ [MonitorNext]_monitorVars => PcPart'
<1>1. PcInv(NRET) /\ Pc!NoFalseAlarm /\ Pc!TypeOK /\ UNCHANGED monitorVars
        => (PcInv(NRET) /\ Pc!NoFalseAlarm /\ Pc!TypeOK)'
  BY DEF monitorVars, pcVars, PcInv, StreamInv, Came, PcShadow, Pc!NoFalseAlarm, Pc!Checked,
         Pc!Jumps, Pc!TypeOK, Pc!Mismatch, Pc!ExpectedIntr, PcPackets, Pc!Orders, Pc!Packet
<1> QED
  BY <1>1, PartNext, PcStep, PcErrors DEF PcPart

LEMMA NarrowPartStep == NarrowPart /\ [MonitorNext]_monitorVars => NarrowPart'
<1>1. PcInv(1) /\ PcNarrow!PcExact /\ PcNarrow!TypeOK /\ UNCHANGED monitorVars
        => (PcInv(1) /\ PcNarrow!PcExact /\ PcNarrow!TypeOK)'
  BY DEF monitorVars, pcVars, PcInv, StreamInv, Came, PcShadow, PcNarrow!PcExact,
         PcNarrow!Checked, PcNarrow!Jumps, PcNarrow!TypeOK, PcNarrow!Mismatch,
         PcNarrow!ExpectedIntr, PcPackets, PcNarrow!Orders, PcNarrow!Packet
<1> QED
  BY <1>1, PartNext, NarrowStep DEF NarrowPart

LEMMA RegPartStep == RegPart /\ [MonitorNext]_monitorVars => RegPart'
<1>1. ASSUME UNCHANGED monitorVars, RegInv PROVE RegInv'
  <2>1. \A first : RegShadow(first) => RegShadow(first)'
    BY <1>1 DEF monitorVars, regVars, RegShadow, R!Left, R!Writers, R!rd_wdata
  <2>2. \A first, k : Came(NRET, first, k) => Came(NRET, first, k)'
    BY <1>1 DEF monitorVars, Came
  <2>3. UNCHANGED <<cursor, retired, prog, shadow_xregs_valid, shadow_xregs>>
    BY <1>1 DEF monitorVars, regVars
  <2> QED
    BY <1>1, <2>1, <2>2, <2>3 DEF RegInv, StreamInv, R!Packet
<1>2. UNCHANGED monitorVars => (R!RegExact => R!RegExact') /\ (R!TypeOK => R!TypeOK')
  BY DEF monitorVars, regVars, R!RegExact, R!WrongRead, R!Writers, R!MismatchRs1,
         R!MismatchRs2, R!TypeOK, R!Orders, R!Packet
<1> QED
  BY <1>1, <1>2, PartNext, RegStep, RegErrors DEF RegPart

LEMMA RobPartStep == RobPart /\ [MonitorNext]_monitorVars => RobPart'
<1>1. RobProofs!TypeOK /\ RobProofs!Holds /\ [RobProofs!Next]_(RobProofs!vars)
        => (RobProofs!TypeOK /\ RobProofs!Holds)'
  BY RobProofs!TypeNext, NRETAssumption, MonitorAssumption
<1>2. UNCHANGED monitorVars => UNCHANGED RobProofs!vars
  BY DEF monitorVars, robVars, RobProofs!vars
<1> QED
  BY <1>1, <1>2, PartNext, RobNext DEF RobPart

LEMMA PartsInit == MonitorInit \/ MonitorOff => PcPart /\ NarrowPart /\ RegPart /\ RobPart
<1>1. RobProofs!Init => RobProofs!TypeOK /\ RobProofs!Holds
  BY RobProofs!TypeInit, NRETAssumption, MonitorAssumption
<1> QED
  BY <1>1, PartInit, PcInit, NarrowInit, RegInit, RobInit DEF PcPart, NarrowPart, RegPart, RobPart

MonitorInv == PcPart /\ NarrowPart /\ RegPart /\ RobPart

LEMMA MonitorInvStep == MonitorInv /\ [MonitorNext]_monitorVars => MonitorInv'
  BY PcPartStep, NarrowPartStep, RegPartStep, RobPartStep DEF MonitorInv

(* For every number of channels, program and order of retirement: the      *)
(* program counter check with one channel reports exactly the jumps after  *)
(* a packet that did not trap, with more no packet that goes on where the  *)
(* one before it ended, and the register check exactly the wrong reads.    *)
THEOREM MonitorReportsExactly == MonitorSpec => []MonitorExact
<1>1. MonitorInit \/ MonitorOff => MonitorInv
  BY PartsInit DEF MonitorInv
<1>2. MonitorInv => MonitorExact
  BY DEF MonitorInv, PcPart, NarrowPart, RegPart, MonitorExact
<1> QED
  BY <1>1, <1>2, MonitorInvStep, PTL DEF MonitorSpec

(* The registers of the monitor have their types.                          *)
THEOREM MonitorTypes == MonitorSpec => []MonitorTyped
<1>1. MonitorInit \/ MonitorOff => MonitorInv
  BY PartsInit DEF MonitorInv
<1>2. MonitorInv => MonitorTyped
  BY RobTyped DEF MonitorInv, PcPart, NarrowPart, RegPart, RobPart, MonitorTyped
<1> QED
  BY <1>1, <1>2, MonitorInvStep, PTL DEF MonitorSpec

(* A reorder buffer of any depth that has reported nothing has shown the   *)
(* program from its start, in order and without a gap, and shows nothing   *)
(* from an order on that it lost, however the core reorders.               *)
THEOREM MonitorSoundAlways == MonitorSpec => MonitorSound
<1>1. MonitorInit \/ MonitorOff => MonitorInv
  BY PartsInit DEF MonitorInv
<1>2. MonitorInv /\ [MonitorNext]_monitorVars => [monitor = "rob" /\ ~reported' => Rob!Sound]_monitorVars
  <2>1. ASSUME RobProofs!TypeOK, RobProofs!Holds, RobProofs!Next, ~reported' PROVE Rob!Sound
    <3>1. PICK ch \in RobProofs!Cycle, k \in 0 .. NRET : RobProofs!Clock(ch, k)
      BY <2>1 DEF RobProofs!Next, RobProofs!Cycle, RobProofs!InWindow
    <3>2. errcode' = 0
      BY <2>1, <3>1 DEF RobProofs!Clock
    <3>3. RobProofs!Sound
      BY <2>1, <3>1, <3>2, RobProofs!SoundStep, NRETAssumption, MonitorAssumption
    <3> QED
      BY <3>3, RobSound
  <2> QED
    BY <2>1, PartNext, RobNext DEF MonitorInv, RobPart
<1> QED
  BY <1>1, <1>2, MonitorInvStep, PTL DEF MonitorSpec, MonitorSound
-----------------------------------------------------------------------------
(* A remainder is found by adding or taking away the modulus once.         *)
LEMMA Remainder ==
  ASSUME NEW q \in Nat \ {0}, NEW a \in 0 .. q - 1
  PROVE  a % q = a /\ (a + q) % q = a /\ (a - q) % q = a
  OBVIOUS

(* Going i on from m and back, modulo q.                                   *)
LEMMA Around ==
  ASSUME NEW q \in Nat \ {0}, NEW m \in 0 .. q - 1, NEW i \in 0 .. q - 1
  PROVE  (((m + i) % q) - m) % q = i
<1>1. CASE m + i < q
  <2>1. (m + i) % q = m + i
    BY <1>1, Remainder
  <2> QED
    BY <2>1, Remainder
<1>2. CASE m + i >= q
  <2>1. m + i - q \in 0 .. q - 1 /\ m + i = (m + i - q) + q
    BY <1>2
  <2>2. (m + i) % q = m + i - q
    BY <2>1, Remainder
  <2>3. ((m + i) % q) - m = i - q
    BY <2>2
  <2> QED
    BY <2>3, Remainder
<1> QED
  BY <1>1, <1>2

(* The lanes of a register are bytes of it, and there are fewer of them    *)
(* than addresses.                                                         *)
LEMMA LaneWidths ==
  ASSUME NEW k, NEW s, Drivable(k, s)
  PROVE  /\ 2^X \in Nat \ {0} /\ s.lanes \in 1 .. 2^X
         /\ 2^(s.y) \in Nat /\ 2^(s.y) > 1
         /\ \A i \in 0 .. s.lanes - 1 : s.y * i \in 0 .. X
<1>1. s.lanes \in {4, 8} /\ s.y \in Nat \ {0} /\ s.lanes * s.y = X
  BY DEF Drivable
<1>2. X \in Nat /\ s.lanes <= X /\ s.y <= X
  BY <1>1
<1>3. \A i \in 0 .. s.lanes - 1 : s.y * i \in 0 .. X
  <2>1. CASE s.lanes = 4
    BY <1>1, <2>1
  <2>2. CASE s.lanes = 8
    BY <1>1, <2>2
  <2> QED
    BY <1>1, <2>1, <2>2
<1>4. 2^X \in Nat /\ 2^X > X /\ 2^(s.y) \in Nat /\ 2^(s.y) > s.y
  BY <1>1, <1>2, PowerAssumption
<1> QED
  BY <1>1, <1>2, <1>3, <1>4

(* The lane an address is in.                                              *)
LEMMA LaneOf ==
  ASSUME NEW k, NEW s, Drivable(k, s), NEW x \in {k, s}, NEW i \in 0 .. s.lanes - 1
  PROVE  Low(Low(x.mem_addr + i, X) - x.mem_addr, X) = i
<1>1. 2^X \in Nat \ {0} /\ s.lanes \in 1 .. 2^X
  BY LaneWidths
<1>2. x.mem_addr \in 0 .. 2^X - 1 /\ i \in 0 .. 2^X - 1
  BY <1>1 DEF Drivable
<1> QED
  BY <1>1, <1>2, Around DEF Low

(* A lane of a word is a value of its width.                               *)
LEMMA LaneValue ==
  ASSUME NEW k, NEW s, Drivable(k, s), NEW v \in Nat, NEW i \in 0 .. s.lanes - 1
  PROVE  Part(v, s.y * i, s.y) \in 0 .. 2^(s.y) - 1
<1>1. s.y * i \in 0 .. X /\ 2^(s.y) \in Nat \ {0}
  BY LaneWidths
<1> DEFINE p == 2^(s.y * i)
           q == 2^(s.y)
<1>2. p \in Nat /\ p > 0
  BY <1>1, PowerAssumption
<1> HIDE DEF p
<1>3. v \div p \in Nat
  BY <1>2
<1>4. \A u \in Nat : u % q \in 0 .. q - 1
  BY <1>1
<1> QED
  BY <1>3, <1>4 DEF Part, Low, p

(* Which lanes an address is of: no two have the same one.                 *)
LEMMA InBytes ==
  ASSUME NEW k, NEW s, Drivable(k, s), NEW x \in {k, s}, NEW mask \in SUBSET (0 .. s.lanes - 1),
         NEW i \in 0 .. s.lanes - 1
  PROVE  Low(x.mem_addr + i, X) \in Bytes(x, s, mask) <=> i \in mask
<1>1. ASSUME NEW j \in mask, Low(x.mem_addr + i, X) = Low(x.mem_addr + j, X) PROVE i = j
  BY <1>1, LaneOf
<1> QED
  BY <1>1 DEF Bytes

(* What the packet leaves in lane i, and what it has seen there.           *)
LEMMA LaneEffect ==
  ASSUME NEW k, NEW s, Drivable(k, s), NEW x \in {k, s}, NEW i \in 0 .. s.lanes - 1, NEW v
  PROVE  LET a == Low(x.mem_addr + i, X)
         IN  /\ After(x, s, a, v) = IF i \in x.wmask THEN Part(x.mem_wdata, s.y * i, s.y) ELSE v
             /\ Saw(x, s, a, v) <=> (i \in x.rmask => v = Part(x.mem_rdata, s.y * i, s.y))
<1> DEFINE a == Low(x.mem_addr + i, X)
<1>1. Low(a - x.mem_addr, X) = i
  BY LaneOf
<1>2. x.wmask \in SUBSET (0 .. s.lanes - 1) /\ x.rmask \in SUBSET (0 .. s.lanes - 1)
  BY DEF Drivable
<1>3. (a \in Bytes(x, s, x.wmask) <=> i \in x.wmask) /\ (a \in Bytes(x, s, x.rmask) <=> i \in x.rmask)
  BY <1>2, InBytes
<1> HIDE DEF a
<1>4. /\ After(x, s, a, v) = IF i \in x.wmask THEN Part(x.mem_wdata, s.y * i, s.y) ELSE v
      /\ Saw(x, s, a, v) <=> (i \in x.rmask => v = Part(x.mem_rdata, s.y * i, s.y))
  BY <1>1, <1>3 DEF After, Saw
<1> QED
  BY <1>4 DEF a

(* The assertions on the lanes say that the two leave the same memory, if  *)
(* they place it alike.                                                    *)
LEMMA SameLanes ==
  ASSUME NEW k, NEW s, Drivable(k, s),
         s.rmask \cup s.wmask # {} => k.mem_addr = s.mem_addr
  PROVE  MemAsserts(k, s) <=>
           SameMemory(k, s) /\ s.wmask \subseteq k.wmask /\ s.rmask \subseteq k.rmask
<1> DEFINE L == 0 .. s.lanes - 1
           At(i) == Low(k.mem_addr + i, X)
           Read(i) == Part(k.mem_rdata, s.y * i, s.y)
           Put(x, i) == Part(x.mem_wdata, s.y * i, s.y)
           V == 0 .. 2^(s.y) - 1
<1>1. /\ k.wmask \subseteq L /\ k.rmask \subseteq L /\ s.wmask \subseteq L /\ s.rmask \subseteq L
      /\ k.mem_rdata \in Nat /\ k.mem_wdata \in Nat
  BY DEF Drivable
<1>2. \A i \in L : Read(i) \in V /\ Put(k, i) \in V
  BY <1>1, LaneValue
<1>3. 0 \in V /\ 1 \in V /\ 0 # 1
  BY LaneWidths
<1>4. \A i \in L, v \in V :
        /\ After(k, s, At(i), v) = IF i \in k.wmask THEN Put(k, i) ELSE v
        /\ Saw(k, s, At(i), v) <=> (i \in k.rmask => v = Read(i))
  <2>1. ASSUME NEW i \in L, NEW v \in V
        PROVE  /\ After(k, s, At(i), v) = IF i \in k.wmask THEN Put(k, i) ELSE v
               /\ Saw(k, s, At(i), v) <=> (i \in k.rmask => v = Read(i))
    <3>1. k \in {k, s}
      OBVIOUS
    <3>2. LET a == Low(k.mem_addr + i, X)
          IN  /\ After(k, s, a, v) = IF i \in k.wmask THEN Part(k.mem_wdata, s.y * i, s.y) ELSE v
              /\ Saw(k, s, a, v) <=> (i \in k.rmask => v = Part(k.mem_rdata, s.y * i, s.y))
      BY <3>1, LaneEffect, Zenon
    <3> QED
      BY <3>2
  <2> HIDE DEF At, Read, Put, L, V
  <2> QED
    BY <2>1
<1>5. \A i \in L, v \in V : After(s, s, At(i), v) = IF i \in s.wmask THEN Put(s, i) ELSE v
  <2>1. CASE s.wmask = {}
    BY <2>1 DEF After, Bytes
  <2>2. CASE s.wmask # {}
    <3>1. k.mem_addr = s.mem_addr
      BY <2>2
    <3>2. ASSUME NEW i \in L, NEW v \in V
          PROVE  After(s, s, At(i), v) = IF i \in s.wmask THEN Put(s, i) ELSE v
      <4>1. s \in {k, s}
        OBVIOUS
      <4>2. LET a == Low(s.mem_addr + i, X)
            IN  /\ After(s, s, a, v) = IF i \in s.wmask THEN Part(s.mem_wdata, s.y * i, s.y) ELSE v
                /\ Saw(s, s, a, v) <=> (i \in s.rmask => v = Part(s.mem_rdata, s.y * i, s.y))
        BY <4>1, LaneEffect, Zenon
      <4> QED
        BY <3>1, <4>2
    <3> HIDE DEF L, At, Put, V
    <3> QED
      BY <3>2
  <2> QED
    BY <2>1, <2>2
<1>6. Bytes(k, s, k.wmask) \cup Bytes(s, s, s.wmask) = {At(i) : i \in k.wmask \cup s.wmask}
  <2>1. CASE s.wmask = {}
    BY <2>1 DEF Bytes
  <2>2. CASE s.wmask # {}
    <3>1. k.mem_addr = s.mem_addr
      BY <2>2
    <3> QED
      BY <3>1 DEF Bytes
  <2> QED
    BY <2>1, <2>2
<1> DEFINE Same(i) ==
             \A v \in V : (i \in k.rmask => v = Read(i)) =>
               (IF i \in k.wmask THEN Put(k, i) ELSE v) = (IF i \in s.wmask THEN Put(s, i) ELSE v)
<1>7. SameMemory(k, s) <=> \A i \in k.wmask \cup s.wmask : Same(i)
  <2>1. \A i \in k.wmask \cup s.wmask :
          (\A v \in V : Saw(k, s, At(i), v) => After(k, s, At(i), v) = After(s, s, At(i), v))
            <=> Same(i)
    <3>1. ASSUME NEW i \in k.wmask \cup s.wmask
          PROVE  (\A v \in V : Saw(k, s, At(i), v) => After(k, s, At(i), v) = After(s, s, At(i), v))
                   <=> Same(i)
      <4>1. i \in L
        BY <1>1
      <4>2. \A v \in V :
               /\ After(k, s, At(i), v) = IF i \in k.wmask THEN Put(k, i) ELSE v
               /\ Saw(k, s, At(i), v) <=> (i \in k.rmask => v = Read(i))
               /\ After(s, s, At(i), v) = IF i \in s.wmask THEN Put(s, i) ELSE v
        BY <1>4, <1>5, <4>1
      <4> HIDE DEF At, Put, Read, V, L
      <4> QED
        BY <4>2
    <3> HIDE DEF At, Same, V
    <3> QED
      BY <3>1
  <2> HIDE DEF At, Same, V
  <2>2. SameMemory(k, s) <=>
          \A a \in {At(i) : i \in k.wmask \cup s.wmask}, v \in V :
            Saw(k, s, a, v) => After(k, s, a, v) = After(s, s, a, v)
    BY <1>6, Zenon DEF SameMemory, V
  <2> QED
    BY <2>1, <2>2
<1>8. MemAsserts(k, s) <=>
        \A i \in L : /\ i \in s.wmask => i \in k.wmask /\ Put(s, i) = Put(k, i)
                     /\ i \in k.wmask \ s.wmask => i \in k.rmask /\ Read(i) = Put(k, i)
                     /\ i \in s.rmask => i \in k.rmask
  BY DEF MemAsserts
<1>9. ASSUME NEW i \in L, i \in k.wmask \ s.wmask, Same(i)
      PROVE  i \in k.rmask /\ Read(i) = Put(k, i)
  <2>1. \A v \in V : (i \in k.rmask => v = Read(i)) => Put(k, i) = v
    BY <1>9
  <2> HIDE DEF V, Read, Put
  <2> QED
    BY <1>2, <1>3, <2>1
<1>10. ASSUME NEW i \in L, i \in k.wmask, i \in s.wmask, Same(i)
       PROVE  Put(s, i) = Put(k, i)
  <2>1. \A v \in V : (i \in k.rmask => v = Read(i)) => Put(k, i) = Put(s, i)
    BY <1>10
  <2> HIDE DEF V, Read, Put
  <2> QED
    BY <1>2, <1>3, <2>1
<1>11. ASSUME NEW i \in L, i \in s.wmask => i \in k.wmask /\ Put(s, i) = Put(k, i),
              i \in k.wmask \ s.wmask => i \in k.rmask /\ Read(i) = Put(k, i),
              i \in k.wmask \cup s.wmask
       PROVE  Same(i)
  <2> HIDE DEF V, Read, Put
  <2> QED
    BY <1>11
<1> HIDE DEF L, Read, Put, V, Same, At
<1> QED
  BY <1>1, <1>7, <1>8, <1>9, <1>10, <1>11

(* A packet that is not refused passes exactly if it has the effect of the *)
(* instruction, in place.                                                  *)
LEMMA PassesExactly ==
  ASSUME NEW k, NEW s, NEW e, Drivable(k, s), ~Refused(k, s, e)
  PROVE  /\ Passes(k, s, e) => Fine(k, s, e) /\ Reported(k, s)
         /\ Fine(k, s, e) /\ Reported(k, s) /\ (s.trap \/ InPlace(k, s)) => Passes(k, s, e)
<1>1. Passes(k, s, e) <=> InsnAsserts(k, s, e)
  BY DEF Passes
<1>2. s.rmask \cup s.wmask # {} => rvformal_addr_valid(e, s.mem_addr)
  BY DEF Refused, mem_access_fault
<1>3. k.trap \in BOOLEAN /\ s.trap \in BOOLEAN
  BY DEF Drivable
<1>4. CASE s.trap
  BY <1>1, <1>3, <1>4 DEF InsnAsserts, Fine, Reported
<1>5. CASE ~s.trap
  <2>1. rvformal_addr_eq(e, s.pc_wdata, k.pc_wdata) <=>
          {s.pc_wdata, k.pc_wdata} \subseteq e.invalid \/ s.pc_wdata = k.pc_wdata
    BY DEF rvformal_addr_eq, rvformal_addr_valid
  <2> DEFINE Placed == s.rmask \cup s.wmask # {} => k.mem_addr = s.mem_addr
  <2>2. (s.wmask \cup s.rmask # {} => rvformal_addr_eq(e, s.mem_addr, k.mem_addr)) <=> Placed
    BY <1>2 DEF rvformal_addr_eq
  <2>3. Placed => (Bytes(s, s, s.rmask) \subseteq Bytes(k, s, k.rmask) <=> s.rmask \subseteq k.rmask)
    <3>1. CASE s.rmask = {}
      BY <3>1 DEF Bytes
    <3>2. ASSUME Placed, s.rmask # {}
          PROVE  Bytes(s, s, s.rmask) \subseteq Bytes(k, s, k.rmask) <=> s.rmask \subseteq k.rmask
      <4>1. k.mem_addr = s.mem_addr
        BY <3>2
      <4>2. k.rmask \in SUBSET (0 .. s.lanes - 1) /\ s.rmask \subseteq 0 .. s.lanes - 1
        BY DEF Drivable
      <4>3. \A i \in s.rmask : Low(k.mem_addr + i, X) \in Bytes(k, s, k.rmask) <=> i \in k.rmask
        BY <4>2, InBytes
      <4>4. Bytes(s, s, s.rmask) = {Low(k.mem_addr + i, X) : i \in s.rmask}
        BY <4>1 DEF Bytes
      <4> QED
        BY <4>3, <4>4
    <3> QED
      BY <3>1, <3>2
  <2>4. Placed => (MemAsserts(k, s) <=>
                     SameMemory(k, s) /\ s.wmask \subseteq k.wmask /\ s.rmask \subseteq k.rmask)
    BY SameLanes
  <2>5. <<k.rd_addr, k.rd_wdata>> = <<s.rd_addr, s.rd_wdata>> <=>
          s.rd_addr = k.rd_addr /\ s.rd_wdata = k.rd_wdata
    BY Zenon
  <2>6. InPlace(k, s) <=> Placed /\ s.wmask \subseteq k.wmask
    BY DEF InPlace
  <2> HIDE DEF Placed
  <2>7. InsnAsserts(k, s, e) <=>
          /\ Reported(k, s) /\ ~k.trap
          /\ s.rs1_addr \in {0, k.rs1_addr} /\ s.rs2_addr \in {0, k.rs2_addr}
          /\ s.rd_addr = k.rd_addr /\ s.rd_wdata = k.rd_wdata
          /\ {s.pc_wdata, k.pc_wdata} \subseteq e.invalid \/ s.pc_wdata = k.pc_wdata
          /\ Placed /\ MemAsserts(k, s)
    BY <1>3, <1>5, <2>1, <2>2 DEF InsnAsserts, Reported
  <2>8. Fine(k, s, e) <=>
          /\ ~k.trap /\ s.rd_addr = k.rd_addr /\ s.rd_wdata = k.rd_wdata
          /\ s.rs1_addr \in {0, k.rs1_addr} /\ s.rs2_addr \in {0, k.rs2_addr}
          /\ {s.pc_wdata, k.pc_wdata} \subseteq e.invalid \/ s.pc_wdata = k.pc_wdata
          /\ SameMemory(k, s) /\ Bytes(s, s, s.rmask) \subseteq Bytes(k, s, k.rmask)
    BY <1>5, <2>5 DEF Fine, SameEffect
  <2> QED
    BY <1>1, <1>5, <2>3, <2>4, <2>6, <2>7, <2>8
<1> QED
  BY <1>3, <1>4, <1>5

(* A refused packet that passes traps and leaves nothing behind.           *)
LEMMA RefusedLeavesNothing ==
  ASSUME NEW k, NEW s, NEW e, Refused(k, s, e), Passes(k, s, e)
  PROVE  k.trap /\ k.rd_addr = 0 /\ Bytes(k, s, k.wmask) = {}
  BY DEF Passes, FaultAsserts, Bytes

(* For every width of a register, every configuration and every packet and *)
(* outputs of a model, of whatever instruction: rvfi_insn_check refuses a  *)
(* packet that does not have the instruction's effect on pc, registers and *)
(* memory, and accepts every one that has it, in place.                    *)
THEOREM ChecksExactly == Driven => InsnVerdict
<1> SUFFICES ASSUME Driven, NEW c \in Channels, rvfi[c] # Quiet
             PROVE  LET k == rvfi[c].k
                        s == rvfi[c].s
                    IN  IF Refused(k, s, env)
                        THEN Passes(k, s, env) => k.trap /\ k.rd_addr = 0 /\ Bytes(k, s, k.wmask) = {}
                        ELSE /\ Passes(k, s, env) => Fine(k, s, env) /\ Reported(k, s)
                             /\ Fine(k, s, env) /\ Reported(k, s) /\ (s.trap \/ InPlace(k, s)) => Passes(k, s, env)
  BY Zenon DEF InsnVerdict
<1> DEFINE k == rvfi[c].k
           s == rvfi[c].s
<1>1. Drivable(k, s)
  BY DEF Driven
<1> HIDE DEF k, s
<1>2. IF Refused(k, s, env)
      THEN Passes(k, s, env) => k.trap /\ k.rd_addr = 0 /\ Bytes(k, s, k.wmask) = {}
      ELSE /\ Passes(k, s, env) => Fine(k, s, env) /\ Reported(k, s)
           /\ Fine(k, s, env) /\ Reported(k, s) /\ (s.trap \/ InPlace(k, s)) => Passes(k, s, env)
  BY <1>1, PassesExactly, RefusedLeavesNothing
<1> QED
  BY <1>2 DEF k, s

(* What is last of the values of a set in a sequence.                      *)
LEMMA LastIn ==
  ASSUME NEW n \in Nat, NEW seq, DOMAIN seq = 1 .. n, NEW S
  PROVE  \/ LastOf(seq, S) = 0 /\ \A i \in 1 .. n : seq[i] \notin S
         \/ \E i \in 1 .. n : /\ seq[i] \in S /\ LastOf(seq, S) = seq[i]
                              /\ \A j \in 1 .. n : j > i => seq[j] \notin S
<1> DEFINE at == {i \in 1 .. n : seq[i] \in S}
<1>1. LastOf(seq, S) = IF at = {} THEN 0 ELSE seq[Max(at)]
  BY Zenon DEF LastOf
<1>2. ASSUME at # {}
      PROVE  Max(at) \in at /\ \A j \in at : j <= Max(at)
  <2>1. at \in SUBSET (0 .. n)
    OBVIOUS
  <2> HIDE DEF at
  <2>2. PICK c \in at : \A d \in at : d <= c
    BY <1>2, <2>1, Greatest
  <2>3. \A d \in at : c >= d
    BY <2>1, <2>2
  <2>4. Max(at) \in at /\ \A j \in at : Max(at) >= j
    BY <2>2, <2>3, Zenon DEF Max
  <2> QED
    BY <2>1, <2>4
<1>3. CASE at = {}
  BY <1>1, <1>3
<1>4. CASE at # {}
  <2> DEFINE i == Max(at)
  <2>1. i \in at /\ \A j \in at : j <= i
    BY <1>2, <1>4
  <2>2. LastOf(seq, S) = seq[i]
    BY <1>1, <1>4
  <2> HIDE DEF i
  <2>3. i \in 1 .. n /\ seq[i] \in S /\ \A j \in 1 .. n : j > i => seq[j] \notin S
    BY <2>1
  <2> QED
    BY <2>2, <2>3
<1> QED
  BY <1>3, <1>4

(* The tests are one for each code.                                        *)
TestCodes(lanes) == 1 .. 8 \cup {10 + i : i \in 0 .. lanes - 1} \cup {20 + i : i \in 0 .. lanes - 1}

LEMMA TestsAre ==
  ASSUME NEW lanes \in {4, 8}
  PROVE  /\ DOMAIN Tests(lanes) = 1 .. 2 * lanes + 8
         /\ \A n \in 1 .. 2 * lanes + 8 : Tests(lanes)[n] \in 1 .. 29
         /\ \A c \in TestCodes(lanes) : \E n \in 1 .. 2 * lanes + 8 : Tests(lanes)[n] = c
<1> DEFINE head  == <<1, 2, 3, 4, 5, 6, 8>>
           e(n)  == IF n % 2 = 1 THEN 10 + n \div 2 ELSE 19 + n \div 2
           pairs == [n \in 1 .. 2 * lanes |-> e(n)]
           T     == Tests(lanes)
<1>1. \A n \in 1 .. 2 * lanes : e(n) \in 10 .. 29
  OBVIOUS
<1>2. pairs \in Seq(Int) /\ Len(pairs) = 2 * lanes
  <2>1. pairs \in [1 .. 2 * lanes -> Int] /\ 2 * lanes \in Nat
    BY <1>1
  <2> HIDE DEF pairs, e
  <2> QED
    BY <2>1
<1>3. head \in Seq(Int) /\ Len(head) = 7
  OBVIOUS
<1>4. \A n \in 1 .. 2 * lanes : pairs[n] = e(n)
  OBVIOUS
<1>5. T = head \o pairs \o <<7>>
  BY DEF Tests
<1> HIDE DEF pairs, e, T
<1> DEFINE most == head \o pairs
<1>6. DOMAIN T = 1 .. 2 * lanes + 8
  BY <1>2, <1>3, <1>5
<1>7. /\ \A n \in 1 .. 7 : T[n] = head[n]
      /\ \A n \in 1 .. 2 * lanes : T[7 + n] = e(n)
      /\ T[2 * lanes + 8] = 7
  <2>1. most \in Seq(Int) /\ Len(most) = 7 + 2 * lanes
    BY <1>2, <1>3
  <2>2. \A n \in 1 .. 7 : most[n] = head[n]
    BY <1>2, <1>3
  <2>3. \A n \in 1 .. 2 * lanes : most[7 + n] = pairs[n]
    BY <1>2, <1>3
  <2>4. T = most \o <<7>>
    BY <1>5
  <2> HIDE DEF most
  <2>5. \A n \in 1 .. 7 + 2 * lanes : T[n] = most[n]
    BY <2>1, <2>4
  <2>6. T[2 * lanes + 8] = 7
    BY <2>1, <2>4
  <2> QED
    BY <1>4, <2>2, <2>3, <2>5, <2>6
<1>8. T[1] = 1 /\ T[2] = 2 /\ T[3] = 3 /\ T[4] = 4 /\ T[5] = 5 /\ T[6] = 6 /\ T[7] = 8
  BY <1>7
<1>9. ASSUME NEW n \in 1 .. 2 * lanes + 8 PROVE T[n] \in 1 .. 29
  <2>1. CASE n \in 1 .. 7
    BY <1>8, <2>1
  <2>2. CASE n \in 8 .. 2 * lanes + 7
    <3>1. n - 7 \in 1 .. 2 * lanes /\ n = 7 + (n - 7)
      BY <2>2
    <3> QED
      BY <1>1, <1>7, <3>1
  <2> QED
    BY <1>7, <2>1, <2>2
<1>10. ASSUME NEW i \in 0 .. lanes - 1
       PROVE  T[7 + (2 * i + 1)] = 10 + i /\ T[7 + (2 * i + 2)] = 20 + i
  <2>1. 2 * i + 1 \in 1 .. 2 * lanes /\ 2 * i + 2 \in 1 .. 2 * lanes
    OBVIOUS
  <2>2. e(2 * i + 1) = 10 + i /\ e(2 * i + 2) = 20 + i
    BY DEF e
  <2> QED
    BY <1>7, <2>1, <2>2
<1>11. ASSUME NEW c \in TestCodes(lanes) PROVE \E n \in 1 .. 2 * lanes + 8 : T[n] = c
  <2>1. CASE c \in 1 .. 8
    BY <1>7, <1>8, <2>1
  <2>2. CASE \E i \in 0 .. lanes - 1 : c = 10 + i \/ c = 20 + i
    BY <1>10, <2>2
  <2> QED
    BY <2>1, <2>2 DEF TestCodes
<1> QED
  BY <1>6, <1>9, <1>11 DEF T

(* What each code is about.                                                *)
LEMMA MismatchIs ==
  ASSUME NEW k, NEW s, NEW e, Drivable(k, s)
  PROVE  LET M == Mismatches(k, s, e)
             lanes == IF e.ignore_mem THEN {} ELSE 0 .. s.lanes - 1
         IN  /\ 1 \in M <=> k.trap # s.trap
             /\ 2 \in M <=> s.rs1_addr \notin {0, k.rs1_addr}
             /\ 3 \in M <=> s.rs2_addr \notin {0, k.rs2_addr}
             /\ 4 \in M <=> k.rd_addr # s.rd_addr
             /\ 5 \in M <=> k.rd_wdata # s.rd_wdata /\ (e.ignore_mem => s.rmask = {})
             /\ 6 \in M <=> k.pc_wdata # s.pc_wdata
             /\ 7 \in M <=> lanes # {} /\ k.mem_addr # s.mem_addr /\ k.wmask \cup k.rmask # {}
             /\ 8 \in M <=> lanes # {} /\ k.wmask # s.wmask
             /\ \A i \in 0 .. s.lanes - 1 :
                  /\ 10 + i \in M <=> i \in (s.rmask \ k.rmask) \cap lanes
                  /\ 20 + i \in M <=>
                       /\ i \in k.wmask \cap lanes
                       /\ Part(k.mem_wdata, s.y * i, s.y) # Part(s.mem_wdata, s.y * i, s.y)
             /\ M \subseteq TestCodes(s.lanes)
<1> DEFINE M == Mismatches(k, s, e)
           lanes == IF e.ignore_mem THEN {} ELSE 0 .. s.lanes - 1
           Field(c) ==
             CASE c = 1 -> k.trap # s.trap
               [] c = 2 -> s.rs1_addr \notin {0, k.rs1_addr}
               [] c = 3 -> s.rs2_addr \notin {0, k.rs2_addr}
               [] c = 4 -> k.rd_addr # s.rd_addr
               [] c = 5 -> k.rd_wdata # s.rd_wdata /\ (e.ignore_mem => s.rmask = {})
               [] c = 6 -> k.pc_wdata # s.pc_wdata
               [] c = 7 -> lanes # {} /\ k.mem_addr # s.mem_addr /\ k.wmask \cup k.rmask # {}
               [] c = 8 -> lanes # {} /\ k.wmask # s.wmask
           Unread == (s.rmask \ k.rmask) \cap lanes
           Differ == {j \in k.wmask \cap lanes :
                        Part(k.mem_wdata, s.y * j, s.y) # Part(s.mem_wdata, s.y * j, s.y)}
<1>1. M = {c \in 1 .. 8 : Field(c)} \cup {10 + i : i \in Unread} \cup {20 + i : i \in Differ}
  BY Zenon DEF Mismatches
<1>2. s.lanes \in {4, 8} /\ lanes \subseteq 0 .. s.lanes - 1
  BY DEF Drivable
<1>3. Unread \subseteq 0 .. s.lanes - 1 /\ Differ \subseteq 0 .. s.lanes - 1
  BY <1>2
<1>4. /\ Field(1) <=> k.trap # s.trap
      /\ Field(2) <=> s.rs1_addr \notin {0, k.rs1_addr}
      /\ Field(3) <=> s.rs2_addr \notin {0, k.rs2_addr}
      /\ Field(4) <=> k.rd_addr # s.rd_addr
  OBVIOUS
<1>5. /\ Field(5) <=> k.rd_wdata # s.rd_wdata /\ (e.ignore_mem => s.rmask = {})
      /\ Field(6) <=> k.pc_wdata # s.pc_wdata
      /\ Field(7) <=> lanes # {} /\ k.mem_addr # s.mem_addr /\ k.wmask \cup k.rmask # {}
      /\ Field(8) <=> lanes # {} /\ k.wmask # s.wmask
  OBVIOUS
<1>6. \A i \in 0 .. s.lanes - 1 :
        i \in Differ <=> /\ i \in k.wmask \cap lanes
                         /\ Part(k.mem_wdata, s.y * i, s.y) # Part(s.mem_wdata, s.y * i, s.y)
  OBVIOUS
<1> HIDE DEF M, Field, Unread, Differ
<1>7. \A c \in 1 .. 8 : c \in M <=> Field(c)
  BY <1>1, <1>2, <1>3
<1>8. \A i \in 0 .. s.lanes - 1 : (10 + i \in M <=> i \in Unread) /\ (20 + i \in M <=> i \in Differ)
  BY <1>1, <1>2, <1>3
<1>9. M \subseteq TestCodes(s.lanes)
  BY <1>1, <1>3 DEF TestCodes
<1>10. /\ 1 \in M <=> k.trap # s.trap
       /\ 2 \in M <=> s.rs1_addr \notin {0, k.rs1_addr}
       /\ 3 \in M <=> s.rs2_addr \notin {0, k.rs2_addr}
       /\ 4 \in M <=> k.rd_addr # s.rd_addr
       /\ 5 \in M <=> k.rd_wdata # s.rd_wdata /\ (e.ignore_mem => s.rmask = {})
       /\ 6 \in M <=> k.pc_wdata # s.pc_wdata
       /\ 7 \in M <=> lanes # {} /\ k.mem_addr # s.mem_addr /\ k.wmask \cup k.rmask # {}
       /\ 8 \in M <=> lanes # {} /\ k.wmask # s.wmask
  BY <1>4, <1>5, <1>7
<1> QED
  BY <1>6, <1>8, <1>9, <1>10 DEF M, Unread

(* Without a mismatch the packet has the effect of the instruction.        *)
LEMMA NothingWrong ==
  ASSUME NEW k, NEW s, NEW e, Drivable(k, s), ~e.ignore_mem, Mismatches(k, s, e) = {}
  PROVE  Fine(k, s, e)
<1>1. /\ k.trap = s.trap /\ s.rs1_addr \in {0, k.rs1_addr} /\ s.rs2_addr \in {0, k.rs2_addr}
      /\ k.rd_addr = s.rd_addr /\ k.rd_wdata = s.rd_wdata /\ k.pc_wdata = s.pc_wdata
  <2>1. \A c : c \notin Mismatches(k, s, e)
    OBVIOUS
  <2> QED
    BY <2>1, MismatchIs
<1>2. s.lanes \in {4, 8} /\ 0 \in 0 .. s.lanes - 1
  BY DEF Drivable
<1>3. /\ ~(k.mem_addr # s.mem_addr /\ k.wmask \cup k.rmask # {}) /\ k.wmask = s.wmask
      /\ \A i \in 0 .. s.lanes - 1 :
           /\ i \notin s.rmask \ k.rmask
           /\ ~(i \in k.wmask /\ Part(k.mem_wdata, s.y * i, s.y) # Part(s.mem_wdata, s.y * i, s.y))
  <2>1. \A c : c \notin Mismatches(k, s, e)
    OBVIOUS
  <2> QED
    BY <1>2, <2>1, MismatchIs
<1>4. s.rmask \subseteq k.rmask
  BY <1>3 DEF Drivable
<1>5. k.trap \in BOOLEAN /\ s.trap \in BOOLEAN
  BY DEF Drivable
<1>6. s.rmask \cup s.wmask # {} => k.mem_addr = s.mem_addr
  BY <1>3, <1>4
<1>7. MemAsserts(k, s)
  BY <1>3, <1>4 DEF MemAsserts
<1>8. SameMemory(k, s)
  BY <1>6, <1>7, SameLanes
<1>9. Bytes(s, s, s.rmask) \subseteq Bytes(k, s, k.rmask)
  <2>1. CASE s.rmask = {}
    BY <2>1 DEF Bytes
  <2>2. CASE s.rmask # {}
    <3>1. k.mem_addr = s.mem_addr
      BY <1>6, <2>2
    <3> QED
      BY <1>4, <3>1 DEF Bytes
  <2> QED
    BY <2>1, <2>2
<1> QED
  BY <1>1, <1>5, <1>8, <1>9 DEF Fine, SameEffect

(* A mismatch is one of two outputs that are the same in a packet that has *)
(* exactly those of the model.                                             *)
LEMMA WrongDiffers ==
  ASSUME NEW k, NEW s, NEW e, Drivable(k, s), Mismatches(k, s, e) # {}
  PROVE  ~Identical(k, s)
<1> SUFFICES ASSUME Identical(k, s) PROVE FALSE
  OBVIOUS
<1>1. {"trap", "rs1_addr", "rs2_addr", "rd_addr", "rd_wdata", "pc_wdata", "mem_addr",
       "rmask", "wmask", "mem_wdata"} \subseteq DOMAIN s \cap DOMAIN k
  BY DEF Drivable
<1>2. /\ k.trap = s.trap /\ k.rs1_addr = s.rs1_addr /\ k.rs2_addr = s.rs2_addr
      /\ k.rd_addr = s.rd_addr /\ k.rd_wdata = s.rd_wdata /\ k.pc_wdata = s.pc_wdata
      /\ k.mem_addr = s.mem_addr /\ k.rmask = s.rmask /\ k.wmask = s.wmask
      /\ k.mem_wdata = s.mem_wdata
  BY <1>1 DEF Identical
<1> DEFINE M == Mismatches(k, s, e)
<1>3. 1 \notin M /\ 2 \notin M /\ 3 \notin M /\ 4 \notin M
  BY <1>2, MismatchIs
<1>4. 5 \notin M /\ 6 \notin M /\ 7 \notin M /\ 8 \notin M
  BY <1>2, MismatchIs
<1>5. \A i \in 0 .. s.lanes - 1 : 10 + i \notin M /\ 20 + i \notin M
  BY <1>2, MismatchIs
<1>6. M \subseteq TestCodes(s.lanes)
  BY MismatchIs
<1> HIDE DEF M
<1>7. \A c \in 1 .. 8 : c \in {1, 2, 3, 4, 5, 6, 7, 8}
  OBVIOUS
<1> QED
  BY <1>3, <1>4, <1>5, <1>6, <1>7 DEF TestCodes, M

(* What the error code of channel c says of the packet it is about.        *)
Judged(c, code, x) ==
  /\ code \in {0} \cup {100 * (1 + c) + n : n \in 1 .. 29}
  /\ code = 0 => x = Quiet \/ env.ignore_mem \/ Fine(x.k, x.s, env)
  /\ code # 0 => x # Quiet /\ ~Identical(x.k, x.s)

LEMMA Judges ==
  ASSUME Driven, NEW c \in Channels
  PROVE  Judged(c, handle_error(c), IF in_reset THEN Quiet ELSE rvfi[c])
<1>1. CASE in_reset \/ rvfi[c] = Quiet
  <2>1. handle_error(c) = 0
    BY <1>1 DEF handle_error
  <2> QED
    BY <1>1, <2>1 DEF Judged
<1>2. CASE ~(in_reset \/ rvfi[c] = Quiet)
  <2> DEFINE k == rvfi[c].k
             s == rvfi[c].s
             M == Mismatches(k, s, env)
             T == Tests(s.lanes)
             n == 2 * s.lanes + 8
             code == LastOf(T, M)
  <2>1. Drivable(k, s)
    BY <1>2 DEF Driven
  <2>2. s.lanes \in {4, 8} /\ n \in Nat
    BY <2>1 DEF Drivable
  <2>3. /\ DOMAIN T = 1 .. n
        /\ \A i \in 1 .. n : T[i] \in 1 .. 29
        /\ \A d \in TestCodes(s.lanes) : \E i \in 1 .. n : T[i] = d
    BY <2>2, TestsAre
  <2>4. M \subseteq TestCodes(s.lanes)
    BY <2>1, MismatchIs
  <2>5. handle_error(c) = IF code = 0 THEN 0 ELSE 100 * (1 + c) + code
    BY <1>2, Zenon DEF handle_error
  <2>6. /\ ~env.ignore_mem /\ M = {} => Fine(k, s, env)
        /\ M # {} => ~Identical(k, s)
    BY <2>1, NothingWrong, WrongDiffers
  <2> HIDE DEF k, s, M, T, n
  <2>7. \/ code = 0 /\ \A i \in 1 .. n : T[i] \notin M
        \/ \E i \in 1 .. n : T[i] \in M /\ code = T[i]
    BY <2>2, <2>3, LastIn
  <2> HIDE DEF code
  <2>8. \/ code = 0 /\ M = {}
        \/ code \in 1 .. 29 /\ M # {}
    <3>1. CASE code = 0 /\ \A i \in 1 .. n : T[i] \notin M
      <4>1. \A d \in M : d \in TestCodes(s.lanes)
        BY <2>4
      <4>2. \A d \in M : \E i \in 1 .. n : T[i] = d
        BY <2>3, <4>1
      <4> QED
        BY <3>1, <4>2
    <3>2. ASSUME NEW i \in 1 .. n, T[i] \in M, code = T[i] PROVE code \in 1 .. 29 /\ M # {}
      BY <2>3, <3>2
    <3> QED
      BY <2>7, <3>1, <3>2
  <2>9. c \in Nat
    BY DEF Channels
  <2>10. CASE code = 0 /\ M = {}
    <3>1. handle_error(c) = 0
      BY <2>5, <2>10
    <3> QED
      BY <1>2, <2>6, <2>10, <3>1 DEF Judged, k, s
  <2>11. CASE code \in 1 .. 29 /\ M # {}
    <3>1. handle_error(c) = 100 * (1 + c) + code
      BY <2>5, <2>11
    <3>2. handle_error(c) # 0 /\ handle_error(c) \in {100 * (1 + c) + i : i \in 1 .. 29}
      BY <2>9, <2>11, <3>1
    <3> QED
      BY <1>2, <2>6, <2>11, <3>2 DEF Judged, k, s
  <2> QED
    BY <2>8, <2>10, <2>11
<1> QED
  BY <1>1, <1>2

(* What the registers of the monitor say of the packets they are about.    *)
CheckInv ==
  /\ \A c \in Channels : Judged(c, ch_errcode[c], shown[c])
  /\ stream_errcode \in StreamCodes
  /\ MonitorReports

(* The code the monitor reports is the last one that is not zero.          *)
LEMMA Aggregates ==
  ASSUME CheckInv
  PROVE  \/ /\ Aggregate = 0 /\ \A c \in Channels : ch_errcode[c] = 0
         \/ Aggregate = stream_errcode /\ stream_errcode # 0
         \/ \E c \in Channels : /\ Aggregate = ch_errcode[c] /\ ch_errcode[c] # 0
                                /\ \A d \in Channels : d > c => ch_errcode[d] = 0
<1> DEFINE each  == [n \in 1 .. NRET |-> ch_errcode[n - 1]]
           codes == each \o <<stream_errcode>>
           S     == Int \ {0}
<1>1. NRET \in Nat \ {0} /\ Channels = 0 .. NRET - 1
  BY NRETAssumption DEF Channels
<1>2. ASSUME NEW c \in Channels
      PROVE  ch_errcode[c] \in Int /\ (ch_errcode[c] \in S <=> ch_errcode[c] # 0)
  <2>1. ch_errcode[c] \in {0} \cup {100 * (1 + c) + n : n \in 1 .. 29}
    BY DEF CheckInv, Judged
  <2>2. ASSUME NEW n \in 1 .. 29, ch_errcode[c] = 100 * (1 + c) + n
        PROVE  ch_errcode[c] \in Int /\ ch_errcode[c] # 0
    <3>1. 100 * (1 + c) + n \in Nat \ {0}
      BY <1>1
    <3> QED
      BY <2>2, <3>1
  <2> QED
    BY <2>1, <2>2
<1>3. stream_errcode \in Nat
  BY <1>1, ErrcodeAssumption DEF CheckInv, StreamCodes
<1>4. each \in Seq(Int) /\ Len(each) = NRET /\ \A n \in 1 .. NRET : each[n] = ch_errcode[n - 1]
  <2>1. \A n \in 1 .. NRET : n - 1 \in Channels
    BY <1>1
  <2>2. each \in [1 .. NRET -> Int]
    BY <1>2, <2>1
  <2>3. \A n \in 1 .. NRET : each[n] = ch_errcode[n - 1]
    OBVIOUS
  <2> HIDE DEF each
  <2> QED
    BY <1>1, <2>2, <2>3
<1> HIDE DEF each
<1>5. /\ DOMAIN codes = 1 .. NRET + 1
      /\ \A n \in 1 .. NRET : codes[n] = ch_errcode[n - 1]
      /\ codes[NRET + 1] = stream_errcode
  BY <1>1, <1>3, <1>4
<1>6. Aggregate = LastOf(codes, S)
  BY DEF Aggregate, each
<1> HIDE DEF codes, S
<1>7. CASE LastOf(codes, S) = 0 /\ \A i \in 1 .. NRET + 1 : codes[i] \notin S
  <2>1. \A c \in Channels : c + 1 \in 1 .. NRET /\ c + 1 \in 1 .. NRET + 1 /\ (c + 1) - 1 = c
    BY <1>1
  <2>2. \A c \in Channels : codes[c + 1] = ch_errcode[c] /\ codes[c + 1] \notin S
    BY <1>5, <1>7, <2>1
  <2> QED
    BY <1>2, <1>6, <1>7, <2>2
<1>8. ASSUME NEW i \in 1 .. NRET + 1, codes[i] \in S, LastOf(codes, S) = codes[i],
             \A j \in 1 .. NRET + 1 : j > i => codes[j] \notin S
      PROVE  \/ Aggregate = stream_errcode /\ stream_errcode # 0
             \/ \E c \in Channels : /\ Aggregate = ch_errcode[c] /\ ch_errcode[c] # 0
                                    /\ \A d \in Channels : d > c => ch_errcode[d] = 0
  <2>1. CASE i = NRET + 1
    <3>1. Aggregate = stream_errcode /\ stream_errcode \in S
      BY <1>5, <1>6, <1>8, <2>1
    <3> QED
      BY <3>1 DEF S
  <2>2. CASE i # NRET + 1
    <3>1. i \in 1 .. NRET /\ i - 1 \in Channels
      BY <1>1, <2>2
    <3>2. Aggregate = ch_errcode[i - 1] /\ ch_errcode[i - 1] # 0
      BY <1>2, <1>5, <1>6, <1>8, <3>1
    <3>3. ASSUME NEW d \in Channels, d > i - 1 PROVE ch_errcode[d] = 0
      <4>1. d + 1 \in 1 .. NRET /\ d + 1 > i /\ (d + 1) - 1 = d /\ d + 1 \in 1 .. NRET + 1
        BY <1>1, <3>1, <3>3
      <4>2. codes[d + 1] = ch_errcode[d] /\ codes[d + 1] \notin S
        BY <1>5, <1>8, <4>1
      <4> QED
        BY <1>2, <4>2
    <3> QED
      BY <3>1, <3>2, <3>3
  <2> QED
    BY <2>1, <2>2
<1>9. \/ LastOf(codes, S) = 0 /\ \A i \in 1 .. NRET + 1 : codes[i] \notin S
      \/ \E i \in 1 .. NRET + 1 : /\ codes[i] \in S /\ LastOf(codes, S) = codes[i]
                                  /\ \A j \in 1 .. NRET + 1 : j > i => codes[j] \notin S
  BY <1>1, <1>5, LastIn
<1> QED
  BY <1>7, <1>8, <1>9

(* The code of a channel names it; the others mean something else.         *)
LEMMA CodeNames ==
  ASSUME NEW c \in Channels, NEW n \in 1 .. 29
  PROVE  (100 * (1 + c) + n) \div 100 = c + 1
  BY DEF Channels

(* No code of the checks behind the reorder buffer is one of the           *)
(* instruction check.                                                      *)
LEMMA StreamCodesAre ==
  ASSUME NEW code \in StreamCodes
  PROVE  ~(code \in 100 .. 99 + 100 * NRET /\ code % 100 < 30)
<1>1. NRET \in Nat \ {0} /\ Channels = 0 .. NRET - 1
  BY NRETAssumption DEF Channels
<1>2. CASE \E c \in Channels, n \in 30 .. 33 : code = 100 * (1 + c) + n
  <2>1. \A c \in Channels, n \in 30 .. 33 : (100 * (1 + c) + n) % 100 = n
    BY <1>1
  <2> QED
    BY <1>2, <2>1
<1>3. CASE code \in 60000 .. 60255 \/ code \in 61000 .. 61255
  <2>1. \A m, n, x \in Int : x \in m .. n => m <= x
    OBVIOUS
  <2>2. code \in Int /\ (60000 <= code \/ 61000 <= code)
    BY <1>3, <2>1
  <2>3. \A x, n \in Int : 60000 <= x /\ 100 * n + 99 < 60000 => ~(x \in 100 .. 99 + 100 * n)
    OBVIOUS
  <2> QED
    BY <1>1, <2>2, <2>3, ErrcodeAssumption
<1>4. CASE code = 0
  BY <1>4
<1> QED
  BY <1>2, <1>3, <1>4 DEF StreamCodes

(* Nothing is reported of a monitor in reset.                              *)
LEMMA NothingReported ==
  ASSUME monitor_errcode = 0, told = Silence
  PROVE  MonitorReports
  BY DEF MonitorReports, Silence

LEMMA CheckStart == CheckInit => CheckInv
  BY NothingReported DEF CheckInit, CheckInv, Judged, StreamCodes, Silence

(* What is reported of the packets shown becomes what is told of them.     *)
LEMMA ReportsStep ==
  ASSUME CheckInv, Clock, ~in_reset
  PROVE  MonitorReports'
<1> DEFINE Good(c) == env.ignore_mem \/ Fine(shown[c].k, shown[c].s, env)
           Told == {c \in Channels : shown[c] # Quiet}
<1>1. monitor_errcode' = Aggregate /\ told' = shown /\ env' = env
  BY DEF Clock
<1>2. \A c \in Channels : Judged(c, ch_errcode[c], shown[c])
  BY DEF CheckInv
<1>3. \A c \in Channels : ch_errcode[c] = 0 => shown[c] = Quiet \/ Good(c)
  BY <1>2 DEF Judged
<1>4. Aggregate = 0 => \A c \in Told : Good(c)
  <2>1. CASE \A c \in Channels : ch_errcode[c] = 0
    BY <1>3, <2>1
  <2> QED
    BY <2>1, Aggregates
<1>5. ASSUME Aggregate \in 100 .. 99 + 100 * NRET, Aggregate % 100 < 30
      PROVE  \E c \in Told : /\ Aggregate \div 100 = c + 1
                            /\ ~Identical(shown[c].k, shown[c].s)
                            /\ \A d \in Told : d > c => Good(d)
  <2>1. Aggregate # stream_errcode
    BY <1>5, StreamCodesAre DEF CheckInv
  <2>2. Aggregate # 0
    BY <1>5
  <2>3. PICK c \in Channels : /\ Aggregate = ch_errcode[c] /\ ch_errcode[c] # 0
                              /\ \A d \in Channels : d > c => ch_errcode[d] = 0
    BY <2>1, <2>2, Aggregates
  <2>4. /\ ch_errcode[c] \in {100 * (1 + c) + n : n \in 1 .. 29}
        /\ shown[c] # Quiet /\ ~Identical(shown[c].k, shown[c].s)
    BY <1>2, <2>3 DEF Judged
  <2>5. ch_errcode[c] \div 100 = c + 1
    BY <2>4, CodeNames
  <2>6. \A d \in Told : d > c => Good(d)
    BY <1>3, <2>3
  <2> HIDE DEF Good
  <2> QED
    BY <2>3, <2>4, <2>5, <2>6
<1>6. MonitorReports' <=>
        /\ monitor_errcode' = 0 => \A c \in Told : Good(c)
        /\ monitor_errcode' \in 100 .. 99 + 100 * NRET /\ monitor_errcode' % 100 < 30 =>
             \E c \in Told : /\ monitor_errcode' \div 100 = c + 1
                            /\ ~Identical(shown[c].k, shown[c].s)
                            /\ \A d \in Told : d > c => Good(d)
  BY <1>1 DEF MonitorReports
<1> HIDE DEF Good, Told
<1> QED
  BY <1>1, <1>4, <1>5, <1>6

(* A cycle keeps the invariant: the codes are judged with the packets that *)
(* are shown next, and reported one cycle later, of the packets told.      *)
LEMMA CheckStep == CheckInv /\ Driven /\ [Clock]_checkVars => CheckInv'
<1>1. ASSUME CheckInv, Driven, Clock PROVE CheckInv'
  <2>1. \A c \in Channels : Judged(c, ch_errcode'[c], shown'[c])
    <3>1. ASSUME NEW c \in Channels
          PROVE  /\ ch_errcode'[c] = handle_error(c)
                 /\ shown'[c] = IF in_reset THEN Quiet ELSE rvfi[c]
      BY <1>1 DEF Clock, Silence
    <3> QED
      BY <1>1, <3>1, Judges
  <2>2. \A c \in Channels : Judged(c, ch_errcode[c], shown[c])'
    <3>1. env' = env
      BY <1>1 DEF Clock
    <3> QED
      BY <2>1, <3>1 DEF Judged
  <2>3. stream_errcode' \in StreamCodes
    BY <1>1 DEF Clock, StreamCodes
  <2>4. MonitorReports'
    <3>1. CASE in_reset
      <4>1. monitor_errcode' = 0 /\ told' = Silence
        BY <1>1, <3>1 DEF Clock
      <4> QED
        BY <4>1 DEF MonitorReports, Silence
    <3> QED
      BY <1>1, <3>1, ReportsStep
  <2> QED
    BY <2>2, <2>3, <2>4 DEF CheckInv, Channels, StreamCodes
<1>2. ASSUME CheckInv, UNCHANGED checkVars PROVE CheckInv'
  <2>1. /\ ch_errcode' = ch_errcode /\ stream_errcode' = stream_errcode
        /\ monitor_errcode' = monitor_errcode /\ shown' = shown /\ told' = told /\ env' = env
    BY <1>2 DEF checkVars
  <2>2. \A c \in Channels : Judged(c, ch_errcode[c], shown[c])'
    BY <1>2, <2>1 DEF CheckInv, Judged
  <2>3. MonitorReports'
    BY <1>2, <2>1 DEF CheckInv, MonitorReports
  <2> QED
    BY <1>2, <2>1, <2>2, <2>3 DEF CheckInv
<1> QED
  BY <1>1, <1>2

(* For every number of channels, every configuration and whatever the core *)
(* drives from cycle to cycle, resets included: the monitor's errcode is 0 *)
(* only if every packet it is about has its instruction's effect, and a    *)
(* code of the instruction check names the last channel that is wrong.     *)
THEOREM ReportsAlways == CheckSpec /\ []Driven => []MonitorReports
<1>1. CheckInv => MonitorReports
  BY DEF CheckInv
<1> QED
  BY <1>1, CheckStart, CheckStep, PTL DEF CheckSpec
=============================================================================
