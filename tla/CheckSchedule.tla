--------------------------- MODULE CheckSchedule ----------------------------
(***************************************************************************)
(* When a generated check looks at the core: the cycle counter of          *)
(* checks/rvfi_testbench.sv together with the numbers checks/genchecks.py  *)
(* writes into the check's sby file.  sby explores depth + 1 steps and     *)
(* skips the assertions of the first depth ones; the first step is the     *)
(* initial state, and only there reset is high.  The counter saturates     *)
(* at MAX_CYCLE, its eight bits all ones.  The checker is in reset while the *)
(* counter is below start; it gets trig and check for one value of the     *)
(* counter each.                                                           *)
(*                                                                         *)
(* The configuration of one check is in the registers start, trigger and   *)
(* depth, which never change.                                              *)
(***************************************************************************)
EXTENDS Integers

CONSTANTS
  MAX_CYCLE, \* where cycle_reg saturates, 8'hff in the code
  MAX_DEPTH  \* bound: the largest depth configured

ASSUME ScheduleAssumption == MAX_CYCLE \in Nat \ {0} /\ MAX_DEPTH \in Nat

VARIABLES
  start,     \* RISCV_FORMAL_RESET_CYCLES
  trigger,   \* RISCV_FORMAL_TRIG_CYCLE
  depth,     \* RISCV_FORMAL_CHECK_CYCLE, and sby's depth less one
  step,      \* the step sby is in, from 0
  reset,     \* the testbench's reset, $initstate
  cycle_reg, \* the counter
  trigs,     \* history: the steps in which trig was high out of reset
  checks     \* history: the steps in which check was high out of reset

config == <<start, trigger, depth>>
vars == <<config, step, reset, cycle_reg, trigs, checks>>

cycle == IF reset THEN 0 ELSE cycle_reg

checker_reset == cycle < start
trig  == cycle = trigger
check == cycle = depth

(* The options a check may be given: it comes out of reset before its      *)
(* trigger, which comes before its check (docs/source/procedure.rst: the   *)
(* trigger is "in the middle of the bounded model check").                 *)
Init ==
  /\ depth \in 1 .. MAX_DEPTH
  /\ trigger \in 1 .. depth
  /\ start \in 1 .. trigger
  /\ step = 0
  /\ reset = TRUE
  /\ cycle_reg = 0
  /\ trigs = {} /\ checks = {}

(* Mutant of NextCycle: the counter does not saturate.                     *)
NextCycleUnbounded == IF reset THEN 1 ELSE cycle_reg + 1

(* Mutant of NextCycle: the first cycle out of reset is cycle 0 again.     *)
NextCycleFromZero ==
  IF reset THEN 0
  ELSE IF cycle_reg # MAX_CYCLE THEN cycle_reg + 1
  ELSE cycle_reg

(* The counter counts the cycles since reset and stays at its maximum.     *)
NextCycle ==
  IF reset THEN 1
  ELSE IF cycle_reg # MAX_CYCLE THEN cycle_reg + 1
  ELSE cycle_reg

(* The outputs of the step's cycle are recorded and the clock ticks.       *)
Tick ==
  /\ step <= depth
  /\ step' = step + 1
  /\ reset' = FALSE
  /\ cycle_reg' = NextCycle
  /\ trigs'  = IF trig /\ ~checker_reset THEN trigs \cup {step} ELSE trigs
  /\ checks' = IF check /\ ~checker_reset THEN checks \cup {step} ELSE checks
  /\ UNCHANGED config

Next == Tick

Spec == Init /\ [][Next]_vars

Done == step = depth + 1
-----------------------------------------------------------------------------
(* Types of the schedule; the counter never leaves its eight bits.         *)
TypeOK ==
  /\ depth \in 1 .. MAX_DEPTH /\ trigger \in 1 .. depth /\ start \in 1 .. trigger
  /\ step \in 0 .. depth + 1
  /\ reset \in BOOLEAN
  /\ cycle_reg \in 0 .. MAX_CYCLE
  /\ trigs \subseteq 0 .. depth /\ checks \subseteq 0 .. depth

(* "The cycle number in which checks will be performed. For bounded model  *)
(* checking, this should be the solver depth." (docs/source/config.rst:173)*)
(* A run of a check is never vacuous: when sby is done the checker has     *)
(* been asked to check, in the last step and in no other, which is the     *)
(* only step whose assertions are not skipped.                             *)
ChecksLastStep == Done => checks = {depth}

(* The trigger fires once, before the check or together with it.           *)
TriggersOnce == Done => trigs = {trigger}

(* As long as the counter can hold the depth, both hold.                   *)
FitsCounter == depth <= MAX_CYCLE
OnSchedule  == FitsCounter => ChecksLastStep /\ TriggersOnce
=============================================================================
