-------------------------- MODULE RvfiProgressChecks ------------------------
(***************************************************************************)
(* checks/rvfi_liveness_check.sv and checks/rvfi_hang_check.sv on one      *)
(* core: the bounded liveness checks, which need the depths of the check   *)
(* to match how long the core may take ("It might be necessary to add some *)
(* bounded fairness constraints to the design").                           *)
(*                                                                         *)
(* The core retires each order once, possibly out of order; the successor  *)
(* of a retired instruction that does not halt retires at most LATENCY     *)
(* cycles after it, and the first instruction retires in the first LATENCY *)
(* cycles.  Nothing follows a halting instruction.                         *)
(***************************************************************************)
EXTENDS RvfiChannels

CONSTANTS
  LATENCY,   \* bounded fairness of the core, in cycles, at least 1
  MAX_CYCLES \* bound: length of a trace

VARIABLES
  now,             \* number of cycles so far
  halting,         \* order of the instruction with rvfi_halt, or Never
  when,            \* cycle in which an order retired, or Never
  reset,           \* reset input of both checkers
  insn_order,      \* liveness: rand const
  found_next_insn, \* liveness: insn_order + 1 seen
  trig_cycle,      \* history: cycle of the trigger, or Never
  liveness,        \* liveness: "none", "pass" or "fail"
  okay,            \* hang: an instruction was seen
  released,        \* history: first cycle out of reset, or Never
  hang             \* hang: "none", "pass" or "fail"

vars == <<now, halting, when, reset, insn_order, found_next_insn, trig_cycle,
          liveness, okay, released, hang>>

Never == -1

Carried(ch) == Lower(ch, NRET)

(* Mutant of Later: idle cycles are not counted.                           *)
LaterIfBusy(ch) == IF Carried(ch) = {} THEN now ELSE now + 1

(* Every cycle counts.                                                     *)
Later(ch) == now + 1

(* The core's side of a cycle: distinct new orders, none after the halting *)
(* one, and no successor overdue at the end of it.                         *)
Retire(ch) ==
  /\ now < MAX_CYCLES
  /\ \A c, d \in Channels : c # d /\ ch[c] # Idle => ch[c] # ch[d]
  /\ \A n \in Carried(ch) : when[n] = Never /\ (halting # Never => n <= halting)
  /\ when' = [n \in Orders |-> IF n \in Carried(ch) THEN now ELSE when[n]]
  /\ \A n \in Orders \ {N - 1} :
       /\ when'[n] # Never /\ n # halting /\ when'[n + 1] = Never
       => now - when'[n] < LATENCY
  /\ when'[0] = Never => now < LATENCY - 1
  /\ now' = Later(ch)
  /\ UNCHANGED <<halting, insn_order>>

Running == liveness = "none" /\ hang = "none"

Init ==
  /\ now = 0
  /\ halting \in Orders \cup {Never}
  /\ when = [n \in Orders |-> Never]
  /\ reset = TRUE
  /\ insn_order \in Orders \ {N - 1}
  /\ found_next_insn = FALSE
  /\ trig_cycle = Never
  /\ liveness = "none"
  /\ okay = FALSE
  /\ released = Never
  /\ hang = "none"

(* A cycle with the checkers in reset.                                     *)
ResetCycle(ch) ==
  /\ Running /\ reset
  /\ Retire(ch)
  /\ found_next_insn' = FALSE
  /\ okay' = FALSE
  /\ reset' \in BOOLEAN
  /\ released' = IF reset' THEN Never ELSE now + 1
  /\ UNCHANGED <<trig_cycle, liveness, hang>>

(* Mutant of LivenessFold: the triggering instruction itself counts.       *)
LivenessFoldSelf(ch) == found_next_insn \/ insn_order \in Carried(ch)

(* The loop of the liveness check over all channels, in every cycle.       *)
LivenessFold(ch) == found_next_insn \/ insn_order + 1 \in Carried(ch)

(* Mutant of HangFold: okay is only high in the cycle after a retirement.  *)
HangFoldLastOnly(ch) == Carried(ch) # {}

(* The loop of the hang check: a nonblocking assignment, so that the check *)
(* cycle itself compares the value from before the cycle.                  *)
HangFold(ch) == okay \/ Carried(ch) # {}

(* A cycle out of reset.  trig selects a packet that does not halt.        *)
ObserveCycle(ch, trig) ==
  /\ Running /\ ~reset
  /\ Retire(ch)
  /\ trig => /\ trig_cycle = Never
             /\ ch[CHANNEL_IDX] = insn_order /\ insn_order # halting
  /\ trig_cycle' = IF trig THEN now ELSE trig_cycle
  /\ found_next_insn' = LivenessFold(ch)
  /\ okay' = HangFold(ch)
  /\ UNCHANGED <<reset, released, liveness, hang>>

(* The check cycle of the liveness check, after the trigger.               *)
LivenessCheckCycle(ch) ==
  /\ Running /\ ~reset /\ trig_cycle # Never
  /\ Retire(ch)
  /\ found_next_insn' = LivenessFold(ch)
  /\ liveness' = IF found_next_insn' THEN "pass" ELSE "fail"
  /\ okay' = HangFold(ch)
  /\ UNCHANGED <<reset, released, trig_cycle, hang>>

(* The check cycle of the hang check; it assumes that no instruction seen  *)
(* so far halts.                                                           *)
HangCheckCycle(ch) ==
  /\ Running /\ ~reset
  /\ Retire(ch)
  /\ \A n \in Orders : when'[n] # Never => n # halting
  /\ hang' = IF okay THEN "pass" ELSE "fail"
  /\ okay' = HangFold(ch)
  /\ found_next_insn' = LivenessFold(ch)
  /\ UNCHANGED <<reset, released, trig_cycle, liveness>>

Next == \E ch \in Cycle :
  \/ ResetCycle(ch)
  \/ \E trig \in BOOLEAN : ObserveCycle(ch, trig)
  \/ LivenessCheckCycle(ch)
  \/ HangCheckCycle(ch)

Spec == Init /\ [][Next]_vars
-----------------------------------------------------------------------------
(* Types of the core and the two checkers.                                 *)
TypeOK ==
  /\ now \in 0 .. MAX_CYCLES
  /\ when \in [Orders -> 0 .. MAX_CYCLES \cup {Never}]
  /\ halting \in Orders \cup {Never}
  /\ reset \in BOOLEAN /\ found_next_insn \in BOOLEAN /\ okay \in BOOLEAN
  /\ insn_order \in Orders
  /\ trig_cycle \in 0 .. MAX_CYCLES \cup {Never}
  /\ released \in 0 .. MAX_CYCLES \cup {Never}
  /\ trig_cycle # Never => released <= trig_cycle /\ trig_cycle < now
  /\ liveness \in {"none", "pass", "fail"} /\ hang \in {"none", "pass", "fail"}

(* The cycle of the check, once there is a verdict.                        *)
CheckedIn == now - 1

(* Liveness: a core that keeps its latency is rejected only when the check *)
(* comes fewer than LATENCY cycles after the trigger, or when the          *)
(* successor had retired out of order while the checker was in reset; and  *)
(* a pass means that the successor really retired in front of the checker. *)
LivenessVerdict ==
  LET next == when[insn_order + 1]
  IN  /\ liveness = "fail" =>
           \/ CheckedIn - trig_cycle < LATENCY
           \/ next # Never /\ next < released
      /\ liveness = "pass" => next # Never /\ next >= released

(* Hang: a core that keeps its latency is rejected only when the check     *)
(* comes fewer than LATENCY cycles after reset or the program is over; and *)
(* a pass means that an instruction retired after reset and strictly       *)
(* before the check cycle.                                                 *)
HangVerdict ==
  /\ hang = "fail" =>
       \/ CheckedIn - released < LATENCY
       \/ \A n \in Orders : when[n] # Never
  /\ hang = "pass" =>
       \E n \in Orders : when[n] >= released /\ when[n] < CheckedIn
=============================================================================
