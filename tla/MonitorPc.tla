----------------------------- MODULE MonitorPc ------------------------------
(***************************************************************************)
(* The runtime monitor's program counter check (monitor/generate.py,       *)
(* option -P turns it off): behind the reorder buffer, every packet's      *)
(* rvfi_pc_rdata is compared with the rvfi_pc_wdata of the one before.     *)
(* The previous packet is in shadow_pc when it came in an earlier cycle,   *)
(* and is forwarded combinationally when it is on a lower channel.         *)
(***************************************************************************)
EXTENDS InOrderStream

CONSTANT PCs  \* program counter values

VARIABLES
  prog,            \* the packets by order
  shadow_pc_valid, \* the last packet did not trap
  shadow_pc_trap,  \* the last packet trapped
  shadow_pc,       \* rvfi_pc_wdata of the last packet
  errcode_p,       \* ro<c>_errcode_p, by channel
  was              \* history: the packets errcode_p is about

vars == <<streamVars, prog, shadow_pc_valid, shadow_pc_trap, shadow_pc,
          errcode_p, was>>

Packet == [pc_rdata: PCs, pc_wdata: PCs, intr: BOOLEAN, trap: BOOLEAN]

Mismatch(c)     == 130 + 100 * c
ExpectedIntr(c) == 133 + 100 * c

Busy(m) == {c \in 0 .. m - 1 : out[c] # Idle}
Last(S) == CHOOSE c \in S : \A d \in S : d <= c

(* Mutant of Shadow: lower channels of the same cycle are not forwarded.   *)
ShadowStale(c) ==
  [valid |-> shadow_pc_valid, trap |-> shadow_pc_trap, rdata |-> shadow_pc]

(* What channel c is compared with: shadow<c>_pc_valid, _trap and _rdata.  *)
Shadow(c) ==
  IF Busy(c) = {}
    THEN [valid |-> shadow_pc_valid, trap |-> shadow_pc_trap,
          rdata |-> shadow_pc]
    ELSE [valid |-> ~prog[out[c]].trap, trap |-> prog[out[c]].trap,
          rdata |-> prog[out[Last(Busy(c))]].pc_wdata]

(* The error of channel c; the test for the interrupt comes last and wins. *)
Errcode(c) ==
  IF out[c] = Idle \/ ~Shadow(c).valid \/ prog[out[c]].intr THEN 0
  ELSE IF Shadow(c).trap THEN ExpectedIntr(c)
  ELSE IF Shadow(c).rdata # prog[out[c]].pc_rdata THEN Mismatch(c)
  ELSE 0

(* Mutant of Keep: shadow_pc takes the order of the packet.                *)
KeepOrder ==
  IF Busy(NRET) = {}
    THEN UNCHANGED <<shadow_pc_valid, shadow_pc_trap, shadow_pc>>
    ELSE LET p == prog[out[Last(Busy(NRET))]]
         IN /\ shadow_pc_valid' = ~p.trap
            /\ shadow_pc_trap' = p.trap
            /\ shadow_pc' = out[Last(Busy(NRET))]

(* Mutant of Keep: the packet after a trapping one is compared too.        *)
KeepTrapToo ==
  IF Busy(NRET) = {}
    THEN UNCHANGED <<shadow_pc_valid, shadow_pc_trap, shadow_pc>>
    ELSE LET p == prog[out[Last(Busy(NRET))]]
         IN /\ shadow_pc_valid' = TRUE
            /\ shadow_pc_trap' = FALSE
            /\ shadow_pc' = p.pc_wdata

(* The last packet of the cycle is kept.                                   *)
Keep ==
  IF Busy(NRET) = {}
    THEN UNCHANGED <<shadow_pc_valid, shadow_pc_trap, shadow_pc>>
    ELSE LET p == prog[out[Last(Busy(NRET))]]
         IN /\ shadow_pc_valid' = ~p.trap
            /\ shadow_pc_trap' = p.trap
            /\ shadow_pc' = p.pc_wdata

Init ==
  /\ StreamInit
  /\ prog \in [Orders -> Packet]
  /\ shadow_pc_valid = FALSE /\ shadow_pc_trap = FALSE
  /\ shadow_pc \in PCs
  /\ errcode_p = [c \in Channels |-> 0]
  /\ was = [c \in Channels |-> Idle]

(* A clock edge: the check sees the packets of the buffer's output         *)
(* registers while the buffer loads the next ones.                         *)
Next ==
  /\ Clock
  /\ errcode_p' = [c \in Channels |-> Errcode(c)]
  /\ Keep
  /\ was' = out
  /\ UNCHANGED prog

Spec == Init /\ [][Next]_vars
-----------------------------------------------------------------------------
(* Types of the shadow program counter and of the errors per channel.     *)
TypeOK ==
  /\ prog \in [Orders -> Packet]
  /\ shadow_pc_valid \in BOOLEAN /\ shadow_pc_trap \in BOOLEAN
  /\ shadow_pc \in PCs
  /\ \A c \in Channels : errcode_p[c] \in {0, Mismatch(c), ExpectedIntr(c)}

(* Instruction n starts elsewhere than the one before it said and is not   *)
(* the first of a handler.                                                 *)
Jumps(n) ==
  n > 0 /\ prog[n].pc_rdata # prog[n - 1].pc_wdata /\ ~prog[n].intr

Checked == {c \in Channels : was[c] # Idle}

(* With one channel: the error is raised for exactly the packets that      *)
(* jump although the packet before them did not trap, and it is always the *)
(* mismatch: "expected intr after trap" is never raised, since the flags   *)
(* shadow_pc_valid and shadow_pc_trap it asks for exclude each other.      *)
PcExact ==
  \A c \in Checked :
    errcode_p[c] = IF Jumps(was[c]) /\ ~prog[was[c] - 1].trap
                   THEN Mismatch(c) ELSE 0

(* A packet that goes on where the last one ended is never an error.       *)
NoFalseAlarm ==
  \A c \in Checked : errcode_p[c] # 0 => Jumps(was[c])

(* "rvfi_intr must be set for the first instruction that is part of a trap *)
(* handler, i.e. an instruction that has a rvfi_pc_rdata that does not     *)
(* match the rvfi_pc_wdata of the previous instruction"                    *)
(* (docs/source/rvfi.rst:67): a packet that breaks this is reported.       *)
JumpReported ==
  \A c \in Checked :
    Jumps(was[c]) /\ ~prog[was[c] - 1].trap => errcode_p[c] # 0
=============================================================================
