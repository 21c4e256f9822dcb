---------------------------- MODULE MCTestbench -----------------------------
(***************************************************************************)
(* checks/rvfi_testbench.sv instantiates a checker and a core.  Each runs  *)
(* on its own here: a checker (MCCheckers), the register file of the       *)
(* Hippomenes core (stack), or the NERV core (NervCore) in one of two      *)
(* builds:                                                                 *)
(*   nerv        with NERV_FAULT, no trap instruction on the bus while the *)
(*               core waits                                                *)
(*   nerv_plain  without NERV_FAULT, as cores/nerv/axi_cache/Makefile      *)
(*               builds it, and any instruction on the bus                 *)
(***************************************************************************)
EXTENDS MCCheckers, RegFileParameters

CONSTANTS WORDS, RESET_ADDR, Irqs, Insns, IrqInputs, Values, MAX_ORDER, None

VARIABLES
  pc, regfile, csr, mem_q, reset_q, next_rvfi_intr, rvfi_valid, rvfi, did, accessed,
  regs, rf_stack, held \* stack

Nerv  == INSTANCE NervCore WITH FAULT <- TRUE, QUIET <- TRUE
Plain == INSTANCE NervCore WITH FAULT <- FALSE, QUIET <- FALSE

ASSUME CoreAssumption == Nerv!Parameters /\ Plain!Parameters

coreVars == <<pc, regfile, csr, mem_q, reset_q, next_rvfi_intr, rvfi_valid, rvfi,
              did, accessed>>

Hippo == INSTANCE RegFileStack

stackVars == <<regs, rf_stack, held>>

(* The idle core is one that is held in reset for ever.                    *)
NervOff ==
  /\ pc = RESET_ADDR /\ regfile = [r \in {0, 1} |-> 0] /\ csr = Nerv!NoCsrs
  /\ mem_q = Nerv!NoAccess /\ reset_q = TRUE /\ next_rvfi_intr = FALSE
  /\ rvfi_valid = FALSE /\ rvfi = Nerv!NoPacket
  /\ did = "off" /\ accessed = <<>>

StackOff == regs = Hippo!Zero /\ rf_stack = <<>> /\ held = 0

CheckersOff ==
  /\ reset = Off /\ insn_order = Off /\ verdict = Off
  /\ CoreOff /\ RegOff /\ PcOff /\ CausalOff /\ UniqueOff /\ ProgressOff
  /\ MemOff /\ DmemOff

MCInit ==
  \/ Init /\ NervOff /\ StackOff
  \/ checker = "nerv"       /\ Nerv!Init  /\ CheckersOff /\ StackOff
  \/ checker = "nerv_plain" /\ Plain!Init /\ CheckersOff /\ StackOff
  \/ checker = "stack"      /\ Hippo!Init /\ CheckersOff /\ NervOff

MCNext ==
  \/ Next /\ UNCHANGED <<coreVars, stackVars>>
  \/ checker = "nerv"       /\ Nerv!Next  /\ UNCHANGED <<vars, stackVars>>
  \/ checker = "nerv_plain" /\ Plain!Next /\ UNCHANGED <<vars, stackVars>>
  \/ checker = "stack"      /\ Hippo!Next /\ UNCHANGED <<vars, coreVars>>

MCSpec == MCInit /\ [][MCNext]_<<vars, coreVars, stackVars>>

(* A small instance of NervCore: an instruction of each kind, among them   *)
(* the three that write the CSRs traps and interrupts depend on (mtvec     *)
(* becomes vectored), and two interrupts.                                  *)
MCInsn == [op |-> "alu", rd |-> 0, csr |-> "none", n |-> 0]

MCInsns ==
  {[MCInsn EXCEPT !.op = op, !.rd = 1, !.n = 6] : op \in {"alu", "jal", "load"}}
    \cup {[MCInsn EXCEPT !.op = op, !.n = 1] :
            op \in {"store", "illegal", "ecall", "mret"}}
    \cup {[MCInsn EXCEPT !.op = "csr", !.csr = w[1], !.n = w[2]] :
            w \in {<<"mie", 1>>, <<"mtvec", 9>>, <<"mstatus", 1>>}}

MCIrqInputs == {{}, {3}, {3, 7}}
-----------------------------------------------------------------------------
(* The registers of the part that runs have their types.                   *)
PartsTyped ==
  /\ TypeOK
  /\ checker = "nerv" => Nerv!TypeOK
  /\ checker = "nerv_plain" => Plain!TypeOK
  /\ checker = "stack" => Hippo!TypeOK

(* What the core's RVFI port reports is a run of the in-order machine of   *)
(* NervMachine, whatever stalls, faults, interrupts and resets come in     *)
(* whatever cycle.                                                         *)
Executes ==
  [][/\ checker = "nerv"       => Nerv!Execute
     /\ checker = "nerv_plain" => Plain!Execute]_coreVars

(* An access that retires has been on the core's data bus once, and an     *)
(* instruction comes out in its first or second cycle that is not stalled. *)
OneAtATime ==
  /\ checker = "nerv"       => Nerv!OneAtATime
  /\ checker = "nerv_plain" => Plain!OneAtATime

(* Every return from an interrupt restores exactly the registers that the  *)
(* matching entry saved, whatever the handler, resets and nested           *)
(* interrupts do, unless more were nested in it than contexts fit: the     *)
(* register file of regfile_stack.veryl steps as ContextStack does.        *)
Restores == [][checker = "stack" => Hippo!Restore]_stackVars

(* "if this is a stall cycle, don't perform any action" (nerv.sv:1079): a  *)
(* stalled cycle of the core leaves its registers alone.                   *)
StallDoesNothing == [][checker = "nerv_plain" => Plain!StallLeavesAlone]_coreVars
=============================================================================
