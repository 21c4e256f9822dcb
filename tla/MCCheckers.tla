----------------------------- MODULE MCCheckers -----------------------------
(***************************************************************************)
(* checks/rvfi_testbench.sv instantiates one checker next to the core, the *)
(* one checks/genchecks.py names in RISCV_FORMAL_CHECKER.  This module is  *)
(* that choice: checker is made in the initial state and kept, the         *)
(* variables of the other checkers stay at Off.                            *)
(*                                                                         *)
(* Some checkers are instantiated on more than one kind of core:           *)
(*   reg          a core that keeps causality and the order of writes      *)
(*   pc           two channels, any retirement order                       *)
(*   pc_narrow    one channel                                              *)
(*   causal       a core that keeps nothing                                *)
(*   causal_kept  a core that keeps causality and the order of writes      *)
(*   mem          causal_mem and causal_io, a core that keeps nothing      *)
(*   mem_kept     the same, a core that keeps causality and the order of   *)
(*                writes                                                   *)
(*   dmem         one channel                                              *)
(***************************************************************************)
EXTENDS Integers

CONSTANTS NRET, CHANNEL_IDX, N, PCs, Regs, LATENCY, MAX_CYCLES,
          Bytes, Words, ValidAddrs, Lanes, Data

VARIABLES
  checker,
  prog, retired, reset, seen, insn_order, verdict,         \* common names
  register_shadow, register_written, rs1_rdata, rs2_rdata, \* reg
  fwd, bwd,                                                \* pc
  register_index, found_non_causal,                        \* reg, causal
  triggered, found_other_insn, uses,                       \* unique
  now, halting, when, found_next_insn, trig_cycle,         \* liveness, hang
  liveness, okay, released, hang,
  check_addr, found_io, mem, io,                           \* mem
  dmem_addr, dmem_shadow, dmem_written, failed, memory, wrong  \* dmem

Off == 0

Reg      == INSTANCE RvfiRegCheck
              WITH KEEP_CAUSALITY <- TRUE, KEEP_WRITE_ORDER <- TRUE
Pc       == INSTANCE RvfiPcCheck
PcNarrow == INSTANCE RvfiPcCheck WITH NRET <- 1, CHANNEL_IDX <- 0
Causal   == INSTANCE RvfiCausalCheck
              WITH KEEP_CAUSALITY <- FALSE, KEEP_WRITE_ORDER <- FALSE
Kept     == INSTANCE RvfiCausalCheck
              WITH KEEP_CAUSALITY <- TRUE, KEEP_WRITE_ORDER <- TRUE
Uniq     == INSTANCE RvfiUniqueCheck
Progress == INSTANCE RvfiProgressChecks WITH N <- N + 1
Mem      == INSTANCE RvfiMemCausality
              WITH N <- N - 1, IoBytes <- {1}, KEEP_CAUSAL <- FALSE
MemKept  == INSTANCE RvfiMemCausality
              WITH Bytes <- {0}, IoBytes <- {0}, KEEP_CAUSAL <- TRUE
Dmem     == INSTANCE RvfiDmemCheck WITH NRET <- 1, CHANNEL_IDX <- 0

regVars      == <<register_shadow, register_written, rs1_rdata, rs2_rdata>>
pcVars       == <<fwd, bwd>>
causalVars   == <<register_index, found_non_causal>>
uniqueVars   == <<triggered, found_other_insn, uses>>
progressVars == <<now, halting, when, found_next_insn, trig_cycle,
                  liveness, okay, released, hang>>
memVars      == <<check_addr, found_io, mem, io>>
dmemVars     == <<dmem_addr, dmem_shadow, dmem_written, failed, memory, wrong>>

vars == <<checker, prog, retired, reset, seen, insn_order, verdict,
          regVars, pcVars, causalVars, uniqueVars, progressVars, memVars, dmemVars>>

RegOff ==
  /\ register_shadow = Off /\ register_written = Off
  /\ rs1_rdata = Off /\ rs2_rdata = Off
PcOff       == fwd = Off /\ bwd = Off
CausalOff   == register_index = Off /\ found_non_causal = Off
UniqueOff   == triggered = Off /\ found_other_insn = Off /\ uses = Off
ProgressOff ==
  /\ now = Off /\ halting = Off /\ when = Off /\ found_next_insn = Off
  /\ trig_cycle = Off /\ liveness = Off /\ okay = Off /\ released = Off
  /\ hang = Off
MemOff  == check_addr = Off /\ found_io = Off /\ mem = Off /\ io = Off
DmemOff ==
  /\ dmem_addr = Off /\ dmem_shadow = Off /\ dmem_written = Off
  /\ failed = Off /\ memory = Off /\ wrong = Off
CoreOff == prog = Off /\ retired = Off /\ seen = Off

(* Bound of reg and causal: sources are named in one order, and in reg a   *)
(* packet that traps names a destination; the checkers do not tell the     *)
(* others from these.  Bound of pc: the first pc is one of two by symmetry. *)
Sorted     == {p \in Reg!Packet : p.rs1 <= p.rs2}
RegPackets == {p \in Sorted : p.trap => p.rd # 0}

Init ==
  \/ /\ checker = "reg" /\ Reg!Init /\ prog \in [0 .. N - 1 -> RegPackets]
     /\ found_non_causal = Off
     /\ PcOff /\ UniqueOff /\ ProgressOff /\ MemOff /\ DmemOff
  \/ /\ checker = "pc" /\ Pc!Init /\ prog[0].pc_rdata = 0
     /\ insn_order = Off /\ verdict = Off
     /\ RegOff /\ CausalOff /\ UniqueOff /\ ProgressOff /\ MemOff /\ DmemOff
  \/ /\ checker = "pc_narrow" /\ PcNarrow!Init /\ prog[0].pc_rdata = 0
     /\ insn_order = Off /\ verdict = Off
     /\ RegOff /\ CausalOff /\ UniqueOff /\ ProgressOff /\ MemOff /\ DmemOff
  \/ /\ checker = "causal" /\ Causal!Init /\ prog \in [0 .. N - 1 -> Sorted]
     /\ RegOff /\ PcOff /\ UniqueOff /\ ProgressOff /\ MemOff /\ DmemOff
  \/ /\ checker = "causal_kept" /\ Kept!Init /\ prog \in [0 .. N - 1 -> Sorted]
     /\ RegOff /\ PcOff /\ UniqueOff /\ ProgressOff /\ MemOff /\ DmemOff
  \/ /\ checker = "unique" /\ Uniq!Init
     /\ CoreOff
     /\ RegOff /\ PcOff /\ CausalOff /\ ProgressOff /\ MemOff /\ DmemOff
  \/ /\ checker = "progress" /\ Progress!Init
     /\ CoreOff /\ verdict = Off
     /\ RegOff /\ PcOff /\ CausalOff /\ UniqueOff /\ MemOff /\ DmemOff
  \/ /\ checker = "mem" /\ Mem!Init
     /\ register_index = Off /\ verdict = Off
     /\ RegOff /\ PcOff /\ UniqueOff /\ ProgressOff /\ DmemOff
  \/ /\ checker = "mem_kept" /\ MemKept!Init
     /\ register_index = Off /\ verdict = Off
     /\ RegOff /\ PcOff /\ UniqueOff /\ ProgressOff /\ DmemOff
  \/ /\ checker = "dmem" /\ Dmem!Init
     /\ CoreOff /\ insn_order = Off /\ verdict = Off
     /\ RegOff /\ PcOff /\ CausalOff /\ UniqueOff /\ ProgressOff /\ MemOff

Next ==
  /\ UNCHANGED checker
  /\ \/ /\ checker = "reg" /\ Reg!Next
        /\ UNCHANGED <<found_non_causal, pcVars, uniqueVars, progressVars,
                       memVars, dmemVars>>
     \/ /\ checker = "pc" /\ Pc!Next
        /\ UNCHANGED <<insn_order, verdict, regVars, causalVars, uniqueVars,
                       progressVars, memVars, dmemVars>>
     \/ /\ checker = "pc_narrow" /\ PcNarrow!Next
        /\ UNCHANGED <<insn_order, verdict, regVars, causalVars, uniqueVars,
                       progressVars, memVars, dmemVars>>
     \/ /\ checker = "causal" /\ Causal!Next
        /\ UNCHANGED <<regVars, pcVars, uniqueVars, progressVars, memVars,
                       dmemVars>>
     \/ /\ checker = "causal_kept" /\ Kept!Next
        /\ UNCHANGED <<regVars, pcVars, uniqueVars, progressVars, memVars,
                       dmemVars>>
     \/ /\ checker = "unique" /\ Uniq!Next
        /\ UNCHANGED <<prog, retired, seen, regVars, pcVars, causalVars,
                       progressVars, memVars, dmemVars>>
     \/ /\ checker = "progress" /\ Progress!Next
        /\ UNCHANGED <<prog, retired, seen, verdict, regVars, pcVars,
                       causalVars, uniqueVars, memVars, dmemVars>>
     \/ /\ checker = "mem" /\ Mem!Next
        /\ UNCHANGED <<verdict, register_index, regVars, pcVars, uniqueVars,
                       progressVars, dmemVars>>
     \/ /\ checker = "mem_kept" /\ MemKept!Next
        /\ UNCHANGED <<verdict, register_index, regVars, pcVars, uniqueVars,
                       progressVars, dmemVars>>
     \/ /\ checker = "dmem" /\ Dmem!Next
        /\ UNCHANGED <<prog, retired, seen, insn_order, verdict, regVars,
                       pcVars, causalVars, uniqueVars, progressVars,
                       memVars>>

Spec == Init /\ [][Next]_vars
-----------------------------------------------------------------------------
(* The registers of the instantiated checker have their types.             *)
TypeOK ==
  /\ checker = "reg"         => Reg!TypeOK
  /\ checker = "pc"          => Pc!TypeOK
  /\ checker = "pc_narrow"   => PcNarrow!TypeOK
  /\ checker = "causal"      => Causal!TypeOK
  /\ checker = "causal_kept" => Kept!TypeOK
  /\ checker = "unique"      => Uniq!TypeOK
  /\ checker = "progress"    => Progress!TypeOK
  /\ checker = "mem"         => Mem!TypeOK
  /\ checker = "mem_kept"    => MemKept!TypeOK
  /\ checker = "dmem"        => Dmem!TypeOK

(* rvfi_reg_check fails exactly on a wrong read of the register under      *)
(* check, one it has been shown a write of.                                *)
VerdictExact == checker = "reg" => Reg!VerdictExact

(* rvfi_pc_fwd_check fails exactly when the predecessor was shown and the  *)
(* two disagree, over two channels and any reordering; rvfi_pc_bwd_check   *)
(* does so for the successor, on a core with one channel.                  *)
NeighbourExact ==
  /\ checker = "pc"        => Pc!FwdExact
  /\ checker = "pc_narrow" => PcNarrow!BwdExact

(* rvfi_causal_check misses no write that retires after its reader, and    *)
(* never rejects a core that keeps causality and the order of writes.      *)
CausalVerdict ==
  /\ checker = "causal"      => Causal!NothingMissed
  /\ checker = "causal_kept" => Kept!NoFalseAlarm

(* rvfi_unique_check fails exactly on a second use of the order.           *)
UniqueExact == checker = "unique" => Uniq!UniqueExact

(* rvfi_liveness_check and rvfi_hang_check reject no core that keeps its   *)
(* latency when the depths leave room for it.                              *)
ProgressVerdict ==
  checker = "progress" => Progress!LivenessVerdict /\ Progress!HangVerdict

(* rvfi_causal_mem_check misses no read that retired before the write of   *)
(* the byte it takes, and never rejects a core that keeps causality and    *)
(* the order of writes.                                                    *)
MemVerdict ==
  /\ checker = "mem"      => Mem!MemNothingMissed
  /\ checker = "mem_kept" => MemKept!MemNoFalseAlarm

(* rvfi_causal_io_check fails exactly when a later i/o access retired      *)
(* before the checked one.                                                 *)
IoExact == checker = "mem" => Mem!IoExact

(* rvfi_dmem_check fails exactly on a read, from the word under check, of  *)
(* a byte other than the one last written, on a core with one channel.     *)
DmemExact == checker = "dmem" => Dmem!DmemExact
=============================================================================
