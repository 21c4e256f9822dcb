----------------------------- MODULE InsnChecks -----------------------------
(***************************************************************************)
(* The two users of an instruction model's outputs: the assertions of      *)
(* checks/rvfi_insn_check.sv and the instruction check of the monitor      *)
(* (monitor/generate.py), with the error code the monitor makes of it.     *)
(*                                                                         *)
(* k is the packet the core drives, s what the model says of it and e the  *)
(* configuration: the addresses RISCV_FORMAL_VALIDADDR excludes, what      *)
(* RISCV_FORMAL_PMA_MAP answers, whether RISCV_FORMAL_MEM_FAULT is         *)
(* defined, and whether the monitor ignores memory.  Masks are sets of     *)
(* lanes; a lane of data is y bits.                                        *)
(***************************************************************************)
EXTENDS InsnFormats, RvfiParameters, FiniteSetsExt

(* The codes of the channels end before those of the reorder buffer begin. *)
ASSUME ErrcodeAssumption == 100 * NRET + 99 < 60000

VARIABLES
  rvfi,           \* [channel -> k and s], or Quiet
  env,            \* the configuration
  in_reset,       \* the monitor's reset
  ch_errcode,     \* the error codes of the channels
  stream_errcode, \* the last one the checks behind the reorder buffer set
  monitor_errcode, \* the monitor's errcode output
  shown, told     \* history: the packets ch_errcode and monitor_errcode
                  \* are about

checkVars ==
  <<rvfi, env, in_reset, ch_errcode, stream_errcode, monitor_errcode, shown, told>>

Quiet    == <<>>
Channels == 0 .. NRET - 1
Silence  == [c \in Channels |-> Quiet]

(* The codes of the reorder buffer and of the checks behind it.            *)
StreamCodes ==
  {0} \cup {100 * (1 + c) + n : c \in Channels, n \in 30 .. 33}
      \cup (60000 .. 60255) \cup (61000 .. 61255)

(* What a packet and the outputs of a model are: a register has as many    *)
(* lanes as xlen has bytes, and the masks and addresses are theirs.        *)
Drivable(k, s) ==
  /\ s.lanes \in {4, 8} /\ s.y \in Nat \ {0} /\ s.lanes * s.y = X
  /\ \A x \in {k, s} :
       /\ {"trap", "rs1_addr", "rs2_addr", "rd_addr", "rd_wdata", "pc_wdata", "mem_addr",
           "rmask", "wmask", "mem_wdata"} \subseteq DOMAIN x
       /\ x.trap \in BOOLEAN /\ x.mem_addr \in 0 .. 2^X - 1
       /\ x.rmask \subseteq 0 .. s.lanes - 1 /\ x.wmask \subseteq 0 .. s.lanes - 1
       /\ x.mem_wdata \in Nat
  /\ k.mem_rdata \in Nat

Driven == \A c \in {d \in Channels : rvfi[d] # Quiet} : Drivable(rvfi[c].k, rvfi[c].s)

rvformal_addr_valid(e, a) == a \notin e.invalid
rvformal_addr_eq(e, a, b) ==
  /\ rvformal_addr_valid(e, a) <=> rvformal_addr_valid(e, b)
  /\ rvformal_addr_valid(e, a) => a = b

mem_access_fault(k, s, e) ==
  \/ e.MEM_FAULT /\ k.mem_fault
  \/ s.rmask # {} /\ ~e.mem_pma_r
  \/ s.wmask # {} /\ ~e.mem_pma_w
  \/ s.rmask \cup s.wmask # {} /\ ~rvformal_addr_valid(e, s.mem_addr)

Refused(k, s, e) ==
  ~rvformal_addr_valid(e, k.pc_rdata) \/ ~e.insn_pma_x \/ mem_access_fault(k, s, e)

(* An instruction that is refused traps and leaves nothing behind.         *)
FaultAsserts(k, s, e) ==
  /\ k.trap /\ k.rd_addr = 0 /\ k.rd_wdata = 0 /\ k.wmask = {}
  /\ e.MEM_FAULT /\ k.mem_fault =>
       /\ k.rmask = {} /\ s.rmask \cup s.wmask # {}
       /\ rvformal_addr_eq(e, s.mem_addr, k.mem_addr)
       /\ k.fault_wmask = s.wmask /\ s.rmask \subseteq k.fault_rmask

(* Mutant of MemAsserts: bytes the model does not write are not looked at. *)
MemAssertsOwn(k, s) ==
  \A i \in 0 .. s.lanes - 1 :
    /\ i \in s.wmask => i \in k.wmask /\ Part(s.mem_wdata, s.y * i, s.y) = Part(k.mem_wdata, s.y * i, s.y)
    /\ i \in s.rmask => i \in k.rmask

MemAsserts(k, s) ==
  \A i \in 0 .. s.lanes - 1 :
    /\ i \in s.wmask => i \in k.wmask /\ Part(s.mem_wdata, s.y * i, s.y) = Part(k.mem_wdata, s.y * i, s.y)
    /\ i \in k.wmask \ s.wmask => i \in k.rmask /\ Part(k.mem_rdata, s.y * i, s.y) = Part(k.mem_wdata, s.y * i, s.y)
    /\ i \in s.rmask => i \in k.rmask

InsnAsserts(k, s, e) ==
  /\ s.misa_rmask \subseteq k.misa_rmask
  /\ k.rs1_addr = 0 => k.rs1_rdata = 0
  /\ k.rs2_addr = 0 => k.rs2_rdata = 0
  /\ ~s.trap =>
       /\ s.rs1_addr \in {0, k.rs1_addr} /\ s.rs2_addr \in {0, k.rs2_addr}
       /\ s.rd_addr = k.rd_addr /\ s.rd_wdata = k.rd_wdata
       /\ rvformal_addr_eq(e, s.pc_wdata, k.pc_wdata)
       /\ s.wmask \cup s.rmask # {} => rvformal_addr_eq(e, s.mem_addr, k.mem_addr)
       /\ MemAsserts(k, s)
  /\ s.trap = k.trap

(* The assertions of the check cycle, for a packet the model claims.       *)
Passes(k, s, e) ==
  IF Refused(k, s, e) THEN FaultAsserts(k, s, e) ELSE InsnAsserts(k, s, e)
-----------------------------------------------------------------------------
(* What the monitor finds wrong, by the offset of its error code.          *)
Mismatches(k, s, e) ==
  LET lanes == IF e.ignore_mem THEN {} ELSE 0 .. s.lanes - 1
  IN  {c \in 1 .. 8 :
         CASE c = 1 -> k.trap # s.trap
           [] c = 2 -> s.rs1_addr \notin {0, k.rs1_addr}
           [] c = 3 -> s.rs2_addr \notin {0, k.rs2_addr}
           [] c = 4 -> k.rd_addr # s.rd_addr
           [] c = 5 -> k.rd_wdata # s.rd_wdata /\ (e.ignore_mem => s.rmask = {})
           [] c = 6 -> k.pc_wdata # s.pc_wdata
           [] c = 7 -> lanes # {} /\ k.mem_addr # s.mem_addr /\ k.wmask \cup k.rmask # {}
           [] c = 8 -> lanes # {} /\ k.wmask # s.wmask}
      \cup {10 + i : i \in (s.rmask \ k.rmask) \cap lanes}
      \cup {20 + i : i \in {j \in k.wmask \cap lanes :
                              Part(k.mem_wdata, s.y * j, s.y) # Part(s.mem_wdata, s.y * j, s.y)}}

(* The tests in the order of the generated code; each overwrites the code  *)
(* of the ones before it.                                                  *)
Tests(lanes) ==
  <<1, 2, 3, 4, 5, 6, 8>> \o [n \in 1 .. 2 * lanes |-> IF n % 2 = 1 THEN 10 + n \div 2 ELSE 19 + n \div 2] \o <<7>>

LastOf(seq, S) ==
  LET at == {n \in DOMAIN seq : seq[n] \in S} IN IF at = {} THEN 0 ELSE seq[Max(at)]

handle_error(c) ==
  LET k == rvfi[c].k
      s == rvfi[c].s
      code == LastOf(Tests(s.lanes), Mismatches(k, s, env))
  IN  IF in_reset \/ rvfi[c] = Quiet \/ code = 0 THEN 0 ELSE 100 * (1 + c) + code

(* Mutant of Aggregate: the last register is looked at only.               *)
AggregateLast == IF stream_errcode # 0 THEN stream_errcode ELSE ch_errcode[NRET - 1]

(* Of several codes the last in the order of the channels is reported, and *)
(* one of the checks behind the reorder buffer before any.                 *)
Aggregate ==
  LET codes == [n \in 1 .. NRET |-> ch_errcode[n - 1]] \o <<stream_errcode>>
  IN  LastOf(codes, Int \ {0})

(* A cycle of the monitor, in which the core drives rvfi' and in_reset'.   *)
Clock ==
  /\ ch_errcode' = [c \in Channels |-> handle_error(c)]
  /\ stream_errcode' \in IF in_reset THEN {0} ELSE StreamCodes
  /\ monitor_errcode' = IF in_reset THEN 0 ELSE Aggregate
  /\ shown' = IF in_reset THEN Silence ELSE rvfi
  /\ told' = IF in_reset THEN Silence ELSE shown
  /\ UNCHANGED env

CheckInit ==
  /\ rvfi = Silence /\ in_reset \in BOOLEAN
  /\ ch_errcode = [c \in Channels |-> 0] /\ stream_errcode = 0 /\ monitor_errcode = 0
  /\ shown = Silence /\ told = Silence

CheckSpec == CheckInit /\ [][Clock]_checkVars
-----------------------------------------------------------------------------
(* The memory a packet leaves behind: what the byte at address a, which    *)
(* was v before, is afterwards, and which bytes it has seen.               *)
Bytes(k, s, mask) == {Low(k.mem_addr + i, X) : i \in mask}
After(k, s, a, v) ==
  IF a \notin Bytes(k, s, k.wmask) THEN v
  ELSE Part(k.mem_wdata, s.y * Low(a - k.mem_addr, X), s.y)
Saw(k, s, a, v) ==
  a \in Bytes(k, s, k.rmask) => v = Part(k.mem_rdata, s.y * Low(a - k.mem_addr, X), s.y)

(* On every memory the core may have seen, its stores have the effect of   *)
(* the instruction's.                                                      *)
SameMemory(k, s) ==
  \A a \in Bytes(k, s, k.wmask) \cup Bytes(s, s, s.wmask), v \in 0 .. 2^s.y - 1 :
    Saw(k, s, a, v) => After(k, s, a, v) = After(s, s, a, v)

SameEffect(k, s, e) ==
  /\ ~k.trap
  /\ <<k.rd_addr, k.rd_wdata>> = <<s.rd_addr, s.rd_wdata>>
  /\ s.rs1_addr \in {0, k.rs1_addr} /\ s.rs2_addr \in {0, k.rs2_addr}
  /\ {s.pc_wdata, k.pc_wdata} \subseteq e.invalid \/ s.pc_wdata = k.pc_wdata
  /\ SameMemory(k, s)
  /\ Bytes(s, s, s.rmask) \subseteq Bytes(k, s, k.rmask)

(* The core puts the bytes where the model does, and writes those that the *)
(* instruction writes even if they keep their value.                       *)
InPlace(k, s) ==
  /\ s.rmask \cup s.wmask # {} => k.mem_addr = s.mem_addr
  /\ s.wmask \subseteq k.wmask

Identical(k, s) == \A f \in DOMAIN s \cap DOMAIN k : k[f] = s[f]

Fine(k, s, e) == IF s.trap THEN k.trap ELSE SameEffect(k, s, e)

(* What the operands and the CSR are reported to be does not belong to the *)
(* effect.                                                                 *)
Reported(k, s) ==
  /\ k.rs1_addr = 0 => k.rs1_rdata = 0
  /\ k.rs2_addr = 0 => k.rs2_rdata = 0
  /\ s.misa_rmask \subseteq k.misa_rmask

(* rvfi_insn_check accepts a packet only if it traps exactly when the      *)
(* instruction does, or is refused, and has its effect on pc, registers    *)
(* and memory, whatever else it reads and rewrites; and it accepts every   *)
(* packet like that.                                                       *)
InsnVerdict ==
  \A c \in {d \in Channels : rvfi[d] # Quiet} :
    LET k == rvfi[c].k
        s == rvfi[c].s
    IN  IF Refused(k, s, env)
        THEN Passes(k, s, env) => k.trap /\ k.rd_addr = 0 /\ Bytes(k, s, k.wmask) = {}
        ELSE /\ Passes(k, s, env) => Fine(k, s, env) /\ Reported(k, s)
             /\ Fine(k, s, env) /\ Reported(k, s) /\ (s.trap \/ InPlace(k, s)) => Passes(k, s, env)

(* The monitor lets no packet pass that rvfi_insn_check would not accept,  *)
(* and a code of its instruction check names the last channel with a wrong *)
(* one and never a channel with exactly the outputs of the model.          *)
MonitorReports ==
  LET Told == {c \in Channels : told[c] # Quiet}
      Good(c) == env.ignore_mem \/ Fine(told[c].k, told[c].s, env)
  IN  /\ monitor_errcode = 0 => \A c \in Told : Good(c)
      /\ monitor_errcode \in 100 .. 99 + 100 * NRET /\ monitor_errcode % 100 < 30 =>
           \E c \in Told :
             /\ monitor_errcode \div 100 = c + 1
             /\ ~Identical(told[c].k, told[c].s)
             /\ \A d \in Told : d > c => Good(d)
=============================================================================
