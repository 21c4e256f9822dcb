------------------------------ MODULE MCMonitor -----------------------------
(***************************************************************************)
(* The parts of the runtime monitor (monitor/generate.py), one at a time.  *)
(* The options -P and -R each turn a check off, so that a monitor with a   *)
(* single one can be generated: monitor is the part a behaviour has.  The  *)
(* checks read the in-order stream that MonitorRob implements when its     *)
(* depth fits the core (run MCRob); "rob" is a buffer with a core that     *)
(* reorders as it likes.                                                   *)
(*   pc         program counter check, NRET channels                       *)
(*   pc_narrow  program counter check, one channel                         *)
(*   regs       register check, NRET channels                              *)
(*   rob        reorder buffer of DEPTH slots, window of ROB_N orders      *)
(***************************************************************************)
EXTENDS RvfiParameters

CONSTANTS
  MonitorPCs,  \* program counters
  MonitorRegs, \* registers
  ROB_N,       \* bound: number of instructions the reorder buffer sees
  DEPTH        \* option -r

ASSUME MonitorAssumption ==
  /\ 0 \in MonitorPCs /\ 0 \in MonitorRegs
  /\ ROB_N \in Nat \ {0}
  /\ DEPTH \in Nat \ {0} /\ NRET <= DEPTH

VARIABLES
  monitor,                                                \* the part
  retired, cursor, stream,                                \* its stream
  prog, was,
  shadow_pc_valid, shadow_pc_trap, shadow_pc, errcode_p,  \* pc
  shadow_xregs_valid, shadow_xregs, errcode_r,            \* regs
  buffer, valid, errcode, reported                        \* rob

Off == 0

Pc       == INSTANCE MonitorPc WITH PCs <- MonitorPCs, out <- stream
PcNarrow == INSTANCE MonitorPc WITH NRET <- 1, PCs <- MonitorPCs, out <- stream
R        == INSTANCE MonitorRegs WITH Regs <- MonitorRegs, out <- stream
Rob      == INSTANCE MonitorRob WITH N <- ROB_N, WINDOW <- ROB_N, out <- stream

pcVars  == <<shadow_pc_valid, shadow_pc_trap, shadow_pc, errcode_p>>
regVars == <<shadow_xregs_valid, shadow_xregs, errcode_r>>
robVars == <<buffer, valid, errcode, reported>>
monitorVars ==
  <<monitor, retired, cursor, stream, prog, was, pcVars, regVars, robVars>>

PcOff ==
  /\ shadow_pc_valid = Off /\ shadow_pc_trap = Off
  /\ shadow_pc = Off /\ errcode_p = Off
RegsOff == shadow_xregs_valid = Off /\ shadow_xregs = Off /\ errcode_r = Off
RobOff  == buffer = Off /\ valid = {} /\ errcode = Off /\ reported = FALSE

(* No monitor: another part of the framework runs.                         *)
MonitorOff ==
  /\ monitor = "off" /\ retired = Off /\ cursor = Off /\ stream = Off /\ prog = Off /\ was = Off
  /\ PcOff /\ RegsOff /\ RobOff

(* Bound: the first pc is one of two by symmetry; rs1 and rs2, which are   *)
(* checked alike, are named in one order; the first packet reads x0, and   *)
(* nothing reads what the last one writes.                                 *)
PcFixed    == prog[0].pc_rdata = 0
RegsSorted == \A n \in 0 .. N - 1 : prog[n].addr["rs1"] <= prog[n].addr["rs2"]
FirstWrites == \A p \in R!Ports : prog[0].addr[p] = 0 /\ prog[0].right[p]
LastReads   == prog[N - 1].rd = 0

MonitorInit ==
  \/ monitor = "pc"        /\ Pc!Init       /\ PcFixed    /\ RegsOff /\ RobOff
  \/ monitor = "pc_narrow" /\ PcNarrow!Init /\ PcFixed    /\ RegsOff /\ RobOff
  \/ /\ monitor = "regs" /\ R!Init /\ PcOff /\ RobOff
     /\ RegsSorted /\ FirstWrites /\ LastReads
  \/ /\ monitor = "rob" /\ Rob!Init /\ PcOff /\ RegsOff
     /\ prog = Off /\ was = Off

MonitorNext ==
  /\ UNCHANGED monitor
  /\ \/ monitor = "pc"        /\ Pc!Next       /\ UNCHANGED <<regVars, robVars>>
     \/ monitor = "pc_narrow" /\ PcNarrow!Next /\ UNCHANGED <<regVars, robVars>>
     \/ monitor = "regs"      /\ R!Next        /\ UNCHANGED <<pcVars, robVars>>
     \/ monitor = "rob"       /\ Rob!Next
                              /\ UNCHANGED <<pcVars, regVars, prog, was>>

MonitorSpec == (MonitorInit \/ MonitorOff) /\ [][MonitorNext]_monitorVars
-----------------------------------------------------------------------------
(* The registers of the generated monitor have their types.                *)
MonitorTyped ==
  /\ monitor = "pc"        => Pc!TypeOK
  /\ monitor = "pc_narrow" => PcNarrow!TypeOK
  /\ monitor = "regs"      => R!TypeOK
  /\ monitor = "rob"       => Rob!TypeOK

(* With one channel the program counter check reports exactly the packets  *)
(* that jump after one that did not trap; with more it reports no packet   *)
(* that goes on where the one before it ended.  The register check reports *)
(* exactly the wrong reads, with any number of channels.                   *)
MonitorExact ==
  /\ monitor = "pc_narrow" => PcNarrow!PcExact
  /\ monitor = "pc"        => Pc!NoFalseAlarm
  /\ monitor = "regs"      => R!RegExact

(* A reorder buffer of any depth next to a core that reorders as it likes: *)
(* until it reports an error it shows the checks a part of the program, in *)
(* order and without a gap, and nothing from an order on that it lost.     *)
MonitorSound == [][monitor = "rob" /\ ~reported' => Rob!Sound]_monitorVars
=============================================================================
