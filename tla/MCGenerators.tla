---------------------------- MODULE MCGenerators ----------------------------
(***************************************************************************)
(* What the framework's scripts generate, each on a small instance of its  *)
(* own: the instruction models (MCInsns) and what is made of their outputs *)
(* (InsnChecks), the checks of a core, the monitor (MCMonitor), and the  *)
(* testbench's schedule, for every choice of its numbers and for the       *)
(* numbers of the checks that were generated.                              *)
(***************************************************************************)
EXTENDS MCInsns, InsnChecks, GenChecks, CheckSchedule, MCMonitor

VARIABLE part  \* the part that runs

allVars == <<insnVars, genVars, vars, part, monitorVars, checkVars>>
-----------------------------------------------------------------------------
(* Configurations: those of the cores in the repository, and small ones    *)
(* with groups, channels, filters, patterns and mistakes.                  *)
Plain ==
  [nret |-> 1, isa |-> "rv32i", groups |-> <<None>>, blackbox |-> FALSE, mode |-> "bmc",
   csr_spec |-> None, csrs |-> <<>>, custom_csrs |-> <<>>, illegal_csrs |-> {},
   depth |-> << << <<"insn">>, <<3>> >>, << <<"reg">>, <<2, 3>> >> >>,
   filter_checks |-> <<>>, sort |-> <<>>, assume |-> {}, uses |-> {}]

Nerv ==
  [Plain EXCEPT
    !.isa = "rv32ib",
    !.depth = << << <<"insn">>, <<10>> >>, << <<"reg">>, <<5, 10>> >>, << <<"pc_fwd">>, <<5, 10>> >>,
                 << <<"pc_bwd">>, <<5, 10>> >>, << <<"unique">>, <<1, 5, 10>> >>,
                 << <<"causal">>, <<5, 10>> >>, << <<"cover">>, <<1, 10>> >>, << <<"ill">>, <<10>> >>,
                 << <<"csrw">>, <<10>> >>, << <<"csr_ill">>, <<10>> >>,
                 << <<"bus_imem">>, <<1, 10>> >>, << <<"bus_dmem_fault">>, <<1, 10>> >>,
                 << <<"csrc_zero">>, <<1, 5>> >>, << <<"csrc_any">>, <<1, 5>> >>,
                 << <<"csrc_inc">>, <<1, 5>> >>, << <<"csrc_const">>, <<1, 5>> >>,
                 << <<"csrc_upcnt">>, <<1, 10>> >>, << <<"csrc_hpm">>, <<1, 10>> >> >>,
    !.sort = << <<"reg_ch0">>, <<"csrc_upcnt_", "_ch0">> >>,
    !.csrs = << <<"mcycle", <<Test("upcnt")>> >>, <<"minstret", <<Test("upcnt")>> >>,
                <<"mhpmcounter5", <<Test("inc")>> >>,
                <<"mhpmevent5", <<[Test("hpm") EXCEPT !.value = "1"]>> >>,
                <<"mhpmevent3", <<[Test("hpm") EXCEPT !.value = "3"]>> >>, <<"mstatus", <<>> >> >>,
    !.custom_csrs = << <<"custom_ro", <<[Test("const") EXCEPT !.value = "deadbeef"]>> >>,
                       <<"custom", <<Test("any")>> >> >>,
    !.illegal_csrs = {<<"fff", "msu", "rw">>, <<"f11", "m", "w">>}]

Picorv32 ==
  [Plain EXCEPT
    !.isa = "rv32imc", !.uses = {"channel"},
    !.depth = << << <<"insn">>, <<20>> >>, << <<"reg">>, <<15, 25>> >>, << <<"pc_fwd">>, <<10, 30>> >>,
                 << <<"liveness">>, <<1, 10, 30>> >>, << <<"cover">>, <<1, 15>> >>,
                 << <<"csrw">>, <<15>> >>, << <<"csr_ill">>, <<15>> >>, << <<"csrc_inc">>, <<1, 15>> >>,
                 << <<"csrc_upcnt">>, <<1, 15>> >> >>,
    !.csrs = << <<"mcycle", <<Test("inc"), Test("upcnt")>> >>, <<"minstret", <<Test("inc"), Test("upcnt")>> >> >>,
    !.illegal_csrs = {<<"c00", "u", "w">>, <<"c80", "u", "w">>}]

(* Two groups and two channels; the general names come first.              *)
Grouped ==
  [Plain EXCEPT
    !.nret = 2, !.groups = <<None, "a", "b">>, !.blackbox = TRUE,
    !.depth = << << <<"a_insn">>, <<3>> >>, << <<"insn_ch1">>, <<4>> >>, << <<"b_insn_", "_ch0">>, <<5>> >>,
                 << <<"b_insn_bne_ch0">>, <<6>> >>, << <<"reg">>, <<2, 3>> >>, << <<"reg_ch1">>, <<3, 4>> >>,
                 << <<"a_", "">>, <<1, 2, 5>> >>, << <<"b_hang">>, <<1, 7>> >>,
                 << <<"csrc_inc">>, <<1, 4>> >>, << <<"csrc_inc_mcycle_ch1">>, <<1, 8>> >> >>,
    !.csrs = << <<"mcycle", <<Test("inc"), Test("any")>> >> >>,
    !.filter_checks = << <<"+", <<"a_insn_add">> >>, <<"-", <<"a_", "">> >>, <<"-", <<"reg_ch1">> >> >>]

(* The same without the lines that give a check of group a three numbers.  *)
GroupedOnly == [Grouped EXCEPT !.depth = SelectSeq(@, LAMBDA l : l[1] # <<"a_", "">>)]

Spec112 ==
  [Plain EXCEPT
    !.isa = "rv64ic", !.csr_spec = "1.12",
    !.depth = << << <<"csrw">>, <<4>> >>, << <<"csr_ill">>, <<4>> >>, << <<"csrc_const">>, <<1, 5>> >>,
                 << <<"csrc_zero">>, <<1, 5>> >>, << <<"csrc_hpm">>, <<1, 5>> >>,
                 << <<"csrc_zero_misa">>, <<2, 6>> >> >>,
    !.csrs = << <<"mhpmevent4", <<Test("hpm")>> >>, <<"mcycle", <<>> >> >>]

Assuming ==
  [Plain EXCEPT
    !.isa = "rv32iZbc", !.mode = "prove", !.uses = {"channel"},
    !.assume = {<< << <<"!", <<"insn_add">> >> >>, "sum">>, << << <<"", <<"reg">> >> >>, "notreg">>, << <<>>, "always">>},
    !.csrs = << <<"mcycle", <<>> >>, <<"mhpmevent3", <<Test("hpm")>> >> >>,
    !.depth = << << <<"insn">>, <<3>> >>, << <<"csrc_hpm">>, <<1, 3>> >> >>]

(* Verbatim sections that name the checker and the channel.                *)
Keywords ==
  [Plain EXCEPT !.uses = {"check", "channel"}, !.nret = 2, !.csrs = << <<"mcycle", <<Test("inc")>> >> >>,
    !.depth = << << <<"reg">>, <<1, 3>> >>, << <<"hang">>, <<1, 3>> >>, << <<"csrc_inc">>, <<1, 3>> >> >>]

(* Mistakes: a missing number, keywords that have no value yet.            *)
Mistaken ==
  {[Plain EXCEPT !.depth = << << <<"insn">>, <<3>> >>, << <<"liveness">>, <<1, 30>> >> >>],
   [Plain EXCEPT !.depth = << << <<"insn">>, <<1, 3>> >> >>],
   [Plain EXCEPT !.uses = {"check"}], [Plain EXCEPT !.uses = {"insn"}],
   [Plain EXCEPT !.uses = {"channel"}, !.depth = << << <<"hang">>, <<1, 3>> >> >>]}

AllConfigs ==
  {Nerv, Picorv32, Grouped, GroupedOnly, Spec112, Assuming, Keywords,
   [Plain EXCEPT !.isa = "rv32im", !.nret = 2], [Plain EXCEPT !.isa = "rv32ima"]} \cup Mistaken

Alphabetical ==
  <<"custom", "custom_ro", "marchid", "mcause", "mconfigptr", "mcounteren", "mcycle", "medeleg", "menvcfg",
    "menvcfgh", "mepc", "mhartid", "mhpmcounter3", "mhpmcounter4", "mhpmcounter5", "mhpmevent3",
    "mhpmevent4", "mhpmevent5", "mideleg", "mie", "mimpid", "minstret", "mip", "misa", "mscratch",
    "mstatus", "mstatush", "mtinst", "mtval", "mtval2", "mtvec", "mvendorid">>
-----------------------------------------------------------------------------
(* One cycle in which the core retires an instruction on each channel or   *)
(* none, and what the checks make of it.  The packet is that of a right    *)
(* core with up to two fields changed.                                     *)

(* Instructions of each kind, with operands that make them trap or not.    *)
Packet(name, rs1, rs2, imm, aligned) ==
  [m |-> CHOOSE m \in Models : m.name = name, xlen |-> 32, rs1 |-> rs1, rs2 |-> rs2, imm |-> imm,
   shamt |-> 0, pc |-> 4, rd |-> 5, rdata |-> 198, aligned |-> aligned, compressed |-> FALSE,
   misa |-> NoMisa]

Retired ==
  {Packet("addi", 7, 0, 1, FALSE), [Packet("addi", 7, 0, 1, FALSE) EXCEPT !.rd = 0],
   [Packet("clz", 7, 0, 0, FALSE) EXCEPT !.misa = {"B"}], Packet("add", 0, 7, 0, FALSE),
   Packet("lw", 8, 0, 0, FALSE), Packet("lb", 9, 0, 0, TRUE), Packet("lh", 9, 0, 0, TRUE),
   Packet("sw", 8, 57, 0, FALSE), Packet("sb", 254, 2, 0, FALSE), Packet("sh", 10, 57, 0, TRUE),
   [Packet("beq", 7, 7, 8, FALSE) EXCEPT !.rd = 0], [Packet("beq", 7, 7, 6, FALSE) EXCEPT !.rd = 0],
   Packet("jalr", 16, 0, 0, FALSE), Packet("jalr", 18, 0, 0, FALSE)}

Model(p, o) ==
  [rs1_addr |-> IF p.m.rs1 = "none" \/ p.rs1 = 0 THEN 0 ELSE 1,
   rs2_addr |-> IF p.m.rs2 = "none" \/ p.rs2 = 0 THEN 0 ELSE 2,
   rd_addr  |-> IF p.m.rd = "none" THEN 0 ELSE p.rd,
   misa_rmask |-> IF p.misa = NoMisa THEN {}
                  ELSE p.m.misa \cup IF p.m.kind \in {"jump", "branch"} THEN {"C"} ELSE {},
   lanes |-> Lanes(p), y |-> Byte(p)] @@ o

(* What a right core says: a trap leaves nothing behind.                   *)
Right(p, s) ==
  [trap |-> s.trap, pc_rdata |-> p.pc, pc_wdata |-> s.pc_wdata,
   rs1_addr |-> s.rs1_addr, rs2_addr |-> s.rs2_addr,
   rs1_rdata |-> IF s.rs1_addr = 0 THEN 0 ELSE p.rs1, rs2_rdata |-> IF s.rs2_addr = 0 THEN 0 ELSE p.rs2,
   rd_addr |-> IF s.trap THEN 0 ELSE s.rd_addr, rd_wdata |-> IF s.trap THEN 0 ELSE s.rd_wdata,
   mem_addr |-> s.mem_addr, rmask |-> IF s.trap THEN {} ELSE s.rmask, wmask |-> IF s.trap THEN {} ELSE s.wmask,
   mem_rdata |-> p.rdata, mem_wdata |-> s.mem_wdata, misa_rmask |-> s.misa_rmask,
   mem_fault |-> FALSE, fault_rmask |-> {}, fault_wmask |-> {}]

Masks(s) == {{}, {0}, {1}, s.rmask, s.wmask, 0 .. s.lanes - 1}
Changes(p, s) ==
  [trap |-> BOOLEAN, pc_wdata |-> {s.pc_wdata + 2}, rs1_addr |-> {0, 3}, rs2_addr |-> {0, 3},
   rs1_rdata |-> IF s.rs1_addr = 0 THEN {9} ELSE {}, rs2_rdata |-> IF s.rs2_addr = 0 THEN {9} ELSE {},
   rd_addr |-> {0, 5, 6}, rd_wdata |-> {0, s.rd_wdata, 33}, mem_addr |-> {Low(s.mem_addr + 1, X)},
   rmask |-> Masks(s), wmask |-> Masks(s), mem_wdata |-> {p.rdata, 0, 1}, misa_rmask |-> {{}, {"B", "C"}},
   mem_fault |-> {TRUE}, fault_rmask |-> Masks(s), fault_wmask |-> Masks(s)]

Changed(k, choices) == UNION {{[k EXCEPT ![f] = v] : v \in choices[f]} : f \in DOMAIN choices}

Refusal(k, s) ==
  [k EXCEPT !.mem_fault = TRUE, !.trap = TRUE, !.rmask = {}, !.wmask = {}, !.rd_addr = 0,
            !.rd_wdata = 0, !.fault_rmask = s.rmask, !.fault_wmask = s.wmask]

(* Packets with at most one field changed, and with at most two.           *)
OneChanged(p) ==
  UNION {LET s == Model(p, o)
             k == Right(p, s)
         IN  {[k |-> j, s |-> s] : j \in {k, Refusal(k, s)} \cup Changed(k, Changes(p, s))} : o \in Outputs(p)}

TwoChanged(p) ==
  UNION {{[k |-> j, s |-> x.s] : j \in {x.k} \cup Changed(x.k, Changes(p, x.s))} : x \in OneChanged(p)}

Plainest ==
  [invalid |-> {}, insn_pma_x |-> TRUE, mem_pma_r |-> TRUE, mem_pma_w |-> TRUE, MEM_FAULT |-> FALSE,
   ignore_mem |-> FALSE]
Envs ==
  {Plainest, [Plainest EXCEPT !.insn_pma_x = FALSE], [Plainest EXCEPT !.mem_pma_r = FALSE],
   [Plainest EXCEPT !.mem_pma_w = FALSE, !.MEM_FAULT = TRUE], [Plainest EXCEPT !.MEM_FAULT = TRUE],
   [Plainest EXCEPT !.invalid = {8, 9, 10}], [Plainest EXCEPT !.invalid = {4, 255}]}

(* Two where the ports are as they come from the generator, with and       *)
(* without RISCV_FORMAL_MEM_FAULT, and one where the memory has holes.     *)
Looked(p) == IF env \in {Plainest, [Plainest EXCEPT !.MEM_FAULT = TRUE]} THEN TwoChanged(p) ELSE OneChanged(p)

(* What the other channels have next to the packet that is looked at.      *)
Beside ==
  LET p == Packet("addi", 7, 0, 1, FALSE)
  IN  {Quiet} \cup
      UNION {LET s == Model(p, o)
                 k == Right(p, s)
             IN  {[k |-> j, s |-> s] : j \in {k} \cup Changed(k, [trap |-> {TRUE}, rs1_addr |-> {3}, rd_wdata |-> {33}])}
             : o \in Outputs(p)}

Cycle(c, x, b) == [d \in Channels |-> IF d = c THEN x ELSE b]

(* turn says which packet is looked at, and what stands beside it.         *)
ChecksInit ==
  /\ \/ env \in Envs /\ turn \in [looked : Retired]
     \/ env \in {Plainest, [Plainest EXCEPT !.ignore_mem = TRUE]} /\ turn \in [looked : Retired, beside : Beside]
  /\ CheckInit /\ in_reset = FALSE

Retire ==
  /\ turn # Nothing /\ turn' = Nothing
  /\ \/ /\ DOMAIN turn = {"looked"}
        /\ \E x \in Looked(turn.looked) : rvfi' = Cycle(CHANNEL_IDX, x, Quiet)
        /\ in_reset' = FALSE
     \/ /\ DOMAIN turn = {"looked", "beside"}
        /\ \E c \in Channels, x \in OneChanged(turn.looked) : rvfi' = Cycle(c, x, turn.beside)
        /\ in_reset' \in BOOLEAN
  /\ stream_errcode' = 0 /\ Clock

(* Bound: two more cycles, in which nothing retires; they are the          *)
(* monitor's, which knows nothing of the other configurations.             *)
Report ==
  /\ turn = Nothing
  /\ env \in {Plainest, [Plainest EXCEPT !.ignore_mem = TRUE]}
  /\ rvfi # Silence \/ shown # Silence
  /\ rvfi' = Silence /\ in_reset' \in BOOLEAN /\ stream_errcode' \in {0, 231} /\ Clock
  /\ UNCHANGED turn

ChecksNext == (Retire \/ Report) /\ UNCHANGED <<word, claiming, packet, out>>
-----------------------------------------------------------------------------
Undecoded == word = NoWord /\ claiming = Nothing /\ packet = Nothing /\ out = Nothing
InsnsOff  == turn = Nothing /\ Undecoded
GenOff ==
  /\ cfg = Plain /\ todo = <<>> /\ jobs = <<>> /\ csrs = {} /\ hargs = <<>>
  /\ files = <<>> /\ makefile = <<>> /\ status = "off"
ScheduleOff ==
  /\ start = 1 /\ trigger = 1 /\ depth = 1
  /\ step = 0 /\ reset = TRUE /\ cycle_reg = 0 /\ trigs = {} /\ checks = {}

ChecksOff ==
  /\ rvfi = Silence /\ env = Plainest /\ in_reset = FALSE
  /\ ch_errcode = 0 /\ stream_errcode = 0 /\ monitor_errcode = 0
  /\ shown = Silence /\ told = Silence

MCInit ==
  \/ part = "insns"    /\ InsnInit /\ ChecksOff  /\ GenOff  /\ ScheduleOff /\ MonitorOff
  \/ part = "checked"  /\ Undecoded /\ ChecksInit /\ GenOff  /\ ScheduleOff /\ MonitorOff
  \/ part = "generate" /\ InsnsOff /\ ChecksOff  /\ GenInit /\ ScheduleOff /\ MonitorOff
  \/ part = "schedule" /\ InsnsOff /\ ChecksOff  /\ GenOff  /\ Init /\ MonitorOff
  \/ part = "monitor"  /\ InsnsOff /\ ChecksOff  /\ GenOff  /\ ScheduleOff /\ MonitorInit

(* The testbench of a generated file; without a trigger any cycle will do. *)
Numbers ==
  {<<f.start, IF f.trig = 0 THEN f.check_cycle ELSE f.trig, f.check_cycle>> : f \in Range(files)}

Testbench ==
  /\ part = "generate" /\ status = "done"
  /\ part' = "schedule"
  /\ \E n \in Numbers : start' = n[1] /\ trigger' = n[2] /\ depth' = n[3]
  /\ UNCHANGED <<insnVars, checkVars, genVars, step, reset, cycle_reg, trigs, checks, monitorVars>>

MCNext ==
  \/ part = "insns"    /\ InsnNext /\ UNCHANGED <<checkVars, genVars, vars, part, monitorVars>>
  \/ part = "checked"  /\ ChecksNext /\ UNCHANGED <<genVars, vars, part, monitorVars>>
  \/ part = "generate" /\ GenNext  /\ UNCHANGED <<insnVars, checkVars, vars, part, monitorVars>>
  \/ part = "schedule" /\ Next     /\ UNCHANGED <<insnVars, checkVars, genVars, part, monitorVars>>
  \/ part = "monitor"  /\ MonitorNext /\ UNCHANGED <<insnVars, checkVars, genVars, vars, part>>
  \/ Testbench

MCSpec == MCInit /\ [][MCNext]_allVars
-----------------------------------------------------------------------------
(* The schedule, the parts of the monitor and the packets have their types. *)
PartsTyped == TypeOK /\ MonitorTyped /\ Driven
=============================================================================
