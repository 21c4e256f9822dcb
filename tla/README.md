# Verification of riscv-formal

This directory holds TLA+ specifications of this repository: of the checkers and
the runtime monitor that observe a RISC-V core and decide whether it is right, of
the instruction models they decide by, of the script that generates the checks,
and of two of the cores under test with the cache of one of them; TLC
configurations that check them on small instances; and TLAPS proofs of the most
important results for every value of the constants.  Paths below are relative to
the repository.

## 1. The system

riscv-formal checks a RISC-V core through the RISC-V Formal Interface (RVFI):
in every clock cycle the core drives `NRET` channels, each with at most one
packet that describes a retired instruction (its order, pc before and after,
registers and memory bytes read and written, trap, interrupt and halt flags).
A formal check is one *checker* next to one core under one *testbench*; the
solver chooses the program, the core's inputs and the checker's rand consts.
The checker cannot influence the core except through assumptions.  The same
interface also feeds a *runtime monitor*, generated hardware that follows a core
in simulation or on an FPGA.

| part | where | state it keeps | operations | what is hard, what must hold |
| --- | --- | --- | --- | --- |
| stream checkers (reg, pc, causal, unique, liveness, hang, memory causality, i/o causality, dmem) | `checks/rvfi_*_check.sv` | rand consts that select an instruction, a register or an address; a few registers that accumulate what was seen | reset, fold a cycle, trigger, check | packets arrive out of program order, on several channels of one cycle, before the checker leaves reset and in the very cycle of the check, where only the channels below the checked one count. A verdict must be *exact*: fail on every wrong core, pass on every right one |
| instruction checks | `checks/rvfi_insn_check.sv`, `monitor/generate.py` | none; an error register in the monitor | compare a packet with its model | which fields matter depends on trap, refusal, masks and register zero; priority of error codes, three cycles of latency |
| testbench | `checks/rvfi_testbench.sv` | an eight bit cycle counter | clock | the check must come in sby's last step and only there; off-by-one and saturation |
| check generator | `checks/genchecks.py` | configuration sections, the set of checks, the CSRs so far, the keywords of the verbatim sections | one call per group, instruction, CSR, test and channel | checks are selected by first and last matching lines, state is carried from call to call; a check that is dropped, overwritten or given another's depth goes unnoticed |
| instruction models and ISA database | `insns/generate.py` | none (combinational); the database while the script runs | one module per instruction, one per ISA | encodings that overlap between extensions and XLENs, scattered immediates, Verilog's rules of width and sign |
| monitor: reorder buffer | `monitor/generate.py` | slots, valid bits, cursor | push and pop in the same cycle | collisions of slots, pops and pushes of one cycle, loss |
| monitor: shadow pc, shadow registers | `monitor/generate.py` | the last pc, trap flag and register values | fold a cycle in channel order | forwarding between the channels of a cycle |
| bus observers and checkers | `bus/`, `checks/rvfi_bus_*` | outstanding transactions, a shadow of the memory | clock | matching of address, data and answer phases |
| NERV core | `cores/nerv/nerv.sv` | pc, registers, CSRs, a late memory access | clock | priority of stall, late cycle, interrupt, fault and trap in one cycle |
| NERV cache | `cores/nerv/axi_cache/` | two direct mapped caches, a bypass for i/o, an AXI manager | clock; channel handshakes | refill, write-back and bypass in any order and any delay, stalls and errors |
| Hippomenes core | `cores/hippomenes/` | stacked register file, interleaved memory | clock; push, pop | a write by the handler in the cycle of the push, overflow of the stack |
| other wrappers, tests, examples | `cores/`, `tests/`, `examples/` | the core's own | | not models of anything here |

How they interact:

```
 insns/generate.py --(rvfi_insn_<name>, rvfi_isa_<isa>)--> instruction checks, monitor
 genchecks.py --(one sby file per check: defines, depth, trigger, reset)--> testbench
 core --(RVFI packets)--> one checker        verdict = assertion in the check cycle
 core --(RVFI packets)--> monitor:  instruction check ------------------\
                                    reorder buffer --(in-order stream)--> shadow pc ----> error code
                                                                     \--> shadow registers
 NERV core <-> { icache, dcache, i/o bypass } <-> AXI manager <-> subordinate
```

The concurrency is that of synchronous hardware: a step is a clock cycle, and
what races are the channels of one cycle, nonblocking reads of the cycle's
start, retirement orders chosen by the core and delays chosen by the bus.  In the
generator a step is one call of `check_insn` or `check_cons`, and what matters is
what a call leaves behind for the next.

## 2. Modules

### The core side: which streams of packets are considered

* `RvfiParameters` holds the number of channels, the channel under check and the
  number of instructions, with their assumptions.
* `RvfiChannels` has what the pc and uniqueness checkers need to know of a
  cycle: an assignment of instructions to channels.
* `RvfiStream` is a core as seen by the register checkers.  An instruction is
  an order in `0 .. N - 1` with at most two registers read and one written; the
  program is chosen in the initial state.  A cycle gives each channel an
  instruction not yet retired, or nothing.  `KEEP_CAUSALITY` restricts the core
  to never retiring a reader before the writer it reads from and
  `KEEP_WRITE_ORDER` to retiring the writes of one register in order; with both
  FALSE the core retires in any order.  A value is the order of the write that
  produced it (0 for none, else order + 1), so that two different writes never
  look alike by accident.

### The checkers

Each module has the registers of its file under their names, `Reset` (a cycle
while the checker is in reset, during which the core already runs), `Observe`
(an ordinary cycle) and `Check` (the check cycle, after which the trace ends);
blocking assignments in a `for` over channels become "the highest hit channel".
A history variable `seen` records which orders the checker has been shown: the
reference definition is stated from the program and `seen`, never from the
checker's registers.

| module | code | reference definition and property |
| --- | --- | --- |
| `RvfiRegCheck` | `rvfi_reg_check.sv` | `VerdictExact`: fails exactly when the checked instruction reads the register under check, a write of it was seen, and the reported value is not the architectural one |
| `RvfiPcCheck` | `rvfi_pc_fwd_check.sv`, `rvfi_pc_bwd_check.sv` | `NeighbourExact`: fails exactly when the predecessor (successor) was seen and the later of the two neither continues where the earlier ended nor starts a trap handler |
| `RvfiCausalCheck` | `rvfi_causal_check.sv` | `CausalVerdict`: on any core, a pass means that no dependent read was seen before the write; a core with both restrictions is never rejected |
| `RvfiUniqueCheck` | `rvfi_unique_check.sv` | `UniqueExact`: fails exactly when the order of the triggering packet was used twice, before, after or next to it, also by a core that rolls back |
| `RvfiProgressChecks` | `rvfi_liveness_check.sv`, `rvfi_hang_check.sv` | `ProgressVerdict`: a core that keeps its latency is rejected only when the check comes less than `LATENCY` cycles after the trigger (the reset) or what it waits for happened during reset or is past the program's end; a pass means that it really happened in front of the checker |
| `RvfiMemCausality` | `rvfi_causal_mem_check.sv`, `rvfi_causal_io_check.sv` | `MemVerdict` as for registers, byte by byte; `IoExact`: fails exactly when a later i/o access was seen before the checked one |
| `RvfiDmemCheck` | `rvfi_dmem_check.sv` | `DmemExact`: fails exactly if a byte read at a valid address differs from the byte last written |

`MCCheckers` composes the checkers: as in the testbench, *one* checker is
instantiated next to a core, and the variable `checker`, chosen initially and
kept, says which; the variables of the others rest at `Off`.  `MCTestbench` adds
the two cores below with the same selector.

### What the scripts generate

* `InsnFormats`, `InsnModels`, `IsaDatabase`: an instruction word is the set of
  positions of its one bits.  A format is a table of fields, each the sequence
  of bits the Verilog concatenates; a model is a record of what it claims
  (opcode, functs, nonzero and excluded fields, XLENs), one operator per `insn_*`
  function of the script and one application per call.  `IsaDatabase` has what
  the script puts into which ISA, the propagation from ISA to ISA and the fixup
  of the 64-bit ones.
* `InsnSemantics` is what a model computes from a packet (result, next pc, trap,
  addresses, masks, data), with the Verilog's widths and signedness, on registers
  of `X` bits; four bytes in RV32, eight in RV64, so that a byte of a 64-bit
  register has one bit when `X` is 8.  XPERM4 would lose its meaning there (half a
  byte of RV32 has one bit, and an index of one bit shifts as far as the field it
  names), so `MCInsns` executes XPERM4 and XPERM8 with `X` 16 (`Wider`).
* `InsnReference` is the ISA manual: how an assembler lays out fields, what a
  compressed instruction expands to, which instructions a bit of misa turns off,
  and results on integers and bit sets; and
  the hand-written decoders of `tests/coverage`.
* `MCInsns` presents words to all models (`OneHot`, `Coverage`, `Hierarchy`,
  `Reassembles`) and packets to one (`ResultExact`, `PcExact`, `MemExact`).
  `ResultExact` leaves out the operands for which a model is known to deviate
  (`Deviating`), and no model as a whole.  A trap is compared in every
  configuration of misa: an instruction traps when the extension that the database
  of ISAs has it in is off, whatever its model asks of misa.
* `InsnChecks` has `rvfi_insn_check` with `RISCV_FORMAL_MEM_FAULT`, physical
  memory attributes and invalid addresses, and the monitor's instruction check
  with the register that reports one of several errors.  `InsnVerdict` compares
  the verdict with the *effect* of the packet on every memory it could have seen,
  not field by field; `MonitorReports` follows a packet through the monitor's
  pipeline to the error code.  `Clock` is a cycle of the monitor on any inputs
  (`CheckSpec`); `Driven` says what a packet and the outputs of a model are, and
  `MCGenerators` checks that what it drives is that.  The codes of the channels
  end before those of the reorder buffer begin (`ErrcodeAssumption`), which is so
  with up to 599 channels.
* `GenChecks` is `genchecks.py`: the main loops as a list of calls still to make
  (`todo`), `check_insn` and `check_cons` with the state they leave behind
  (`csrs`, `hargs`), the files and the makefile.  `Complete`: exactly the checks
  that have a depth and are not filtered are written and run.  `DepthMeant`: at
  the numbers of the line that is meant for them.  `KeywordsCurrent`: no verbatim
  section sees a keyword of an earlier call, in the calls where that is so.
  `DefinesExact`: a file defines the CSRs that its check needs.  `NeverOverwritten`:
  a file stays what it was.
* `CheckSchedule` is the cycle counter of the testbench with the numbers of the
  sby file.  `OnSchedule` says that the checker's `check` input is high, out of
  reset, in sby's last step and in no other, and that it is triggered exactly
  once, before the check or together with it.  In `MCGenerators` the numbers come
  either from any admissible choice or from the files `GenChecks` has written
  (action `Testbench`).

### The monitor

* `InOrderStream` is what the shadow state relies on: packets leave in program
  order without a gap, in the lowest channels.  It is the abstract specification of
* `MonitorRob`, the reorder buffer.  A packet with order `o` is stored in slot
  `o % DEPTH`; the overflow test and the pops of a cycle see the state at its
  start, and a pop's clear wins over a push, as with the nonblocking assignments
  of the generated Verilog.  The core retires nothing `WINDOW` or more beyond
  the oldest missing order.  `Reorders` is the refinement, `NeverComplains` says
  that no error code is raised, `ComesOut` that everything leaves.  For a buffer
  that is too small, `SoundUntilReported` says that until an error is reported
  every cycle is one of the in-order stream, so that what leaves is the program
  from its start, and that an order that was lost (its packet is gone and the
  cursor has not passed it) stays lost: nothing from it on ever leaves.  A loss
  itself need not be reported: with two channels and two slots, seven orders
  suffice to lose a packet in silence, because the overflow test looks at the
  slots as they were before the cycle; the buffer then waits for ever.
* `MonitorPc` and `MonitorRegs` fold the in-order stream into the shadow pc and
  the shadow registers, with the forwarding between channels of a cycle.
* `MCMonitor` composes them with the same selector idiom; `MCGenerators` extends
  it and runs it.

### The NERV core

* `NervMachine` is the abstract specification: an in-order machine that retires an
  instruction, enters a trap handler or takes an interrupt, each as a whole, and
  rests in between.
* `NervCore` is `nerv.sv` with its RVFI port: every cycle with stall, bus data,
  fault, interrupt and reset inputs free, as in `wrapper.sv`.  Its registers are
  pc, register file, the CSRs that steer traps and interrupts (mtvec, mepc,
  mcause, mie, mstatus.MIE and MPIE), the pending access, and the
  output registers of the port.  `Execute` is the refinement: what the port
  reports is a step of the machine, in whatever order stalls, second cycles,
  faults and interrupts come.  `OneAtATime` says that an access is put on the bus
  once and retires once.  `QUIET` is the restriction that no ECALL, EBREAK or
  MRET is on the instruction bus while the core waits; without it the refinement
  has to allow for what finding 8 shows.

### The Hippomenes register file

* `RegFileParameters`, `RegFileStack`: `regfile_stack.veryl` with its chain of
  `regfile_instance.veryl`, any depth and any masks; a step is a clock edge:
  `Reset`, `Normal`, `Push`, `Pop`.
* `ContextStack` is what its README promises: an entry saves the registers of the
  stack mask, a return restores them and only them.  `Restores` is the
  refinement: contexts are the instances that hold one, in order.

### The NERV cache

* `NervMemory` is the abstract specification: the core sees a memory.
* `NervCache` is `nerv_axi_cache_dcache.sv` and, with the write port off,
  `nerv_axi_cache_icache.sv`; `NervCacheIo` is the bypass and `NervCacheAxi` the
  AXI manager (`nerv_axi_cache.sv`).
* `NervAxiCache` composes them with the core's side of the interface (`Core`:
  the registers of `nerv.sv` that time the accesses; which addresses are
  accessed and what is stored is arbitrary, an over-approximation of the real
  core) and an external AXI subordinate that answers after any delay, reads and
  writes independently of each other.  The refinement mapping `Memory` reads a
  word from the access in flight, else from the cache, else from the line that
  waits to be written back, else from memory.
* `MCNervCache` gives the addresses.

Abstractions: a line is a function from `0 .. BEATS - 1` to data; byte strobes
are abstracted to whole words; registers whose value the code leaves to be
overwritten before any use are reset to one value, and read data while `rvalid`
is low is one value.

## 3. Runs

| run | shows | bounds and why they are enough |
| --- | --- | --- |
| `MCTestbench` | each stream checker is as its table row says; the NERV core runs as an in-order machine; the register stack restores what was saved | see below |
| `MCGenerators` | instruction models, instruction checks, check generator, schedule and the monitor's parts | see below |
| `MCRob` | a buffer twice as deep as the window never errs, implements the in-order stream and delivers everything | 12 orders over 8 slots: every slot that matters is reused; window 4 = DEPTH / 2, the tight case |
| `MCNervCache` | the core sees a memory; offers stay; every stall ends | one index for each cache, so that every second line conflicts: 2 lines of code, 2 cacheable lines of data and an i/o line, 2 beats, and either no faults or faults in one line of each kind |
| `MCPcBwdTwoChannels` (violation) | `pc_bwd` with two channels | 2 channels |
| `MCRegCheckReorder` (violation) | without write order, a right core is rejected by `reg` | as in `MCTestbench` |
| `MCDmemTwoChannels` (violation) | `dmem` on channel 1 | the first cycle is enough |
| `MCMonitorPcJump` (violation) | forwarding of the trap flag | as in `MCGenerators` |
| `MCScheduleDeep` (violation) | a depth beyond the counter checks nothing | counter of 7 |
| `MCInsnsDiv` (violation) | DIV divides unsigned numbers | the operands of `MCGenerators` |
| `MCNervCoreStall` (violation) | a stalled ECALL acts | the constants of `MCTestbench` |
| `MCNervCacheStall` (violation) | a stall in the first cycle after reset | as in `MCNervCache` |

**MCTestbench.**  3 instructions (two writers and a reader, or
reader-writer-reader), 2 registers (x0 and one more), 2 channels, the checked one
being the higher: an instruction can be in an earlier cycle, in the same cycle
below it, and in reset.  Pcs `{0, 4}`, so that continuity and a break are both
possible; for the liveness and hang checks latency 2 in traces of at most 6
cycles, long enough for two gaps of that length after the trigger; for memory,
two words, one of them valid, and two byte lanes.  `pc_bwd` and `dmem` are exact with one channel only
and run with one here (findings 1 and 5).  Symmetry is broken in the initial
states (`Sorted`, `RegPackets`, the first pc): sources in one order, and a
trapping packet names a destination.  NERV: `WORDS` 8 addresses,
3 retired instructions (`MAX_ORDER`), ten instructions, one of each kind and the
three CSR writes that change traps and interrupts, two interrupts, loaded values `{0, 5}`; a load, its
fault and a handler's first instruction fit into 3.  Register stack: depth 3,
that is two contexts, so that a third push overflows; registers with and without
backing store, stacked and not; two values.

**MCGenerators.**  Registers of 8 bits, of 16 for XPERM4 and XPERM8
(in RV64, where half a byte would still be one bit, XPERM4 is not executed: its
loop differs from that of RV32 only in its bound); operands at every boundary (zero, one, all
ones, both signs, shift amounts around 7 and 8, alternating bits), offsets and pcs
that are aligned to 2, to 4 and not, and that wrap.  Words: every funct7 and
funct3 of the opcodes that have them with fields above and below (with an rs2
other than x0 only for funct7 that leave 0 or 1 modulo 4, as the ones in use do),
every opcode with none, one, all and all but one of the remaining bits, and the
16-bit words with four values of bits 7 to 9.  Instruction
checks: fourteen packets, trapping and not, with up to two fields
changed (with one in the rarer configurations, named by `Looked`, and when two
channels are used), and two further cycles for the monitor's latency.  Generator: the sections of
`cores/nerv/checks.cfg` and `cores/picorv32/checks.cfg` in substance, and small
configurations with groups, two channels, filters, patterns, assumptions, the
1.12 list of CSRs (three of its 29 hpm counters) and mistakes.  Schedule: the
counter saturates at 30 and admissible depths go to 32, so that the depths of NERV's and
PicoRV32's checks are below the bound and both sides of it are reached.
Monitor: three packets give a pair within a cycle and a pair across cycles
(`PcFixed`, `RegsSorted`, `FirstWrites`, `LastReads` name the symmetric cases that are left out); 6 orders in
any retirement order over a reorder buffer of 2 slots collide up to three deep.

`CHECK_DEADLOCK FALSE` is given where the system really stops: a checker's trace
ends with the check, sby's with its last step, the generator's with its makefile.
The cache's clock never stops, and `StallEnds` says more than the absence of
deadlock.

**Fairness.**  The reorder buffer's clock runs (`WF_vars(Next)`): what can
be popped is popped, since how many packets leave in a cycle is not a choice.
`ComesOut` asks nothing of an instruction whose predecessors the core does not
retire.  For the cache, the clock runs (`clock` toggles in every cycle, so that
weak fairness means that time passes even if nothing else changes) and the
subordinate takes what is offered and answers what it has taken *eventually*;
AXI requires that of it.  No fairness is assumed of the core: it may be stalled
from outside for ever, and `StallEnds` speaks of the cache's own `stall`.  The
checkers, the generator, the schedule and the NERV core need none: their
properties are about safety, and a core that is stalled or interrupted for ever
retires nothing.

## 4. Proofs

* `RvfiRegCheckProofs!Exact`: `Spec => []VerdictExact` for every number of
  channels, instructions and registers, under `KEEP_CAUSALITY` and
  `KEEP_WRITE_ORDER`; `Typed` is the type invariant.  `VerdictExact` speaks of
  the last step only; the inductive invariant says what the shadow register holds
  *before* it: the value of the highest seen write below `insn_order`
  (`ShadowNewest`), because a core that keeps the order of writes shows that one
  last.  That needs that the retired writes of a register are a prefix of its
  writes (`WritersPrefix`) and that what retired during reset is older than what
  was seen (`SeenLater`).
* `MCTestbenchProofs!UniqueOrders`: `UniqueExact` for every number of channels and
  instructions, on any core.  The invariant counts: `found_other_insn` is set
  exactly when the order under check was used twice out of reset, or once more
  than the trigger (`Counts`), nothing is counted in reset (`InReset`), and the
  verdict is that of the check cycle (`Decided`).
* `MonitorRobProofs!Typed`, `SoundAlways`: for every depth and window the reorder
  buffer is well typed and satisfies `SoundUntilReported`.  The invariant (`Holds`)
  is that a valid slot holds an order of its own residue that has retired, which the
  disorder test then compares with the cursor; so the packet that leaves is the
  cursor's, or an error is reported in the same cycle.
* `MonitorRobProofs!Fits`, `Refines`: with `2 * WINDOW <= DEPTH`
  the reorder buffer never complains and implements `InOrderStream`,
  for all values of the constants.  `NeverComplains` is not
  inductive: that no slot collides needs that the valid slots hold exactly the
  waiting orders (`SlotsHold`), that everything popped had retired
  (`PrefixRetired`), that the core keeps its window (`KeptWindow`), and that at
  most `WINDOW` packets wait (`FewWait`), by counting: either all
  channels are popped, and no more arrive than left, or the buffer has stopped at
  a missing order and all that waits lies in the window beyond it.
* `GeneratedProofs!Schedules`: `OnSchedule` for a counter of every width.
  The invariant ties the counter to sby's step until it saturates
  (`CounterIsStep`) and says what has been recorded by then (`Recorded`).
* `GeneratedProofs!MonitorReportsExactly`, `MonitorTypes`, `MonitorSoundAlways`:
  `MonitorExact`, `MonitorTyped` and `MonitorSound` for every number of channels,
  program and order of retirement.  The packets of a cycle are the orders `first`
  to `first + k - 1` (`Came`); the shadow pc and registers are those of the
  program before `first` (`PcShadow`, `RegShadow`), and forwarding from lower
  channels adds exactly the orders between `first` and the channel's own.  The
  register of the last write below an order is found by the well-foundedness of
  the naturals.
* `GeneratedProofs!ChecksExactly`: `InsnVerdict` for every width of a register,
  configuration, packet and output of a model, of whatever instruction.  The
  code asserts something of every lane of a word and the property speaks of
  every memory: the addresses of the lanes are different, also where they wrap
  around (`LaneOf`, `InBytes`), so that a lane is what the packet leaves at its
  address (`LaneEffect`); and a byte which the packet rewrites and the instruction
  does not is harmless exactly if the packet has read it and writes that value,
  because there are memories with another (`SameLanes`).
* `GeneratedProofs!ReportsAlways`: `MonitorReports` for every number of channels
  and any sequence of packets and resets.  A code is about the packets of one
  cycle earlier, and what is reported about those of two; the invariant
  (`CheckInv`) says what the code of each channel says of the packet shown
  (`Judged`), so that a report becomes true of the packets when they are told.
  The tests overwrite each other, and the last one that fails gives the code
  (`LastIn`, `MismatchIs`); a code of the checks behind the reorder buffer is none
  of the instruction check's (`StreamCodesAre`).
* `NervCoreProofs!CoreExecutes`: the refinement `Execute` of `NervCore` to
  `NervMachine`, for all instructions, addresses, values, interrupts and
  inputs.  The invariant `IInv` adds to the types what is true of an instruction
  that has begun and not retired (`Begun`: the pc, the access and its register are
  those of the instruction the port will report) and what of it is on the bus
  (`OnBus`, `OneAtATime`).  A cycle is one of seven (`CycleCases`): reset, stall,
  second cycle of a load or store, its fault, interrupt, trap, or
  an instruction; there is a lemma for each, and a reset or a stalled cycle
  stutters.  `MCTestbenchProofs!NervExecutes` and `NervOneAtATime` carry it to the
  testbench, for the builds with and without `NERV_FAULT`, from the named
  assumption `CoreAssumption` on the inputs.
* `NervAxiCacheProofs!ImplementsMemory`, `AnswersMemory`, `WritesBackRead`,
  `StaysOffered`, `Typed`: what `MCNervCache` checks of the cache, but for
  liveness, for every number of entries (`COUNT`), length of a line (`BEATS`),
  contents of the memory and set of faulty lines, whatever the delays and stalls
  from outside. The refinement is not inductive by itself: it needs to know what
  is under way. `NervCacheProofs` speaks of one cache in front of a memory; its
  invariant `CInv` says that an entry which was not stored to is the line in
  memory (`Placed`), that the place of the line requested holds that line or
  nothing (`Held`), that the core is shown what was found (`Shown`), and that
  the line waiting to be written back is another line of the same place, and in
  memory once that was answered (`Evicted`). Its lemmas follow a cycle: what
  becomes of the entry that is looked up (`Entered`), of the line that has to
  leave (`NextEvicted`), of the request (`NextRequest`), and that the lines as
  the core sees them change by its store and by nothing else (`NextView`), under
  the hypothesis that an answer is that of the memory (`Given`).
  `NervAxiCacheProofs` discharges the hypothesis: while the AXI manager reads,
  the beats that arrived are the words of the line requested, in order (`Reads`,
  `ReadInv`), and what the subordinate has taken of a write is the beginning of
  what was sent (`Writes`, `WriteInv`), so that an answer is never given for
  another request, and a write takes effect as a whole. `FetchInv`, `LateInv`
  and `IoInv` tie the requests to what the core waits for. The first cycle, of
  reset, is a case of its own in `IInv`: in it the reset overrides every state
  machine, and nothing is on the bus yet (`ResetStep`). What the core sees of
  the memory is the view of the data cache with the store that has not been
  taken yet (`View`, `Overlaid`).
* `RegFileStackProofs!Implements`: the stacked register file implements
  `ContextStack` with `Depth - 1` contexts, for every depth, masks and data.
  The mapping takes the innermost `held` instances as the contexts; a push shifts
  all instances and the lemmas say that each context but the one pushed out is
  found one deeper (and the other way round for a pop), and that a register
  outside the stack mask is untouched by both.
* `MCTestbenchProofs`: the composition adds nothing.  Its invariants say
  that `checker` is kept and that the variables of the part that was chosen
  step as in the component's own specification (`CheckerInit`, `CheckerNext`,
  `SamePart`); from there `RegExact`, `UniqueOrders` and `StackRestores` are the
  components' theorems, instantiated, and now state the very properties that
  `MCTestbench` checks.  `Neighbours` proves `NeighbourExact` there directly:
  the invariant says that the expected pc is that of the neighbour exactly
  when the neighbour was shown.
* `MCTestbenchProofs!Causality`, `MemoryCausality`, `IoCausality`: `CausalVerdict`,
  `MemVerdict` and `IoExact` of the testbench, for every number of channels,
  orders and registers.  That nothing is missed concerns the checker alone:
  while its flag is clear no later reader has been shown (`CausalInv`,
  `MemInv`).  That no core which keeps causality is rejected concerns the core:
  the set of retired orders is closed under "an earlier write of the register
  that the instruction reads" (`Closed`), which needs that it is closed under
  earlier writes of the register that it writes (`WritesClosed`), and this
  holds before every channel of a cycle, not only between cycles
  (`KeptBefore`).  So a retired later reader would imply that the checked write,
  which retires last, had retired before.  `MCCheckers` gives the memory
  checkers their bytes, so the bytes are those of the runs.
* `MCTestbenchProofs!DataMemory`: `DmemExact` for every memory, valid addresses,
  lanes and data, on one channel (with two it is false: finding 5). The
  invariant `DmemInv` says that the shadow is the memory's word, lane by lane,
  where it is known, and that a lane is known exactly when it was written after
  reset.
* `MCTestbenchProofs!BoundedProgress`: `ProgressVerdict` for every latency, number of
  channels and orders, of a core whose latency is an assumption of the model
  (`CoreInv`).  The two flags say what was seen after reset (`FlagsInv`).  The
  argument for `hang`: if nothing retired for `LATENCY` cycles after reset, the
  first instruction had retired before, and with each one its successor, so all
  had (`AllUpTo`, from the well-foundedness of the naturals).
* `MCTestbenchProofs!TestbenchTypes`: `PartsTyped`, the types of every checker and
  core of the testbench and of the history beside them, for every number of
  channels and orders.  Most checkers are well typed by themselves, one lemma for
  each (`PcTypes`, `CausalTypes`, `MemTypes`).  The progress checkers are not: that
  `released` is a cycle that has begun, and that nothing is triggered in reset,
  has to be known with it (`ProgressTyped`).  The types of the data memory, of the
  register and uniqueness checkers, of the cores and of the register file come from
  the invariants above (`TypesInv`).

The assumptions are the named `ASSUME`s of the modules and, in the statements of
the theorems, the restriction on the core or the depth.  For the cache they are
that sizes are positive, that memory has data in every word, and that no line holds
both code and data (`CodeAssumption`): the two caches are not kept coherent with
each other, and nothing in the code says that they should be.  `PowerAssumption`
says that 2^w is a natural number above w, for the widths up to `X`: the provers have
no theory of exponents.  TLC evaluates every
assumption in the runs that extend their module.

Model-checked only: all liveness under fairness (`ComesOut`, `StallEnds`: the
prover does not do fairness); the generator (`Complete`, `DepthMeant`,
`KeywordsCurrent`, `DefinesExact`, `NeverOverwritten`): its inputs are
configurations and not parameters, the names it makes are concatenated strings,
of which the provers know nothing, and its files are sequences folded over data;
the types of the generators' parts (`PartsTyped` of `MCGenerators`), as that
module reaches the bitwise library; and the instruction models, whose operators
use the bitwise library (`OneHot`, `Coverage`, `Hierarchy`, `Reassembles`,
`ResultExact`, `PcExact`, `MemExact`). `ReportsAlways` is about `CheckSpec`,
whose cycle is that of `MCGenerators`; that module reaches the bitwise library
and cannot be proved about.

## 5. Findings

Each is a violation run of section 3.

1. `pc_bwd` takes the interrupt flag from the checked channel instead of the
   channel that holds the successor (`rvfi_pc_bwd_check.sv:34`, `:47`).
2. `reg` (and `causal`) reject a core that retires two writes to one register
   in the opposite order, which `docs/source/rvfi.rst:42` permits.
3. The monitor's pc forwarding takes the trap flag of the packet itself and not of
   the one before it (`monitor/generate.py:384`): a jump can go unreported.
4. A depth above 255 checks nothing (`rvfi_testbench.sv:37`).
5. `dmem` indexes data without the channel's offset (`rvfi_dmem_check.sv:37,39`).
6. An external stall in the first cycle after reset halts the NERV core behind
   its instruction cache for ever (`nerv_axi_cache_icache.sv:207`).
7. DIV, and REM, DIVW and REMW with it, divide unsigned numbers: the other arms of
   their `?:` are unsigned (`insns/generate.py:1508` and below).
8. ECALL, EBREAK and MRET on NERV's instruction bus act on mepc, mcause and mstatus
   in every cycle that the core is stalled or finishes an access
   (`nerv.sv:1037`); after an ECALL that had to wait, MPIE is lost.

### Kept as the code has them

The modules follow the code where it differs from what one might expect.  What
was met on the way and is not a run:

* *Instruction models.*  REMW and REMUW compare all 64 bits of rs2 with zero;
  XPERM4 and XPERM8 shift by the index itself and not by the index times the
  width (`insns/generate.py:1416`; NERV does the same).  `Deviating` leaves the
  operands that show it, and those of finding 7, out of `ResultExact`.
* *Instruction checks.*  `rvfi_insn_check` looks at nothing but the trap of an
  instruction that traps by the ISA; its `mem_log2len` is 1 for the byte mask 0010.
  The monitor compares rd, pc and memory even then, rejects read-modify-write of
  extra bytes that `rvfi_insn_check` accepts, and leaves "x0 reads zero" to its
  register check; `MonitorReports` is therefore one-sided where it has to be.
* *Check generator.*  The last matching `[depth]` line wins and the first matching
  `[filter-checks]` line; filters match a prefix while the documentation
  speaks of the full name; `[assume p]` applies where p does *not* match.  Keywords
  in verbatim sections may be those of an earlier call (`@channel@` in `hang`)
  or missing (`@check@` in instruction checks, an exception).  Two tests of one
  kind on one CSR, or one illegal address listed twice, overwrite each other's file.
  A CSR without a test asks for a checker `csrc` that does not exist; start beyond
  depth is not rejected.
* *Monitor.*  "Expected intr after trap" cannot be reached; slots are formed by
  truncating the order, so `-r` must be a power of two (the model takes the
  remainder); `"c" in isa` is true of `rv32iZbc`.
* *unique* ignores the rollback port; a core that retires an order again after a
  rollback fails it, and the property says so.
* *NERV.*  Interrupts ignore mstatus.MIE, so that a level that stays high keeps
  the core entering its handler; interrupt entry sets MPIE; mepc of a data access
  fault is the address after the access; a CSR instruction next to a store in a
  build without `NERV_FAULT` is refused as illegal.  `NervMachine` has the
  same choices, named there.
* *Register stack.*  `Depth` gives `Depth - 1` contexts; a register outside the mask
  can be written for one cycle; writes are not forwarded, although the
  README of the register file says so.

## 6. Hazards

`PROJECT.json` lists them at their lines.  All but two are covered by a
property.  The two are those of the bus side: the fixed depth of the AXI
observer's fifos (`bus/rvfi_bus_axi4.sv:171`) and the two shadows of
`rvfi_bus_dmem_check.sv:62`, which advance at different times.  They need the
observer, which is not modelled.

## 7. Not modelled, and why

* AXI observer and bus checkers: the checkers only make sense on the stream of
  bus packets that the observer writes, and that is a decoder of five channels with
  bursts, sizes and lanes, larger than all the checkers.
* CSR checkers: each compares two packets of one CSR on the checked channel and
  ignores traps and other channels.  What the hardware does to the CSR between
  them differs from CSR to CSR and is not in this repository, so there is no
  right core to compare with.
* `ill` and `fault`: one assertion about one packet.  `imem` is superseded by the
  bus checkers.  `cover` has no assertion.  The rollback and halt inputs occur where a
  modelled checker reads them (`unique`, `liveness`).
* NERV: performance counters, what a CSR instruction reads, alu operations and byte
  lanes.  Hippomenes: the pipeline, which retires one instruction per
  cycle and drives the register stack with the command `none` only.
* Wrappers of other cores, simulation testbenches, disassemblers and tests: wiring
  to cores that are not here, presentation, scripts without state.
  `insns/*.v`, `isa_*.v` and `checks/rvfi_macros.vh` are generated.

## 8. Plan

Done: the stream checkers and their composition; the schedule; the monitor; the
NERV cache; the NERV core as an in-order machine; the check generator; the
instruction models, the ISA database and both instruction checks; the
Hippomenes register stack; the proofs of section 4.

Left, in this order:

1. `RvfiBusAxi4` and its fifo as an implementation of a queue, then the bus
   checkers on top, composed with the AXI manager of `NervCacheAxi`.
2. The CSR checkers against a CSR that hardware updates.
3. Proofs about the types of the testbench's checkers together, and about
   `NeverOverwritten` for every configuration.
