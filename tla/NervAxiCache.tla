---------------------------- MODULE NervAxiCache ----------------------------
(***************************************************************************)
(* cores/nerv/axi_cache/nerv_axi_cache.sv: the caches and the bypass for   *)
(* i/o behind one AXI manager, between the NERV core (cores/nerv/nerv.sv)  *)
(* and an AXI subordinate.  A step is a clock cycle.                       *)
(*                                                                         *)
(* The core fetches in every cycle it is not stalled and may access data;  *)
(* it may be stalled for other reasons too (ext).  The subordinate answers *)
(* at any later time, reads and writes independently of each other.  Code  *)
(* is not stored to: the caches are not kept coherent.                     *)
(***************************************************************************)
EXTENDS Integers, Sequences

CONSTANTS
  Code, Cacheable, IoMem,  \* addresses the core uses: pairs of line and word
  Lines,        \* line addresses, natural numbers
  Faults,       \* sets of lines that answer with an error
  Boot,         \* contents of the memory
  BEATS, COUNT, Data, None,
  EARLY_STALL   \* the core may be stalled in the first cycle after reset

ASSUME LinesAssumption == 0 \in Lines /\ 0 \in Data
ASSUME AddressAssumption ==
  Code \cup Cacheable \cup IoMem \subseteq Lines \X (0 .. BEATS - 1)
ASSUME SizeAssumption == COUNT \in Nat \ {0} /\ BEATS \in Nat \ {0} /\ Lines \subseteq Nat
ASSUME MemoryAssumption ==
  Faults \subseteq SUBSET Lines /\ Boot \in [Lines -> [0 .. BEATS - 1 -> Data]]
ASSUME CodeAssumption ==
  {a[1] : a \in Code} \cap {a[1] : a \in Cacheable \cup IoMem} = {}

VARIABLES
  clock,                    \* toggles with every cycle
  icache, dcache, io, rd, wr, reset_q,  \* the cache
  last_dmem_io,
  reset,
  fetch, late, fresh,       \* the core: pc; mem_rd_enable_q, mem_wr_enable_q; reset_q
  ram, faulty, reads, writes  \* the subordinate and its transactions

coreVars == <<reset, fetch, late, fresh, last_dmem_io>>
busVars  == <<ram, faulty, reads, writes>>
vars == <<clock, icache, dcache, io, rd, wr, reset_q, coreVars, busVars>>

IoLines == {a[1] : a \in IoMem}
Words == 0 .. BEATS - 1

NoRequest == [valid |-> FALSE, line |-> 0, word |-> 0, write |-> FALSE, data |-> 0]

I  == INSTANCE NervCache WITH cache <- icache
D  == INSTANCE NervCache WITH cache <- dcache
Io == INSTANCE NervCacheIo
Ax == INSTANCE NervCacheAxi

Load(a) == [NoRequest EXCEPT !.valid = TRUE, !.line = a[1], !.word = a[2]]
Store(a, d) == [Load(a) EXCEPT !.write = TRUE, !.data = d]
Fetches == {Load(a) : a \in Code}
Accesses ==
  {NoRequest} \cup {Load(a) : a \in Cacheable \cup IoMem}
    \cup {Store(a, d) : a \in Cacheable \cup IoMem, d \in Data}

NoRead  == [line |-> 0, word |-> 0, left |-> 0]
NoStore == [aw |-> FALSE, line |-> 0, word |-> 0, data |-> <<>>,
            last |-> FALSE]

stall == I!stall \/ D!stall \/ Io!stall

(* The answers on imem_* and dmem_*.                                       *)
Insn == [fault |-> I!fault, data |-> IF I!fault THEN None ELSE I!rdata]
DataAnswer ==
  LET fault == IF last_dmem_io THEN io.fault ELSE D!fault
  IN  [fault |-> fault,
       data  |-> IF fault \/ late.write THEN None
                 ELSE IF last_dmem_io THEN io.rdata ELSE D!rdata]

Init ==
  /\ clock = FALSE
  /\ I!Init /\ D!Init /\ Io!Init /\ Ax!Init
  /\ last_dmem_io = FALSE
  /\ reset = TRUE /\ fresh = TRUE
  /\ fetch = NoRequest /\ late = NoRequest
  /\ faulty \in Faults
  /\ ram = Boot
  /\ reads = NoRead /\ writes = NoStore

(* nerv: what the core does with a cycle.                                  *)
Core(stalled, f, d) ==
  /\ fresh' = (reset \/ (fresh /\ stalled))
  /\ IF stalled THEN UNCHANGED <<fetch, late, last_dmem_io>>
     ELSE /\ fetch' = [f EXCEPT !.valid = ~(reset \/ fresh)]
          /\ late' = d
          /\ last_dmem_io' = IF d.valid THEN d.line \in IoLines ELSE last_dmem_io

(* The subordinate: a beat of the read it has accepted.                    *)
Beat(deliver) ==
  [valid |-> deliver, data |-> ram[reads.line][reads.word],
   fault |-> reads.line \in faulty, last |-> reads.left = 1]

Reading(read, deliver, arready) ==
  reads' =
    IF arready
      THEN [line |-> read.addr.line, word |-> read.addr.word, left |-> read.addr.len]
    ELSE IF deliver /\ reads.left = 1 THEN NoRead
    ELSE IF deliver
      THEN [reads EXCEPT !.left = @ - 1, !.word = (@ + 1) % BEATS] ELSE reads

(* A write takes effect when it is answered, unless it faults.             *)
Stored ==
  [w \in Words |->
     IF w >= writes.word /\ w < writes.word + Len(writes.data)
       THEN writes.data[w - writes.word + 1] ELSE ram[writes.line][w]]

Writing(write, awready, wready, respond) ==
  LET open == IF respond THEN NoStore ELSE writes
  IN  /\ writes' =
           [aw   |-> open.aw \/ awready,
            line |-> IF awready THEN write.addr.line ELSE open.line,
            word |-> IF awready THEN write.addr.word ELSE open.word,
            data |-> IF wready THEN Append(open.data, write.data[0]) ELSE open.data,
            last |-> open.last \/ (wready /\ Ax!wlast(write))]
      /\ ram' = IF respond /\ writes.line \notin faulty
                  THEN [ram EXCEPT ![writes.line] = Stored] ELSE ram

(* Inputs of a cycle.                                                      *)
May(p) == IF p THEN BOOLEAN ELSE {FALSE}

(* What the parts make of them.                                            *)
Cycle(stalled, f, d, deliver, respond) ==
  LET cached   == [d EXCEPT !.valid = @ /\ d.line \notin IoLines]
      uncached == [d EXCEPT !.valid = @ /\ d.line \in IoLines]
      read == Ax!Read(reset, I!ReqR(reset, stalled, f), D!ReqR(reset, stalled, cached),
                      Io!ReqU(reset, stalled, uncached, FALSE), Beat(deliver))
      write == Ax!Write(reset, D!ReqW(reset, stalled, cached),
                        Io!ReqU(reset, stalled, uncached, TRUE))
      res_uw == Ax!ResUw([valid |-> respond, fault |-> writes.line \in faulty])
  IN  /\ clock' = ~clock
      /\ Core(stalled, f, d)
      /\ I!Clock(reset, stalled, f, Ax!Res(read, "R_IFETCH"), FALSE)
      /\ D!Clock(reset, stalled, cached, Ax!Res(read, "R_DFETCH"), Ax!ResW(respond))
      /\ Io!Clock(reset, stalled, uncached, Ax!ResUr(read), res_uw)
      /\ reset' = FALSE
      /\ UNCHANGED faulty
      /\ \E arready \in May(read.arvalid /\ reads.left = 0),
            awready \in May(write.awvalid /\ ~writes.aw),
            wready  \in May(Ax!wvalid(write) /\ ~writes.last) :
           /\ Ax!Clock(reset, read, write, arready, awready, wready, respond)
           /\ Reading(read, deliver, arready)
           /\ Writing(write, awready, wready, respond)

Next ==
  \E ext \in May(~stall /\ (EARLY_STALL \/ ~(reset \/ reset_q))) :
    LET stalled == stall \/ ext IN
    \E f \in IF stalled THEN {NoRequest} ELSE Fetches,
       d \in IF stalled \/ reset \/ fresh THEN {NoRequest} ELSE Accesses,
       deliver \in May(reads.left > 0),
       respond \in May(writes.aw /\ writes.last) :
      Cycle(stalled, f, d, deliver, respond)

(* The clock runs (every state has a next cycle), and the subordinate      *)
(* takes what it is offered and answers what it has taken, in its own time. *)
Fairness ==
  /\ WF_clock(clock' = ~clock)
  /\ []<>(rd.arvalid => rd.arready) /\ []<>(reads.left = 0)
  /\ []<>(wr.awvalid => wr.awready) /\ []<>(wr.count # 0 => wr.wready)
  /\ []<>~(writes.aw /\ writes.last)

Spec == Init /\ [][Next]_vars /\ Fairness
-----------------------------------------------------------------------------
(* Types of the caches and of the AXI manager.                             *)
TypeOK ==
  /\ I!TypeOK /\ D!TypeOK /\ Io!TypeOK /\ Ax!TypeOK
  /\ late \in Accesses /\ reset \in BOOLEAN /\ fresh \in BOOLEAN
  /\ reads.left \in 0 .. BEATS /\ Len(writes.data) <= BEATS

(* The memory the core sees.                                               *)
Cached(l) == dcache.mem[D!Index(l)].valid /\ dcache.mem[D!Index(l)].line = l
Memory ==
  [l \in Lines |-> [w \in Words |->
     IF late.valid /\ late.write /\ late.line = l /\ late.word = w /\ l \notin faulty
       THEN late.data
     ELSE IF Cached(l) THEN dcache.mem[D!Index(l)].data[w]
     ELSE IF dcache.req_w.valid /\ dcache.req_w.line = l THEN dcache.req_w.data[w]
     ELSE ram[l][w]]]

M == INSTANCE NervMemory WITH memory <- Memory

(* The core behind the caches and the bypass sees a memory, whatever the   *)
(* order in which fetches, refills and write-backs complete and however    *)
(* long it is stalled.                                                     *)
SeesMemory == M!Spec

(* Whenever the core is not stalled, the answers it takes are those of that *)
(* memory, errors included.                                                *)
Answers ==
  ~stall =>
    /\ fetch.valid => Insn = M!Answer(fetch)
    /\ late.valid => DataAnswer = M!Answer(late)

(* "our cache will never write something it hasn't successfully read       *)
(* before" (nerv_axi_cache.sv:875): it never writes back a line that       *)
(* faults, whose error it would not notice.                                *)
WritesBackOnlyRead == wr.state = "W_DSTORE" /\ wr.awvalid => wr.addr.line \notin faulty

(* A transfer offered on an address or data channel stays until it is      *)
(* taken, whatever else the caches ask for meanwhile.                      *)
OffersStay ==
  [][/\ rd.arvalid /\ ~rd.arready => rd'.arvalid /\ rd'.addr = rd.addr
     /\ wr.awvalid /\ ~wr.awready => wr'.awvalid /\ wr'.addr = wr.addr
     /\ wr.count # 0 /\ ~wr.wready => wr'.count = wr.count /\ wr'.data = wr.data]_vars

(* "a single `stall` signal that needs to be asserted to halt the core     *)
(* when accesses take" longer (nerv_axi_cache.sv:25-26): the core is not   *)
(* halted forever.                                                         *)
StallEnds == []<>~stall
=============================================================================
