----------------------------- MODULE NervCache ------------------------------
(***************************************************************************)
(* The data cache cores/nerv/axi_cache/nerv_axi_cache_dcache.sv: direct    *)
(* mapped, write-back, write-allocate.  The instruction cache              *)
(* nerv_axi_cache_icache.sv is the same circuit without the stores: it is  *)
(* this module with a request that is always valid and never writes.       *)
(*                                                                         *)
(* An address is a line and a word of it; the line stands for index and    *)
(* tag.  A store writes a whole word: the byte strobes are the same choice *)
(* of old and new data once more.  cache holds the registers; the operators *)
(* of the inputs are the combinational signals of a cycle.  The contents of *)
(* a register that is written before it is looked at again, such as the    *)
(* data of an invalid entry, are modelled as zero.                         *)
(***************************************************************************)
EXTENDS Integers

CONSTANTS
  Lines,  \* line addresses, 0 among them
  COUNT,  \* LINE_COUNT
  BEATS,  \* words of a line
  Data    \* contents of a word, 0 among them

VARIABLE cache

Words == 0 .. BEATS - 1
Line == [Words -> Data]
Index(l) == l % COUNT

Zero == [w \in Words |-> 0]
NoRequest == [valid |-> FALSE, line |-> 0, word |-> 0, write |-> FALSE, data |-> 0]
Empty == [line |-> 0, data |-> Zero, valid |-> FALSE, dirty |-> FALSE]
NoWrite == [valid |-> FALSE, line |-> 0, data |-> Zero]

Request  == [valid: BOOLEAN, line: Lines, word: Words, write: BOOLEAN, data: Data]
Response == [valid: BOOLEAN, data: Line, fault: BOOLEAN]

(* stable_*: the request, held while the core is stalled.                  *)
Stable(stalled, req) ==
  IF stalled THEN cache.stable
  ELSE IF req.valid THEN req
  ELSE [NoRequest EXCEPT !.line = cache.stable.line]

Entry(s) == cache.mem[Index(s.line)]
cache_hit(s) == Entry(s).valid /\ Entry(s).line = s.line
cache_miss(s) == s.valid /\ ~cache_hit(s)
cache_writeback(s) == cache_miss(s) /\ Entry(s).dirty /\ Entry(s).valid

(* Mutant of valid_in: a line that could not be fetched becomes valid.     *)
valid_inFaultToo(s, res) == res.valid \/ cache_hit(s)

(* cache_valid_in.                                                         *)
valid_in(s, res) == IF res.valid THEN ~res.fault ELSE cache_hit(s)

(* What goes to memory and to the core: the line read, the fetched one in  *)
(* its place, and the words stored.                                        *)
EntryIn(s, res) ==
  LET data  == IF res.valid THEN res.data ELSE Entry(s).data
      store == s.valid /\ s.write
  IN  [line  |-> s.line,
       data  |-> IF store THEN [data EXCEPT ![s.word] = s.data] ELSE data,
       valid |-> valid_in(s, res),
       dirty |-> store \/ (~res.valid /\ Entry(s).dirty)]

(* Mutants of next_fault and req_r_valid: the fault is not taken back after *)
(* the core has seen it; the request is not held until it is answered.     *)
next_faultSticky(stalled, res) == IF res.valid THEN res.fault ELSE cache.fault
req_r_validShort(stalled, s) == cache_miss(s) /\ ~stalled

(* The fault lasts until the core takes it.                                *)
next_fault(stalled, res) == IF res.valid THEN res.fault ELSE cache.fault /\ stalled

req_r_valid(stalled, s) ==
  \/ cache.req_r_valid /\ ~cache.res_r_valid
  \/ cache_miss(s) /\ ~stalled

req_w(stalled, s) ==
  IF cache_writeback(s) /\ ~stalled
    THEN [valid |-> TRUE, line |-> Entry(s).line, data |-> Entry(s).data]
    ELSE IF cache.res_w_valid THEN NoWrite ELSE cache.req_w

(* Mutant of stall: a write-back does not stall the core.                  *)
stallNotForWrites == cache.miss /\ ~cache.fault

(* Outputs to the core.                                                    *)
stall == (cache.miss /\ ~cache.fault) \/ cache.req_w.valid
rdata == cache.rdata_line[cache.stable.word]
fault == cache.fault

(* Requests to the bus in this cycle.                                      *)
ReqR(reset, stalled, req) ==
  LET s == Stable(stalled, req)
  IN  [valid |-> ~reset /\ req_r_valid(stalled, s), line |-> s.line]

ReqW(reset, stalled, req) ==
  LET w == req_w(stalled, Stable(stalled, req))
  IN  IF reset THEN NoWrite ELSE w

Init ==
  \E miss, valid \in BOOLEAN :
    cache = [mem |-> [i \in 0 .. COUNT - 1 |-> Empty],
             stable |-> [NoRequest EXCEPT !.valid = valid],
             rdata_line |-> Zero, fault |-> FALSE, miss |-> miss,
             req_r_valid |-> FALSE, req_w |-> NoWrite,
             res_r_valid |-> FALSE, res_w_valid |-> FALSE]

(* A clock edge.                                                           *)
Clock(reset, stalled, req, res_r, res_w_valid) ==
  LET s == Stable(stalled, req)
      e == EntryIn(s, res_r)
  IN  cache' =
        [mem |-> IF reset THEN [i \in 0 .. COUNT - 1 |-> Empty]
                 ELSE [cache.mem EXCEPT ![Index(s.line)] = IF e.valid THEN e ELSE Empty],
         stable |-> s,
         rdata_line |-> IF s.valid /\ e.valid THEN e.data ELSE Zero,
         fault |-> ~reset /\ next_fault(stalled, res_r),
         miss |-> ~reset /\ cache_miss(s),
         req_r_valid |-> ReqR(reset, stalled, req).valid,
         req_w |-> ReqW(reset, stalled, req),
         res_r_valid |-> res_r.valid, res_w_valid |-> res_w_valid]
-----------------------------------------------------------------------------
(* Types of the registers.                                                 *)
TypeOK ==
  cache \in [mem: [0 .. COUNT - 1 ->
                     [line: Lines, data: Line, valid: BOOLEAN, dirty: BOOLEAN]],
             stable: Request, rdata_line: Line, fault: BOOLEAN, miss: BOOLEAN,
             req_r_valid: BOOLEAN,
             req_w: [valid: BOOLEAN, line: Lines, data: Line],
             res_r_valid: BOOLEAN, res_w_valid: BOOLEAN]
=============================================================================
