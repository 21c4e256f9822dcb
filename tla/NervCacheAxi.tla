---------------------------- MODULE NervCacheAxi ----------------------------
(***************************************************************************)
(* nerv_axi_cache_axi of cores/nerv/axi_cache/nerv_axi_cache.sv: the AXI   *)
(* manager between the caches and the bus.  Two machines, one for reads    *)
(* and one for writes, run independently of each other; each has one       *)
(* transaction at a time.  A bus word is a word of the core, a line is     *)
(* BEATS of them.  rready and bready are always high.                      *)
(*                                                                         *)
(* rd and wr hold the registers; Read and Write are the combinational      *)
(* signals of a cycle, before the clock edge.  The address registers of an *)
(* idle address channel and the data register of an idle machine are       *)
(* modelled as zero: they are written before they are looked at again.     *)
(***************************************************************************)
EXTENDS Integers

CONSTANTS Lines, BEATS, Data

VARIABLES rd, wr, reset_q

Words == 0 .. BEATS - 1
Line == [Words -> Data]
Zero == [w \in Words |-> 0]
NoAddress == [line |-> 0, word |-> 0, len |-> 1]
LineAddress(l) == [line |-> l, word |-> 0, len |-> BEATS]
WordAddress(r) == [line |-> r.line, word |-> r.word, len |-> 1]

(* A beat enters the line at the top; a store leaves it at the bottom.     *)
ShiftIn(data, word) == [w \in Words |-> IF w = BEATS - 1 THEN word ELSE data[w + 1]]
ShiftOut(data) ==
  [w \in Words |-> IF w = BEATS - 1 THEN Zero[w] ELSE data[w + 1]]

(* imem_req, dmem_req_r and dmem_req_ur: instruction fetches go first.     *)
Granted(imem, dmem, uncached) ==
  IF imem.valid THEN [state |-> "R_IFETCH", addr |-> LineAddress(imem.line)]
  ELSE IF dmem.valid
    THEN [state |-> "R_DFETCH", addr |-> LineAddress(dmem.line)]
  ELSE [state |-> "R_IOFETCH", addr |-> WordAddress(uncached)]

Read(reset, imem, dmem, uncached, r) ==
  LET dropped == rd.arready /\ rd.arvalid
      beat    == rd.state # "R_IDLE" /\ r.valid
      granted == /\ rd.state = "R_IDLE" /\ ~(rd.arvalid /\ ~dropped) /\ ~reset_q
                 /\ (imem.valid \/ dmem.valid \/ uncached.valid)
      grant   == Granted(imem, dmem, uncached)
  IN  [state   |-> IF reset \/ (beat /\ r.last) THEN "R_IDLE"
                   ELSE IF granted THEN grant.state ELSE rd.state,
       arvalid |-> ~reset /\ (granted \/ (rd.arvalid /\ ~dropped)),
       addr    |-> IF granted THEN grant.addr ELSE rd.addr,
       data    |-> IF beat THEN ShiftIn(rd.data, r.data) ELSE rd.data,
       fault   |-> (beat /\ r.fault) \/ (rd.fault /\ ~dropped),
       done    |-> beat /\ r.last]

(* imem_res, dmem_res_r and dmem_res_ur.                                   *)
Res(read, state) ==
  [valid |-> rd.state = state /\ read.done, data |-> read.data, fault |-> read.fault]
ResUr(read) == [Res(read, "R_IOFETCH") EXCEPT !.data = @[BEATS - 1]]

ResW(bvalid) == wr.state = "W_DSTORE" /\ bvalid
ResUw(b) == [valid |-> wr.state = "W_IOSTORE" /\ b.valid, fault |-> b.fault]

(* Mutant of w_taken: a beat is taken to be accepted when it is offered.   *)
w_takenOffered == wr.count # 0

w_taken == wr.wready /\ wr.count # 0
write_idle == wr.state = "W_IDLE" \/ wr.bvalid

(* Mutant of beats: a beat too many.                                       *)
beatsTooMany(dmem) == IF dmem.valid THEN BEATS + 1 ELSE 1

(* wvalid_counter at the start of a write.                                 *)
beats(dmem) == IF dmem.valid THEN BEATS ELSE 1

Write(reset, dmem, uncached) ==
  LET awvalid == wr.awvalid /\ ~wr.awready
      count   == IF w_taken THEN wr.count - 1 ELSE wr.count
      granted == write_idle /\ ~awvalid /\ count = 0 /\ (dmem.valid \/ uncached.valid)
  IN  [state   |-> IF reset THEN "W_IDLE"
                   ELSE IF granted THEN IF dmem.valid THEN "W_DSTORE" ELSE "W_IOSTORE"
                   ELSE IF write_idle THEN "W_IDLE" ELSE wr.state,
       awvalid |-> ~reset /\ (granted \/ awvalid),
       addr    |-> IF ~granted THEN wr.addr
                   ELSE IF dmem.valid THEN LineAddress(dmem.line)
                   ELSE WordAddress(uncached),
       count   |-> IF reset THEN 0
                   ELSE IF granted THEN beats(dmem) ELSE count,
       data    |-> IF granted
                     THEN IF dmem.valid THEN dmem.data
                          ELSE [Zero EXCEPT ![0] = uncached.data]
                   ELSE IF w_taken THEN ShiftOut(wr.data) ELSE wr.data]

wvalid(write) == write.count # 0
wlast(write)  == write.count = 1

Init ==
  /\ rd = [state |-> "R_IDLE", arvalid |-> FALSE, arready |-> FALSE, addr |-> NoAddress,
           data |-> Zero, fault |-> FALSE]
  /\ wr = [state |-> "W_IDLE", awvalid |-> FALSE, awready |-> FALSE, addr |-> NoAddress,
           count |-> 0, data |-> Zero, wready |-> FALSE, bvalid |-> FALSE]
  /\ reset_q = TRUE

(* A clock edge.                                                           *)
Clock(reset, read, write, arready, awready, wready, bvalid) ==
  /\ rd' = [state |-> read.state, arvalid |-> read.arvalid, arready |-> arready,
            addr |-> IF read.arvalid THEN read.addr ELSE NoAddress,
            data |-> IF read.state = "R_IDLE" THEN Zero ELSE read.data,
            fault |-> read.fault]
  /\ wr' = [state |-> write.state, awvalid |-> write.awvalid, awready |-> awready,
            addr |-> IF write.awvalid THEN write.addr ELSE NoAddress,
            count |-> write.count, data |-> write.data, wready |-> wready,
            bvalid |-> bvalid]
  /\ reset_q' = reset
-----------------------------------------------------------------------------
(* Types of the registers.                                                 *)
Address == [line: Lines, word: Words, len: {1, BEATS}]
TypeOK ==
  /\ rd \in [state: {"R_IDLE", "R_IFETCH", "R_DFETCH", "R_IOFETCH"},
             arvalid: BOOLEAN, arready: BOOLEAN, addr: Address, data: Line, fault: BOOLEAN]
  /\ wr \in [state: {"W_IDLE", "W_DSTORE", "W_IOSTORE"},
             awvalid: BOOLEAN, awready: BOOLEAN, addr: Address, count: 0 .. BEATS, data: Line, wready: BOOLEAN,
             bvalid: BOOLEAN]
  /\ reset_q \in BOOLEAN
=============================================================================
