---------------------------- MODULE NervCacheIo -----------------------------
(***************************************************************************)
(* nerv_axi_cache_io of cores/nerv/axi_cache/nerv_axi_cache.sv: accesses   *)
(* that bypass the data cache go to the bus word by word.  stable is       *)
(* modelled as NoRequest while there is no request.                        *)
(***************************************************************************)
CONSTANTS Lines, Words, Data

VARIABLE io

Request == [valid: BOOLEAN, line: Lines, word: Words, write: BOOLEAN, data: Data]

NoRequest == [valid |-> FALSE, line |-> 0, word |-> 0, write |-> FALSE, data |-> 0]

Stable(stalled, req) == IF ~stalled /\ req.valid THEN req ELSE io.stable

(* req_ur_valid and req_uw_valid.                                          *)
Pending(reset, stalled, req, write) ==
  /\ ~reset /\ ~io.reset
  /\ \/ ~stalled /\ req.valid /\ req.write = write
     \/ IF write THEN io.req_uw /\ ~io.res_uw ELSE io.req_ur /\ ~io.res_ur

ReqU(reset, stalled, req, write) ==
  [Stable(stalled, req) EXCEPT !.valid = Pending(reset, stalled, req, write)]

(* Outputs to the core.                                                    *)
stall == io.req_ur \/ io.req_uw
rdata(res_ur) == IF res_ur.valid THEN res_ur.data ELSE io.rdata
fault(res_ur, res_uw) ==
  IF res_uw.valid THEN res_uw.fault
  ELSE IF res_ur.valid THEN res_ur.fault ELSE io.fault

Init ==
  io = [stable |-> NoRequest, rdata |-> NoRequest.data, fault |-> FALSE, req_ur |-> FALSE, req_uw |-> FALSE,
        res_ur |-> FALSE, res_uw |-> FALSE, reset |-> TRUE]

(* A clock edge.                                                           *)
Clock(reset, stalled, req, res_ur, res_uw) ==
  io' = [stable |-> IF \E write \in BOOLEAN : Pending(reset, stalled, req, write)
                      THEN Stable(stalled, req) ELSE NoRequest,
         rdata  |-> rdata(res_ur), fault |-> fault(res_ur, res_uw),
         req_ur |-> Pending(reset, stalled, req, FALSE),
         req_uw |-> Pending(reset, stalled, req, TRUE),
         res_ur |-> res_ur.valid, res_uw |-> res_uw.valid, reset |-> reset]
-----------------------------------------------------------------------------
(* Types of the registers.                                                 *)
TypeOK ==
  io \in [stable: Request, rdata: Data, fault: BOOLEAN, req_ur: BOOLEAN,
          req_uw: BOOLEAN, res_ur: BOOLEAN, res_uw: BOOLEAN, reset: BOOLEAN]
=============================================================================
