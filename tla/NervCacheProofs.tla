-------------------------- MODULE NervCacheProofs ---------------------------
(***************************************************************************)
(* One cache between the core and a memory.                                *)
(***************************************************************************)
EXTENDS NervCache, TLAPS

CONSTANT Own          \* the lines it is asked for
VARIABLES ram, faulty \* the memory behind it, the lines that answer with an error

Parameters ==
  /\ COUNT \in Nat \ {0} /\ BEATS \in Nat \ {0}
  /\ Lines \subseteq Nat /\ Own \subseteq Lines /\ 0 \in Lines /\ 0 \in Data

(* A request for a line that has not been answered.                        *)
Pending == cache.req_r_valid /\ ~cache.res_r_valid

(* An entry is where it belongs and, unless it was stored to, as in memory. *)
Placed ==
  \A i \in 0 .. COUNT - 1 : cache.mem[i].valid =>
    /\ cache.mem[i].line \in Own /\ cache.mem[i].line \notin faulty
    /\ Index(cache.mem[i].line) = i
    /\ ~cache.mem[i].dirty => cache.mem[i].data = ram[cache.mem[i].line]

(* The place of the line requested holds it or nothing.                    *)
Held == Entry(cache.stable).valid => cache_hit(cache.stable)

(* What is found is what the core is shown, and what it stored is in it.   *)
Shown ==
  cache.stable.valid /\ cache_hit(cache.stable) =>
    /\ cache.rdata_line = Entry(cache.stable).data
    /\ cache.stable.write => cache.rdata_line[cache.stable.word] = cache.stable.data

Asked ==
  Pending => /\ cache.stable.valid /\ cache.stable.line \in Own
             /\ cache.miss /\ ~cache.fault /\ ~cache_hit(cache.stable)

Faulted == cache.fault => cache.stable.line \in faulty

(* What waits to be written back has left the place of the request.        *)
Evicted ==
  cache.req_w.valid =>
    /\ cache.req_w.line \in Own /\ cache.req_w.line \notin faulty
    /\ Index(cache.req_w.line) = Index(cache.stable.line)
    /\ cache.req_w.line # cache.stable.line
    /\ cache.res_w_valid => ram[cache.req_w.line] = cache.req_w.data

CInv ==
  /\ TypeOK /\ Placed /\ Held /\ Shown /\ Asked /\ Faulted /\ Evicted

(* The line as the core sees it.                                           *)
View(l) ==
  IF cache.mem[Index(l)].valid /\ cache.mem[Index(l)].line = l THEN cache.mem[Index(l)].data
  ELSE IF cache.req_w.valid /\ cache.req_w.line = l THEN cache.req_w.data
  ELSE ram[l]
-----------------------------------------------------------------------------
(* What the core and the bus give in a cycle out of reset: an answer to a  *)
(* request that waits is that of the memory, and memory changes where it   *)
(* is written back, if at all.                                             *)
Given(stalled, req, res_r, res_w) ==
  /\ stalled \in BOOLEAN /\ (stall => stalled)
  /\ req \in Request /\ (req.valid => req.line \in Own)
  /\ res_r \in Response
  /\ res_r.valid =>
       /\ Pending /\ (res_r.fault <=> cache.stable.line \in faulty)
       /\ ~res_r.fault => res_r.data = ram[cache.stable.line]
  /\ res_w \in BOOLEAN /\ (res_w => cache.req_w.valid)
  /\ faulty' = faulty
  /\ \A l \in Own :
       ram'[l] = IF res_w /\ l = cache.req_w.line THEN cache.req_w.data ELSE ram[l]

(* A cycle out of reset, with its request and what becomes of its entry.   *)
Cycle(stalled, req, res_r, res_w, s, e) ==
  /\ s = Stable(stalled, req) /\ e = EntryIn(s, res_r)
  /\ Given(stalled, req, res_r, res_w)
  /\ Clock(FALSE, stalled, req, res_r, res_w)

LEMMA IndexIn == ASSUME Parameters, NEW l \in Lines PROVE Index(l) \in 0 .. COUNT - 1
  BY DEF Parameters, Index

LEMMA ZeroIsLine == Parameters => Zero \in Line
  BY DEF Parameters, Zero, Line

LEMMA CacheTypes ==
  ASSUME TypeOK
  PROVE  /\ cache.mem \in [0 .. COUNT - 1 ->
                            [line: Lines, data: Line, valid: BOOLEAN, dirty: BOOLEAN]]
         /\ cache.stable \in Request /\ cache.rdata_line \in Line
         /\ cache.fault \in BOOLEAN /\ cache.miss \in BOOLEAN
         /\ cache.req_r_valid \in BOOLEAN
         /\ cache.req_w \in [valid: BOOLEAN, line: Lines, data: Line]
         /\ cache.res_r_valid \in BOOLEAN /\ cache.res_w_valid \in BOOLEAN
  BY DEF TypeOK

(* The registers after a cycle.                                            *)
LEMMA Clocked ==
  ASSUME NEW stalled, NEW req, NEW res_r, NEW res_w, NEW s, NEW e,
         Cycle(stalled, req, res_r, res_w, s, e)
  PROVE  /\ cache'.mem = [cache.mem EXCEPT ![Index(s.line)] = IF e.valid THEN e ELSE Empty]
         /\ cache'.stable = s
         /\ cache'.rdata_line = IF s.valid /\ e.valid THEN e.data ELSE Zero
         /\ cache'.fault <=> next_fault(stalled, res_r)
         /\ cache'.miss <=> cache_miss(s)
         /\ cache'.req_r_valid <=> req_r_valid(stalled, s)
         /\ cache'.req_w = req_w(stalled, s)
         /\ cache'.res_r_valid = res_r.valid
         /\ cache'.res_w_valid = res_w
<1> DEFINE miss == ~FALSE /\ cache_miss(s)
           fails == ~FALSE /\ next_fault(stalled, res_r)
           asks == ~FALSE /\ req_r_valid(stalled, s)
<1>1. cache' = [mem |-> [cache.mem EXCEPT ![Index(s.line)] = IF e.valid THEN e ELSE Empty],
                stable |-> s,
                rdata_line |-> IF s.valid /\ e.valid THEN e.data ELSE Zero,
                fault |-> fails, miss |-> miss, req_r_valid |-> asks,
                req_w |-> req_w(stalled, s),
                res_r_valid |-> res_r.valid, res_w_valid |-> res_w]
  BY DEF Cycle, Clock, ReqR, ReqW
<1>2. (miss <=> cache_miss(s)) /\ (fails <=> next_fault(stalled, res_r))
      /\ (asks <=> req_r_valid(stalled, s))
  OBVIOUS
<1> HIDE DEF miss, fails, asks
<1>3. cache'.miss = miss /\ cache'.fault = fails /\ cache'.req_r_valid = asks
  BY <1>1
<1>4. /\ cache'.mem = [cache.mem EXCEPT ![Index(s.line)] = IF e.valid THEN e ELSE Empty]
      /\ cache'.stable = s
      /\ cache'.rdata_line = IF s.valid /\ e.valid THEN e.data ELSE Zero
      /\ cache'.req_w = req_w(stalled, s)
      /\ cache'.res_r_valid = res_r.valid
      /\ cache'.res_w_valid = res_w
  BY <1>1
<1>5. /\ cache'.miss <=> cache_miss(s)
      /\ cache'.fault <=> next_fault(stalled, res_r)
      /\ cache'.req_r_valid <=> req_r_valid(stalled, s)
  BY <1>2, <1>3, Zenon
<1> QED
  BY <1>4, <1>5

(* The request of the cycle and the entry it is looked for in.             *)
LEMMA Requested ==
  ASSUME Parameters, CInv, NEW stalled, NEW req, NEW res_r, NEW res_w, NEW s, NEW e,
         Cycle(stalled, req, res_r, res_w, s, e)
  PROVE  /\ s \in Request /\ Index(s.line) \in 0 .. COUNT - 1
         /\ Entry(s) \in [line: Lines, data: Line, valid: BOOLEAN, dirty: BOOLEAN]
         /\ stalled => s = cache.stable
         /\ ~stalled => ~cache.req_w.valid /\ ~res_w /\ ~res_r.valid
         /\ ~stalled /\ s.valid => s = req /\ s.line \in Own
         /\ res_r.valid => Pending /\ ~cache_hit(s) /\ s.valid /\ s.line \in Own
         /\ cache_hit(s) => s.line \in Own /\ s.line \notin faulty
         /\ Entry(s).valid /\ ~cache_hit(s) => ~stalled /\ s.valid
<1>1. /\ cache.stable \in Request /\ cache.fault \in BOOLEAN /\ cache.miss \in BOOLEAN
      /\ cache.mem \in [0 .. COUNT - 1 ->
                           [line: Lines, data: Line, valid: BOOLEAN, dirty: BOOLEAN]]
  BY CacheTypes DEF CInv
<1>2. stalled => s = cache.stable
  BY DEF Cycle, Stable
<1>3. ~stalled => \/ s = req /\ req.valid
                  \/ s.line = cache.stable.line /\ s = [NoRequest EXCEPT !.line = cache.stable.line]
  BY DEF Cycle, Stable, NoRequest
<1>4. [NoRequest EXCEPT !.line = cache.stable.line] \in Request
  <2> SUFFICES ASSUME NEW r, r = [NoRequest EXCEPT !.line = cache.stable.line]
               PROVE  r \in Request
    OBVIOUS
  <2>1. r = [valid |-> FALSE, line |-> cache.stable.line, word |-> 0, write |-> FALSE,
             data |-> 0]
    BY DEF NoRequest
  <2>2. cache.stable.line \in Lines /\ 0 \in Words /\ 0 \in Data
    BY <1>1 DEF Request, Parameters, Words
  <2>3. [valid |-> FALSE, line |-> cache.stable.line, word |-> 0, write |-> FALSE,
         data |-> 0] \in Request
    BY <2>2 DEF Request
  <2> QED
    BY <2>1, <2>3
<1>5. s \in Request
  BY <1>1, <1>2, <1>3, <1>4 DEF Cycle, Given
<1>6. Index(s.line) \in 0 .. COUNT - 1
  BY <1>5, IndexIn DEF Request
<1>7. Entry(s) \in [line: Lines, data: Line, valid: BOOLEAN, dirty: BOOLEAN]
  BY <1>1, <1>6 DEF Entry
<1>8. res_r.valid => Pending /\ stalled
  BY DEF Cycle, Given, CInv, Asked, stall
<1>9. ~stalled => ~cache.req_w.valid /\ ~res_w /\ ~res_r.valid
  BY <1>8 DEF Cycle, Given, stall
<1>10. res_r.valid => ~cache_hit(s) /\ s.valid /\ s.line \in Own
  BY <1>2, <1>8 DEF CInv, Asked
<1>11. cache_hit(s) => s.line \in Own /\ s.line \notin faulty
  BY <1>6 DEF CInv, Placed, cache_hit, Entry
<1>12. Entry(s).valid /\ ~cache_hit(s) => ~stalled /\ s.valid
  <2>1. s.line = cache.stable.line => (Entry(s).valid => cache_hit(s))
    BY DEF CInv, Held, Entry, cache_hit
  <2> QED
    BY <1>2, <1>3, <2>1
<1>13. ~stalled /\ s.valid => s = req /\ s.line \in Own
  BY <1>3 DEF Cycle, Given, NoRequest
<1> QED
  BY <1>2, <1>5, <1>6, <1>7, <1>8, <1>9, <1>10, <1>11, <1>12, <1>13

(* What the entry of the request becomes.                                  *)
Becomes(s, e, res_r) ==
  /\ e.line = s.line
  /\ res_r.valid => (e.valid <=> ~res_r.fault)
  /\ ~res_r.valid => (e.valid <=> cache_hit(s))
  /\ e.valid => s.line \in Own /\ s.line \notin faulty
  /\ e.valid /\ s.valid /\ s.write =>
       /\ e.data = [View(s.line) EXCEPT ![s.word] = s.data]
       /\ e.data[s.word] = s.data
  /\ e.valid /\ ~(s.valid /\ s.write) => e.data = View(s.line)
  /\ e.valid /\ ~e.dirty => e.data = ram[s.line]

LEMMA Entered ==
  ASSUME Parameters, CInv, NEW stalled, NEW req, NEW res_r, NEW res_w, NEW s, NEW e,
         Cycle(stalled, req, res_r, res_w, s, e)
  PROVE  /\ e \in [line: Lines, data: Line, valid: BOOLEAN, dirty: BOOLEAN]
         /\ Becomes(s, e, res_r)
<1> DEFINE data == IF res_r.valid THEN res_r.data ELSE Entry(s).data
           store == s.valid /\ s.write
           held == ~res_r.valid /\ Entry(s).dirty
<1>1. /\ s \in Request /\ Index(s.line) \in 0 .. COUNT - 1
      /\ Entry(s) \in [line: Lines, data: Line, valid: BOOLEAN, dirty: BOOLEAN]
      /\ stalled => s = cache.stable
      /\ ~stalled => ~cache.req_w.valid /\ ~res_r.valid
      /\ res_r.valid => Pending /\ ~cache_hit(s) /\ s.valid /\ s.line \in Own
      /\ cache_hit(s) => s.line \in Own /\ s.line \notin faulty
  BY Requested
<1>2. res_r.valid \in BOOLEAN /\ res_r.fault \in BOOLEAN /\ res_r.data \in Line
  BY DEF Cycle, Given, Response
<1>3. data \in Line
  BY <1>1, <1>2
<1>4. cache_hit(s) \in BOOLEAN
  BY DEF cache_hit
<1>5. e.line = s.line /\ e.data = (IF store THEN [data EXCEPT ![s.word] = s.data] ELSE data)
      /\ e.valid = valid_in(s, res_r)
  BY DEF Cycle, EntryIn
<1>6. e.dirty <=> store \/ held
  BY Zenon DEF Cycle, EntryIn
<1>7. e = [line |-> s.line, data |-> e.data, valid |-> e.valid, dirty |-> e.dirty]
  BY DEF Cycle, EntryIn
<1>8. e.data \in Line
  BY <1>1, <1>3, <1>5 DEF Request, Line
<1>9. e.valid \in BOOLEAN /\ (e.valid <=> IF res_r.valid THEN ~res_r.fault ELSE cache_hit(s))
  BY <1>2, <1>4, <1>5 DEF valid_in
<1>10. e.dirty \in BOOLEAN
  BY Zenon DEF Cycle, EntryIn
<1>11. e \in [line: Lines, data: Line, valid: BOOLEAN, dirty: BOOLEAN]
  BY <1>1, <1>7, <1>8, <1>9, <1>10 DEF Request
<1>12. ASSUME e.valid
       PROVE  s.line \in Own /\ s.line \notin faulty /\ data = View(s.line)
              /\ (~held => data = ram[s.line])
  <2>1. CASE res_r.valid
    <3>1. stalled /\ s = cache.stable
      BY <1>1, <2>1
    <3>2. data = ram[s.line] /\ s.line \notin faulty
      BY <1>9, <1>12, <2>1, <3>1 DEF Cycle, Given
    <3>3. View(s.line) = ram[s.line]
      BY <1>1, <2>1, <3>1 DEF View, cache_hit, Entry, CInv, Evicted
    <3> QED
      BY <1>1, <2>1, <3>2, <3>3
  <2>2. CASE ~res_r.valid
    <3>1. cache_hit(s) /\ data = Entry(s).data
      BY <1>9, <1>12, <2>2
    <3>2. ~held => ~Entry(s).dirty
      BY <2>2
    <3>3. View(s.line) = Entry(s).data
      BY <3>1 DEF View, cache_hit, Entry
    <3>4. ~Entry(s).dirty => Entry(s).data = ram[s.line]
      BY <1>1, <3>1 DEF cache_hit, Entry, CInv, Placed
    <3> QED
      BY <1>1, <3>1, <3>2, <3>3, <3>4
  <2> QED
    BY <2>1, <2>2
<1> HIDE DEF data, held
<1>13. ASSUME e.valid, ~e.dirty PROVE e.data = ram[s.line]
  BY <1>5, <1>6, <1>12, <1>13
<1>14. ASSUME store PROVE e.data[s.word] = s.data
  BY <1>1, <1>3, <1>5, <1>14 DEF Request, Line
<1> QED
  <2>1. e.valid /\ s.valid /\ s.write => e.data = [View(s.line) EXCEPT ![s.word] = s.data]
    BY <1>5, <1>12
  <2>2. e.valid /\ ~(s.valid /\ s.write) => e.data = View(s.line)
    BY <1>5, <1>12
  <2> QED
    BY <1>5, <1>9, <1>11, <1>12, <1>13, <1>14, <2>1, <2>2 DEF Becomes

(* The entries and the request of the next cycle.                          *)
LEMMA NextEntries ==
  ASSUME Parameters, CInv, NEW stalled, NEW req, NEW res_r, NEW res_w, NEW s, NEW e,
         Cycle(stalled, req, res_r, res_w, s, e)
  PROVE  /\ cache'.stable = s
         /\ \A i \in 0 .. COUNT - 1 :
              cache'.mem[i] = IF i = Index(s.line) THEN IF e.valid THEN e ELSE Empty
                              ELSE cache.mem[i]
         /\ Entry(s)' = IF e.valid THEN e ELSE Empty
         /\ cache_hit(s)' <=> e.valid
         /\ e.valid => Entry(s)' = e
<1>1. /\ cache'.mem = [cache.mem EXCEPT ![Index(s.line)] = IF e.valid THEN e ELSE Empty]
      /\ cache'.stable = s
  BY Clocked
<1>2. cache.mem \in [0 .. COUNT - 1 ->
                      [line: Lines, data: Line, valid: BOOLEAN, dirty: BOOLEAN]]
  BY CacheTypes DEF CInv
<1>3. Index(s.line) \in 0 .. COUNT - 1 /\ e.line = s.line /\ ~Empty.valid
  <2>1. Index(s.line) \in 0 .. COUNT - 1
    BY Requested
  <2>2. e.line = s.line
    BY DEF Cycle, EntryIn
  <2> QED
    BY <2>1, <2>2 DEF Empty
<1>4. \A i \in 0 .. COUNT - 1 :
        cache'.mem[i] = IF i = Index(s.line) THEN IF e.valid THEN e ELSE Empty
                        ELSE cache.mem[i]
  BY <1>1, <1>2, <1>3
<1>5. Entry(s)' = IF e.valid THEN e ELSE Empty
  BY <1>3, <1>4 DEF Entry, Index
<1> QED
  BY <1>1, <1>3, <1>4, <1>5 DEF cache_hit

(* The line that leaves for the memory.                                    *)
LEMMA NextEvicted ==
  ASSUME Parameters, CInv, NEW stalled, NEW req, NEW res_r, NEW res_w, NEW s, NEW e,
         Cycle(stalled, req, res_r, res_w, s, e)
  PROVE  /\ cache'.req_w.valid =>
              /\ cache'.req_w.line \in Own /\ cache'.req_w.line \notin faulty
              /\ Index(cache'.req_w.line) = Index(s.line)
              /\ cache'.req_w.line # s.line
              /\ res_w => ram'[cache'.req_w.line] = cache'.req_w.data
         /\ stalled => cache'.req_w = IF cache.res_w_valid THEN NoWrite ELSE cache.req_w
         /\ ~stalled => IF cache_writeback(s)
                          THEN /\ cache'.req_w.valid /\ cache'.req_w.line = Entry(s).line
                               /\ cache'.req_w.data = Entry(s).data
                          ELSE ~cache'.req_w.valid
         /\ cache'.req_w \in [valid: BOOLEAN, line: Lines, data: Line]
<1>1. cache'.req_w = req_w(stalled, s)
  BY Clocked
<1>2. /\ Index(s.line) \in 0 .. COUNT - 1
      /\ Entry(s) \in [line: Lines, data: Line, valid: BOOLEAN, dirty: BOOLEAN]
      /\ stalled => s = cache.stable
      /\ ~stalled => ~cache.req_w.valid /\ ~res_w
  BY Requested
<1>3. cache.req_w \in [valid: BOOLEAN, line: Lines, data: Line]
      /\ NoWrite \in [valid: BOOLEAN, line: Lines, data: Line]
  BY CacheTypes, ZeroIsLine DEF CInv, NoWrite, Parameters
<1>4. CASE ~stalled /\ cache_writeback(s)
  <2>1. cache'.req_w = [valid |-> TRUE, line |-> Entry(s).line, data |-> Entry(s).data]
    BY <1>1, <1>4 DEF req_w
  <2>2. /\ Entry(s).valid /\ Entry(s).line # s.line /\ Entry(s).line \in Own
        /\ Entry(s).line \notin faulty /\ Index(Entry(s).line) = Index(s.line)
    BY <1>2, <1>4 DEF cache_writeback, cache_miss, cache_hit, CInv, Placed, Entry
  <2>3. cache'.req_w \in [valid: BOOLEAN, line: Lines, data: Line]
    BY <1>2, <2>1
  <2> QED
    BY <1>2, <1>4, <2>1, <2>2, <2>3
<1>5. CASE ~(~stalled /\ cache_writeback(s))
  <2>1. cache'.req_w = IF cache.res_w_valid THEN NoWrite ELSE cache.req_w
    BY <1>1, <1>5 DEF req_w
  <2>2. cache'.req_w.valid => cache'.req_w = cache.req_w /\ cache.req_w.valid
    BY <2>1 DEF NoWrite
  <2>3. cache'.req_w.valid => stalled /\ s = cache.stable
    BY <1>2, <2>2
  <2>4. cache.req_w.valid =>
          /\ cache.req_w.line \in Own /\ cache.req_w.line \notin faulty
          /\ Index(cache.req_w.line) = Index(cache.stable.line)
          /\ cache.req_w.line # cache.stable.line
          /\ res_w => ram'[cache.req_w.line] = cache.req_w.data
    BY DEF CInv, Evicted, Cycle, Given
  <2>5. cache'.req_w \in [valid: BOOLEAN, line: Lines, data: Line]
    BY <1>3, <2>1
  <2>6. ~stalled => ~cache_writeback(s)
    BY <1>5
  <2> QED
    BY <2>1, <2>2, <2>3, <2>4, <2>5, <2>6
<1> QED
  BY <1>4, <1>5

(* A cycle keeps what is true of the cache.                                *)
LEMMA StepTypes ==
  ASSUME Parameters, CInv, NEW stalled, NEW req, NEW res_r, NEW res_w, NEW s, NEW e,
         Cycle(stalled, req, res_r, res_w, s, e)
  PROVE  TypeOK'
<1> DEFINE E == [line: Lines, data: Line, valid: BOOLEAN, dirty: BOOLEAN]
           m == [cache.mem EXCEPT ![Index(s.line)] = IF e.valid THEN e ELSE Empty]
           w == req_w(stalled, s)
           d == IF s.valid /\ e.valid THEN e.data ELSE Zero
           miss == ~FALSE /\ cache_miss(s)
           fails == ~FALSE /\ next_fault(stalled, res_r)
           asks == ~FALSE /\ req_r_valid(stalled, s)
<1>1. cache' = [mem |-> m, stable |-> s, rdata_line |-> d, fault |-> fails, miss |-> miss,
                req_r_valid |-> asks, req_w |-> w,
                res_r_valid |-> res_r.valid, res_w_valid |-> res_w]
  BY DEF Cycle, Clock, ReqR, ReqW
<1>2. s \in Request
  BY Requested
<1>3. e \in E
  BY Entered
<1>4. Zero \in Line /\ Empty \in E
  <2>1. Zero \in Line /\ 0 \in Lines
    BY ZeroIsLine DEF Parameters
  <2> QED
    BY <2>1 DEF Empty
<1>5. m \in [0 .. COUNT - 1 -> E]
  BY <1>3, <1>4, CacheTypes DEF CInv
<1>6. d \in Line
  BY <1>3, <1>4
<1>7. w \in [valid: BOOLEAN, line: Lines, data: Line]
  <2>1. w = cache'.req_w
    BY <1>1
  <2> QED
    BY <2>1, NextEvicted
<1>8. miss \in BOOLEAN /\ fails \in BOOLEAN /\ asks \in BOOLEAN
  <2>1. miss \in BOOLEAN
    BY Zenon
  <2>2. fails \in BOOLEAN
    BY Zenon
  <2>3. asks \in BOOLEAN
    BY Zenon
  <2> QED
    BY <2>1, <2>2, <2>3
<1>9. res_r.valid \in BOOLEAN /\ res_w \in BOOLEAN
  BY DEF Cycle, Given, Response
<1> HIDE DEF m, w, d, miss, fails, asks
<1> QED
  BY <1>1, <1>2, <1>5, <1>6, <1>7, <1>8, <1>9 DEF TypeOK, E

LEMMA StepPlaced ==
  ASSUME Parameters, CInv, NEW stalled, NEW req, NEW res_r, NEW res_w, NEW s, NEW e,
         Cycle(stalled, req, res_r, res_w, s, e)
  PROVE  Placed'
<1>1. /\ Index(s.line) \in 0 .. COUNT - 1
      /\ stalled => s = cache.stable
      /\ ~stalled => ~res_w
  BY Requested
<1>2. /\ e.line = s.line
      /\ e.valid => s.line \in Own /\ s.line \notin faulty
      /\ e.valid /\ ~e.dirty => e.data = ram[s.line]
  <2>1. Becomes(s, e, res_r)
    BY Entered
  <2> QED
    BY <2>1 DEF Becomes
<1>3. \A i \in 0 .. COUNT - 1 :
        cache'.mem[i] = IF i = Index(s.line) THEN IF e.valid THEN e ELSE Empty
                        ELSE cache.mem[i]
  BY NextEntries
<1>4. res_w => cache.req_w.valid /\ Index(cache.req_w.line) = Index(s.line)
               /\ cache.req_w.line # s.line
  BY <1>1 DEF Cycle, Given, CInv, Evicted
<1>5. \A l \in Own : (res_w => l # cache.req_w.line) => ram'[l] = ram[l]
  BY DEF Cycle, Given
<1>6. faulty' = faulty
  BY DEF Cycle, Given
<1> SUFFICES ASSUME NEW i \in 0 .. COUNT - 1, cache'.mem[i].valid
             PROVE  /\ cache'.mem[i].line \in Own /\ cache'.mem[i].line \notin faulty
                    /\ Index(cache'.mem[i].line) = i
                    /\ ~cache'.mem[i].dirty => cache'.mem[i].data = ram'[cache'.mem[i].line]
  BY <1>6 DEF Placed, Index
<1>7. CASE i = Index(s.line)
  <2>1. e.valid /\ cache'.mem[i] = e
    BY <1>3, <1>7 DEF Empty
  <2> QED
    BY <1>2, <1>4, <1>5, <1>7, <2>1
<1>8. CASE i # Index(s.line)
  <2>1. cache'.mem[i] = cache.mem[i]
    BY <1>3, <1>8
  <2>2. cache.mem[i].line \in Own /\ Index(cache.mem[i].line) = i
        /\ cache.mem[i].line \notin faulty
        /\ (~cache.mem[i].dirty => cache.mem[i].data = ram[cache.mem[i].line])
    BY <2>1 DEF CInv, Placed
  <2> QED
    BY <1>4, <1>5, <1>8, <2>1, <2>2
<1> QED
  BY <1>7, <1>8

LEMMA StepInv ==
  ASSUME Parameters, CInv, NEW stalled, NEW req, NEW res_r, NEW res_w, NEW s, NEW e,
         Cycle(stalled, req, res_r, res_w, s, e)
  PROVE  CInv'
<1>1. /\ stalled => s = cache.stable
      /\ ~stalled => ~cache.req_w.valid /\ ~res_w /\ ~res_r.valid
      /\ ~stalled /\ s.valid => s = req /\ s.line \in Own
      /\ res_r.valid => Pending /\ ~cache_hit(s) /\ s.valid /\ s.line \in Own
  BY Requested
<1>2. /\ e.line = s.line
      /\ res_r.valid => (e.valid <=> ~res_r.fault)
      /\ ~res_r.valid => (e.valid <=> cache_hit(s))
      /\ e.valid /\ s.valid /\ s.write => e.data[s.word] = s.data
  <2>1. Becomes(s, e, res_r)
    BY Entered
  <2> QED
    BY <2>1 DEF Becomes
<1>3. /\ cache'.stable = s
      /\ Entry(s)' = IF e.valid THEN e ELSE Empty
      /\ cache_hit(s)' <=> e.valid
      /\ e.valid => Entry(s)' = e
  BY NextEntries
<1>4. /\ cache'.rdata_line = IF s.valid /\ e.valid THEN e.data ELSE Zero
      /\ cache'.fault <=> next_fault(stalled, res_r)
      /\ cache'.miss <=> cache_miss(s)
      /\ cache'.req_r_valid <=> req_r_valid(stalled, s)
      /\ cache'.res_r_valid = res_r.valid
      /\ cache'.res_w_valid = res_w
  BY Clocked, ZenonT(60)
<1>5. /\ Entry(cache.stable)' = Entry(s)'
      /\ cache_hit(cache.stable)' <=> cache_hit(s)'
  BY <1>3 DEF Entry, cache_hit, Index
<1>6. TypeOK' /\ Placed'
  BY StepTypes, StepPlaced
<1>7. faulty' = faulty
  BY DEF Cycle, Given
<1>8. Held'
  BY <1>3, <1>5 DEF Held, Empty
<1>9. Shown'
  BY <1>2, <1>3, <1>4, <1>5 DEF Shown
<1>10. Asked'
  <2>1. ASSUME cache'.req_r_valid, ~res_r.valid
        PROVE  s.valid /\ s.line \in Own /\ cache_miss(s) /\ ~cache_hit(s)
               /\ ~next_fault(stalled, res_r)
    <3>1. CASE cache.req_r_valid /\ ~cache.res_r_valid
      <4>1. stalled /\ ~cache.fault /\ cache.stable.valid /\ cache.stable.line \in Own
            /\ ~cache_hit(cache.stable)
        BY <3>1 DEF CInv, Asked, Pending, Cycle, Given, stall
      <4> QED
        BY <1>1, <2>1, <4>1 DEF cache_miss, next_fault
    <3>2. CASE cache_miss(s) /\ ~stalled
      BY <1>1, <2>1, <3>2 DEF cache_miss, next_fault
    <3> QED
      BY <1>4, <2>1, <3>1, <3>2 DEF req_r_valid
  <2>2. ~res_r.valid /\ ~cache_hit(s) => ~cache_hit(s)'
    BY <1>2, <1>3
  <2> QED
    BY <1>3, <1>4, <1>5, <2>1, <2>2 DEF Asked, Pending
<1>11. Faulted'
  <2>1. next_fault(stalled, res_r) => s.line \in faulty
    <3>1. CASE res_r.valid
      BY <1>1, <3>1 DEF next_fault, Cycle, Given
    <3>2. CASE ~res_r.valid
      BY <1>1, <3>2 DEF next_fault, CInv, Faulted
    <3> QED
      BY <3>1, <3>2
  <2> QED
    BY <1>3, <1>4, <1>7, <2>1 DEF Faulted
<1>12. Evicted'
  <2>1. cache'.req_w.valid =>
              /\ cache'.req_w.line \in Own /\ cache'.req_w.line \notin faulty
              /\ Index(cache'.req_w.line) = Index(s.line)
              /\ cache'.req_w.line # s.line
              /\ res_w => ram'[cache'.req_w.line] = cache'.req_w.data
    BY NextEvicted
  <2> QED
    BY <1>3, <1>4, <1>7, <2>1 DEF Evicted, Index
<1> QED
  BY <1>6, <1>8, <1>9, <1>10, <1>11, <1>12 DEF CInv

(* A line is where it was, or where it went: no step of the cache changes  *)
(* what the core sees, except its store.                                   *)
LEMMA ViewIs ==
  ASSUME NEW l
  PROVE  /\ cache.mem[Index(l)].valid /\ cache.mem[Index(l)].line = l =>
              View(l) = cache.mem[Index(l)].data
         /\ ~(cache.mem[Index(l)].valid /\ cache.mem[Index(l)].line = l) =>
              /\ cache.req_w.valid /\ cache.req_w.line = l => View(l) = cache.req_w.data
              /\ ~(cache.req_w.valid /\ cache.req_w.line = l) => View(l) = ram[l]
  BY DEF View

LEMMA ViewWillBe ==
  ASSUME NEW l
  PROVE  /\ cache'.mem[Index(l)].valid /\ cache'.mem[Index(l)].line = l =>
              View(l)' = cache'.mem[Index(l)].data
         /\ ~(cache'.mem[Index(l)].valid /\ cache'.mem[Index(l)].line = l) =>
              /\ cache'.req_w.valid /\ cache'.req_w.line = l => View(l)' = cache'.req_w.data
              /\ ~(cache'.req_w.valid /\ cache'.req_w.line = l) => View(l)' = ram'[l]
  BY DEF View, Index

LEMMA NextView ==
  ASSUME Parameters, CInv, NEW stalled, NEW req, NEW res_r, NEW res_w, NEW s, NEW e,
         Cycle(stalled, req, res_r, res_w, s, e), NEW l \in Own
  PROVE  View(l)' = IF s.valid /\ s.write /\ e.valid /\ l = s.line
                      THEN [View(l) EXCEPT ![s.word] = s.data] ELSE View(l)
<1>1. /\ Index(s.line) \in 0 .. COUNT - 1
      /\ stalled => s = cache.stable
      /\ ~stalled => ~cache.req_w.valid /\ ~res_w /\ ~res_r.valid
      /\ res_r.valid => ~cache_hit(s)
      /\ Entry(s).valid /\ ~cache_hit(s) => ~stalled /\ s.valid
  BY Requested
<1>2. /\ e.line = s.line
      /\ ~res_r.valid => (e.valid <=> cache_hit(s))
      /\ e.valid /\ s.valid /\ s.write => e.data = [View(s.line) EXCEPT ![s.word] = s.data]
      /\ e.valid /\ ~(s.valid /\ s.write) => e.data = View(s.line)
  <2>1. Becomes(s, e, res_r)
    BY Entered
  <2> QED
    BY <2>1 DEF Becomes
<1>3. /\ \A i \in 0 .. COUNT - 1 :
           cache'.mem[i] = IF i = Index(s.line) THEN IF e.valid THEN e ELSE Empty
                           ELSE cache.mem[i]
      /\ ~Empty.valid
  <2>1. ~Empty.valid
    BY Zenon DEF Empty
  <2>2. \A i \in 0 .. COUNT - 1 :
          cache'.mem[i] = IF i = Index(s.line) THEN IF e.valid THEN e ELSE Empty
                          ELSE cache.mem[i]
    BY NextEntries
  <2> QED
    BY <2>1, <2>2
<1>4. Index(l) \in 0 .. COUNT - 1
  BY IndexIn DEF Parameters
<1>5. /\ cache'.req_w.valid =>
           Index(cache'.req_w.line) = Index(s.line) /\ cache'.req_w.line # s.line
      /\ stalled => cache'.req_w = IF cache.res_w_valid THEN NoWrite ELSE cache.req_w
      /\ ~stalled => IF cache_writeback(s)
                       THEN /\ cache'.req_w.valid /\ cache'.req_w.line = Entry(s).line
                            /\ cache'.req_w.data = Entry(s).data
                       ELSE ~cache'.req_w.valid
  BY NextEvicted
<1>6. stalled /\ cache.req_w.valid =>
        /\ Index(cache.req_w.line) = Index(s.line) /\ cache.req_w.line # s.line
        /\ cache.res_w_valid => ram[cache.req_w.line] = cache.req_w.data
  BY <1>1 DEF CInv, Evicted
<1>7. /\ res_w => cache.req_w.valid
      /\ ram'[l] = IF res_w /\ l = cache.req_w.line THEN cache.req_w.data ELSE ram[l]
  BY DEF Cycle, Given
<1>8. CASE l = s.line
  <2>1. CASE e.valid
    <3>1. View(l)' = e.data
      BY <1>2, <1>3, <1>4, <1>8, <2>1, ViewWillBe
    <3> QED
      BY <1>2, <1>8, <2>1, <3>1
  <2>2. CASE ~e.valid
    <3>1. ~cache_hit(s)
      BY <1>1, <1>2, <2>2
    <3>2. View(l) = ram[l]
      BY <1>1, <1>6, <1>8, <3>1, ViewIs DEF cache_hit, Entry
    <3>3. View(l)' = ram'[l]
      BY <1>3, <1>4, <1>5, <1>8, <2>2, ViewWillBe
    <3>4. ram'[l] = ram[l]
      BY <1>1, <1>6, <1>7, <1>8
    <3> QED
      BY <2>2, <3>2, <3>3, <3>4
  <2> QED
    BY <2>1, <2>2
<1>9. CASE l # s.line /\ Index(l) = Index(s.line)
  <2>1. /\ cache'.req_w.valid /\ cache'.req_w.line = l => View(l)' = cache'.req_w.data
        /\ ~(cache'.req_w.valid /\ cache'.req_w.line = l) => View(l)' = ram'[l]
    BY <1>2, <1>3, <1>4, <1>9, ViewWillBe
  <2>2. CASE Entry(s).valid /\ Entry(s).line = l
    <3>1. View(l) = Entry(s).data
      BY <1>9, <2>2, ViewIs DEF Entry
    <3>2. ~cache_hit(s) /\ ~stalled /\ cache_miss(s) /\ ~res_w
      BY <1>1, <1>9, <2>2 DEF cache_hit, cache_miss
    <3>3. ~Entry(s).dirty => Entry(s).data = ram[l]
      BY <1>1, <2>2 DEF CInv, Placed, Entry
    <3>4. CASE Entry(s).dirty
      BY <1>5, <1>9, <2>1, <2>2, <3>1, <3>2, <3>4 DEF cache_writeback
    <3>5. CASE ~Entry(s).dirty
      BY <1>5, <1>7, <1>9, <2>1, <3>1, <3>2, <3>3, <3>5 DEF cache_writeback
    <3> QED
      BY <3>4, <3>5
  <2>3. CASE ~(Entry(s).valid /\ Entry(s).line = l)
    <3>1. /\ cache.req_w.valid /\ cache.req_w.line = l => View(l) = cache.req_w.data
          /\ ~(cache.req_w.valid /\ cache.req_w.line = l) => View(l) = ram[l]
      BY <1>9, <2>3, ViewIs DEF Entry
    <3>2. CASE stalled
      <4>1. ~NoWrite.valid
        BY DEF NoWrite
      <4> QED
        BY <1>5, <1>6, <1>7, <1>9, <2>1, <3>1, <3>2, <4>1
    <3>3. CASE ~stalled
      <4>1. cache'.req_w.valid => cache'.req_w.line # l
        BY <1>5, <2>3, <3>3 DEF cache_writeback
      <4> QED
        BY <1>1, <1>7, <1>9, <2>1, <3>1, <3>3, <4>1
    <3> QED
      BY <3>2, <3>3
  <2> QED
    BY <2>2, <2>3
<1>10. CASE Index(l) # Index(s.line)
  <2>1. cache'.mem[Index(l)] = cache.mem[Index(l)] /\ l # s.line
    BY <1>3, <1>4, <1>10
  <2>2. cache.req_w.valid => cache.req_w.line # l
    BY <1>1, <1>6, <1>10
  <2>3. cache'.req_w.valid => cache'.req_w.line # l
    BY <1>5, <1>10
  <2>4. ram'[l] = ram[l]
    BY <1>7, <2>2
  <2> QED
    BY <2>1, <2>2, <2>3, <2>4, ViewIs, ViewWillBe
<1> QED
  BY <1>8, <1>9, <1>10

(* Requests are held until they are answered, and a line that was looked   *)
(* for has been found or is missing.                                       *)
LEMMA NextRequest ==
  ASSUME Parameters, CInv, NEW stalled, NEW req, NEW res_r, NEW res_w, NEW s, NEW e,
         Cycle(stalled, req, res_r, res_w, s, e)
  PROVE  /\ cache'.stable = s
         /\ stalled => s = cache.stable
         /\ s.valid => cache'.miss \/ cache_hit(s)'
         /\ Pending' <=> req_r_valid(stalled, s) /\ ~res_r.valid
         /\ Pending => stalled /\ (Pending' <=> ~res_r.valid)
         /\ cache'.res_w_valid = res_w
         /\ cache.req_w.valid =>
              cache'.req_w = IF cache.res_w_valid THEN NoWrite ELSE cache.req_w
<1>1. Becomes(s, e, res_r)
  BY Entered
<1>2. /\ cache'.stable = s /\ (cache_hit(s)' <=> e.valid)
  BY NextEntries
<1>3. /\ cache'.miss <=> cache_miss(s)
      /\ cache'.req_r_valid <=> req_r_valid(stalled, s)
      /\ cache'.res_r_valid = res_r.valid /\ cache'.res_w_valid = res_w
  BY Clocked, ZenonT(60)
<1>4. /\ stalled => s = cache.stable
      /\ ~stalled => ~cache.req_w.valid
      /\ res_r.valid => Pending /\ ~cache_hit(s)
  BY Requested
<1>5. stalled => cache'.req_w = IF cache.res_w_valid THEN NoWrite ELSE cache.req_w
  BY NextEvicted
<1>6. s.valid => cache'.miss \/ cache_hit(s)'
  BY <1>1, <1>2, <1>3, <1>4 DEF Becomes, cache_miss
<1>7. Pending' <=> req_r_valid(stalled, s) /\ ~res_r.valid
  BY <1>3 DEF Pending
<1>8. Pending => stalled
  BY DEF CInv, Asked, Cycle, Given, stall
<1> QED
  BY <1>2, <1>3, <1>4, <1>5, <1>6, <1>7, <1>8 DEF Pending, req_r_valid

(* What the core takes when it is not stalled is what it asked for.        *)
LEMMA Answered ==
  ASSUME Parameters, CInv, ~stall, cache.stable.valid, cache.stable.line \in Own,
         cache.miss \/ cache_hit(cache.stable)
  PROVE  /\ fault <=> cache.stable.line \in faulty
         /\ ~fault =>
              /\ rdata = View(cache.stable.line)[cache.stable.word]
              /\ cache.stable.write => rdata = cache.stable.data
<1>1. cache.stable.line \in Lines /\ Index(cache.stable.line) \in 0 .. COUNT - 1
  BY CacheTypes, IndexIn DEF CInv, Request
<1>2. fault => cache.stable.line \in faulty
  BY DEF fault, CInv, Faulted
<1>3. ASSUME ~fault
      PROVE  /\ cache.stable.line \notin faulty
             /\ rdata = View(cache.stable.line)[cache.stable.word]
             /\ cache.stable.write => rdata = cache.stable.data
  <2>1. cache_hit(cache.stable)
    BY <1>3 DEF fault, stall
  <2>2. cache.stable.line \notin faulty
    BY <1>1, <2>1 DEF cache_hit, Entry, CInv, Placed
  <2>3. View(cache.stable.line) = Entry(cache.stable).data
    BY <2>1, ViewIs DEF cache_hit, Entry
  <2> QED
    BY <2>1, <2>2, <2>3 DEF CInv, Shown, rdata
<1> QED
  BY <1>2, <1>3

(* Before it was asked for anything, a line is where it always was.        *)
LEMMA Reset ==
  ASSUME Parameters, Init, NEW stalled \in BOOLEAN, NEW req \in Request,
         NEW res_r \in Response, ~res_r.valid, NEW on, on = TRUE, NEW none, none = FALSE,
         Clock(on, stalled, req, res_r, none)
  PROVE  /\ CInv' /\ ~Pending' /\ ~cache'.res_w_valid /\ ~cache'.req_w.valid
         /\ cache'.stable.write => cache'.stable = req /\ ~stalled
         /\ \A i \in 0 .. COUNT - 1 : ~cache'.mem[i].valid /\ ~cache'.mem[i].dirty
<1> PICK s : s = Stable(stalled, req)
  OBVIOUS
<1> PICK e : e = EntryIn(s, res_r)
  OBVIOUS
<1> DEFINE m == [i \in 0 .. COUNT - 1 |-> Empty]
<1>1. \E valid \in BOOLEAN :
        /\ cache.mem = m
        /\ cache.stable = [NoRequest EXCEPT !.valid = valid]
  BY DEF Init
<1>2. cache.stable \in Request /\ ~cache.stable.write /\ cache.stable.line = 0
  <2> PICK valid \in BOOLEAN : cache.stable = [NoRequest EXCEPT !.valid = valid]
    BY <1>1
  <2>1. cache.stable = [valid |-> valid, line |-> 0, word |-> 0, write |-> FALSE, data |-> 0]
    BY DEF NoRequest
  <2>2. 0 \in Lines /\ 0 \in Words /\ 0 \in Data
    BY DEF Words, Parameters
  <2>3. [valid |-> valid, line |-> 0, word |-> 0, write |-> FALSE, data |-> 0] \in Request
    BY <2>2 DEF Request
  <2> QED
    BY <2>1, <2>3
<1>3. s \in Request /\ (s.write => s = req /\ ~stalled)
  <2>1. CASE s = cache.stable
    BY <1>2, <2>1
  <2>2. CASE ~stalled /\ req.valid
    BY <2>2 DEF Stable
  <2>3. CASE ~stalled /\ ~req.valid
    <3> SUFFICES ASSUME NEW r, r = [NoRequest EXCEPT !.line = cache.stable.line]
                 PROVE  r \in Request /\ ~r.write
      BY <2>3 DEF Stable
    <3>1. r = [valid |-> FALSE, line |-> 0, word |-> 0, write |-> FALSE, data |-> 0]
      BY <1>2 DEF NoRequest
    <3>2. 0 \in Lines /\ 0 \in Words /\ 0 \in Data
      BY DEF Words, Parameters
    <3>3. [valid |-> FALSE, line |-> 0, word |-> 0, write |-> FALSE, data |-> 0] \in Request
      BY <3>2 DEF Request
    <3>4. ~r.write
      BY <3>1
    <3>5. r \in Request
      BY <3>1, <3>3
    <3> QED
      BY <3>4, <3>5
  <2> QED
    BY <2>1, <2>2, <2>3 DEF Stable
<1>4. Index(s.line) \in 0 .. COUNT - 1 /\ Index(s.line)' \in 0 .. COUNT - 1
  BY <1>3, IndexIn DEF Request, Index
<1>5. ~e.valid
  <2>1. Entry(s) = Empty
    BY <1>1, <1>4 DEF Entry
  <2>2. ~cache_hit(s)
    BY <2>1 DEF cache_hit, Empty
  <2>3. e.valid = valid_in(s, res_r)
    BY DEF EntryIn
  <2> QED
    BY <2>2, <2>3 DEF valid_in
<1> DEFINE fails == ~on /\ next_fault(stalled, res_r)
           misses == ~on /\ cache_miss(s)
           asks == ~on /\ req_r_valid(stalled, s)
<1>6. cache' = [mem |-> m, stable |-> s,
                rdata_line |-> IF s.valid /\ e.valid THEN e.data ELSE Zero,
                fault |-> fails, miss |-> misses, req_r_valid |-> asks, req_w |-> NoWrite,
                res_r_valid |-> res_r.valid, res_w_valid |-> FALSE]
  BY DEF Clock, ReqR, ReqW
<1>7. fails = FALSE /\ misses = FALSE /\ asks = FALSE
  OBVIOUS
<1> HIDE DEF fails, misses, asks
<1>8. cache' = [mem |-> m, stable |-> s, rdata_line |-> Zero, fault |-> FALSE, miss |-> FALSE,
                req_r_valid |-> FALSE, req_w |-> NoWrite, res_r_valid |-> FALSE,
                res_w_valid |-> FALSE]
  <2>1. res_r.valid = FALSE
    BY DEF Response
  <2> QED
    BY <1>5, <1>6, <1>7, <2>1
<1>9. \A i \in 0 .. COUNT - 1 : cache'.mem[i] = Empty
  BY <1>8
<1>10. Zero \in Line /\ 0 \in Lines
  BY ZeroIsLine DEF Parameters
<1>11. TypeOK'
  <2>1. m \in [0 .. COUNT - 1 -> [line: Lines, data: Line, valid: BOOLEAN, dirty: BOOLEAN]]
    BY <1>10 DEF Empty
  <2>2. NoWrite \in [valid: BOOLEAN, line: Lines, data: Line]
    BY <1>10 DEF NoWrite
  <2> HIDE DEF m
  <2> QED
    BY <1>3, <1>8, <1>10, <2>1, <2>2 DEF TypeOK
<1>12. cache'.stable = s /\ ~Entry(s)'.valid
  BY <1>4, <1>8, <1>9 DEF Entry, Empty
<1>13. /\ ~cache'.fault /\ ~cache'.req_r_valid /\ ~cache'.req_w.valid /\ ~cache'.res_w_valid
  BY <1>8 DEF NoWrite
<1>14. Placed'
  BY <1>9 DEF Placed, Empty
<1>15. ~Entry(cache.stable)'.valid
  BY <1>12 DEF Entry, Index
<1>16. Held' /\ Shown' /\ Asked' /\ Faulted' /\ Evicted' /\ ~Pending'
  BY <1>13, <1>15 DEF Held, Shown, Asked, Faulted, Evicted, Pending, cache_hit
<1> QED
  BY <1>3, <1>9, <1>11, <1>12, <1>13, <1>14, <1>16 DEF CInv, Empty

(* A cache that is never stored to has nothing to write back.              *)
Clean ==
  /\ ~cache.stable.write /\ ~cache.req_w.valid
  /\ \A i \in 0 .. COUNT - 1 : ~cache.mem[i].dirty

LEMMA StaysClean ==
  ASSUME Parameters, CInv, NEW stalled, NEW req, NEW res_r, NEW res_w, NEW s, NEW e,
         Cycle(stalled, req, res_r, res_w, s, e), Clean, ~req.write
  PROVE  Clean'
<1>1. ~s.write
  <2>1. CASE s = cache.stable \/ s = req
    BY <2>1 DEF Clean
  <2>2. CASE s = [NoRequest EXCEPT !.line = cache.stable.line]
    BY <2>2 DEF NoRequest
  <2> QED
    BY <2>1, <2>2 DEF Cycle, Stable
<1>2. ~Entry(s).dirty
  BY Requested DEF Clean, Entry
<1>3. e.dirty <=> (s.valid /\ s.write) \/ (~res_r.valid /\ Entry(s).dirty)
  BY Zenon DEF Cycle, EntryIn
<1>4. \A i \in 0 .. COUNT - 1 : ~cache'.mem[i].dirty
  <2>1. \A i \in 0 .. COUNT - 1 :
          cache'.mem[i] = IF i = Index(s.line) THEN IF e.valid THEN e ELSE Empty
                          ELSE cache.mem[i]
    BY NextEntries
  <2> QED
    BY <1>1, <1>2, <1>3, <2>1 DEF Clean, Empty
<1>5. ~cache'.req_w.valid
  <2>1. /\ stalled => cache'.req_w = IF cache.res_w_valid THEN NoWrite ELSE cache.req_w
        /\ ~stalled => IF cache_writeback(s)
                         THEN /\ cache'.req_w.valid /\ cache'.req_w.line = Entry(s).line
                              /\ cache'.req_w.data = Entry(s).data
                         ELSE ~cache'.req_w.valid
    BY NextEvicted
  <2> QED
    BY <1>2, <2>1 DEF Clean, cache_writeback, NoWrite
<1>6. cache'.stable = s
  BY NextEntries
<1> QED
  BY <1>1, <1>4, <1>5, <1>6 DEF Clean

(* What the bus is asked for in a cycle.                                   *)
LEMMA Offered ==
  ASSUME Parameters, CInv, NEW stalled, NEW req, NEW res_r, NEW res_w, NEW s, NEW e,
         Cycle(stalled, req, res_r, res_w, s, e)
  PROVE  /\ ReqR(FALSE, stalled, req).line = s.line /\ s.line \in Lines
         /\ ReqR(FALSE, stalled, req).valid /\ ~res_r.valid <=> Pending'
         /\ ReqW(FALSE, stalled, req) = cache'.req_w
         /\ cache'.req_w \in [valid: BOOLEAN, line: Lines, data: Line]
<1>0. PICK r : r = ReqR(FALSE, stalled, req)
  OBVIOUS
<1> DEFINE asks == ~FALSE /\ req_r_valid(stalled, s)
<1>1. r = [valid |-> asks, line |-> s.line]
  BY <1>0 DEF ReqR, Cycle
<1>2. asks <=> req_r_valid(stalled, s)
  OBVIOUS
<1> HIDE DEF asks
<1>3. r.valid = asks /\ r.line = s.line
  BY <1>1
<1>4. r.valid <=> req_r_valid(stalled, s)
  BY <1>2, <1>3, Zenon
<1>5. Pending' <=> req_r_valid(stalled, s) /\ ~res_r.valid
  BY NextRequest
<1>6. s.line \in Lines
  BY Requested DEF Request
<1>7. ReqW(FALSE, stalled, req) = cache'.req_w
  BY Clocked DEF ReqW, Cycle
<1> QED
  BY <1>0, <1>3, <1>4, <1>5, <1>6, <1>7, NextEvicted
=============================================================================
