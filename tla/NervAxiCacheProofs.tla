------------------------- MODULE NervAxiCacheProofs -------------------------
(***************************************************************************)
(* The caches, the bypass and the AXI manager together.                    *)
(***************************************************************************)
EXTENDS NervAxiCache, TLAPS

CodeLines == {a[1] : a \in Code}
DataLines == {a[1] : a \in Cacheable} \ IoLines

IP == INSTANCE NervCacheProofs WITH cache <- icache, Own <- CodeLines
DP == INSTANCE NervCacheProofs WITH cache <- dcache, Own <- DataLines
-----------------------------------------------------------------------------
(* The memory, and what a transaction is about.                            *)
Ram == ram \in [Lines -> [Words -> Data]] /\ faulty \subseteq Lines

Transfer(want) ==
  /\ want.line \in Lines
  /\ \/ want.word = 0 /\ want.len = BEATS
     \/ want.word \in Words /\ want.len = 1

(* A read in progress: it is offered, or so much of it has arrived.        *)
Reads(want) ==
  /\ rd.arvalid => rd.addr = want
  /\ rd.arvalid /\ ~rd.arready => reads = NoRead
  /\ ~(rd.arvalid /\ ~rd.arready) =>
       /\ reads.left \in 1 .. want.len
       /\ reads.line = want.line
       /\ reads.word = want.word + (want.len - reads.left)
       /\ rd.arvalid => reads.left = want.len
       /\ \A i \in 0 .. want.len - reads.left - 1 :
            rd.data[BEATS - (want.len - reads.left) + i] = ram[want.line][want.word + i]
       /\ ~rd.arvalid /\ rd.fault => want.line \in faulty

(* A cycle of the reads.                                                   *)
ReadStep(imem, dmem, uncached, deliver, read, arready) ==
  /\ deliver \in BOOLEAN /\ (deliver => reads.left > 0)
  /\ read = Ax!Read(FALSE, imem, dmem, uncached, Beat(deliver))
  /\ arready \in BOOLEAN /\ (arready => read.arvalid /\ reads.left = 0)
  /\ Reading(read, deliver, arready)
  /\ rd' = [state |-> read.state, arvalid |-> read.arvalid, arready |-> arready,
            addr |-> IF read.arvalid THEN read.addr ELSE Ax!NoAddress,
            data |-> IF read.state = "R_IDLE" THEN Ax!Zero ELSE read.data,
            fault |-> read.fault]

Granted(imem, dmem, uncached) ==
  /\ rd.state = "R_IDLE" /\ ~(rd.arvalid /\ ~rd.arready) /\ ~reset_q
  /\ (imem.valid \/ dmem.valid \/ uncached.valid)

LEMMA ReadIs ==
  ASSUME NEW imem, NEW dmem, NEW uncached, NEW deliver, NEW read, NEW arready,
         ReadStep(imem, dmem, uncached, deliver, read, arready)
  PROVE  /\ read.done <=> rd.state # "R_IDLE" /\ deliver /\ reads.left = 1
         /\ read.state = IF read.done THEN "R_IDLE"
                         ELSE IF Granted(imem, dmem, uncached)
                           THEN Ax!Granted(imem, dmem, uncached).state ELSE rd.state
         /\ read.arvalid <=> Granted(imem, dmem, uncached) \/ (rd.arvalid /\ ~rd.arready)
         /\ read.addr = IF Granted(imem, dmem, uncached)
                          THEN Ax!Granted(imem, dmem, uncached).addr ELSE rd.addr
         /\ read.data = IF rd.state # "R_IDLE" /\ deliver
                          THEN Ax!ShiftIn(rd.data, ram[reads.line][reads.word]) ELSE rd.data
         /\ read.fault <=> \/ rd.state # "R_IDLE" /\ deliver /\ reads.line \in faulty
                           \/ rd.fault /\ ~(rd.arvalid /\ rd.arready)
         /\ read.done \in BOOLEAN /\ read.arvalid \in BOOLEAN /\ read.fault \in BOOLEAN
<1> DEFINE beat == rd.state # "R_IDLE" /\ Beat(deliver).valid
           dropped == rd.arready /\ rd.arvalid
           granted == /\ rd.state = "R_IDLE" /\ ~(rd.arvalid /\ ~dropped) /\ ~reset_q
                      /\ (imem.valid \/ dmem.valid \/ uncached.valid)
           done == beat /\ Beat(deliver).last
           arvalid == ~FALSE /\ (granted \/ (rd.arvalid /\ ~dropped))
           fails == (beat /\ Beat(deliver).fault) \/ (rd.fault /\ ~dropped)
<1>1. read = [state |-> IF FALSE \/ done THEN "R_IDLE"
                        ELSE IF granted THEN Ax!Granted(imem, dmem, uncached).state ELSE rd.state,
              arvalid |-> arvalid,
              addr |-> IF granted THEN Ax!Granted(imem, dmem, uncached).addr ELSE rd.addr,
              data |-> IF beat THEN Ax!ShiftIn(rd.data, Beat(deliver).data) ELSE rd.data,
              fault |-> fails, done |-> done]
  BY DEF ReadStep, Ax!Read
<1>2. /\ Beat(deliver).valid = deliver /\ Beat(deliver).data = ram[reads.line][reads.word]
      /\ Beat(deliver).fault = (reads.line \in faulty) /\ Beat(deliver).last = (reads.left = 1)
  BY DEF Beat
<1>3. /\ beat <=> rd.state # "R_IDLE" /\ deliver
      /\ done <=> rd.state # "R_IDLE" /\ deliver /\ reads.left = 1
      /\ fails <=> \/ rd.state # "R_IDLE" /\ deliver /\ reads.line \in faulty
                   \/ rd.fault /\ ~(rd.arvalid /\ rd.arready)
  BY <1>2, Zenon
<1>4. granted <=> Granted(imem, dmem, uncached)
  BY DEF Granted
<1>5. arvalid <=> Granted(imem, dmem, uncached) \/ (rd.arvalid /\ ~rd.arready)
  BY <1>4
<1>10. done \in BOOLEAN /\ arvalid \in BOOLEAN /\ fails \in BOOLEAN
  <2>1. done \in BOOLEAN
    BY Zenon
  <2>2. arvalid \in BOOLEAN
    BY Zenon
  <2>3. fails \in BOOLEAN
    BY Zenon
  <2> QED
    BY <2>1, <2>2, <2>3
<1> HIDE DEF beat, granted, done, arvalid, fails
<1>6. read.done = done /\ read.arvalid = arvalid /\ read.fault = fails
  BY <1>1
<1>7. /\ read.done <=> done
      /\ read.arvalid <=> arvalid
      /\ read.fault <=> fails
  BY <1>6, Zenon
<1>8. read.state = IF done THEN "R_IDLE"
                   ELSE IF granted THEN Ax!Granted(imem, dmem, uncached).state ELSE rd.state
  BY <1>1
<1>9. /\ read.addr = IF granted THEN Ax!Granted(imem, dmem, uncached).addr ELSE rd.addr
      /\ read.data = IF beat THEN Ax!ShiftIn(rd.data, Beat(deliver).data) ELSE rd.data
  BY <1>1
<1> QED
  BY <1>2, <1>3, <1>4, <1>5, <1>6, <1>7, <1>8, <1>9, <1>10

(* A read that is granted is offered, and may be taken at once.            *)
LEMMA ReadStarts ==
  ASSUME NEW imem, NEW dmem, NEW uncached, NEW deliver, NEW read, NEW arready, NEW want,
         ReadStep(imem, dmem, uncached, deliver, read, arready),
         rd.state = "R_IDLE", ~rd.arvalid, reads = NoRead,
         Granted(imem, dmem, uncached), Transfer(want),
         want = Ax!Granted(imem, dmem, uncached).addr
  PROVE  /\ rd'.state = Ax!Granted(imem, dmem, uncached).state
         /\ Reads(want)'
<1>1. /\ ~read.done /\ read.state = Ax!Granted(imem, dmem, uncached).state
      /\ read.arvalid /\ read.addr = want /\ ~deliver
  <2>1. ~deliver
    BY DEF ReadStep, NoRead
  <2> QED
    BY <2>1, ReadIs
<1>2. reads' = IF arready THEN [line |-> want.line, word |-> want.word, left |-> want.len]
               ELSE NoRead
  BY <1>1 DEF ReadStep, Reading
<1>3. /\ rd'.state = read.state /\ rd'.arready = arready /\ rd'.addr = want
      /\ (rd'.arvalid <=> read.arvalid)
  <2>1. /\ rd'.state = read.state /\ rd'.arready = arready
        /\ rd'.addr = IF read.arvalid THEN read.addr ELSE Ax!NoAddress
        /\ rd'.arvalid = read.arvalid
    BY DEF ReadStep
  <2> QED
    BY <1>1, <2>1
<1>4. want.len \in Nat \ {0} /\ want.word \in Nat
  BY SizeAssumption DEF Transfer, Words
<1>5. Reads(want)'
  BY <1>1, <1>2, <1>3, <1>4 DEF Reads
<1> QED
  BY <1>1, <1>3, <1>5

(* A read that is in progress goes on until its last beat.                 *)
LEMMA ReadGoesOn ==
  ASSUME Ram, NEW imem, NEW dmem, NEW uncached, NEW deliver, NEW read, NEW arready, NEW want,
         ReadStep(imem, dmem, uncached, deliver, read, arready),
         rd.state # "R_IDLE", Ax!TypeOK, Reads(want), Transfer(want), ~read.done,
         want.len = BEATS => ram'[want.line] = ram[want.line], faulty' = faulty
  PROVE  rd'.state = rd.state /\ Reads(want)'
<1>1. /\ ~Granted(imem, dmem, uncached)
      /\ ~(deliver /\ reads.left = 1)
      /\ read.state = rd.state /\ (read.arvalid <=> rd.arvalid /\ ~rd.arready)
      /\ read.addr = rd.addr
      /\ read.data = IF deliver
                          THEN Ax!ShiftIn(rd.data, ram[reads.line][reads.word]) ELSE rd.data
      /\ read.fault <=> \/ deliver /\ reads.line \in faulty
                        \/ rd.fault /\ ~(rd.arvalid /\ rd.arready)
  <2>1. ~Granted(imem, dmem, uncached)
    BY DEF Granted
  <2> QED
    BY <2>1, ReadIs
<1>2. /\ rd'.state = rd.state /\ rd'.arready = arready
      /\ rd'.addr = IF read.arvalid THEN rd.addr ELSE Ax!NoAddress
      /\ (rd'.arvalid <=> rd.arvalid /\ ~rd.arready)
      /\ rd'.data = read.data /\ (rd'.fault <=> read.fault)
  <2>1. /\ rd'.state = read.state /\ rd'.arready = arready
        /\ rd'.addr = IF read.arvalid THEN read.addr ELSE Ax!NoAddress
        /\ rd'.arvalid = read.arvalid /\ rd'.fault = read.fault
        /\ rd'.data = IF read.state = "R_IDLE" THEN Ax!Zero ELSE read.data
    BY DEF ReadStep
  <2> QED
    BY <1>1, <2>1
<1>3. /\ deliver \in BOOLEAN /\ (deliver => reads.left > 0)
      /\ arready \in BOOLEAN /\ (arready => rd.arvalid /\ ~rd.arready /\ reads.left = 0)
      /\ reads' =
           IF arready
             THEN [line |-> read.addr.line, word |-> read.addr.word, left |-> read.addr.len]
           ELSE IF deliver
             THEN [reads EXCEPT !.left = @ - 1, !.word = (@ + 1) % BEATS] ELSE reads
  <2>1. /\ deliver \in BOOLEAN /\ (deliver => reads.left > 0)
        /\ arready \in BOOLEAN /\ (arready => read.arvalid /\ reads.left = 0)
        /\ reads' =
           IF arready
             THEN [line |-> read.addr.line, word |-> read.addr.word, left |-> read.addr.len]
           ELSE IF deliver /\ reads.left = 1 THEN NoRead
           ELSE IF deliver
             THEN [reads EXCEPT !.left = @ - 1, !.word = (@ + 1) % BEATS] ELSE reads
    BY DEF ReadStep, Reading
  <2> QED
    BY <1>1, <2>1
<1>4. /\ want.len \in Nat \ {0} /\ want.len <= BEATS /\ want.word \in Nat
      /\ want.word + want.len <= BEATS /\ (want.len # BEATS => want.len = 1)
  BY SizeAssumption DEF Transfer, Words
<1>5. CASE rd.arvalid /\ ~rd.arready
  <2>1. rd.addr = want /\ reads = NoRead /\ ~deliver
    BY <1>3, <1>5 DEF Reads, NoRead
  <2>2. reads' = IF arready THEN [line |-> want.line, word |-> want.word, left |-> want.len]
                 ELSE NoRead
    BY <1>1, <1>3, <2>1
  <2>3. rd'.arvalid /\ rd'.addr = want
    BY <1>1, <1>2, <1>5, <2>1
  <2> QED
    BY <1>2, <1>4, <2>2, <2>3 DEF Reads
<1>6. CASE ~(rd.arvalid /\ ~rd.arready)
  <2>1. /\ ~rd'.arvalid /\ ~arready
        /\ reads.left \in 1 .. want.len /\ reads.line = want.line
        /\ reads.word = want.word + (want.len - reads.left)
        /\ \A i \in 0 .. want.len - reads.left - 1 :
             rd.data[BEATS - (want.len - reads.left) + i] = ram[want.line][want.word + i]
        /\ rd.fault /\ ~rd.arvalid => want.line \in faulty
    BY <1>2, <1>3, <1>6 DEF Reads
  <2>2. rd'.fault => want.line \in faulty'
    BY <1>1, <1>2, <1>6, <2>1
  <2>3. CASE ~deliver
    <3>1. reads' = reads /\ rd'.data = rd.data
      BY <1>1, <1>2, <1>3, <2>1, <2>3
    <3>2. \A i \in 0 .. want.len - reads.left - 1 : ram'[want.line] = ram[want.line]
      BY <1>4, <2>1
    <3> QED
      BY <1>2, <1>6, <2>1, <2>2, <3>1, <3>2 DEF Reads
  <2>4. CASE deliver
    <3>1. /\ reads.left \in 2 .. want.len /\ want.len = BEATS /\ want.word = 0
          /\ ram'[want.line] = ram[want.line]
      BY <1>1, <1>4, <2>1, <2>4
    <3>2. reads.word \in 0 .. BEATS - 2 /\ reads.word = BEATS - reads.left
      BY <2>1, <3>1, SizeAssumption
    <3>3. (reads.word + 1) % BEATS = reads.word + 1
      BY <3>2, SizeAssumption
    <3>4. reads' = [reads EXCEPT !.left = @ - 1, !.word = (@ + 1) % BEATS]
      BY <1>3, <2>1, <2>4
    <3>5. reads'.left = reads.left - 1 /\ reads'.line = want.line /\ reads'.word = reads.word + 1
      BY <2>1, <3>3, <3>4
    <3>6. rd'.data = [w \in Words |-> IF w = BEATS - 1 THEN ram[want.line][reads.word]
                                      ELSE rd.data[w + 1]]
      BY <1>1, <1>2, <2>1, <2>4 DEF Ax!ShiftIn, Ax!Words, Words
    <3>7. ASSUME NEW i \in 0 .. reads.word
          PROVE  rd'.data[BEATS - (reads.word + 1) + i] = ram'[want.line][i]
      <4>1. BEATS - (reads.word + 1) + i \in Words
        BY <3>2, SizeAssumption DEF Words
      <4>2. CASE i = reads.word
        BY <3>1, <3>2, <3>6, <4>1, <4>2, SizeAssumption
      <4>3. CASE i # reads.word
        <5>1. i \in 0 .. want.len - reads.left - 1
          BY <3>1, <3>2, <4>3, SizeAssumption
        <5>2. rd.data[BEATS - (want.len - reads.left) + i] = ram[want.line][want.word + i]
          BY <2>1, <5>1
        <5>3. BEATS - (want.len - reads.left) + i = BEATS - (reads.word + 1) + i + 1
              /\ BEATS - (reads.word + 1) + i # BEATS - 1 /\ want.word + i = i
          BY <3>1, <3>2, <4>3, SizeAssumption
        <5> QED
          BY <3>1, <3>6, <4>1, <5>2, <5>3
      <4> QED
        BY <4>2, <4>3
    <3>8. reads'.left \in 1 .. want.len /\ want.len - reads'.left = reads.word + 1
          /\ reads'.word = want.word + (want.len - reads'.left)
      BY <3>1, <3>2, <3>5, SizeAssumption
    <3>9. \A i \in 0 .. want.len - reads'.left - 1 :
            rd'.data[BEATS - (want.len - reads'.left) + i] = ram'[want.line][want.word + i]
      BY <3>1, <3>2, <3>7, <3>8, SizeAssumption
    <3> QED
      BY <1>2, <2>1, <2>2, <3>5, <3>8, <3>9 DEF Reads
  <2> QED
    BY <1>3, <2>3, <2>4
<1> QED
  BY <1>2, <1>5, <1>6

(* With its last beat all of it has arrived.                               *)
LEMMA ReadEnds ==
  ASSUME Ram, NEW imem, NEW dmem, NEW uncached, NEW deliver, NEW read, NEW arready, NEW want,
         ReadStep(imem, dmem, uncached, deliver, read, arready),
         rd.state # "R_IDLE", Ax!TypeOK, Reads(want), Transfer(want), read.done
  PROVE  /\ rd'.state = "R_IDLE" /\ ~rd'.arvalid /\ reads' = NoRead
         /\ read.fault <=> want.line \in faulty
         /\ want.len = BEATS => read.data = ram[want.line]
         /\ want.len = 1 => read.data[BEATS - 1] = ram[want.line][want.word]
<1>1. /\ ~Granted(imem, dmem, uncached)
      /\ deliver /\ reads.left = 1
      /\ read.state = "R_IDLE" /\ (read.arvalid <=> rd.arvalid /\ ~rd.arready)
      /\ read.data = Ax!ShiftIn(rd.data, ram[reads.line][reads.word])
      /\ read.fault <=> \/ reads.line \in faulty
                        \/ rd.fault /\ ~(rd.arvalid /\ rd.arready)
  <2>1. ~Granted(imem, dmem, uncached)
    BY DEF Granted
  <2> QED
    BY <2>1, ReadIs
<1>2. ~(rd.arvalid /\ ~rd.arready)
  BY <1>1 DEF Reads, NoRead
<1>3. /\ reads.line = want.line /\ reads.word = want.word + (want.len - 1)
      /\ \A i \in 0 .. want.len - 2 :
           rd.data[BEATS - (want.len - 1) + i] = ram[want.line][want.word + i]
      /\ rd.fault /\ ~rd.arvalid => want.line \in faulty
  <2>1. \A i \in 0 .. want.len - 1 - 1 :
           rd.data[BEATS - (want.len - 1) + i] = ram[want.line][want.word + i]
    BY <1>1, <1>2 DEF Reads
  <2>2. want.len - 1 - 1 = want.len - 2
    BY SizeAssumption DEF Transfer
  <2> QED
    BY <1>1, <1>2, <2>1, <2>2 DEF Reads
<1>4. rd'.state = "R_IDLE" /\ ~rd'.arvalid /\ reads' = NoRead
  <2>1. rd'.state = read.state /\ rd'.arvalid = read.arvalid
    BY DEF ReadStep
  <2>2. arready => read.arvalid
    BY DEF ReadStep
  <2>3. reads' = IF arready
             THEN [line |-> read.addr.line, word |-> read.addr.word, left |-> read.addr.len]
           ELSE IF deliver /\ reads.left = 1 THEN NoRead
           ELSE IF deliver
             THEN [reads EXCEPT !.left = @ - 1, !.word = (@ + 1) % BEATS] ELSE reads
    BY DEF ReadStep, Reading
  <2> QED
    BY <1>1, <1>2, <2>1, <2>2, <2>3
<1>5. read.fault <=> want.line \in faulty
  BY <1>1, <1>2, <1>3
<1>6. read.data = [w \in Words |-> IF w = BEATS - 1 THEN ram[reads.line][reads.word]
                                   ELSE rd.data[w + 1]]
  BY <1>1 DEF Ax!ShiftIn, Ax!Words, Words
<1>7. ASSUME want.len = BEATS PROVE read.data = ram[want.line]
  <2>1. want.word = 0
    BY <1>7, SizeAssumption DEF Transfer, Words
  <2>2. ram[want.line] \in [Words -> Data]
    BY DEF Ram, Transfer
  <2>3. ASSUME NEW w \in Words PROVE read.data[w] = ram[want.line][w]
    <3>1. CASE w = BEATS - 1
      BY <1>3, <1>6, <1>7, <2>1, <3>1, SizeAssumption
    <3>2. CASE w # BEATS - 1
      <4>1. w \in 0 .. want.len - 2 /\ BEATS - (want.len - 1) + w = w + 1 /\ want.word + w = w
        BY <1>7, <2>1, <3>2, SizeAssumption DEF Words
      <4>2. rd.data[w + 1] = ram[want.line][w]
        BY <1>3, <4>1
      <4> QED
        BY <1>6, <3>2, <4>2
    <3> QED
      BY <3>1, <3>2
  <2> QED
    BY <1>6, <2>2, <2>3
<1>8. ASSUME want.len = 1 PROVE read.data[BEATS - 1] = ram[want.line][want.word]
  <2>1. BEATS - 1 \in Words /\ want.word + (want.len - 1) = want.word
    BY <1>8, SizeAssumption DEF Transfer, Words
  <2> QED
    BY <1>3, <1>6, <2>1
<1> QED
  BY <1>4, <1>5, <1>7, <1>8
-----------------------------------------------------------------------------
(* A write in progress: its address and its words are offered one after    *)
(* the other, in either order, and those taken are the first ones.         *)
Writes(want, full) ==
  /\ writes.aw <=> ~(wr.awvalid /\ ~wr.awready)
  /\ wr.awvalid => wr.addr = want
  /\ writes.aw => writes.line = want.line /\ writes.word = want.word
  /\ writes.data \in Seq(Data) /\ Len(writes.data) <= want.len
  /\ wr.wready => wr.count = want.len - Len(writes.data) + 1 /\ Len(writes.data) > 0
  /\ ~wr.wready => wr.count = want.len - Len(writes.data)
  /\ writes.last <=> Len(writes.data) = want.len
  /\ \A i \in 0 .. want.len - 1 : i < Len(writes.data) => writes.data[i + 1] = full[i]
  /\ \A i \in 0 .. want.len - 1 : i < wr.count => wr.data[i] = full[want.len - wr.count + i]

(* A cycle of the writes.                                                  *)
WriteStep(dmem, uncached, respond, write, awready, wready) ==
  /\ respond \in BOOLEAN /\ (respond => writes.aw /\ writes.last)
  /\ write = Ax!Write(FALSE, dmem, uncached)
  /\ awready \in BOOLEAN /\ (awready => write.awvalid /\ ~writes.aw)
  /\ wready \in BOOLEAN /\ (wready => write.count # 0 /\ ~writes.last)
  /\ Writing(write, awready, wready, respond)
  /\ wr' = [state |-> write.state, awvalid |-> write.awvalid, awready |-> awready,
            addr |-> IF write.awvalid THEN write.addr ELSE Ax!NoAddress,
            count |-> write.count, data |-> write.data, wready |-> wready,
            bvalid |-> respond]

(* The words that are not yet taken.                                       *)
Left == IF Ax!w_taken THEN wr.count - 1 ELSE wr.count

Taken(dmem, uncached) ==
  /\ Ax!write_idle /\ ~(wr.awvalid /\ ~wr.awready) /\ Left = 0
  /\ (dmem.valid \/ uncached.valid)

LEMMA WriteIs ==
  ASSUME NEW dmem, NEW uncached, NEW respond, NEW write, NEW awready, NEW wready,
         WriteStep(dmem, uncached, respond, write, awready, wready)
  PROVE  /\ write.state = IF Taken(dmem, uncached)
                            THEN IF dmem.valid THEN "W_DSTORE" ELSE "W_IOSTORE"
                          ELSE IF Ax!write_idle THEN "W_IDLE" ELSE wr.state
         /\ write.awvalid <=> Taken(dmem, uncached) \/ (wr.awvalid /\ ~wr.awready)
         /\ write.addr = IF ~Taken(dmem, uncached) THEN wr.addr
                         ELSE IF dmem.valid THEN Ax!LineAddress(dmem.line)
                         ELSE Ax!WordAddress(uncached)
         /\ write.count = IF Taken(dmem, uncached) THEN Ax!beats(dmem) ELSE Left
         /\ write.data = IF Taken(dmem, uncached)
                           THEN IF dmem.valid THEN dmem.data
                                ELSE [Ax!Zero EXCEPT ![0] = uncached.data]
                         ELSE IF Ax!w_taken THEN Ax!ShiftOut(wr.data) ELSE wr.data
         /\ write.awvalid \in BOOLEAN
<1> DEFINE awvalid == wr.awvalid /\ ~wr.awready
           count == IF Ax!w_taken THEN wr.count - 1 ELSE wr.count
           granted == Ax!write_idle /\ ~awvalid /\ count = 0 /\ (dmem.valid \/ uncached.valid)
           offers == ~FALSE /\ (granted \/ awvalid)
<1>1. write =
        [state |-> IF FALSE THEN "W_IDLE"
                   ELSE IF granted THEN IF dmem.valid THEN "W_DSTORE" ELSE "W_IOSTORE"
                   ELSE IF Ax!write_idle THEN "W_IDLE" ELSE wr.state,
         awvalid |-> offers,
         addr |-> IF ~granted THEN wr.addr
                  ELSE IF dmem.valid THEN Ax!LineAddress(dmem.line)
                  ELSE Ax!WordAddress(uncached),
         count |-> IF FALSE THEN 0 ELSE IF granted THEN Ax!beats(dmem) ELSE count,
         data |-> IF granted
                    THEN IF dmem.valid THEN dmem.data
                         ELSE [Ax!Zero EXCEPT ![0] = uncached.data]
                  ELSE IF Ax!w_taken THEN Ax!ShiftOut(wr.data) ELSE wr.data]
  BY DEF WriteStep, Ax!Write
<1>2. granted <=> Taken(dmem, uncached)
  BY DEF Taken, Left
<1>3. offers <=> Taken(dmem, uncached) \/ (wr.awvalid /\ ~wr.awready)
  BY <1>2
<1>4. count = Left
  BY DEF Left
<1>9. offers \in BOOLEAN
  BY Zenon
<1> HIDE DEF granted, offers, count
<1>5. write.awvalid = offers
  BY <1>1
<1>6. write.awvalid <=> offers
  BY <1>5, Zenon
<1>7. write.state = IF granted THEN IF dmem.valid THEN "W_DSTORE" ELSE "W_IOSTORE"
                    ELSE IF Ax!write_idle THEN "W_IDLE" ELSE wr.state
  BY <1>1
<1>8. /\ write.addr = IF ~granted THEN wr.addr
                      ELSE IF dmem.valid THEN Ax!LineAddress(dmem.line)
                      ELSE Ax!WordAddress(uncached)
      /\ write.count = IF granted THEN Ax!beats(dmem) ELSE count
      /\ write.data = IF granted
                    THEN IF dmem.valid THEN dmem.data
                         ELSE [Ax!Zero EXCEPT ![0] = uncached.data]
                  ELSE IF Ax!w_taken THEN Ax!ShiftOut(wr.data) ELSE wr.data
  BY <1>1
<1> QED
  BY <1>2, <1>3, <1>4, <1>5, <1>6, <1>7, <1>8, <1>9

LEMMA WriteWill ==
  ASSUME NEW dmem, NEW uncached, NEW respond, NEW write, NEW awready, NEW wready,
         WriteStep(dmem, uncached, respond, write, awready, wready)
  PROVE  /\ wr'.state = write.state /\ (wr'.awvalid <=> write.awvalid) /\ wr'.awready = awready
         /\ wr'.addr = IF write.awvalid THEN write.addr ELSE Ax!NoAddress
         /\ wr'.count = write.count /\ wr'.data = write.data /\ wr'.wready = wready
         /\ wr'.bvalid = respond
         /\ ~respond =>
              /\ ram' = ram
              /\ writes'.aw <=> writes.aw \/ awready
              /\ writes'.line = IF awready THEN write.addr.line ELSE writes.line
              /\ writes'.word = IF awready THEN write.addr.word ELSE writes.word
              /\ writes'.data = IF wready THEN Append(writes.data, write.data[0]) ELSE writes.data
              /\ writes'.last <=> writes.last \/ (wready /\ write.count = 1)
<1>1. /\ wr'.state = write.state /\ wr'.awvalid = write.awvalid /\ wr'.awready = awready
      /\ wr'.addr = IF write.awvalid THEN write.addr ELSE Ax!NoAddress
      /\ wr'.count = write.count /\ wr'.data = write.data /\ wr'.wready = wready
      /\ wr'.bvalid = respond
  BY DEF WriteStep
<1>2. ASSUME ~respond
      PROVE  /\ ram' = ram
             /\ writes'.aw <=> writes.aw \/ awready
             /\ writes'.line = IF awready THEN write.addr.line ELSE writes.line
             /\ writes'.word = IF awready THEN write.addr.word ELSE writes.word
             /\ writes'.data = IF wready THEN Append(writes.data, write.data[0]) ELSE writes.data
             /\ writes'.last <=> writes.last \/ (wready /\ write.count = 1)
  <2> DEFINE aw == writes.aw \/ awready
             last == writes.last \/ (wready /\ Ax!wlast(write))
  <2>1. /\ writes' =
           [aw   |-> aw,
            line |-> IF awready THEN write.addr.line ELSE writes.line,
            word |-> IF awready THEN write.addr.word ELSE writes.word,
            data |-> IF wready THEN Append(writes.data, write.data[0]) ELSE writes.data,
            last |-> last]
        /\ ram' = ram
    BY <1>2 DEF WriteStep, Writing
  <2>2. last <=> writes.last \/ (wready /\ write.count = 1)
    BY DEF Ax!wlast
  <2>3. aw <=> writes.aw \/ awready
    OBVIOUS
  <2> HIDE DEF aw, last
  <2>4. writes'.aw = aw /\ writes'.last = last
    BY <2>1
  <2>5. (writes'.aw <=> aw) /\ (writes'.last <=> last)
    BY <2>4, Zenon
  <2>6. /\ writes'.line = IF awready THEN write.addr.line ELSE writes.line
        /\ writes'.word = IF awready THEN write.addr.word ELSE writes.word
        /\ writes'.data = IF wready THEN Append(writes.data, write.data[0]) ELSE writes.data
    BY <2>1
  <2>7. /\ writes'.aw <=> writes.aw \/ awready
        /\ writes'.last <=> writes.last \/ (wready /\ write.count = 1)
    BY <2>2, <2>3, <2>5, Zenon
  <2> QED
    BY <2>1, <2>6, <2>7, Zenon
<1>3. wr'.awvalid <=> write.awvalid
  BY <1>1, Zenon
<1> QED
  BY <1>1, <1>2, <1>3, Zenon

(* Nothing is under way.                                                   *)
Quiet == ~wr.awvalid /\ wr.count = 0 /\ writes = NoStore

LEMMA WriteRests ==
  ASSUME NEW dmem, NEW uncached, NEW respond, NEW write, NEW awready, NEW wready,
         WriteStep(dmem, uncached, respond, write, awready, wready),
         Quiet, Ax!write_idle, ~Taken(dmem, uncached)
  PROVE  wr'.state = "W_IDLE" /\ ~respond /\ wr'.bvalid = FALSE /\ Quiet' /\ ram' = ram
<1>1. ~respond /\ respond = FALSE /\ Left = 0
  BY DEF WriteStep, Quiet, NoStore, Left, Ax!w_taken
<1>2. write.state = "W_IDLE" /\ write.count = 0 /\ ~write.awvalid
  BY <1>1, WriteIs, ZenonT(60) DEF Quiet
<1>3. awready = FALSE /\ wready = FALSE
  BY <1>2 DEF WriteStep
<1>4. writes' = NoStore
  <2>1. writes' = [aw |-> writes.aw \/ awready,
                   line |-> writes.line, word |-> writes.word, data |-> writes.data,
                   last |-> writes.last \/ (wready /\ Ax!wlast(write))]
    BY <1>1, <1>3 DEF WriteStep, Writing
  <2> DEFINE aw == writes.aw \/ awready
             last == writes.last \/ (wready /\ Ax!wlast(write))
  <2>2. aw = FALSE /\ last = FALSE
    BY <1>3 DEF Quiet, NoStore
  <2> HIDE DEF aw, last
  <2>3. writes' = [aw |-> aw, line |-> writes.line, word |-> writes.word,
                   data |-> writes.data, last |-> last]
    BY <2>1 DEF aw, last
  <2> QED
    BY <2>2, <2>3 DEF Quiet, NoStore
<1> QED
  BY <1>1, <1>2, <1>4, WriteWill DEF Quiet

(* A write that is granted is offered, all of it.                          *)
LEMMA WriteStarts ==
  ASSUME NEW dmem, NEW uncached, NEW respond, NEW write, NEW awready, NEW wready, NEW want, NEW full,
         WriteStep(dmem, uncached, respond, write, awready, wready),
         Quiet, Ax!write_idle, Taken(dmem, uncached), Transfer(want),
         want = write.addr, full = write.data, full \in [Words -> Data], want.len = write.count
  PROVE  wr'.state = write.state /\ ~respond /\ ~wr'.bvalid /\ Writes(want, full)'
         /\ ram' = ram
<1>1. ~respond /\ respond = FALSE
  BY DEF WriteStep, Quiet, NoStore
<1>2. write.awvalid
  BY WriteIs
<1>3. /\ wr'.state = write.state /\ wr'.awvalid /\ wr'.awready = awready
      /\ wr'.addr = want
      /\ wr'.count = want.len /\ wr'.data = full /\ wr'.wready = wready
      /\ wr'.bvalid = FALSE
      /\ ram' = ram
  BY <1>1, <1>2, WriteWill
<1>4. /\ writes'.aw <=> awready
      /\ awready => writes'.line = want.line /\ writes'.word = want.word
      /\ writes'.data = IF wready THEN Append(<<>>, full[0]) ELSE <<>>
      /\ writes'.last <=> (wready /\ want.len = 1)
  <2>1. ~writes.aw /\ ~writes.last /\ writes.data = <<>>
    BY DEF Quiet, NoStore
  <2> QED
    BY <1>1, <2>1, WriteWill
<1>5. want.len \in Nat \ {0} /\ full[0] \in Data
  BY SizeAssumption DEF Transfer, Words
<1>6. /\ wready => writes'.data = <<full[0]>> /\ Len(writes'.data) = 1 /\ writes'.data[1] = full[0]
      /\ ~wready => writes'.data = <<>> /\ Len(writes'.data) = 0
      /\ writes'.data \in Seq(Data)
  BY <1>4, <1>5
<1>7. wready \in BOOLEAN /\ awready \in BOOLEAN
  BY DEF WriteStep
<1>8. \A i \in 0 .. want.len - 1 : i < Len(writes'.data) => writes'.data[i + 1] = full[i]
  BY <1>5, <1>6
<1>9. /\ wready => wr'.count = want.len - Len(writes'.data) + 1 /\ Len(writes'.data) > 0
      /\ ~wready => wr'.count = want.len - Len(writes'.data)
      /\ Len(writes'.data) <= want.len
      /\ writes'.last <=> Len(writes'.data) = want.len
      /\ \A i \in 0 .. want.len - 1 : wr'.data[i] = full[want.len - wr'.count + i]
  BY <1>3, <1>4, <1>5, <1>6
<1>10. Writes(want, full)'
  BY <1>3, <1>4, <1>6, <1>8, <1>9 DEF Writes
<1> QED
  BY <1>1, <1>3, <1>10

(* A write goes on until it is answered.                                   *)
LEMMA WriteGoesOn ==
  ASSUME NEW dmem, NEW uncached, NEW respond, NEW write, NEW awready, NEW wready, NEW want, NEW full,
         WriteStep(dmem, uncached, respond, write, awready, wready),
         Ax!TypeOK, ~Ax!write_idle, Writes(want, full), Transfer(want), full \in [Words -> Data],
         ~respond
  PROVE  wr'.state = wr.state /\ ~wr'.bvalid /\ Writes(want, full)' /\ ram' = ram
<1> DEFINE n == Len(writes.data)
<1>1. /\ ~Taken(dmem, uncached) /\ respond = FALSE
      /\ awready \in BOOLEAN /\ wready \in BOOLEAN
  BY DEF Taken, WriteStep
<1>2. /\ write.state = wr.state
      /\ write.awvalid <=> wr.awvalid /\ ~wr.awready
      /\ write.addr = wr.addr
      /\ write.count = Left
      /\ write.data = IF Ax!w_taken THEN Ax!ShiftOut(wr.data) ELSE wr.data
  BY <1>1, WriteIs
<1>3. /\ wr'.state = wr.state /\ (wr'.awvalid <=> wr.awvalid /\ ~wr.awready)
      /\ wr'.awready = awready
      /\ wr'.addr = IF write.awvalid THEN wr.addr ELSE Ax!NoAddress
      /\ wr'.count = Left /\ wr'.data = write.data /\ wr'.wready = wready
      /\ wr'.bvalid = FALSE /\ ram' = ram
  BY <1>1, <1>2, WriteWill
<1>4. /\ writes'.aw <=> writes.aw \/ awready
      /\ writes'.line = IF awready THEN wr.addr.line ELSE writes.line
      /\ writes'.word = IF awready THEN wr.addr.word ELSE writes.word
      /\ writes'.data = IF wready THEN Append(writes.data, write.data[0]) ELSE writes.data
      /\ writes'.last <=> writes.last \/ (wready /\ Left = 1)
  BY <1>2, WriteWill
<1>5. /\ want.len \in Nat \ {0} /\ want.len <= BEATS /\ n \in 0 .. want.len
      /\ writes.data \in Seq(Data)
      /\ \A i \in 0 .. want.len - 1 : i < n => writes.data[i + 1] = full[i]
      /\ \A i \in 0 .. want.len - 1 : i < wr.count => wr.data[i] = full[want.len - wr.count + i]
  BY SizeAssumption DEF Transfer, Words, Writes
<1>6. Left = want.len - n
  <2>1. wr.wready => wr.count = want.len - n + 1 /\ n > 0
    BY DEF Writes
  <2>2. ~wr.wready => wr.count = want.len - n
    BY DEF Writes
  <2>3. CASE wr.wready
    BY <1>5, <2>1, <2>3 DEF Left, Ax!w_taken
  <2>4. CASE ~wr.wready
    BY <1>5, <2>2, <2>4 DEF Left, Ax!w_taken
  <2> QED
    BY <2>3, <2>4
<1>7. \A i \in 0 .. want.len - 1 : i < Left => write.data[i] = full[n + i]
  <2> SUFFICES ASSUME NEW i \in 0 .. want.len - 1, i < Left PROVE write.data[i] = full[n + i]
    OBVIOUS
  <2>1. CASE Ax!w_taken
    <3>1. wr.count = want.len - n + 1 /\ n > 0
      BY <2>1 DEF Ax!w_taken, Writes
    <3>2. i + 1 \in 0 .. want.len - 1 /\ i + 1 < wr.count /\ want.len - wr.count + (i + 1) = n + i
          /\ i \in Words /\ i # BEATS - 1
      <4>1. /\ want.len \in Nat /\ want.len <= BEATS /\ n \in Nat
            /\ i \in Nat /\ i < want.len /\ i < want.len - n
        BY <1>5, <1>6
      <4> HIDE DEF n
      <4> QED
        BY SMTT(30), <3>1, <4>1, SizeAssumption DEF Words
    <3>3. wr.data[i + 1] = full[n + i]
      BY <1>5, <3>2
    <3>4. write.data[i] = wr.data[i + 1]
      BY <1>2, <2>1, <3>2 DEF Ax!ShiftOut, Ax!Words, Words
    <3> QED
      BY <3>3, <3>4
  <2>2. CASE ~Ax!w_taken
    <3>1. Left = wr.count
      BY <2>2 DEF Left
    <3>2. i < wr.count /\ want.len - wr.count + i = n + i
      BY <1>5, <1>6, <3>1
    <3> QED
      BY <1>2, <1>5, <2>2, <3>2
  <2> QED
    BY <2>1, <2>2
<1>8. /\ wready => Left # 0 /\ ~writes.last /\ n < want.len
      /\ writes.last <=> n = want.len
  <2>1. writes.last <=> n = want.len
    BY DEF Writes
  <2>2. wready => Left # 0 /\ ~writes.last
    BY <1>2 DEF WriteStep
  <2> QED
    BY <1>5, <2>1, <2>2
<1>9. /\ writes'.data \in Seq(Data)
      /\ Len(writes'.data) = IF wready THEN n + 1 ELSE n
      /\ \A i \in 0 .. want.len - 1 : i < Len(writes'.data) => writes'.data[i + 1] = full[i]
  <2>1. CASE wready
    <3>1. write.data[0] = full[n]
      BY <1>5, <1>6, <1>7, <1>8, <2>1
    <3>2. full[n] \in Data
      BY <1>5, <1>8, <2>1, SizeAssumption DEF Words
    <3>3. writes'.data = Append(writes.data, full[n])
      BY <1>4, <2>1, <3>1
    <3>4. /\ writes'.data \in Seq(Data) /\ Len(writes'.data) = n + 1
          /\ \A i \in 1 .. n : writes'.data[i] = writes.data[i]
          /\ writes'.data[n + 1] = full[n]
      BY <1>5, <3>2, <3>3
    <3>5. ASSUME NEW i \in 0 .. want.len - 1, i < n + 1 PROVE writes'.data[i + 1] = full[i]
      <4>1. CASE i = n
        BY <3>4, <4>1
      <4>2. CASE i < n
        BY <1>5, <3>4, <4>2
      <4> QED
        BY <1>5, <3>5, <4>1, <4>2
    <3> QED
      BY <2>1, <3>4, <3>5
  <2>2. CASE ~wready
    BY <1>4, <1>5, <2>2
  <2> QED
    BY <2>1, <2>2
<1>10. /\ wready => wr'.count = want.len - Len(writes'.data) + 1 /\ Len(writes'.data) > 0
       /\ ~wready => wr'.count = want.len - Len(writes'.data)
       /\ Len(writes'.data) <= want.len
       /\ writes'.last <=> Len(writes'.data) = want.len
  BY <1>3, <1>4, <1>5, <1>6, <1>8, <1>9
<1>11. \A i \in 0 .. want.len - 1 :
          i < wr'.count => wr'.data[i] = full[want.len - wr'.count + i]
  BY <1>3, <1>5, <1>6, <1>7
<1>12. /\ writes'.aw <=> ~(wr'.awvalid /\ ~wr'.awready)
       /\ wr'.awvalid => wr'.addr = want
       /\ writes'.aw => writes'.line = want.line /\ writes'.word = want.word
  <2>1. /\ writes.aw <=> ~(wr.awvalid /\ ~wr.awready)
        /\ wr.awvalid => wr.addr = want
        /\ writes.aw => writes.line = want.line /\ writes.word = want.word
    BY DEF Writes
  <2>2. awready => wr.awvalid /\ ~wr.awready
    BY <1>2 DEF WriteStep
  <2> QED
    BY <1>2, <1>3, <1>4, <2>1, <2>2
<1> QED
  BY <1>3, <1>9, <1>10, <1>11, <1>12 DEF Writes

(* With the answer all of it is in memory, unless its line faults.         *)
Lands(want, full) ==
  /\ want.line \in faulty => ram' = ram
  /\ want.line \notin faulty /\ want.len = BEATS => ram' = [ram EXCEPT ![want.line] = full]
  /\ want.line \notin faulty /\ want.len = 1 =>
       ram' = [ram EXCEPT ![want.line][want.word] = full[0]]

LEMMA WriteEnds ==
  ASSUME Ram, NEW dmem, NEW uncached, NEW respond, NEW write, NEW awready, NEW wready,
         NEW want, NEW full,
         WriteStep(dmem, uncached, respond, write, awready, wready),
         Ax!TypeOK, ~Ax!write_idle, Writes(want, full), Transfer(want), full \in [Words -> Data],
         respond
  PROVE  wr'.state = wr.state /\ wr'.bvalid = TRUE /\ Quiet' /\ Lands(want, full)
<1> DEFINE n == Len(writes.data)
<1>1. /\ ~Taken(dmem, uncached) /\ respond = TRUE /\ writes.aw /\ writes.last
      /\ awready = FALSE /\ wready = FALSE
  BY DEF Taken, WriteStep
<1>2. /\ want.len \in Nat \ {0} /\ want.len <= BEATS /\ n = want.len
      /\ writes.line = want.line /\ writes.word = want.word
      /\ ~(wr.awvalid /\ ~wr.awready)
      /\ \A i \in 0 .. want.len - 1 : writes.data[i + 1] = full[i]
  BY <1>1, SizeAssumption DEF Transfer, Words, Writes
<1>3. Left = 0
  BY SMTT(30), <1>2 DEF Left, Ax!w_taken, Writes
<1>4. /\ write.state = wr.state /\ ~write.awvalid /\ write.count = 0
  BY <1>1, <1>2, <1>3, WriteIs, ZenonT(60)
<1>5. wr'.state = wr.state /\ wr'.bvalid = TRUE /\ ~wr'.awvalid /\ wr'.count = 0
  <2>1. /\ wr'.state = write.state /\ (wr'.awvalid <=> write.awvalid)
        /\ wr'.count = write.count /\ wr'.bvalid = respond
    BY WriteWill, ZenonT(60)
  <2> QED
    BY <1>1, <1>4, <2>1, Zenon
<1>6. writes' = NoStore
  <2> DEFINE aw == NoStore.aw \/ awready
             last == NoStore.last \/ (wready /\ Ax!wlast(write))
  <2>1. writes' = [aw |-> aw, line |-> NoStore.line, word |-> NoStore.word,
                   data |-> NoStore.data, last |-> last]
    BY <1>1 DEF WriteStep, Writing
  <2>2. aw = FALSE /\ last = FALSE
    BY <1>1 DEF NoStore
  <2> HIDE DEF aw, last
  <2> QED
    BY <2>1, <2>2 DEF NoStore
<1>7. ram' = IF want.line \notin faulty THEN [ram EXCEPT ![want.line] = Stored] ELSE ram
  BY <1>1, <1>2 DEF WriteStep, Writing
<1>8. Stored = [w \in Words |->
                  IF w >= want.word /\ w < want.word + want.len
                    THEN writes.data[w - want.word + 1] ELSE ram[want.line][w]]
  BY <1>2 DEF Stored
<1>9. want.line \in Lines /\ ram \in [Lines -> [Words -> Data]]
  BY DEF Transfer, Ram
<1>10. ASSUME want.len = BEATS PROVE Stored = full
  <2>1. want.word = 0
    BY <1>10, SizeAssumption DEF Transfer, Words
  <2>2. ASSUME NEW w \in Words PROVE Stored[w] = full[w]
    <3>1. w >= want.word /\ w < want.word + want.len /\ w - want.word + 1 = w + 1
          /\ w \in 0 .. want.len - 1
      BY <1>10, <2>1, SizeAssumption DEF Words
    <3> QED
      BY <1>2, <1>8, <3>1
  <2> QED
    BY <1>8, <2>2
<1>11. ASSUME want.len = 1 PROVE Stored = [ram[want.line] EXCEPT ![want.word] = full[0]]
  <2>1. want.word \in Words
    BY <1>11, SizeAssumption DEF Transfer, Words
  <2>2. ASSUME NEW w \in Words
        PROVE  Stored[w] = [ram[want.line] EXCEPT ![want.word] = full[0]][w]
    <3>1. w >= want.word /\ w < want.word + want.len <=> w = want.word
      BY <1>11, <2>1 DEF Words
    <3>2. w - want.word + 1 = 1 /\ 0 + 1 = 1 <=> w = want.word
      BY <2>1 DEF Words
    <3>3. writes.data[1] = full[0]
      BY <1>2, <1>11
    <3> QED
      BY <1>8, <1>9, <3>1, <3>2, <3>3
  <2> QED
    BY <1>8, <1>9, <2>2
<1> QED
  BY <1>5, <1>6, <1>7, <1>9, <1>10, <1>11 DEF Quiet, Lands
-----------------------------------------------------------------------------
(* A cycle of everything: x holds the inputs of the cycle and the signals   *)
(* between the parts.                                                      *)
Step(x) ==
  /\ x.stalled \in BOOLEAN /\ (stall => x.stalled)
  /\ x.f \in IF x.stalled THEN {NoRequest} ELSE Fetches
  /\ x.d \in IF x.stalled \/ reset \/ fresh THEN {NoRequest} ELSE Accesses
  /\ x.c = [x.d EXCEPT !.valid = @ /\ x.d.line \notin IoLines]
  /\ x.u = [x.d EXCEPT !.valid = @ /\ x.d.line \in IoLines]
  /\ x.deliver \in May(reads.left > 0) /\ x.respond \in May(writes.aw /\ writes.last)
  /\ x.imem = I!ReqR(reset, x.stalled, x.f) /\ x.dmem = D!ReqR(reset, x.stalled, x.c)
  /\ x.uncached = Io!ReqU(reset, x.stalled, x.u, FALSE)
  /\ x.read = Ax!Read(reset, x.imem, x.dmem, x.uncached, Beat(x.deliver))
  /\ x.dmem_w = D!ReqW(reset, x.stalled, x.c)
  /\ x.uncached_w = Io!ReqU(reset, x.stalled, x.u, TRUE)
  /\ x.write = Ax!Write(reset, x.dmem_w, x.uncached_w)
  /\ x.imem_res = Ax!Res(x.read, "R_IFETCH") /\ x.dmem_res = Ax!Res(x.read, "R_DFETCH")
  /\ x.res_ur = Ax!ResUr(x.read)
  /\ x.dmem_res_w = Ax!ResW(x.respond)
  /\ x.res_uw = Ax!ResUw([valid |-> x.respond, fault |-> writes.line \in faulty])
  /\ x.arready \in May(x.read.arvalid /\ reads.left = 0)
  /\ x.awready \in May(x.write.awvalid /\ ~writes.aw)
  /\ x.wready \in May(Ax!wvalid(x.write) /\ ~writes.last)
  /\ clock' = ~clock
  /\ Core(x.stalled, x.f, x.d)
  /\ I!Clock(reset, x.stalled, x.f, x.imem_res, FALSE)
  /\ D!Clock(reset, x.stalled, x.c, x.dmem_res, x.dmem_res_w)
  /\ Io!Clock(reset, x.stalled, x.u, x.res_ur, x.res_uw)
  /\ reset' = FALSE /\ faulty' = faulty
  /\ Ax!Clock(reset, x.read, x.write, x.arready, x.awready, x.wready, x.respond)
  /\ Reading(x.read, x.deliver, x.arready)
  /\ Writing(x.write, x.awready, x.wready, x.respond)

LEMMA NextIsStep == ASSUME Next PROVE \E x : Step(x)
<1> DEFINE A(stalled, f, d, deliver, respond) ==
             /\ f \in IF stalled THEN {NoRequest} ELSE Fetches
             /\ d \in IF stalled \/ reset \/ fresh THEN {NoRequest} ELSE Accesses
             /\ deliver \in May(reads.left > 0)
             /\ respond \in May(writes.aw /\ writes.last)
             /\ Cycle(stalled, f, d, deliver, respond)
<1>1. PICK ext \in May(~stall /\ (EARLY_STALL \/ ~(reset \/ reset_q))) :
        \E f, d, deliver, respond : A(stall \/ ext, f, d, deliver, respond)
  BY SMTT(60) DEF Next
<1> PICK stalled : stalled = (stall \/ ext)
  OBVIOUS
<1>2. stalled \in BOOLEAN /\ (stall => stalled)
  OBVIOUS
<1>3. PICK f, d, deliver, respond : A(stalled, f, d, deliver, respond)
  BY <1>1
<1> DEFINE c == [d EXCEPT !.valid = @ /\ d.line \notin IoLines]
           u == [d EXCEPT !.valid = @ /\ d.line \in IoLines]
           imem == I!ReqR(reset, stalled, f)
           dmem == D!ReqR(reset, stalled, c)
           uncached == Io!ReqU(reset, stalled, u, FALSE)
           dmem_w == D!ReqW(reset, stalled, c)
           uncached_w == Io!ReqU(reset, stalled, u, TRUE)
           read == Ax!Read(reset, imem, dmem, uncached, Beat(deliver))
           write == Ax!Write(reset, dmem_w, uncached_w)
           res_uw == Ax!ResUw([valid |-> respond, fault |-> writes.line \in faulty])
<1>4. /\ clock' = ~clock
      /\ Core(stalled, f, d)
      /\ I!Clock(reset, stalled, f, Ax!Res(read, "R_IFETCH"), FALSE)
      /\ D!Clock(reset, stalled, c, Ax!Res(read, "R_DFETCH"), Ax!ResW(respond))
      /\ Io!Clock(reset, stalled, u, Ax!ResUr(read), res_uw)
      /\ reset' = FALSE
      /\ UNCHANGED faulty
      /\ \E arready \in May(read.arvalid /\ reads.left = 0),
            awready \in May(write.awvalid /\ ~writes.aw),
            wready  \in May(Ax!wvalid(write) /\ ~writes.last) :
           /\ Ax!Clock(reset, read, write, arready, awready, wready, respond)
           /\ Reading(read, deliver, arready)
           /\ Writing(write, awready, wready, respond)
  BY <1>3 DEF Cycle
<1> HIDE DEF A
<1>5. PICK arready \in May(read.arvalid /\ reads.left = 0),
           awready \in May(write.awvalid /\ ~writes.aw),
           wready  \in May(Ax!wvalid(write) /\ ~writes.last) :
             /\ Ax!Clock(reset, read, write, arready, awready, wready, respond)
             /\ Reading(read, deliver, arready)
             /\ Writing(write, awready, wready, respond)
  BY <1>4
<1>6. /\ c = [d EXCEPT !.valid = @ /\ d.line \notin IoLines]
      /\ u = [d EXCEPT !.valid = @ /\ d.line \in IoLines]
      /\ imem = I!ReqR(reset, stalled, f)
      /\ dmem = D!ReqR(reset, stalled, c)
      /\ uncached = Io!ReqU(reset, stalled, u, FALSE)
      /\ dmem_w = D!ReqW(reset, stalled, c)
      /\ uncached_w = Io!ReqU(reset, stalled, u, TRUE)
      /\ read = Ax!Read(reset, imem, dmem, uncached, Beat(deliver))
      /\ write = Ax!Write(reset, dmem_w, uncached_w)
      /\ res_uw = Ax!ResUw([valid |-> respond, fault |-> writes.line \in faulty])
  OBVIOUS
<1> HIDE DEF c, u, imem, dmem, uncached, dmem_w, uncached_w, read, write, res_uw
<1> PICK x : x = [stalled |-> stalled, f |-> f, d |-> d, c |-> c, u |-> u,
                  deliver |-> deliver, respond |-> respond, imem |-> imem, dmem |-> dmem,
                  uncached |-> uncached, read |-> read, dmem_w |-> dmem_w,
                  uncached_w |-> uncached_w, write |-> write,
                  imem_res |-> Ax!Res(read, "R_IFETCH"), dmem_res |-> Ax!Res(read, "R_DFETCH"),
                  res_ur |-> Ax!ResUr(read), dmem_res_w |-> Ax!ResW(respond),
                  res_uw |-> res_uw, arready |-> arready, awready |-> awready,
                  wready |-> wready]
  OBVIOUS
<1>7. Step(x)
  <2>1. /\ f \in IF stalled THEN {NoRequest} ELSE Fetches
        /\ d \in IF stalled \/ reset \/ fresh THEN {NoRequest} ELSE Accesses
        /\ deliver \in May(reads.left > 0)
        /\ respond \in May(writes.aw /\ writes.last)
    BY <1>3 DEF A
  <2> QED
    BY <1>2, <1>4, <1>5, <1>6, <2>1, ZenonT(60) DEF Step
<1> QED
  BY <1>7

(* The caches with their requests and their memory are the same caches.    *)
LEMMA ICacheIs ==
  /\ I!TypeOK <=> IP!TypeOK
  /\ I!Init <=> IP!Init
  /\ I!stall <=> IP!stall
  /\ I!fault = IP!fault /\ I!rdata = IP!rdata
  /\ I!Request = IP!Request /\ I!Response = IP!Response
  /\ \A s : I!cache_hit(s) <=> IP!cache_hit(s)
  /\ \A l : I!Index(l) = IP!Index(l)
<1>1. I!TypeOK <=> IP!TypeOK
  BY DEF I!TypeOK, I!Request, I!Line, I!Words, IP!TypeOK, IP!Request, IP!Line,
     IP!Words
<1>2. I!Init <=> IP!Init
  BY DEF I!Init, I!Empty, I!NoRequest, I!Zero, I!NoWrite, I!Words, IP!Init,
     IP!Empty, IP!NoRequest, IP!Zero, IP!NoWrite, IP!Words
<1>3. /\ I!stall <=> IP!stall
      /\ I!fault = IP!fault /\ I!rdata = IP!rdata
  BY DEF I!stall, I!fault, I!rdata, IP!stall, IP!fault, IP!rdata
<1>4. I!Request = IP!Request /\ I!Response = IP!Response
  BY DEF I!Request, I!Response, I!Line, I!Words, IP!Request, IP!Response, IP!Line,
     IP!Words
<1>5. \A s : I!cache_hit(s) <=> IP!cache_hit(s)
  BY DEF I!cache_hit, I!Entry, I!Index, IP!cache_hit, IP!Entry, IP!Index
<1>6. \A l : I!Index(l) = IP!Index(l)
  BY DEF I!Index, IP!Index
<1> QED
  BY <1>1, <1>2, <1>3, <1>4, <1>5, <1>6

LEMMA ICacheClocks ==
  ASSUME NEW stalled, NEW req, NEW res_r, NEW res_w
  PROVE  /\ I!ReqR(FALSE, stalled, req) = IP!ReqR(FALSE, stalled, req)
         /\ I!ReqW(FALSE, stalled, req) = IP!ReqW(FALSE, stalled, req)
         /\ I!Clock(FALSE, stalled, req, res_r, res_w) <=>
              IP!Clock(FALSE, stalled, req, res_r, res_w)
         /\ I!Clock(TRUE, stalled, req, res_r, res_w) <=>
              IP!Clock(TRUE, stalled, req, res_r, res_w)
  BY DEF I!Clock, I!ReqR, I!ReqW, I!Stable, I!EntryIn, I!Entry, I!cache_hit,
     I!cache_miss, I!cache_writeback, I!valid_in, I!next_fault, I!req_r_valid,
     I!req_w, I!Index, I!Zero, I!NoRequest, I!Empty, I!NoWrite, I!Words, IP!Clock,
     IP!ReqR, IP!ReqW, IP!Stable, IP!EntryIn, IP!Entry, IP!cache_hit, IP!cache_miss,
     IP!cache_writeback, IP!valid_in, IP!next_fault, IP!req_r_valid, IP!req_w,
     IP!Index, IP!Zero, IP!NoRequest, IP!Empty, IP!NoWrite, IP!Words

LEMMA DCacheIs ==
  /\ D!TypeOK <=> DP!TypeOK
  /\ D!Init <=> DP!Init
  /\ D!stall <=> DP!stall
  /\ D!fault = DP!fault /\ D!rdata = DP!rdata
  /\ D!Request = DP!Request /\ D!Response = DP!Response
  /\ \A s : D!cache_hit(s) <=> DP!cache_hit(s)
  /\ \A l : D!Index(l) = DP!Index(l)
<1>1. D!TypeOK <=> DP!TypeOK
  BY DEF D!TypeOK, D!Request, D!Line, D!Words, DP!TypeOK, DP!Request, DP!Line,
     DP!Words
<1>2. D!Init <=> DP!Init
  BY DEF D!Init, D!Empty, D!NoRequest, D!Zero, D!NoWrite, D!Words, DP!Init,
     DP!Empty, DP!NoRequest, DP!Zero, DP!NoWrite, DP!Words
<1>3. /\ D!stall <=> DP!stall
      /\ D!fault = DP!fault /\ D!rdata = DP!rdata
  BY DEF D!stall, D!fault, D!rdata, DP!stall, DP!fault, DP!rdata
<1>4. D!Request = DP!Request /\ D!Response = DP!Response
  BY DEF D!Request, D!Response, D!Line, D!Words, DP!Request, DP!Response, DP!Line,
     DP!Words
<1>5. \A s : D!cache_hit(s) <=> DP!cache_hit(s)
  BY DEF D!cache_hit, D!Entry, D!Index, DP!cache_hit, DP!Entry, DP!Index
<1>6. \A l : D!Index(l) = DP!Index(l)
  BY DEF D!Index, DP!Index
<1> QED
  BY <1>1, <1>2, <1>3, <1>4, <1>5, <1>6

LEMMA DCacheClocks ==
  ASSUME NEW stalled, NEW req, NEW res_r, NEW res_w
  PROVE  /\ D!ReqR(FALSE, stalled, req) = DP!ReqR(FALSE, stalled, req)
         /\ D!ReqW(FALSE, stalled, req) = DP!ReqW(FALSE, stalled, req)
         /\ D!Clock(FALSE, stalled, req, res_r, res_w) <=>
              DP!Clock(FALSE, stalled, req, res_r, res_w)
         /\ D!Clock(TRUE, stalled, req, res_r, res_w) <=>
              DP!Clock(TRUE, stalled, req, res_r, res_w)
  BY DEF D!Clock, D!ReqR, D!ReqW, D!Stable, D!EntryIn, D!Entry, D!cache_hit,
     D!cache_miss, D!cache_writeback, D!valid_in, D!next_fault, D!req_r_valid,
     D!req_w, D!Index, D!Zero, D!NoRequest, D!Empty, D!NoWrite, D!Words, DP!Clock,
     DP!ReqR, DP!ReqW, DP!Stable, DP!EntryIn, DP!Entry, DP!cache_hit, DP!cache_miss,
     DP!cache_writeback, DP!valid_in, DP!next_fault, DP!req_r_valid, DP!req_w,
     DP!Index, DP!Zero, DP!NoRequest, DP!Empty, DP!NoWrite, DP!Words

-----------------------------------------------------------------------------
(* A cycle out of reset, part by part.                                     *)
LEMMA Parts ==
  ASSUME reset = FALSE, NEW x, Step(x)
  PROVE  /\ ReadStep(x.imem, x.dmem, x.uncached, x.deliver, x.read, x.arready)
         /\ WriteStep(x.dmem_w, x.uncached_w, x.respond, x.write, x.awready, x.wready)
         /\ IP!Clock(FALSE, x.stalled, x.f, x.imem_res, FALSE)
         /\ DP!Clock(FALSE, x.stalled, x.c, x.dmem_res, x.dmem_res_w)
         /\ Io!Clock(FALSE, x.stalled, x.u, x.res_ur, x.res_uw)
         /\ x.imem = IP!ReqR(FALSE, x.stalled, x.f) /\ x.dmem = DP!ReqR(FALSE, x.stalled, x.c)
         /\ x.uncached = Io!ReqU(FALSE, x.stalled, x.u, FALSE)
         /\ x.dmem_w = DP!ReqW(FALSE, x.stalled, x.c)
         /\ x.uncached_w = Io!ReqU(FALSE, x.stalled, x.u, TRUE)
         /\ reset' = FALSE /\ faulty' = faulty
<1>1. /\ x.deliver \in BOOLEAN /\ (x.deliver => reads.left > 0)
      /\ x.respond \in BOOLEAN /\ (x.respond => writes.aw /\ writes.last)
      /\ x.arready \in BOOLEAN /\ (x.arready => x.read.arvalid /\ reads.left = 0)
      /\ x.awready \in BOOLEAN /\ (x.awready => x.write.awvalid /\ ~writes.aw)
      /\ x.wready \in BOOLEAN /\ (x.wready => x.write.count # 0 /\ ~writes.last)
  BY Zenon DEF Step, May, Ax!wvalid
<1>2. /\ x.imem = I!ReqR(FALSE, x.stalled, x.f) /\ x.dmem = D!ReqR(FALSE, x.stalled, x.c)
      /\ x.uncached = Io!ReqU(FALSE, x.stalled, x.u, FALSE)
      /\ x.read = Ax!Read(FALSE, x.imem, x.dmem, x.uncached, Beat(x.deliver))
      /\ x.dmem_w = D!ReqW(FALSE, x.stalled, x.c)
      /\ x.uncached_w = Io!ReqU(FALSE, x.stalled, x.u, TRUE)
      /\ x.write = Ax!Write(FALSE, x.dmem_w, x.uncached_w)
      /\ I!Clock(FALSE, x.stalled, x.f, x.imem_res, FALSE)
      /\ D!Clock(FALSE, x.stalled, x.c, x.dmem_res, x.dmem_res_w)
      /\ Io!Clock(FALSE, x.stalled, x.u, x.res_ur, x.res_uw)
      /\ reset' = FALSE /\ faulty' = faulty
      /\ Ax!Clock(FALSE, x.read, x.write, x.arready, x.awready, x.wready, x.respond)
      /\ Reading(x.read, x.deliver, x.arready)
      /\ Writing(x.write, x.awready, x.wready, x.respond)
  BY DEF Step
<1>3. /\ rd' = [state |-> x.read.state, arvalid |-> x.read.arvalid, arready |-> x.arready,
            addr |-> IF x.read.arvalid THEN x.read.addr ELSE Ax!NoAddress,
            data |-> IF x.read.state = "R_IDLE" THEN Ax!Zero ELSE x.read.data,
            fault |-> x.read.fault]
      /\ wr' = [state |-> x.write.state, awvalid |-> x.write.awvalid, awready |-> x.awready,
            addr |-> IF x.write.awvalid THEN x.write.addr ELSE Ax!NoAddress,
            count |-> x.write.count, data |-> x.write.data, wready |-> x.wready,
            bvalid |-> x.respond]
  BY <1>2 DEF Ax!Clock
<1>4. ReadStep(x.imem, x.dmem, x.uncached, x.deliver, x.read, x.arready)
  BY <1>1, <1>2, <1>3 DEF ReadStep
<1>5. WriteStep(x.dmem_w, x.uncached_w, x.respond, x.write, x.awready, x.wready)
  BY <1>1, <1>2, <1>3 DEF WriteStep
<1> QED
  BY <1>2, <1>4, <1>5, ICacheClocks, DCacheClocks

LEMMA Kinds ==
  /\ IP!Parameters /\ DP!Parameters
  /\ CodeLines \subseteq Lines /\ DataLines \subseteq Lines /\ IoLines \subseteq Lines
  /\ CodeLines \cap DataLines = {} /\ CodeLines \cap IoLines = {} /\ DataLines \cap IoLines = {}
<1>1. \A a \in Code \cup Cacheable \cup IoMem : a[1] \in Lines
  BY AddressAssumption
<1>2. CodeLines \subseteq Lines /\ DataLines \subseteq Lines /\ IoLines \subseteq Lines
  BY <1>1 DEF CodeLines, DataLines, IoLines
<1>3. CodeLines \cap DataLines = {} /\ CodeLines \cap IoLines = {} /\ DataLines \cap IoLines = {}
  BY CodeAssumption DEF CodeLines, DataLines, IoLines
<1> QED
  BY <1>2, <1>3, LinesAssumption, SizeAssumption DEF IP!Parameters, DP!Parameters

LEMMA Loads ==
  ASSUME NEW a \in Code \cup Cacheable \cup IoMem, NEW d \in Data
  PROVE  /\ Load(a) = [valid |-> TRUE, line |-> a[1], word |-> a[2], write |-> FALSE, data |-> 0]
         /\ Store(a, d) = [valid |-> TRUE, line |-> a[1], word |-> a[2], write |-> TRUE, data |-> d]
         /\ Load(a) \in DP!Request /\ Store(a, d) \in DP!Request
<1>1. Load(a) = [valid |-> TRUE, line |-> a[1], word |-> a[2], write |-> FALSE, data |-> 0]
  <2> SUFFICES ASSUME NEW r,
                      r = [NoRequest EXCEPT !.valid = TRUE, !.line = a[1], !.word = a[2]]
               PROVE  r = [valid |-> TRUE, line |-> a[1], word |-> a[2], write |-> FALSE,
                           data |-> 0]
    BY DEF Load
  <2> QED
    BY DEF NoRequest
<1>2. Store(a, d) = [valid |-> TRUE, line |-> a[1], word |-> a[2], write |-> TRUE, data |-> d]
  <2> DEFINE l == [valid |-> TRUE, line |-> a[1], word |-> a[2], write |-> FALSE, data |-> 0]
  <2> SUFFICES ASSUME NEW r, r = [l EXCEPT !.write = TRUE, !.data = d]
               PROVE  r = [valid |-> TRUE, line |-> a[1], word |-> a[2], write |-> TRUE,
                           data |-> d]
    BY <1>1 DEF Store
  <2> QED
    OBVIOUS
<1>3. a[1] \in Lines /\ a[2] \in 0 .. BEATS - 1 /\ 0 \in Data
  BY AddressAssumption, LinesAssumption
<1> QED
  BY <1>1, <1>2, <1>3 DEF DP!Request, DP!Words

LEMMA RequestTypes ==
  /\ NoRequest \in DP!Request /\ IP!Request = DP!Request /\ Io!Request = DP!Request
  /\ \A f \in Fetches : f \in DP!Request /\ f.valid /\ ~f.write /\ f.line \in CodeLines
  /\ \A d \in Accesses :
       d \in DP!Request /\ (d.valid => d.line \in DataLines \cup IoLines) /\ (~d.valid => ~d.write)
<1>1. NoRequest \in DP!Request
  BY LinesAssumption, SizeAssumption DEF NoRequest, DP!Request, DP!Words
<1>2. IP!Request = DP!Request /\ Io!Request = DP!Request
  BY DEF IP!Request, DP!Request, Io!Request, IP!Words, DP!Words, Words
<1>3. ASSUME NEW f \in Fetches
      PROVE  f \in DP!Request /\ f.valid /\ ~f.write /\ f.line \in CodeLines
  <2>1. PICK a \in Code : f = Load(a)
    BY DEF Fetches
  <2> QED
    BY <2>1, Loads, LinesAssumption DEF CodeLines
<1>4. ASSUME NEW d \in Accesses
      PROVE  /\ d \in DP!Request /\ (d.valid => d.line \in DataLines \cup IoLines)
             /\ (~d.valid => ~d.write)
  <2>1. CASE d = NoRequest
    BY <1>1, <2>1 DEF NoRequest
  <2>2. CASE \E a \in Cacheable \cup IoMem : d = Load(a)
    BY <2>2, Loads, LinesAssumption DEF DataLines, IoLines
  <2>3. CASE \E a \in Cacheable \cup IoMem, v \in Data : d = Store(a, v)
    BY <2>3, Loads DEF DataLines, IoLines
  <2> QED
    BY <2>1, <2>2, <2>3 DEF Accesses
<1> QED
  BY <1>1, <1>2, <1>3, <1>4

(* What the core asks for in a cycle, and which part it asks.              *)
LEMMA Asks ==
  ASSUME NEW x, Step(x)
  PROVE  /\ x.stalled \in BOOLEAN /\ (stall => x.stalled)
         /\ x.f \in DP!Request /\ ~x.f.write
         /\ x.stalled => x.f = NoRequest /\ x.d = NoRequest
         /\ ~x.stalled => x.f \in Fetches /\ x.f.valid /\ x.f.line \in CodeLines
         /\ x.d \in Accesses /\ x.d \in DP!Request
         /\ reset \/ fresh => x.d = NoRequest
         /\ x.c \in DP!Request /\ x.u \in DP!Request
         /\ x.c.line = x.d.line /\ x.c.write = x.d.write
         /\ x.c.valid <=> x.d.valid /\ x.d.line \notin IoLines
         /\ x.c.valid => x.c = x.d /\ x.c.line \in DataLines
         /\ x.u.valid <=> x.d.valid /\ x.d.line \in IoLines
         /\ x.u.valid => x.u = x.d
         /\ x.d.valid => x.c.valid \/ x.u.valid
<1>1. /\ x.stalled \in BOOLEAN /\ (stall => x.stalled)
      /\ x.stalled => x.f = NoRequest /\ x.d = NoRequest
      /\ ~x.stalled => x.f \in Fetches
      /\ x.d = NoRequest \/ x.d \in Accesses
      /\ reset \/ fresh => x.d = NoRequest
  BY DEF Step
<1>2. x.f \in DP!Request /\ ~x.f.write /\ (~x.stalled => x.f.valid /\ x.f.line \in CodeLines)
  BY <1>1, RequestTypes DEF NoRequest
<1>3. /\ x.d \in Accesses /\ x.d \in DP!Request /\ x.d.valid \in BOOLEAN
      /\ x.d.valid => x.d.line \in DataLines \cup IoLines
  BY <1>1, RequestTypes DEF Accesses, DP!Request
<1>4. /\ x.d.line \in Lines /\ x.d.word \in DP!Words /\ x.d.write \in BOOLEAN /\ x.d.data \in Data
      /\ x.d = [valid |-> x.d.valid, line |-> x.d.line, word |-> x.d.word,
                write |-> x.d.write, data |-> x.d.data]
  BY <1>3 DEF DP!Request
<1> DEFINE cv == x.d.valid /\ x.d.line \notin IoLines
           uv == x.d.valid /\ x.d.line \in IoLines
<1>5. /\ x.c = [x.d EXCEPT !.valid = cv]
      /\ x.u = [x.d EXCEPT !.valid = uv]
  BY DEF Step
<1>6. cv \in BOOLEAN /\ uv \in BOOLEAN
  OBVIOUS
<1>7. /\ cv <=> x.d.valid /\ x.d.line \notin IoLines
      /\ uv <=> x.d.valid /\ x.d.line \in IoLines
  OBVIOUS
<1> HIDE DEF cv, uv
<1>8. /\ x.c = [valid |-> cv, line |-> x.d.line, word |-> x.d.word,
                write |-> x.d.write, data |-> x.d.data]
      /\ x.u = [valid |-> uv, line |-> x.d.line, word |-> x.d.word,
                write |-> x.d.write, data |-> x.d.data]
  BY <1>4, <1>5
<1>9. /\ x.c \in DP!Request /\ x.u \in DP!Request
      /\ x.c.valid = cv /\ x.u.valid = uv /\ x.c.line = x.d.line /\ x.c.write = x.d.write
  BY <1>4, <1>6, <1>8 DEF DP!Request
<1>10. (x.c.valid <=> cv) /\ (x.u.valid <=> uv)
  BY <1>9, Zenon
<1>11. (cv => x.c = x.d) /\ (uv => x.u = x.d)
  <2>1. (cv => cv = x.d.valid) /\ (uv => uv = x.d.valid)
    BY <1>3, <1>6, <1>7
  <2> QED
    BY <1>4, <1>8, <2>1
<1>12. x.c.valid => x.c.line \in DataLines
  BY <1>3, <1>7, <1>9, <1>10
<1> QED
  BY <1>1, <1>2, <1>3, <1>7, <1>9, <1>10, <1>11, <1>12
-----------------------------------------------------------------------------
(* Types of the manager.                                                   *)
LEMMA Addresses ==
  /\ \A l \in Lines : Ax!LineAddress(l) \in Ax!Address /\ Transfer(Ax!LineAddress(l))
       /\ Ax!LineAddress(l).line = l /\ Ax!LineAddress(l).word = 0
       /\ Ax!LineAddress(l).len = BEATS
  /\ \A r \in DP!Request : Ax!WordAddress(r) \in Ax!Address /\ Transfer(Ax!WordAddress(r))
       /\ Ax!WordAddress(r).line = r.line /\ Ax!WordAddress(r).word = r.word
       /\ Ax!WordAddress(r).len = 1
  /\ Ax!NoAddress \in Ax!Address /\ Ax!Zero \in [Words -> Data]
  BY LinesAssumption, SizeAssumption
     DEF Ax!LineAddress, Ax!WordAddress, Ax!NoAddress, Ax!Address, Ax!Zero, Ax!Words, Words,
         Transfer, DP!Request, DP!Words

LEMMA AxTypes ==
  Ax!TypeOK <=>
    /\ rd \in [state: {"R_IDLE", "R_IFETCH", "R_DFETCH", "R_IOFETCH"},
               arvalid: BOOLEAN, arready: BOOLEAN, addr: Ax!Address, data: [Words -> Data],
               fault: BOOLEAN]
    /\ wr \in [state: {"W_IDLE", "W_DSTORE", "W_IOSTORE"},
               awvalid: BOOLEAN, awready: BOOLEAN, addr: Ax!Address, count: 0 .. BEATS,
               data: [Words -> Data], wready: BOOLEAN, bvalid: BOOLEAN]
    /\ reset_q \in BOOLEAN
  BY DEF Ax!TypeOK, Ax!Line, Ax!Words, Words

LEMMA ReadData ==
  ASSUME Ram, Ax!TypeOK, NEW imem, NEW dmem, NEW uncached, NEW deliver, NEW read, NEW arready,
         ReadStep(imem, dmem, uncached, deliver, read, arready),
         rd.state # "R_IDLE" => \E want : Reads(want) /\ Transfer(want)
  PROVE  read.data \in [Words -> Data]
<1>1. rd.data \in [Words -> Data]
  BY AxTypes
<1>2. ASSUME rd.state # "R_IDLE", deliver
      PROVE  Ax!ShiftIn(rd.data, ram[reads.line][reads.word]) \in [Words -> Data]
  <2>1. PICK want : Reads(want) /\ Transfer(want)
    BY <1>2
  <2>2. reads.left > 0 /\ reads # NoRead
    BY <1>2 DEF ReadStep, NoRead
  <2>3. reads.line \in Lines /\ reads.word \in Words
    <3>1. /\ reads.left \in 1 .. want.len /\ reads.line = want.line
          /\ reads.word = want.word + (want.len - reads.left)
      BY <2>1, <2>2 DEF Reads
    <3>2. /\ want.line \in Lines
          /\ \/ want.word = 0 /\ want.len = BEATS
             \/ want.word \in Words /\ want.len = 1
      BY <2>1 DEF Transfer
    <3> QED
      BY <3>1, <3>2, SizeAssumption DEF Words
  <2>4. ram[reads.line][reads.word] \in Data
    BY <2>3 DEF Ram
  <2> QED
    BY <1>1, <2>4, SizeAssumption DEF Ax!ShiftIn, Ax!Words, Words
<1>3. read.data = IF rd.state # "R_IDLE" /\ deliver
                    THEN Ax!ShiftIn(rd.data, ram[reads.line][reads.word]) ELSE rd.data
  BY ReadIs
<1> QED
  BY <1>1, <1>2, <1>3

LEMMA ReadTypes ==
  ASSUME Ax!TypeOK, NEW imem, NEW dmem, NEW uncached, NEW deliver, NEW read, NEW arready,
         ReadStep(imem, dmem, uncached, deliver, read, arready), read.data \in [Words -> Data],
         imem.line \in Lines, dmem.line \in Lines, uncached.line \in Lines, uncached.word \in Words
  PROVE  rd' \in [state: {"R_IDLE", "R_IFETCH", "R_DFETCH", "R_IOFETCH"},
                  arvalid: BOOLEAN, arready: BOOLEAN, addr: Ax!Address, data: [Words -> Data],
                  fault: BOOLEAN]
<1>2. /\ rd.state \in {"R_IDLE", "R_IFETCH", "R_DFETCH", "R_IOFETCH"} /\ rd.addr \in Ax!Address
  BY AxTypes
<1>3. /\ Ax!Granted(imem, dmem, uncached).state \in {"R_IFETCH", "R_DFETCH", "R_IOFETCH"}
      /\ Ax!Granted(imem, dmem, uncached).addr \in Ax!Address
  <2>1. Ax!WordAddress(uncached) \in Ax!Address
    BY DEF Ax!WordAddress, Ax!Address, Ax!Words, Words
  <2> QED
    BY <2>1, Addresses DEF Ax!Granted
<1>4. read.state \in {"R_IDLE", "R_IFETCH", "R_DFETCH", "R_IOFETCH"} /\ read.addr \in Ax!Address
  BY <1>2, <1>3, ReadIs
<1>5. read.arvalid \in BOOLEAN /\ read.fault \in BOOLEAN /\ arready \in BOOLEAN
  BY ReadIs, ZenonT(60) DEF ReadStep
<1>6. Ax!NoAddress \in Ax!Address /\ Ax!Zero \in [Words -> Data]
  BY Addresses
<1> QED
  BY <1>4, <1>5, <1>6 DEF ReadStep

LEMMA WriteTypes ==
  ASSUME Ax!TypeOK, NEW dmem, NEW uncached, NEW respond, NEW write, NEW awready, NEW wready,
         WriteStep(dmem, uncached, respond, write, awready, wready),
         dmem.line \in Lines, dmem.data \in [Words -> Data],
         uncached.line \in Lines, uncached.word \in Words, uncached.data \in Data
  PROVE  wr' \in [state: {"W_IDLE", "W_DSTORE", "W_IOSTORE"},
               awvalid: BOOLEAN, awready: BOOLEAN, addr: Ax!Address, count: 0 .. BEATS,
               data: [Words -> Data], wready: BOOLEAN, bvalid: BOOLEAN]
<1>1. wr \in [state: {"W_IDLE", "W_DSTORE", "W_IOSTORE"},
               awvalid: BOOLEAN, awready: BOOLEAN, addr: Ax!Address, count: 0 .. BEATS,
               data: [Words -> Data], wready: BOOLEAN, bvalid: BOOLEAN]
  BY AxTypes
<1>2. write.state \in {"W_IDLE", "W_DSTORE", "W_IOSTORE"} /\ write.awvalid \in BOOLEAN
  <2>1. /\ write.state = IF Taken(dmem, uncached)
                            THEN IF dmem.valid THEN "W_DSTORE" ELSE "W_IOSTORE"
                          ELSE IF Ax!write_idle THEN "W_IDLE" ELSE wr.state
        /\ write.awvalid \in BOOLEAN
    BY WriteIs
  <2>2. wr.state \in {"W_IDLE", "W_DSTORE", "W_IOSTORE"}
    BY <1>1
  <2> QED
    BY <2>1, <2>2
<1>3. write.addr \in Ax!Address
  <2>1. Ax!WordAddress(uncached) \in Ax!Address
    BY DEF Ax!WordAddress, Ax!Address, Ax!Words, Words
  <2>2. Ax!LineAddress(dmem.line) \in Ax!Address
    BY Addresses
  <2>3. write.addr = IF ~Taken(dmem, uncached) THEN wr.addr
                     ELSE IF dmem.valid THEN Ax!LineAddress(dmem.line)
                     ELSE Ax!WordAddress(uncached)
    BY WriteIs
  <2>4. wr.addr \in Ax!Address
    BY <1>1
  <2> QED
    BY <2>1, <2>2, <2>3, <2>4
<1>4. write.count \in 0 .. BEATS
  <2>1. Ax!beats(dmem) \in 0 .. BEATS
    BY SizeAssumption DEF Ax!beats
  <2>2. Left \in 0 .. BEATS
    BY <1>1, SizeAssumption DEF Left, Ax!w_taken
  <2> QED
    BY <2>1, <2>2, WriteIs
<1>5. write.data \in [Words -> Data]
  <2>1. [Ax!Zero EXCEPT ![0] = uncached.data] \in [Words -> Data]
    BY Addresses
  <2>2. wr.data \in [Words -> Data]
    BY <1>1
  <2>3. \A w \in Words : Ax!Zero[w] = 0
    BY DEF Ax!Zero, Ax!Words, Words
  <2>4. Ax!ShiftOut(wr.data) \in [Words -> Data]
    BY <2>2, <2>3, LinesAssumption, SizeAssumption DEF Ax!ShiftOut, Ax!Words, Words
  <2>5. write.data = IF Taken(dmem, uncached)
                       THEN IF dmem.valid THEN dmem.data
                            ELSE [Ax!Zero EXCEPT ![0] = uncached.data]
                     ELSE IF Ax!w_taken THEN Ax!ShiftOut(wr.data) ELSE wr.data
    BY WriteIs
  <2> QED
    BY <2>1, <2>2, <2>4, <2>5
<1>6. awready \in BOOLEAN /\ wready \in BOOLEAN /\ respond \in BOOLEAN
  BY DEF WriteStep
<1>7. Ax!NoAddress \in Ax!Address
  BY Addresses
<1> QED
  BY <1>2, <1>3, <1>4, <1>5, <1>6, <1>7 DEF WriteStep
-----------------------------------------------------------------------------
(* The invariant.  What the core waits for is what the caches and the      *)
(* bypass were asked for.                                                  *)
FetchInv ==
  /\ fetch.valid => /\ fetch \in Fetches /\ icache.stable = fetch
                    /\ icache.miss \/ IP!cache_hit(fetch)
  /\ IP!Clean

LateInv ==
  /\ late \in Accesses
  /\ late.valid => (last_dmem_io <=> late.line \in IoLines)
  /\ late.valid /\ late.line \notin IoLines =>
       dcache.stable = late /\ (dcache.miss \/ DP!cache_hit(late))
  /\ dcache.stable.valid /\ dcache.stable.write => dcache.stable = late

(* The bypass has a word to read or to store until it is answered.         *)
Waits == (io.req_ur /\ ~io.res_ur) \/ (io.req_uw /\ ~io.res_uw)

IoInv ==
  /\ io.reset => fresh /\ ~io.req_ur /\ ~io.req_uw
  /\ io.req_ur => /\ late.valid /\ ~late.write /\ late.line \in IoLines /\ io.stable = late
  /\ io.req_uw => /\ late.valid /\ late.write /\ late.line \in IoLines /\ io.stable = late
  /\ late.valid /\ late.line \in IoLines /\ ~Waits =>
       /\ io.fault <=> late.line \in faulty
       /\ ~io.fault => IF late.write THEN ram[late.line][late.word] = late.data
                       ELSE io.rdata = ram[late.line][late.word]

ReadInv ==
  /\ rd.state = "R_IDLE" => ~rd.arvalid /\ reads = NoRead
  /\ rd.state = "R_IFETCH" => IP!Pending /\ Reads(Ax!LineAddress(icache.stable.line))
  /\ rd.state = "R_DFETCH" => DP!Pending /\ Reads(Ax!LineAddress(dcache.stable.line))
  /\ rd.state = "R_IOFETCH" => io.req_ur /\ ~io.res_ur /\ Reads(Ax!WordAddress(io.stable))

WriteInv ==
  /\ Ax!write_idle => Quiet
  /\ dcache.res_w_valid <=> wr.state = "W_DSTORE" /\ wr.bvalid
  /\ io.res_uw <=> wr.state = "W_IOSTORE" /\ wr.bvalid
  /\ wr.state = "W_DSTORE" =>
       /\ dcache.req_w.valid
       /\ ~wr.bvalid => Writes(Ax!LineAddress(dcache.req_w.line), dcache.req_w.data)
  /\ wr.state = "W_IOSTORE" =>
       /\ io.req_uw
       /\ ~wr.bvalid =>
            Writes(Ax!WordAddress(io.stable), [Ax!Zero EXCEPT ![0] = io.stable.data])

Inv ==
  /\ TypeOK /\ Ram /\ IP!CInv /\ DP!CInv
  /\ FetchInv /\ LateInv /\ IoInv /\ ReadInv /\ WriteInv

(* The first cycle is one of reset.                                        *)
IInv == (reset = TRUE /\ Init) \/ (reset = FALSE /\ Inv)
-----------------------------------------------------------------------------
LEMMA Lined ==
  ASSUME Inv
  PROVE  /\ icache.stable.line \in Lines /\ dcache.stable \in DP!Request
         /\ dcache.stable.line \in Lines /\ io.stable \in DP!Request
         /\ Ax!TypeOK
         /\ dcache.req_w \in [valid: BOOLEAN, line: Lines, data: [Words -> Data]]
<1>1. icache.stable \in IP!Request
  BY IP!CacheTypes DEF Inv, IP!CInv
<1>2. dcache.stable \in DP!Request
      /\ dcache.req_w \in [valid: BOOLEAN, line: Lines, data: [Words -> Data]]
  BY DP!CacheTypes DEF Inv, DP!CInv, DP!Line, DP!Words, Words
<1>3. io.stable \in DP!Request
  BY RequestTypes DEF Inv, TypeOK, Io!TypeOK
<1> QED
  BY <1>1, <1>2, <1>3 DEF IP!Request, DP!Request, Inv, TypeOK

(* The answers of the bus to the reads.                                    *)
LEMMA ReadGives ==
  ASSUME Inv, reset = FALSE, NEW x, Step(x)
  PROVE  /\ x.imem_res \in IP!Response /\ x.dmem_res \in DP!Response
         /\ x.imem_res.valid <=> rd.state = "R_IFETCH" /\ x.read.done
         /\ x.dmem_res.valid <=> rd.state = "R_DFETCH" /\ x.read.done
         /\ x.res_ur.valid <=> rd.state = "R_IOFETCH" /\ x.read.done
         /\ x.imem_res.valid => /\ IP!Pending /\ x.imem_res.data = ram[icache.stable.line]
                                /\ x.imem_res.fault <=> icache.stable.line \in faulty
         /\ x.dmem_res.valid => /\ DP!Pending /\ x.dmem_res.data = ram[dcache.stable.line]
                                /\ x.dmem_res.fault <=> dcache.stable.line \in faulty
         /\ x.res_ur.valid => /\ io.req_ur /\ ~io.res_ur
                              /\ x.res_ur.data = ram[io.stable.line][io.stable.word]
                              /\ x.res_ur.fault <=> io.stable.line \in faulty
         /\ x.res_ur.data \in Data /\ x.res_ur.fault \in BOOLEAN /\ x.res_ur.valid \in BOOLEAN
         /\ x.read.data \in [Words -> Data]
<1>1. ReadStep(x.imem, x.dmem, x.uncached, x.deliver, x.read, x.arready)
  BY Parts
<1>2. /\ Ram /\ Ax!TypeOK
      /\ icache.stable.line \in Lines /\ dcache.stable.line \in Lines /\ io.stable \in DP!Request
  BY Lined DEF Inv
<1>3. /\ Transfer(Ax!LineAddress(icache.stable.line)) /\ Transfer(Ax!LineAddress(dcache.stable.line))
      /\ Transfer(Ax!WordAddress(io.stable))
  BY <1>2, Addresses
<1>4. rd.state # "R_IDLE" => \E want : Reads(want) /\ Transfer(want)
  BY <1>2, <1>3, AxTypes DEF Inv, ReadInv
<1>5. x.read.data \in [Words -> Data] /\ x.read.done \in BOOLEAN /\ x.read.fault \in BOOLEAN
  BY <1>1, <1>2, <1>4, ReadData, ReadIs
<1>6. /\ x.imem_res = Ax!Res(x.read, "R_IFETCH") /\ x.dmem_res = Ax!Res(x.read, "R_DFETCH")
      /\ x.res_ur = Ax!ResUr(x.read)
  BY DEF Step
<1> DEFINE i == rd.state = "R_IFETCH" /\ x.read.done
           d == rd.state = "R_DFETCH" /\ x.read.done
           u == rd.state = "R_IOFETCH" /\ x.read.done
<1>7. /\ x.imem_res = [valid |-> i, data |-> x.read.data, fault |-> x.read.fault]
      /\ x.dmem_res = [valid |-> d, data |-> x.read.data, fault |-> x.read.fault]
      /\ x.res_ur = [[valid |-> u, data |-> x.read.data, fault |-> x.read.fault]
                       EXCEPT !.data = @[BEATS - 1]]
  BY <1>6 DEF Ax!Res, Ax!ResUr
<1>8. /\ i \in BOOLEAN /\ d \in BOOLEAN /\ u \in BOOLEAN
      /\ (i <=> rd.state = "R_IFETCH" /\ x.read.done)
      /\ (d <=> rd.state = "R_DFETCH" /\ x.read.done)
      /\ (u <=> rd.state = "R_IOFETCH" /\ x.read.done)
  OBVIOUS
<1> HIDE DEF i, d, u
<1>9. x.res_ur = [valid |-> u, data |-> x.read.data[BEATS - 1], fault |-> x.read.fault]
  BY <1>7
<1>10. /\ x.imem_res.valid = i /\ x.dmem_res.valid = d /\ x.res_ur.valid = u
       /\ x.imem_res.data = x.read.data /\ x.dmem_res.data = x.read.data
       /\ x.res_ur.data = x.read.data[BEATS - 1]
       /\ x.imem_res.fault = x.read.fault /\ x.dmem_res.fault = x.read.fault
       /\ x.res_ur.fault = x.read.fault
  BY <1>7, <1>9
<1>11. /\ x.imem_res.valid <=> rd.state = "R_IFETCH" /\ x.read.done
       /\ x.dmem_res.valid <=> rd.state = "R_DFETCH" /\ x.read.done
       /\ x.res_ur.valid <=> rd.state = "R_IOFETCH" /\ x.read.done
  BY <1>8, <1>10, Zenon
<1>12. x.imem_res \in IP!Response /\ x.dmem_res \in DP!Response
  BY <1>5, <1>7, <1>8 DEF IP!Response, DP!Response, IP!Line, DP!Line, IP!Words, DP!Words, Words
<1>13. x.res_ur.data \in Data /\ x.res_ur.fault \in BOOLEAN /\ x.res_ur.valid \in BOOLEAN
  BY <1>5, <1>8, <1>10, SizeAssumption DEF Words
<1>14. ASSUME rd.state = "R_IFETCH", x.read.done
       PROVE  /\ IP!Pending /\ x.read.data = ram[icache.stable.line]
              /\ x.read.fault <=> icache.stable.line \in faulty
  <2> DEFINE want == Ax!LineAddress(icache.stable.line)
  <2>1. /\ IP!Pending /\ Reads(want) /\ Transfer(want)
        /\ want.line = icache.stable.line /\ want.len = BEATS
    BY <1>2, <1>3, <1>14, Addresses DEF Inv, ReadInv
  <2> HIDE DEF want
  <2> QED
    BY <1>1, <1>2, <1>14, <2>1, ReadEnds
<1>15. ASSUME rd.state = "R_DFETCH", x.read.done
       PROVE  /\ DP!Pending /\ x.read.data = ram[dcache.stable.line]
              /\ x.read.fault <=> dcache.stable.line \in faulty
  <2> DEFINE want == Ax!LineAddress(dcache.stable.line)
  <2>1. /\ DP!Pending /\ Reads(want) /\ Transfer(want)
        /\ want.line = dcache.stable.line /\ want.len = BEATS
    BY <1>2, <1>3, <1>15, Addresses DEF Inv, ReadInv
  <2> HIDE DEF want
  <2> QED
    BY <1>1, <1>2, <1>15, <2>1, ReadEnds
<1>16. ASSUME rd.state = "R_IOFETCH", x.read.done
       PROVE  /\ io.req_ur /\ ~io.res_ur
              /\ x.read.data[BEATS - 1] = ram[io.stable.line][io.stable.word]
              /\ x.read.fault <=> io.stable.line \in faulty
  <2> DEFINE want == Ax!WordAddress(io.stable)
  <2>1. /\ io.req_ur /\ ~io.res_ur /\ Reads(want) /\ Transfer(want)
        /\ want.line = io.stable.line /\ want.word = io.stable.word /\ want.len = 1
    BY <1>2, <1>3, <1>16, Addresses DEF Inv, ReadInv
  <2> HIDE DEF want
  <2> QED
    BY <1>1, <1>2, <1>16, <2>1, ReadEnds
<1> QED
  BY <1>5, <1>10, <1>11, <1>12, <1>13, <1>14, <1>15, <1>16

(* What the answer of the bus to a write does to the memory.               *)
LEMMA WriteGives ==
  ASSUME Inv, reset = FALSE, NEW x, Step(x)
  PROVE  /\ Ram'
         /\ x.respond => wr.state \in {"W_DSTORE", "W_IOSTORE"} /\ ~Ax!write_idle
         /\ x.dmem_res_w \in BOOLEAN /\ x.res_uw.valid \in BOOLEAN /\ x.res_uw.fault \in BOOLEAN
         /\ x.dmem_res_w <=> wr.state = "W_DSTORE" /\ x.respond
         /\ x.res_uw.valid <=> wr.state = "W_IOSTORE" /\ x.respond
         /\ x.dmem_res_w =>
              /\ dcache.req_w.valid /\ dcache.req_w.line \in DataLines
              /\ ram' = [ram EXCEPT ![dcache.req_w.line] = dcache.req_w.data]
         /\ x.res_uw.valid =>
              /\ io.req_uw /\ ~io.res_uw /\ io.stable.line \in IoLines
              /\ x.res_uw.fault <=> io.stable.line \in faulty
              /\ io.stable.line \in faulty => ram' = ram
              /\ io.stable.line \notin faulty =>
                   ram' = [ram EXCEPT ![io.stable.line][io.stable.word] = io.stable.data]
         /\ ~x.dmem_res_w /\ ~x.res_uw.valid => ram' = ram
<1>1. WriteStep(x.dmem_w, x.uncached_w, x.respond, x.write, x.awready, x.wready)
  BY Parts
<1>2. /\ Ram /\ Ax!TypeOK /\ io.stable \in DP!Request
      /\ dcache.req_w \in [valid: BOOLEAN, line: Lines, data: [Words -> Data]]
  BY Lined DEF Inv
<1>3. x.respond \in BOOLEAN /\ (x.respond => writes.aw /\ writes.last)
  BY <1>1 DEF WriteStep
<1>4. wr.state \in {"W_IDLE", "W_DSTORE", "W_IOSTORE"} /\ wr.bvalid \in BOOLEAN
  BY <1>2, AxTypes
<1>5. x.respond => wr.state \in {"W_DSTORE", "W_IOSTORE"} /\ ~Ax!write_idle /\ ~wr.bvalid
  BY <1>3, <1>4 DEF Inv, WriteInv, Quiet, NoStore, Ax!write_idle
<1>6. /\ x.dmem_res_w = (wr.state = "W_DSTORE" /\ x.respond)
      /\ x.res_uw = [valid |-> wr.state = "W_IOSTORE" /\ x.respond,
                     fault |-> writes.line \in faulty]
  BY DEF Step, Ax!ResW, Ax!ResUw
<1> DEFINE u == wr.state = "W_IOSTORE" /\ x.respond
           fails == writes.line \in faulty
           w == wr.state = "W_DSTORE" /\ x.respond
<1>15. /\ w \in BOOLEAN /\ u \in BOOLEAN /\ fails \in BOOLEAN
       /\ w <=> wr.state = "W_DSTORE" /\ x.respond
       /\ u <=> wr.state = "W_IOSTORE" /\ x.respond
       /\ fails <=> writes.line \in faulty
  OBVIOUS
<1>16. x.dmem_res_w = w /\ x.res_uw = [valid |-> u, fault |-> fails]
  BY <1>6
<1> HIDE DEF u, fails, w
<1>7. /\ x.dmem_res_w \in BOOLEAN /\ (x.dmem_res_w <=> wr.state = "W_DSTORE" /\ x.respond)
      /\ x.res_uw = [valid |-> u, fault |-> fails] /\ u \in BOOLEAN /\ fails \in BOOLEAN
      /\ u <=> wr.state = "W_IOSTORE" /\ x.respond
      /\ fails <=> writes.line \in faulty
  BY <1>15, <1>16
<1>8. /\ x.res_uw.valid \in BOOLEAN /\ x.res_uw.fault \in BOOLEAN
      /\ x.res_uw.valid = u /\ x.res_uw.fault = fails
  BY <1>7
<1>9. /\ x.res_uw.valid <=> wr.state = "W_IOSTORE" /\ x.respond
      /\ x.res_uw.fault <=> writes.line \in faulty
  BY <1>7, <1>8, Zenon
<1>10. ~x.respond => ram' = ram
  BY <1>1, WriteWill
<1>11. ASSUME wr.state = "W_DSTORE", x.respond
       PROVE  /\ dcache.req_w.valid /\ dcache.req_w.line \in DataLines
              /\ ram' = [ram EXCEPT ![dcache.req_w.line] = dcache.req_w.data]
  <2>0. PICK want, full : want = Ax!LineAddress(dcache.req_w.line) /\ full = dcache.req_w.data
    OBVIOUS
  <2>1. /\ dcache.req_w.valid /\ Writes(want, full)
    BY <1>5, <1>11, <2>0 DEF Inv, WriteInv
  <2>2. /\ dcache.req_w.line \in DataLines /\ dcache.req_w.line \notin faulty
    BY <2>1 DEF Inv, DP!CInv, DP!Evicted
  <2>3. Transfer(want) /\ want.line = dcache.req_w.line /\ want.len = BEATS
        /\ full \in [Words -> Data]
    BY <1>2, <2>0, Addresses
  <2>4. Lands(want, full)
    BY <1>1, <1>2, <1>5, <1>11, <2>1, <2>3, WriteEnds
  <2> QED
    BY <2>0, <2>1, <2>2, <2>3, <2>4 DEF Lands
<1>12. ASSUME wr.state = "W_IOSTORE", x.respond
       PROVE  /\ io.req_uw /\ ~io.res_uw /\ io.stable.line \in IoLines
              /\ writes.line = io.stable.line
              /\ io.stable.line \in faulty => ram' = ram
              /\ io.stable.line \notin faulty =>
                   ram' = [ram EXCEPT ![io.stable.line][io.stable.word] = io.stable.data]
  <2>0. PICK want, full :
          want = Ax!WordAddress(io.stable) /\ full = [Ax!Zero EXCEPT ![0] = io.stable.data]
    OBVIOUS
  <2>1. /\ io.req_uw /\ Writes(want, full)
    BY <1>5, <1>12, <2>0 DEF Inv, WriteInv
  <2>2. ~io.res_uw /\ io.stable.line \in IoLines
    BY <1>5, <1>12, <2>1 DEF Inv, WriteInv, IoInv
  <2>3. /\ Transfer(want) /\ want.line = io.stable.line /\ want.word = io.stable.word
        /\ want.len = 1
    BY <1>2, <2>0, Addresses
  <2>4. full \in [Words -> Data] /\ full[0] = io.stable.data
    <3>1. io.stable.data \in Data /\ 0 \in Words /\ Ax!Zero \in [Words -> Data]
      BY <1>2, Addresses, SizeAssumption DEF DP!Request, Words
    <3> QED
      BY <2>0, <3>1
  <2>5. writes.line = want.line
    BY <1>3, <1>12, <2>1 DEF Writes
  <2>6. Lands(want, full)
    BY <1>1, <1>2, <1>5, <1>12, <2>1, <2>3, <2>4, WriteEnds
  <2> QED
    BY <2>1, <2>2, <2>3, <2>4, <2>5, <2>6 DEF Lands
<1>13. ram' \in [Lines -> [Words -> Data]]
  <2>1. ram \in [Lines -> [Words -> Data]]
    BY <1>2 DEF Ram
  <2>2. CASE ~x.respond
    BY <1>10, <2>1, <2>2
  <2>3. CASE x.respond /\ wr.state = "W_DSTORE"
    BY <1>2, <1>11, <2>1, <2>3
  <2>4. CASE x.respond /\ wr.state = "W_IOSTORE"
    <3>1. io.stable.line \in Lines /\ io.stable.word \in Words /\ io.stable.data \in Data
      BY <1>2 DEF DP!Request, DP!Words, Words
    <3>2. [ram EXCEPT ![io.stable.line][io.stable.word] = io.stable.data]
            \in [Lines -> [Words -> Data]]
      BY <2>1, <3>1
    <3> QED
      BY <1>12, <2>1, <2>4, <3>2
  <2> QED
    BY <1>3, <1>5, <2>2, <2>3, <2>4
<1>14. faulty' \subseteq Lines
  BY <1>2, Parts DEF Ram
<1> QED
  BY <1>3, <1>5, <1>7, <1>9, <1>10, <1>11, <1>12, <1>13, <1>14 DEF Ram

(* Which lines the answer of a write changes.                              *)
LEMMA RamStep ==
  ASSUME Inv, reset = FALSE, NEW x, Step(x)
  PROVE  /\ \A l \in CodeLines : ram'[l] = ram[l]
         /\ \A l \in Lines \ (DataLines \cup IoLines) : ram'[l] = ram[l]
         /\ \A l \in DataLines :
              ram'[l] = IF x.dmem_res_w /\ l = dcache.req_w.line THEN dcache.req_w.data ELSE ram[l]
         /\ ~x.res_uw.valid => \A l \in IoLines : ram'[l] = ram[l]
<1>1. ram \in [Lines -> [Words -> Data]]
  BY DEF Inv, Ram
<1>2. CASE x.dmem_res_w
  BY <1>1, <1>2, Kinds, WriteGives, ZenonT(60)
<1>3. CASE ~x.dmem_res_w /\ x.res_uw.valid
  <2>1. \A l \in Lines : l # io.stable.line => ram'[l] = ram[l]
    BY <1>1, <1>3, WriteGives
  <2>2. io.stable.line \in IoLines
    BY <1>3, WriteGives
  <2> QED
    BY <1>3, <2>1, <2>2, Kinds
<1>4. CASE ~x.dmem_res_w /\ ~x.res_uw.valid
  BY <1>4, WriteGives
<1> QED
  BY <1>2, <1>3, <1>4

(* The cycle of each cache.                                                *)
LEMMA CacheCycles ==
  ASSUME Inv, reset = FALSE, NEW x, Step(x)
  PROVE  /\ \E s, e : IP!Cycle(x.stalled, x.f, x.imem_res, FALSE, s, e)
         /\ \E s, e : DP!Cycle(x.stalled, x.c, x.dmem_res, x.dmem_res_w, s, e)
<1>1. /\ IP!Clock(FALSE, x.stalled, x.f, x.imem_res, FALSE)
      /\ DP!Clock(FALSE, x.stalled, x.c, x.dmem_res, x.dmem_res_w)
      /\ faulty' = faulty
  BY Parts
<1>2. /\ x.stalled \in BOOLEAN /\ (IP!stall => x.stalled) /\ (DP!stall => x.stalled)
  BY Asks, ICacheIs, DCacheIs DEF stall
<1>3. /\ x.f \in IP!Request /\ x.c \in DP!Request
      /\ x.f.valid => x.f.line \in CodeLines
      /\ x.c.valid => x.c.line \in DataLines
  BY Asks, RequestTypes DEF NoRequest
<1>4. /\ \A l \in CodeLines : ram'[l] = ram[l]
      /\ \A l \in DataLines :
           ram'[l] = IF x.dmem_res_w /\ l = dcache.req_w.line THEN dcache.req_w.data ELSE ram[l]
  BY RamStep
<1>5. IP!Given(x.stalled, x.f, x.imem_res, FALSE)
  BY <1>1, <1>2, <1>3, <1>4, ReadGives DEF IP!Given
<1>6. DP!Given(x.stalled, x.c, x.dmem_res, x.dmem_res_w)
  <2>1. x.dmem_res_w \in BOOLEAN /\ (x.dmem_res_w => dcache.req_w.valid)
    BY WriteGives
  <2> QED
    BY <1>1, <1>2, <1>3, <1>4, <2>1, ReadGives DEF DP!Given
<1> QED
  BY <1>1, <1>5, <1>6 DEF IP!Cycle, DP!Cycle

(* What a cycle makes of the caches.                                       *)
LEMMA ICacheStep ==
  ASSUME Inv, reset = FALSE, NEW x, Step(x)
  PROVE  /\ IP!CInv' /\ IP!Clean'
         /\ x.imem.line = icache'.stable.line /\ x.imem.line \in Lines
         /\ x.imem.valid /\ ~x.imem_res.valid <=> IP!Pending'
         /\ IP!Pending => x.stalled /\ (IP!Pending' <=> ~x.imem_res.valid)
         /\ x.stalled => icache'.stable = icache.stable
         /\ ~x.stalled /\ x.f.valid => icache'.stable = x.f
         /\ ~x.stalled /\ ~x.f.valid => ~icache'.stable.valid
         /\ icache'.stable.valid => icache'.miss \/ IP!cache_hit(icache.stable)'
<1>0. PICK none : none = FALSE
  OBVIOUS
<1>1. PICK s, e : IP!Cycle(x.stalled, x.f, x.imem_res, none, s, e)
  BY <1>0, CacheCycles
<1>2. IP!Parameters /\ IP!CInv
  BY Kinds DEF Inv
<1>3. IP!CInv'
  BY <1>1, <1>2, IP!StepInv
<1>4. IP!Clean'
  <2>1. IP!Clean /\ ~x.f.write
    BY Asks DEF Inv, FetchInv
  <2> QED
    BY <1>1, <1>2, <2>1, IP!StaysClean
<1>5. /\ icache'.stable = s
      /\ x.stalled => s = icache.stable
      /\ s.valid => icache'.miss \/ IP!cache_hit(s)'
      /\ IP!Pending => x.stalled /\ (IP!Pending' <=> ~x.imem_res.valid)
  BY <1>1, <1>2, IP!NextRequest
<1>6. /\ IP!ReqR(FALSE, x.stalled, x.f).line = s.line /\ s.line \in Lines
      /\ IP!ReqR(FALSE, x.stalled, x.f).valid /\ ~x.imem_res.valid <=> IP!Pending'
      /\ IP!ReqW(FALSE, x.stalled, x.f) = icache'.req_w
      /\ icache'.req_w \in [valid: BOOLEAN, line: Lines, data: IP!Line]
  BY <1>1, <1>2, IP!Offered
<1>7. x.imem = IP!ReqR(FALSE, x.stalled, x.f)
  BY Parts
<1>8. /\ ~x.stalled /\ x.f.valid => s = x.f
      /\ ~x.stalled /\ ~x.f.valid => ~s.valid
  BY <1>1 DEF IP!Cycle, IP!Stable, IP!NoRequest
<1>9. IP!cache_hit(icache.stable)' <=> IP!cache_hit(s)'
  BY <1>5 DEF IP!cache_hit, IP!Entry, IP!Index
<1>10. [Words -> Data] = IP!Line
  BY DEF IP!Line, IP!Words, Words
<1> QED
  BY <1>3, <1>4, <1>5, <1>6, <1>7, <1>8, <1>9, <1>10

LEMMA DCacheStep ==
  ASSUME Inv, reset = FALSE, NEW x, Step(x)
  PROVE  /\ DP!CInv'
         /\ x.dmem.line = dcache'.stable.line /\ x.dmem.line \in Lines
         /\ x.dmem.valid /\ ~x.dmem_res.valid <=> DP!Pending'
         /\ DP!Pending => x.stalled /\ (DP!Pending' <=> ~x.dmem_res.valid)
         /\ x.stalled => dcache'.stable = dcache.stable
         /\ ~x.stalled /\ x.c.valid => dcache'.stable = x.c
         /\ ~x.stalled /\ ~x.c.valid => ~dcache'.stable.valid
         /\ dcache'.stable.valid => dcache'.miss \/ DP!cache_hit(dcache.stable)'
         /\ x.dmem_w = dcache'.req_w
         /\ dcache'.req_w \in [valid: BOOLEAN, line: Lines, data: [Words -> Data]]
         /\ dcache'.res_w_valid = x.dmem_res_w
         /\ dcache.req_w.valid =>
              /\ x.stalled
              /\ dcache'.req_w = IF dcache.res_w_valid THEN DP!NoWrite ELSE dcache.req_w
<1>1. PICK s, e : DP!Cycle(x.stalled, x.c, x.dmem_res, x.dmem_res_w, s, e)
  BY CacheCycles
<1>2. DP!Parameters /\ DP!CInv
  BY Kinds DEF Inv
<1>3. DP!CInv'
  BY <1>1, <1>2, DP!StepInv
<1>4. dcache.req_w.valid => x.stalled
  BY Asks, DCacheIs DEF stall, DP!stall
<1>5. /\ dcache'.stable = s
      /\ x.stalled => s = dcache.stable
      /\ s.valid => dcache'.miss \/ DP!cache_hit(s)'
      /\ DP!Pending => x.stalled /\ (DP!Pending' <=> ~x.dmem_res.valid)
      /\ dcache'.res_w_valid = x.dmem_res_w
      /\ dcache.req_w.valid =>
           dcache'.req_w = IF dcache.res_w_valid THEN DP!NoWrite ELSE dcache.req_w
  BY <1>1, <1>2, DP!NextRequest
<1>6. /\ DP!ReqR(FALSE, x.stalled, x.c).line = s.line /\ s.line \in Lines
      /\ DP!ReqR(FALSE, x.stalled, x.c).valid /\ ~x.dmem_res.valid <=> DP!Pending'
      /\ DP!ReqW(FALSE, x.stalled, x.c) = dcache'.req_w
      /\ dcache'.req_w \in [valid: BOOLEAN, line: Lines, data: DP!Line]
  BY <1>1, <1>2, DP!Offered
<1>7. x.dmem = DP!ReqR(FALSE, x.stalled, x.c) /\ x.dmem_w = DP!ReqW(FALSE, x.stalled, x.c)
  BY Parts
<1>8. /\ ~x.stalled /\ x.c.valid => s = x.c
      /\ ~x.stalled /\ ~x.c.valid => ~s.valid
  BY <1>1 DEF DP!Cycle, DP!Stable, DP!NoRequest
<1>9. DP!cache_hit(dcache.stable)' <=> DP!cache_hit(s)'
  BY <1>5 DEF DP!cache_hit, DP!Entry, DP!Index
<1>10. [Words -> Data] = DP!Line
  BY DEF DP!Line, DP!Words, Words
<1> QED
  BY <1>3, <1>4, <1>5, <1>6, <1>7, <1>8, <1>9, <1>10

(* What a cycle makes of the bypass.                                       *)
Asked(x, write) == ~x.stalled /\ x.u.valid /\ (x.u.write <=> write)
WillRead(x) == Asked(x, FALSE) \/ (io.req_ur /\ ~io.res_ur)
WillStore(x) == Asked(x, TRUE) \/ (io.req_uw /\ ~io.res_uw)

LEMMA IoStep ==
  ASSUME Inv, reset = FALSE, NEW x, Step(x)
  PROVE  /\ Io!TypeOK' /\ ~io'.reset
         /\ io'.req_ur <=> WillRead(x)
         /\ io'.req_uw <=> WillStore(x)
         /\ WillRead(x) \/ WillStore(x) =>
              io'.stable = IF ~x.stalled /\ x.u.valid THEN x.u ELSE io.stable
         /\ io'.res_ur = x.res_ur.valid /\ io'.res_uw = x.res_uw.valid
         /\ io'.rdata = IF x.res_ur.valid THEN x.res_ur.data ELSE io.rdata
         /\ io'.fault = IF x.res_uw.valid THEN x.res_uw.fault
                        ELSE IF x.res_ur.valid THEN x.res_ur.fault ELSE io.fault
         /\ x.uncached.valid <=> WillRead(x)
         /\ x.uncached_w.valid <=> WillStore(x)
         /\ x.uncached.line \in Lines /\ x.uncached.word \in Words
         /\ x.uncached_w.line \in Lines /\ x.uncached_w.word \in Words /\ x.uncached_w.data \in Data
         /\ WillRead(x) => Ax!WordAddress(x.uncached) = Ax!WordAddress(io'.stable)
         /\ WillStore(x) => /\ Ax!WordAddress(x.uncached_w) = Ax!WordAddress(io'.stable)
                            /\ x.uncached_w.data = io'.stable.data
         /\ ~x.stalled => ~io.req_ur /\ ~io.req_uw
<1>1. PICK s : s = Io!Stable(x.stalled, x.u)
  OBVIOUS
<1>2. PICK r, w : /\ r = Io!Pending(FALSE, x.stalled, x.u, FALSE)
                  /\ w = Io!Pending(FALSE, x.stalled, x.u, TRUE)
  OBVIOUS
<1>3. /\ io \in [stable: DP!Request, rdata: Data, fault: BOOLEAN, req_ur: BOOLEAN,
                 req_uw: BOOLEAN, res_ur: BOOLEAN, res_uw: BOOLEAN, reset: BOOLEAN]
      /\ io.reset => fresh /\ ~io.req_ur /\ ~io.req_uw
  BY RequestTypes DEF Inv, TypeOK, Io!TypeOK, IoInv
<1>4. x.u \in DP!Request /\ (fresh => ~x.u.valid)
  BY Asks DEF NoRequest
<1>5. x.u.write \in BOOLEAN
  BY <1>4 DEF DP!Request
<1>6. /\ r \in BOOLEAN /\ w \in BOOLEAN
      /\ r <=> ~io.reset /\ (Asked(x, FALSE) \/ (io.req_ur /\ ~io.res_ur))
      /\ w <=> ~io.reset /\ (Asked(x, TRUE) \/ (io.req_uw /\ ~io.res_uw))
  <2>1. /\ (x.u.write = FALSE) <=> (x.u.write <=> FALSE)
        /\ (x.u.write = TRUE) <=> (x.u.write <=> TRUE)
    BY <1>5
  <2> QED
    BY <1>2, <2>1 DEF Io!Pending, Asked
<1>7. (r <=> WillRead(x)) /\ (w <=> WillStore(x))
  BY <1>3, <1>4, <1>6 DEF WillRead, WillStore, Asked
<1>8. /\ s = IF ~x.stalled /\ x.u.valid THEN x.u ELSE io.stable
      /\ s \in DP!Request
  BY <1>1, <1>3, <1>4 DEF Io!Stable
<1>9. io' = [stable |-> IF \E write \in BOOLEAN : Io!Pending(FALSE, x.stalled, x.u, write)
                          THEN s ELSE Io!NoRequest,
             rdata |-> IF x.res_ur.valid THEN x.res_ur.data ELSE io.rdata,
             fault |-> IF x.res_uw.valid THEN x.res_uw.fault
                       ELSE IF x.res_ur.valid THEN x.res_ur.fault ELSE io.fault,
             req_ur |-> r, req_uw |-> w,
             res_ur |-> x.res_ur.valid, res_uw |-> x.res_uw.valid, reset |-> FALSE]
  BY <1>1, <1>2, Parts DEF Io!Clock, Io!rdata, Io!fault
<1>10. (\E write \in BOOLEAN : Io!Pending(FALSE, x.stalled, x.u, write)) <=> r \/ w
  BY <1>2
<1>11. io' = [stable |-> IF r \/ w THEN s ELSE Io!NoRequest,
             rdata |-> IF x.res_ur.valid THEN x.res_ur.data ELSE io.rdata,
             fault |-> IF x.res_uw.valid THEN x.res_uw.fault
                       ELSE IF x.res_ur.valid THEN x.res_ur.fault ELSE io.fault,
             req_ur |-> r, req_uw |-> w,
             res_ur |-> x.res_ur.valid, res_uw |-> x.res_uw.valid, reset |-> FALSE]
  BY <1>9, <1>10
<1>12. Io!NoRequest \in DP!Request
  BY RequestTypes DEF Io!NoRequest, NoRequest
<1>13. /\ x.res_ur.data \in Data /\ x.res_ur.fault \in BOOLEAN /\ x.res_ur.valid \in BOOLEAN
       /\ x.res_uw.valid \in BOOLEAN /\ x.res_uw.fault \in BOOLEAN
  BY ReadGives, WriteGives
<1>14. io' \in [stable: DP!Request, rdata: Data, fault: BOOLEAN, req_ur: BOOLEAN,
                 req_uw: BOOLEAN, res_ur: BOOLEAN, res_uw: BOOLEAN, reset: BOOLEAN]
  BY <1>3, <1>6, <1>8, <1>11, <1>12, <1>13
<1>15. Io!TypeOK'
  BY <1>14, RequestTypes DEF Io!TypeOK
<1>16. /\ io'.stable = IF r \/ w THEN s ELSE Io!NoRequest
       /\ io'.req_ur = r /\ io'.req_uw = w /\ io'.reset = FALSE
       /\ io'.res_ur = x.res_ur.valid /\ io'.res_uw = x.res_uw.valid
       /\ io'.rdata = IF x.res_ur.valid THEN x.res_ur.data ELSE io.rdata
       /\ io'.fault = IF x.res_uw.valid THEN x.res_uw.fault
                      ELSE IF x.res_ur.valid THEN x.res_ur.fault ELSE io.fault
  BY <1>11
<1>17. /\ x.uncached = [s EXCEPT !.valid = r]
       /\ x.uncached_w = [s EXCEPT !.valid = w]
  BY <1>1, <1>2, Parts DEF Io!ReqU
<1>18. /\ x.uncached.valid = r /\ x.uncached.line = s.line /\ x.uncached.word = s.word
       /\ x.uncached_w.valid = w /\ x.uncached_w.line = s.line /\ x.uncached_w.word = s.word
       /\ x.uncached_w.data = s.data
       /\ s.line \in Lines /\ s.word \in Words /\ s.data \in Data
  BY <1>8, <1>17 DEF DP!Request, DP!Words, Words
<1>19. ~x.stalled => ~io.req_ur /\ ~io.req_uw
  BY Asks DEF stall, Io!stall
<1> QED
  BY <1>6, <1>7, <1>8, <1>15, <1>16, <1>18, <1>19 DEF Ax!WordAddress
-----------------------------------------------------------------------------
(* What a cycle makes of the core.                                         *)
LEMMA CoreStep ==
  ASSUME Inv, reset = FALSE, NEW x, Step(x)
  PROVE  /\ fresh' \in BOOLEAN /\ (fresh' <=> fresh /\ x.stalled)
         /\ x.stalled => fetch' = fetch /\ late' = late /\ last_dmem_io' = last_dmem_io
         /\ ~x.stalled => /\ fetch'.valid => fetch' = x.f
                          /\ late' = x.d
                          /\ x.d.valid => (last_dmem_io' <=> x.d.line \in IoLines)
<1> DEFINE stays == fresh /\ x.stalled
           valid == ~fresh
<1>1. /\ fresh' = (reset \/ (fresh /\ x.stalled))
      /\ x.stalled => fetch' = fetch /\ late' = late /\ last_dmem_io' = last_dmem_io
      /\ ~x.stalled => /\ fetch' = [x.f EXCEPT !.valid = ~(reset \/ fresh)]
                       /\ late' = x.d
                       /\ last_dmem_io' = IF x.d.valid THEN x.d.line \in IoLines
                                          ELSE last_dmem_io
  BY DEF Step, Core
<1>2. fresh \in BOOLEAN /\ x.stalled \in BOOLEAN
  BY Asks DEF Inv, TypeOK
<1>3. /\ stays \in BOOLEAN /\ (stays <=> fresh /\ x.stalled)
      /\ valid \in BOOLEAN
      /\ stays = (reset \/ (fresh /\ x.stalled)) /\ valid = ~(reset \/ fresh)
  BY <1>2
<1> HIDE DEF stays, valid
<1>4. fresh' = stays
  BY <1>1, <1>3
<1>5. fresh' <=> stays
  BY <1>4, Zenon
<1>6. ASSUME ~x.stalled, fetch'.valid PROVE fetch' = x.f
  <2>1. x.f \in DP!Request /\ x.f.valid
    BY <1>6, Asks
  <2>2. fetch' = [x.f EXCEPT !.valid = valid]
    BY <1>1, <1>3, <1>6
  <2>3. x.f.valid = TRUE /\ valid = TRUE
    BY <1>3, <1>6, <2>1, <2>2 DEF DP!Request
  <2> QED
    BY <2>1, <2>2, <2>3 DEF DP!Request
<1>7. ASSUME ~x.stalled, x.d.valid PROVE last_dmem_io' <=> x.d.line \in IoLines
  <2>1. last_dmem_io' = (x.d.line \in IoLines)
    BY <1>1, <1>7
  <2> QED
    BY <2>1, Zenon
<1> QED
  BY <1>1, <1>3, <1>4, <1>5, <1>6, <1>7

LEMMA StepFetch ==
  ASSUME Inv, reset = FALSE, NEW x, Step(x)
  PROVE  FetchInv'
<1>1. /\ x.stalled => fetch' = fetch /\ icache'.stable = icache.stable
      /\ ~x.stalled /\ fetch'.valid => fetch' = x.f
  BY CoreStep, ICacheStep
<1>2. ~x.stalled => x.f \in Fetches /\ x.f.valid
  BY Asks
<1>3. fetch.valid => fetch \in Fetches /\ icache.stable = fetch
  BY DEF Inv, FetchInv
<1>4. fetch'.valid => fetch' \in Fetches /\ icache'.stable = fetch'
  <2>1. CASE x.stalled
    BY <1>1, <1>3, <2>1
  <2>2. CASE ~x.stalled
    BY <1>1, <1>2, <2>2, ICacheStep
  <2> QED
    BY <2>1, <2>2
<1>5. fetch'.valid => icache'.miss \/ IP!cache_hit(icache.stable)'
  BY <1>4, ICacheStep
<1>6. icache'.stable = fetch' => (IP!cache_hit(icache.stable)' <=> IP!cache_hit(fetch)')
  BY DEF IP!cache_hit, IP!Entry, IP!Index
<1>7. Fetches' = Fetches
  BY DEF Fetches, Load, NoRequest
<1> QED
  BY <1>4, <1>5, <1>6, <1>7, ICacheStep DEF FetchInv

LEMMA StepLate ==
  ASSUME Inv, reset = FALSE, NEW x, Step(x)
  PROVE  LateInv'
<1>1. /\ x.stalled => /\ late' = late /\ last_dmem_io' = last_dmem_io
                      /\ dcache'.stable = dcache.stable
      /\ ~x.stalled => late' = x.d /\ (x.d.valid => (last_dmem_io' <=> x.d.line \in IoLines))
  BY CoreStep, DCacheStep
<1>2. /\ x.d \in Accesses
      /\ x.d.valid /\ x.d.line \notin IoLines => x.c.valid
      /\ x.c.valid => x.c = x.d
  BY Asks
<1>3. /\ late \in Accesses /\ (late.valid => (last_dmem_io <=> late.line \in IoLines))
      /\ late.valid /\ late.line \notin IoLines => dcache.stable = late
      /\ dcache.stable.valid /\ dcache.stable.write => dcache.stable = late
  BY DEF Inv, LateInv
<1>4. /\ ~x.stalled /\ x.c.valid => dcache'.stable = x.c
      /\ ~x.stalled /\ ~x.c.valid => ~dcache'.stable.valid
      /\ dcache'.stable.valid => dcache'.miss \/ DP!cache_hit(dcache.stable)'
  BY DCacheStep
<1>5. /\ late' \in Accesses /\ (late'.valid => (last_dmem_io' <=> late'.line \in IoLines))
      /\ late'.valid /\ late'.line \notin IoLines => dcache'.stable = late'
      /\ dcache'.stable.valid /\ dcache'.stable.write => dcache'.stable = late'
  <2>1. CASE x.stalled
    BY <1>1, <1>3, <2>1
  <2>2. CASE ~x.stalled
    BY <1>1, <1>2, <1>4, <2>2
  <2> QED
    BY <2>1, <2>2
<1>6. dcache'.stable = late' => (DP!cache_hit(dcache.stable)' <=> DP!cache_hit(late)')
  BY DEF DP!cache_hit, DP!Entry, DP!Index
<1>7. Accesses' = Accesses /\ IoLines' = IoLines
  BY DEF Accesses, Load, Store, NoRequest, IoLines
<1> QED
  BY <1>4, <1>5, <1>6, <1>7 DEF LateInv

LEMMA StepIo ==
  ASSUME Inv, reset = FALSE, NEW x, Step(x)
  PROVE  IoInv'
<1> DEFINE Seen == /\ io.fault <=> late.line \in faulty
                   /\ ~io.fault => IF late.write THEN ram[late.line][late.word] = late.data
                                   ELSE io.rdata = ram[late.line][late.word]
<1>1. /\ x.stalled => late' = late
      /\ ~x.stalled => late' = x.d /\ ~io.req_ur /\ ~io.req_uw
      /\ faulty' = faulty
  BY CoreStep, IoStep, Parts
<1>2. /\ x.d \in DP!Request
      /\ x.u.valid <=> x.d.valid /\ x.d.line \in IoLines
      /\ x.u.valid => x.u = x.d
  BY Asks
<1>3. x.d.write \in BOOLEAN
  BY <1>2 DEF DP!Request
<1>4. /\ io.req_ur => /\ late.valid /\ ~late.write /\ late.line \in IoLines /\ io.stable = late
      /\ io.req_uw => /\ late.valid /\ late.write /\ late.line \in IoLines /\ io.stable = late
      /\ late.valid /\ late.line \in IoLines /\ ~Waits => Seen
  BY DEF Inv, IoInv
<1>5. /\ io'.req_ur <=> WillRead(x)
      /\ io'.req_uw <=> WillStore(x)
      /\ WillRead(x) \/ WillStore(x) =>
           io'.stable = IF ~x.stalled /\ x.u.valid THEN x.u ELSE io.stable
      /\ io'.res_ur = x.res_ur.valid /\ io'.res_uw = x.res_uw.valid /\ ~io'.reset
  BY IoStep
<1>6. /\ io'.req_ur => /\ late'.valid /\ ~late'.write /\ late'.line \in IoLines
                       /\ io'.stable = late'
      /\ io'.req_uw => /\ late'.valid /\ late'.write /\ late'.line \in IoLines
                       /\ io'.stable = late'
  <2>1. CASE x.stalled
    BY <1>1, <1>4, <1>5, <2>1 DEF WillRead, WillStore, Asked
  <2>2. CASE ~x.stalled
    BY <1>1, <1>2, <1>3, <1>5, <2>2 DEF WillRead, WillStore, Asked
  <2> QED
    BY <2>1, <2>2
<1>7. /\ x.res_ur.valid => io.req_ur /\ ~io.res_ur
      /\ x.res_uw.valid => io.req_uw /\ ~io.res_uw
  BY ReadGives, WriteGives
<1>8. ASSUME late'.valid, late'.line \in IoLines, ~Waits' PROVE Seen'
  <2>1. x.stalled
    <3> SUFFICES ASSUME ~x.stalled PROVE FALSE
      OBVIOUS
    <3>1. x.u.valid /\ x.u = x.d
      BY <1>1, <1>2, <1>8
    <3>2. io'.req_ur \/ io'.req_uw
      BY <1>3, <1>5, <3>1 DEF WillRead, WillStore, Asked
    <3>3. ~io'.res_ur /\ ~io'.res_uw
      BY <1>1, <1>5, <1>7
    <3> QED
      BY <1>8, <3>2, <3>3 DEF Waits
  <2>2. late' = late /\ late.valid /\ late.line \in IoLines /\ late.line \in Lines
        /\ late.word \in Words
    <3>1. late \in Accesses
      BY DEF Inv, LateInv
    <3> QED
      BY <1>1, <1>8, <2>1, <3>1, RequestTypes DEF DP!Request, DP!Words, Words
  <2>3. /\ io'.rdata = IF x.res_ur.valid THEN x.res_ur.data ELSE io.rdata
        /\ io'.fault = IF x.res_uw.valid THEN x.res_uw.fault
                       ELSE IF x.res_ur.valid THEN x.res_ur.fault ELSE io.fault
    BY IoStep
  <2>4. CASE io.req_ur /\ ~io.res_ur
    <3>1. /\ x.res_ur.valid /\ io.stable = late /\ ~late.write /\ ~x.res_uw.valid
      BY <1>4, <1>5, <1>7, <1>8, <2>4 DEF Waits, WillRead
    <3>2. ram'[late.line] = ram[late.line]
      BY <2>2, <3>1, RamStep
    <3>3. x.res_ur.data = ram[late.line][late.word] /\ (x.res_ur.fault <=> late.line \in faulty)
      BY <3>1, ReadGives
    <3>4. io'.rdata = x.res_ur.data /\ io'.fault = x.res_ur.fault
      BY <2>3, <3>1
    <3> QED
      BY <1>1, <2>2, <3>1, <3>2, <3>3, <3>4
  <2>5. CASE io.req_uw /\ ~io.res_uw
    <3>1. x.res_uw.valid /\ io.stable = late /\ late.write
      BY <1>4, <1>5, <1>7, <1>8, <2>5 DEF Waits, WillStore
    <3>2. /\ x.res_uw.fault <=> late.line \in faulty
          /\ late.line \notin faulty => ram' = [ram EXCEPT ![late.line][late.word] = late.data]
      BY <3>1, WriteGives
    <3>3. late.line \notin faulty => ram'[late.line][late.word] = late.data
      <4>1. ram \in [Lines -> [Words -> Data]]
        BY DEF Inv, Ram
      <4> QED
        BY <2>2, <3>2, <4>1
    <3>4. io'.fault = x.res_uw.fault
      BY <2>3, <3>1
    <3> QED
      BY <1>1, <2>2, <3>1, <3>2, <3>3, <3>4
  <2>6. CASE ~Waits
    <3>1. ~x.res_ur.valid /\ ~x.res_uw.valid
      BY <1>7, <2>6 DEF Waits
    <3>2. io'.rdata = io.rdata /\ io'.fault = io.fault
      BY <2>3, <3>1
    <3>3. ram'[late.line] = ram[late.line]
      BY <2>2, <3>1, RamStep
    <3>4. Seen
      BY <1>4, <2>2, <2>6
    <3> QED
      BY <1>1, <2>2, <3>2, <3>3, <3>4
  <2> QED
    BY <2>4, <2>5, <2>6 DEF Waits
<1>9. IoLines' = IoLines
  BY DEF IoLines
<1> QED
  BY <1>5, <1>6, <1>8, <1>9 DEF IoInv

(* The reads.                                                              *)
LEMMA ReadRests ==
  ASSUME NEW imem, NEW dmem, NEW uncached, NEW deliver, NEW read, NEW arready,
         ReadStep(imem, dmem, uncached, deliver, read, arready),
         rd.state = "R_IDLE", ~rd.arvalid, reads = NoRead, ~Granted(imem, dmem, uncached)
  PROVE  rd'.state = "R_IDLE" /\ ~rd'.arvalid /\ reads' = NoRead
<1>1. ~deliver
  BY DEF ReadStep, NoRead
<1>2. read.state = "R_IDLE" /\ ~read.arvalid
  BY <1>1, ReadIs
<1>3. ~arready
  BY <1>2 DEF ReadStep
<1> QED
  BY <1>1, <1>2, <1>3 DEF ReadStep, Reading

LEMMA StepReads ==
  ASSUME Inv, reset = FALSE, NEW x, Step(x)
  PROVE  ReadInv'
<1>1. ReadStep(x.imem, x.dmem, x.uncached, x.deliver, x.read, x.arready) /\ faulty' = faulty
  BY Parts
<1>2. /\ Ram /\ Ax!TypeOK
      /\ icache.stable.line \in Lines /\ dcache.stable.line \in Lines /\ io.stable \in DP!Request
      /\ rd.state \in {"R_IDLE", "R_IFETCH", "R_DFETCH", "R_IOFETCH"}
  BY Lined, AxTypes DEF Inv
<1>3. CASE rd.state = "R_IDLE"
  <2>1. ~rd.arvalid /\ reads = NoRead
    BY <1>3 DEF Inv, ReadInv
  <2>2. CASE ~Granted(x.imem, x.dmem, x.uncached)
    BY <1>1, <1>3, <2>1, <2>2, ReadRests DEF ReadInv
  <2>3. CASE Granted(x.imem, x.dmem, x.uncached)
    <3>0. PICK want : want = Ax!Granted(x.imem, x.dmem, x.uncached).addr
      OBVIOUS
    <3>1. /\ x.imem.line = icache'.stable.line /\ x.imem.line \in Lines
          /\ x.imem.valid /\ ~x.imem_res.valid <=> IP!Pending'
      BY ICacheStep
    <3>2. /\ x.dmem.line = dcache'.stable.line /\ x.dmem.line \in Lines
          /\ x.dmem.valid /\ ~x.dmem_res.valid <=> DP!Pending'
      BY DCacheStep
    <3>3. /\ x.uncached.valid <=> WillRead(x)
          /\ io'.req_ur <=> WillRead(x)
          /\ io'.res_ur = x.res_ur.valid
          /\ WillRead(x) => Ax!WordAddress(x.uncached) = Ax!WordAddress(io'.stable)
          /\ x.uncached.line \in Lines /\ x.uncached.word \in Words
      BY IoStep
    <3>4. ~x.imem_res.valid /\ ~x.dmem_res.valid /\ ~x.res_ur.valid
      BY <1>3, ReadGives
    <3>5. Transfer(Ax!WordAddress(x.uncached))
      BY <3>3 DEF Ax!WordAddress, Transfer
    <3>6. /\ Transfer(want)
          /\ x.imem.valid \/ x.dmem.valid \/ x.uncached.valid
      BY <2>3, <3>0, <3>1, <3>2, <3>5, Addresses DEF Ax!Granted, Granted
    <3>7. rd'.state = Ax!Granted(x.imem, x.dmem, x.uncached).state /\ Reads(want)'
      BY <1>1, <1>3, <2>1, <2>3, <3>0, <3>6, ReadStarts
    <3>8. CASE x.imem.valid
      <4>1. rd'.state = "R_IFETCH" /\ want = Ax!LineAddress(x.imem.line)
        BY <3>0, <3>7, <3>8 DEF Ax!Granted
      <4>2. want = Ax!LineAddress(icache'.stable.line)
        BY <3>1, <4>1
      <4> QED
        BY <3>1, <3>4, <3>7, <3>8, <4>1, <4>2 DEF ReadInv, Reads, Ax!LineAddress
    <3>9. CASE ~x.imem.valid /\ x.dmem.valid
      <4>1. rd'.state = "R_DFETCH" /\ want = Ax!LineAddress(x.dmem.line)
        BY <3>0, <3>7, <3>9 DEF Ax!Granted
      <4>2. want = Ax!LineAddress(dcache'.stable.line)
        BY <3>2, <4>1
      <4> QED
        BY <3>2, <3>4, <3>7, <3>9, <4>1, <4>2 DEF ReadInv, Reads, Ax!LineAddress
    <3>10. CASE ~x.imem.valid /\ ~x.dmem.valid
      <4>1. rd'.state = "R_IOFETCH" /\ want = Ax!WordAddress(x.uncached)
        BY <3>0, <3>7, <3>10 DEF Ax!Granted
      <4>2. want = Ax!WordAddress(io'.stable) /\ io'.req_ur /\ ~io'.res_ur
        BY <3>3, <3>4, <3>6, <3>10, <4>1
      <4> QED
        BY <3>7, <4>1, <4>2 DEF ReadInv, Reads, Ax!WordAddress
    <3> QED
      BY <3>8, <3>9, <3>10
  <2> QED
    BY <2>2, <2>3
<1>4. CASE rd.state = "R_IFETCH"
  <2>0. PICK want : want = Ax!LineAddress(icache.stable.line)
    OBVIOUS
  <2>1. IP!Pending /\ Reads(want)
    BY <1>4, <2>0 DEF Inv, ReadInv
  <2>2. Transfer(want) /\ want.line = icache.stable.line
    BY <1>2, <2>0, Addresses
  <2>3. CASE x.read.done
    BY <1>1, <1>2, <1>4, <2>1, <2>2, <2>3, ReadEnds DEF ReadInv
  <2>4. CASE ~x.read.done
    <3>1. icache.stable.line \in CodeLines
      BY <2>1 DEF Inv, IP!CInv, IP!Asked
    <3>2. ram'[want.line] = ram[want.line]
      BY <2>2, <3>1, RamStep
    <3>3. rd'.state = rd.state /\ Reads(want)'
      BY <1>1, <1>2, <1>4, <2>1, <2>2, <2>4, <3>2, ReadGoesOn
    <3>4. IP!Pending' /\ icache'.stable = icache.stable
      BY <2>1, <2>4, ICacheStep, ReadGives
    <3>5. want = Ax!LineAddress(icache'.stable.line)
      BY <2>0, <3>4
    <3> QED
      BY <1>4, <3>3, <3>4, <3>5 DEF ReadInv, Reads, Ax!LineAddress
  <2> QED
    BY <2>3, <2>4
<1>5. CASE rd.state = "R_DFETCH"
  <2>0. PICK want : want = Ax!LineAddress(dcache.stable.line)
    OBVIOUS
  <2>1. DP!Pending /\ Reads(want)
    BY <1>5, <2>0 DEF Inv, ReadInv
  <2>2. Transfer(want) /\ want.line = dcache.stable.line
    BY <1>2, <2>0, Addresses
  <2>3. CASE x.read.done
    BY <1>1, <1>2, <1>5, <2>1, <2>2, <2>3, ReadEnds DEF ReadInv
  <2>4. CASE ~x.read.done
    <3>1. /\ dcache.stable.line \in DataLines
          /\ dcache.req_w.valid => dcache.req_w.line # dcache.stable.line
      BY <2>1 DEF Inv, DP!CInv, DP!Asked, DP!Evicted
    <3>2. ram'[want.line] = ram[want.line]
      BY <2>2, <3>1, RamStep, WriteGives
    <3>3. rd'.state = rd.state /\ Reads(want)'
      BY <1>1, <1>2, <1>5, <2>1, <2>2, <2>4, <3>2, ReadGoesOn
    <3>4. DP!Pending' /\ dcache'.stable = dcache.stable
      BY <2>1, <2>4, DCacheStep, ReadGives
    <3>5. want = Ax!LineAddress(dcache'.stable.line)
      BY <2>0, <3>4
    <3> QED
      BY <1>5, <3>3, <3>4, <3>5 DEF ReadInv, Reads, Ax!LineAddress
  <2> QED
    BY <2>3, <2>4
<1>6. CASE rd.state = "R_IOFETCH"
  <2>0. PICK want : want = Ax!WordAddress(io.stable)
    OBVIOUS
  <2>1. io.req_ur /\ ~io.res_ur /\ Reads(want)
    BY <1>6, <2>0 DEF Inv, ReadInv
  <2>2. Transfer(want) /\ want.line = io.stable.line
    BY <1>2, <2>0, Addresses
  <2>3. CASE x.read.done
    BY <1>1, <1>2, <1>6, <2>1, <2>2, <2>3, ReadEnds DEF ReadInv
  <2>4. CASE ~x.read.done
    <3>1. io.stable.line \in IoLines /\ ~x.res_uw.valid
      BY <2>1, WriteGives DEF Inv, IoInv
    <3>2. ram'[want.line] = ram[want.line]
      BY <2>2, <3>1, RamStep
    <3>3. rd'.state = rd.state /\ Reads(want)'
      BY <1>1, <1>2, <1>6, <2>1, <2>2, <2>4, <3>2, ReadGoesOn
    <3>4. io'.req_ur /\ ~io'.res_ur /\ io'.stable = io.stable
      BY <2>1, <2>4, IoStep, ReadGives DEF WillRead
    <3>5. want = Ax!WordAddress(io'.stable)
      BY <2>0, <3>4
    <3> QED
      BY <1>6, <3>3, <3>4, <3>5 DEF ReadInv, Reads, Ax!WordAddress
  <2> QED
    BY <2>3, <2>4
<1> QED
  BY <1>2, <1>3, <1>4, <1>5, <1>6

(* The writes.                                                             *)
LEMMA StepWrites ==
  ASSUME Inv, reset = FALSE, NEW x, Step(x)
  PROVE  WriteInv'
<1>1. WriteStep(x.dmem_w, x.uncached_w, x.respond, x.write, x.awready, x.wready)
  BY Parts
<1>2. /\ Ram /\ Ax!TypeOK /\ io.stable \in DP!Request
      /\ dcache.req_w \in [valid: BOOLEAN, line: Lines, data: [Words -> Data]]
      /\ wr.state \in {"W_IDLE", "W_DSTORE", "W_IOSTORE"}
  BY Lined, AxTypes DEF Inv
<1>3. /\ Ax!write_idle => Quiet
      /\ dcache.res_w_valid <=> wr.state = "W_DSTORE" /\ wr.bvalid
      /\ io.res_uw <=> wr.state = "W_IOSTORE" /\ wr.bvalid
  BY DEF Inv, WriteInv
<1>4. /\ dcache'.res_w_valid <=> wr.state = "W_DSTORE" /\ x.respond
      /\ io'.res_uw <=> wr.state = "W_IOSTORE" /\ x.respond
  <2>1. dcache'.res_w_valid = x.dmem_res_w /\ io'.res_uw = x.res_uw.valid
    BY DCacheStep, IoStep
  <2>2. /\ x.dmem_res_w <=> wr.state = "W_DSTORE" /\ x.respond
        /\ x.res_uw.valid <=> wr.state = "W_IOSTORE" /\ x.respond
    BY WriteGives
  <2> QED
    BY <2>1, <2>2, Zenon
<1>5. /\ x.dmem_w = dcache'.req_w
      /\ dcache'.req_w \in [valid: BOOLEAN, line: Lines, data: [Words -> Data]]
      /\ dcache.req_w.valid /\ ~dcache.res_w_valid => dcache'.req_w = dcache.req_w
  BY DCacheStep
<1>6. /\ io'.req_uw <=> WillStore(x)
      /\ x.uncached_w.valid <=> WillStore(x)
      /\ x.uncached_w.line \in Lines /\ x.uncached_w.word \in Words /\ x.uncached_w.data \in Data
      /\ WillStore(x) => /\ Ax!WordAddress(x.uncached_w) = Ax!WordAddress(io'.stable)
                         /\ x.uncached_w.data = io'.stable.data
      /\ io.req_uw /\ ~io.res_uw => io'.stable = io.stable
  BY IoStep DEF WillStore
<1>7. CASE Ax!write_idle /\ ~Taken(x.dmem_w, x.uncached_w)
  <2>1. wr'.state = "W_IDLE" /\ ~x.respond /\ Quiet'
    BY <1>1, <1>3, <1>7, WriteRests
  <2> QED
    BY <1>4, <2>1 DEF WriteInv
<1>8. CASE Ax!write_idle /\ Taken(x.dmem_w, x.uncached_w)
  <2>0. PICK want, full : want = x.write.addr /\ full = x.write.data
    OBVIOUS
  <2>1. /\ x.write.state = IF x.dmem_w.valid THEN "W_DSTORE" ELSE "W_IOSTORE"
        /\ want = IF x.dmem_w.valid THEN Ax!LineAddress(x.dmem_w.line)
                  ELSE Ax!WordAddress(x.uncached_w)
        /\ x.write.count = IF x.dmem_w.valid THEN BEATS ELSE 1
        /\ full = IF x.dmem_w.valid THEN x.dmem_w.data
                  ELSE [Ax!Zero EXCEPT ![0] = x.uncached_w.data]
    BY <1>1, <1>8, <2>0, WriteIs DEF Ax!beats
  <2>2. full \in [Words -> Data]
    <3>1. Ax!Zero \in [Words -> Data] /\ 0 \in Words
      BY Addresses, SizeAssumption DEF Words
    <3>2. [Ax!Zero EXCEPT ![0] = x.uncached_w.data] \in [Words -> Data]
      BY <1>6, <3>1
    <3> QED
      BY <1>5, <2>1, <3>2
  <2>3. /\ Transfer(want) /\ want.len = x.write.count
    <3>1. Transfer(Ax!WordAddress(x.uncached_w)) /\ Ax!WordAddress(x.uncached_w).len = 1
      BY <1>6 DEF Ax!WordAddress, Transfer
    <3>2. x.dmem_w.line \in Lines
      BY <1>5
    <3> QED
      BY <2>1, <3>1, <3>2, Addresses
  <2>4. /\ wr'.state = x.write.state /\ ~x.respond /\ ~wr'.bvalid /\ Writes(want, full)'
    BY <1>1, <1>3, <1>8, <2>0, <2>2, <2>3, WriteStarts
  <2>5. CASE x.dmem_w.valid
    <3>1. /\ wr'.state = "W_DSTORE" /\ dcache'.req_w.valid
          /\ want = Ax!LineAddress(dcache'.req_w.line) /\ full = dcache'.req_w.data
      BY <1>5, <2>1, <2>4, <2>5
    <3> QED
      BY <1>4, <2>4, <3>1 DEF WriteInv, Writes, Ax!LineAddress, Ax!write_idle
  <2>6. CASE ~x.dmem_w.valid
    <3>1. WillStore(x)
      BY <1>6, <1>8, <2>6 DEF Taken
    <3>2. /\ wr'.state = "W_IOSTORE" /\ io'.req_uw
          /\ want = Ax!WordAddress(io'.stable) /\ full = [Ax!Zero EXCEPT ![0] = io'.stable.data]
      BY <1>6, <2>1, <2>4, <2>6, <3>1
    <3> QED
      BY <1>4, <2>4, <3>2 DEF WriteInv, Writes, Ax!WordAddress, Ax!write_idle, Ax!Zero
  <2> QED
    BY <2>5, <2>6
<1>9. CASE ~Ax!write_idle /\ wr.state = "W_DSTORE"
  <2>0. PICK want, full : want = Ax!LineAddress(dcache.req_w.line) /\ full = dcache.req_w.data
    OBVIOUS
  <2>1. ~wr.bvalid /\ dcache.req_w.valid /\ Writes(want, full)
    BY <1>9, <2>0 DEF Inv, WriteInv, Ax!write_idle
  <2>2. dcache'.req_w = dcache.req_w
    BY <1>3, <1>5, <2>1
  <2>3. Transfer(want) /\ full \in [Words -> Data]
    BY <1>2, <2>0, Addresses
  <2>4. CASE x.respond
    <3>1. wr'.state = wr.state /\ wr'.bvalid = TRUE /\ Quiet'
      BY <1>1, <1>2, <1>9, <2>1, <2>3, <2>4, WriteEnds
    <3> QED
      BY <1>4, <1>9, <2>1, <2>2, <2>4, <3>1 DEF WriteInv
  <2>5. CASE ~x.respond
    <3>1. wr'.state = wr.state /\ ~wr'.bvalid /\ Writes(want, full)'
      BY <1>1, <1>2, <1>9, <2>1, <2>3, <2>5, WriteGoesOn
    <3>2. want = Ax!LineAddress(dcache'.req_w.line) /\ full = dcache'.req_w.data
      BY <2>0, <2>2
    <3> QED
      BY <1>4, <1>9, <2>1, <2>2, <2>5, <3>1, <3>2
         DEF WriteInv, Writes, Ax!LineAddress, Ax!write_idle
  <2> QED
    BY <2>4, <2>5
<1>10. CASE ~Ax!write_idle /\ wr.state = "W_IOSTORE"
  <2>0. PICK want, full :
          want = Ax!WordAddress(io.stable) /\ full = [Ax!Zero EXCEPT ![0] = io.stable.data]
    OBVIOUS
  <2>1. ~wr.bvalid /\ io.req_uw /\ Writes(want, full)
    BY <1>10, <2>0 DEF Inv, WriteInv, Ax!write_idle
  <2>2. io'.req_uw /\ io'.stable = io.stable
    BY <1>3, <1>6, <2>1 DEF WillStore
  <2>3. Transfer(want) /\ full \in [Words -> Data]
    <3>1. io.stable.data \in Data /\ Ax!Zero \in [Words -> Data]
      BY <1>2, Addresses DEF DP!Request
    <3> QED
      BY <1>2, <2>0, <3>1, Addresses
  <2>4. CASE x.respond
    <3>1. wr'.state = wr.state /\ wr'.bvalid = TRUE /\ Quiet'
      BY <1>1, <1>2, <1>10, <2>1, <2>3, <2>4, WriteEnds
    <3> QED
      BY <1>4, <1>10, <2>1, <2>2, <2>4, <3>1 DEF WriteInv
  <2>5. CASE ~x.respond
    <3>1. wr'.state = wr.state /\ ~wr'.bvalid /\ Writes(want, full)'
      BY <1>1, <1>2, <1>10, <2>1, <2>3, <2>5, WriteGoesOn
    <3>2. want = Ax!WordAddress(io'.stable) /\ full = [Ax!Zero EXCEPT ![0] = io'.stable.data]
      BY <2>0, <2>2
    <3>3. Writes(Ax!WordAddress(io.stable), [Ax!Zero EXCEPT ![0] = io.stable.data])'
      BY <3>1, <3>2 DEF Writes, Ax!WordAddress, Ax!Zero
    <3> QED
      BY <1>4, <1>10, <2>1, <2>2, <2>5, <3>1, <3>3 DEF WriteInv, Ax!write_idle
  <2> QED
    BY <2>4, <2>5
<1> QED
  BY <1>2, <1>7, <1>8, <1>9, <1>10 DEF Ax!write_idle

LEMMA StepTypes ==
  ASSUME Inv, reset = FALSE, NEW x, Step(x)
  PROVE  TypeOK'
<1>1. /\ ReadStep(x.imem, x.dmem, x.uncached, x.deliver, x.read, x.arready)
      /\ WriteStep(x.dmem_w, x.uncached_w, x.respond, x.write, x.awready, x.wready)
      /\ reset' = FALSE
  BY Parts
<1>2. Ax!TypeOK
  BY Lined
<1>3. /\ x.imem.line \in Lines /\ x.dmem.line \in Lines
      /\ x.uncached.line \in Lines /\ x.uncached.word \in Words
      /\ x.dmem_w.line \in Lines /\ x.dmem_w.data \in [Words -> Data]
      /\ x.uncached_w.line \in Lines /\ x.uncached_w.word \in Words /\ x.uncached_w.data \in Data
      /\ x.read.data \in [Words -> Data]
  <2>1. x.dmem_w \in [valid: BOOLEAN, line: Lines, data: [Words -> Data]]
    BY DCacheStep
  <2> QED
    BY <2>1, ICacheStep, DCacheStep, IoStep, ReadGives
<1>4. rd' \in [state: {"R_IDLE", "R_IFETCH", "R_DFETCH", "R_IOFETCH"},
               arvalid: BOOLEAN, arready: BOOLEAN, addr: Ax!Address, data: [Words -> Data],
               fault: BOOLEAN]
  BY <1>1, <1>2, <1>3, ReadTypes
<1>5. wr' \in [state: {"W_IDLE", "W_DSTORE", "W_IOSTORE"},
               awvalid: BOOLEAN, awready: BOOLEAN, addr: Ax!Address, count: 0 .. BEATS,
               data: [Words -> Data], wready: BOOLEAN, bvalid: BOOLEAN]
  BY <1>1, <1>2, <1>3, WriteTypes, SMTT(60)
<1>6. reset_q' \in BOOLEAN
  BY DEF Step, Ax!Clock
<1>7. Ax!TypeOK'
  BY <1>4, <1>5, <1>6 DEF Ax!TypeOK, Ax!Line, Ax!Words, Ax!Address, Words
<1>8. reads'.left \in 0 .. BEATS
  <2>1. ReadInv' /\ rd'.state \in {"R_IDLE", "R_IFETCH", "R_DFETCH", "R_IOFETCH"}
    BY <1>4, StepReads
  <2>2. CASE rd'.state = "R_IDLE"
    BY <2>1, <2>2, SizeAssumption DEF ReadInv, NoRead
  <2>3. CASE rd'.state = "R_IFETCH"
    BY <2>1, <2>3, SizeAssumption DEF ReadInv, Reads, NoRead, Ax!LineAddress
  <2>4. CASE rd'.state = "R_DFETCH"
    BY <2>1, <2>4, SizeAssumption DEF ReadInv, Reads, NoRead, Ax!LineAddress
  <2>5. CASE rd'.state = "R_IOFETCH"
    BY <2>1, <2>5, SizeAssumption DEF ReadInv, Reads, NoRead, Ax!WordAddress
  <2> QED
    BY <2>1, <2>2, <2>3, <2>4, <2>5
<1>9. Len(writes'.data) <= BEATS
  <2>1. WriteInv' /\ wr'.state \in {"W_IDLE", "W_DSTORE", "W_IOSTORE"}
    BY <1>5, StepWrites
  <2>2. CASE wr'.state = "W_IDLE" \/ wr'.bvalid
    <3>1. writes' = NoStore
      BY <2>1, <2>2 DEF WriteInv, Quiet, NoStore, Ax!write_idle
    <3> QED
      BY <3>1, SizeAssumption DEF NoStore
  <2>3. CASE wr'.state = "W_DSTORE" /\ ~wr'.bvalid
    BY <2>1, <2>3, SizeAssumption DEF WriteInv, Writes, Ax!LineAddress
  <2>4. CASE wr'.state = "W_IOSTORE" /\ ~wr'.bvalid
    <3>1. Len(writes'.data) <= 1 /\ Len(writes'.data) \in Nat
      BY <2>1, <2>4 DEF WriteInv, Writes, Ax!WordAddress
    <3> QED
      BY <3>1, SizeAssumption
  <2> QED
    BY <2>1, <2>2, <2>3, <2>4
<1>10. late' \in Accesses'
  BY StepLate DEF LateInv
<1>11. I!TypeOK' /\ D!TypeOK'
  <2>1. IP!TypeOK' /\ DP!TypeOK'
    BY ICacheStep, DCacheStep DEF IP!CInv, DP!CInv
  <2>2. IP!TypeOK' => I!TypeOK'
    BY DEF I!TypeOK, I!Request, I!Line, I!Words, IP!TypeOK, IP!Request, IP!Line, IP!Words
  <2>3. DP!TypeOK' => D!TypeOK'
    BY DEF D!TypeOK, D!Request, D!Line, D!Words, DP!TypeOK, DP!Request, DP!Line, DP!Words
  <2> QED
    BY <2>1, <2>2, <2>3
<1> QED
  BY <1>1, <1>7, <1>8, <1>9, <1>10, <1>11, IoStep, CoreStep DEF TypeOK

LEMMA StepInv ==
  ASSUME Inv, reset = FALSE, NEW x, Step(x)
  PROVE  Inv' /\ reset' = FALSE
  BY StepTypes, WriteGives, ICacheStep, DCacheStep, StepFetch, StepLate, StepIo, StepReads,
     StepWrites, Parts DEF Inv
-----------------------------------------------------------------------------
(* The cycle of reset.                                                     *)
LEMMA ResetBus ==
  ASSUME Init, NEW x, Step(x)
  PROVE  /\ rd' = [state |-> "R_IDLE", arvalid |-> FALSE, arready |-> FALSE, addr |-> Ax!NoAddress,
                  data |-> Ax!Zero, fault |-> FALSE]
         /\ wr' = [state |-> "W_IDLE", awvalid |-> FALSE, awready |-> FALSE, addr |-> Ax!NoAddress,
                  count |-> 0, data |-> Ax!Zero, wready |-> FALSE, bvalid |-> FALSE]
         /\ reset_q' \in BOOLEAN
         /\ reads' = NoRead /\ writes' = NoStore /\ ram' = ram
         /\ ~x.imem_res.valid /\ x.imem_res \in IP!Response
         /\ ~x.dmem_res.valid /\ x.dmem_res \in DP!Response
         /\ x.res_ur.valid = FALSE /\ x.res_uw.valid = FALSE /\ x.dmem_res_w = FALSE
<1> PICK now : now = reset
  OBVIOUS
<1>1. /\ now = TRUE /\ reset = now /\ reads = NoRead /\ writes = NoStore
      /\ rd = [state |-> "R_IDLE", arvalid |-> FALSE, arready |-> FALSE, addr |-> Ax!NoAddress,
               data |-> Ax!Zero, fault |-> FALSE]
      /\ wr = [state |-> "W_IDLE", awvalid |-> FALSE, awready |-> FALSE, addr |-> Ax!NoAddress,
               count |-> 0, data |-> Ax!Zero, wready |-> FALSE, bvalid |-> FALSE]
  BY DEF Init, Ax!Init
<1>2. /\ x.deliver = FALSE /\ x.respond = FALSE
      /\ x.arready \in May(x.read.arvalid /\ reads.left = 0)
      /\ x.awready \in May(x.write.awvalid /\ ~writes.aw)
      /\ x.wready \in May(x.write.count # 0 /\ ~writes.last)
  <2>1. /\ x.deliver \in May(reads.left > 0)
        /\ x.respond \in May(writes.aw /\ writes.last)
        /\ x.arready \in May(x.read.arvalid /\ reads.left = 0)
        /\ x.awready \in May(x.write.awvalid /\ ~writes.aw)
        /\ x.wready \in May(x.write.count # 0 /\ ~writes.last)
    BY DEF Step, Ax!wvalid
  <2>2. ~(reads.left > 0) /\ ~(writes.aw /\ writes.last)
    BY <1>1 DEF NoRead, NoStore
  <2> QED
    BY <2>1, <2>2 DEF May
<1>3. /\ x.read = Ax!Read(now, x.imem, x.dmem, x.uncached, Beat(x.deliver))
      /\ x.write = Ax!Write(now, x.dmem_w, x.uncached_w)
      /\ x.dmem_w = D!ReqW(now, x.stalled, x.c)
      /\ x.uncached_w = Io!ReqU(now, x.stalled, x.u, TRUE)
      /\ Ax!Clock(now, x.read, x.write, x.arready, x.awready, x.wready, x.respond)
      /\ Reading(x.read, x.deliver, x.arready)
      /\ Writing(x.write, x.awready, x.wready, x.respond)
      /\ x.imem_res = Ax!Res(x.read, "R_IFETCH") /\ x.dmem_res = Ax!Res(x.read, "R_DFETCH")
      /\ x.res_ur = Ax!ResUr(x.read)
      /\ x.dmem_res_w = Ax!ResW(x.respond)
      /\ x.res_uw = Ax!ResUw([valid |-> x.respond, fault |-> writes.line \in faulty])
  BY <1>1 DEF Step
<1>4. /\ x.read.state = "R_IDLE" /\ x.read.arvalid = FALSE /\ x.read.done = FALSE
      /\ x.read.data = Ax!Zero /\ x.read.fault = FALSE
  <2> DEFINE dropped == rd.arready /\ rd.arvalid
             beat == rd.state # "R_IDLE" /\ Beat(x.deliver).valid
             granted == /\ rd.state = "R_IDLE" /\ ~(rd.arvalid /\ ~dropped) /\ ~reset_q
                        /\ (x.imem.valid \/ x.dmem.valid \/ x.uncached.valid)
             done == beat /\ Beat(x.deliver).last
             arvalid == ~now /\ (granted \/ (rd.arvalid /\ ~dropped))
             fails == (beat /\ Beat(x.deliver).fault) \/ (rd.fault /\ ~dropped)
             shifted == Ax!ShiftIn(rd.data, Beat(x.deliver).data)
             grant == Ax!Granted(x.imem, x.dmem, x.uncached)
  <2>1. x.read = [state |-> IF now \/ done THEN "R_IDLE"
                            ELSE IF granted THEN grant.state ELSE rd.state,
                  arvalid |-> arvalid,
                  addr |-> IF granted THEN grant.addr ELSE rd.addr,
                  data |-> IF beat THEN shifted ELSE rd.data,
                  fault |-> fails, done |-> done]
    BY <1>3 DEF Ax!Read
  <2>2. beat = FALSE /\ done = FALSE /\ arvalid = FALSE /\ fails = FALSE
    BY <1>1
  <2> HIDE DEF beat, done, arvalid, fails, granted, shifted, grant
  <2> QED
    BY <1>1, <2>1, <2>2
<1>5. x.dmem_w.valid = FALSE /\ x.uncached_w.valid = FALSE
  <2>1. x.dmem_w = D!NoWrite
    BY <1>1, <1>3 DEF D!ReqW
  <2>2. Io!Pending(now, x.stalled, x.u, TRUE) = FALSE
    BY <1>1 DEF Io!Pending
  <2>3. PICK s \in DP!Request : s = Io!Stable(x.stalled, x.u)
    <3>1. io.stable = Io!NoRequest /\ Io!NoRequest = NoRequest
      BY DEF Init, Io!Init, Io!NoRequest, NoRequest
    <3> QED
      BY <3>1, Asks, RequestTypes DEF Io!Stable
  <2>4. x.uncached_w = [s EXCEPT !.valid = FALSE]
    BY <1>3, <2>2, <2>3 DEF Io!ReqU
  <2> QED
    BY <2>1, <2>3, <2>4 DEF D!NoWrite, DP!Request
<1>6. /\ x.write.state = "W_IDLE" /\ x.write.awvalid = FALSE /\ x.write.count = 0
      /\ x.write.data = Ax!Zero
  <2> DEFINE offered == wr.awvalid /\ ~wr.awready
             count == IF Ax!w_taken THEN wr.count - 1 ELSE wr.count
             granted == /\ Ax!write_idle /\ ~offered /\ count = 0
                        /\ (x.dmem_w.valid \/ x.uncached_w.valid)
             awvalid == ~now /\ (granted \/ offered)
             address == IF ~granted THEN wr.addr
                        ELSE IF x.dmem_w.valid THEN Ax!LineAddress(x.dmem_w.line)
                        ELSE Ax!WordAddress(x.uncached_w)
             state == IF now THEN "W_IDLE"
                      ELSE IF granted THEN IF x.dmem_w.valid THEN "W_DSTORE" ELSE "W_IOSTORE"
                      ELSE IF Ax!write_idle THEN "W_IDLE" ELSE wr.state
             data == IF granted
                       THEN IF x.dmem_w.valid THEN x.dmem_w.data
                            ELSE [Ax!Zero EXCEPT ![0] = x.uncached_w.data]
                     ELSE IF Ax!w_taken THEN Ax!ShiftOut(wr.data) ELSE wr.data
             all == IF now THEN 0 ELSE IF granted THEN Ax!beats(x.dmem_w) ELSE count
  <2>1. x.write = [state |-> state, awvalid |-> awvalid, addr |-> address, count |-> all,
                   data |-> data]
    BY <1>3 DEF Ax!Write
  <2>2. ~granted /\ ~Ax!w_taken
    BY <1>1, <1>5 DEF Ax!w_taken
  <2>3. awvalid = FALSE
    BY <1>1
  <2>4. state = "W_IDLE" /\ all = 0
    BY <1>1
  <2>5. data = Ax!Zero
    BY <1>1, <2>2
  <2> HIDE DEF awvalid, address, state, data, all
  <2> QED
    BY <2>1, <2>3, <2>4, <2>5
<1>7. x.arready = FALSE /\ x.awready = FALSE /\ x.wready = FALSE
  BY <1>2, <1>4, <1>6 DEF May
<1>8. /\ rd' = [state |-> "R_IDLE", arvalid |-> FALSE, arready |-> FALSE, addr |-> Ax!NoAddress,
                data |-> Ax!Zero, fault |-> FALSE]
      /\ wr' = [state |-> "W_IDLE", awvalid |-> FALSE, awready |-> FALSE, addr |-> Ax!NoAddress,
                count |-> 0, data |-> Ax!Zero, wready |-> FALSE, bvalid |-> FALSE]
      /\ reset_q' = now
  BY <1>2, <1>3, <1>4, <1>6, <1>7 DEF Ax!Clock
<1>9. reads' = NoRead
  BY <1>1, <1>2, <1>3, <1>7 DEF Reading
<1>10. ram' = ram /\ writes' = NoStore
  BY <1>1, <1>2, <1>3, <1>7 DEF Writing, NoStore
<1>11. /\ x.imem_res = [valid |-> FALSE, data |-> Ax!Zero, fault |-> FALSE]
       /\ x.dmem_res = [valid |-> FALSE, data |-> Ax!Zero, fault |-> FALSE]
       /\ x.res_ur.valid = FALSE
  BY <1>1, <1>3, <1>4 DEF Ax!Res, Ax!ResUr
<1>12. x.res_uw.valid = FALSE /\ x.dmem_res_w = FALSE
  <2> DEFINE stored == wr.state = "W_DSTORE" /\ x.respond
             written == wr.state = "W_IOSTORE" /\ x.respond
             fails == writes.line \in faulty
  <2>1. x.dmem_res_w = stored /\ x.res_uw = [valid |-> written, fault |-> fails]
    BY <1>3 DEF Ax!ResUw, Ax!ResW
  <2>2. stored = FALSE /\ written = FALSE
    BY <1>2
  <2> HIDE DEF stored, written, fails
  <2> QED
    BY <2>1, <2>2
<1>13. Ax!NoAddress \in Ax!Address /\ Ax!Zero \in [Words -> Data]
  BY Addresses
<1>14. x.imem_res \in IP!Response /\ x.dmem_res \in DP!Response
  BY <1>11, <1>13 DEF IP!Response, DP!Response, IP!Line, DP!Line, IP!Words, DP!Words, Words
<1> QED
  BY <1>1, <1>8, <1>9, <1>10, <1>11, <1>12, <1>13, <1>14

LEMMA ResetStep ==
  ASSUME Init, NEW x, Step(x)
  PROVE  /\ Inv' /\ reset' = FALSE
         /\ late' = NoRequest /\ ram' = ram /\ faulty' = faulty
         /\ ~dcache'.req_w.valid /\ \A i \in 0 .. COUNT - 1 : ~dcache'.mem[i].valid
<1> PICK now : now = reset
  OBVIOUS
<1>1. /\ now = TRUE /\ reset = now /\ fresh = TRUE
      /\ I!Init /\ D!Init /\ Io!Init
      /\ fetch = NoRequest /\ late = NoRequest /\ faulty \in Faults /\ ram = Boot
  BY DEF Init
<1>2. /\ x.stalled \in BOOLEAN /\ x.f \in DP!Request /\ ~x.f.write /\ x.d = NoRequest
      /\ x.c \in DP!Request /\ ~x.c.valid
  <2>1. reset
    BY <1>1, SMTT(60)
  <2> QED
    BY <2>1, Asks DEF NoRequest
<1>3. /\ Core(x.stalled, x.f, x.d)
      /\ I!Clock(TRUE, x.stalled, x.f, x.imem_res, FALSE)
      /\ D!Clock(TRUE, x.stalled, x.c, x.dmem_res, x.dmem_res_w)
      /\ Io!Clock(TRUE, x.stalled, x.u, x.res_ur, x.res_uw)
      /\ reset' = FALSE /\ faulty' = faulty
  BY <1>1 DEF Step
<1>4. /\ IP!CInv' /\ ~icache'.req_w.valid
      /\ icache'.stable.write => icache'.stable = x.f
      /\ \A i \in 0 .. COUNT - 1 : ~icache'.mem[i].valid /\ ~icache'.mem[i].dirty
  <2> PICK none : none = FALSE
    OBVIOUS
  <2>1. IP!Clock(now, x.stalled, x.f, x.imem_res, none) /\ IP!Init
    <3>1. IP!Clock(TRUE, x.stalled, x.f, x.imem_res, FALSE) /\ IP!Init
      BY <1>3, ICacheClocks, <1>1, ICacheIs
    <3> QED
      BY <1>1, <3>1
  <2>2. x.f \in IP!Request
    BY <1>2, RequestTypes
  <2>3. IP!Parameters
    BY Kinds
  <2> QED
    BY <1>1, <1>2, <2>1, <2>2, <2>3, ResetBus, IP!Reset
<1>5. /\ DP!CInv' /\ ~dcache'.req_w.valid /\ ~dcache'.res_w_valid
      /\ dcache'.stable.write => dcache'.stable = x.c
      /\ \A i \in 0 .. COUNT - 1 : ~dcache'.mem[i].valid /\ ~dcache'.mem[i].dirty
  <2> PICK none : none = FALSE
    OBVIOUS
  <2>1. DP!Clock(now, x.stalled, x.c, x.dmem_res, none) /\ DP!Init
    <3>1. DP!Clock(TRUE, x.stalled, x.c, x.dmem_res, x.dmem_res_w) /\ DP!Init
      BY <1>1, <1>3, DCacheClocks, DCacheIs
    <3> QED
      BY <1>1, <3>1, ResetBus
  <2>2. DP!Parameters
    BY Kinds
  <2> QED
    BY <1>1, <1>2, <2>1, <2>2, ResetBus, DP!Reset
<1>6. /\ late' = NoRequest /\ fresh' = TRUE
      /\ fetch'.valid = FALSE
  <2>1. /\ fresh' = (now \/ (fresh /\ x.stalled))
        /\ x.stalled => fetch' = fetch /\ late' = late
        /\ ~x.stalled => fetch' = [x.f EXCEPT !.valid = ~(now \/ fresh)] /\ late' = x.d
    BY <1>1, <1>3 DEF Core
  <2>2. fresh' = TRUE
    BY <1>1, <2>1
  <2>3. ~(now \/ fresh) = FALSE
    BY <1>1
  <2>4. CASE x.stalled
    BY <1>1, <2>1, <2>2, <2>4 DEF NoRequest
  <2>5. CASE ~x.stalled
    <3>1. fetch' = [x.f EXCEPT !.valid = FALSE]
      BY <2>1, <2>3, <2>5
    <3> QED
      BY <1>2, <2>1, <2>2, <2>5, <3>1 DEF DP!Request
  <2> QED
    BY <2>4, <2>5
<1>7. io' = [stable |-> Io!NoRequest, rdata |-> 0, fault |-> FALSE, req_ur |-> FALSE,
             req_uw |-> FALSE, res_ur |-> FALSE, res_uw |-> FALSE, reset |-> now]
  <2> PICK r, w : /\ r = Io!Pending(now, x.stalled, x.u, FALSE)
                  /\ w = Io!Pending(now, x.stalled, x.u, TRUE)
    OBVIOUS
  <2>1. r = FALSE /\ w = FALSE
    BY <1>1 DEF Io!Pending
  <2>2. ~\E write \in BOOLEAN : Io!Pending(now, x.stalled, x.u, write)
    BY <1>1 DEF Io!Pending
  <2>3. x.res_ur.valid = FALSE /\ x.res_uw.valid = FALSE
    BY ResetBus
  <2>4. io.rdata = 0 /\ io.fault = FALSE
    BY <1>1 DEF Io!Init, Io!NoRequest
  <2>5. Io!rdata(x.res_ur) = 0 /\ Io!fault(x.res_ur, x.res_uw) = FALSE
    BY <2>3, <2>4 DEF Io!rdata, Io!fault
  <2>6. Io!Clock(now, x.stalled, x.u, x.res_ur, x.res_uw)
    BY <1>1, <1>3
  <2>7. io' = [stable |-> IF \E write \in BOOLEAN : Io!Pending(now, x.stalled, x.u, write)
                            THEN Io!Stable(x.stalled, x.u) ELSE Io!NoRequest,
               rdata |-> Io!rdata(x.res_ur), fault |-> Io!fault(x.res_ur, x.res_uw),
               req_ur |-> r, req_uw |-> w,
               res_ur |-> x.res_ur.valid, res_uw |-> x.res_uw.valid, reset |-> now]
    BY <2>6 DEF Io!Clock
  <2> QED
    BY <2>1, <2>2, <2>3, <2>5, <2>7
<1>8. /\ rd' = [state |-> "R_IDLE", arvalid |-> FALSE, arready |-> FALSE, addr |-> Ax!NoAddress,
               data |-> Ax!Zero, fault |-> FALSE]
      /\ wr' = [state |-> "W_IDLE", awvalid |-> FALSE, awready |-> FALSE, addr |-> Ax!NoAddress,
               count |-> 0, data |-> Ax!Zero, wready |-> FALSE, bvalid |-> FALSE]
      /\ reset_q' \in BOOLEAN
      /\ reads' = NoRead /\ writes' = NoStore /\ ram' = ram
  BY ResetBus
<1>9. TypeOK'
  <2>1. I!TypeOK' /\ D!TypeOK'
    <3>1. IP!TypeOK' /\ DP!TypeOK'
      BY <1>4, <1>5 DEF IP!CInv, DP!CInv
    <3>2. IP!TypeOK' => I!TypeOK'
      BY DEF I!TypeOK, I!Request, I!Line, I!Words, IP!TypeOK, IP!Request, IP!Line, IP!Words
    <3>3. DP!TypeOK' => D!TypeOK'
      BY DEF D!TypeOK, D!Request, D!Line, D!Words, DP!TypeOK, DP!Request, DP!Line, DP!Words
    <3> QED
      BY <3>1, <3>2, <3>3
  <2>2. Io!TypeOK'
    <3>1. Io!NoRequest \in Io!Request /\ 0 \in Data
      BY RequestTypes, LinesAssumption DEF Io!NoRequest, NoRequest
    <3> QED
      BY <1>1, <1>7, <3>1 DEF Io!TypeOK, Io!Request
  <2>3. Ax!TypeOK'
    <3>1. /\ rd' \in [state: {"R_IDLE", "R_IFETCH", "R_DFETCH", "R_IOFETCH"},
                      arvalid: BOOLEAN, arready: BOOLEAN, addr: Ax!Address,
                      data: [Words -> Data], fault: BOOLEAN]
      BY <1>8, Addresses
    <3>2. wr' \in [state: {"W_IDLE", "W_DSTORE", "W_IOSTORE"},
                   awvalid: BOOLEAN, awready: BOOLEAN, addr: Ax!Address, count: 0 .. BEATS,
                   data: [Words -> Data], wready: BOOLEAN, bvalid: BOOLEAN]
      BY <1>8, Addresses, SizeAssumption DEF Words
    <3> QED
      BY <1>8, <3>1, <3>2 DEF Ax!TypeOK, Ax!Line, Ax!Words, Ax!Address, Words
  <2>4. late' \in Accesses'
    BY <1>6 DEF Accesses, NoRequest
  <2>5. reads'.left \in 0 .. BEATS /\ Len(writes'.data) <= BEATS
    BY <1>8, SizeAssumption DEF NoRead, NoStore
  <2> QED
    BY <1>3, <1>6, <2>1, <2>2, <2>3, <2>4, <2>5 DEF TypeOK
<1>10. Ram'
  BY <1>1, <1>3, <1>8, MemoryAssumption DEF Ram, Words
<1>11. FetchInv'
  <2>1. ~icache'.stable.write
    <3>1. icache'.stable.write => icache'.stable = x.f
      BY <1>4
    <3> QED
      BY <1>2, <3>1
  <2>2. IP!Clean'
    BY <1>4, <2>1 DEF IP!Clean
  <2> QED
    BY <1>6, <2>2 DEF FetchInv
<1>12. LateInv'
  <2>1. ~(dcache'.stable.valid /\ dcache'.stable.write)
    BY <1>2, <1>5
  <2>2. ~late'.valid /\ late' \in Accesses'
    BY <1>6 DEF Accesses, NoRequest
  <2> QED
    BY <2>1, <2>2 DEF LateInv
<1>13. IoInv'
  BY <1>6, <1>7 DEF IoInv, NoRequest
<1>14. ReadInv'
  BY <1>8 DEF ReadInv
<1>15. WriteInv'
  BY <1>5, <1>7, <1>8 DEF WriteInv, Quiet
<1> QED
  BY <1>3, <1>4, <1>5, <1>6, <1>8, <1>9, <1>10, <1>11, <1>12, <1>13, <1>14, <1>15 DEF Inv

(* A step that changes nothing keeps all of this.                          *)
LEMMA Stutters == ASSUME Inv, UNCHANGED vars PROVE Inv'
<1>1. /\ icache' = icache /\ dcache' = dcache /\ io' = io /\ rd' = rd /\ wr' = wr
      /\ reset_q' = reset_q /\ last_dmem_io' = last_dmem_io /\ reset' = reset
      /\ fetch' = fetch /\ late' = late /\ fresh' = fresh
      /\ ram' = ram /\ faulty' = faulty /\ reads' = reads /\ writes' = writes
  BY DEF vars, coreVars, busVars
<1>2. TypeOK'
  <2>1. I!TypeOK => I!TypeOK'
    BY <1>1 DEF I!TypeOK, I!Request, I!Line, I!Words
  <2>2. D!TypeOK => D!TypeOK'
    BY <1>1 DEF D!TypeOK, D!Request, D!Line, D!Words
  <2>3. Io!TypeOK => Io!TypeOK'
    BY <1>1 DEF Io!TypeOK, Io!Request, Words
  <2>4. Ax!TypeOK => Ax!TypeOK'
    BY <1>1 DEF Ax!TypeOK, Ax!Line, Ax!Words, Ax!Address
  <2>5. Accesses' = Accesses
    BY DEF Accesses, Load, Store, NoRequest
  <2> QED
    BY <1>1, <2>1, <2>2, <2>3, <2>4, <2>5 DEF Inv, TypeOK
<1>3. Ram'
  BY <1>1, SMTT(60), ZenonT(60) DEF Inv, Ram, Words
<1>4. IP!CInv'
  BY <1>1, SMTT(60), ZenonT(60) DEF Inv, IP!CInv, IP!TypeOK, IP!Request, IP!Line, IP!Words, IP!Placed, IP!Held, IP!Shown,
     IP!Asked, IP!Faulted, IP!Evicted, IP!Pending, IP!Entry, IP!cache_hit, IP!Index
<1>5. DP!CInv'
  BY <1>1, SMTT(60), ZenonT(60) DEF Inv, DP!CInv, DP!TypeOK, DP!Request, DP!Line, DP!Words, DP!Placed, DP!Held, DP!Shown,
     DP!Asked, DP!Faulted, DP!Evicted, DP!Pending, DP!Entry, DP!cache_hit, DP!Index
<1>6. FetchInv'
  BY <1>1 DEF Inv, FetchInv, Fetches, Load, NoRequest, IP!Clean, IP!cache_hit, IP!Entry, IP!Index
<1>7. LateInv'
  <2>1. Accesses' = Accesses /\ IoLines' = IoLines
    BY DEF Accesses, Load, Store, NoRequest, IoLines
  <2>2. DP!cache_hit(late)' <=> DP!cache_hit(late)
    BY <1>1 DEF DP!cache_hit, DP!Entry, DP!Index
  <2> QED
    BY <1>1, <2>1, <2>2 DEF Inv, LateInv
<1>8. IoInv'
  BY <1>1 DEF Inv, IoInv, IoLines, Waits
<1>9. ReadInv'
  BY <1>1 DEF Inv, ReadInv, Reads, NoRead, IP!Pending, DP!Pending, Ax!LineAddress, Ax!WordAddress
<1>10. WriteInv'
  <2> DEFINE Line == Ax!LineAddress(dcache.req_w.line)
             Word == Ax!WordAddress(io.stable)
             Full == [Ax!Zero EXCEPT ![0] = io.stable.data]
  <2>1. (Quiet' <=> Quiet) /\ (Ax!write_idle' <=> Ax!write_idle)
    BY <1>1 DEF Quiet, NoStore, Ax!write_idle
  <2>2. Line' = Line /\ Word' = Word /\ Full' = Full
    BY <1>1 DEF Ax!LineAddress, Ax!WordAddress, Ax!Zero, Ax!Words
  <2> HIDE DEF Line, Word, Full
  <2>3. /\ Writes(Line, dcache.req_w.data) => Writes(Line, dcache.req_w.data)'
        /\ Writes(Word, Full) => Writes(Word, Full)'
    BY <1>1, <2>2 DEF Writes
  <2>4. WriteInv =>
          /\ Ax!write_idle => Quiet
          /\ dcache.res_w_valid <=> wr.state = "W_DSTORE" /\ wr.bvalid
          /\ io.res_uw <=> wr.state = "W_IOSTORE" /\ wr.bvalid
          /\ wr.state = "W_DSTORE" =>
               dcache.req_w.valid /\ (~wr.bvalid => Writes(Line, dcache.req_w.data))
          /\ wr.state = "W_IOSTORE" => io.req_uw /\ (~wr.bvalid => Writes(Word, Full))
    BY DEF WriteInv, Line, Word, Full
  <2>5. /\ Ax!write_idle' => Quiet'
        /\ dcache'.res_w_valid <=> wr'.state = "W_DSTORE" /\ wr'.bvalid
        /\ io'.res_uw <=> wr'.state = "W_IOSTORE" /\ wr'.bvalid
        /\ wr'.state = "W_DSTORE" =>
             dcache'.req_w.valid /\ (~wr'.bvalid => Writes(Line, dcache.req_w.data)')
        /\ wr'.state = "W_IOSTORE" => io'.req_uw /\ (~wr'.bvalid => Writes(Word, Full)')
    BY <1>1, <2>1, <2>3, <2>4 DEF Inv
  <2> QED
    BY <2>5 DEF WriteInv, Line, Word, Full
<1> QED
  BY <1>2, <1>3, <1>4, <1>5, <1>6, <1>7, <1>8, <1>9, <1>10 DEF Inv

LEMMA InitStutters == ASSUME Init, UNCHANGED vars PROVE Init'
<1>1. /\ clock' = clock /\ icache' = icache /\ dcache' = dcache /\ io' = io /\ rd' = rd /\ wr' = wr
      /\ reset_q' = reset_q /\ last_dmem_io' = last_dmem_io /\ reset' = reset
      /\ fetch' = fetch /\ late' = late /\ fresh' = fresh
      /\ ram' = ram /\ faulty' = faulty /\ reads' = reads /\ writes' = writes
  BY DEF vars, coreVars, busVars
<1>2. I!Init'
  BY <1>1 DEF Init, I!Init, I!Empty, I!NoRequest, I!Zero, I!NoWrite, I!Words
<1>3. D!Init'
  BY <1>1 DEF Init, D!Init, D!Empty, D!NoRequest, D!Zero, D!NoWrite, D!Words
<1>4. Io!Init' /\ Ax!Init'
  BY <1>1 DEF Init, Io!Init, Io!NoRequest, Ax!Init, Ax!NoAddress, Ax!Zero, Ax!Words
<1> QED
  BY <1>1, <1>2, <1>3, <1>4 DEF Init, NoRequest, NoRead, NoStore

(* The invariant is inductive.                                             *)
LEMMA Inductive == Spec => []IInv
<1>1. Init => IInv
  BY DEF IInv, Init
<1>2. IInv /\ [Next]_vars => IInv'
  <2> SUFFICES ASSUME IInv, [Next]_vars PROVE IInv'
    OBVIOUS
  <2>1. CASE Next
    <3> PICK x : Step(x)
      BY <2>1, NextIsStep
    <3>1. CASE reset = TRUE /\ Init
      BY <3>1, ResetStep DEF IInv
    <3>2. CASE reset = FALSE /\ Inv
      BY <3>2, StepInv DEF IInv
    <3> QED
      BY <3>1, <3>2 DEF IInv
  <2>2. CASE UNCHANGED vars
    <3>1. reset' = reset
      BY <2>2 DEF vars, coreVars
    <3> QED
      BY <2>2, <3>1, Stutters, InitStutters DEF IInv
  <2> QED
    BY <2>1, <2>2
<1> QED
  BY <1>1, <1>2, PTL DEF Spec
-----------------------------------------------------------------------------
(* Both caches, the bypass and the manager keep to their types.            *)
LEMMA InitTypes == ASSUME Init PROVE TypeOK
<1>1. /\ I!Init /\ D!Init /\ Io!Init /\ Ax!Init
      /\ reset = TRUE /\ fresh = TRUE /\ late = NoRequest
      /\ reads = NoRead /\ writes = NoStore
  BY DEF Init
<1>2. 0 \in Lines /\ 0 \in Data /\ 0 \in Words
  BY LinesAssumption, SizeAssumption DEF Words
<1>3. I!TypeOK
  <2>1. PICK miss \in BOOLEAN, valid \in BOOLEAN :
          icache = [mem |-> [i \in 0 .. COUNT - 1 |-> I!Empty],
                    stable |-> [I!NoRequest EXCEPT !.valid = valid],
                    rdata_line |-> I!Zero, fault |-> FALSE, miss |-> miss,
                    req_r_valid |-> FALSE, req_w |-> I!NoWrite,
                    res_r_valid |-> FALSE, res_w_valid |-> FALSE]
    BY <1>1 DEF I!Init
  <2>2. [I!NoRequest EXCEPT !.valid = valid]
          = [valid |-> valid, line |-> 0, word |-> 0, write |-> FALSE, data |-> 0]
    <3> SUFFICES ASSUME NEW r, r = [I!NoRequest EXCEPT !.valid = valid]
                 PROVE  r = [valid |-> valid, line |-> 0, word |-> 0, write |-> FALSE, data |-> 0]
      OBVIOUS
    <3> QED
      BY DEF I!NoRequest
  <2>3. [valid |-> valid, line |-> 0, word |-> 0, write |-> FALSE, data |-> 0] \in I!Request
    BY <1>2 DEF I!Request, I!Words, Words
  <2>4. I!Zero \in I!Line
    BY <1>2 DEF I!Zero, I!Line
  <2>5. I!NoWrite \in [valid: BOOLEAN, line: Lines, data: I!Line]
    BY <1>2, <2>4 DEF I!NoWrite
  <2>6. [i \in 0 .. COUNT - 1 |-> I!Empty]
          \in [0 .. COUNT - 1 -> [line: Lines, data: I!Line, valid: BOOLEAN, dirty: BOOLEAN]]
    BY <1>2, <2>4 DEF I!Empty
  <2> QED
    BY <2>1, <2>2, <2>3, <2>4, <2>5, <2>6 DEF I!TypeOK
<1>4. D!TypeOK
  <2>1. PICK miss \in BOOLEAN, valid \in BOOLEAN :
          dcache = [mem |-> [i \in 0 .. COUNT - 1 |-> D!Empty],
                    stable |-> [D!NoRequest EXCEPT !.valid = valid],
                    rdata_line |-> D!Zero, fault |-> FALSE, miss |-> miss,
                    req_r_valid |-> FALSE, req_w |-> D!NoWrite,
                    res_r_valid |-> FALSE, res_w_valid |-> FALSE]
    BY <1>1 DEF D!Init
  <2>2. [D!NoRequest EXCEPT !.valid = valid]
          = [valid |-> valid, line |-> 0, word |-> 0, write |-> FALSE, data |-> 0]
    <3> SUFFICES ASSUME NEW r, r = [D!NoRequest EXCEPT !.valid = valid]
                 PROVE  r = [valid |-> valid, line |-> 0, word |-> 0, write |-> FALSE, data |-> 0]
      OBVIOUS
    <3> QED
      BY DEF D!NoRequest
  <2>3. [valid |-> valid, line |-> 0, word |-> 0, write |-> FALSE, data |-> 0] \in D!Request
    BY <1>2 DEF D!Request, D!Words, Words
  <2>4. D!Zero \in D!Line
    BY <1>2 DEF D!Zero, D!Line
  <2>5. D!NoWrite \in [valid: BOOLEAN, line: Lines, data: D!Line]
    BY <1>2, <2>4 DEF D!NoWrite
  <2>6. [i \in 0 .. COUNT - 1 |-> D!Empty]
          \in [0 .. COUNT - 1 -> [line: Lines, data: D!Line, valid: BOOLEAN, dirty: BOOLEAN]]
    BY <1>2, <2>4 DEF D!Empty
  <2> QED
    BY <2>1, <2>2, <2>3, <2>4, <2>5, <2>6 DEF D!TypeOK
<1>5. Io!TypeOK
  BY <1>1, <1>2 DEF Io!Init, Io!TypeOK, Io!NoRequest, Io!Request
<1>6. Ax!TypeOK
  BY <1>1, Addresses, AxTypes, SizeAssumption DEF Ax!Init
<1> QED
  BY <1>1, <1>3, <1>4, <1>5, <1>6, SizeAssumption DEF TypeOK, Accesses, NoRead, NoStore

(* The registers of the caches, of the bypass and of the AXI manager hold  *)
(* what they were made for, and no more beats are counted than a line has. *)
THEOREM Typed == Spec => []TypeOK
<1>1. IInv => TypeOK
  BY InitTypes DEF IInv, Inv
<1> QED
  BY <1>1, Inductive, PTL

(* No line that faults is written back: it was read without an error.      *)
THEOREM WritesBackRead == Spec => []WritesBackOnlyRead
<1>1. IInv => WritesBackOnlyRead
  <2> SUFFICES ASSUME IInv, wr.state = "W_DSTORE", wr.awvalid PROVE wr.addr.line \notin faulty
    BY DEF WritesBackOnlyRead
  <2>1. Inv
    BY DEF IInv, Init, Ax!Init
  <2>2. dcache.req_w.valid /\ Writes(Ax!LineAddress(dcache.req_w.line), dcache.req_w.data)
    BY <2>1 DEF Inv, WriteInv, Quiet, Ax!write_idle
  <2>3. wr.addr.line = dcache.req_w.line
    BY <2>2 DEF Writes, Ax!LineAddress
  <2> QED
    BY <2>1, <2>2, <2>3 DEF Inv, DP!CInv, DP!Evicted
<1> QED
  BY <1>1, Inductive, PTL

(* What is offered on an address or data channel stays until it is taken.  *)
THEOREM StaysOffered == Spec => OffersStay
<1> DEFINE Stays == /\ rd.arvalid /\ ~rd.arready => rd'.arvalid /\ rd'.addr = rd.addr
                    /\ wr.awvalid /\ ~wr.awready => wr'.awvalid /\ wr'.addr = wr.addr
                    /\ wr.count # 0 /\ ~wr.wready => wr'.count = wr.count /\ wr'.data = wr.data
<1>1. IInv /\ [Next]_vars => [Stays]_vars
  <2> SUFFICES ASSUME IInv, Next PROVE Stays
    OBVIOUS
  <2>0. PICK x : Step(x)
    BY NextIsStep
  <2>1. CASE reset = TRUE /\ Init
    BY <2>1 DEF Init, Ax!Init
  <2>2. CASE reset = FALSE
    <3>1. /\ ReadStep(x.imem, x.dmem, x.uncached, x.deliver, x.read, x.arready)
          /\ WriteStep(x.dmem_w, x.uncached_w, x.respond, x.write, x.awready, x.wready)
      BY <2>0, <2>2, Parts
    <3>2. ASSUME rd.arvalid, ~rd.arready PROVE rd'.arvalid /\ rd'.addr = rd.addr
      <4>1. x.read.arvalid /\ x.read.addr = rd.addr
        BY <3>1, <3>2, ReadIs DEF Granted
      <4> QED
        BY <3>1, <4>1 DEF ReadStep
    <3>5. PICK dmem, uncached, respond, write, awready, wready :
            WriteStep(dmem, uncached, respond, write, awready, wready)
      BY <3>1
    <3>3. ASSUME wr.awvalid, ~wr.awready PROVE wr'.awvalid /\ wr'.addr = wr.addr
      <4>1. ~Taken(dmem, uncached)
        BY <3>3 DEF Taken
      <4>2. write.awvalid /\ write.addr = wr.addr
        BY <3>3, <3>5, <4>1, WriteIs
      <4> QED
        BY <3>5, <4>2, WriteWill
    <3>4. ASSUME wr.count # 0, ~wr.wready PROVE wr'.count = wr.count /\ wr'.data = wr.data
      <4>1. Left = wr.count /\ ~Taken(dmem, uncached) /\ ~Ax!w_taken
        BY <3>4 DEF Left, Taken, Ax!w_taken
      <4>2. write.count = wr.count /\ write.data = wr.data
        BY <3>5, <4>1, WriteIs
      <4> QED
        BY <3>5, <4>2, WriteWill
    <3> QED
      BY <3>2, <3>3, <3>4
  <2> QED
    BY <2>1, <2>2 DEF IInv
<1> QED
  BY <1>1, Inductive, PTL DEF Spec, OffersStay
-----------------------------------------------------------------------------
(* The memory the core sees is the view of the data cache, with the store  *)
(* that has not been taken yet.                                            *)
Overlaid(l, w) ==
  late.valid /\ late.write /\ late.line = l /\ late.word = w /\ l \notin faulty

LEMMA MemoryIs ==
  /\ Memory = [l \in Lines |-> [w \in Words |->
                 IF Overlaid(l, w) THEN late.data ELSE DP!View(l)[w]]]
  /\ Memory' = [l \in Lines |-> [w \in Words |->
                 IF Overlaid(l, w)' THEN late'.data ELSE DP!View(l)'[w]]]
<1>1. \A l \in Lines, w \in Words :
        (IF Overlaid(l, w) THEN late.data ELSE DP!View(l)[w]) =
          IF late.valid /\ late.write /\ late.line = l /\ late.word = w /\ l \notin faulty
            THEN late.data
          ELSE IF Cached(l) THEN dcache.mem[D!Index(l)].data[w]
          ELSE IF dcache.req_w.valid /\ dcache.req_w.line = l THEN dcache.req_w.data[w]
          ELSE ram[l][w]
  BY DEF Overlaid, DP!View, DP!Index, D!Index, Cached
<1>2. \A l \in Lines, w \in Words :
        (IF Overlaid(l, w)' THEN late'.data ELSE DP!View(l)'[w]) =
          IF late'.valid /\ late'.write /\ late'.line = l /\ late'.word = w /\ l \notin faulty'
            THEN late'.data
          ELSE IF Cached(l)' THEN dcache'.mem[D!Index(l)].data[w]
          ELSE IF dcache'.req_w.valid /\ dcache'.req_w.line = l THEN dcache'.req_w.data[w]
          ELSE ram'[l][w]
  BY DEF Overlaid, DP!View, DP!Index, D!Index, Cached
<1> QED
  BY <1>1, <1>2 DEF Memory, D!Index

(* Only the lines of the data cache are in it.                             *)
LEMMA Elsewhere ==
  ASSUME NEW l \in Lines, l \notin DataLines
  PROVE  /\ DP!CInv => DP!View(l) = ram[l]
         /\ DP!CInv' => DP!View(l)' = ram'[l]
<1>1. DP!Index(l) \in 0 .. COUNT - 1
  BY Kinds, DP!IndexIn
<1>2. DP!CInv => DP!View(l) = ram[l]
  BY <1>1 DEF DP!CInv, DP!Placed, DP!Evicted, DP!View
<1>3. DP!CInv' => DP!View(l)' = ram'[l]
  <2>1. DP!Index(l)' = DP!Index(l)
    BY DEF DP!Index
  <2> QED
    BY <1>1, <2>1 DEF DP!CInv, DP!Placed, DP!Evicted, DP!View
<1> QED
  BY <1>2, <1>3

(* Data the core takes.                                                    *)
LEMMA TakesData ==
  ASSUME Inv, ~stall, late.valid
  PROVE  /\ late \in DP!Request /\ late.line \in Lines /\ late.word \in Words
         /\ late.line \in IoLines =>
              /\ last_dmem_io /\ (io.fault <=> late.line \in faulty)
              /\ ~io.fault => IF late.write THEN ram[late.line][late.word] = late.data
                              ELSE io.rdata = ram[late.line][late.word]
         /\ late.line \notin IoLines =>
              /\ ~last_dmem_io /\ late.line \in DataLines
              /\ D!fault <=> late.line \in faulty
              /\ ~D!fault => D!rdata = DP!View(late.line)[late.word]
         /\ late.write /\ late.line \notin faulty =>
              DP!View(late.line)[late.word] = late.data
<1>1. late \in DP!Request /\ late.line \in DataLines \cup IoLines
  BY RequestTypes DEF Inv, LateInv
<1>2. late.line \in Lines /\ late.word \in Words
  BY <1>1 DEF DP!Request, DP!Words, Words
<1>3. CASE late.line \in IoLines
  <2>1. ~Waits
    BY DEF stall, Io!stall, Waits
  <2>2. /\ last_dmem_io /\ (io.fault <=> late.line \in faulty)
        /\ ~io.fault => IF late.write THEN ram[late.line][late.word] = late.data
                        ELSE io.rdata = ram[late.line][late.word]
    BY <1>3, <2>1 DEF Inv, LateInv, IoInv
  <2>3. DP!View(late.line) = ram[late.line]
    BY <1>2, <1>3, Kinds, Elsewhere DEF Inv
  <2> QED
    BY <1>1, <1>2, <1>3, <2>2, <2>3
<1>4. CASE late.line \notin IoLines
  <2>1. /\ dcache.stable = late /\ (dcache.miss \/ DP!cache_hit(late))
        /\ ~last_dmem_io /\ late.line \in DataLines
    BY <1>1, <1>4 DEF Inv, LateInv
  <2>2. DP!Parameters /\ DP!CInv /\ ~DP!stall
    BY Kinds, DCacheIs DEF Inv, stall
  <2>3. dcache.miss \/ DP!cache_hit(dcache.stable)
    BY <2>1
  <2>4. /\ DP!fault <=> dcache.stable.line \in faulty
        /\ ~DP!fault =>
             /\ DP!rdata = DP!View(dcache.stable.line)[dcache.stable.word]
             /\ dcache.stable.write => DP!rdata = dcache.stable.data
    BY <2>1, <2>2, <2>3, DP!Answered
  <2>5. D!fault = DP!fault /\ D!rdata = DP!rdata
    BY DCacheIs
  <2>6. DP!View(dcache.stable.line) = DP!View(late.line)
    BY <2>1
  <2> QED
    BY <1>1, <1>2, <1>4, <2>1, <2>4, <2>5, <2>6
<1> QED
  BY <1>3, <1>4

(* Whenever the core is not stalled, the fetch and the access of data that *)
(* it waits for are answered as the memory answers them, errors included.  *)
THEOREM AnswersMemory == Spec => []Answers
<1>1. ASSUME Inv, ~stall, fetch.valid PROVE Insn = M!Answer(fetch)
  <2>1. /\ fetch \in Fetches /\ icache.stable = fetch /\ IP!Clean
        /\ icache.miss \/ IP!cache_hit(fetch)
    BY <1>1 DEF Inv, FetchInv
  <2>2. /\ fetch \in DP!Request /\ ~fetch.write /\ fetch.line \in CodeLines
        /\ fetch.line \in Lines /\ fetch.word \in Words
    BY <2>1, RequestTypes DEF DP!Request, DP!Words, Words
  <2>3. IP!Parameters /\ IP!CInv /\ ~IP!stall
    BY <1>1, Kinds, ICacheIs DEF Inv, stall
  <2>4. icache.miss \/ IP!cache_hit(icache.stable)
    BY <2>1
  <2>5. /\ IP!fault <=> icache.stable.line \in faulty
        /\ ~IP!fault => IP!rdata = IP!View(icache.stable.line)[icache.stable.word]
    BY <1>1, <2>1, <2>2, <2>3, <2>4, IP!Answered
  <2>6. IP!View(icache.stable.line) = ram[fetch.line]
    <3>1. IP!Index(icache.stable.line) \in 0 .. COUNT - 1
      BY <2>1, <2>2, <2>3, IP!IndexIn
    <3> QED
      BY <2>1, <2>3, <3>1 DEF IP!View, IP!CInv, IP!Placed, IP!Clean
  <2>7. Memory[fetch.line][fetch.word] = ram[fetch.line][fetch.word]
    <3>1. ~Overlaid(fetch.line, fetch.word)
      <4>1. late.valid => late.line \in DataLines \cup IoLines
        BY <1>1, RequestTypes DEF Inv, LateInv
      <4> QED
        BY <2>2, <4>1, Kinds DEF Overlaid
    <3>2. DP!View(fetch.line) = ram[fetch.line]
      BY <1>1, <2>2, Kinds, Elsewhere DEF Inv
    <3> QED
      BY <2>2, <3>1, <3>2, MemoryIs
  <2>8. I!fault = IP!fault /\ I!rdata = IP!rdata
    BY ICacheIs
  <2> DEFINE fails == I!fault
             broken == fetch.line \in faulty
  <2>9. fails = broken
    <3>1. icache.fault \in BOOLEAN
      BY <2>3, IP!CacheTypes DEF IP!CInv
    <3>2. fails \in BOOLEAN /\ broken \in BOOLEAN
      BY <3>1 DEF I!fault
    <3>3. fails <=> broken
      BY <2>1, <2>5, <2>8
    <3> HIDE DEF fails, broken
    <3> QED
      BY <3>2, <3>3
  <2>10. /\ Insn = [fault |-> fails, data |-> IF fails THEN None ELSE I!rdata]
         /\ M!Answer(fetch) = [fault |-> broken,
               data |-> IF fetch.write \/ broken THEN None
                        ELSE Memory[fetch.line][fetch.word]]
    BY DEF Insn, M!Answer
  <2>11. ~fails => I!rdata = Memory[fetch.line][fetch.word]
    BY <2>1, <2>5, <2>6, <2>7, <2>8
  <2> HIDE DEF fails, broken
  <2> QED
    BY <2>2, <2>9, <2>10, <2>11
<1>2. ASSUME Inv, ~stall, late.valid PROVE DataAnswer = M!Answer(late)
  <2> DEFINE fails == IF last_dmem_io THEN io.fault ELSE D!fault
             broken == late.line \in faulty
             data == IF last_dmem_io THEN io.rdata ELSE D!rdata
  <2>1. /\ DataAnswer = [fault |-> fails, data |-> IF fails \/ late.write THEN None ELSE data]
        /\ M!Answer(late) = [fault |-> broken,
                             data |-> IF late.write \/ broken THEN None
                                      ELSE Memory[late.line][late.word]]
    BY DEF DataAnswer, M!Answer
  <2>2. fails = broken
    <3>1. dcache.fault \in BOOLEAN /\ io.fault \in BOOLEAN
      BY <1>2, DP!CacheTypes DEF Inv, DP!CInv, TypeOK, Io!TypeOK
    <3>2. fails \in BOOLEAN /\ broken \in BOOLEAN
      BY <3>1 DEF D!fault
    <3>3. fails <=> broken
      BY <1>2, TakesData
    <3> HIDE DEF fails, broken
    <3> QED
      BY <3>2, <3>3
  <2>3. ~late.write /\ ~broken => data = Memory[late.line][late.word]
    <3> SUFFICES ASSUME ~late.write, ~broken PROVE data = Memory[late.line][late.word]
      OBVIOUS
    <3>1. late.line \in Lines /\ late.word \in Words /\ ~Overlaid(late.line, late.word)
      BY <1>2, TakesData DEF Overlaid
    <3>2. Memory[late.line][late.word] = DP!View(late.line)[late.word]
      BY <3>1, MemoryIs
    <3>3. CASE late.line \in IoLines
      <4>1. DP!View(late.line) = ram[late.line]
        BY <1>2, <3>1, <3>3, Kinds, Elsewhere DEF Inv
      <4> QED
        BY <1>2, <3>2, <3>3, <4>1, TakesData
    <3>4. CASE late.line \notin IoLines
      BY <1>2, <3>2, <3>4, TakesData
    <3> QED
      BY <3>3, <3>4
  <2> HIDE DEF fails, broken, data
  <2> QED
    BY <2>1, <2>2, <2>3
<1>3. IInv => Answers
  BY <1>1, <1>2 DEF IInv, Answers, Init, NoRequest
<1> QED
  BY <1>3, Inductive, PTL

(* What is stored appears in the view, and nothing else changes it.        *)
LEMMA NextData ==
  ASSUME Inv, reset = FALSE, NEW x, Step(x), NEW l \in Lines, NEW w \in Words, ~Overlaid(l, w)'
  PROVE  DP!View(l)'[w] = IF Overlaid(l, w) THEN late.data ELSE DP!View(l)[w]
<1>1. /\ Inv' /\ DP!CInv /\ faulty' = faulty
      /\ DP!CInv' /\ LateInv'
  BY StepInv, Parts DEF Inv
<1>2. /\ x.stalled => late' = late
      /\ ~x.stalled => late' = x.d
  BY CoreStep
<1>3. CASE l \in DataLines
  <2>1. PICK s, e : DP!Cycle(x.stalled, x.c, x.dmem_res, x.dmem_res_w, s, e)
    BY CacheCycles
  <2>2. /\ DP!Parameters /\ s = dcache'.stable /\ s \in DP!Request
        /\ DP!View(l)' = IF s.valid /\ s.write /\ e.valid /\ l = s.line
                           THEN [DP!View(l) EXCEPT ![s.word] = s.data] ELSE DP!View(l)
    BY <1>1, <1>3, <2>1, Kinds, DP!NextEntries, DP!NextView, DP!Requested
  <2>3. e.valid => s.line \notin faulty
    BY <1>1, <2>1, <2>2, DP!Entered DEF DP!Becomes
  <2>4. s.valid /\ s.write => late' = s
    BY <1>1, <2>2 DEF LateInv
  <2>5. ~(s.valid /\ s.write /\ e.valid /\ l = s.line /\ w = s.word)
    BY <1>1, <2>3, <2>4 DEF Overlaid
  <2>6. DP!View(l)'[w] = DP!View(l)[w]
    BY <2>2, <2>5
  <2>7. ASSUME Overlaid(l, w) PROVE DP!View(l)[w] = late.data
    <3>1. ~x.stalled
      BY <1>1, <1>2, <2>7, Asks DEF Overlaid
    <3>2. ~stall
      BY <3>1, Asks
    <3> QED
      BY <2>7, <3>2, TakesData DEF Overlaid
  <2> QED
    BY <2>6, <2>7
<1>4. CASE l \notin DataLines
  <2>1. DP!View(l) = ram[l] /\ DP!View(l)' = ram'[l]
    BY <1>1, <1>4, Elsewhere
  <2>2. CASE x.res_uw.valid
    <3>1. /\ io.req_uw /\ (io.stable.line \in faulty => ram' = ram)
          /\ io.stable.line \notin faulty =>
               ram' = [ram EXCEPT ![io.stable.line][io.stable.word] = io.stable.data]
      BY <2>2, WriteGives
    <3>2. late.valid /\ late.write /\ io.stable = late /\ x.stalled
      BY <3>1, Asks DEF Inv, IoInv, stall, Io!stall
    <3>3. ~Overlaid(l, w) /\ ~(late.line = l /\ late.word = w /\ l \notin faulty)
      BY <1>1, <1>2, <3>2 DEF Overlaid
    <3>4. ram'[l][w] = ram[l][w]
      <4>1. ram \in [Lines -> [Words -> Data]]
        BY DEF Inv, Ram
      <4> QED
        BY <3>1, <3>2, <3>3, <4>1
    <3> QED
      BY <2>1, <3>3, <3>4
  <2>3. CASE ~x.res_uw.valid
    <3>1. ram'[l] = ram[l]
      BY <1>4, <2>3, RamStep
    <3>2. ASSUME Overlaid(l, w) PROVE ram[l][w] = late.data
      <4>1. ~x.stalled
        BY <1>1, <1>2, <3>2, Asks DEF Overlaid
      <4>2. ~stall
        BY <4>1, Asks
      <4> QED
        BY <2>1, <3>2, <4>2, TakesData DEF Overlaid
    <3> QED
      BY <2>1, <3>1, <3>2
  <2> QED
    BY <2>2, <2>3
<1> QED
  BY <1>3, <1>4

(* A function of two arguments, and one changed at a place.                *)
LEMMA Rebuilt ==
  ASSUME NEW S, NEW T, NEW V, NEW m \in [S -> [T -> V]]
  PROVE  m = [l \in S |-> [w \in T |-> m[l][w]]]
<1>1. \A l \in S : m[l] = [w \in T |-> m[l][w]]
  OBVIOUS
<1> QED
  BY <1>1

LEMMA Updated ==
  ASSUME NEW S, NEW T, NEW V, NEW m \in [S -> [T -> V]], NEW a \in S, NEW b \in T, NEW v
  PROVE  [m EXCEPT ![a][b] = v] =
           [l \in S |-> [w \in T |-> IF l = a /\ w = b THEN v ELSE m[l][w]]]
<1>1. [m EXCEPT ![a][b] = v] = [l \in S |-> IF l = a THEN [m[a] EXCEPT ![b] = v] ELSE m[l]]
  OBVIOUS
<1>2. [m[a] EXCEPT ![b] = v] = [w \in T |-> IF w = b THEN v ELSE m[a][w]]
  OBVIOUS
<1>3. \A l \in S : m[l] = [w \in T |-> m[l][w]]
  OBVIOUS
<1>4. \A l \in S : (IF l = a THEN [m[a] EXCEPT ![b] = v] ELSE m[l]) =
                    [w \in T |-> IF l = a /\ w = b THEN v ELSE m[l][w]]
  BY <1>2, <1>3
<1> QED
  BY <1>1, <1>4

(* A cycle of the caches is a cycle of the memory.                         *)
LEMMA MemoryStep ==
  ASSUME IInv, Next
  PROVE  M!Cycle
<1>0. PICK x : Step(x)
  BY NextIsStep
<1> DEFINE Word(l, w) == IF Overlaid(l, w)' THEN late'.data ELSE Memory[l][w]
<1>1. faulty' = faulty
  BY <1>0 DEF Step
<1>2. ASSUME NEW l \in Lines, NEW w \in Words
      PROVE  ~Overlaid(l, w)' =>
               DP!View(l)'[w] = IF Overlaid(l, w) THEN late.data ELSE DP!View(l)[w]
  <2>1. CASE reset = TRUE /\ Init
    <3>1. late = NoRequest /\ late' = NoRequest /\ ram' = ram
      BY <1>0, <2>1, ResetStep DEF Init
    <3>2. DP!View(l) = ram[l]
      <4>1. DP!Index(l) \in 0 .. COUNT - 1
        BY Kinds, DP!IndexIn
      <4> QED
        BY <2>1, <4>1 DEF Init, D!Init, D!Empty, D!NoWrite, DP!View
    <3>3. DP!View(l)' = ram'[l]
      <4>1. DP!Index(l) \in 0 .. COUNT - 1 /\ DP!Index(l)' = DP!Index(l)
        BY Kinds, DP!IndexIn DEF DP!Index
      <4>2. /\ ~dcache'.req_w.valid
            /\ \A i \in 0 .. COUNT - 1 : ~dcache'.mem[i].valid
        BY <1>0, <2>1, ResetStep
      <4> QED
        BY <4>1, <4>2 DEF DP!View
    <3> QED
      BY <3>1, <3>2, <3>3 DEF Overlaid, NoRequest
  <2>2. CASE reset = FALSE /\ Inv
    BY <1>0, <2>2, NextData
  <2> QED
    BY <2>1, <2>2 DEF IInv
<1>3. Memory' = [l \in Lines |-> [w \in Words |-> Word(l, w)]]
  <2>1. \A l \in Lines, w \in Words :
          (IF Overlaid(l, w)' THEN late'.data ELSE DP!View(l)'[w]) = Word(l, w)
    BY <1>2, MemoryIs
  <2> HIDE DEF Word
  <2> QED
    BY <2>1, MemoryIs
<1>4. PICK m : m = Memory
  OBVIOUS
<1>6. PICK V : m \in [Lines -> [Words -> V]]
  <2> DEFINE U == {m[l][w] : l \in Lines, w \in Words}
             Read(l, w) ==
               IF late.valid /\ late.write /\ late.line = l /\ late.word = w /\ l \notin faulty
                 THEN late.data
               ELSE IF Cached(l) THEN dcache.mem[D!Index(l)].data[w]
               ELSE IF dcache.req_w.valid /\ dcache.req_w.line = l THEN dcache.req_w.data[w]
               ELSE ram[l][w]
  <2>1. \A l \in Lines, w \in Words : m[l][w] \in U
    OBVIOUS
  <2>2. m = [l \in Lines |-> [w \in Words |-> Read(l, w)]]
    BY <1>4, Zenon DEF Memory
  <2> HIDE DEF U, Read
  <2>3. \A l \in Lines : m[l] = [w \in Words |-> Read(l, w)] /\ m[l] \in [Words -> U]
    BY <2>1, <2>2
  <2>4. m = [l \in Lines |-> m[l]]
    BY <2>2, <2>3
  <2> QED
    BY <2>3, <2>4
<1>5. M!After(late') = [l \in Lines |-> [w \in Words |-> Word(l, w)]]
  <2>1. late' \in DP!Request
    <3>1. CASE reset = TRUE /\ Init
      BY <1>0, <3>1, ResetStep, RequestTypes
    <3>2. CASE reset = FALSE /\ Inv
      <4>1. late' \in Accesses
        BY <1>0, <3>2, Asks, CoreStep DEF Inv, LateInv
      <4> QED
        BY <4>1, RequestTypes
    <3> QED
      BY <3>1, <3>2 DEF IInv
  <2>2. late'.line \in Lines /\ late'.word \in Words
    BY <2>1 DEF DP!Request, DP!Words, Words
  <2>3. CASE late'.valid /\ late'.write /\ late'.line \notin faulty
    <3>1. M!After(late') = [Memory EXCEPT ![late'.line][late'.word] = late'.data]
      BY <2>3 DEF M!After
    <3>2. \A l \in Lines, w \in Words :
            Word(l, w) = IF l = late'.line /\ w = late'.word THEN late'.data ELSE m[l][w]
      BY <1>1, <1>4, <2>3 DEF Overlaid
    <3>3. [m EXCEPT ![late'.line][late'.word] = late'.data] =
            [l \in Lines |-> [w \in Words |->
               IF l = late'.line /\ w = late'.word THEN late'.data ELSE m[l][w]]]
      <4> PICK a \in Lines, b \in Words : a = late'.line /\ b = late'.word
        BY <2>2
      <4> PICK v : v = late'.data
        OBVIOUS
      <4>1. [m EXCEPT ![a][b] = v] =
              [l \in Lines |-> [w \in Words |-> IF l = a /\ w = b THEN v ELSE m[l][w]]]
        BY <1>6, Updated, ZenonT(60)
      <4> QED
        BY <4>1
    <3> HIDE DEF Word
    <3> QED
      BY <1>4, <3>1, <3>2, <3>3
  <2>4. CASE ~(late'.valid /\ late'.write /\ late'.line \notin faulty)
    <3>1. M!After(late') = m
      BY <1>4, <2>4 DEF M!After
    <3>2. \A l \in Lines, w \in Words : Word(l, w) = m[l][w]
      BY <1>1, <1>4, <2>4 DEF Overlaid
    <3>3. m = [l \in Lines |-> [w \in Words |-> m[l][w]]]
      BY <1>6, Rebuilt
    <3> HIDE DEF Word
    <3> QED
      BY <3>1, <3>2, <3>3
  <2> QED
    BY <2>3, <2>4
<1> QED
  BY <1>1, <1>3, <1>5 DEF M!Cycle

(* The caches, the bypass and the AXI manager implement one memory: every  *)
(* cycle of theirs does to the memory the core sees what the access the    *)
(* core made says, and nothing else.                                       *)
THEOREM ImplementsMemory == Spec => SeesMemory
<1>1. Init => M!Init
  BY DEF Init, NoRequest, M!Init
<1>2. IInv /\ [Next]_vars => [M!Cycle]_(M!vars)
  <2>1. ASSUME UNCHANGED vars PROVE UNCHANGED M!vars
    <3>1. /\ dcache' = dcache /\ fetch' = fetch /\ late' = late
          /\ ram' = ram /\ faulty' = faulty
      BY <2>1 DEF vars, coreVars, busVars
    <3>2. Memory' = Memory
      BY <3>1 DEF Memory, Cached, D!Index, Words
    <3> QED
      BY <3>1, <3>2 DEF M!vars
  <2> QED
    BY <2>1, MemoryStep
<1> QED
  BY <1>1, <1>2, Inductive, PTL DEF Spec, SeesMemory, M!Spec
=============================================================================
