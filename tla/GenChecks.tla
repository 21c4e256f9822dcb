------------------------------ MODULE GenChecks ------------------------------
(***************************************************************************)
(* checks/genchecks.py: from the configuration of a core to the directory  *)
(* of checks, one .sby file each, and the makefile that runs them.         *)
(*                                                                         *)
(* The script is a sequence of loops over groups, instructions, CSRs and   *)
(* channels; each pass calls check_insn or check_cons, which drops the     *)
(* check, fails or writes a file.  The state that outlives a call is in    *)
(* csrs, to which a call adds, and in hargs, the keywords that are         *)
(* substituted in the verbatim sections.  A regular expression is a        *)
(* literal, <<l>>, or two with .* between them, <<head, tail>>.  A file is *)
(* the record of what the defines, options and assumptions in it say; the  *)
(* lines that are the same in every file are left out.                     *)
(***************************************************************************)
EXTENDS IsaDatabase, FiniteSetsExt

CONSTANTS
  Configs,   \* the configurations: checks.cfg, section by section
  CsrOrder   \* the names of CSRs in alphabetical order, for sorted(csrs)

VARIABLES
  cfg,       \* the configuration read
  todo,      \* loops to come: <<"insn" or "cons", group>>
  jobs,      \* calls to come in the current pass of the loop
  csrs,      \* names of the CSRs
  hargs,     \* [keyword -> value], those assigned so far
  files,     \* [name -> file], the instruction and consistency checks
  makefile,  \* [name -> rank in the order of the makefile]
  status     \* "running", "done" or "aborted"

genVars == <<cfg, todo, jobs, csrs, hargs, files, makefile, status>>

None == "None"
NoCh == -1

StartsWith(s, p) == Len(p) <= Len(s) /\ SubSeq(s, 1, Len(p)) = p
EndsWith(s, p)   == Len(p) <= Len(s) /\ SubSeq(s, Len(s) - Len(p) + 1, Len(s)) = p

re_fullmatch(pat, s) ==
  IF Len(pat) = 1 THEN s = pat[1]
  ELSE Len(pat[1]) + Len(pat[2]) <= Len(s) /\ StartsWith(s, pat[1]) /\ EndsWith(s, pat[2])
re_match(pat, s) == \E n \in 0 .. Len(s) : re_fullmatch(pat, SubSeq(s, 1, n))
-----------------------------------------------------------------------------
(* The isa string: width, base and the single-letter extensions, which end *)
(* where a multi-letter one begins.  Extensions of several letters are     *)
(* never asked for.                                                        *)
Single(isa) ==
  {k \in 6 .. Len(isa) : \A q \in 6 .. k : SubSeq(isa, q, q) \notin {"_", "Z", "X"}}
isa_mods(isa) ==
  {SubSeq(isa, 3, 4), SubSeq(isa, 5, 5)} \cup {SubSeq(isa, k, k) : k \in Single(isa)}

compr(isa) == "c" \in isa_mods(isa)

(* A test of a CSR: test[=value][_mask=mask]; a mask is a set of bits.     *)
NoTest      == [test |-> None, value |-> None, mask |-> {}]
Test(test)  == [NoTest EXCEPT !.test = test]
zero(mask)  == [Test("zero") EXCEPT !.mask = mask]

(* csr_spec 1.12, with the counters 3 to 5 of 3 to 31 (bound).             *)
Counters == {"mhpmcounter3", "mhpmcounter4", "mhpmcounter5"}
Events   == {"mhpmevent3", "mhpmevent4", "mhpmevent5"}

spec_csrs(xlen) ==
  [n \in {"mvendorid", "marchid", "mimpid", "mhartid", "mconfigptr"} |-> <<Test("const")>>]
    @@ [mstatus |-> <<zero({0, 2, 4} \cup 23 .. 30 \cup IF xlen = 64 THEN {31} \cup 38 .. 62 ELSE {})>>,
        misa |-> <<zero({6, 10, 11, 14, 17, 19, 22, 24, 25} \cup 26 .. xlen - 3)>>,
        mscratch |-> <<Test("any")>>, mcycle |-> <<Test("inc")>>, minstret |-> <<Test("inc")>>]
    @@ [n \in {"mie", "mtvec", "mepc", "mcause", "mtval", "mip"} \cup Counters \cup Events |-> <<>>]

restricted_csrs(xlen) ==
  [medeleg |-> <<"s", "302", <<>> >>, mideleg |-> <<"s", "303", <<>> >>,
   mcounteren |-> <<"u", "306", <<>> >>,
   mstatush |-> <<"32", "310", <<zero((0 .. xlen - 1) \ {4, 5})>> >>,
   mtinst |-> <<"h", "34A", <<>> >>, mtval2 |-> <<"h", "34B", <<>> >>,
   menvcfg |-> <<"u", "30A", <<>> >>, menvcfgh |-> <<"u", "31A", <<>> >>]

(* What the CSR sections of a configuration and its csr_spec come to: the  *)
(* names with their tests, a line without tests leaving those there are,   *)
(* and the addresses that must be illegal.                                 *)
SpecCsrs(c) ==
  LET xlen == XlenOf(c.isa)
      r    == restricted_csrs(xlen)
      has  == {n \in DOMAIN r : r[n][1] \in isa_mods(c.isa)}
  IN  IF c.csr_spec # "1.12" THEN [csrs |-> <<>>, illegal |-> {}]
      ELSE [csrs |-> [n \in has |-> r[n][3]] @@ spec_csrs(xlen),
            illegal |-> {<<r[n][2], "m", "rw">> : n \in DOMAIN r \ has}]

csr_tests(c) ==
  FoldLeft(LAMBDA t, line :
             IF line[2] = <<>> /\ line[1] \in DOMAIN t THEN t ELSE (line[1] :> line[2]) @@ t,
           SpecCsrs(c).csrs, c.csrs \o c.custom_csrs)

illegal_csrs(c) == SpecCsrs(c).illegal \cup c.illegal_csrs

(* The lines of a file or a set, in some order: it makes no difference.    *)
lines(names) == FoldSet(LAMBDA n, s : Append(s, n), <<>>, names)
sorted(names) == SelectSeq(CsrOrder, LAMBDA n : n \in names)
-----------------------------------------------------------------------------
(* The loops.  A call of check_insn has a kind (insn, csrw or csr_ill), a  *)
(* call of check_cons the check, and which numbers of its depth line are   *)
(* its start, trigger and depth, 0 for none.                               *)
Pick(start, trig, depth) == [start |-> start, trig |-> trig, depth |-> depth]

InsnCall(kind, grp, item, ch, modes) ==
  [call |-> "check_insn", kind |-> kind, grp |-> grp, item |-> item, ch |-> ch, modes |-> modes]
ConsCall(grp, chk, ch, pick, bus, csr, test) ==
  [call |-> "check_cons", grp |-> grp, check |-> chk, ch |-> ch, pick |-> pick, bus |-> bus,
   csr |-> csr, test |-> test]

channels(items, job(_, _)) ==
  FlattenSeq([k \in DOMAIN items |-> [c \in 1 .. cfg.nret |-> job(items[k], c - 1)]])

(* isa_<isa>.txt: the models of an ISA, none when it is not there.         *)
Listed(db, isa) == IF isa \in DOMAIN db THEN db[isa] ELSE {}

InsnLoop(grp) ==
  LET insn(i, c) == InsnCall("insn", grp, i, c, None)
      csrw(n, c) == InsnCall("csrw", grp, n, c, None)
      ill(i, c)  == InsnCall("csr_ill", grp, i[1], c, <<i[2], i[3]>>)
  IN  channels(lines(Listed(isa_database, cfg.isa)), insn)
        \o channels(sorted(csrs), csrw)
        \o channels(lines(illegal_csrs(cfg)), ill)

ChannelChecks ==
  << <<"reg", Pick(1, 0, 2)>>, <<"pc_fwd", Pick(1, 0, 2)>>, <<"pc_bwd", Pick(1, 0, 2)>>,
     <<"liveness", Pick(1, 2, 3)>>, <<"unique", Pick(1, 2, 3)>>, <<"causal", Pick(1, 0, 2)>>,
     <<"causal_mem", Pick(1, 0, 2)>>, <<"causal_io", Pick(1, 0, 2)>>,
     <<"ill", Pick(0, 0, 1)>>, <<"fault", Pick(0, 0, 1)>> >>
BusChecks ==
  <<"bus_imem", "bus_imem_fault", "bus_dmem", "bus_dmem_fault", "bus_dmem_io_read",
    "bus_dmem_io_read_fault", "bus_dmem_io_write", "bus_dmem_io_write_fault", "bus_dmem_io_order">>

(* The tests of a CSR; the name alone, without a test, when it has none.   *)
TestsOf(name) ==
  LET t == csr_tests(cfg)
  IN  IF name \in DOMAIN t /\ t[name] # <<>> THEN t[name] ELSE <<NoTest>>

ConsLoop(grp) ==
  LET plain(i, c) == ConsCall(grp, i[1], c, i[2], FALSE, FALSE, NoTest)
      bus(i, c)   == ConsCall(grp, i, c, Pick(1, 0, 2), TRUE, FALSE, NoTest)
      csr(n, c)   == [k \in DOMAIN TestsOf(n) |->
                        ConsCall(grp, n, c, Pick(1, 0, 2), FALSE, TRUE, TestsOf(n)[k])]
      once(name)  == <<ConsCall(grp, name, NoCh, Pick(1, 0, 2), FALSE, FALSE, NoTest)>>
  IN  FlattenSeq([c \in 1 .. cfg.nret |->
                    [k \in DOMAIN ChannelChecks |-> plain(ChannelChecks[k], c - 1)]
                      \o [k \in DOMAIN BusChecks |-> bus(BusChecks[k], c - 1)]])
        \o once("hang") \o once("cover")
        \o FlattenSeq(channels(sorted(csrs), csr))

NextPass ==
  /\ status = "running" /\ jobs = <<>> /\ todo # <<>>
  /\ jobs' = IF Head(todo)[1] = "insn" THEN InsnLoop(Head(todo)[2]) ELSE ConsLoop(Head(todo)[2])
  /\ todo' = Tail(todo)
  /\ UNCHANGED <<cfg, csrs, hargs, files, makefile, status>>
-----------------------------------------------------------------------------
(* get_depth_cfg: the last line that matches one of the names; 0 for none. *)
(* Mutant of depth_line: the first line that matches.                      *)
depth_lineFirst(names) ==
  LET hits == {k \in DOMAIN cfg.depth : \E n \in names : re_fullmatch(cfg.depth[k][1], n)}
  IN  IF hits = {} THEN 0 ELSE Min(hits)

depth_line(names) ==
  Max({0} \cup {k \in DOMAIN cfg.depth : \E n \in names : re_fullmatch(cfg.depth[k][1], n)})

(* Mutant of test_disabled: any line that matches may disable the check.   *)
test_disabledAny(name) ==
  \E l \in Range(cfg.filter_checks) : re_match(l[2], name) /\ l[1] = "-"

(* The first line of [filter-checks] that matches decides.                 *)
test_disabled(name) ==
  LET hits == {k \in DOMAIN cfg.filter_checks : re_match(cfg.filter_checks[k][2], name)}
  IN  hits # {} /\ cfg.filter_checks[Min(hits)][1] = "-"

(* The lines of [assume] a check gets: the first pattern that matches, or  *)
(* else the last one, decides, and "!" says that a match includes the line.*)
Enabled(pats, name) ==
  LET hits == {k \in DOMAIN pats : re_match(pats[k][2], name)}
  IN  IF hits # {} THEN pats[Min(hits)][1] = "!"
                   ELSE pats = <<>> \/ pats[Len(pats)][1] # "!"
assume_stmts(name) == {a[2] : a \in {b \in cfg.assume : Enabled(b[1], name)}}

Pf(grp) == IF grp = None THEN "" ELSE grp \o "_"

(* Mutant of Ch: the channel is left out of the name.                      *)
ChNone(ch) == ""

Ch(ch) == IF ch = NoCh THEN "" ELSE "_ch" \o ToString(ch)

(* What both kinds of file have.                                           *)
File(name, h, checker, item, start, trig, cycle, mode) ==
  [checker |-> checker, item |-> item, start |-> start, trig |-> trig, check_cycle |-> cycle,
   depth |-> cycle + 1, skip |-> cycle, mode |-> mode, ch |-> NoCh, csrs |-> csrs,
   custom |-> {c[1] : c \in Range(cfg.custom_csrs)}, csrc |-> <<>>, assume |-> assume_stmts(name),
   keywords |-> [k \in cfg.uses \cap DOMAIN h |-> h[k]],
   defines |-> IF cfg.mode = "prove" THEN {"UNBOUNDED"} ELSE {}]

(* The file is written, or a keyword it uses has no value yet and the      *)
(* script ends with a KeyError.                                            *)
Write(name, h, file) ==
  /\ hargs' = h
  /\ \/ /\ cfg.uses \subseteq DOMAIN h
        /\ files' = (name :> file) @@ files
        /\ UNCHANGED status
     \/ /\ ~(cfg.uses \subseteq DOMAIN h)
        /\ status' = "aborted"
        /\ UNCHANGED files

Drop  == UNCHANGED <<files, status>>
Abort == status' = "aborted" /\ UNCHANGED files

InsnFile(j, name, h, cycle) ==
  [File(name, h, CASE j.kind = "insn" -> "insn" [] j.kind = "csrw" -> "csrw" [] OTHER -> "csr_ill",
        j.item, 1, 0, cycle, cfg.mode)
     EXCEPT !.ch = j.ch,
            !.defines = @ \cup (IF j.kind = "csrw" /\ j.item \in {"mcycle", "minstret"} THEN {"CSRWH"} ELSE {})
                          \cup (IF cfg.blackbox THEN {"BLACKBOX_REGS"} ELSE {})
                          \cup (IF compr(cfg.isa) THEN {"COMPRESSED"} ELSE {}),
            !.csrc = IF j.kind = "csr_ill" THEN [modes |-> j.modes] ELSE <<>>]

check_insn ==
  /\ status = "running" /\ jobs # <<>> /\ Head(jobs).call = "check_insn"
  /\ LET j    == Head(jobs)
         stem == Pf(j.grp) \o j.kind
         name == stem \o "_" \o j.item \o Ch(j.ch)
         line == depth_line({stem, stem \o Ch(j.ch), stem \o "_" \o j.item, name})
         h    == [insn |-> j.item, channel |-> j.ch] @@ hargs
     IN  \/ line = 0 /\ Drop /\ UNCHANGED hargs
         \/ line # 0 /\ Len(cfg.depth[line][2]) # 1 /\ Abort /\ UNCHANGED hargs
         \/ line # 0 /\ Len(cfg.depth[line][2]) = 1 /\ test_disabled(name) /\ Drop /\ UNCHANGED hargs
         \/ /\ line # 0 /\ Len(cfg.depth[line][2]) = 1 /\ ~test_disabled(name)
            /\ Write(name, h, InsnFile(j, name, h, cfg.depth[line][2][1]))
  /\ jobs' = Tail(jobs)
  /\ UNCHANGED <<cfg, todo, csrs, makefile>>
-----------------------------------------------------------------------------
(* The name of the checker of a call of check_cons, which is the keyword   *)
(* check, and of the counter an event counts in.                           *)
check_name(j) ==
  IF ~j.csr THEN j.check ELSE IF j.test.test = None THEN "csrc" ELSE "csrc_" \o j.test.test
hpmcounter(name) ==
  IF StartsWith(name, "mhpmevent") THEN "mhpmcounter" \o SubSeq(name, 10, Len(name)) ELSE name

(* Mutant of csrs_after: the counter of an event is not added.             *)
csrs_afterNone(j) == csrs

csrs_after(j) ==
  IF j.csr /\ j.test.test = "hpm" THEN csrs \cup {hpmcounter(j.check)} ELSE csrs

(* Mutant of cons_hargs: the channel is not set for the tests of CSRs.     *)
cons_hargsNotCsr(j) ==
  (IF j.ch = NoCh \/ j.csr THEN <<>> ELSE [channel |-> j.ch]) @@ [check |-> check_name(j)] @@ hargs

cons_hargs(j) ==
  (IF j.ch = NoCh THEN <<>> ELSE [channel |-> j.ch]) @@ [check |-> check_name(j)] @@ hargs

csr_defs(j) ==
  [name |-> j.check, mask |-> j.test.mask,
   constval |-> IF j.test.test = "const" /\ j.test.value = None THEN "rdata_shadow"
                ELSE IF j.test.test = "const" THEN j.test.value ELSE None,
   hpmevent |-> IF j.test.test = "hpm" THEN j.test.value ELSE None,
   hpmcounter |-> IF j.test.test = "hpm" THEN hpmcounter(j.check) ELSE None]

ConsFile(j, name, h, start, trig, cycle) ==
  LET chk == check_name(j)
  IN  [File(name, h, chk, j.check, start, trig, cycle,
            IF name = "cover" \/ chk = "csrc_hpm" THEN "cover" ELSE cfg.mode)
         EXCEPT !.ch = j.ch, !.csrs = csrs_after(j),
                !.csrc = IF j.csr THEN csr_defs(j) ELSE <<>>,
                !.defines = @ \cup (IF cfg.blackbox /\ chk # "liveness" THEN {"BLACKBOX_ALU"} ELSE {})
                              \cup (IF cfg.blackbox /\ chk # "reg" THEN {"BLACKBOX_REGS"} ELSE {})
                              \cup (IF j.bus THEN {"BUS"} ELSE {})
                              \cup (IF chk \in {"liveness", "hang"} THEN {"FAIRNESS"} ELSE {})]

check_cons ==
  /\ status = "running" /\ jobs # <<>> /\ Head(jobs).call = "check_cons"
  /\ csrs' = csrs_after(Head(jobs))
  /\ LET j    == Head(jobs)
         all  == Pf(j.grp) \o check_name(j)
         stem == IF j.csr THEN all \o "_" \o j.check ELSE all
         name == stem \o Ch(j.ch)
         line == depth_line({all, all \o Ch(j.ch), stem, name})
         n    == IF line = 0 THEN <<>> ELSE cfg.depth[line][2]
         few  == \E k \in {j.pick.start, j.pick.trig, j.pick.depth} : k > Len(n)
         at(k, default) == IF k = 0 THEN default ELSE n[k]
         h    == cons_hargs(j)
     IN  \/ line = 0 /\ Drop /\ hargs' = h
         \/ line # 0 /\ few /\ Abort /\ hargs' = h
         \/ line # 0 /\ ~few /\ test_disabled(name) /\ Drop /\ hargs' = h
         \/ /\ line # 0 /\ ~few /\ ~test_disabled(name)
            /\ Write(name, h, ConsFile(j, name, h, at(j.pick.start, 1), at(j.pick.trig, 0), at(j.pick.depth, 0)))
  /\ jobs' = Tail(jobs)
  /\ UNCHANGED <<cfg, todo, makefile>>
-----------------------------------------------------------------------------
(* The order of the makefile: by the first line of [sort] that matches,    *)
(* then the others, the instruction checks without a group last.           *)
checks_key(name) ==
  LET hits == {k \in DOMAIN cfg.sort : re_fullmatch(cfg.sort[k], name)}
  IN  IF hits # {} THEN Min(hits) - 1 ELSE IF StartsWith(name, "insn_") THEN 9999 ELSE 9998

Makefile ==
  /\ status = "running" /\ jobs = <<>> /\ todo = <<>>
  /\ makefile' = [name \in DOMAIN files |-> checks_key(name)]
  /\ status' = "done"
  /\ UNCHANGED <<cfg, todo, jobs, csrs, hargs, files>>

GenInit ==
  /\ cfg \in Configs
  /\ todo = [k \in DOMAIN cfg.groups |-> <<"insn", cfg.groups[k]>>]
             \o [k \in DOMAIN cfg.groups |-> <<"cons", cfg.groups[k]>>]
  /\ csrs = DOMAIN csr_tests(cfg)
  /\ jobs = <<>> /\ files = <<>> /\ makefile = <<>>
  /\ hargs = <<>>
  /\ status = "running"

GenNext == NextPass \/ check_insn \/ check_cons \/ Makefile
-----------------------------------------------------------------------------
(* What the documentation promises of the checks, without the loops: the   *)
(* checks there could be, the names that configure each from the general   *)
(* to the specific, and how many numbers it needs.                         *)
InsnKinds == {"insn", "csrw", "csr_ill"}
Known ==
  LET all(kind, items, chans, needs) ==
        [grp : Range(cfg.groups), kind : {kind}, item : items, ch : chans, needs : {needs}]
      each == 0 .. cfg.nret - 1
  IN  UNION {all("insn", Listed(isa_database, cfg.isa), each, 1), all("csrw", DOMAIN csr_tests(cfg), each, 1),
             all("csr_ill", {i[1] : i \in illegal_csrs(cfg)}, each, 1),
             all("hang", {None}, {NoCh}, 2), all("cover", {None}, {NoCh}, 2)}
        \cup UNION {all(k, {None}, each, 3) : k \in {"liveness", "unique"}}
        \cup UNION {all(k, {None}, each, 1) : k \in {"ill", "fault"}}
        \cup UNION {all(k, {None}, each, 2) :
                      k \in {"reg", "pc_fwd", "pc_bwd", "causal", "causal_mem", "causal_io"} \cup Range(BusChecks)}
        \cup UNION {UNION {all("csrc_" \o t.test, {n}, each, 2) : t \in Range(csr_tests(cfg)[n])} :
                      n \in DOMAIN csr_tests(cfg)}

NamesOf(k) ==
  LET g == IF k.grp = None THEN "" ELSE k.grp \o "_"
      c == IF k.ch = NoCh THEN "" ELSE "_ch" \o ToString(k.ch)
      i == IF k.item = None THEN "" ELSE "_" \o k.item
  IN  <<g \o k.kind, g \o k.kind \o c, g \o k.kind \o i, g \o k.kind \o i \o c>>
FullName(k) == NamesOf(k)[4]

Lines(k)    == {l \in DOMAIN cfg.depth : \E n \in Range(NamesOf(k)) : re_fullmatch(cfg.depth[l][1], n)}
Filters(k)  == {l \in DOMAIN cfg.filter_checks : re_match(cfg.filter_checks[l][2], FullName(k))}
Disabled(k) == \E l \in Filters(k) : cfg.filter_checks[l][1] = "-" /\ \A o \in Filters(k) : l <= o
Wrong(k, numbers) ==
  IF k.kind \in InsnKinds THEN Len(numbers) # k.needs ELSE Len(numbers) < k.needs
Short(k)    == \E l \in Lines(k) : (\A o \in Lines(k) : o <= l) /\ Wrong(k, cfg.depth[l][2])

(* "If a formal check does not have a corresponding depth listed, it will  *)
(* not be generated" (docs/source/procedure.rst:193), and every other one  *)
(* is: the makefile lists exactly the checks that have a depth and are not *)
(* filtered out, each has its file, and a depth line with the wrong number *)
(* of numbers ends the script before there is a makefile.                  *)
Complete ==
  /\ status = "done" =>
       /\ DOMAIN makefile = DOMAIN files
       /\ DOMAIN files = {FullName(k) : k \in {x \in Known : Lines(x) # {} /\ ~Disabled(x)}}
       /\ \A k \in Known : ~Short(k)
  /\ status = "aborted" => makefile = <<>> /\ ((\E k \in Known : Short(k)) \/ cfg.uses # {})

(* "a more specific name will be used over a less specific name"           *)
(* (docs/source/procedure.rst:188), for a configuration that lists the     *)
(* general names before the specific ones: whatever patterns and groups    *)
(* there are, a check runs at the depth of its most specific line.         *)
Specific(k, l) == Max({n \in 1 .. 4 : re_fullmatch(cfg.depth[l][1], NamesOf(k)[n])})
GeneralFirst(k) == \A l, o \in Lines(k) : l < o => Specific(k, l) <= Specific(k, o)

DepthMeant ==
  status = "done" =>
    \A k \in Known :
      FullName(k) \in DOMAIN files /\ GeneralFirst(k) =>
        \E l \in Lines(k) :
          /\ \A o \in Lines(k) : Specific(k, o) <= Specific(k, l)
          /\ files[FullName(k)].check_cycle = cfg.depth[l][2][k.needs]
          /\ k.needs > 1 => files[FullName(k)].start = cfg.depth[l][2][1]
          /\ k.needs = 3 => files[FullName(k)].trig = cfg.depth[l][2][2]

(* Two calls never write the same file, so no check replaces another, as   *)
(* long as no CSR is given two tests of one kind and no illegal address is *)
(* listed twice.                                                           *)
Distinct ==
  /\ \A n \in DOMAIN csr_tests(cfg) :
       LET t == csr_tests(cfg)[n] IN \A a, b \in DOMAIN t : a # b => t[a].test # t[b].test
  /\ \A a, b \in illegal_csrs(cfg) : a[1] = b[1] => a = b

NeverOverwritten ==
  [][Distinct => \A n \in DOMAIN files : n \in DOMAIN files' /\ files'[n] = files[n]]_genVars

(* The keywords of a verbatim section say what the check is about: the     *)
(* channel in every check that has one, the checker in the consistency     *)
(* checks and the instruction in the others, never those of an earlier     *)
(* check, although hargs keeps them from call to call.                     *)
KeywordsCurrent ==
  status = "done" =>
    \A n \in DOMAIN files :
      LET f == files[n]
      IN  /\ "channel" \in cfg.uses /\ f.ch # NoCh => f.keywords["channel"] = f.ch
          /\ "check" \in cfg.uses /\ f.checker \notin InsnKinds => f.keywords["check"] = f.checker
          /\ "insn" \in cfg.uses /\ f.checker \in InsnKinds => f.keywords["insn"] = f.item

(* A check of a CSR has the CSR's signals, and the check of an event those *)
(* of the counter it counts in, although nobody listed it and other files  *)
(* were written before it was added.  The instruction checks are told that *)
(* a jump may go to half a word exactly when the compressed instructions   *)
(* are in the ISA's model.                                                 *)
CsrsDefined(f) ==
  /\ f.checker = "csrw" \/ StartsWith(f.checker, "csrc") => f.item \in f.csrs
  /\ f.checker = "csrc_hpm" => f.csrc.hpmcounter \in f.csrs /\ f.mode = "cover"
Compressed16(f) ==
  "COMPRESSED" \in f.defines <=> \E m \in Models : m.name \in isa_database[cfg.isa] /\ m.misa = {"C"}

DefinesExact ==
  \A n \in DOMAIN files :
    CsrsDefined(files[n]) /\ (files[n].checker = "insn" => Compressed16(files[n]))
=============================================================================
