---------------------------- MODULE IsaDatabase -----------------------------
(***************************************************************************)
(* Which instruction models each isa_<isa>.v instantiates: the database    *)
(* that insns/generate.py fills while it writes the models, the            *)
(* propagation from ISA to ISA, which copies what an ISA holds at that     *)
(* moment, the fixup of the 64-bit ISAs, and the model of a whole ISA.     *)
(***************************************************************************)
EXTENDS InsnModels

Names(block) == {m.name : m \in block}

(* What header() has put into the database when all models are written.    *)
Written ==
  [rv32i |-> rv32i, rv64i |-> rv64i, rv32im |-> rv32im, rv64im |-> rv64im,
   rv32iZba |-> rv32iZba, rv64iZba |-> rv64iZba,
   rv32iZbb |-> rv32iZbb \cup rv32iZbb_Zbkb, rv32iZbkb |-> rv32iZbb_Zbkb \cup rv32iZbkb,
   rv64iZbb |-> rv64iZbb \cup rv64iZbb_Zbkb, rv64iZbkb |-> rv64iZbb_Zbkb \cup rv64iZbkb,
   rv32iZbc |-> rv32iZbc_Zbkc \cup rv32iZbc, rv32iZbkc |-> rv32iZbc_Zbkc,
   rv32iZbs |-> rv32iZbs, rv32iZbkx |-> rv32iZbkx, rv32ic |-> rv32ic, rv64ic |-> rv64ic]

(* An ISA that is not there yet is a new entry; one that is read must be   *)
(* there (the assert).                                                     *)
isa_propagate_pair(db, pair) ==
  LET from == pair[1]
      to   == pair[2]
  IN  (to :> db[from] \cup IF to \in DOMAIN db THEN db[to] ELSE {}) @@ db

(* Mutant of isa_propagate: the 32-bit ISA is not copied to the 64-bit one.*)
isa_propagateNo64(suffix, exts) ==
  (IF suffix = "" THEN <<>>
   ELSE << <<"rv32i", "rv32i" \o suffix>>, <<"rv64i", "rv64i" \o suffix>> >>)
    \o FlattenSeq([k \in 1 .. Len(exts) |->
         IF exts[k] = suffix THEN <<>>
         ELSE << <<"rv32i" \o exts[k], "rv32i" \o suffix>>,
                 <<"rv64i" \o exts[k], "rv64i" \o suffix>> >>])

(* The pairs of isa_propagate(suffix); exts are the extensions the pattern *)
(* finds in the suffix.                                                    *)
isa_propagate(suffix, exts) ==
  (IF suffix = "" THEN <<>>
   ELSE << <<"rv32i", "rv32i" \o suffix>>, <<"rv64i", "rv64i" \o suffix>> >>)
    \o FlattenSeq([k \in 1 .. Len(exts) |->
         IF exts[k] = suffix THEN <<>>
         ELSE << <<"rv32i" \o exts[k], "rv32i" \o suffix>>,
                 <<"rv64i" \o exts[k], "rv64i" \o suffix>> >>])
    \o << <<"rv32i" \o suffix, "rv64i" \o suffix>> >>

B_exts == <<"Zba", "Zbb", "Zbs">>
X_exts == <<"Zbc", "Zbkb", "Zbkc", "Zbkx">>

Propagation ==
  isa_propagate("", <<>>) \o isa_propagate("c", <<"c">>) \o isa_propagate("m", <<"m">>)
    \o isa_propagate("mc", <<"m", "c">>)
    \o FlattenSeq([k \in 1 .. 3 |->
         isa_propagate(B_exts[k], <<B_exts[k]>>)
           \o << <<"rv32i" \o B_exts[k], "rv32ib">>, <<"rv64i" \o B_exts[k], "rv64ib">> >>])
    \o << <<"rv32ib", "rv64ib">> >>
    \o FlattenSeq([k \in 1 .. 4 |-> isa_propagate(X_exts[k], <<X_exts[k]>>)])
    \o isa_propagate("Zba_Zbb_Zbc_Zbs", <<"Zba", "Zbb", "Zbc", "Zbs">>)
    \o isa_propagate("Zbkb_Zbkc_Zbkx", <<"Zbkb", "Zbkc", "Zbkx">>)

Is64(isa) == SubSeq(isa, 1, 4) = "rv64"
XlenOf(isa) == IF Is64(isa) THEN 64 ELSE 32

(* Mutant of Fixup: C.JAL stays in the 64-bit ISAs.                        *)
FixupKeepsJal(isa, insns) ==
  IF Is64(isa) THEN insns \ {"zip", "unzip"} ELSE insns

Fixup(isa, insns) ==
  IF Is64(isa) THEN insns \ {"c_jal", "zip", "unzip"} ELSE insns

Fixed(db) == [isa \in DOMAIN db |-> Fixup(isa, db[isa])]
NamesIn(blocks) == [isa \in DOMAIN blocks |-> Names(blocks[isa])]

isa_database == Fixed(FoldLeft(isa_propagate_pair, NamesIn(Written), Propagation))

(* The models that claim an instruction, and those an ISA has among them.  *)
(* rvfi_isa_<isa> takes the outputs of the first by name, or zeros.        *)
Claiming(insn, xlen) == {m \in Models : spec_valid(m, insn, xlen)}

Of(isa, claiming) == {m \in claiming : m.name \in isa_database[isa]}
=============================================================================
