---------------------------- MODULE InsnFormats -----------------------------
(***************************************************************************)
(* The instruction formats of insns/generate.py.  An instruction is the    *)
(* set of the positions of its one bits; a field is the sequence of the    *)
(* instruction's bits it is put together from, most significant first, as  *)
(* in the code's {rvfi_insn[12], rvfi_insn[6:2]}.                          *)
(*                                                                         *)
(* The length ILEN is 32, as in every configuration of the repository, so  *)
(* the padding of a 32-bit format is zero and only a compressed one has a  *)
(* padding to look at.  The immediate of the U format is in units of 2^12. *)
(*                                                                         *)
(* Values are numbers: Low and Part are the part selects of Verilog.       *)
(***************************************************************************)
EXTENDS Integers, Sequences, SequencesExt

CONSTANT X  \* bits of a register, a multiple of eight

(* What is used of the powers of two.                                      *)
ASSUME PowerAssumption == X \in Nat /\ \A w \in 0 .. X : 2^w \in Nat /\ 2^w > w

Low(v, w)      == v % 2^w
Part(v, lo, w) == Low(v \div 2^lo, w)  \* v[lo +: w]

ZeroBit == -1  \* 1'b0
OneBit  == -2  \* 1'b1

Seg(hi, lo) == [k \in 1 .. hi - lo + 1 |-> hi - k + 1]
Zeros(n)    == [k \in 1 .. n |-> ZeroBit]
Upper(p)    == <<OneBit>> \o p  \* {1'b1, p}: one of x8 .. x15

Opcode  == [opcode |-> Seg(6, 0)]
Rd      == [rd |-> Seg(11, 7)]
Rs1Rd   == [rs1 |-> Seg(19, 15), funct3 |-> Seg(14, 12)] @@ Rd @@ Opcode
Rs2Rs1  == [rs2 |-> Seg(24, 20), rs1 |-> Seg(19, 15), funct3 |-> Seg(14, 12)] @@ Opcode

format_r       == [funct7 |-> Seg(31, 25)] @@ Rs2Rs1 @@ Rd
format_rb      == [funct6 |-> Seg(31, 26), shamt |-> Seg(25, 20)] @@ Rs2Rs1 @@ Rd
format_i       == [imm |-> Seg(31, 20)] @@ Rs1Rd
format_i_shift == [funct6 |-> Seg(31, 26), shamt |-> Seg(25, 20)] @@ Rs1Rd
format_iB      == [funct12 |-> Seg(31, 20)] @@ Rs1Rd
format_b       == [funct7 |-> Seg(31, 25), funct5 |-> Seg(24, 20)] @@ Rs1Rd
format_s       == [imm |-> Seg(31, 25) \o Seg(11, 7)] @@ Rs2Rs1

(* Mutant of format_sb: bits 11 and 12 of the offset are swapped.          *)
format_sbSwapped ==
  [imm |-> <<7, 31>> \o Seg(30, 25) \o Seg(11, 8) \o Zeros(1)] @@ Rs2Rs1

format_sb ==
  [imm |-> <<31, 7>> \o Seg(30, 25) \o Seg(11, 8) \o Zeros(1)] @@ Rs2Rs1
format_u  == [imm |-> Seg(31, 12)] @@ Rd @@ Opcode
format_uj ==
  [imm |-> <<31>> \o Seg(19, 12) \o <<20>> \o Seg(30, 21) \o Zeros(1)] @@ Rd @@ Opcode

COpcode  == [opcode |-> Seg(1, 0)]
CFunct3  == [funct3 |-> Seg(15, 13)] @@ COpcode
CFull    == [rs1_rd |-> Seg(11, 7)] @@ CFunct3
CPrime   == [funct2 |-> Seg(11, 10), rs1_rd |-> Upper(Seg(9, 7))] @@ CFunct3
CImm6    == <<12>> \o Seg(6, 2)
CMemImm(numbytes) ==
  IF numbytes = 4 THEN <<5>> \o Seg(12, 10) \o <<6>> \o Zeros(2)
                  ELSE Seg(6, 5) \o Seg(12, 10) \o Zeros(3)

format_cr      == [funct4 |-> Seg(15, 12), rs1_rd |-> Seg(11, 7), rs2 |-> Seg(6, 2)] @@ COpcode
format_ci      == [imm |-> CImm6] @@ CFull
format_ci_sp   ==
  [imm |-> <<12>> \o Seg(4, 3) \o <<5, 2, 6>> \o Zeros(4)] @@ CFull
format_ci_lui  == [imm |-> CImm6 \o Zeros(12)] @@ CFull
format_ci_sri  == [shamt |-> CImm6] @@ CPrime
format_ci_sli  == [shamt |-> CImm6] @@ CFull
format_ci_andi == [imm |-> CImm6] @@ CPrime
format_ci_lsp(numbytes) ==
  [imm |-> IF numbytes = 4 THEN Seg(3, 2) \o <<12>> \o Seg(6, 4) \o Zeros(2)
                           ELSE Seg(4, 2) \o <<12>> \o Seg(6, 5) \o Zeros(3),
   rd  |-> Seg(11, 7)] @@ CFunct3
format_cl(numbytes) ==
  [imm |-> CMemImm(numbytes), rs1 |-> Upper(Seg(9, 7)), rd |-> Upper(Seg(4, 2))] @@ CFunct3
format_css(numbytes) ==
  [imm |-> IF numbytes = 4 THEN Seg(8, 7) \o Seg(12, 9) \o Zeros(2)
                           ELSE Seg(9, 7) \o Seg(12, 10) \o Zeros(3),
   rs2 |-> Seg(6, 2)] @@ CFunct3
format_cs(numbytes) ==
  [imm |-> CMemImm(numbytes), rs1 |-> Upper(Seg(9, 7)), rs2 |-> Upper(Seg(4, 2))] @@ CFunct3
format_cs_alu ==
  [funct6 |-> Seg(15, 10), funct2 |-> Seg(6, 5), rs1_rd |-> Upper(Seg(9, 7)),
   rs2 |-> Upper(Seg(4, 2))] @@ COpcode
format_ciw ==
  [imm |-> Seg(10, 7) \o Seg(12, 11) \o <<5, 6>> \o Zeros(2), rd |-> Upper(Seg(4, 2))] @@ CFunct3
format_cb ==
  [imm |-> <<12>> \o Seg(6, 5) \o <<2>> \o Seg(11, 10) \o Seg(4, 3) \o Zeros(1),
   rs1 |-> Upper(Seg(9, 7))] @@ CFunct3
format_cj ==
  [imm |-> <<12, 8, 10, 9, 6, 7, 2, 11, 5, 4, 3>> \o Zeros(1)] @@ CFunct3

Format ==
  [r |-> format_r, rb |-> format_rb, i |-> format_i, i_shift |-> format_i_shift,
   iB |-> format_iB, b |-> format_b, s |-> format_s, sb |-> format_sb,
   u |-> format_u, uj |-> format_uj,
   cr |-> format_cr, ci |-> format_ci, ci_sp |-> format_ci_sp,
   ci_lui |-> format_ci_lui, ci_sri |-> format_ci_sri, ci_sli |-> format_ci_sli,
   ci_andi |-> format_ci_andi, ci_lsp4 |-> format_ci_lsp(4), ci_lsp8 |-> format_ci_lsp(8),
   cl4 |-> format_cl(4), cl8 |-> format_cl(8), css4 |-> format_css(4), css8 |-> format_css(8),
   cs4 |-> format_cs(4), cs8 |-> format_cs(8), cs_alu |-> format_cs_alu,
   ciw |-> format_ciw, cb |-> format_cb, cj |-> format_cj]

Compressed == {"cr", "ci", "ci_sp", "ci_lui", "ci_sri", "ci_sli", "ci_andi", "ci_lsp4",
               "ci_lsp8", "cl4", "cl8", "css4", "css8", "cs4", "cs8", "cs_alu", "ciw", "cb", "cj"}

(* The formats whose immediate is a $signed concatenation.                 *)
SignedImm == {"i", "s", "sb", "u", "uj", "ci", "ci_sp", "ci_lui", "ci_andi", "cb", "cj"}

(* The value of a field: unsigned, or in two's complement.                 *)
BitOf(insn, b) == IF b = OneBit \/ b \in insn THEN 1 ELSE 0

Unsigned(insn, p) == FoldLeft(LAMBDA v, b : 2 * v + BitOf(insn, b), 0, p)
TwosComplement(insn, p) ==
  FoldLeft(LAMBDA v, b : 2 * v + BitOf(insn, b), -BitOf(insn, Head(p)), Tail(p))

FieldOf(insn, fmt, field) ==
  IF field = "imm" /\ fmt \in SignedImm THEN TwosComplement(insn, Format[fmt].imm)
                                        ELSE Unsigned(insn, Format[fmt][field])
=============================================================================
