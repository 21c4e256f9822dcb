--------------------------- MODULE InsnReference ----------------------------
(***************************************************************************)
(* The RISC-V instructions as the ISA manual defines them, against which   *)
(* the models of insns/generate.py are checked: how an assembler lays the  *)
(* fields of a format out, which instruction a compressed one expands to,  *)
(* and what an instruction computes, on signed integers and sets of bits   *)
(* rather than on the expressions of the models; and the decoders that the *)
(* repository's own coverage test compares the models with.                *)
(***************************************************************************)
EXTENDS InsnSemantics

Rs2_Rs1_F3 == << <<"rs2", 4, 0>>, <<"rs1", 4, 0>>, <<"funct3", 2, 0>> >>
Rs1_F3_Rd  == << <<"rs1", 4, 0>>, <<"funct3", 2, 0>>, <<"rd", 4, 0>>, <<"opcode", 6, 0>> >>
F3C        == << <<"funct3", 2, 0>> >>
Op2        == << <<"opcode", 1, 0>> >>
Full       == << <<"rs1_rd", 4, 0>> >>
Prime      == << <<"funct2", 1, 0>>, <<"rs1_rd", 2, 0>> >>

(* Encoding[fmt]: the pieces of the instruction from its top bit down.     *)
Encoding ==
  [r  |-> << <<"funct7", 6, 0>> >> \o Rs2_Rs1_F3 \o << <<"rd", 4, 0>>, <<"opcode", 6, 0>> >>,
   rb |-> << <<"funct6", 5, 0>>, <<"shamt", 5, 5>> >> \o Rs2_Rs1_F3
             \o << <<"rd", 4, 0>>, <<"opcode", 6, 0>> >>,
   i  |-> << <<"imm", 11, 0>> >> \o Rs1_F3_Rd,
   i_shift |-> << <<"funct6", 5, 0>>, <<"shamt", 5, 0>> >> \o Rs1_F3_Rd,
   iB |-> << <<"funct12", 11, 0>> >> \o Rs1_F3_Rd,
   b  |-> << <<"funct7", 6, 0>>, <<"funct5", 4, 0>> >> \o Rs1_F3_Rd,
   s  |-> << <<"imm", 11, 5>> >> \o Rs2_Rs1_F3 \o << <<"imm", 4, 0>>, <<"opcode", 6, 0>> >>,
   sb |-> << <<"imm", 12, 12>>, <<"imm", 10, 5>> >> \o Rs2_Rs1_F3
             \o << <<"imm", 4, 1>>, <<"imm", 11, 11>>, <<"opcode", 6, 0>> >>,
   u  |-> << <<"imm", 19, 0>>, <<"rd", 4, 0>>, <<"opcode", 6, 0>> >>,
   uj |-> << <<"imm", 20, 20>>, <<"imm", 10, 1>>, <<"imm", 11, 11>>, <<"imm", 19, 12>>,
             <<"rd", 4, 0>>, <<"opcode", 6, 0>> >>,
   cr |-> << <<"funct4", 3, 0>>, <<"rs1_rd", 4, 0>>, <<"rs2", 4, 0>> >> \o Op2,
   ci |-> F3C \o << <<"imm", 5, 5>> >> \o Full \o << <<"imm", 4, 0>> >> \o Op2,
   ci_sp |-> F3C \o << <<"imm", 9, 9>> >> \o Full
             \o << <<"imm", 4, 4>>, <<"imm", 6, 6>>, <<"imm", 8, 7>>, <<"imm", 5, 5>> >> \o Op2,
   ci_lui |-> F3C \o << <<"imm", 17, 17>> >> \o Full \o << <<"imm", 16, 12>> >> \o Op2,
   ci_sri |-> F3C \o << <<"shamt", 5, 5>> >> \o Prime \o << <<"shamt", 4, 0>> >> \o Op2,
   ci_sli |-> F3C \o << <<"shamt", 5, 5>> >> \o Full \o << <<"shamt", 4, 0>> >> \o Op2,
   ci_andi |-> F3C \o << <<"imm", 5, 5>> >> \o Prime \o << <<"imm", 4, 0>> >> \o Op2,
   ci_lsp4 |-> F3C \o << <<"imm", 5, 5>>, <<"rd", 4, 0>>, <<"imm", 4, 2>>, <<"imm", 7, 6>> >> \o Op2,
   ci_lsp8 |-> F3C \o << <<"imm", 5, 5>>, <<"rd", 4, 0>>, <<"imm", 4, 3>>, <<"imm", 8, 6>> >> \o Op2,
   cl4 |-> F3C \o << <<"imm", 5, 3>>, <<"rs1", 2, 0>>, <<"imm", 2, 2>>, <<"imm", 6, 6>>, <<"rd", 2, 0>> >> \o Op2,
   cl8 |-> F3C \o << <<"imm", 5, 3>>, <<"rs1", 2, 0>>, <<"imm", 7, 6>>, <<"rd", 2, 0>> >> \o Op2,
   cs4 |-> F3C \o << <<"imm", 5, 3>>, <<"rs1", 2, 0>>, <<"imm", 2, 2>>, <<"imm", 6, 6>>, <<"rs2", 2, 0>> >> \o Op2,
   cs8 |-> F3C \o << <<"imm", 5, 3>>, <<"rs1", 2, 0>>, <<"imm", 7, 6>>, <<"rs2", 2, 0>> >> \o Op2,
   css4 |-> F3C \o << <<"imm", 5, 2>>, <<"imm", 7, 6>>, <<"rs2", 4, 0>> >> \o Op2,
   css8 |-> F3C \o << <<"imm", 5, 3>>, <<"imm", 8, 6>>, <<"rs2", 4, 0>> >> \o Op2,
   cs_alu |-> << <<"funct6", 5, 0>>, <<"rs1_rd", 2, 0>>, <<"funct2", 1, 0>>, <<"rs2", 2, 0>> >> \o Op2,
   ciw |-> F3C \o << <<"imm", 5, 4>>, <<"imm", 9, 6>>, <<"imm", 2, 2>>, <<"imm", 3, 3>>, <<"rd", 2, 0>> >> \o Op2,
   cb |-> F3C \o << <<"imm", 8, 8>>, <<"imm", 4, 3>>, <<"rs1", 2, 0>>, <<"imm", 7, 6>>,
                    <<"imm", 2, 1>>, <<"imm", 5, 5>> >> \o Op2,
   cj |-> F3C \o << <<"imm", 11, 11>>, <<"imm", 4, 4>>, <<"imm", 9, 8>>, <<"imm", 10, 10>>,
                    <<"imm", 6, 6>>, <<"imm", 7, 7>>, <<"imm", 3, 1>>, <<"imm", 5, 5>> >> \o Op2]

(* The pieces bit by bit, top bit first: <<field, bit of the field>>.      *)
Layout ==
  [fmt \in DOMAIN Encoding |->
     FlattenSeq([k \in DOMAIN Encoding[fmt] |->
       LET e == Encoding[fmt][k] IN [j \in 1 .. e[2] - e[3] + 1 |-> <<e[1], e[2] - j + 1>>]])]

Assemble(fmt, fields) ==
  LET bits == Layout[fmt]
  IN  {Len(bits) - k : k \in {j \in DOMAIN bits :
                                (fields[bits[j][1]] \div 2^bits[j][2]) % 2 = 1}}

(* Which instruction a compressed one stands for.                          *)
Expansion ==
  [c_addi4spn |-> "addi", c_lw |-> "lw", c_sw |-> "sw", c_addi |-> "addi", c_jal |-> "jal",
   c_li |-> "addi", c_addi16sp |-> "addi", c_lui |-> "lui", c_srli |-> "srli", c_srai |-> "srai",
   c_andi |-> "andi", c_sub |-> "sub", c_xor |-> "xor", c_or |-> "or", c_and |-> "and",
   c_j |-> "jal", c_beqz |-> "beq", c_bnez |-> "bne", c_slli |-> "slli", c_lwsp |-> "lw",
   c_jr |-> "jalr", c_mv |-> "add", c_jalr |-> "jalr", c_add |-> "add", c_swsp |-> "sw",
   c_addiw |-> "addiw", c_subw |-> "subw", c_addw |-> "addw", c_ld |-> "ld", c_sd |-> "sd",
   c_ldsp |-> "ld", c_sdsp |-> "sd"]
-----------------------------------------------------------------------------
BitSet(v)  == {k \in 0 .. X - 1 : Bit(v, k) = 1}
Number(bs) == MapThenSumSet(LAMBDA k : 2^k, bs)
Rotated(bs, n, w) == {(k + n) % w : k \in bs}

(* Division that rounds towards zero, on signed integers.                  *)
Quotient(v, u) ==
  LET abs(n) == IF n < 0 THEN -n ELSE n
      q == abs(v) \div abs(u)
  IN  IF (v < 0) = (u < 0) THEN q ELSE -q
DivOf(v, u) == IF u = 0 THEN -1 ELSE Quotient(v, u)
RemOf(v, u) == IF u = 0 THEN v ELSE v - u * Quotient(v, u)

(* The polynomial product over GF(2), coefficients lo upwards.             *)
Carryless(va, vb, lo) ==
  {k \in 0 .. X - 1 : Cardinality({i \in va : k + lo - i \in vb}) % 2 = 1}

(* What rd receives, an integer that stands for its X low bits.  a and b   *)
(* are unsigned, sa and sb signed, va and vb the sets of the one bits.     *)
Arithmetic(n, a, b, imm, sh, pc) ==
  LET sa == Signed(a, X)
      sb == Signed(b, X)
      i  == Signed(imm, X)
  IN  CASE n = "lui" -> imm [] n = "auipc" -> pc + imm
        [] n = "addi" -> sa + i [] n = "add" -> sa + sb [] n = "sub" -> sa - sb
        [] n = "slti" -> Flag(sa < i) [] n = "slt" -> Flag(sa - sb < 0)
        [] n = "sltiu" -> Flag(a < imm) [] n = "sltu" -> Flag(a - b < 0)
        [] n = "sll" -> a * 2^(b % X) [] n = "slli" -> a * 2^sh
        [] n = "srl" -> a \div 2^(b % X) [] n = "srli" -> a \div 2^sh
        [] n = "sra" -> sa \div 2^(b % X) [] n = "srai" -> sa \div 2^sh
        [] n = "mul" -> sa * sb [] n = "mulh" -> (sa * sb) \div 2^X
        [] n = "mulhsu" -> (sa * b) \div 2^X [] n = "mulhu" -> (a * b) \div 2^X
        [] n = "div" -> DivOf(sa, sb) [] n = "divu" -> DivOf(a, b)
        [] n = "rem" -> RemOf(sa, sb) [] n = "remu" -> RemOf(a, b)
        [] n = "max" -> CHOOSE m \in {sa, sb} : m >= sa /\ m >= sb
        [] n = "min" -> CHOOSE m \in {sa, sb} : m <= sa /\ m <= sb
        [] n = "maxu" -> CHOOSE m \in {a, b} : m >= a /\ m >= b
        [] n = "minu" -> CHOOSE m \in {a, b} : m <= a /\ m <= b
        [] n = "sh1add" -> 2 * a + b [] n = "sh2add" -> 4 * a + b [] n = "sh3add" -> 8 * a + b

(* The ...w instructions: on the low words, the result a signed word.      *)
Words(n, aw, bw, imm, sh, W) ==
  LET sa == Signed(aw, W)
      sb == Signed(bw, W)
      word(v) == Signed(Low(v, W), W)
  IN  CASE n = "addiw" -> word(sa + imm) [] n = "addw" -> word(sa + sb) [] n = "subw" -> word(sa - sb)
        [] n = "sllw" -> word(aw * 2^(bw % W)) [] n = "slliw" -> word(aw * 2^sh)
        [] n = "srlw" -> word(aw \div 2^(bw % W)) [] n = "srliw" -> word(aw \div 2^sh)
        [] n = "sraw" -> sa \div 2^(bw % W) [] n = "sraiw" -> sa \div 2^sh
        [] n = "mulw" -> word(sa * sb)
        [] n = "divw" -> word(DivOf(sa, sb)) [] n = "divuw" -> word(DivOf(aw, bw))
        [] n = "remw" -> word(RemOf(sa, sb)) [] n = "remuw" -> word(RemOf(aw, bw))
        [] n \in {"rolw", "rorw", "roriw"} ->
             word(Number(Rotated(BitSet(aw), CASE n = "rolw" -> bw % W [] n = "rorw" -> W - (bw % W)
                                               [] n = "roriw" -> W - sh, W)))
        [] n = "clzw" -> W - Cardinality({k \in 0 .. W - 1 : 2^k <= aw})
        [] n = "ctzw" -> Cardinality({k \in 1 .. W : aw % 2^k = 0})
        [] n = "cpopw" -> Cardinality(BitSet(aw))
        [] n = "packw" -> word(Low(aw, W \div 2) + Low(bw, W \div 2) * 2^(W \div 2))
        [] n = "add_uw" -> aw [] n = "slli_uw" -> aw * 2^sh
        [] n = "sh1add_uw" -> 2 * aw [] n = "sh2add_uw" -> 4 * aw [] n = "sh3add_uw" -> 8 * aw

(* Bit by bit: the set of the result's one bits, Y bits to a byte.         *)
BitByBit(n, a, va, vb, vi, sh, Y) ==
  LET all == 0 .. X - 1
      at(k, m) == k + m \in va
  IN  CASE n = "andi" -> va \cap vi [] n = "ori" -> va \cup vi [] n = "xori" -> SymDiff(va, vi)
        [] n = "and" -> va \cap vb [] n = "or" -> va \cup vb [] n = "xor" -> SymDiff(va, vb)
        [] n = "andn" -> va \ vb [] n = "orn" -> va \cup (all \ vb)
        [] n = "xnor" -> all \ SymDiff(va, vb)
        [] n = "rol" -> Rotated(va, sh, X) [] n \in {"ror", "rori"} -> Rotated(va, X - sh, X)
        [] n = "clz" -> BitSet(X - Cardinality({k \in all : 2^k <= a}))
        [] n = "ctz" -> BitSet(Cardinality({k \in 1 .. X : a % 2^k = 0}))
        [] n = "cpop" -> BitSet(Cardinality(va))
        [] n = "sext_b" -> {k \in all : (IF k < Y THEN k ELSE Y - 1) \in va}
        [] n = "sext_h" -> {k \in all : (IF k < 2 * Y THEN k ELSE 2 * Y - 1) \in va}
        [] n = "zext_h" -> {k \in va : k < 2 * Y}
        [] n = "orc_b" -> {k \in all : \E j \in va : j \div Y = k \div Y}
        [] n = "rev8" -> {k \in all : \E j \in va : j % Y = k % Y /\ (j \div Y) + (k \div Y) = (X \div Y) - 1}
        [] n = "brev8" -> {k \in all : \E j \in va : j \div Y = k \div Y /\ (j % Y) + (k % Y) = Y - 1}
        [] n = "pack" -> {k \in va : 2 * k < X} \cup {k + (X \div 2) : k \in {j \in vb : 2 * j < X}}
        [] n = "packh" -> {k \in va : k < Y} \cup {k + Y : k \in {j \in vb : j < Y}}
        [] n = "zip" -> {IF 2 * k < X THEN 2 * k ELSE 2 * k - X + 1 : k \in va}
        [] n = "unzip" -> {IF k % 2 = 0 THEN k \div 2 ELSE (k + X) \div 2 : k \in va}
        [] n = "clmul" -> Carryless(va, vb, 0) [] n = "clmulh" -> Carryless(va, vb, X)
        [] n = "clmulr" -> Carryless(va, vb, X - 1)
        [] n \in {"bclr", "bclri"} -> va \ {sh} [] n \in {"bset", "bseti"} -> va \cup {sh}
        [] n \in {"binv", "binvi"} -> SymDiff(va, {sh})
        [] n \in {"bext", "bexti"} -> IF sh \in va THEN {0} ELSE {}

(* xperm: field k of the result is the field of rs1 the k-th field of rs2  *)
(* names, zero when there is none.                                         *)
Lookup(a, b, w) ==
  LET field(v, k) == IF k < X \div w THEN Part(v, k * w, w) ELSE 0
  IN  MapThenSumSet(LAMBDA k : field(a, field(b, k)) * 2^(k * w), 0 .. (X \div w) - 1)

ArithmeticNames ==
  {"lui", "auipc", "addi", "add", "sub", "slti", "slt", "sltiu", "sltu", "sll", "slli", "srl",
   "srli", "sra", "srai", "mul", "mulh", "mulhsu", "mulhu", "div", "divu", "rem", "remu", "max",
   "min", "maxu", "minu", "sh1add", "sh2add", "sh3add"}
WordNames ==
  {m.name : m \in {n \in Models : n.wmode}} \cup {"add_uw", "slli_uw", "sh1add_uw", "sh2add_uw", "sh3add_uw"}

Reference(n, p) ==
  LET W  == Word(p)
      sh == IF p.m.rs2 = "none" THEN p.shamt ELSE p.rs2 % X
  IN  CASE n \in ArithmeticNames -> Low(Arithmetic(n, p.rs1, p.rs2, p.imm, p.shamt, p.pc), X)
        [] n \in WordNames ->
             Low(Words(n, Low(p.rs1, W), Low(p.rs2, W), p.imm, p.shamt, W)
                   + IF n \in {"add_uw", "sh1add_uw", "sh2add_uw", "sh3add_uw"} THEN p.rs2 ELSE 0, X)
        [] n = "xperm4" -> Lookup(p.rs1, p.rs2, Byte(p) \div 2)
        [] n = "xperm8" -> Lookup(p.rs1, p.rs2, Byte(p))
        [] OTHER -> Number(BitByBit(n, p.rs1, BitSet(p.rs1), BitSet(p.rs2), BitSet(p.imm), sh, Byte(p)))

(* Jumps and branches: where they go.                                      *)
Taken(n, a, b) ==
  CASE n = "beq" -> a = b [] n = "bne" -> a # b
    [] n = "blt" -> Signed(a, X) - Signed(b, X) < 0 [] n = "bge" -> Signed(a, X) - Signed(b, X) >= 0
    [] n = "bltu" -> a - b < 0 [] n = "bgeu" -> a - b >= 0
Target(n, p) ==
  CASE n = "jal" -> Low(p.pc + p.imm, X)
    [] n = "jalr" -> Number(BitSet(Low(p.rs1 + p.imm, X)) \ {0})
    [] OTHER -> Low(p.pc + IF Taken(n, p.rs1, p.rs2) THEN p.imm ELSE SizeOf(p), X)

(* The instructions behind a bit of misa: those of the extensions C and M, *)
(* and for B of Zba, Zbb and Zbs.  One whose bit is clear is illegal.      *)
Added(isas) == UNION {Names(Written[isa]) : isa \in isas}
Extension ==
  [B |-> Added({"rv32iZba", "rv64iZba", "rv32iZbb", "rv64iZbb", "rv32iZbs"}),
   C |-> Added({"rv32ic", "rv64ic"}), M |-> Added({"rv32im", "rv64im"})]
TurnedOff(p) == p.misa # NoMisa /\ \E e \in DOMAIN Extension \ p.misa : p.m.name \in Extension[e]
-----------------------------------------------------------------------------
(* Which instructions RV32I, RV64I, RV32IC and RV64IC have, without the    *)
(* SYSTEM opcode: the decoders of tests/coverage, written by hand and      *)
(* independently of insns/generate.py.                                     *)
Slice(insn, hi, lo) == Unsigned(insn, Seg(hi, lo))

Shifts(insn) ==
  CASE Slice(insn, 14, 12) = \b001 -> {\b0000000}
    [] Slice(insn, 14, 12) = \b101 -> {\b0000000, \b0100000}
    [] OTHER -> 0 .. 127

riscv_i_insn(insn, is64) ==
  LET op == Slice(insn, 6, 0)
      f3 == Slice(insn, 14, 12)
      f7 == Slice(insn, 31, 25)
  IN  \/ op \in {\b0110111, \b0010111, \b1101111}
      \/ op = \b1100111 /\ f3 = \b000
      \/ op = \b1100011 /\ f3 \notin {\b010, \b011}
      \/ op = \b0000011 /\ f3 \notin (IF is64 THEN {\b111} ELSE {\b011, \b110, \b111})
      \/ op = \b0100011 /\ f3 \in 0 .. (IF is64 THEN \b011 ELSE \b010)
      \/ op = \b0010011 /\ (IF is64 THEN f7 - (f7 % 2) ELSE f7) \in Shifts(insn)
      \/ op = \b0110011 /\ f7 \in (IF f3 \in {\b000, \b101} THEN {\b0000000, \b0100000} ELSE {\b0000000})
      \/ is64 /\ op = \b0011011 /\ f3 \in {\b000, \b001, \b101} /\ f7 \in Shifts(insn)
      \/ is64 /\ op = \b0111011
              /\ \/ f3 \in {\b000, \b101} /\ f7 \in {\b0000000, \b0100000}
                 \/ f3 = \b001 /\ f7 = \b0000000

riscv_c_insn(insn, is64) ==
  LET q   == Slice(insn, 1, 0)
      f3  == Slice(insn, 15, 13)
      rd  == Slice(insn, 11, 7)
      rs2 == Slice(insn, 6, 2)
      low == is64 \/ 12 \notin insn
  IN  /\ insn \subseteq 0 .. 15 /\ q # \b11
      /\ \/ q = \b00 /\ \/ f3 = \b000 /\ Slice(insn, 12, 5) # 0
                        \/ f3 \in {\b010, \b110} \cup IF is64 THEN {\b011, \b111} ELSE {}
         \/ q = \b01 /\ \/ f3 \in {\b000, \b010, \b101, \b110, \b111}
                        \/ f3 = \b001 /\ (is64 => rd # 0)
                        \/ f3 = \b011 /\ {12, 6, 5, 4, 3, 2} \cap insn # {}
                        \/ f3 = \b100 /\ \/ Slice(insn, 11, 10) \in {\b00, \b01} /\ low
                                         \/ Slice(insn, 11, 10) = \b10
                                         \/ /\ Slice(insn, 11, 10) = \b11
                                            /\ 12 \notin insn \/ (is64 /\ 6 \notin insn)
         \/ q = \b10 /\ \/ f3 = \b000 /\ low
                        \/ f3 \in {\b010} \cup (IF is64 THEN {\b011} ELSE {}) /\ rd # 0
                        \/ f3 = \b100 /\ (rd # 0 \/ rs2 # 0)
                        \/ f3 \in {\b110} \cup IF is64 THEN {\b111} ELSE {}

HandWritten ==
  {"rv32i", "rv64i", "rv32ic", "rv64ic"}

handwritten_valid(isa, insn) ==
  LET is64 == SubSeq(isa, 1, 4) = "rv64"
  IN  \/ riscv_i_insn(insn, is64)
      \/ isa \in {"rv32ic", "rv64ic"} /\ riscv_c_insn(insn, is64)
=============================================================================
