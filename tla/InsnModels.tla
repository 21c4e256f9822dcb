----------------------------- MODULE InsnModels -----------------------------
(***************************************************************************)
(* The instruction models insns/generate.py writes, one record for each    *)
(* rvfi_insn_<name>: the instructions it claims (spec_valid), the          *)
(* registers it uses and what kind of model it is.  What it computes is in *)
(* InsnSemantics.  One operator for each of the code's insn_* functions,   *)
(* one application of it for each of the code's calls.                     *)
(*                                                                         *)
(* fixed    fields that have one value                                     *)
(* nonzero  fields that must not be zero                                   *)
(* low5     the XLENs in which shamt[5] must be clear                      *)
(* xlens    the XLENs in which the model claims anything                   *)
(* rs1, rs2, rd  the field with the register's number, or a register       *)
(***************************************************************************)
EXTENDS InsnFormats, FiniteSets

XLENs == {32, 64}

Insn(insn, fmt, fixed, regs, kind) ==
  [name |-> insn, fmt |-> fmt, fixed |-> fixed, nonzero |-> {}, not_sp |-> FALSE,
   low5 |-> {}, xlens |-> XLENs, rs1 |-> regs[1], rs2 |-> regs[2], rd |-> regs[3],
   kind |-> kind, numbytes |-> 0, signext |-> FALSE, wmode |-> FALSE,
   misa |-> IF fmt \in Compressed THEN {"C"} ELSE {}]

Op(opcode)       == {<<"opcode", opcode>>}
Op3(f3, opcode)  == {<<"funct3", f3>>} \cup Op(opcode)
Needs(misa, m)   == [m EXCEPT !.misa = misa]
Wide(m, wmode)   == [m EXCEPT !.wmode = wmode]
OP      == \b0110011
OP_W    == \b0111011
OP_IMM  == \b0010011
OP_IMMW == \b0011011

insn_lui   == Insn("lui",   "u",  Op(\b0110111), <<"none", "none", "rd">>, "alu")
insn_auipc == Insn("auipc", "u",  Op(\b0010111), <<"none", "none", "rd">>, "alu")
insn_jal   == Insn("jal",   "uj", Op(\b1101111), <<"none", "none", "rd">>, "jump")
insn_jalr  == Insn("jalr",  "i",  Op3(\b000, \b1100111), <<"rs1", "none", "rd">>, "jump")
insn_b(insn, f3) == Insn(insn, "sb", Op3(f3, \b1100011), <<"rs1", "rs2", "none">>, "branch")
insn_l(insn, f3, numbytes, signext) ==
  [Insn(insn, "i", Op3(f3, \b0000011), <<"rs1", "none", "rd">>, "load")
     EXCEPT !.numbytes = numbytes, !.signext = signext]
insn_s(insn, f3, numbytes) ==
  [Insn(insn, "s", Op3(f3, \b0100011), <<"rs1", "rs2", "none">>, "store")
     EXCEPT !.numbytes = numbytes]
insn_imm(insn, f3, wmode) ==
  Wide(Insn(insn, "i", Op3(f3, IF wmode THEN OP_IMMW ELSE OP_IMM), <<"rs1", "none", "rd">>, "alu"), wmode)

(* Mutant of insn_shimm: an RV32 shift takes a sixth bit of the amount.    *)
insn_shimmSixth(insn, f6, f3, mode, misa) ==
  [Insn(insn, "i_shift",
        {<<"funct6", f6>>} \cup Op3(f3, IF mode = "" THEN OP_IMM ELSE OP_IMMW),
        <<"rs1", "none", "rd">>, "alu")
     EXCEPT !.low5 = {}, !.wmode = mode = "w", !.misa = misa]

insn_shimm(insn, f6, f3, mode, misa) ==
  [Insn(insn, "i_shift",
        {<<"funct6", f6>>} \cup Op3(f3, IF mode = "" THEN OP_IMM ELSE OP_IMMW),
        <<"rs1", "none", "rd">>, "alu")
     EXCEPT !.low5 = CASE mode = "uw" -> {} [] mode = "w" -> XLENs [] OTHER -> {32},
            !.wmode = mode = "w", !.misa = misa]
insn_alu(insn, f7, f3, mode, misa) ==
  [Insn(insn, "r", {<<"funct7", f7>>} \cup Op3(f3, IF mode = "" THEN OP ELSE OP_W),
        <<"rs1", "rs2", "rd">>, "alu")
     EXCEPT !.wmode = mode = "w", !.misa = misa]
insn_count(insn, f5, wmode) ==
  Wide(Needs({"B"}, Insn(insn, "b",
    {<<"funct7", \b0110000>>, <<"funct5", f5>>}
      \cup Op3(\b001, IF wmode THEN OP_IMMW ELSE OP_IMM),
    <<"rs1", "none", "rd">>, "alu")), wmode)
insn_ext(insn, f5, signed, xlens) ==
  [Insn(insn, "b",
        {<<"funct5", f5>>, <<"funct7", IF signed THEN \b0110000 ELSE \b0000100>>}
          \cup (IF signed THEN Op3(\b001, OP_IMM)
                ELSE Op3(\b100, IF 32 \in xlens THEN OP ELSE OP_W)),
        <<"rs1", "none", "rd">>, "alu")
     EXCEPT !.xlens = xlens, !.misa = {"B"}]
insn_bit(insn, f6, f3, imode) ==
  [Insn(insn, "rb", {<<"funct6", f6>>} \cup Op3(f3, IF imode THEN OP_IMM ELSE OP),
        <<"rs1", IF imode THEN "none" ELSE "rs2", "rd">>, "alu")
     EXCEPT !.low5 = IF imode THEN {32} ELSE XLENs, !.misa = {"B"}]
insn_bytes(insn, f12, f3, xlens, misa) ==
  [Insn(insn, "iB", {<<"funct12", f12>>} \cup Op3(f3, OP_IMM), <<"rs1", "none", "rd">>, "alu")
     EXCEPT !.xlens = xlens, !.misa = misa]
insn_clmul(insn, f3) == insn_alu(insn, \b0000101, f3, "", {})
insn_pack(insn, f3, signed) ==
  Wide(insn_alu(insn, \b0000100, f3, IF signed THEN "w" ELSE "", {}), signed)
insn_zip(insn, f3) ==
  [Insn(insn, "b", {<<"funct7", \b0000100>>, <<"funct5", \b01111>>} \cup Op3(f3, OP_IMM),
        <<"rs1", "none", "rd">>, "alu") EXCEPT !.xlens = {32}]
insn_xperm(insn, f3) == insn_alu(insn, \b0010100, f3, "", {})

insn_c_addi4spn ==
  [Insn("c_addi4spn", "ciw", Op3(\b000, \b00), <<"sp", "none", "rd">>, "alu")
     EXCEPT !.nonzero = {"imm"}]
insn_c_l(insn, f3, numbytes) ==
  [Insn(insn, IF numbytes = 4 THEN "cl4" ELSE "cl8", Op3(f3, \b00), <<"rs1", "none", "rd">>, "load")
     EXCEPT !.numbytes = numbytes, !.signext = TRUE]
insn_c_s(insn, f3, numbytes) ==
  [Insn(insn, IF numbytes = 4 THEN "cs4" ELSE "cs8", Op3(f3, \b00), <<"rs1", "rs2", "none">>, "store")
     EXCEPT !.numbytes = numbytes]
insn_c_addi(insn, wmode) ==
  [Insn(insn, "ci", Op3(IF wmode THEN \b001 ELSE \b000, \b01), <<"rs1_rd", "none", "rs1_rd">>, "alu")
     EXCEPT !.wmode = wmode, !.nonzero = IF wmode THEN {"rs1_rd"} ELSE {}]
insn_c_jal(insn, f3, link) ==
  Insn(insn, "cj", Op3(f3, \b01), <<"none", "none", IF link THEN "ra" ELSE "none">>, "jump")
insn_c_li == Insn("c_li", "ci", Op3(\b010, \b01), <<"none", "none", "rs1_rd">>, "alu")
insn_c_addi16sp ==
  [Insn("c_addi16sp", "ci_sp", {<<"rs1_rd", 2>>} \cup Op3(\b011, \b01), <<"rs1_rd", "none", "rs1_rd">>, "alu")
     EXCEPT !.nonzero = {"imm"}]

insn_c_lui ==
  [Insn("c_lui", "ci_lui", Op3(\b011, \b01), <<"none", "none", "rs1_rd">>, "alu")
     EXCEPT !.nonzero = {"imm"}, !.not_sp = TRUE]
insn_c_sri(insn, f2) ==
  [Insn(insn, "ci_sri", {<<"funct2", f2>>} \cup Op3(\b100, \b01), <<"rs1_rd", "none", "rs1_rd">>, "alu")
     EXCEPT !.low5 = {32}]
insn_c_andi ==
  Insn("c_andi", "ci_andi", {<<"funct2", \b10>>} \cup Op3(\b100, \b01), <<"rs1_rd", "none", "rs1_rd">>, "alu")
insn_c_alu(insn, f6, f2, wmode) ==
  Wide(Insn(insn, "cs_alu", {<<"funct6", f6>>, <<"funct2", f2>>} \cup Op(\b01),
            <<"rs1_rd", "rs2", "rs1_rd">>, "alu"), wmode)
insn_c_b(insn, f3) == Insn(insn, "cb", Op3(f3, \b01), <<"rs1", "none", "none">>, "branch")
insn_c_sli(insn) ==
  [Insn(insn, "ci_sli", Op3(\b000, \b10), <<"rs1_rd", "none", "rs1_rd">>, "alu")
     EXCEPT !.low5 = {32}]
insn_c_lsp(insn, f3, numbytes) ==
  [Insn(insn, IF numbytes = 4 THEN "ci_lsp4" ELSE "ci_lsp8", Op3(f3, \b10), <<"sp", "none", "rd">>, "load")
     EXCEPT !.numbytes = numbytes, !.signext = TRUE, !.nonzero = {"rd"}]
insn_c_ssp(insn, f3, numbytes) ==
  [Insn(insn, IF numbytes = 4 THEN "css4" ELSE "css8", Op3(f3, \b10), <<"sp", "rs2", "none">>, "store")
     EXCEPT !.numbytes = numbytes]
insn_c_jalr(insn, f4, link) ==
  [Insn(insn, "cr", {<<"funct4", f4>>, <<"rs2", 0>>} \cup Op(\b10),
        <<"rs1_rd", "none", IF link THEN "ra" ELSE "none">>, "jump")
     EXCEPT !.nonzero = {"rs1_rd"}]
insn_c_mvadd(insn, f4, add) ==
  [Insn(insn, "cr", {<<"funct4", f4>>} \cup Op(\b10),
        <<IF add THEN "rs1_rd" ELSE "none", "rs2", "rs1_rd">>, "alu")
     EXCEPT !.nonzero = {"rs2"}]
-----------------------------------------------------------------------------
(* The calls, by the current_isa they are made under.                      *)
M == {"M"}
B == {"B"}

rv32i ==
  {insn_lui, insn_auipc, insn_jal, insn_jalr,
   insn_b("beq", \b000), insn_b("bne", \b001), insn_b("blt", \b100),
   insn_b("bge", \b101), insn_b("bltu", \b110), insn_b("bgeu", \b111),
   insn_l("lb", \b000, 1, TRUE), insn_l("lh", \b001, 2, TRUE), insn_l("lw", \b010, 4, TRUE),
   insn_l("lbu", \b100, 1, FALSE), insn_l("lhu", \b101, 2, FALSE),
   insn_s("sb", \b000, 1), insn_s("sh", \b001, 2), insn_s("sw", \b010, 4),
   insn_imm("addi", \b000, FALSE), insn_imm("slti", \b010, FALSE), insn_imm("sltiu", \b011, FALSE),
   insn_imm("xori", \b100, FALSE), insn_imm("ori", \b110, FALSE), insn_imm("andi", \b111, FALSE),
   insn_shimm("slli", \b000000, \b001, "", {}), insn_shimm("srli", \b000000, \b101, "", {}),
   insn_shimm("srai", \b010000, \b101, "", {}),
   insn_alu("add", \b0000000, \b000, "", {}), insn_alu("sub", \b0100000, \b000, "", {}),
   insn_alu("sll", \b0000000, \b001, "", {}), insn_alu("slt", \b0000000, \b010, "", {}),
   insn_alu("sltu", \b0000000, \b011, "", {}), insn_alu("xor", \b0000000, \b100, "", {}),
   insn_alu("srl", \b0000000, \b101, "", {}), insn_alu("sra", \b0100000, \b101, "", {}),
   insn_alu("or", \b0000000, \b110, "", {}), insn_alu("and", \b0000000, \b111, "", {})}

rv64i ==
  {insn_l("lwu", \b110, 4, FALSE), insn_l("ld", \b011, 8, TRUE), insn_s("sd", \b011, 8),
   insn_imm("addiw", \b000, TRUE),
   insn_shimm("slliw", \b000000, \b001, "w", {}), insn_shimm("srliw", \b000000, \b101, "w", {}),
   insn_shimm("sraiw", \b010000, \b101, "w", {}),
   insn_alu("addw", \b0000000, \b000, "w", {}), insn_alu("subw", \b0100000, \b000, "w", {}),
   insn_alu("sllw", \b0000000, \b001, "w", {}), insn_alu("srlw", \b0000000, \b101, "w", {}),
   insn_alu("sraw", \b0100000, \b101, "w", {})}

rv32im ==
  {insn_alu("mul", 1, \b000, "", M), insn_alu("mulh", 1, \b001, "", M),
   insn_alu("mulhsu", 1, \b010, "", M), insn_alu("mulhu", 1, \b011, "", M),
   insn_alu("div", 1, \b100, "", M), insn_alu("divu", 1, \b101, "", M),
   insn_alu("rem", 1, \b110, "", M), insn_alu("remu", 1, \b111, "", M)}

rv64im ==
  {insn_alu("mulw", 1, \b000, "w", M), insn_alu("divw", 1, \b100, "w", M),
   insn_alu("divuw", 1, \b101, "w", M), insn_alu("remw", 1, \b110, "w", M),
   insn_alu("remuw", 1, \b111, "w", M)}

rv32iZba ==
  {insn_alu("sh1add", \b0010000, \b010, "", B), insn_alu("sh2add", \b0010000, \b100, "", B),
   insn_alu("sh3add", \b0010000, \b110, "", B)}

rv64iZba ==
  {insn_alu("add_uw", \b0000100, \b000, "uw", B), insn_alu("sh1add_uw", \b0010000, \b010, "uw", B),
   insn_alu("sh2add_uw", \b0010000, \b100, "uw", B), insn_alu("sh3add_uw", \b0010000, \b110, "uw", B),
   insn_shimm("slli_uw", \b000010, \b001, "uw", B)}

rv32iZbb ==
  {insn_count("clz", \b00000, FALSE), insn_count("ctz", \b00001, FALSE),
   insn_count("cpop", \b00010, FALSE),
   insn_alu("max", \b0000101, \b110, "", B), insn_alu("maxu", \b0000101, \b111, "", B),
   insn_alu("min", \b0000101, \b100, "", B), insn_alu("minu", \b0000101, \b101, "", B),
   insn_ext("sext_b", \b00100, TRUE, XLENs), insn_ext("sext_h", \b00101, TRUE, XLENs),
   insn_ext("zext_h", \b00000, FALSE, {32}), insn_ext("zext_h", \b00000, FALSE, {64}),
   insn_bytes("orc_b", \b001010000111, \b101, XLENs, B)}

rv32iZbb_Zbkb ==
  {insn_alu("andn", \b0100000, \b111, "", B), insn_alu("orn", \b0100000, \b110, "", B),
   insn_alu("xnor", \b0100000, \b100, "", B), insn_alu("rol", \b0110000, \b001, "", B),
   insn_alu("ror", \b0110000, \b101, "", B), insn_shimm("rori", \b011000, \b101, "", B),
   insn_bytes("rev8", \b011010011000, \b101, {32}, B),
   insn_bytes("rev8", \b011010111000, \b101, {64}, B)}

rv32iZbkb ==
  {insn_pack("pack", \b100, FALSE), insn_pack("packh", \b111, FALSE),
   insn_bytes("brev8", \b011010000111, \b101, XLENs, {}),
   insn_zip("zip", \b001), insn_zip("unzip", \b101)}

rv64iZbb ==
  {insn_count("clzw", \b00000, TRUE), insn_count("ctzw", \b00001, TRUE),
   insn_count("cpopw", \b00010, TRUE)}

rv64iZbb_Zbkb ==
  {insn_alu("rolw", \b0110000, \b001, "w", B), insn_alu("rorw", \b0110000, \b101, "w", B),
   insn_shimm("roriw", \b011000, \b101, "w", B)}

rv64iZbkb == {insn_pack("packw", \b100, TRUE)}

rv32iZbc_Zbkc == {insn_clmul("clmul", \b001), insn_clmul("clmulh", \b011)}
rv32iZbc      == {insn_clmul("clmulr", \b010)}

rv32iZbs ==
  UNION {{insn_bit("bclr", \b010010, \b001, FALSE), insn_bit("bclri", \b010010, \b001, TRUE)},
         {insn_bit("bext", \b010010, \b101, FALSE), insn_bit("bexti", \b010010, \b101, TRUE)},
         {insn_bit("binv", \b011010, \b001, FALSE), insn_bit("binvi", \b011010, \b001, TRUE)},
         {insn_bit("bset", \b001010, \b001, FALSE), insn_bit("bseti", \b001010, \b001, TRUE)}}

rv32iZbkx == {insn_xperm("xperm4", \b010), insn_xperm("xperm8", \b100)}

rv32ic ==
  {insn_c_addi4spn, insn_c_l("c_lw", \b010, 4), insn_c_s("c_sw", \b110, 4),
   insn_c_addi("c_addi", FALSE), insn_c_jal("c_jal", \b001, TRUE), insn_c_li, insn_c_addi16sp,
   insn_c_lui, insn_c_sri("c_srli", \b00), insn_c_sri("c_srai", \b01), insn_c_andi,
   insn_c_alu("c_sub", \b100011, \b00, FALSE), insn_c_alu("c_xor", \b100011, \b01, FALSE),
   insn_c_alu("c_or", \b100011, \b10, FALSE), insn_c_alu("c_and", \b100011, \b11, FALSE),
   insn_c_jal("c_j", \b101, FALSE), insn_c_b("c_beqz", \b110), insn_c_b("c_bnez", \b111),
   insn_c_sli("c_slli"), insn_c_lsp("c_lwsp", \b010, 4), insn_c_jalr("c_jr", \b1000, FALSE),
   insn_c_mvadd("c_mv", \b1000, FALSE), insn_c_jalr("c_jalr", \b1001, TRUE),
   insn_c_mvadd("c_add", \b1001, TRUE), insn_c_ssp("c_swsp", \b110, 4)}

rv64ic ==
  {insn_c_addi("c_addiw", TRUE), insn_c_alu("c_subw", \b100111, \b00, TRUE),
   insn_c_alu("c_addw", \b100111, \b01, TRUE), insn_c_l("c_ld", \b011, 8),
   insn_c_s("c_sd", \b111, 8), insn_c_lsp("c_ldsp", \b011, 8), insn_c_ssp("c_sdsp", \b111, 8)}

Blocks ==
  UNION {rv32i, rv64i, rv32im, rv64im, rv32iZba, rv64iZba, rv32iZbb, rv32iZbb_Zbkb,
         rv32iZbkb, rv64iZbb, rv64iZbb_Zbkb, rv64iZbkb, rv32iZbc_Zbkc, rv32iZbc,
         rv32iZbs, rv32iZbkx, rv32ic, rv64ic}
-----------------------------------------------------------------------------
(* spec_valid: the bits of the instruction that the fixed fields want one  *)
(* or zero, and the conditions on other fields.                            *)
BitsOf(m, bit) ==
  UNION {LET p == Format[m.fmt][f[1]]
         IN  {p[k] : k \in {j \in 1 .. Len(p) : (f[2] \div 2^(Len(p) - j)) % 2 = bit}} :
         f \in m.fixed} \ {OneBit}

Models ==
  {[ones  |-> BitsOf(m, 1),
    nulls |-> BitsOf(m, 0) \cup IF m.fmt \in Compressed THEN 16 .. 31 ELSE {}] @@ m : m \in Blocks}

spec_valid(m, insn, xlen) ==
  /\ m.ones \subseteq insn /\ m.nulls \cap insn = {}
  /\ xlen \in m.xlens
  /\ xlen \in m.low5 => Head(Format[m.fmt].shamt) \notin insn
  /\ \A f \in m.nonzero : FieldOf(insn, m.fmt, f) # 0
  /\ m.not_sp => FieldOf(insn, m.fmt, "rs1_rd") # 2
=============================================================================
