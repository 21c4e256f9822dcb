--------------------------- MODULE InsnSemantics ----------------------------
(***************************************************************************)
(* What an instruction model of insns/generate.py computes from a packet:  *)
(* the outputs of rvfi_insn_<name> for an instruction it claims.  The      *)
(* widths are scaled: a register has X bits, which are four bytes when     *)
(* xlen is 32 and eight bytes when it is 64; a word (31:0) is four bytes.  *)
(* The expressions are those of the Verilog, widths and signedness as the  *)
(* language gives them; a ?: one of whose arms is unsigned is unsigned.    *)
(*                                                                         *)
(* A packet p has the model p.m, the operands and the configuration:       *)
(* p.xlen, p.aligned (RISCV_FORMAL_ALIGNED_MEM), p.compressed              *)
(* (RISCV_FORMAL_COMPRESSED) and p.misa, the extensions misa reports, or   *)
(* NoMisa without RISCV_FORMAL_CSR_MISA.  RISCV_FORMAL_ALTOPS is off.      *)
(***************************************************************************)
EXTENDS IsaDatabase, FiniteSetsExt, Bitwise

NoMisa == {"no misa"}

Byte(p) == (8 * X) \div p.xlen
Word(p) == 4 * Byte(p)

Neg(v, w)  == v >= 2^(w - 1)
Inv(v, w)  == 2^w - 1 - v
Signed(v, w) == IF Neg(v, w) THEN v - 2^w ELSE v
Shl(v, n, w) == IF n >= w THEN 0 ELSE Low(v * 2^n, w)
Shr(v, n, w) == IF n >= w THEN 0 ELSE v \div 2^n

(* Mutant of Sra: a shift to the right that does not keep the sign.        *)
SraLogical(v, n, w) == Shr(v, n, w)

Sra(v, n, w) == IF Neg(v, w) THEN Inv(Shr(Inv(v, w), n, w), w) ELSE Shr(v, n, w)
Rol(v, n, w) == Shl(v, n, w) | Shr(v, w - n, w)
Ror(v, n, w) == Shr(v, n, w) | Shl(v, w - n, w)
Bit(v, k)    == (v \div 2^k) % 2
SignExt(v, w)  == IF Neg(v, w) THEN v + 2^X - 2^w ELSE v
Flag(c)        == IF c THEN 1 ELSE 0
Gather(w, bit(_)) == MapThenSumSet(LAMBDA k : bit(k) * 2^k, 0 .. w - 1)

(* The low 2 * X bits of a product of two numbers of that width.           *)
Double(v)   == IF Neg(v, X) THEN v + (2^X - 1) * 2^X ELSE v
Times(v, u) == Low(v * Low(u, X) + Low(v * (u \div 2^X), X) * 2^X, 2 * X)

(* insn_count: the loop from bit 0 upwards.                                *)
Count(v, w, mode) ==
  LET step[k \in 0 .. w] ==
        IF k = 0 THEN [result |-> 0, found |-> 0]
        ELSE LET s == step[k - 1]
                 b == Bit(v, k - 1)
                 f == IF mode = "trailing" THEN s.found | b ELSE 0
             IN  [found  |-> f,
                  result |-> CASE mode = "pop"      -> s.result + b
                               [] mode = "trailing" -> s.result + 1 - (b | f)
                               [] mode = "leading"  -> IF b = 1 THEN 0 ELSE s.result + 1]
  IN  step[w].result

(* insn_clmul: the terms of the one bits from first on.                    *)
CarryLess(v, u, first, term(_)) ==
  FoldLeft(LAMBDA r, i : IF Bit(u, i) = 1 THEN r ^^ term(i) ELSE r, 0,
           [k \in 1 .. X |-> k + first - 1])

(* insn_xperm: each field of the index shifts rs1 by its value, and not by *)
(* w times that.                                                           *)
Permute(v, u, w) ==
  Gather(X, LAMBDA k : Bit(Shr(v, Part(u, k - (k % w), w), X), k % w))

MulDiv(p) ==
  LET n == p.m.name
      a == p.rs1
      b == p.rs2
      W == Word(p)
      aw == Low(a, W)
      bw == Low(b, W)
      min(w) == 2^(w - 1)
  IN  CASE n = "mul"    -> Low(a * b, X)
        [] n = "mulh"   -> Times(Double(a), Double(b)) \div 2^X
        [] n = "mulhsu" -> Times(Double(a), b) \div 2^X
        [] n = "mulhu"  -> Times(a, b) \div 2^X
        [] n \in {"div", "divu"} /\ b = 0 -> Inv(0, X)
        [] n \in {"rem", "remu"} /\ b = 0 -> a
        [] n = "div" /\ b # 0 -> IF a = min(X) /\ b = Inv(0, X) THEN min(X) ELSE a \div b
        [] n = "divu" /\ b # 0 -> a \div b
        [] n = "rem" /\ b # 0 -> IF a = min(X) /\ b = Inv(0, X) THEN 0 ELSE a % b
        [] n = "remu" /\ b # 0 -> a % b
        [] n = "mulw"   -> aw * bw
        [] n \in {"divw", "divuw"} /\ bw = 0 -> Inv(0, W)
        [] n = "divw" /\ bw # 0 -> IF a = min(W) /\ b = Inv(0, W) THEN min(W) ELSE aw \div bw
        [] n = "divuw" /\ bw # 0 -> aw \div bw
        [] n \in {"remw", "remuw"} /\ b = 0 -> a
        [] n = "remw" /\ bw # 0 -> IF a = min(W) /\ b = Inv(0, W) THEN 0 ELSE aw % bw
        [] n = "remuw" /\ bw # 0 -> aw % bw

(* rs2 == 32'b0 looks at all of rs2, the division at its low word.         *)
DividesByX(p) ==
  p.m.name \in {"remw", "remuw"} /\ p.rs2 # 0 /\ Low(p.rs2, Word(p)) = 0

BitManip(p) ==
  LET n == p.m.name
      a == p.rs1
      b == p.rs2
      W == Word(p)
      Y == Byte(p)
      aw == Low(a, W)
      index == IF p.m.rs2 = "none" THEN p.shamt ELSE b % X
  IN  CASE n \in {"sh1add", "sh2add", "sh3add"} ->
             b + Shl(a, CASE n = "sh1add" -> 1 [] n = "sh2add" -> 2 [] n = "sh3add" -> 3, X)
        [] n \in {"sh1add_uw", "sh2add_uw", "sh3add_uw"} ->
             b + Shl(aw, CASE n = "sh1add_uw" -> 1 [] n = "sh2add_uw" -> 2 [] n = "sh3add_uw" -> 3, X)
        [] n = "add_uw"  -> b + aw
        [] n = "slli_uw" -> Shl(aw, p.shamt, X)
        [] n = "clz"   -> Count(a, X, "leading")  [] n = "clzw"  -> Count(a, W, "leading")
        [] n = "ctz"   -> Count(a, X, "trailing") [] n = "ctzw"  -> Count(a, W, "trailing")
        [] n = "cpop"  -> Count(a, X, "pop")      [] n = "cpopw" -> Count(a, W, "pop")
        [] n = "max"   -> IF Signed(a, X) < Signed(b, X) THEN b ELSE a
        [] n = "maxu"  -> IF a < b THEN b ELSE a
        [] n = "min"   -> IF Signed(a, X) < Signed(b, X) THEN a ELSE b
        [] n = "minu"  -> IF a < b THEN a ELSE b
        [] n = "sext_b" -> SignExt(Low(a, Y), Y)
        [] n = "sext_h" -> SignExt(Low(a, 2 * Y), 2 * Y)
        [] n = "zext_h" -> Low(a, 2 * Y)
        [] n = "orc_b" -> Gather(X, LAMBDA k : Flag(Part(a, k - (k % Y), Y) # 0))
        [] n = "andn"  -> a & Inv(b, X)
        [] n = "orn"   -> a | Inv(b, X)
        [] n = "xnor"  -> Inv(a ^^ b, X)
        [] n = "rol"   -> Rol(a, b % X, X)
        [] n = "ror"   -> Ror(a, b % X, X)
        [] n = "rori"  -> Ror(a, p.shamt, X)
        [] n = "rolw"  -> Rol(aw, b % W, W)
        [] n = "rorw"  -> Ror(aw, b % W, W)
        [] n = "roriw" -> Ror(aw, p.shamt, W)
        [] n = "rev8"  -> Gather(X, LAMBDA k : Bit(a, X - Y - (k - (k % Y)) + (k % Y)))
        [] n = "brev8" -> Gather(X, LAMBDA k : Bit(a, (k - (k % Y)) + Y - ((k % Y) + 1)))
        [] n = "pack"  -> Low(a, X \div 2) + Low(b, X \div 2) * 2^(X \div 2)
        [] n = "packh" -> Low(a, Y) + Low(b, Y) * 2^Y
        [] n = "packw" -> Low(a, 2 * Y) + Low(b, 2 * Y) * 2^(2 * Y)
        [] n = "zip"   -> Gather(X, LAMBDA k : Bit(a, (k \div 2) + ((k % 2) * (X \div 2))))
        [] n = "unzip" -> Gather(X, LAMBDA k : IF k < X \div 2 THEN Bit(a, 2 * k)
                                                ELSE Bit(a, 2 * (k - X \div 2) + 1))
        [] n = "clmul"  -> CarryLess(a, b, 0, LAMBDA i : Shl(a, i, X))
        [] n = "clmulh" -> CarryLess(a, b, 1, LAMBDA i : Shr(a, X - i, X))
        [] n = "clmulr" -> CarryLess(a, b, 0, LAMBDA i : Shr(a, X - i - 1, X))
        [] n \in {"bclr", "bclri"} -> a & Inv((2^index), X)
        [] n \in {"bext", "bexti"} -> Shr(a, index, X) & 1
        [] n \in {"binv", "binvi"} -> a ^^ (2^index)
        [] n \in {"bset", "bseti"} -> a | (2^index)
        [] n = "xperm4" -> Permute(a, b, Y \div 2)
        [] n = "xperm8" -> Permute(a, b, Y)

BaseNames   == Names(rv32i \cup rv64i \cup rv32ic \cup rv64ic)
MulDivNames == Names(rv32im \cup rv64im)
FullJumps   == {n \in Names(rv32i) : \E m \in Models : m.name = n /\ m.kind \in {"jump", "branch"}}

(* The expressions of the base and the compressed instructions.            *)
Base(p) ==
  LET n == p.m.name
      a == p.rs1
      b == p.rs2
      W == Word(p)
      aw == Low(a, W)
      bw == Low(b, W)
  IN  CASE n \in {"lui", "c_lui", "c_li"} -> p.imm
        [] n = "auipc" -> p.pc + p.imm
        [] n \in {"addi", "c_addi", "c_addi4spn", "c_addi16sp"} -> a + p.imm
        [] n = "slti"  -> Flag(Signed(a, X) < Signed(p.imm, X))
        [] n = "sltiu" -> Flag(a < p.imm)
        [] n = "xori"  -> a ^^ p.imm
        [] n = "ori"   -> a | p.imm
        [] n \in {"andi", "c_andi"} -> a & p.imm
        [] n \in {"slli", "c_slli"} -> Shl(a, p.shamt, X)
        [] n \in {"srli", "c_srli"} -> Shr(a, p.shamt, X)
        [] n \in {"srai", "c_srai"} -> Sra(a, p.shamt, X)
        [] n \in {"add", "c_add"} -> a + b
        [] n \in {"sub", "c_sub"} -> a - b
        [] n = "sll"  -> Shl(a, b % X, X)
        [] n = "slt"  -> Flag(Signed(a, X) < Signed(b, X))
        [] n = "sltu" -> Flag(a < b)
        [] n \in {"xor", "c_xor"} -> a ^^ b
        [] n = "srl"  -> Shr(a, b % X, X)
        [] n = "sra"  -> Sra(a, b % X, X)
        [] n \in {"or", "c_or"}   -> a | b
        [] n \in {"and", "c_and"} -> a & b
        [] n = "c_mv" -> b
        [] n \in {"addiw", "c_addiw"} -> aw + Low(p.imm, W)
        [] n = "slliw" -> Shl(aw, p.shamt, W)
        [] n = "srliw" -> Shr(aw, p.shamt, W)
        [] n = "sraiw" -> Sra(aw, p.shamt, W)
        [] n \in {"addw", "c_addw"} -> aw + bw
        [] n \in {"subw", "c_subw"} -> aw - bw
        [] n = "sllw" -> Shl(aw, b % W, W)
        [] n = "srlw" -> Shr(aw, b % W, W)
        [] n = "sraw" -> Sra(aw, b % W, W)

(* The wire result, before it is extended; any value where it is x.        *)
Result(p) ==
  LET w == IF p.m.wmode THEN Word(p) ELSE X
  IN  IF p.m.name \in MulDivNames
      THEN IF DividesByX(p) THEN 0 .. 2^w - 1 ELSE {Low(MulDiv(p), w)}
      ELSE {Low(IF p.m.name \in BaseNames THEN Base(p) ELSE BitManip(p), w)}

RdWdata(p, result) ==
  IF p.rd = 0 THEN 0
  ELSE IF p.m.wmode THEN SignExt(result, Word(p))
  ELSE result
-----------------------------------------------------------------------------
(* misa_check                                                              *)
misa_ok(p)  == p.misa = NoMisa \/ p.m.misa \subseteq p.misa
ialign16(p) == IF p.misa = NoMisa THEN p.compressed ELSE "C" \in p.misa

SizeOf(p) == IF p.m.fmt \in Compressed THEN 2 ELSE 4
PcPlus(p, d) == Low(p.pc + d, X)

cond(p) ==
  LET a == p.rs1
      b == p.rs2
  IN  CASE p.m.name = "beq" -> a = b [] p.m.name = "bne" -> a # b
        [] p.m.name = "blt"  -> Signed(a, X) < Signed(b, X)
        [] p.m.name = "bge"  -> Signed(a, X) >= Signed(b, X)
        [] p.m.name = "bltu" -> a < b [] p.m.name = "bgeu" -> a >= b
        [] p.m.name = "c_beqz" -> a = 0 [] p.m.name = "c_bnez" -> a # 0

next_pc(p) ==
  CASE p.m.kind = "branch" -> IF cond(p) THEN PcPlus(p, p.imm) ELSE PcPlus(p, SizeOf(p))
    [] p.m.name \in {"jal", "c_jal", "c_j"} -> PcPlus(p, p.imm)
    [] p.m.name = "jalr" -> LET t == Low(p.rs1 + p.imm, X) IN t - (t % 2)
    [] p.m.name \in {"c_jr", "c_jalr"} -> p.rs1 - (p.rs1 % 2)
    [] OTHER -> PcPlus(p, SizeOf(p))

(* Mutant of spec_trap: the traps of jumps lack || !misa_ok.               *)
spec_trapJumpsOn(p) ==
  \/ ~misa_ok(p) /\ p.m.kind \notin {"jump", "branch"}
  \/ p.m.kind \in {"load", "store"} /\ p.aligned /\ Low(p.rs1 + p.imm, X) % p.m.numbytes # 0
  \/ p.m.name \in FullJumps /\ next_pc(p) % (IF ialign16(p) THEN 2 ELSE 4) # 0
  \/ p.m.name \in {"c_beqz", "c_bnez", "c_jr", "c_jalr"} /\ next_pc(p) % 2 # 0

spec_trap(p) ==
  \/ ~misa_ok(p)
  \/ p.m.kind \in {"load", "store"} /\ p.aligned /\ Low(p.rs1 + p.imm, X) % p.m.numbytes # 0
  \/ p.m.name \in FullJumps /\ next_pc(p) % (IF ialign16(p) THEN 2 ELSE 4) # 0
  \/ p.m.name \in {"c_beqz", "c_bnez", "c_jr", "c_jalr"} /\ next_pc(p) % 2 # 0

(* Loads and stores: the address and its offset in the aligned word, the   *)
(* byte lanes of the mask and the data on them.                            *)
Address(p) == Low(p.rs1 + p.imm, X)
Lanes(p)   == p.xlen \div 8
Offset(p)  == IF p.aligned THEN Address(p) % Lanes(p) ELSE 0
MemAddr(p) == Address(p) - Offset(p)

Mask(p)    == (Offset(p) .. Offset(p) + p.m.numbytes - 1) \cap (0 .. Lanes(p) - 1)

(* Mutant of Loaded: the sign of a narrow load is lost.                    *)
LoadedUnsigned(p) ==
  LET w == p.m.numbytes * Byte(p) IN Low(Shr(p.rdata, Offset(p) * Byte(p), X), w)

Loaded(p) ==
  LET w == p.m.numbytes * Byte(p)
      r == Low(Shr(p.rdata, Offset(p) * Byte(p), X), w)
  IN  IF p.m.signext THEN SignExt(r, w) ELSE r

(* The outputs of the model, one record for each possible result; footer   *)
(* assigns zero to the ones the model leaves out.                          *)
Outputs(p) ==
  LET out == [trap |-> spec_trap(p), rd_wdata |-> 0, pc_wdata |-> next_pc(p),
              mem_addr |-> 0, rmask |-> {}, wmask |-> {}, mem_wdata |-> 0]
  IN  CASE p.m.kind = "alu"    -> {[out EXCEPT !.rd_wdata = RdWdata(p, r)] : r \in Result(p)}
        [] p.m.kind = "branch" -> {out}
        [] p.m.kind = "jump"   ->
             {[out EXCEPT !.rd_wdata = IF p.rd = 0 THEN 0 ELSE PcPlus(p, SizeOf(p))]}
        [] p.m.kind = "load"   ->
             {[out EXCEPT !.rd_wdata = IF p.rd = 0 THEN 0 ELSE Loaded(p),
                          !.mem_addr = MemAddr(p), !.rmask = Mask(p)]}
        [] p.m.kind = "store"  ->
             {[out EXCEPT !.mem_addr = MemAddr(p), !.wmask = Mask(p),
                          !.mem_wdata = Shl(p.rs2, Offset(p) * Byte(p), X)]}
=============================================================================
