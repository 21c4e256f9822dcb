------------------------------- MODULE MCInsns ------------------------------
(***************************************************************************)
(* The instruction models, one instruction at a time.  Decode presents an  *)
(* instruction word to every model of both XLENs; Execute presents a       *)
(* packet to the model that claims it.  The models are combinational: each *)
(* presentation starts from the idle state and ends there.                 *)
(***************************************************************************)
EXTENDS InsnReference

CONSTANTS
  Values,      \* operands
  XpermValues, \* operands of XPERM4 and XPERM8
  Offsets,     \* immediates of the packets
  PCs,         \* program counters
  Executed     \* names of the models that execute, or All

VARIABLES
  turn,      \* which words, or the packets of which model, are presented
  word,      \* the instruction word presented
  claiming,  \* [xlen -> the models that claim it]
  packet,    \* the packet presented
  out        \* the outputs of its model

insnVars == <<turn, word, claiming, packet, out>>

Nothing == <<>>
NoWord  == {ZeroBit}
All     == {m.name : m \in Models}

(* XPERM moves fields of four and of eight bits by their indices, so a     *)
(* field needs more than one bit to tell an index from a multiple of it:   *)
(* its models execute on registers of twice the width.                     *)
Wider    == INSTANCE InsnReference WITH X <- 16
Xperm(m) == m.name \in {"xperm4", "xperm8"}
OutputsOf(p) == IF Xperm(p.m) THEN Wider!Outputs(p) ELSE Outputs(p)

(* Words of 32 bits: all funct7 and funct3 of the opcodes that have them,  *)
(* with some fields above and below (for the funct7 in use and their       *)
(* neighbours); for every opcode, all but one or only one of the other     *)
(* bits set.  Words of 16 bits: four of the values of bits 7 to 9, and     *)
(* some with a bit in the upper half.                                      *)
Places(v, lo) == {lo + k : k \in {j \in 0 .. 15 : (v \div 2^j) % 2 = 1}}

FunctWord(op, f3, f7, r2) ==
  Places(op, 0) \cup Places(f3, 12) \cup Places(f7, 25) \cup Places(r2, 20) \cup {7, 17}
Above ==
  {{b} : b \in 7 .. 31} \cup {(7 .. 31) \ {b} : b \in 7 .. 31} \cup {{}, 7 .. 31}
ShortWord(q, f, a, b, c) ==
  Places(q, 0) \cup Places(f, 13) \cup Places(a, 10) \cup Places(b, 7) \cup Places(c, 2)

(* The operands of a packet; an operand the format does not have is fixed. *)
Has(m, field) == field \in DOMAIN Format[m.fmt]

Packets(m, xlen) ==
  LET moves == m.kind \in {"jump", "branch"}
      mem   == m.kind \in {"load", "store"}
      C     == m.fmt \in Compressed
  IN  [m : {m}, xlen : {xlen},
       rs1 : IF Xperm(m) THEN XpermValues ELSE Values,
       rs2 : IF m.rs2 = "none" THEN {0} ELSE IF Xperm(m) THEN XpermValues ELSE Values,
       imm : IF ~Has(m, "imm") THEN {0}
             ELSE IF m.fmt \in {"uj", "sb", "cj", "cb"} THEN {o \in Offsets : o % 2 = 0}
             ELSE IF mem THEN {o \in Offsets : o < 4}
             ELSE Offsets,
       shamt : IF ~Has(m, "shamt") THEN {0}
               ELSE 0 .. (IF m.wmode THEN (4 * X) \div (xlen \div 8) ELSE X) - 1,
       pc : IF m.name = "auipc" \/ moves THEN PCs ELSE {4},
       rd : {IF m.rd = "ra" THEN 1 ELSE IF m.rd = "none" THEN 0 ELSE 5} \cup IF m.rd = "rd" THEN {0} ELSE {},
       rdata : IF m.kind = "load" THEN Values ELSE {0},
       aligned : IF mem THEN BOOLEAN ELSE {FALSE},
       compressed : IF moves /\ ~C THEN BOOLEAN ELSE {C},
       misa : IF moves THEN {NoMisa, {"C"}, {"M"}} ELSE {NoMisa}]
     \cup IF moves THEN {} ELSE
       [m : {m}, xlen : {xlen}, rs1 : {1}, rs2 : {0}, imm : {0}, shamt : {0}, pc : {4}, rd : {5},
        rdata : {0}, aligned : {FALSE}, compressed : {C}, misa : SUBSET {"B", "C", "M"}]

(* In which XLENs a model may be used at all, and can be at this width: in *)
(* a 64-bit register of 16 bits half a byte has only one.                  *)
UsedIn(m) ==
  {x \in m.xlens : /\ \E isa \in DOMAIN isa_database : XlenOf(isa) = x /\ m.name \in isa_database[isa]
                   /\ m.name = "xperm4" => x = 32}

Turns ==
  [op : {OP, OP_W, OP_IMM, OP_IMMW}, funct3 : 0 .. 7]
    \cup [op : {4 * k + 3 : k \in 0 .. 31}] \cup [quadrant : 0 .. 2, funct3 : 0 .. 7]

InsnInit ==
  /\ turn \in (IF Executed = All THEN Turns ELSE {})
              \cup {[model |-> m] : m \in {n \in Models : n.name \in Executed}}
  /\ word = NoWord /\ claiming = Nothing /\ packet = Nothing /\ out = Nothing

Idle == word = NoWord /\ packet = Nothing

Decode(w) ==
  /\ word' = w
  /\ claiming' = [x \in XLENs |-> Claiming(w, x)]
  /\ UNCHANGED <<turn, packet, out>>

Execute(p) ==
  /\ ialign16(p) \/ p.pc % 4 = 0
  /\ packet' = p
  /\ out' \in OutputsOf(p)
  /\ UNCHANGED <<turn, word, claiming>>

Settle ==
  /\ ~Idle
  /\ word' = NoWord /\ claiming' = Nothing /\ packet' = Nothing /\ out' = Nothing
  /\ UNCHANGED turn

InsnNext ==
  \/ /\ Idle /\ DOMAIN turn = {"op", "funct3"}
     /\ \E f7 \in 0 .. 127, r2 \in {0, 1, 2, 4, 5, 7, 15, 24, 31} :
          /\ turn.op \in {OP, OP_W} => r2 \in {0, 1, 31}
          /\ r2 # 0 => f7 % 4 \in {0, 1}
          /\ Decode(FunctWord(turn.op, turn.funct3, f7, r2))
  \/ /\ Idle /\ DOMAIN turn = {"op"}
     /\ \E above \in Above : Decode(Places(turn.op, 0) \cup above)
  \/ /\ Idle /\ DOMAIN turn = {"quadrant", "funct3"}
     /\ \E a \in 0 .. 7, b \in {0, 2, 5, 7}, c \in 0 .. 31, upper \in {{}, {16}} :
          /\ upper = {16} => a = 4 /\ b = 5
          /\ Decode(ShortWord(turn.quadrant, turn.funct3, a, b, c) \cup upper)
  \/ /\ Idle /\ DOMAIN turn = {"model"}
     /\ \E x \in UsedIn(turn.model) : \E p \in Packets(turn.model, x) : Execute(p)
  \/ Settle

InsnSpec == InsnInit /\ [][InsnNext]_insnVars
-----------------------------------------------------------------------------
Decoded  == word # NoWord
ClaimIn(isa) == Of(isa, claiming[XlenOf(isa)])

(* "check one-hot conditions" (tests/coverage/coverage.sv:17), for every   *)
(* ISA the generator writes: at most one of its models claims an           *)
(* instruction, so the order in which rvfi_isa_<isa> asks them does not    *)
(* matter.                                                                 *)
OneHot ==
  Decoded =>
    \A x \in XLENs : \A m, n \in claiming[x] :
      m # n => \A isa \in DOMAIN isa_database :
                 XlenOf(isa) = x => ~(m.name \in isa_database[isa] /\ n.name \in isa_database[isa])

(* The models claim exactly the instructions the hand-written checkers of  *)
(* tests/coverage accept.                                                  *)
Coverage ==
  Decoded => \A isa \in HandWritten : (ClaimIn(isa) # {}) <=> handwritten_valid(isa, word)

(* An ISA has what the ISAs below it have: rv32i is in every ISA, and what *)
(* a 32-bit ISA claims the 64-bit one of the same extensions claims by the *)
(* same model, unless the encoding is another one in RV64.                 *)
Below ==
  {<<IF Is64(isa) THEN "rv64i" ELSE "rv32i", isa>> : isa \in DOMAIN isa_database}
    \cup {<<x \o e, x \o "Zba_Zbb_Zbc_Zbs">> : x \in {"rv32i", "rv64i"}, e \in {"Zba", "Zbb", "Zbc", "Zbs"}}
    \cup {<<x \o e, x \o "Zbkb_Zbkc_Zbkx">> : x \in {"rv32i", "rv64i"}, e \in {"Zbkb", "Zbkc", "Zbkx"}}
    \cup {<<x \o e, x \o "mc">> : x \in {"rv32i", "rv64i"}, e \in {"m", "c"}}
    \cup {<<x \o e, x \o "b">> : x \in {"rv32i", "rv64i"}, e \in {"Zba", "Zbb", "Zbs"}}
    \cup {<<"rv32i" \o e, "rv64i" \o e>> :
            e \in {"", "m", "c", "mc", "b", "Zba", "Zbb", "Zbc", "Zbs", "Zbkb", "Zbkc", "Zbkx",
                   "Zba_Zbb_Zbc_Zbs", "Zbkb_Zbkc_Zbkx"}}

Only32 == {"c_jal", "zip", "unzip", "zext_h", "rev8"}

(* The ISAs of XLEN y that must have what one of XLEN x below them has.    *)
Heirs ==
  [x \in XLENs |-> [y \in XLENs |-> [name \in All |->
     {pair[2] : pair \in {p \in Below : /\ XlenOf(p[1]) = x /\ XlenOf(p[2]) = y
                                       /\ name \in isa_database[p[1]] \ IF x = y THEN {} ELSE Only32}}]]]

Hierarchy ==
  Decoded =>
    \A x, y \in XLENs : \A m \in claiming[x] :
      \A isa \in Heirs[x][y][m.name] :
        m.name \in isa_database[isa] /\ \E n \in claiming[y] : n.name = m.name

(* The fields a model takes an instruction apart into are the ones an      *)
(* assembler puts it together from: no bit is dropped, taken twice or in   *)
(* the wrong place.                                                        *)
FieldsOf(m) == [f \in DOMAIN Format[m.fmt] |-> FieldOf(word, m.fmt, f)]

Reassembles ==
  Decoded => \A x \in XLENs : \A m \in claiming[x] : Assemble(m.fmt, FieldsOf(m)) = word
-----------------------------------------------------------------------------
Executing == packet # Nothing

(* A compressed instruction is checked against the one it expands to, with *)
(* x0 for the operands it does not have.                                   *)
Expanded == IF packet.m.name \in DOMAIN Expansion THEN Expansion[packet.m.name] ELSE packet.m.name
Operands ==
  [packet EXCEPT !.rs1 = IF packet.m.rs1 = "none" THEN 0 ELSE @,
                 !.rs2 = IF packet.m.rs2 = "none" THEN 0 ELSE @]

WritesRd(v) == out.rd_wdata = IF packet.rd = 0 THEN 0 ELSE v

(* Every model that computes gives rd what the ISA manual says, and x0     *)
(* nothing.                                                                *)
ResultIsa ==
  Executing /\ packet.m.kind = "alu" =>
    WritesRd(IF Xperm(packet.m) THEN Wider!Reference(Expanded, Operands)
                                ELSE Reference(Expanded, Operands))

(* Where models deviate from the manual.  Signed division is unsigned (the *)
(* other arms of its ?: are), which shows when an operand is negative and  *)
(* neither of its two special cases applies; the 64-bit word remainders    *)
(* compare all of rs2 with zero, and not its low word; XPERM4 and XPERM8   *)
(* shift by the index, and not by four or eight times it.                  *)
Deviating ==
  LET n == packet.m.name
      w == IF packet.m.wmode THEN Word(packet) ELSE X
      a == Low(packet.rs1, w)
      b == Low(packet.rs2, w)
      overflow == packet.rs1 = 2^(w - 1) /\ packet.rs2 = Inv(0, w)
  IN  \/ n \in {"div", "rem", "divw", "remw"} /\ (Neg(a, w) \/ Neg(b, w)) /\ b # 0 /\ ~overflow
      \/ n \in {"remw", "remuw"} /\ b = 0 /\ packet.rs2 # 0
      \/ n \in {"xperm4", "xperm8"} /\ packet.rs2 # 0

(* Everywhere else the result is that of the manual, and x0 gets nothing   *)
(* at all.                                                                 *)
ResultExact == Executing /\ (Deviating => packet.rd = 0) => ResultIsa

(* An instruction goes where the manual says and a jump links to the next  *)
(* one.  An instruction that does not access memory traps exactly when its *)
(* extension is off in misa, or it jumps to a target that is misaligned    *)
(* for the extensions there are.                                           *)
PcExact ==
  Executing =>
    LET jumps == packet.m.kind \in {"jump", "branch"}
        target == IF jumps THEN Target(Expanded, Operands) ELSE Low(packet.pc + SizeOf(packet), X)
        halves == (packet.misa = NoMisa /\ packet.compressed) \/ "C" \in packet.misa
    IN  /\ out.pc_wdata = target
        /\ packet.m.kind = "jump" => WritesRd(Low(packet.pc + SizeOf(packet), X))
        /\ packet.m.kind \notin {"load", "store"} =>
             (out.trap <=> TurnedOff(packet) \/ (jumps /\ target % (IF halves THEN 2 ELSE 4) # 0))

(* What a load or store that does not trap does to the bytes of memory is  *)
(* the same with RISCV_FORMAL_ALIGNED_MEM as without: the bytes at rs1 +   *)
(* imm upwards, the lowest first, and it traps exactly when it is not      *)
(* aligned and the bus cannot do that, or its extension is off.            *)
MemExact ==
  Executing /\ packet.m.kind \in {"load", "store"} =>
    LET a  == Low(packet.rs1 + packet.imm, X)
        n  == packet.m.numbytes
        Y  == Byte(packet)
        mask == out.rmask \cup out.wmask
        value == MapThenSumSet(LAMBDA k : Part(packet.rdata, Y * (a + k - out.mem_addr), Y) * 2^(Y * k), 0 .. n - 1)
    IN  /\ out.trap <=> TurnedOff(packet) \/ (packet.aligned /\ a % n # 0)
        /\ out.trap \/
             /\ {out.mem_addr + k : k \in mask} = a .. a + n - 1
             /\ out.wmask # {} =>
                  \A k \in 0 .. n - 1 : Part(out.mem_wdata, Y * (a + k - out.mem_addr), Y) = Part(packet.rs2, Y * k, Y)
             /\ out.rmask # {} => WritesRd(IF packet.m.signext THEN SignExt(value, n * Y) ELSE value)
=============================================================================
