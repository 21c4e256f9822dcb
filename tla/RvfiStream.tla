----------------------------- MODULE RvfiStream -----------------------------
(***************************************************************************)
(* The instruction stream a core reports on the RISC-V Formal Interface,   *)
(* as far as registers are concerned (docs/source/rvfi.rst, "Instruction   *)
(* metadata" and "Integer register read/write").                           *)
(*                                                                         *)
(* prog holds the retired instructions in program order: prog[n] is the    *)
(* packet with rvfi_order = n.  The core may retire out of program order;  *)
(* Retire says which cycles it may drive next.                             *)
(*                                                                         *)
(* A write is abstracted to its origin: instruction n writes the value     *)
(* n + 1, so that every write is told from every other; x0 and a register  *)
(* nobody has written yet hold 0.                                          *)
(***************************************************************************)
EXTENDS RvfiChannels

CONSTANTS
  Regs,            \* register addresses, 0 is x0
  KEEP_CAUSALITY,  \* TRUE: a register is written before dependent reads retire
  KEEP_WRITE_ORDER \* TRUE: the core retires writes to one register in order

VARIABLES
  prog,    \* the program, a function from orders to packets
  retired  \* orders retired so far

streamVars == <<prog, retired>>

Packet == [rd: Regs, rs1: Regs, rs2: Regs, trap: BOOLEAN]

(* Instruction n writes register r.  A trapping instruction may still name *)
(* its destination, but does not write it.                                 *)
Writes(n, r) == prog[n].rd = r /\ ~prog[n].trap

rvfi_rd_wdata(n) == IF prog[n].rd = 0 THEN 0 ELSE n + 1

Reads(n, r) == prog[n].rs1 = r \/ prog[n].rs2 = r

(* j is the instruction whose write of r is the value of r before n.       *)
IsLastWriter(j, r, n) ==
  /\ j \in Orders /\ j < n /\ Writes(j, r)
  /\ \A k \in Orders : j < k /\ k < n => ~Writes(k, r)

HasWriter(r, n) == \E k \in Orders : k < n /\ Writes(k, r)

(* v is the architectural value of register r before instruction n.        *)
IsArchValue(v, r, n) ==
  IF r # 0 /\ HasWriter(r, n)
    THEN \E j \in Orders : IsLastWriter(j, r, n) /\ v = j + 1
    ELSE v = 0

(* The orders visible before channel c of a cycle.                         *)
Before(ch, c) == retired \cup Lower(ch, c)

(* "No indices must be used twice."                                        *)
Unique(ch) ==
  \A c \in Channels : ch[c] # Idle => ch[c] \notin Before(ch, c)

(* "Register write operations must be retired before the read operations   *)
(* that depend on them": the instruction whose value is read comes first.  *)
Causal(ch) ==
  \A c \in Channels : ch[c] # Idle =>
    \A r \in Regs \ {0} :
      Reads(ch[c], r) /\ HasWriter(r, ch[c]) =>
        \E j \in Before(ch, c) : IsLastWriter(j, r, ch[c])

(* What the specification of the interface does not ask for: two writes to *)
(* one register retire in program order.                                   *)
WritesInOrder(ch) ==
  \A c \in Channels : ch[c] # Idle =>
    \A j \in Orders :
      /\ j < ch[c] /\ prog[ch[c]].rd # 0
      /\ Writes(ch[c], prog[ch[c]].rd) /\ Writes(j, prog[ch[c]].rd)
      => j \in Before(ch, c)

StreamInit ==
  /\ prog \in [Orders -> Packet]
  /\ retired = {}

(* One clock cycle of the core: it drives ch.                              *)
Retire(ch) ==
  /\ Unique(ch)
  /\ KEEP_CAUSALITY => Causal(ch)
  /\ KEEP_WRITE_ORDER => WritesInOrder(ch)
  /\ retired' = retired \cup ({ch[c] : c \in Channels} \ {Idle})
  /\ UNCHANGED prog

StreamTypeOK ==
  /\ prog \in [Orders -> Packet]
  /\ retired \subseteq Orders
=============================================================================
