--------------------------- MODULE NervCoreProofs ---------------------------
(***************************************************************************)
(* The NERV core implements the in-order machine of NervMachine, for every *)
(* word size, reset address, set of interrupts and program, with and       *)
(* without NERV_FAULT, whatever stalls, faults and interrupts come.        *)
(*                                                                         *)
(* The machine does at once what the core does in the two cycles of an     *)
(* access.  The invariant says what the core remembers in between: the     *)
(* RVFI registers hold the packet of an instruction that was begun (Begun) *)
(* and the bus has carried its access and no other (OnBus); the core is    *)
(* shown as if it had not begun.  There is one lemma per value of cycle:   *)
(* what the core does in such a cycle keeps the invariant and is one       *)
(* action of the machine, or a Rest of it.                                 *)
(***************************************************************************)
EXTENDS NervCore, WellFoundedInduction, TLAPS

(* The registers, with more detail than TypeOK.                            *)
Accesses == [rd_enable: BOOLEAN, wr_enable: BOOLEAN, rd: {0, 1}]
Csrs == [mie: SUBSET Irqs, mtvec: 0 .. 2 * WORDS - 1, mepc: Addresses, mcause: Int,
         mstatus: [MIE: BOOLEAN, MPIE: BOOLEAN]]

Types ==
  /\ pc \in Addresses /\ csr \in Csrs
  /\ mem_q \in Accesses /\ ~(mem_q.rd_enable /\ mem_q.wr_enable)
  /\ reset_q \in BOOLEAN /\ next_rvfi_intr \in BOOLEAN /\ rvfi_valid \in BOOLEAN
  /\ rvfi.order \in 0 .. MAX_ORDER

(* The packet of an access that waits.                                     *)
Waiting(i) ==
  [order |-> rvfi.order, insn |-> i, trap |-> FALSE, intr |-> rvfi.intr,
   pc_rdata |-> rvfi.pc_rdata, pc_wdata |-> pc, rd_addr |-> 0, rd_wdata |-> 0,
   access |-> IF mem_q.rd_enable THEN "read" ELSE "write",
   wdata |-> IF mem_q.rd_enable THEN 0 ELSE regfile[i.n], fault |-> "none"]

(* An access that waits for its second cycle has left its packet in the    *)
(* RVFI registers, for some instruction that makes such an access, and the *)
(* program counter behind it.                                              *)
Begun ==
  did # "off" /\ Pending =>
    /\ rvfi.order # 0 /\ pc = (rvfi.pc_rdata + 1) % WORDS
    /\ ~next_rvfi_intr /\ ~rvfi_valid
    /\ \E i \in Insns :
         /\ i.op = IF mem_q.rd_enable THEN "load" ELSE "store"
         /\ mem_q.rd_enable => mem_q.rd = i.rd
         /\ rvfi = Waiting(i)

(* What has been on the bus since the last packet is the access that       *)
(* waits.                                                                  *)
OnBus ==
  /\ did # "off" /\ ~rvfi_valid => accessed = IF Pending THEN <<rvfi.access>> ELSE <<>>
  /\ did = "off" => accessed = <<>> /\ ~rvfi_valid

IInv == Types /\ Begun /\ OnBus /\ OneAtATime

(* Addresses wrap around.                                                  *)
LEMMA Word == ASSUME Parameters, NEW a \in Nat PROVE a % WORDS \in Addresses
  BY DEF Parameters, Addresses

LEMMA InitInv == Parameters /\ Init => IInv
<1> SUFFICES ASSUME Parameters, Init PROVE IInv
  OBVIOUS
<1>1. pc \in Addresses
  <2>1. RESET_ADDR \in Addresses /\ RESET_ADDR + 2 \in Nat
    BY DEF Parameters, Addresses
  <2> QED
    BY <2>1, Word DEF Init
<1>2. csr \in Csrs
  BY DEF Parameters, Init, Addresses, Csrs, NoCsrs
<1>3. mem_q \in Accesses /\ ~(mem_q.rd_enable /\ mem_q.wr_enable)
  <2>1. mem_q \in {NoAccess, [rd_enable |-> FALSE, wr_enable |-> TRUE, rd |-> 0],
                   [rd_enable |-> TRUE, wr_enable |-> FALSE, rd |-> 0]}
    BY DEF Init, NoAccess
  <2>2. \A m \in Accesses : m.rd_enable \in BOOLEAN
    BY DEF Accesses
  <2>3. CASE mem_q = NoAccess
    BY <2>3 DEF Accesses, NoAccess
  <2>4. CASE mem_q = [rd_enable |-> FALSE, wr_enable |-> TRUE, rd |-> 0]
    BY <2>4 DEF Accesses
  <2>5. CASE mem_q = [rd_enable |-> TRUE, wr_enable |-> FALSE, rd |-> 0]
    BY <2>5 DEF Accesses
  <2> QED
    BY <2>1, <2>3, <2>4, <2>5
<1>4. rvfi.order \in 0 .. MAX_ORDER
  BY DEF Parameters, Init, NoPacket
<1>5. Types
  BY <1>1, <1>2, <1>3, <1>4 DEF Init, Types
<1> QED
  BY <1>5 DEF Init, IInv, Begun, OnBus, OneAtATime
-----------------------------------------------------------------------------
(* A set of bits of a word has a highest one.                              *)
LEMMA HighestIrq ==
  ASSUME Parameters, Types, NEW irq
  PROVE  /\ irq_num(irq) \in Nat
         /\ irq_num(irq) # 0 => irq_num(irq) \in csr.mie \cap Irqs
<1>. DEFINE S == irq \cap csr.mie
<1>1. S \subseteq 1 .. 31 /\ S \subseteq Irqs /\ S \subseteq csr.mie
  BY DEF Parameters, Types, Csrs
<1>2. CASE S = {}
  BY <1>2 DEF irq_num
<1>3. CASE S # {}
  <2>. DEFINE T == {31 - k : k \in S}
  <2>1. T \subseteq Nat /\ T # {}
    BY <1>1, <1>3
  <2>2. PICK m \in T : \A k \in T : ~(<<k, m>> \in OpToRel(<, Nat))
    BY <2>1, NatLessThanWellFounded, WFMin
  <2>3. PICK x \in S : m = 31 - x
    OBVIOUS
  <2>4. \A y \in S : x >= y
    <3>1. SUFFICES ASSUME NEW y \in S, ~(x >= y) PROVE FALSE
      OBVIOUS
    <3>2. 31 - y \in T /\ 31 - y < m /\ m \in Nat
      BY <1>1, <2>1, <2>3, <3>1
    <3> QED
      BY <2>1, <2>2, <3>2 DEF OpToRel
  <2>5. Max(S) \in S
    BY <2>4 DEF Max
  <2> QED
    BY <1>1, <1>3, <2>5 DEF irq_num
<1> QED
  BY <1>2, <1>3
-----------------------------------------------------------------------------
(* What a cycle sees, and the address it goes on at.                       *)
LEMMA InputTypes ==
  ASSUME Parameters, NEW in \in Inputs
  PROVE  /\ in.reset \in BOOLEAN /\ in.stall \in BOOLEAN /\ in.insn \in Insns
         /\ in.imem_fault \in BOOLEAN /\ (in.imem_fault => FAULT)
         /\ in.dmem_fault \in BOOLEAN
         /\ did = "off" => in.reset
         /\ Pending => in.dmem_rdata \in Values
<1>. DEFINE R == IF did = "off" THEN {TRUE} ELSE BOOLEAN
            D == May(FAULT /\ Pending)
            F == May(FAULT)
            V == IF Pending THEN Values ELSE {0}
<1>1. PICK r \in R, s \in BOOLEAN, i \in Insns, f \in F, d \in D, v \in V,
           q \in IrqInputs :
        in = [reset |-> r, stall |-> s, insn |-> i, imem_fault |-> f, dmem_fault |-> d,
              dmem_rdata |-> v, irq |-> q]
  <2>. HIDE DEF R, D, F, V
  <2>1. Inputs = {[reset |-> r, stall |-> s, insn |-> i, imem_fault |-> f, dmem_fault |-> d,
                   dmem_rdata |-> v, irq |-> q] :
                     r \in R, s \in BOOLEAN, i \in Insns, f \in F, d \in D, v \in V, q \in IrqInputs}
    BY DEF Inputs, R, F, D, V
  <2> QED
    BY <2>1
<1>2. f \in BOOLEAN /\ (f => FAULT) /\ d \in BOOLEAN
  BY DEF May
<1> QED
  BY <1>1, <1>2

(* A cycle is one of seven, and what each says of state and inputs. *)
LEMMA CycleCases ==
  ASSUME Parameters, Types, NEW in \in Inputs
  PROVE  \/ cycle(in) = "reset" /\ (in.reset \/ reset_q)
         \/ cycle(in) = "stall" /\ ~in.reset /\ ~reset_q /\ in.stall
         \/ /\ cycle(in) = "late_wr" \/ (FAULT /\ cycle(in) = "dmem_fault")
            /\ ~in.reset /\ ~reset_q /\ ~in.stall /\ Late
         \/ /\ ~in.reset /\ ~reset_q /\ ~in.stall /\ ~Late
            /\ \/ cycle(in) = "intr" /\ irq_num(in.irq) # 0
               \/ /\ cycle(in) = "trap" /\ irq_num(in.irq) = 0
                  /\ in.imem_fault \/ illinsn(in)
               \/ /\ cycle(in) = "insn" /\ irq_num(in.irq) = 0
                  /\ ~in.imem_fault /\ ~illinsn(in)
<1>1. in.reset \in BOOLEAN /\ in.stall \in BOOLEAN
      /\ in.imem_fault \in BOOLEAN /\ in.dmem_fault \in BOOLEAN
  BY InputTypes
<1>2. reset_q \in BOOLEAN /\ FAULT \in BOOLEAN
  BY DEF Parameters, Types
<1>3. Late \in BOOLEAN /\ illinsn(in) \in BOOLEAN
  BY DEF Late, illinsn, Types, Accesses
<1> QED
  BY <1>1, <1>2, <1>3 DEF cycle

LEMMA NoAccessIsOne == NoAccess \in Accesses /\ ~NoAccess.rd_enable /\ ~NoAccess.wr_enable
  BY DEF Accesses, NoAccess

(* The bus and the registers behind it in a cycle without stall or reset.  *)
LEMMA BusTypes ==
  ASSUME Parameters, NEW in \in Inputs
  PROVE  /\ Bus(in) \in Accesses /\ ~(Bus(in).rd_enable /\ Bus(in).wr_enable)
         /\ cycle(in) # "insn" => Bus(in) = NoAccess
<1>1. in.insn.op = "load" => in.insn.rd \in {0, 1}
  BY InputTypes DEF Parameters
<1> QED
  BY <1>1, NoAccessIsOne DEF Bus, Accesses, NoAccess

LEMMA BusClocked ==
  ASSUME Parameters, NEW in \in Inputs, Clock(in), ~in.reset, ~in.stall
  PROVE  mem_q' = Bus(in)
<1>1. mem_q' = [Bus(in) EXCEPT !.rd_enable = @ /\ ~in.reset]
  BY DEF Clock
<1>2. Bus(in) = [rd_enable |-> Bus(in).rd_enable, wr_enable |-> Bus(in).wr_enable, rd |-> Bus(in).rd]
      /\ Bus(in).rd_enable \in BOOLEAN
  BY BusTypes DEF Accesses
<1> QED
  BY <1>1, <1>2
-----------------------------------------------------------------------------
(* Reset is the machine's Reset.                                           *)
LEMMA ResetStep ==
  ASSUME Parameters, IInv, NEW in \in Inputs, Clock(in), cycle(in) = "reset"
  PROVE  IInv' /\ Execute
<1>1. in.reset \/ reset_q
  BY CycleCases DEF IInv
<1>2. in.reset \in BOOLEAN /\ in.stall \in BOOLEAN /\ reset_q \in BOOLEAN
  BY InputTypes DEF IInv, Types
<1>3. /\ csr' = NoCsrs /\ next_rvfi_intr' = FALSE /\ rvfi_valid' = FALSE
      /\ rvfi' = NoPacket /\ did' = "reset" /\ reset_q' = (in.reset \/ (reset_q /\ in.stall))
  BY DEF Clock, csr_next, next_rvfi_intrNext, next_rvfi_valid, rvfiNext, reset_qNext
<1>4. regfile' = regfile
  BY DEF Clock, Write
<1>5. Bus(in) = NoAccess
  BY BusTypes
<1>6. accessed' = <<>>
  BY <1>5 DEF Clock, NoAccess
<1>7. pc' = IF in.reset THEN (RESET_ADDR + WORDS - 1) % WORDS ELSE RESET_ADDR
  BY DEF Clock, npc
<1>8. pc' \in Addresses
  <2>1. RESET_ADDR \in Addresses /\ RESET_ADDR + WORDS - 1 \in Nat
    BY DEF Parameters, Addresses
  <2> QED
    BY <1>7, <2>1, Word
<1>9. mem_q' \in Accesses /\ ~(mem_q'.rd_enable /\ mem_q'.wr_enable)
  <2>1. mem_q' = [(IF in.stall THEN mem_q ELSE NoAccess) EXCEPT !.rd_enable = @ /\ ~in.reset]
    BY <1>5 DEF Clock
  <2>2. CASE in.stall
    BY <2>1, <2>2, <1>2 DEF IInv, Types, Accesses
  <2>3. CASE ~in.stall
    BY <2>1, <2>3, <1>2 DEF NoAccess, Accesses
  <2> QED
    BY <1>2, <2>2, <2>3
<1>10. ~Pending'
  <2>1. CASE reset_q'
    BY <2>1 DEF Pending
  <2>2. CASE ~reset_q'
    <3>1. ~in.reset /\ ~in.stall
      BY <1>1, <1>2, <1>3, <2>2
    <3>2. mem_q' = NoAccess
      BY <3>1, <1>5, BusClocked
    <3> QED
      BY <3>2, NoAccessIsOne DEF Pending, Late
  <2> QED
    BY <2>1, <2>2
<1>11. ShownPc' = RESET_ADDR
  <2>1. CASE reset_q'
    BY <2>1 DEF ShownPc
  <2>2. CASE ~reset_q'
    BY <1>2, <1>3, <1>7, <1>10, <2>2 DEF ShownPc
  <2> QED
    BY <2>1, <2>2
<1>12. M!Reset
  BY <1>3, <1>4, <1>10, <1>11
     DEF M!Reset, M!NoCsrs, NoCsrs, ShownOrder, ShownEntering, ShownPacket, NoPacket
<1>13. Types'
  <2>1. csr' \in Csrs
    BY <1>3 DEF NoCsrs, Csrs, Parameters, Addresses
  <2>2. rvfi'.order \in 0 .. MAX_ORDER
    BY <1>3 DEF NoPacket, Parameters
  <2> QED
    BY <1>2, <1>3, <1>8, <1>9, <2>1, <2>2 DEF Types, Csrs, Accesses
<1> QED
  BY <1>3, <1>6, <1>10, <1>12, <1>13
     DEF IInv, Begun, OnBus, OneAtATime, Execute, M!Next
-----------------------------------------------------------------------------
(* What the opcode does to the CSRs, whatever the cycle is.                *)
LEMMA CsrWritten ==
  ASSUME Parameters, Types, NEW in \in Inputs
  PROVE  csr_opcode(in) \in Csrs
<1>1. csr \in Csrs /\ pc \in Addresses
  BY DEF Types
<1>2. csr_wdata(in) \in Csrs
  <2>1. CASE ~csr_mode(in)
    BY <1>1, <2>1 DEF csr_wdata
  <2>2. CASE csr_mode(in)
    <3>1. in.insn \in Insns /\ in.insn.op = "csr"
      BY <2>2, InputTypes DEF csr_mode
    <3>2. /\ in.insn.n \in Nat
          /\ \/ in.insn.csr \in {"mie", "mstatus", "mcause"}
             \/ in.insn.csr = "mtvec" /\ in.insn.n < 2 * WORDS
             \/ in.insn.csr = "mepc" /\ in.insn.n \in Addresses
      BY <3>1 DEF Parameters
    <3>3. CASE in.insn.csr = "mie"
      BY <1>1, <2>2, <3>3 DEF csr_wdata, Csrs
    <3>4. CASE in.insn.csr = "mstatus"
      BY <1>1, <2>2, <3>4 DEF csr_wdata, Csrs
    <3>5. CASE in.insn.csr = "mcause"
      BY <1>1, <2>2, <3>2, <3>5 DEF csr_wdata, Csrs
    <3>6. CASE in.insn.csr = "mtvec" /\ in.insn.n < 2 * WORDS
      <4>1. in.insn.n \in 0 .. 2 * WORDS - 1
        BY <3>2, <3>6 DEF Parameters
      <4> QED
        BY <1>1, <2>2, <3>6, <4>1 DEF csr_wdata, Csrs
    <3>7. CASE in.insn.csr = "mepc" /\ in.insn.n \in Addresses
      BY <1>1, <2>2, <3>7 DEF csr_wdata, Csrs
    <3> QED
      BY <3>2, <3>3, <3>4, <3>5, <3>6, <3>7
  <2> QED
    BY <2>1, <2>2
<1>3. csr.mstatus \in [MIE: BOOLEAN, MPIE: BOOLEAN]
  BY <1>1 DEF Csrs
<1>4. Entry(csr, 3, csr.mstatus.MIE) \in Csrs /\ Entry(csr, 11, csr.mstatus.MIE) \in Csrs
  <2>1. ASSUME NEW c \in Int, NEW b \in BOOLEAN PROVE Entry(csr, c, b) \in Csrs
    BY <1>1 DEF Entry, Csrs
  <2> QED
    BY <1>3, <2>1
<1>5. [csr EXCEPT !.mcause = 0, !.mstatus = [MIE |-> @.MPIE, MPIE |-> @.MPIE]] \in Csrs
  <2>1. ASSUME NEW c \in Int, NEW b \in BOOLEAN
        PROVE  [csr EXCEPT !.mcause = c, !.mstatus = [MIE |-> b, MPIE |-> b]] \in Csrs
    BY <1>1 DEF Csrs
  <2>2. csr.mstatus.MPIE \in BOOLEAN /\ 0 \in Int
    BY <1>3
  <2> QED
    BY <2>1, <2>2, Zenon
<1> QED
  BY <1>2, <1>4, <1>5 DEF csr_opcode

(* An entry that follows overrides all of it but a CSR instruction's.      *)
LEMMA EntryOverrides ==
  ASSUME Parameters, Types, NEW in \in Inputs, ~csr_mode(in),
         NEW cause \in Int, NEW mpie \in BOOLEAN
  PROVE  /\ Entry(csr_opcode(in), cause, mpie) = Entry(csr, cause, mpie)
         /\ Entry(csr, cause, mpie) \in Csrs
<1>1. csr \in Csrs /\ pc \in Addresses
  BY DEF Types
<1>2. csr_opcode(in) \in {csr, Entry(csr, 11, csr.mstatus.MIE), Entry(csr, 3, csr.mstatus.MIE),
                          [csr EXCEPT !.mcause = 0, !.mstatus = [MIE |-> @.MPIE, MPIE |-> @.MPIE]]}
  BY DEF csr_opcode, csr_wdata
<1>3. \A c \in {3, 11} : Entry(Entry(csr, c, csr.mstatus.MIE), cause, mpie) = Entry(csr, cause, mpie)
  BY <1>1 DEF Entry, Csrs
<1>4. Entry([csr EXCEPT !.mcause = 0, !.mstatus = [MIE |-> @.MPIE, MPIE |-> @.MPIE]], cause, mpie)
        = Entry(csr, cause, mpie)
  BY <1>1 DEF Entry, Csrs
<1>5. Entry(csr, cause, mpie) \in Csrs
  BY <1>1 DEF Entry, Csrs
<1> QED
  BY <1>2, <1>3, <1>4, <1>5

(* What a wait does to them is one of the machine's Waited.                *)
LEMMA WaitedCsrs ==
  ASSUME Types, NEW in \in Inputs, ~csr_mode(in), QUIET => Quiet(in)
  PROVE  csr_opcode(in) \in M!Waited(pc)
<1>1. csr_wdata(in) = csr
  BY DEF csr_wdata
<1> QED
  BY <1>1 DEF csr_opcode, Quiet, M!Waited, M!Returned, M!Called, M!Entered, Entry
-----------------------------------------------------------------------------
(* A cycle without access leaves the list of accesses as it is.            *)
LEMMA NothingAccessed ==
  ASSUME IInv, NEW in \in Inputs, Clock(in), Bus(in) = NoAccess, cycle(in) # "reset",
         did # "off"
  PROVE  /\ accessed' = IF rvfi_valid THEN <<>> ELSE accessed
         /\ rvfi_valid => ~Pending
         /\ ~rvfi_valid => accessed = IF Pending THEN <<rvfi.access>> ELSE <<>>
<1>1. ~Bus(in).rd_enable /\ ~Bus(in).wr_enable
  BY NoAccessIsOne
<1>2. accessed' = (IF rvfi_valid THEN <<>> ELSE accessed) \o <<>>
  BY <1>1 DEF Clock
<1>3. /\ rvfi_valid => ~Pending
      /\ ~rvfi_valid => accessed = IF Pending THEN <<rvfi.access>> ELSE <<>>
  BY DEF IInv, Begun, OnBus
<1> QED
  BY <1>2, <1>3

(* A stalled cycle is a Rest of the machine.                               *)
LEMMA StallStep ==
  ASSUME Parameters, IInv, NEW in \in Inputs, Clock(in), cycle(in) = "stall",
         QUIET => Quiet(in)
  PROVE  IInv' /\ Execute
<1>1. ~in.reset /\ ~reset_q /\ in.stall /\ did # "off"
  BY CycleCases, InputTypes DEF IInv
<1>2. Types
  BY DEF IInv
<1>3. /\ pc' = pc /\ csr' = csr_opcode(in) /\ next_rvfi_intr' = next_rvfi_intr
      /\ rvfi_valid' = FALSE /\ rvfi' = rvfi /\ did' = "stall" /\ reset_q' = FALSE
      /\ regfile' = regfile
  BY <1>1 DEF Clock, npc, csr_next, next_rvfi_intrNext, next_rvfi_valid, rvfiNext,
              reset_qNext, Write
<1>4. mem_q' = mem_q
  <2>1. mem_q' = [mem_q EXCEPT !.rd_enable = @ /\ ~in.reset]
    BY <1>1 DEF Clock
  <2> QED
    BY <1>1, <1>2, <2>1 DEF Types, Accesses
<1>5. Pending' = Pending /\ Pending = Late
  BY <1>1, <1>3, <1>4 DEF Pending, Late
<1>6. csr' \in M!Waited(pc) /\ csr' \in Csrs
  BY <1>1, <1>2, <1>3, WaitedCsrs, CsrWritten DEF csr_mode
<1>7. ShownPc' = ShownPc /\ ShownOrder' = ShownOrder /\ ShownEntering' = ShownEntering
      /\ ShownPacket' = None
  BY <1>1, <1>3, <1>5 DEF ShownPc, ShownOrder, ShownEntering, ShownPacket
<1>8. pc = ShownPc \/ pc = M!After
  BY <1>1 DEF IInv, Begun, ShownPc, M!After
<1>9. M!Rest
  BY <1>3, <1>6, <1>7, <1>8 DEF M!Rest
<1>10. Types'
  BY <1>2, <1>3, <1>4, <1>6 DEF Types, Csrs, Accesses
<1>11. Begun'
  <2>1. \A i : Waiting(i)' = Waiting(i)
    BY <1>3, <1>4 DEF Waiting
  <2> QED
    BY <1>1, <1>3, <1>4, <1>5, <2>1 DEF IInv, Begun
<1>12. OnBus'
  <2>1. Bus(in) = NoAccess
    BY BusTypes
  <2> QED
    BY <1>1, <1>3, <1>5, <2>1, NothingAccessed DEF OnBus
<1> QED
  BY <1>3, <1>9, <1>10, <1>11, <1>12 DEF IInv, OneAtATime, Execute, M!Next
-----------------------------------------------------------------------------
(* The second cycle of an access, with or without a fault.                 *)
LEMMA SecondCycle ==
  ASSUME Parameters, IInv, NEW in \in Inputs, Clock(in),
         cycle(in) \in {"late_wr", "dmem_fault"}
  PROVE  /\ ~in.reset /\ ~in.stall /\ ~reset_q /\ Late /\ did # "off" /\ Pending
         /\ ~csr_mode(in) /\ in.dmem_rdata \in Values
         /\ pc = M!After /\ ShownPc = rvfi.pc_rdata /\ ShownOrder = rvfi.order - 1
         /\ ShownEntering = rvfi.intr /\ ~next_rvfi_intr
         /\ rvfi.order \in 1 .. MAX_ORDER
         /\ accessed' = <<rvfi.access>>
         /\ reset_q' = FALSE /\ mem_q' = NoAccess /\ ~Pending'
         /\ rvfi_valid' = TRUE
<1>1. ~in.reset /\ ~in.stall /\ ~reset_q /\ Late /\ did # "off"
  BY CycleCases, InputTypes DEF IInv
<1>2. Pending /\ ~csr_mode(in)
  BY <1>1 DEF Pending, Late, csr_mode
<1>3. in.dmem_rdata \in Values
  BY <1>2, InputTypes
<1>4. Types /\ Begun
  BY DEF IInv
<1>5. /\ ShownPc = rvfi.pc_rdata /\ ShownOrder = rvfi.order - 1 /\ ShownEntering = rvfi.intr
      /\ pc = M!After
  BY <1>1, <1>2, <1>4 DEF ShownPc, ShownOrder, ShownEntering, Begun, M!After
<1>6. rvfi.order \in 1 .. MAX_ORDER /\ ~next_rvfi_intr /\ ~rvfi_valid
  BY <1>1, <1>2, <1>4 DEF Begun, Types
<1>7. Bus(in) = NoAccess
  BY BusTypes
<1>8. accessed' = <<rvfi.access>>
  BY <1>1, <1>2, <1>6, <1>7, NothingAccessed
<1>9. mem_q' = NoAccess /\ reset_q' = FALSE
  BY <1>1, <1>7, BusClocked DEF Clock, reset_qNext
<1>10. ~Pending'
  BY <1>9, NoAccessIsOne DEF Pending, Late
<1>11. rvfi_valid' = TRUE
  BY DEF Clock, next_rvfi_valid
<1> QED
  BY <1>1, <1>2, <1>3, <1>5, <1>6, <1>8, <1>9, <1>10, <1>11

(* Packets with the same fields are the same.                              *)
Alike(p) ==
  [order: {p.order}, insn: {p.insn}, trap: {p.trap}, intr: {p.intr},
   pc_rdata: {p.pc_rdata}, pc_wdata: {p.pc_wdata}, rd_addr: {p.rd_addr},
   rd_wdata: {p.rd_wdata}, access: {p.access}, wdata: {p.wdata}, fault: {p.fault}]

LEMMA SamePacket ==
  ASSUME NEW p, NEW q, p \in Alike(p), q \in Alike(p)
  PROVE  q = p
BY DEF Alike

LEMMA SameFields ==
  ASSUME NEW p, NEW q, p \in Alike(p), q \in Alike(q),
         q.order = p.order, q.insn = p.insn, q.trap = p.trap, q.intr = p.intr,
         q.pc_rdata = p.pc_rdata, q.pc_wdata = p.pc_wdata, q.rd_addr = p.rd_addr,
         q.rd_wdata = p.rd_wdata, q.access = p.access, q.wdata = p.wdata, q.fault = p.fault
  PROVE  q = p
BY SamePacket DEF Alike

LEMMA FirstFields ==
  ASSUME NEW in, NEW q, q = FirstCycle(in)
  PROVE  /\ q \in Alike(q)
         /\ q.order = rvfi.order + 1 /\ q.insn = IF in.imem_fault THEN None ELSE in.insn
         /\ q.trap = (cycle(in) = "trap") /\ q.intr = next_rvfi_intr
         /\ q.pc_rdata = pc /\ q.pc_wdata = npc(in)
         /\ q.rd_addr = IF Write(in).wr THEN Write(in).rd ELSE 0
         /\ q.rd_wdata = IF Write(in).wr /\ Write(in).rd # 0 THEN Write(in).value ELSE 0
         /\ q.access = IF Bus(in).rd_enable THEN "read"
                       ELSE IF Bus(in).wr_enable THEN "write" ELSE "none"
         /\ q.wdata = IF Bus(in).wr_enable THEN regfile[in.insn.n] ELSE 0
         /\ q.fault = IF in.imem_fault THEN "fetch" ELSE "none"
BY DEF FirstCycle, Result, Alike

(* The second cycle of an access is the machine's Load or Store.           *)
LEMMA LateStep ==
  ASSUME Parameters, IInv, NEW in \in Inputs, Clock(in), cycle(in) = "late_wr",
         QUIET => Quiet(in)
  PROVE  IInv' /\ Execute
<1>1. Types /\ Begun /\ did # "off" /\ Pending
  BY SecondCycle DEF IInv
<1>2. PICK i \in Insns : /\ i.op = IF mem_q.rd_enable THEN "load" ELSE "store"
                         /\ mem_q.rd_enable => mem_q.rd = i.rd
                         /\ rvfi = Waiting(i)
  BY <1>1 DEF Begun
<1>3. /\ pc' = pc /\ csr' = csr_opcode(in) /\ next_rvfi_intr' = FALSE /\ did' = "late_wr"
      /\ rvfi' = Result(in, rvfi)
  <2>1. ~in.reset
    BY SecondCycle
  <2>2. next_rvfi_intr' = next_rvfi_intr /\ next_rvfi_intr \in BOOLEAN
    BY <1>1 DEF Clock, next_rvfi_intrNext, Types
  <2> QED
    BY <2>1, <2>2, SecondCycle DEF Clock, npc, csr_next, rvfiNext
<1>4. csr' \in M!Waited(M!After) /\ csr' \in Csrs
  BY <1>1, <1>3, SecondCycle, WaitedCsrs, CsrWritten
<1>5. ShownPc' = pc /\ ShownOrder' = rvfi'.order /\ ShownEntering' = FALSE /\ ShownPacket' = rvfi'
  BY <1>3, SecondCycle DEF ShownPc, ShownOrder, ShownEntering, ShownPacket
<1>6. ShownOrder + 1 = rvfi.order
  <2>1. ShownOrder = rvfi.order - 1
    BY SecondCycle
  <2>2. rvfi.order \in Int
    BY <1>1 DEF Types
  <2> QED
    BY <2>1, <2>2
<1>. DEFINE Retired ==
       /\ M!Next /\ rvfi'.access = rvfi.access /\ rvfi.access # "none"
       /\ rvfi'.order = rvfi.order /\ rvfi'.trap = FALSE
<1>7. ASSUME mem_q.rd_enable PROVE Retired
  <2>. DEFINE v == in.dmem_rdata
              p == [order |-> rvfi.order, insn |-> i, trap |-> FALSE, intr |-> rvfi.intr,
                    pc_rdata |-> rvfi.pc_rdata, pc_wdata |-> pc, rd_addr |-> i.rd,
                    rd_wdata |-> IF i.rd = 0 THEN 0 ELSE v,
                    access |-> "read", wdata |-> 0, fault |-> "none"]
  <2>1. Write(in) = [wr |-> TRUE, rd |-> i.rd, value |-> v]
    BY <1>2, <1>7 DEF Write
  <2>2. rvfi' = p
    <3>1. rvfi' = [rvfi EXCEPT !.rd_addr = i.rd, !.rd_wdata = IF i.rd # 0 THEN v ELSE 0]
      BY <1>3, <2>1 DEF Result
    <3>2. p \in Alike(p) /\ rvfi' \in Alike(p)
      <4>. DEFINE q == [order |-> rvfi.order, insn |-> i, trap |-> FALSE, intr |-> rvfi.intr,
                        pc_rdata |-> rvfi.pc_rdata, pc_wdata |-> pc, rd_addr |-> 0,
                        rd_wdata |-> 0, access |-> "read", wdata |-> 0, fault |-> "none"]
                  w == IF i.rd # 0 THEN v ELSE 0
      <4>1. rvfi = q
        BY <1>2, <1>7 DEF Waiting
      <4>2. w = p.rd_wdata
        OBVIOUS
      <4>3. [q EXCEPT !.rd_addr = i.rd, !.rd_wdata = p.rd_wdata] \in Alike(p) /\ p \in Alike(p)
        BY DEF Alike
      <4>. HIDE DEF q, p
      <4> QED
        BY <3>1, <4>1, <4>2, <4>3
    <3> QED
      BY <3>2, SamePacket
  <2>3. M!Link([M!Packet(i, M!After) EXCEPT !.access = "read"], i.rd, v) = p
    <3>1. /\ p \in Alike(p)
          /\ M!Link([M!Packet(i, M!After) EXCEPT !.access = "read"], i.rd, v) \in Alike(p)
      BY <1>6, SecondCycle, ZenonT(60) DEF M!Link, M!Packet, Alike
    <3> QED
      BY <3>1, SamePacket
  <2>4. regfile' = IF i.rd = 0 THEN regfile ELSE [regfile EXCEPT ![i.rd] = v]
    BY <2>1 DEF Clock
  <2>5. regfile' = IF p.rd_addr = 0 THEN regfile ELSE [regfile EXCEPT ![p.rd_addr] = p.rd_wdata]
    BY <2>4
  <2>6. p.trap = FALSE /\ p.order = rvfi.order /\ p.pc_wdata = pc
    OBVIOUS
  <2>. HIDE DEF p, v
  <2>7. M!Retires(p)
    BY <1>5, <1>6, <2>2, <2>5, <2>6 DEF M!Retires
  <2>8. M!Load(i, v)
    BY <1>2, <1>4, <1>7, <2>3, <2>7 DEF M!Load
  <2>9. v \in Values /\ p.trap = FALSE /\ p.access = "read" /\ p.order = rvfi.order
    BY SecondCycle DEF p, v
  <2>10. M!Next /\ rvfi'.access = rvfi.access /\ rvfi.access # "none" /\ rvfi'.order = rvfi.order
         /\ rvfi'.trap = FALSE
    BY <1>2, <1>7, <2>2, <2>8, <2>9 DEF M!Next, Waiting
  <2> QED
    BY <2>10
<1>8. ASSUME ~mem_q.rd_enable PROVE Retired
  <2>. DEFINE p == [order |-> rvfi.order, insn |-> i, trap |-> FALSE, intr |-> rvfi.intr,
                    pc_rdata |-> rvfi.pc_rdata, pc_wdata |-> pc, rd_addr |-> 0,
                    rd_wdata |-> 0, access |-> "write", wdata |-> regfile[i.n],
                    fault |-> "none"]
  <2>1. Write(in) = [wr |-> FALSE, rd |-> 0, value |-> 0]
    BY <1>8 DEF Write
  <2>2. rvfi' = p
    <3>1. rvfi' = [rvfi EXCEPT !.rd_addr = 0, !.rd_wdata = 0]
      BY <1>3, <2>1 DEF Result
    <3>2. p \in Alike(p) /\ rvfi' \in Alike(p)
      BY <1>2, <1>8, <3>1 DEF Waiting, Alike
    <3> QED
      BY <3>2, SamePacket
  <2>3. [M!Packet(i, M!After) EXCEPT !.access = "write", !.wdata = regfile[i.n]] = p
    <3>1. /\ p \in Alike(p)
          /\ [M!Packet(i, M!After) EXCEPT !.access = "write", !.wdata = regfile[i.n]] \in Alike(p)
      BY <1>6, SecondCycle, ZenonT(60) DEF M!Packet, Alike
    <3> QED
      BY <3>1, SamePacket
  <2>4. regfile' = regfile
    BY <2>1 DEF Clock
  <2>5. p.trap = FALSE /\ p.order = rvfi.order /\ p.pc_wdata = pc /\ p.rd_addr = 0
    OBVIOUS
  <2>. HIDE DEF p
  <2>7. M!Retires(p)
    BY <1>5, <1>6, <2>2, <2>4, <2>5 DEF M!Retires
  <2>8. M!Store(i)
    BY <1>2, <1>4, <1>8, <2>3, <2>7 DEF M!Store
  <2>9. p.access = "write"
    BY DEF p
  <2> QED
    BY <1>2, <1>8, <2>2, <2>5, <2>8, <2>9 DEF M!Next, Waiting
<1>9. Retired
  BY <1>7, <1>8
<1>10. Types'
  BY <1>1, <1>3, <1>4, <1>9, SecondCycle, NoAccessIsOne DEF Types, Csrs, Accesses
<1>11. OneAtATime' /\ Execute
  BY <1>3, <1>9, SecondCycle DEF OneAtATime, Execute
<1> QED
  BY <1>3, <1>10, <1>11, SecondCycle DEF IInv, Begun, OnBus

(* The fault overrides what the opcode on the bus did to the CSRs.         *)
LEMMA FaultStep ==
  ASSUME Parameters, IInv, NEW in \in Inputs, Clock(in), cycle(in) = "dmem_fault"
  PROVE  IInv' /\ Execute
<1>1. Types /\ Begun /\ did # "off" /\ Pending
  BY SecondCycle DEF IInv
<1>2. PICK i \in Insns : /\ i.op = IF mem_q.rd_enable THEN "load" ELSE "store"
                         /\ mem_q.rd_enable => mem_q.rd = i.rd
                         /\ rvfi = Waiting(i)
  BY <1>1 DEF Begun
<1>. DEFINE cause == IF mem_q.wr_enable THEN 7 ELSE 5
<1>3. /\ pc' = handler /\ next_rvfi_intr' = TRUE /\ did' = "dmem_fault"
      /\ csr' = Entry(csr_opcode(in), cause, csr.mstatus.MIE)
      /\ rvfi' = [rvfi EXCEPT !.trap = TRUE, !.rd_addr = 0, !.rd_wdata = 0,
                              !.fault = rvfi.access, !.access = "none"]
      /\ regfile' = regfile
  <2>1. ~in.reset
    BY SecondCycle
  <2> QED
    BY <2>1 DEF Clock, npc, csr_next, rvfiNext, next_rvfi_intrNext, Write
<1>4. csr' = M!Called(M!After, cause) /\ csr' \in Csrs
  <2>1. cause \in Int /\ csr.mstatus.MIE \in BOOLEAN
    BY <1>1 DEF Types, Csrs
  <2>2. csr' = Entry(csr, cause, csr.mstatus.MIE) /\ csr' \in Csrs
    BY <1>1, <1>3, <2>1, SecondCycle, EntryOverrides
  <2> QED
    BY <2>2, SecondCycle DEF Entry, M!Called, M!Entered
<1>5. ShownPc' = handler /\ ShownOrder' = rvfi'.order /\ ShownEntering' = TRUE /\ ShownPacket' = rvfi'
  BY <1>3, SecondCycle DEF ShownPc, ShownOrder, ShownEntering, ShownPacket
<1>6. ShownOrder + 1 = rvfi.order
  <2>1. ShownOrder = rvfi.order - 1
    BY SecondCycle
  <2>2. rvfi.order \in Int
    BY <1>1 DEF Types
  <2> QED
    BY <2>1, <2>2
<1>7. mem_q.rd_enable <=> cause = 5
  <2>1. /\ mem_q.rd_enable \in BOOLEAN /\ mem_q.wr_enable \in BOOLEAN
        /\ ~(mem_q.rd_enable /\ mem_q.wr_enable)
    BY <1>1 DEF Types, Accesses
  <2>2. mem_q.rd_enable \/ mem_q.wr_enable
    BY SecondCycle DEF Late
  <2> QED
    BY <2>1, <2>2
<1>. DEFINE kind == IF mem_q.rd_enable THEN "read" ELSE "write"
            word == IF mem_q.rd_enable THEN 0 ELSE regfile[i.n]
            p == [order |-> rvfi.order, insn |-> i, trap |-> TRUE, intr |-> rvfi.intr,
                  pc_rdata |-> rvfi.pc_rdata, pc_wdata |-> pc, rd_addr |-> 0,
                  rd_wdata |-> 0, access |-> "none", wdata |-> word, fault |-> kind]
            q == [order |-> rvfi.order, insn |-> i, trap |-> FALSE, intr |-> rvfi.intr,
                  pc_rdata |-> rvfi.pc_rdata, pc_wdata |-> pc, rd_addr |-> 0,
                  rd_wdata |-> 0, access |-> kind, wdata |-> word, fault |-> "none"]
<1>8. rvfi = q /\ rvfi.access = kind
  BY <1>2 DEF Waiting
<1>9. rvfi' = p
  <2>1. [q EXCEPT !.trap = TRUE, !.rd_addr = 0, !.rd_wdata = 0, !.fault = kind,
                  !.access = "none"] \in Alike(p) /\ p \in Alike(p)
    BY DEF Alike
  <2>. HIDE DEF p, q, kind
  <2> QED
    BY <1>3, <1>8, <2>1, SamePacket
<1>10. p.order = rvfi.order /\ p.trap = TRUE /\ p.rd_addr = 0 /\ p.access = "none"
       /\ p.fault = kind
  OBVIOUS
<1>11. M!Retires(p)
  <2>. HIDE DEF p
  <2> QED
    BY <1>3, <1>5, <1>6, <1>9, <1>10 DEF M!Retires, M!Handler, handler
<1>12. M!AccessFault(i)
  <2>1. CASE mem_q.rd_enable
    <3>1. /\ p \in Alike(p)
          /\ [M!Packet(i, M!After) EXCEPT !.trap = TRUE, !.fault = "read"] \in Alike(p)
      BY <1>6, <2>1, SecondCycle, ZenonT(60) DEF M!Packet, Alike
    <3> QED
      BY <1>2, <1>4, <1>7, <1>11, <2>1, <3>1, SamePacket DEF M!AccessFault
  <2>2. CASE ~mem_q.rd_enable
    <3>1. /\ p \in Alike(p)
          /\ [M!Packet(i, M!After) EXCEPT !.trap = TRUE, !.fault = "write",
                                          !.wdata = regfile[i.n]] \in Alike(p)
      BY <1>6, <2>2, SecondCycle, ZenonT(60) DEF M!Packet, Alike
    <3>2. cause = 7
      BY <1>7, <2>2
    <3> QED
      BY <1>2, <1>4, <1>11, <2>2, <3>1, <3>2, SamePacket DEF M!AccessFault
  <2> QED
    BY <2>1, <2>2
<1>. HIDE DEF p, q
<1>13. Types'
  <2>1. handler \in Addresses
    BY <1>1 DEF Types, Csrs, handler, Addresses, Parameters
  <2> QED
    BY <1>1, <1>3, <1>4, <1>9, <1>10, <2>1, SecondCycle, NoAccessIsOne
       DEF Types, Csrs, Accesses
<1>14. OneAtATime'
  <2>1. rvfi'.access = "none" /\ rvfi'.fault = rvfi.access /\ rvfi'.fault \in {"read", "write"}
    BY <1>8, <1>9, <1>10
  <2> QED
    BY <1>3, <2>1, SecondCycle DEF OneAtATime
<1>15. Execute
  BY <1>8, <1>9, <1>10, <1>12 DEF Execute, M!Next
<1> QED
  BY <1>3, <1>13, <1>14, <1>15, SecondCycle DEF IInv, Begun, OnBus
-----------------------------------------------------------------------------
(* An interrupt.                                                           *)
LEMMA IntrStep ==
  ASSUME Parameters, IInv, NEW in \in Inputs, Clock(in), cycle(in) = "intr"
  PROVE  IInv' /\ Execute
<1>1. Types
  BY DEF IInv
<1>2. /\ ~in.reset /\ ~in.stall /\ ~reset_q /\ ~Late /\ did # "off"
      /\ irq_num(in.irq) # 0 /\ ~csr_mode(in)
  BY <1>1, CycleCases, InputTypes DEF csr_mode
<1>. DEFINE n == irq_num(in.irq)
<1>3. n \in Nat /\ n \in csr.mie /\ n \in Irqs
  BY <1>1, <1>2, HighestIrq
<1>4. /\ pc' = IF csr.mtvec % 2 = 1 THEN (handler + n) % WORDS ELSE handler
      /\ csr' = Entry(csr_opcode(in), -n, TRUE) /\ next_rvfi_intr' = TRUE
      /\ rvfi_valid' = FALSE /\ rvfi' = rvfi /\ did' = "intr" /\ reset_q' = FALSE
      /\ regfile' = regfile
  BY <1>2 DEF Clock, npc, csr_next, rvfiNext, next_rvfi_intrNext, next_rvfi_valid,
              reset_qNext, Write
<1>5. Bus(in) = NoAccess /\ mem_q' = NoAccess
  BY <1>2, BusTypes, BusClocked
<1>6. ~Pending /\ ~Pending'
  BY <1>2, <1>5, NoAccessIsOne DEF Pending, Late
<1>7. csr' = Entry(csr, -n, TRUE) /\ csr' \in Csrs
  <2>1. -n \in Int
    BY <1>3
  <2> QED
    BY <1>1, <1>2, <1>4, <2>1, EntryOverrides
<1>8. /\ ShownPc = pc /\ ShownPc' = pc' /\ ShownOrder' = ShownOrder
      /\ ShownEntering' = TRUE /\ ShownPacket' = None
  BY <1>2, <1>4, <1>6 DEF ShownPc, ShownOrder, ShownEntering, ShownPacket
<1>9. M!Interrupt(n)
  BY <1>3, <1>4, <1>7, <1>8
     DEF M!Interrupt, M!Vectored, M!Handler, M!Entered, handler, Entry
<1>10. Types'
  <2>1. handler \in Addresses /\ handler + n \in Nat
    BY <1>1, <1>3 DEF Types, Csrs, handler, Addresses, Parameters
  <2>2. pc' \in Addresses
    BY <1>4, <2>1, Word
  <2> QED
    BY <1>1, <1>4, <1>5, <1>7, <2>2, NoAccessIsOne DEF Types, Csrs, Accesses
<1>11. OnBus'
  BY <1>2, <1>4, <1>5, <1>6, NothingAccessed DEF OnBus
<1> QED
  BY <1>3, <1>4, <1>6, <1>9, <1>10, <1>11 DEF IInv, Begun, OneAtATime, Execute, M!Next

(* What comes before an instruction, or its trap, runs.                    *)
LEMMA FirstStep ==
  ASSUME Parameters, IInv, NEW in \in Inputs, Clock(in), cycle(in) \in {"trap", "insn"}
  PROVE  /\ ~in.reset /\ ~in.stall /\ ~reset_q /\ ~Late /\ did # "off"
         /\ irq_num(in.irq) = 0 /\ ~Pending
         /\ cycle(in) = "trap" => in.imem_fault \/ illinsn(in)
         /\ cycle(in) = "insn" => ~in.imem_fault /\ ~illinsn(in)
         /\ ShownPc = pc /\ ShownOrder = rvfi.order /\ ShownEntering = next_rvfi_intr
         /\ reset_q' = FALSE /\ mem_q' = Bus(in)
         /\ pc' = npc(in) /\ rvfi' = FirstCycle(in)
         /\ (IF rvfi_valid THEN <<>> ELSE accessed) = <<>>
<1>1. Types
  BY DEF IInv
<1>2. /\ ~in.reset /\ ~in.stall /\ ~reset_q /\ ~Late /\ did # "off"
      /\ irq_num(in.irq) = 0
      /\ cycle(in) = "trap" => in.imem_fault \/ illinsn(in)
      /\ cycle(in) = "insn" => ~in.imem_fault /\ ~illinsn(in)
  BY <1>1, CycleCases, InputTypes
<1>3. ~Pending
  BY <1>2 DEF Pending
<1>4. /\ ShownPc = pc /\ ShownOrder = rvfi.order /\ ShownEntering = next_rvfi_intr
  BY <1>2, <1>3 DEF ShownPc, ShownOrder, ShownEntering
<1>5. reset_q' = FALSE /\ mem_q' = Bus(in) /\ pc' = npc(in) /\ rvfi' = FirstCycle(in)
  BY <1>2, BusClocked DEF Clock, reset_qNext, rvfiNext
<1>6. (IF rvfi_valid THEN <<>> ELSE accessed) = <<>>
  BY <1>2, <1>3 DEF IInv, OnBus
<1> QED
  BY <1>2, <1>3, <1>4, <1>5, <1>6

(* A fault of the fetch or an illegal instruction.                         *)
LEMMA TrapStep ==
  ASSUME Parameters, IInv, NEW in \in Inputs, Clock(in), cycle(in) = "trap",
         rvfi.order < MAX_ORDER
  PROVE  IInv' /\ Execute
<1>1. Types /\ in.insn \in Insns /\ in.imem_fault \in BOOLEAN
  BY InputTypes DEF IInv
<1>2. Bus(in) = NoAccess /\ mem_q' = NoAccess /\ ~Pending' /\ did # "off" /\ ~Late
  BY BusTypes, FirstStep, NoAccessIsOne DEF Pending, Late
<1>3. ~csr_mode(in)
  BY FirstStep DEF csr_mode, illinsn
<1>. DEFINE cause == IF in.imem_fault THEN 1 ELSE 2
<1>4. /\ pc' = handler /\ next_rvfi_intr' = TRUE /\ did' = "trap" /\ rvfi_valid' = TRUE
      /\ csr' = Entry(csr_opcode(in), cause, csr.mstatus.MIE)
      /\ regfile' = regfile
  BY FirstStep DEF Clock, npc, csr_next, next_rvfi_intrNext, next_rvfi_valid, Write
<1>5. csr' = M!Called(ShownPc, cause) /\ csr' \in Csrs
  <2>1. cause \in Int /\ csr.mstatus.MIE \in BOOLEAN
    BY <1>1 DEF Types, Csrs
  <2>2. csr' = Entry(csr, cause, csr.mstatus.MIE) /\ csr' \in Csrs
    BY <1>1, <1>3, <1>4, <2>1, EntryOverrides
  <2> QED
    BY <2>2, FirstStep DEF Entry, M!Called, M!Entered
<1>6. ShownPc' = handler /\ ShownOrder' = rvfi'.order /\ ShownEntering' = TRUE /\ ShownPacket' = rvfi'
  BY <1>2, <1>4, FirstStep DEF ShownPc, ShownOrder, ShownEntering, ShownPacket
<1>. DEFINE i == IF in.imem_fault THEN None ELSE in.insn
            f == IF in.imem_fault THEN "fetch" ELSE "none"
            p == [order |-> rvfi.order + 1, insn |-> i, trap |-> TRUE,
                  intr |-> next_rvfi_intr, pc_rdata |-> pc, pc_wdata |-> handler,
                  rd_addr |-> 0, rd_wdata |-> 0, access |-> "none", wdata |-> 0,
                  fault |-> f]
<1>7. rvfi' = p
  <2>1. Write(in) = [wr |-> FALSE, rd |-> 0, value |-> 0]
    BY DEF Write
  <2>2. npc(in) = handler /\ Bus(in) = NoAccess
    BY <1>2 DEF npc
  <2>3. p \in Alike(p)
    BY DEF Alike
  <2>. DEFINE q == FirstCycle(in)
  <2>4. /\ q \in Alike(q) /\ q.order = p.order /\ q.insn = p.insn /\ q.trap = p.trap
        /\ q.intr = p.intr /\ q.pc_rdata = p.pc_rdata /\ q.pc_wdata = p.pc_wdata
        /\ q.rd_addr = p.rd_addr /\ q.rd_wdata = p.rd_wdata /\ q.access = p.access
        /\ q.wdata = p.wdata /\ q.fault = p.fault
    <3>1. q = FirstCycle(in)
      OBVIOUS
    <3>. HIDE DEF q
    <3>2. q \in Alike(q) /\ q.order = p.order
      BY <3>1, FirstFields
    <3>3. q.insn = p.insn
      BY <3>1, FirstFields
    <3>4. q.trap = p.trap
      BY <3>1, FirstFields
    <3>5. q.intr = p.intr /\ q.pc_rdata = p.pc_rdata /\ q.pc_wdata = p.pc_wdata
      BY <2>2, <3>1, FirstFields
    <3>6. q.rd_addr = p.rd_addr /\ q.rd_wdata = p.rd_wdata
      <4>1. ~Write(in).wr
        BY <2>1
      <4> QED
        BY <3>1, <4>1, FirstFields, ZenonT(60)
    <3>7. q.access = p.access /\ q.wdata = p.wdata
      BY <2>2, <3>1, NoAccessIsOne, FirstFields, ZenonT(60)
    <3>8. q.fault = p.fault
      BY <3>1, FirstFields, ZenonT(60)
    <3> QED
      BY <3>2, <3>3, <3>4, <3>5, <3>6, <3>7, <3>8
  <2>5. rvfi' = q
    BY FirstStep
  <2>. HIDE DEF p, q
  <2> QED
    BY <2>3, <2>4, <2>5, SameFields
<1>8. p.order = rvfi.order + 1 /\ p.trap = TRUE /\ p.rd_addr = 0 /\ p.access = "none"
      /\ p.fault = f /\ p.insn = i
  OBVIOUS
<1>9. M!Retires(p)
  <2>. HIDE DEF p
  <2> QED
    BY <1>4, <1>6, <1>7, <1>8, FirstStep DEF M!Retires, M!Handler, handler
<1>10. ASSUME in.imem_fault PROVE Execute
  <2>1. p \in Alike(p) /\ [M!Packet(None, M!Handler) EXCEPT !.trap = TRUE, !.fault = "fetch"] \in Alike(p)
    BY <1>10, FirstStep, ZenonT(60) DEF M!Packet, M!Handler, handler, Alike
  <2>. HIDE DEF p
  <2>2. M!FetchFault
    BY <1>5, <1>9, <1>10, <2>1, SamePacket DEF M!FetchFault
  <2> QED
    BY <1>7, <1>8, <1>10, <2>2 DEF Execute, M!Next
<1>11. ASSUME ~in.imem_fault PROVE Execute
  <2>1. /\ p \in Alike(p)
        /\ [M!Packet(in.insn, M!Handler) EXCEPT !.trap = TRUE] \in Alike(p)
    BY <1>11, FirstStep, ZenonT(60) DEF M!Packet, M!Handler, handler, Alike
  <2>2. in.insn.op = "illegal" \/ (in.insn.op = "csr" /\ ~csr_mode(in))
    BY <1>11, FirstStep DEF illinsn
  <2>3. in.insn.op = "csr" => ~FAULT /\ mem_q.wr_enable
    <3>1. /\ mem_q.rd_enable \in BOOLEAN /\ mem_q.wr_enable \in BOOLEAN /\ FAULT \in BOOLEAN
          /\ in.stall \in BOOLEAN /\ in.reset \in BOOLEAN /\ reset_q \in BOOLEAN
      BY <1>1, InputTypes DEF Types, Accesses, Parameters
    <3>2. /\ ~in.reset /\ ~in.stall /\ ~reset_q /\ ~Late /\ irq_num(in.irq) = 0
      BY FirstStep
    <3> QED
      BY <1>3, <1>11, <3>1, <3>2 DEF csr_mode, Late
  <2>. HIDE DEF p
  <2>4. M!Illegal(in.insn)
    BY <1>5, <1>9, <1>11, <2>1, <2>2, <2>3, SamePacket DEF M!Illegal
  <2>5. M!Next
    BY <1>1, <2>4 DEF M!Next
  <2>6. rvfi'.insn = in.insn
    BY <1>7, <1>8, <1>11
  <2> QED
    BY <2>3, <2>5, <2>6 DEF Execute
<1>. HIDE DEF p
<1>12. Types'
  <2>1. handler \in Addresses
    BY <1>1 DEF Types, Csrs, handler, Addresses, Parameters
  <2>2. rvfi.order + 1 \in 0 .. MAX_ORDER
    BY <1>1 DEF Types, Parameters
  <2> QED
    BY <1>1, <1>2, <1>4, <1>5, <1>7, <1>8, <2>1, <2>2, FirstStep, NoAccessIsOne,
      ZenonT(60) DEF Types, Csrs, Accesses
<1>13. accessed' = <<>>
  <2>. DEFINE before == IF rvfi_valid THEN <<>> ELSE accessed
  <2>1. accessed' = before \o <<>>
    BY <1>2, NoAccessIsOne DEF Clock
  <2>2. before = <<>>
    BY FirstStep
  <2>. HIDE DEF before
  <2> QED
    BY <2>1, <2>2
<1>14. OneAtATime'
  BY <1>4, <1>7, <1>8, <1>13 DEF OneAtATime
<1> QED
  BY <1>1, <1>2, <1>4, <1>10, <1>11, <1>12, <1>14 DEF IInv, Begun, OnBus
-----------------------------------------------------------------------------
(* The first cycle of an access, which the machine does not see.           *)
LEMMA BeginStep ==
  ASSUME Parameters, IInv, NEW in \in Inputs, Clock(in), cycle(in) = "insn",
         rvfi.order < MAX_ORDER,
         in.insn.op = "load" \/ (FAULT /\ in.insn.op = "store")
  PROVE  IInv' /\ Execute
<1>1. Types /\ in.insn \in Insns
  BY InputTypes DEF IInv
<1>. DEFINE i == in.insn
            load == i.op = "load"
<1>2. /\ Bus(in) \in Accesses /\ mem_q' = Bus(in)
      /\ Bus(in).rd_enable = load /\ Bus(in).wr_enable = ~load
      /\ Bus(in).rd = IF load THEN i.rd ELSE 0
      /\ ~(Bus(in).rd_enable /\ Bus(in).wr_enable)
  BY BusTypes, FirstStep DEF Bus, NoAccess
<1>3. Pending' /\ ~Late /\ did # "off"
  BY <1>2, FirstStep DEF Pending, Late
<1>4. /\ next_rvfi_intr' = FALSE /\ did' = "insn" /\ rvfi_valid' = FALSE
      /\ csr' = csr /\ regfile' = regfile /\ pc' = (pc + 1) % WORDS
  <2>1. csr_opcode(in) = csr
    BY DEF csr_opcode, csr_wdata, csr_mode
  <2>2. npc(in) = (pc + 1) % WORDS
    BY DEF npc, npc_opcode
  <2>3. Write(in).wr = FALSE
    BY DEF Write
  <2>4. ~next_rvfi_valid(in)
    BY <1>2 DEF next_rvfi_valid
  <2> QED
    BY <2>1, <2>2, <2>3, <2>4, FirstStep DEF Clock, csr_next, next_rvfi_intrNext, next_rvfi_valid
<1>. DEFINE kind == IF load THEN "read" ELSE "write"
            p == [order |-> rvfi.order + 1, insn |-> i, trap |-> FALSE,
                  intr |-> next_rvfi_intr, pc_rdata |-> pc,
                  pc_wdata |-> (pc + 1) % WORDS, rd_addr |-> 0, rd_wdata |-> 0,
                  access |-> kind, wdata |-> IF load THEN 0 ELSE regfile[i.n],
                  fault |-> "none"]
<1>5. rvfi' = p
  <2>1. Write(in) = [wr |-> FALSE, rd |-> 0, value |-> 0]
    BY DEF Write
  <2>2. npc(in) = (pc + 1) % WORDS
    BY DEF npc, npc_opcode
  <2>3. ~in.imem_fault
    BY FirstStep
  <2>4. p \in Alike(p)
    BY DEF Alike
  <2>. DEFINE q == FirstCycle(in)
  <2>5. /\ q \in Alike(q) /\ q.order = p.order /\ q.insn = p.insn /\ q.trap = p.trap
        /\ q.intr = p.intr /\ q.pc_rdata = p.pc_rdata /\ q.pc_wdata = p.pc_wdata
        /\ q.rd_addr = p.rd_addr /\ q.rd_wdata = p.rd_wdata /\ q.access = p.access
        /\ q.wdata = p.wdata /\ q.fault = p.fault
    <3>1. q = FirstCycle(in)
      OBVIOUS
    <3>. HIDE DEF q
    <3>2. q \in Alike(q) /\ q.order = p.order
      BY <3>1, FirstFields
    <3>3. q.insn = p.insn /\ q.fault = p.fault
      BY <2>3, <3>1, FirstFields
    <3>4. q.trap = p.trap
      BY <3>1, FirstFields
    <3>5. q.intr = p.intr /\ q.pc_rdata = p.pc_rdata /\ q.pc_wdata = p.pc_wdata
      BY <2>2, <3>1, FirstFields
    <3>6. q.rd_addr = p.rd_addr /\ q.rd_wdata = p.rd_wdata
      <4>1. ~Write(in).wr
        BY <2>1
      <4> QED
        BY <3>1, <4>1, FirstFields
    <3>7. q.access = p.access /\ q.wdata = p.wdata
      <4>1. Bus(in).rd_enable = load /\ Bus(in).wr_enable = ~load
        BY <1>2
      <4> QED
        BY <3>1, <4>1, FirstFields, ZenonT(60)
    <3> QED
      BY <3>2, <3>3, <3>4, <3>5, <3>6, <3>7
  <2>6. rvfi' = q
    BY FirstStep
  <2>. HIDE DEF p, q
  <2> QED
    BY <2>4, <2>5, <2>6, SameFields
<1>6. /\ p.order = rvfi.order + 1 /\ p.intr = next_rvfi_intr /\ p.pc_rdata = pc
      /\ p.access = kind
  OBVIOUS
<1>7. Waiting(i)' = p
  BY <1>2, <1>4, <1>5 DEF Waiting
<1>. HIDE DEF p
<1>8. rvfi'.order - 1 = rvfi.order /\ rvfi'.order # 0 /\ rvfi'.order \in 0 .. MAX_ORDER
  BY <1>1, <1>5, <1>6 DEF Types, Parameters
<1>9. /\ ShownPc' = ShownPc /\ ShownOrder' = ShownOrder /\ ShownEntering' = ShownEntering
      /\ ShownPacket' = None
  BY <1>3, <1>4, <1>5, <1>6, <1>8, FirstStep DEF ShownPc, ShownOrder, ShownEntering, ShownPacket
<1>10. Execute
  BY <1>4, <1>9 DEF Execute, M!Next, M!Rest, M!Waited
<1>11. Types'
  <2>1. pc + 1 \in Nat
    BY <1>1 DEF Types, Addresses, Parameters
  <2> QED
    BY <1>1, <1>2, <1>4, <1>8, <2>1, Word, FirstStep DEF Types, Csrs, Accesses
<1>12. Begun'
  <2>1. i.op = IF mem_q'.rd_enable THEN "load" ELSE "store"
    BY <1>2
  <2>2. mem_q'.rd_enable => mem_q'.rd = i.rd
    BY <1>2
  <2> QED
    BY <1>1, <1>4, <1>5, <1>6, <1>7, <1>8, <2>1, <2>2 DEF Begun
<1>13. OnBus' /\ OneAtATime'
  <2>1. accessed' = <<>> \o <<kind>>
    BY <1>2, FirstStep DEF Clock
  <2>2. Late'
    BY <1>3 DEF Pending
  <2> QED
    BY <1>3, <1>4, <1>5, <1>6, <2>1, <2>2 DEF OnBus, OneAtATime
<1> QED
  BY <1>10, <1>11, <1>12, <1>13 DEF IInv

(* An instruction that retires in its only cycle.                          *)
LEMMA InsnStep ==
  ASSUME Parameters, IInv, NEW in \in Inputs, Clock(in), cycle(in) = "insn",
         rvfi.order < MAX_ORDER,
         ~(in.insn.op = "load" \/ (FAULT /\ in.insn.op = "store"))
  PROVE  IInv' /\ Execute
<1>. DEFINE i == in.insn
            store == i.op = "store"
            after == (pc + 1) % WORDS
            rd == IF i.op \in {"alu", "jal"} THEN i.rd ELSE 0
            value == IF i.op = "alu" THEN i.n ELSE after
            acc == IF store THEN "write" ELSE "none"
            word == IF store THEN regfile[i.n] ELSE 0
            next == npc_opcode(in)
            p == [order |-> rvfi.order + 1, insn |-> i, trap |-> FALSE,
                  intr |-> next_rvfi_intr, pc_rdata |-> pc, pc_wdata |-> next,
                  rd_addr |-> rd, rd_wdata |-> IF rd = 0 THEN 0 ELSE value,
                  access |-> acc, wdata |-> word, fault |-> "none"]
<1>1. /\ Types /\ i \in Insns /\ i.n \in Nat
      /\ i.op \in {"alu", "jal", "wfi", "store", "csr", "ecall", "ebreak", "mret"}
  <2>1. i \in Insns /\ i.op # "illegal" /\ i.op # "load"
    BY InputTypes, FirstStep DEF illinsn
  <2> QED
    BY <2>1 DEF Parameters, IInv
<1>2. /\ Bus(in) \in Accesses /\ mem_q' = Bus(in)
      /\ Bus(in).rd_enable = FALSE /\ Bus(in).wr_enable = store
  BY BusTypes, FirstStep DEF Bus, NoAccess
<1>3. ~Pending' /\ ~Late' /\ did # "off"
  BY <1>2, FirstStep DEF Pending, Late
<1>4. /\ next_rvfi_intr' = FALSE /\ did' = "insn" /\ rvfi_valid' = TRUE
      /\ csr' = csr_opcode(in) /\ pc' = next
  <2>1. next_rvfi_valid(in) = TRUE
    BY <1>2 DEF next_rvfi_valid
  <2> QED
    BY <2>1, FirstStep DEF Clock, csr_next, next_rvfi_intrNext, npc
<1>5. /\ Write(in).wr <=> i.op \in {"alu", "jal"}
      /\ Write(in).wr => Write(in).rd = i.rd /\ Write(in).value = value
  <2>1. CASE i.op = "alu"
    BY <2>1 DEF Write
  <2>2. CASE i.op = "jal"
    BY <2>2 DEF Write
  <2>3. CASE i.op \notin {"alu", "jal"}
    BY <2>3 DEF Write
  <2> QED
    BY <2>1, <2>2, <2>3
<1>6. regfile' = IF rd = 0 THEN regfile ELSE [regfile EXCEPT ![rd] = value]
  BY <1>5 DEF Clock
<1>7. rvfi' = p
  <2>1. npc(in) = next
    BY DEF npc
  <2>2. p \in Alike(p)
    BY DEF Alike
  <2>. DEFINE q == FirstCycle(in)
  <2>3. /\ q \in Alike(q) /\ q.order = p.order /\ q.insn = p.insn /\ q.trap = p.trap
        /\ q.intr = p.intr /\ q.pc_rdata = p.pc_rdata /\ q.pc_wdata = p.pc_wdata
        /\ q.rd_addr = p.rd_addr /\ q.rd_wdata = p.rd_wdata /\ q.access = p.access
        /\ q.wdata = p.wdata /\ q.fault = p.fault
    <3>1. q = FirstCycle(in) /\ ~in.imem_fault
      BY FirstStep
    <3>. HIDE DEF q
    <3>2. q \in Alike(q) /\ q.order = p.order
      BY <3>1, FirstFields
    <3>3. q.insn = p.insn /\ q.fault = p.fault
      BY <3>1, FirstFields
    <3>4. q.trap = p.trap
      BY <3>1, FirstFields
    <3>5. q.intr = p.intr /\ q.pc_rdata = p.pc_rdata /\ q.pc_wdata = p.pc_wdata
      BY <2>1, <3>1, FirstFields
    <3>6. q.rd_addr = p.rd_addr /\ q.rd_wdata = p.rd_wdata
      BY <1>5, <3>1, FirstFields, ZenonT(60)
    <3>7. q.access = p.access /\ q.wdata = p.wdata
      BY <1>2, <3>1, FirstFields, ZenonT(60)
    <3> QED
      BY <3>2, <3>3, <3>4, <3>5, <3>6, <3>7
  <2>4. rvfi' = q
    BY FirstStep
  <2>. HIDE DEF p, q
  <2> QED
    BY <2>2, <2>3, <2>4, SameFields
<1>8. /\ p.order = rvfi.order + 1 /\ p.trap = FALSE /\ p.rd_addr = rd
      /\ p.rd_wdata = IF rd = 0 THEN 0 ELSE value
      /\ p.access = acc /\ p.fault = "none" /\ p.pc_wdata = next
  OBVIOUS
<1>9. /\ ShownPc' = next /\ ShownOrder' = rvfi'.order /\ ShownEntering' = FALSE
      /\ ShownPacket' = rvfi'
  BY <1>3, <1>4, FirstStep DEF ShownPc, ShownOrder, ShownEntering, ShownPacket
<1>10. M!Retires(p)
  <2>. HIDE DEF p
  <2> QED
    BY <1>4, <1>6, <1>7, <1>8, <1>9, FirstStep DEF M!Retires
<1>11. M!After = after /\ M!Handler = handler
  BY FirstStep DEF M!After, M!Handler, handler
<1>12. M!Next
  <2>1. CASE i.op = "alu"
    <3>1. p \in Alike(p) /\ M!Link(M!Packet(i, M!After), i.rd, i.n) \in Alike(p)
      <4>1. rd = i.rd /\ value = i.n /\ acc = "none" /\ word = 0 /\ next = after
        BY <2>1 DEF npc_opcode
      <4>2. p \in Alike(p)
        BY DEF Alike
      <4>. DEFINE q == [order |-> rvfi.order + 1, insn |-> i, trap |-> FALSE,
                        intr |-> next_rvfi_intr, pc_rdata |-> pc, pc_wdata |-> after,
                        rd_addr |-> 0, rd_wdata |-> 0, access |-> "none", wdata |-> 0,
                        fault |-> "none"]
      <4>3. M!Packet(i, M!After) = q
        BY <1>11, FirstStep DEF M!Packet
      <4>4. [q EXCEPT !.rd_addr = i.rd, !.rd_wdata = IF i.rd = 0 THEN 0 ELSE i.n] \in Alike(p)
        <5>. HIDE DEF rd, value, acc, word, next
        <5> QED
          BY <4>1 DEF Alike
      <4>. HIDE DEF p, q
      <4> QED
        BY <1>11, <4>2, <4>3, <4>4 DEF M!Link
    <3>2. csr' = csr
      BY <1>4, <2>1 DEF csr_opcode, csr_wdata, csr_mode
    <3> QED
      BY <1>1, <1>10, <2>1, <3>1, <3>2, SamePacket DEF M!Compute, M!Next
  <2>2. CASE i.op = "jal"
    <3>1. p \in Alike(p) /\ M!Link(M!Packet(i, i.n), i.rd, M!After) \in Alike(p)
      <4>1. rd = i.rd /\ value = after /\ acc = "none" /\ word = 0 /\ next = i.n
        BY <2>2 DEF npc_opcode
      <4>2. p \in Alike(p)
        BY DEF Alike
      <4>. DEFINE q == [order |-> rvfi.order + 1, insn |-> i, trap |-> FALSE,
                        intr |-> next_rvfi_intr, pc_rdata |-> pc, pc_wdata |-> i.n,
                        rd_addr |-> 0, rd_wdata |-> 0, access |-> "none", wdata |-> 0,
                        fault |-> "none"]
      <4>3. M!Packet(i, i.n) = q
        BY <1>11, FirstStep DEF M!Packet
      <4>4. [q EXCEPT !.rd_addr = i.rd, !.rd_wdata = IF i.rd = 0 THEN 0 ELSE after] \in Alike(p)
        <5>. HIDE DEF rd, value, acc, word, next
        <5> QED
          BY <4>1 DEF Alike
      <4>. HIDE DEF p, q
      <4> QED
        BY <1>11, <4>2, <4>3, <4>4 DEF M!Link
    <3>2. csr' = csr
      BY <1>4, <2>2 DEF csr_opcode, csr_wdata, csr_mode
    <3> QED
      BY <1>1, <1>10, <2>2, <3>1, <3>2, SamePacket DEF M!Compute, M!Next
  <2>3. CASE i.op = "wfi"
    <3>1. p \in Alike(p) /\ M!Packet(i, M!After) \in Alike(p)
      BY <1>11, <2>3, FirstStep, ZenonT(60) DEF M!Packet, Alike, npc_opcode
    <3>2. csr' = csr
      BY <1>4, <2>3 DEF csr_opcode, csr_wdata, csr_mode
    <3> QED
      BY <1>1, <1>10, <2>3, <3>1, <3>2, SamePacket DEF M!Compute, M!Next
  <2>4. CASE i.op = "store"
    <3>1. /\ p \in Alike(p)
          /\ [M!Packet(i, M!After) EXCEPT !.access = "write", !.wdata = regfile[i.n]] \in Alike(p)
      <4>1. rd = 0 /\ acc = "write" /\ word = regfile[i.n] /\ next = after
        BY <2>4 DEF npc_opcode
      <4>. HIDE DEF rd, value, acc, word, next
      <4> QED
        BY <1>11, <4>1, FirstStep, ZenonT(60) DEF M!Packet, Alike
    <3>2. csr' = csr
      BY <1>4, <2>4 DEF csr_opcode, csr_wdata, csr_mode
    <3> QED
      BY <1>1, <1>10, <2>4, <3>1, <3>2, SamePacket DEF M!Store, M!Waited, M!Next
  <2>5. CASE i.op = "csr"
    <3>1. p \in Alike(p) /\ M!Packet(i, M!After) \in Alike(p)
      BY <1>11, <2>5, FirstStep, ZenonT(60) DEF M!Packet, Alike, npc_opcode
    <3>2. csr' = M!Written(i)
      <4>1. csr_mode(in)
        BY <2>5, FirstStep DEF illinsn
      <4> QED
        BY <1>4, <2>5, <4>1 DEF csr_opcode, csr_wdata, M!Written
    <3> QED
      BY <1>1, <1>10, <2>5, <3>1, <3>2, SamePacket DEF M!System, M!Next
  <2>6. CASE i.op \in {"ecall", "ebreak"}
    <3>1. p \in Alike(p) /\ M!Packet(i, M!Handler) \in Alike(p)
      BY <1>11, <2>6, FirstStep, ZenonT(60) DEF M!Packet, Alike, npc_opcode
    <3>2. csr' = M!Called(ShownPc, IF i.op = "ecall" THEN 11 ELSE 3)
      BY <1>4, <2>6, FirstStep DEF csr_opcode, Entry, M!Called, M!Entered
    <3> QED
      BY <1>1, <1>10, <2>6, <3>1, <3>2, SamePacket DEF M!System, M!Next
  <2>7. CASE i.op = "mret"
    <3>1. p \in Alike(p) /\ M!Packet(i, csr.mepc) \in Alike(p)
      BY <2>7, FirstStep, ZenonT(60) DEF M!Packet, Alike, npc_opcode
    <3>2. csr' = M!Returned
      BY <1>4, <2>7 DEF csr_opcode, M!Returned
    <3> QED
      BY <1>1, <1>10, <2>7, <3>1, <3>2, SamePacket DEF M!System, M!Next
  <2> QED
    BY <1>1, <2>1, <2>2, <2>3, <2>4, <2>5, <2>6, <2>7
<1>. HIDE DEF p
<1>13. Types'
  <2>1. after \in Addresses /\ handler \in Addresses /\ csr.mepc \in Addresses
    <3>1. pc + 1 \in Nat
      BY <1>1 DEF Types, Addresses, Parameters
    <3>2. after \in Addresses
      BY <3>1, Word
    <3>3. csr.mtvec \in 0 .. 2 * WORDS - 1 /\ csr.mepc \in Addresses
      BY <1>1 DEF Types, Csrs
    <3>4. \A t \in 0 .. 2 * WORDS - 1 : t \div 2 \in Addresses
      BY DEF Addresses, Parameters
    <3> QED
      BY <3>2, <3>3, <3>4 DEF handler
  <2>2. i.op = "jal" => i.n \in Addresses
    BY <1>1 DEF Parameters
  <2>3. pc' \in Addresses
    BY <1>4, <2>1, <2>2 DEF npc_opcode
  <2>4. rvfi.order + 1 \in 0 .. MAX_ORDER
    BY <1>1 DEF Types, Parameters
  <2>5. csr' \in Csrs
    BY <1>1, <1>4, CsrWritten
  <2> QED
    BY <1>2, <1>4, <1>7, <1>8, <2>3, <2>4, <2>5, FirstStep DEF Types, Csrs, Accesses
<1>14. OneAtATime'
  <2>1. accessed' = <<>> \o (IF store THEN <<"write">> ELSE <<>>)
    BY <1>2, FirstStep DEF Clock
  <2>2. accessed' = IF store THEN <<"write">> ELSE <<>>
    BY <2>1
  <2> QED
    BY <1>4, <1>7, <1>8, <2>2 DEF OneAtATime
<1>15. Execute
  BY <1>7, <1>8, <1>12 DEF Execute
<1> QED
  BY <1>3, <1>4, <1>13, <1>14, <1>15 DEF IInv, Begun, OnBus
-----------------------------------------------------------------------------
(* Every cycle of the core is a step of the machine.                       *)
LEMMA StepInv == Parameters /\ IInv /\ Next => IInv' /\ Execute
<1> SUFFICES ASSUME Parameters, IInv, Next PROVE IInv' /\ Execute
  OBVIOUS
<1>1. PICK in \in Inputs :
        /\ QUIET /\ cycle(in) \in {"stall", "late_wr"} => Quiet(in)
        /\ Clock(in)
  BY DEF Next
<1>2. cycle(in) \in {"trap", "insn"} => rvfi.order < MAX_ORDER
  BY FirstStep, <1>1 DEF Next
<1>3. cycle(in) \in {"reset", "stall", "late_wr", "dmem_fault", "intr", "trap", "insn"}
  BY CycleCases DEF IInv
<1>4. CASE cycle(in) = "insn"
  BY <1>1, <1>2, <1>4, BeginStep, InsnStep
<1> QED
  BY <1>1, <1>2, <1>3, <1>4, ResetStep, StallStep, LateStep, FaultStep, IntrStep, TrapStep

LEMMA StutterInv == IInv /\ UNCHANGED vars => IInv'
  BY DEF vars, IInv, Types, Begun, OnBus, OneAtATime, Waiting, Pending, Late, Csrs, Accesses

(* The invariant has more than the types.                                  *)
LEMMA InvTypes == Parameters /\ IInv => TypeOK
<1> SUFFICES ASSUME Parameters, IInv PROVE TypeOK
  OBVIOUS
<1>1. Len(accessed) <= 1
  <2>1. accessed = <<>> \/ \E x : accessed = <<x>>
    BY DEF IInv, OnBus, OneAtATime
  <2>2. CASE accessed = <<>>
    BY <2>2
  <2>3. ASSUME NEW x, accessed = <<x>> PROVE Len(accessed) <= 1
    BY <2>3
  <2> QED
    BY <2>1, <2>2, <2>3
<1> QED
  BY <1>1 DEF IInv, Types, TypeOK, Csrs, Accesses

(* Whatever the parameters: the registers keep their types, an access is   *)
(* on the bus once, and the RVFI port shows a run of the in-order machine. *)
THEOREM CoreExecutes == Parameters => (Spec => [](TypeOK /\ OneAtATime) /\ [][Execute]_vars)
<1> SUFFICES ASSUME Parameters PROVE Spec => [](TypeOK /\ OneAtATime) /\ [][Execute]_vars
  OBVIOUS
<1>1. Init => IInv
  BY InitInv
<1>2. IInv /\ [Next]_vars => IInv' /\ [Execute]_vars
  BY StepInv, StutterInv
<1>3. IInv => TypeOK /\ OneAtATime
  BY InvTypes DEF IInv
<1> QED
  BY <1>1, <1>2, <1>3, PTL DEF Spec
=============================================================================
