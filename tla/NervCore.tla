------------------------------ MODULE NervCore ------------------------------
(***************************************************************************)
(* cores/nerv/nerv.sv: the core with its RVFI port, in the testbench of    *)
(* cores/nerv/wrapper.sv, where the inputs of every cycle are free.  A step *)
(* is a clock cycle.  Alu results, loaded values and stored values are     *)
(* abstract; of the CSRs there are those that steer traps and interrupts,  *)
(* and a CSR instruction writes but does not read.                         *)
(* A jump or an access that is misaligned is an illegal instruction, as in *)
(* the code.  Addresses are word addresses modulo WORDS; mtvec is twice    *)
(* the address of the handler, plus one if it is vectored.                 *)
(*                                                                         *)
(* What is on the instruction bus is decoded in every cycle, also in those *)
(* in which the core is stalled, waits for an access or takes an interrupt.*)
(***************************************************************************)
EXTENDS Integers, Sequences, FiniteSetsExt

CONSTANTS
  WORDS, RESET_ADDR, Irqs, Insns, Values, None,
  FAULT,      \* NERV_FAULT is defined
  IrqInputs,  \* values of the interrupt input: sets of numbers
  QUIET,      \* no trap instruction is on the bus while the core waits
  MAX_ORDER   \* bound: the core is watched for so many instructions

VARIABLES
  pc, regfile, csr,
  mem_q,           \* mem_rd_enable_q, mem_wr_enable_q, mem_rd_reg_q
  reset_q,
  next_rvfi_intr,
  rvfi_valid, rvfi,  \* the RVFI port: its valid bit and its registers
  did,             \* history: what the last cycle did
  accessed         \* history: accesses on the data bus since the last packet

vars == <<pc, regfile, csr, mem_q, reset_q, next_rvfi_intr, rvfi_valid, rvfi,
          did, accessed>>

(* What the parameters may be: interrupts are bits of a word, an address   *)
(* is a word address, and the number of an instruction is what its opcode  *)
(* takes it for: a target, a register or the value of a CSR.               *)
Addresses == 0 .. WORDS - 1
Parameters ==
  /\ WORDS \in Nat \ {0} /\ RESET_ADDR \in Addresses
  /\ Irqs \subseteq 1 .. 31 /\ MAX_ORDER \in Nat
  /\ FAULT \in BOOLEAN /\ QUIET \in BOOLEAN
  /\ \A i \in Insns :
       /\ i.op \in {"alu", "jal", "wfi", "load", "store", "csr", "illegal",
                   "ecall", "ebreak", "mret"}
       /\ i.rd \in {0, 1} /\ i.n \in Nat
       /\ i.op = "jal" => i.n \in Addresses
       /\ i.op = "csr" =>
            \/ i.csr \in {"mie", "mstatus", "mcause"}
            \/ i.csr = "mtvec" /\ i.n < 2 * WORDS
            \/ i.csr = "mepc" /\ i.n \in Addresses

NoCsrs == [mie |-> {}, mtvec |-> 0, mepc |-> 0, mcause |-> 0,
           mstatus |-> [MIE |-> FALSE, MPIE |-> FALSE]]
NoAccess == [rd_enable |-> FALSE, wr_enable |-> FALSE, rd |-> 0]
NoPacket == [order |-> 0, insn |-> None, trap |-> FALSE, intr |-> FALSE,
             pc_rdata |-> 0, pc_wdata |-> 0, rd_addr |-> 0, rd_wdata |-> 0,
             access |-> "none", wdata |-> 0, fault |-> "none"]

Init ==
  /\ pc \in {RESET_ADDR, (RESET_ADDR + 2) % WORDS}
  /\ regfile = [r \in {0, 1} |-> 0]
  /\ csr = NoCsrs
  /\ mem_q \in {NoAccess, [NoAccess EXCEPT !.wr_enable = TRUE],
                [NoAccess EXCEPT !.rd_enable = TRUE]}
  /\ reset_q \in BOOLEAN /\ next_rvfi_intr \in BOOLEAN
  /\ rvfi_valid = FALSE /\ rvfi = NoPacket
  /\ did = "off" /\ accessed = <<>>

(* resolve interrupt priority: the enabled one with the highest number.    *)
irq_num(irq) == IF irq \cap csr.mie = {} THEN 0 ELSE Max(irq \cap csr.mie)

(* The second cycle of an access; without NERV_FAULT a store has none.     *)
Late == mem_q.rd_enable \/ (FAULT /\ mem_q.wr_enable)

handler == csr.mtvec \div 2

(* A CSR instruction has effect in a running cycle only.                   *)
csr_mode(in) ==
  /\ in.insn.op = "csr"
  /\ ~in.stall /\ ~in.reset /\ ~reset_q
  /\ ~mem_q.rd_enable /\ ~mem_q.wr_enable /\ ~in.imem_fault
  /\ irq_num(in.irq) = 0

(* A CSR instruction without effect is an illegal instruction.            *)
illinsn(in) ==
  \/ in.insn.op = "illegal"
  \/ in.insn.op = "csr" /\ ~csr_mode(in)

(* Mutant of cycle: an interrupt is taken in the middle of an access.      *)
cycleIrqFirst(in) ==
  IF in.reset \/ reset_q THEN "reset"
  ELSE IF in.stall THEN "stall"
  ELSE IF irq_num(in.irq) # 0 THEN "intr"
  ELSE IF Late THEN IF FAULT /\ in.dmem_fault THEN "dmem_fault" ELSE "late_wr"
  ELSE IF in.imem_fault \/ illinsn(in) THEN "trap"
  ELSE "insn"

(* Which of the cycle_* signals is high: the order of the code's branches. *)
cycle(in) ==
  IF in.reset \/ reset_q THEN "reset"
  ELSE IF in.stall THEN "stall"
  ELSE IF Late THEN IF FAULT /\ in.dmem_fault THEN "dmem_fault" ELSE "late_wr"
  ELSE IF irq_num(in.irq) # 0 THEN "intr"
  ELSE IF in.imem_fault \/ illinsn(in) THEN "trap"
  ELSE "insn"

csr_wdata(in) ==
  IF ~csr_mode(in) THEN csr
  ELSE IF in.insn.csr = "mie" THEN
    [csr EXCEPT !.mie = IF in.insn.n = 0 THEN {} ELSE Irqs]
  ELSE IF in.insn.csr = "mstatus" THEN
    [csr EXCEPT !.mstatus = [MIE |-> in.insn.n % 2 = 1, MPIE |-> in.insn.n \div 2 = 1]]
  ELSE [csr EXCEPT ![in.insn.csr] = in.insn.n]

(* Trap entry: mepc, mcause, MPIE from mpie, MIE to 0.                     *)
Entry(next, cause, mpie) ==
  [next EXCEPT !.mepc = pc, !.mcause = cause,
               !.mstatus = [MIE |-> FALSE, MPIE |-> mpie]]

(* The effect of the opcode on the CSRs, whatever the cycle does.          *)
csr_opcode(in) ==
  IF in.insn.op = "ecall" THEN Entry(csr, 11, csr.mstatus.MIE)
  ELSE IF in.insn.op = "ebreak" THEN Entry(csr, 3, csr.mstatus.MIE)
  ELSE IF in.insn.op = "mret" THEN
    [csr EXCEPT !.mcause = 0, !.mstatus = [MIE |-> @.MPIE, MPIE |-> @.MPIE]]
  ELSE csr_wdata(in)

csr_next(in) ==
  LET next == csr_opcode(in) IN
  IF cycle(in) = "reset" THEN NoCsrs
  ELSE IF cycle(in) = "dmem_fault" THEN
         Entry(next, IF mem_q.wr_enable THEN 7 ELSE 5, csr.mstatus.MIE)
  ELSE IF cycle(in) = "intr" THEN Entry(next, -irq_num(in.irq), TRUE)
  ELSE IF cycle(in) = "trap" THEN
         Entry(next, IF in.imem_fault THEN 1 ELSE 2, csr.mstatus.MIE)
  ELSE next

(* The effect of the opcode on npc.                                        *)
npc_opcode(in) ==
  IF in.insn.op = "jal" THEN in.insn.n
  ELSE IF in.insn.op \in {"ecall", "ebreak"} THEN handler
  ELSE IF in.insn.op = "mret" THEN csr.mepc
  ELSE (pc + 1) % WORDS

npc(in) ==
  IF cycle(in) = "reset" THEN RESET_ADDR
  ELSE IF cycle(in) \in {"stall", "late_wr"} THEN pc
  ELSE IF cycle(in) = "intr" THEN
         IF csr.mtvec % 2 = 1 THEN (handler + irq_num(in.irq)) % WORDS ELSE handler
  ELSE IF cycle(in) \in {"dmem_fault", "trap"} THEN handler
  ELSE npc_opcode(in)

(* Mutant of Bus: an interrupt does not hold back the access.              *)
BusIntrToo(in) ==
  IF cycle(in) \in {"insn", "intr"} /\ in.insn.op \in {"load", "store"}
    THEN [NoAccess EXCEPT !.rd_enable = in.insn.op = "load",
                          !.wr_enable = in.insn.op = "store",
                          !.rd = IF in.insn.op = "load" THEN in.insn.rd ELSE 0]
    ELSE NoAccess

(* mem_rd_enable and mem_wr_enable: the access of this cycle, which only   *)
(* an instruction that nothing else precedes may make.                     *)
Bus(in) ==
  IF cycle(in) = "insn" /\ in.insn.op \in {"load", "store"}
    THEN [NoAccess EXCEPT !.rd_enable = in.insn.op = "load",
                          !.wr_enable = in.insn.op = "store",
                          !.rd = IF in.insn.op = "load" THEN in.insn.rd ELSE 0]
    ELSE NoAccess

(* next_wr, wr_rd and next_rd.                                             *)
Write(in) ==
  IF cycle(in) = "late_wr" /\ mem_q.rd_enable THEN
         [wr |-> TRUE, rd |-> mem_q.rd, value |-> in.dmem_rdata]
  ELSE IF cycle(in) = "insn" /\ in.insn.op = "alu" THEN
         [wr |-> TRUE, rd |-> in.insn.rd, value |-> in.insn.n]
  ELSE IF cycle(in) = "insn" /\ in.insn.op = "jal" THEN
         [wr |-> TRUE, rd |-> in.insn.rd, value |-> (pc + 1) % WORDS]
  ELSE [wr |-> FALSE, rd |-> 0, value |-> 0]

(* Mutant of reset_qNext: a stall does not prolong the reset.              *)
reset_qNextPlain(in) == in.reset

reset_qNext(in) == in.reset \/ (reset_q /\ in.stall)

(* The registers of the RVFI port.  The packet of an instruction is filled *)
(* in its first cycle, the result of an access is added in the second.     *)
next_rvfi_valid(in) ==
  \/ cycle(in) \in {"trap", "late_wr", "dmem_fault"}
  \/ cycle(in) = "insn" /\ ~Bus(in).rd_enable /\ ~(FAULT /\ Bus(in).wr_enable)

Result(in, p) ==
  LET w == Write(in) IN
  [p EXCEPT !.rd_addr = IF w.wr THEN w.rd ELSE 0,
            !.rd_wdata = IF w.wr /\ w.rd # 0 THEN w.value ELSE 0]

FirstCycle(in) ==
  Result(in,
    [order    |-> rvfi.order + 1,
     insn     |-> IF in.imem_fault THEN None ELSE in.insn,
     trap     |-> cycle(in) = "trap",
     intr     |-> next_rvfi_intr,
     pc_rdata |-> pc,
     pc_wdata |-> npc(in),
     rd_addr  |-> 0, rd_wdata |-> 0,
     access   |-> IF Bus(in).rd_enable THEN "read"
                  ELSE IF Bus(in).wr_enable THEN "write" ELSE "none",
     wdata    |-> IF Bus(in).wr_enable THEN regfile[in.insn.n] ELSE 0,
     fault    |-> IF in.imem_fault THEN "fetch" ELSE "none"])

rvfiNext(in) ==
  IF cycle(in) = "reset" THEN NoPacket
  ELSE IF cycle(in) \in {"insn", "trap"} THEN FirstCycle(in)
  ELSE IF cycle(in) = "late_wr" THEN Result(in, rvfi)
  ELSE IF cycle(in) = "dmem_fault" THEN
         [rvfi EXCEPT !.trap = TRUE, !.rd_addr = 0, !.rd_wdata = 0,
                      !.fault = rvfi.access, !.access = "none"]
  ELSE rvfi

next_rvfi_intrNext(in) ==
  IF cycle(in) = "reset" THEN FALSE
  ELSE IF cycle(in) \in {"intr", "trap", "dmem_fault"} THEN TRUE
  ELSE IF cycle(in) = "insn" THEN FALSE
  ELSE next_rvfi_intr

(* A clock cycle with inputs in.                                           *)
Clock(in) ==
  /\ pc' = IF in.reset THEN (RESET_ADDR + WORDS - 1) % WORDS ELSE npc(in)
  /\ regfile' = IF Write(in).wr /\ Write(in).rd # 0
                  THEN [regfile EXCEPT ![Write(in).rd] = Write(in).value]
                  ELSE regfile
  /\ csr' = csr_next(in)
  /\ mem_q' = [(IF in.stall THEN mem_q ELSE Bus(in)) EXCEPT
                  !.rd_enable = @ /\ ~in.reset]
  /\ reset_q' = reset_qNext(in)
  /\ next_rvfi_intr' = next_rvfi_intrNext(in)
  /\ rvfi_valid' = next_rvfi_valid(in)
  /\ rvfi' = rvfiNext(in)
  /\ did' = cycle(in)
  /\ accessed' = (IF rvfi_valid \/ cycle(in) = "reset" THEN <<>> ELSE accessed)
                   \o (IF Bus(in).rd_enable THEN <<"read">>
                       ELSE IF Bus(in).wr_enable THEN <<"write">> ELSE <<>>)

(* An access waits for its second cycle.                                   *)
Pending == Late /\ ~reset_q

May(p) == IF p THEN BOOLEAN ELSE {FALSE}

(* The free inputs; what the data memory answers matters in the second     *)
(* cycle of an access only.                                                *)
Inputs ==
  {[reset |-> r, stall |-> s, insn |-> i, imem_fault |-> f, dmem_fault |-> d,
    dmem_rdata |-> v, irq |-> q] :
      r \in IF did = "off" THEN {TRUE} ELSE BOOLEAN,
      s \in BOOLEAN,
      i \in Insns,
      f \in May(FAULT),
      d \in May(FAULT /\ Pending),
      v \in IF Pending THEN Values ELSE {0},
      q \in IrqInputs}

Quiet(in) == in.insn.op \notin {"ecall", "ebreak", "mret"}

(* Bound: an input the core does not look at in this cycle has one value.  *)
Seen(in) ==
  cycle(in) \in {"reset", "stall", "late_wr", "dmem_fault"} =>
    /\ in.irq = {} /\ ~in.imem_fault
    /\ cycle(in) = "reset" => in.insn.op = "alu"

Next ==
  /\ rvfi.order < MAX_ORDER \/ Pending
  /\ \E in \in Inputs :
       /\ Seen(in)
       /\ QUIET /\ cycle(in) \in {"stall", "late_wr"} => Quiet(in)
       /\ Clock(in)

Spec == Init /\ [][Next]_vars
-----------------------------------------------------------------------------
(* Types of the core's registers.                                          *)
TypeOK ==
  /\ pc \in Addresses
  /\ csr.mie \subseteq Irqs /\ csr.mepc \in Addresses /\ csr.mtvec \in 0 .. 2 * WORDS - 1
  /\ mem_q.rd_enable => ~mem_q.wr_enable
  /\ rvfi.order \in 0 .. MAX_ORDER
  /\ Len(accessed) <= 1

(* The in-order machine that the RVFI port shows.  An access is retired in *)
(* its second cycle; until then the machine is where the access began.     *)
ShownPc ==
  IF reset_q THEN RESET_ADDR ELSE IF Pending THEN rvfi.pc_rdata ELSE pc
ShownOrder == IF Pending THEN rvfi.order - 1 ELSE rvfi.order
ShownEntering == IF Pending THEN rvfi.intr ELSE next_rvfi_intr
ShownPacket == IF rvfi_valid THEN rvfi ELSE None

M == INSTANCE NervMachine WITH
       pc <- ShownPc, order <- ShownOrder, entering <- ShownEntering,
       packet <- ShownPacket

(* What the port reports, with the registers and CSRs behind it, is a run  *)
(* of the in-order machine: whatever stalls, faults, interrupts and resets *)
(* come in whatever cycle, no instruction is lost, done twice or left half *)
(* done, and every packet tells the state before and after it.  Without    *)
(* NERV_FAULT a CSR instruction may be refused, right after a store only.  *)
Execute ==
  /\ M!Next
  /\ rvfi_valid' /\ rvfi'.trap /\ rvfi'.fault = "none" /\ rvfi'.insn.op = "csr"
       => ~FAULT /\ mem_q.wr_enable

(* Every load and store that retires has been on the data bus once, no     *)
(* other instruction has, and an instruction that starts comes out in its  *)
(* first or second cycle that is not stalled.                              *)
OneAtATime ==
  /\ rvfi_valid =>
       accessed = IF rvfi.access # "none" THEN <<rvfi.access>>
                  ELSE IF rvfi.fault \in {"read", "write"} THEN <<rvfi.fault>>
                  ELSE <<>>
  /\ did \in {"insn", "trap", "late_wr", "dmem_fault"} => rvfi_valid \/ Late

(* "if this is a stall cycle, don't perform any action" (nerv.sv:1079).    *)
StallLeavesAlone == did' = "stall" => UNCHANGED <<pc, regfile, csr, mem_q>>
=============================================================================
