---------------------------- MODULE NervMachine -----------------------------
(***************************************************************************)
(* What cores/nerv/nerv.sv promises on its RVFI port: an in-order machine. *)
(* A step retires one instruction, enters a trap handler with one packet,  *)
(* or takes an interrupt without a packet, each of them whole; between     *)
(* steps the machine may rest.  It knows no stalls and no second cycles.   *)
(*                                                                         *)
(* Addresses are word addresses modulo WORDS.  Two of the core's choices   *)
(* are not those of the ISA manual and are kept here: an interrupt does    *)
(* not ask for mstatus.MIE, and mepc of a data access fault is the address *)
(* after the access.                                                       *)
(***************************************************************************)
EXTENDS Integers

CONSTANTS
  WORDS, RESET_ADDR,
  Irqs,    \* interrupt numbers
  Insns,   \* instructions: records [op, rd, csr, n]
  Values,  \* values that memory returns
  FAULT,   \* FALSE: a CSR instruction may be refused
  QUIET,   \* no trap instruction shows up on the bus while the core waits
  None

VARIABLES
  pc, regfile, csr,
  entering,  \* the next instruction is the first of a trap handler
  order,     \* packets so far
  packet     \* the packet of the last step, or None

vars == <<pc, regfile, csr, entering, order, packet>>

After == (pc + 1) % WORDS
Handler == csr.mtvec \div 2
Vectored == csr.mtvec % 2 = 1

NoCsrs == [mie |-> {}, mtvec |-> 0, mepc |-> 0, mcause |-> 0,
           mstatus |-> [MIE |-> FALSE, MPIE |-> FALSE]]

(* The trap registers after an entry with address a in mepc.               *)
Entered(a, cause, mpie) ==
  [csr EXCEPT !.mepc = a, !.mcause = cause,
              !.mstatus = [MIE |-> FALSE, MPIE |-> mpie]]

Called(a, cause) == Entered(a, cause, csr.mstatus.MIE)
Returned == [csr EXCEPT !.mcause = 0, !.mstatus = [MIE |-> @.MPIE, MPIE |-> @.MPIE]]

(* What a wait at address a may do to the trap registers: with QUIET       *)
(* nothing, otherwise what an ECALL, EBREAK or MRET on the bus does.       *)
Waited(a) ==
  {csr} \cup IF QUIET THEN {} ELSE {Returned, Called(a, 3), Called(a, 11)}

Written(i) ==
  IF i.csr = "mie" THEN [csr EXCEPT !.mie = IF i.n = 0 THEN {} ELSE Irqs]
  ELSE IF i.csr = "mstatus" THEN
    [csr EXCEPT !.mstatus = [MIE |-> i.n % 2 = 1, MPIE |-> i.n \div 2 = 1]]
  ELSE [csr EXCEPT ![i.csr] = i.n]

(* A packet for instruction i, which goes on at address a.                 *)
Packet(i, a) ==
  [order |-> order + 1, insn |-> i, trap |-> FALSE, intr |-> entering,
   pc_rdata |-> pc, pc_wdata |-> a, rd_addr |-> 0, rd_wdata |-> 0,
   access |-> "none", wdata |-> 0, fault |-> "none"]

Retires(p) ==
  /\ packet' = p
  /\ order' = order + 1 /\ entering' = p.trap
  /\ pc' = IF p.trap THEN Handler ELSE p.pc_wdata
  /\ regfile' = IF p.rd_addr = 0 THEN regfile
                ELSE [regfile EXCEPT ![p.rd_addr] = p.rd_wdata]

Link(p, rd, value) ==
  [p EXCEPT !.rd_addr = rd, !.rd_wdata = IF rd = 0 THEN 0 ELSE value]

(* Instructions that do not access memory.                                 *)
Compute(i) ==
  /\ \/ /\ i.op = "alu" /\ Retires(Link(Packet(i, After), i.rd, i.n))
     \/ /\ i.op = "jal" /\ Retires(Link(Packet(i, i.n), i.rd, After))
     \/ /\ i.op = "wfi" /\ Retires(Packet(i, After))
  /\ UNCHANGED csr

System(i) ==
  \/ /\ i.op = "ecall"  /\ Retires(Packet(i, Handler)) /\ csr' = Called(pc, 11)
  \/ /\ i.op = "ebreak" /\ Retires(Packet(i, Handler)) /\ csr' = Called(pc, 3)
  \/ /\ i.op = "mret"   /\ Retires(Packet(i, csr.mepc)) /\ csr' = Returned
  \/ /\ i.op = "csr"    /\ Retires(Packet(i, After)) /\ csr' = Written(i)

(* Loads and stores, which wait for the memory's answer.                   *)
Load(i, value) ==
  /\ i.op = "load"
  /\ Retires(Link([Packet(i, After) EXCEPT !.access = "read"], i.rd, value))
  /\ csr' \in Waited(After)

Store(i) ==
  /\ i.op = "store"
  /\ Retires([Packet(i, After) EXCEPT !.access = "write", !.wdata = regfile[i.n]])
  /\ csr' \in Waited(After)

(* A fault of the fetch, an illegal instruction, a fault of an access.     *)
FetchFault ==
  /\ Retires([Packet(None, Handler) EXCEPT !.trap = TRUE, !.fault = "fetch"])
  /\ csr' = Called(pc, 1)

Illegal(i) ==
  /\ i.op = "illegal" \/ (~FAULT /\ i.op = "csr")
  /\ Retires([Packet(i, Handler) EXCEPT !.trap = TRUE])
  /\ csr' = Called(pc, 2)

AccessFault(i) ==
  \/ /\ i.op = "load"
     /\ Retires([Packet(i, After) EXCEPT !.trap = TRUE, !.fault = "read"])
     /\ csr' = Called(After, 5)
  \/ /\ i.op = "store"
     /\ Retires([Packet(i, After) EXCEPT !.trap = TRUE, !.fault = "write",
                                         !.wdata = regfile[i.n]])
     /\ csr' = Called(After, 7)

(* An enabled interrupt; its cause is -n, for the bit that tells causes of *)
(* interrupts from those of exceptions.                                    *)
Interrupt(n) ==
  /\ n \in csr.mie
  /\ pc' = IF Vectored THEN (Handler + n) % WORDS ELSE Handler
  /\ csr' = Entered(pc, -n, TRUE)
  /\ entering' = TRUE /\ packet' = None
  /\ UNCHANGED <<regfile, order>>

Rest ==
  /\ packet' = None
  /\ csr' \in Waited(pc) \cup Waited(After)
  /\ UNCHANGED <<pc, regfile, entering, order>>

Reset ==
  /\ pc' = RESET_ADDR /\ csr' = NoCsrs /\ order' = 0
  /\ entering' = FALSE /\ packet' = None
  /\ UNCHANGED regfile

Next ==
  \/ Rest \/ Reset \/ FetchFault
  \/ \E i \in Insns :
       Compute(i) \/ System(i) \/ Store(i) \/ Illegal(i) \/ AccessFault(i)
  \/ \E i \in Insns, v \in Values : Load(i, v)
  \/ \E n \in Irqs : Interrupt(n)
=============================================================================
