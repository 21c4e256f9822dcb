---------------------------- MODULE MonitorRegs -----------------------------
(***************************************************************************)
(* The runtime monitor's register check (monitor/generate.py, option -R    *)
(* turns it off): behind the reorder buffer a shadow register file takes   *)
(* every packet's rvfi_rd_wdata, and the values a packet reads are         *)
(* compared with it.  Writes of lower channels of the same cycle are       *)
(* forwarded.                                                              *)
(*                                                                         *)
(* A written value is abstracted to its origin, n + 1 for order n, and a   *)
(* packet reports for each port either the value the program left in the   *)
(* register or a wrong one.                                                *)
(***************************************************************************)
EXTENDS InOrderStream

CONSTANT Regs  \* register addresses, 0 is x0

VARIABLES
  prog,               \* the packets by order
  shadow_xregs_valid, \* the registers with a known value
  shadow_xregs,       \* their values
  errcode_r,          \* ro<c>_errcode_r, by channel
  was                 \* history: the packets errcode_r is about

vars == <<streamVars, prog, shadow_xregs_valid, shadow_xregs, errcode_r, was>>

Ports  == {"rs1", "rs2"}
Packet == [addr: [Ports -> Regs], right: [Ports -> BOOLEAN], rd: Regs]
Wrong  == N + 1

MismatchRs1(c) == 131 + 100 * c
MismatchRs2(c) == 132 + 100 * c

rd_wdata(n) == IF prog[n].rd = 0 THEN 0 ELSE n + 1

(* The instructions before n that write register r.                        *)
Writers(r, n) == {k \in 0 .. n - 1 : prog[k].rd = r}
Last(S)       == CHOOSE k \in S : \A j \in S : j <= k

(* The value the program left in r before instruction n.                   *)
Left(r, n) ==
  IF r = 0 \/ Writers(r, n) = {} THEN 0 ELSE rd_wdata(Last(Writers(r, n)))

rdata(n, p) ==
  IF prog[n].right[p] THEN Left(prog[n].addr[p], n) ELSE Wrong

(* Mutant of Forwarding: nothing is forwarded within a cycle.              *)
ForwardingNone(c, p) == {}

(* The lower channels that write the register channel c reads through p.   *)
Forwarding(c, p) ==
  {i \in 0 .. c - 1 : out[i] # Idle /\ prog[out[i]].rd = prog[out[c]].addr[p]}

(* shadow<c>_rs<p>_valid and _rdata differ from what the packet reports.   *)
Differs(c, p) ==
  LET r == prog[out[c]].addr[p]
  IN  IF Forwarding(c, p) # {}
        THEN rd_wdata(out[Last(Forwarding(c, p))]) # rdata(out[c], p)
        ELSE r \in shadow_xregs_valid /\ shadow_xregs[r] # rdata(out[c], p)

(* The rs2 test comes last and wins.                                       *)
Errcode(c) ==
  IF out[c] = Idle THEN 0
  ELSE IF Differs(c, "rs2") THEN MismatchRs2(c)
  ELSE IF Differs(c, "rs1") THEN MismatchRs1(c)
  ELSE 0

(* The channels of the cycle that write register r; the highest one wins.  *)
Writing(r) == {c \in Channels : out[c] # Idle /\ prog[out[c]].rd = r}

(* What packet n leaves in the shadow register file.                       *)
Written(n) == rd_wdata(n)

Init ==
  /\ StreamInit
  /\ prog \in [Orders -> Packet]
  /\ shadow_xregs_valid = {0}
  /\ shadow_xregs = [r \in Regs |-> 0]
  /\ errcode_r = [c \in Channels |-> 0]
  /\ was = [c \in Channels |-> Idle]

(* A clock edge: the check sees the packets of the buffer's output         *)
(* registers while the buffer loads the next ones.                         *)
Next ==
  /\ Clock
  /\ errcode_r' = [c \in Channels |-> Errcode(c)]
  /\ shadow_xregs_valid' =
       shadow_xregs_valid \cup {r \in Regs : Writing(r) # {}}
  /\ shadow_xregs' =
       [r \in Regs |-> IF Writing(r) = {} THEN shadow_xregs[r]
                       ELSE Written(out[Last(Writing(r))])]
  /\ was' = out
  /\ UNCHANGED prog

Spec == Init /\ [][Next]_vars
-----------------------------------------------------------------------------
(* Types of the shadow register file and of the errors per channel.        *)
TypeOK ==
  /\ prog \in [Orders -> Packet]
  /\ shadow_xregs_valid \subseteq Regs
  /\ shadow_xregs \in [Regs -> 0 .. N]
  /\ \A c \in Channels : errcode_r[c] \in {0, MismatchRs1(c), MismatchRs2(c)}

(* Instruction n reports a wrong value for a register whose value is       *)
(* known: x0, or one an earlier instruction wrote.                         *)
WrongRead(n, p) ==
  LET r == prog[n].addr[p]
  IN  (r = 0 \/ Writers(r, n) # {}) /\ ~prog[n].right[p]

(* The monitor reports exactly the packets with a wrong read, and names    *)
(* the port: no false alarm and no miss, across cycles and channels.       *)
RegExact ==
  \A c \in Channels : was[c] # Idle =>
    errcode_r[c] = IF WrongRead(was[c], "rs2") THEN MismatchRs2(c)
                   ELSE IF WrongRead(was[c], "rs1") THEN MismatchRs1(c)
                   ELSE 0
=============================================================================
