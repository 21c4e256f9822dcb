---------------------------- MODULE RvfiDmemCheck ---------------------------
(***************************************************************************)
(* checks/rvfi_dmem_check.sv: a byte read from memory is the byte last     *)
(* written there.  The checker looks at one word, dmem_addr, and takes the *)
(* packets in the order they retire; it does not look at rvfi_order, so it *)
(* is meant for a core that retires its memory accesses in order.  Memory  *)
(* addresses are aligned (RISCV_FORMAL_ALIGNED_MEM): two accesses with     *)
(* different addresses share no byte.  The core drives any accesses with   *)
(* any data, at addresses that are valid or not.                           *)
(*                                                                         *)
(* Address and masks are taken from the slice of the channel, but the data *)
(* are not: rvfi_mem_rdata[i*8 +: 8] and rvfi_mem_wdata[i*8 +: 8] are the  *)
(* bytes of channel 0 (DataChannel).                                       *)
(***************************************************************************)
EXTENDS RvfiChannels

CONSTANTS
  Words,      \* word addresses
  ValidAddrs, \* those for which RISCV_FORMAL_VALIDADDR holds
  Lanes,      \* byte lanes of a word
  Data        \* values of a byte, natural numbers

VARIABLES
  reset,
  dmem_addr,    \* rand const: the word under check
  dmem_shadow,  \* per lane, the byte last written
  dmem_written, \* lanes that have been written
  failed,       \* an assertion has failed
  memory,       \* history: the bytes the packets have written since reset
  wrong         \* history: a packet read from dmem_addr, while the check was
                \* enabled, a byte other than the one last written

vars == <<reset, dmem_addr, dmem_shadow, dmem_written, failed, memory, wrong>>

Unknown == -1
Access  == [valid: BOOLEAN, addr: Words, rmask: SUBSET Lanes, wmask: SUBSET Lanes,
            rdata: [Lanes -> Data], wdata: [Lanes -> Data]]

DataChannel(c) == 0

Touches(a) == a.valid /\ a.addr = dmem_addr /\ dmem_addr \in ValidAddrs

(* Mutant of Stored: the write mask is ignored.                            *)
StoredWord(old, mask, new) == new

(* The bytes of a word after a store.                                      *)
Stored(old, mask, new) == [i \in Lanes |-> IF i \in mask THEN new[i] ELSE old[i]]

(* The blocking assignments of the loop: the checker's registers before    *)
(* channel c of a cycle.                                                   *)
Fold(acc) ==
  LET before[c \in 0 .. NRET] ==
        IF c = 0 THEN [shadow |-> dmem_shadow, written |-> dmem_written]
        ELSE LET b == before[c - 1]
                 a == acc[c - 1]
             IN  IF Touches(a)
                   THEN [shadow  |-> Stored(b.shadow, a.wmask,
                                            acc[DataChannel(c - 1)].wdata),
                         written |-> b.written \cup a.wmask]
                   ELSE b
  IN  before

(* The assertion of channel c fails: a lane it reads is known and differs. *)
Fails(acc, c) ==
  LET b == Fold(acc)[c]
  IN  /\ Touches(acc[c])
      /\ \E i \in acc[c].rmask \cap b.written :
           b.shadow[i] # acc[DataChannel(c)].rdata[i]

(* History: the memory before channel c.                                   *)
Memory(acc) ==
  LET before[c \in 0 .. NRET] ==
        IF c = 0 THEN memory
        ELSE LET a == acc[c - 1]
             IN  IF a.valid
                   THEN [before[c - 1] EXCEPT ![a.addr] =
                           [i \in Lanes |-> IF i \in a.wmask THEN a.wdata[i] ELSE @[i]]]
                   ELSE before[c - 1]
  IN  before

ReadsWrong(acc, c) ==
  /\ Touches(acc[c])
  /\ \E i \in acc[c].rmask :
       Memory(acc)[c][acc[c].addr][i] \notin {Unknown, acc[c].rdata[i]}

Init ==
  /\ reset = TRUE
  /\ dmem_addr \in Words
  /\ dmem_shadow \in [Lanes -> Data]
  /\ dmem_written = {}
  /\ failed = FALSE
  /\ memory = [w \in Words |-> [i \in Lanes |-> Unknown]]
  /\ wrong = FALSE

ResetCycle ==
  /\ reset /\ reset' \in BOOLEAN
  /\ dmem_written' = {}
  /\ UNCHANGED <<dmem_addr, dmem_shadow, failed, memory, wrong>>

(* A cycle out of reset; the trace ends with a failed assertion.           *)
CheckCycle(acc, enable) ==
  /\ ~reset /\ ~failed
  /\ failed' = (enable /\ \E c \in Channels : Fails(acc, c))
  /\ dmem_shadow'  = Fold(acc)[NRET].shadow
  /\ dmem_written' = Fold(acc)[NRET].written
  /\ memory' = Memory(acc)[NRET]
  /\ wrong' = (enable /\ \E c \in Channels : ReadsWrong(acc, c))
  /\ UNCHANGED <<reset, dmem_addr>>

Next ==
  \/ ResetCycle
  \/ \E acc \in [Channels -> Access], enable \in BOOLEAN : CheckCycle(acc, enable)

Spec == Init /\ [][Next]_vars
-----------------------------------------------------------------------------
(* Types of the checker's registers.                                       *)
TypeOK ==
  /\ reset \in BOOLEAN /\ failed \in BOOLEAN /\ wrong \in BOOLEAN
  /\ dmem_addr \in Words
  /\ dmem_shadow \in [Lanes -> Data] /\ dmem_written \subseteq Lanes
  /\ memory \in [Words -> [Lanes -> Data \cup {Unknown}]]

(* The check fails exactly when an enabled packet reads from the word      *)
(* under check a byte other than the one last written there, and the       *)
(* address is valid.                                                       *)
DmemExact == failed <=> wrong
=============================================================================
