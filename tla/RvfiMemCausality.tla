-------------------------- MODULE RvfiMemCausality --------------------------
(***************************************************************************)
(* checks/rvfi_causal_mem_check.sv and checks/rvfi_causal_io_check.sv: the *)
(* checkers that memory accesses do not retire before those they depend    *)
(* on.  A read of memory depends on the earlier write of the same byte; an *)
(* access of i/o memory depends on every earlier one.                      *)
(*                                                                         *)
(* An access is abstracted to the set of bytes its address and its masks   *)
(* select; the masks of a faulting access are those of the attempt         *)
(* (rvfi_mem_fault_rmask and _wmask).  Both checkers observe one core,     *)
(* which retires each order once, in any order.  Unlike the register       *)
(* checkers these two go through all the channels in every cycle and       *)
(* assert when they come to CHANNEL_IDX.                                   *)
(***************************************************************************)
EXTENDS RvfiChannels

CONSTANTS
  Bytes,       \* byte addresses
  IoBytes,     \* those that are i/o memory, rvformal_addr_io
  KEEP_CAUSAL  \* TRUE: the core keeps causality and the order of writes

VARIABLES
  prog,             \* the accesses by order
  retired,          \* orders retired so far
  reset,            \* reset input of both checkers
  insn_order,       \* rand const: order of the access under check
  check_addr,       \* causal_mem, rand const: byte under check
  found_non_causal, \* causal_mem: a later read of check_addr was seen
  found_io,         \* causal_io: a later i/o access was seen
  mem,              \* causal_mem: "none", "pass" or "fail"
  io,               \* causal_io: "none", "pass" or "fail"
  seen              \* history: orders shown before the assertion

consts == <<insn_order, check_addr>>
vars == <<prog, retired, reset, consts, found_non_causal, found_io, mem, io, seen>>

Access == [reads: SUBSET Bytes, writes: SUBSET Bytes]

Before(ch, c) == retired \cup Lower(ch, c)

IsLastWriter(j, b, n) ==
  /\ j \in Orders /\ j < n /\ b \in prog[j].writes
  /\ \A k \in Orders : j < k /\ k < n => b \notin prog[k].writes

HasWriter(b, n) == \E k \in Orders : k < n /\ b \in prog[k].writes

(* What a core that keeps causality retires in a cycle: the write a read   *)
(* depends on comes first, and writes of one byte come in order.           *)
Causal(ch) ==
  \A c \in Channels : ch[c] # Idle =>
    \A b \in Bytes :
      /\ b \in prog[ch[c]].reads /\ HasWriter(b, ch[c]) =>
           \E j \in Before(ch, c) : IsLastWriter(j, b, ch[c])
      /\ b \in prog[ch[c]].writes =>
           \A j \in Orders : j < ch[c] /\ b \in prog[j].writes => j \in Before(ch, c)

Retire(ch) ==
  /\ \A c \in Channels : ch[c] # Idle => ch[c] \notin Before(ch, c)
  /\ KEEP_CAUSAL => Causal(ch)
  /\ retired' = retired \cup Lower(ch, NRET)
  /\ UNCHANGED prog

performs_io(n) == (prog[n].reads \cup prog[n].writes) \cap IoBytes # {}

(* Mutant of LaterRead: only the reads of other channels' packets count.   *)
LaterReadElsewhere(ch, m) ==
  \E d \in 0 .. m - 1 :
    /\ d # CHANNEL_IDX
    /\ ch[d] # Idle /\ ch[d] > insn_order
    /\ check_addr \in prog[ch[d]].reads

(* Mutant of LaterRead: the order is not looked at.                        *)
LaterReadAnyOrder(ch, m) ==
  \E d \in 0 .. m - 1 : ch[d] # Idle /\ check_addr \in prog[ch[d]].reads

(* The channels below m carry a later read of the byte under check.        *)
LaterRead(ch, m) ==
  \E d \in 0 .. m - 1 :
    ch[d] # Idle /\ ch[d] > insn_order /\ check_addr \in prog[ch[d]].reads

(* Mutant of LaterIo: the order is not looked at.                          *)
LaterIoAnyOrder(ch, m) == \E d \in 0 .. m - 1 : ch[d] # Idle /\ performs_io(ch[d])

(* They carry a later access of i/o memory.                                *)
LaterIo(ch, m) ==
  \E d \in 0 .. m - 1 : ch[d] # Idle /\ ch[d] > insn_order /\ performs_io(ch[d])

Init ==
  /\ prog \in [Orders -> Access]
  /\ retired = {}
  /\ reset = TRUE
  /\ insn_order \in Orders /\ check_addr \in Bytes
  /\ found_non_causal = FALSE /\ found_io = FALSE
  /\ mem = "none" /\ io = "none"
  /\ seen = {}

Running == mem = "none" /\ io = "none"

ResetCycle(ch) ==
  /\ Running /\ reset
  /\ Retire(ch)
  /\ found_non_causal' = FALSE /\ found_io' = FALSE
  /\ reset' \in BOOLEAN
  /\ seen' = {}
  /\ UNCHANGED <<consts, mem, io>>

(* The fold of a cycle over all channels.                                  *)
Fold(ch) ==
  /\ found_non_causal' = (found_non_causal \/ LaterRead(ch, NRET))
  /\ found_io' = (found_io \/ LaterIo(ch, NRET))

ObserveCycle(ch) ==
  /\ Running /\ ~reset
  /\ Retire(ch)
  /\ Fold(ch)
  /\ seen' = seen \cup Lower(ch, NRET)
  /\ UNCHANGED <<consts, reset, mem, io>>

(* The check cycle of causal_mem.                                          *)
MemCheckCycle(ch) ==
  /\ Running /\ ~reset
  /\ Retire(ch)
  /\ ch[CHANNEL_IDX] = insn_order
  /\ check_addr \in prog[insn_order].writes
  /\ mem' = IF found_non_causal \/ LaterRead(ch, CHANNEL_IDX) THEN "fail" ELSE "pass"
  /\ Fold(ch)
  /\ seen' = seen \cup Lower(ch, CHANNEL_IDX)
  /\ UNCHANGED <<consts, reset, io>>

(* The check cycle of causal_io.                                           *)
IoCheckCycle(ch) ==
  /\ Running /\ ~reset
  /\ Retire(ch)
  /\ ch[CHANNEL_IDX] = insn_order
  /\ performs_io(insn_order)
  /\ io' = IF found_io \/ LaterIo(ch, CHANNEL_IDX) THEN "fail" ELSE "pass"
  /\ Fold(ch)
  /\ seen' = seen \cup Lower(ch, CHANNEL_IDX)
  /\ UNCHANGED <<consts, reset, mem>>

Next == \E ch \in Cycle :
  \/ ResetCycle(ch) \/ ObserveCycle(ch)
  \/ MemCheckCycle(ch) \/ IoCheckCycle(ch)

Spec == Init /\ [][Next]_vars
-----------------------------------------------------------------------------
(* Types of the two checkers.                                              *)
TypeOK ==
  /\ prog \in [Orders -> Access]
  /\ retired \subseteq Orders /\ seen \subseteq retired
  /\ reset \in BOOLEAN /\ found_non_causal \in BOOLEAN /\ found_io \in BOOLEAN
  /\ insn_order \in Orders /\ check_addr \in Bytes
  /\ mem \in {"none", "pass", "fail"} /\ io \in {"none", "pass", "fail"}

(* A read the checker has seen takes the byte insn_order writes.           *)
DependsOnChecked(m) ==
  check_addr \in prog[m].reads /\ IsLastWriter(insn_order, check_addr, m)

(* causal_mem lets no core pass that retires a write after a read of the   *)
(* byte it writes, whatever else the core does.                            *)
MemNothingMissed == mem = "pass" => \A m \in seen : ~DependsOnChecked(m)

(* causal_mem rejects no core that keeps causality and the order of the    *)
(* writes of a byte.                                                       *)
MemNoFalseAlarm == mem = "fail" => \E m \in seen : DependsOnChecked(m)

(* "every i/o memory access is assumed to depend on all earlier i/o memory *)
(* accesses" (docs/source/procedure.rst:381): causal_io fails exactly when *)
(* a later i/o access was retired before the checked one.                  *)
IoExact ==
  io # "none" =>
    (io = "fail" <=> \E m \in seen : m > insn_order /\ performs_io(m))
=============================================================================
