----------------------------- MODULE NervMemory -----------------------------
(***************************************************************************)
(* What cores/nerv/axi_cache promises to the NERV core: a memory.  In each *)
(* cycle in which the core is not stalled it gets the answers to the fetch *)
(* and to the access of data it made in the previous such cycle, and makes *)
(* the next ones.  An access of a line that faults changes nothing.        *)
(***************************************************************************)
CONSTANTS None  \* no data

VARIABLES
  memory,  \* [lines -> [words -> data]]
  faulty,  \* lines whose accesses fault
  fetch,   \* the fetch the core waits for
  late     \* the access of data the core waits for

vars == <<memory, faulty, fetch, late>>

Answer(r) ==
  [fault |-> r.line \in faulty,
   data  |-> IF r.write \/ r.line \in faulty THEN None ELSE memory[r.line][r.word]]

After(r) ==
  IF r.valid /\ r.write /\ r.line \notin faulty
    THEN [memory EXCEPT ![r.line][r.word] = r.data] ELSE memory

Init == ~fetch.valid /\ ~late.valid

Cycle ==
  /\ memory' = After(late')
  /\ UNCHANGED faulty

Spec == Init /\ [][Cycle]_vars
=============================================================================
