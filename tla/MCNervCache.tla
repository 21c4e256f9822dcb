---------------------------- MODULE MCNervCache -----------------------------
(***************************************************************************)
(* Two lines of code that share an entry of the instruction cache, two     *)
(* lines of data that share one of the data cache, and a word of i/o.      *)
(***************************************************************************)
EXTENDS NervAxiCache

MCCode == {<<0, 0>>, <<1, 1>>}
MCCacheable == {<<2, 0>>, <<3, 1>>}
MCIoMem == {<<4, 1>>}
MCFaults == {{}, {1, 3, 4}}
MCBoot == [l \in Lines |-> [w \in Words |-> (l + w) % 2]]
=============================================================================
