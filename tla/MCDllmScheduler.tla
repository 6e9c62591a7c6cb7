-------------------------- MODULE MCDllmScheduler ---------------------------
(***************************************************************************)
(* Model values for DllmScheduler.                                         *)
(***************************************************************************)
EXTENDS DllmScheduler

CONSTANT KvSize  \* the number of KV cells

MCCells == 1 .. KvSize

\* The requests of the runs. One that asks for 0 tokens is decoded for a block all the same.
AskedFew == {<<1, 1>>, <<3, 0>>}
AskedMore == {<<1, 3>>, <<4, 0>>}
AskedMany == {<<1, 3>>, <<3, 3>>}

Symmetry == Permutations(IgnoreEosReqs) \cup Permutations(Reqs \ IgnoreEosReqs)

=============================================================================
