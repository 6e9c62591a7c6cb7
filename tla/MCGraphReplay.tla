--------------------------- MODULE MCGraphReplay ----------------------------
(***************************************************************************)
(* Model values and symmetry for GraphReplay.                              *)
(***************************************************************************)
EXTENDS GraphReplay, TLC

Symmetry == Permutations(Reqs) \cup Permutations(Cells)

=============================================================================
