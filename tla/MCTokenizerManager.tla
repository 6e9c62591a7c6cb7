------------------------- MODULE MCTokenizerManager -------------------------
(***************************************************************************)
(* Calls for TokenizerManager: a streamed one and one that is not, with    *)
(* the same id or with two.                                                *)
(***************************************************************************)
EXTENDS TokenizerManager

CONSTANTS c1, c2, i1, i2

MCRidChoices == {[c \in Calls |-> i1], [c \in Calls |-> IF c = c1 THEN i1 ELSE i2]}

=============================================================================
