-------------------------- MODULE DenoiseContract ---------------------------
(***************************************************************************)
(* What a denoising algorithm (DllmAlgorithm.run) promises to the scheduler*)
(* for one block of every request of a batch: it alternates forward passes *)
(* and changes of the block that are computed from the last pass, it leaves*)
(* the tokens it was given alone, and when it returns no mask is left,     *)
(* unless the model has predicted one, and the last pass, whose KV entries *)
(* and working state are the ones that will be committed, saw the very     *)
(* tokens it returns.                                                      *)
(***************************************************************************)
EXTENDS Integers

CONSTANTS
  Batch,      \* the requests of the batch
  BlockSize,  \* block_size
  Vocab,      \* the tokens, without mask_id
  Mask        \* mask_id

ASSUME DenoiseAssumption ==
  /\ Batch # {}
  /\ BlockSize \in Nat \ {0}
  /\ Mask \notin Vocab

VARIABLES
  input,          \* forward_batch.input_ids when run is called
  ids,            \* forward_batch.input_ids
  seen,           \* what the last forward pass saw, or NotSeen
  maskPredicted,  \* was a predicted mask_id written to a block?
  returned

cvars == <<input, ids, seen, maskPredicted, returned>>

Pos == 1 .. BlockSize
Blocks == [Pos -> Vocab \cup {Mask}]
NotSeen == [i \in Batch |-> <<>>]

Masks(block) == {p \in Pos : block[p] = Mask}

\* The block with the predictions x written to the positions of t.
Written(block, t, x) == [p \in Pos |-> IF p \in t THEN x[p] ELSE block[p]]

\* The blocks of a batch as the scheduler builds it: known tokens and then masks,
\* and either no request has a mask (prefill) or every request has one (decode).
Inputs ==
  {blocks \in [Batch -> Blocks] :
     /\ \A i \in Batch : \A p, q \in Pos :
          p < q /\ blocks[i][p] = Mask => blocks[i][q] = Mask
     /\ \/ \A i \in Batch : Masks(blocks[i]) = {}
        \/ \A i \in Batch : Masks(blocks[i]) # {}}

CInit ==
  /\ input \in Inputs
  /\ ids = input
  /\ seen = NotSeen
  /\ maskPredicted = FALSE
  /\ returned = FALSE

CForward ==
  /\ ~returned
  /\ seen' = ids
  /\ UNCHANGED <<input, ids, maskPredicted, returned>>

CChange ==
  /\ ~returned
  /\ seen = ids
  /\ ids' \in [Batch -> Blocks]
  /\ \A i \in Batch, p \in Pos : input[i][p] # Mask => ids'[i][p] = input[i][p]
  /\ maskPredicted' \in {maskPredicted, TRUE}
  /\ UNCHANGED <<input, seen, returned>>

CReturn ==
  /\ ~returned
  /\ seen = ids
  /\ maskPredicted \/ \A i \in Batch : Masks(ids[i]) = {}
  /\ returned' = TRUE
  /\ UNCHANGED <<input, ids, seen, maskPredicted>>

CNext == CForward \/ CChange \/ CReturn

CSpec == CInit /\ [][CNext]_cvars

=============================================================================
