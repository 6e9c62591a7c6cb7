--------------------------- MODULE LowConfidence ----------------------------
(***************************************************************************)
(* LowConfidence.run: the other denoising algorithm.  It only replaces     *)
(* masks, stops when the batch has none left, and always ends with a pass  *)
(* over the final tokens.  The logits are abstracted as in JointThreshold. *)
(***************************************************************************)
EXTENDS DenoiseContract, FiniteSets

VARIABLES
  pc,   \* "start", "test", "update", "commit", "return" or "done"
  iter  \* iterations of the loop so far

vars == <<cvars, pc, iter>>

Init == CInit /\ pc = "start" /\ iter = 0

NoMaskLeft == \A i \in Batch : Masks(ids[i]) = {}

\* Fast path: no mask in the batch.
PrefillPass ==
  /\ pc = "start"
  /\ NoMaskLeft
  /\ seen' = ids
  /\ pc' = "return"
  /\ UNCHANGED <<input, ids, maskPredicted, returned, iter>>

StartLoop ==
  /\ pc = "start"
  /\ ~NoMaskLeft
  /\ pc' = "test"
  /\ UNCHANGED <<cvars, iter>>

\* Mutant of LoopOver: one iteration too few.
LoopOverEarly == iter = BlockSize - 1 \/ NoMaskLeft

LoopOver == iter = BlockSize \/ NoMaskLeft

Pass ==
  /\ pc = "test"
  /\ ~LoopOver
  /\ seen' = ids
  /\ iter' = iter + 1
  /\ pc' = "update"
  /\ UNCHANGED <<input, ids, maskPredicted, returned>>

LeaveLoop ==
  /\ pc = "test"
  /\ LoopOver
  /\ pc' = "commit"
  /\ UNCHANGED <<cvars, iter>>

\* What an iteration may do to a block: some of its masks, at least the most
\* confident one, are replaced by predictions.
Outcomes(block) ==
  IF Masks(block) = {} THEN {[block |-> block, predicted |-> FALSE]}
  ELSE UNION {{[block |-> Written(block, t, x), predicted |-> \E p \in t : x[p] = Mask] :
                 x \in [t -> Vocab \cup {Mask}]} :
               t \in (SUBSET Masks(block)) \ {{}}}

Update ==
  /\ pc = "update"
  /\ \E out \in [Batch -> UNION {Outcomes(ids[i]) : i \in Batch}] :
       /\ \A i \in Batch : out[i] \in Outcomes(ids[i])
       /\ ids' = [i \in Batch |-> out[i].block]
       /\ maskPredicted' = (maskPredicted \/ \E i \in Batch : out[i].predicted)
  /\ pc' = "test"
  /\ UNCHANGED <<input, seen, returned, iter>>

\* The commit pass.
CommitPass ==
  /\ pc = "commit"
  /\ seen' = ids
  /\ pc' = "return"
  /\ UNCHANGED <<input, ids, maskPredicted, returned, iter>>

Return ==
  /\ pc = "return"
  /\ pc' = "done"
  /\ returned' = TRUE
  /\ UNCHANGED <<input, ids, seen, maskPredicted, iter>>

Next == PrefillPass \/ StartLoop \/ Pass \/ LeaveLoop \/ Update \/ CommitPass \/ Return

Spec == Init /\ [][Next]_vars

-----------------------------------------------------------------------------
\* The inductive invariant of run: a pass is fresh where its result is used, and an
\* iteration costs every block that has masks at least one of them as long as the
\* model predicts none.
Inductive ==
  /\ pc \in {"start", "test", "update", "commit", "return", "done"}
  /\ iter \in 0 .. BlockSize
  /\ input \in [Batch -> Blocks] /\ ids \in [Batch -> Blocks]
  /\ returned \in BOOLEAN /\ maskPredicted \in BOOLEAN
  /\ returned <=> pc = "done"
  /\ pc = "start" => iter = 0 /\ ids = input
  /\ pc \in {"update", "return", "done"} => seen = ids
  /\ pc = "update" => iter > 0
  /\ \A i \in Batch :
       ~maskPredicted /\ Masks(ids[i]) # {} =>
         Cardinality(Masks(ids[i])) + iter <= IF pc = "update" THEN BlockSize + 1 ELSE BlockSize
  /\ pc \in {"commit", "return", "done"} /\ ~maskPredicted => NoMaskLeft
  /\ \A i \in Batch, p \in Pos : input[i][p] # Mask => ids[i][p] = input[i][p]

\* run keeps the promise of a denoising algorithm: the block_size iterations
\* suffice for every block, and the commit pass sees what is returned.
KeepsContract == CSpec

=============================================================================
