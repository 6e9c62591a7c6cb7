--------------------------- MODULE JointThreshold ---------------------------
(***************************************************************************)
(* JointThreshold.run, which denoises one block of every request of a batch*)
(* in joint forward passes: masks become tokens (M2T) and tokens that were *)
(* generated before may be edited (T2T).                                   *)
(*                                                                         *)
(* The logits are abstracted to any prediction: which masked positions pass*)
(* the threshold (at least the most confident one is always taken), which  *)
(* tokens may be edited, and what is predicted for them, mask_id included. *)
(***************************************************************************)
EXTENDS DenoiseContract, FiniteSets

CONSTANT MaxPostEdit  \* max_post_edit_steps

ASSUME JointAssumption == MaxPostEdit \in Nat

VARIABLES
  pc,        \* "start", "test", "update", "commit", "return" or "done"
  iter,      \* iterations of the loop so far
  postEdit,  \* post_edit_steps
  finished,
  changed    \* any_changed_in_last_step

vars == <<cvars, pc, iter, postEdit, finished, changed>>

MaxIterations == BlockSize + MaxPostEdit

Init ==
  /\ CInit
  /\ pc = "start"
  /\ iter = 0
  /\ postEdit = [i \in Batch |-> 0]
  /\ finished = [i \in Batch |-> FALSE]
  /\ changed = FALSE

\* No mask in the batch: one pass, and nothing to return.
PrefillPass ==
  /\ pc = "start"
  /\ \A i \in Batch : Masks(ids[i]) = {}
  /\ seen' = ids
  /\ pc' = "return"
  /\ UNCHANGED <<input, ids, maskPredicted, returned, iter, postEdit, finished, changed>>

StartLoop ==
  /\ pc = "start"
  /\ \E i \in Batch : Masks(ids[i]) # {}
  /\ pc' = "test"
  /\ UNCHANGED <<cvars, iter, postEdit, finished, changed>>

\* Mutant of LoopOver: the iterations are not counted.
LoopOverWhenFinished == \A i \in Batch : finished[i]

\* The head of the loop and the forward pass of an iteration.
LoopOver == iter = MaxIterations \/ \A i \in Batch : finished[i]

\* Mutant of Pass: the loop does not count its iterations.
PassUncounted ==
  /\ pc = "test"
  /\ ~LoopOver
  /\ seen' = ids
  /\ pc' = "update"
  /\ UNCHANGED <<input, ids, maskPredicted, returned, iter, postEdit, finished, changed>>

Pass ==
  /\ pc = "test"
  /\ ~LoopOver
  /\ seen' = ids
  /\ iter' = iter + 1
  /\ pc' = "update"
  /\ UNCHANGED <<input, ids, maskPredicted, returned, postEdit, finished, changed>>

LeaveLoop ==
  /\ pc = "test"
  /\ LoopOver
  /\ pc' = "commit"
  /\ UNCHANGED <<cvars, iter, postEdit, finished, changed>>

\* Mutant of Transfers: the most confident mask is not forced.
TransfersUnforced(i) == SUBSET {p \in Pos : input[i][p] = Mask}

\* The positions that may change in block i: a transfer takes at least one mask if
\* there is one, and no position that run was given a token for.
Transfers(i) ==
  {t \in SUBSET {p \in Pos : input[i][p] = Mask} :
     Masks(ids[i]) # {} => t \cap Masks(ids[i]) # {}}

\* post_edit_steps after this iteration, and whether it is used up.
Counted(i) ==
  IF Masks(ids[i]) = {} /\ ~finished[i] THEN postEdit[i] + 1 ELSE postEdit[i]

\* Mutant of UsedUp: one more edit.
UsedUpLater(i) == Masks(ids[i]) = {} /\ Counted(i) > MaxPostEdit + 1

UsedUp(i) == Masks(ids[i]) = {} /\ Counted(i) > MaxPostEdit

\* What an iteration may do to the block of request i: the new block, whether it
\* wrote anything (transfer_index.any()), and whether a mask was among it.  An edited
\* token differs from the one it replaces.
Outcomes(i) ==
  IF finished[i] \/ UsedUp(i)
  THEN {[block |-> ids[i], moved |-> FALSE, predicted |-> FALSE]}
  ELSE UNION {{[block |-> Written(ids[i], t, x), moved |-> t # {},
                predicted |-> \E p \in t : x[p] = Mask] :
                 x \in {x \in [t -> Vocab \cup {Mask}] :
                          \A p \in t \ Masks(ids[i]) : x[p] # ids[i][p]}} :
               t \in Transfers(i)}

\* The rest of an iteration, for every request that is not finished.
Update ==
  /\ pc = "update"
  /\ \E out \in [Batch -> UNION {Outcomes(i) : i \in Batch}] :
       /\ \A i \in Batch : out[i] \in Outcomes(i)
       /\ ids' = [i \in Batch |-> out[i].block]
       /\ finished' = [i \in Batch |-> finished[i] \/ ~out[i].moved]
       /\ changed' = \E i \in Batch : out[i].moved
       /\ maskPredicted' = (maskPredicted \/ \E i \in Batch : out[i].predicted)
  /\ postEdit' = [i \in Batch |-> Counted(i)]
  /\ pc' = "test"
  /\ UNCHANGED <<input, seen, returned, iter>>

\* Mutant of CommitPass: no last pass when the iterations ran out.
CommitPassUnlessOut ==
  /\ pc = "commit"
  /\ seen' = IF changed /\ iter < MaxIterations THEN ids ELSE seen
  /\ pc' = "return"
  /\ UNCHANGED <<input, ids, maskPredicted, returned, iter, postEdit, finished, changed>>

\* A last pass when the last iteration changed a block.
CommitPass ==
  /\ pc = "commit"
  /\ seen' = IF changed THEN ids ELSE seen
  /\ pc' = "return"
  /\ UNCHANGED <<input, ids, maskPredicted, returned, iter, postEdit, finished, changed>>

Return ==
  /\ pc = "return"
  /\ pc' = "done"
  /\ returned' = TRUE
  /\ UNCHANGED <<input, ids, seen, maskPredicted, iter, postEdit, finished, changed>>

Next == PrefillPass \/ StartLoop \/ Pass \/ LeaveLoop \/ Update \/ CommitPass \/ Return

Spec == Init /\ [][Next]_vars

-----------------------------------------------------------------------------
\* Type invariant.
TypeOK ==
  /\ pc \in {"start", "test", "update", "commit", "return", "done"}
  /\ input \in [Batch -> Blocks]
  /\ ids \in [Batch -> Blocks]
  /\ iter \in 0 .. MaxIterations
  /\ postEdit \in [Batch -> Nat]
  /\ finished \in [Batch -> BOOLEAN]
  /\ changed \in BOOLEAN
  /\ returned \in BOOLEAN
  /\ maskPredicted \in BOOLEAN

\* When run returns, the last pass saw the tokens it returns, for every request:
\* one flag for the batch, reset in each iteration, tells whether the last pass is
\* stale, although requests finish in different iterations.
FreshOnReturn == returned => seen = ids

\* The iterations suffice: no mask is left when run returns, unless the model has
\* predicted one, and a request that was still edited when they ran out had all its
\* masks replaced before.
NoMaskReturned == returned /\ ~maskPredicted => \A i \in Batch : Masks(ids[i]) = {}

\* A request with masks left is not finished, and it is edited at most
\* max_post_edit_steps times after its last mask is gone.
EditsBounded ==
  \A i \in Batch :
    /\ finished[i] => Masks(ids[i]) = {}
    /\ postEdit[i] <= MaxPostEdit + 1
    /\ postEdit[i] = MaxPostEdit + 1 => finished[i]

\* The inductive invariant behind the properties above: when the last pass is
\* fresh at each point of the loop, and that an iteration costs every block that
\* has masks at least one of them as long as the model predicts none.
Inductive ==
  /\ TypeOK
  /\ returned <=> pc = "done"
  /\ pc \in {"start", "test"} /\ iter = 0 => \A i \in Batch : ~finished[i]
  /\ pc = "start" => iter = 0 /\ ids = input
  /\ pc \in {"update", "return", "done"} => seen = ids
  /\ pc = "test" /\ iter > 0 /\ ~changed => seen = ids
  /\ pc = "commit" /\ ~changed => seen = ids
  /\ pc = "update" => iter > 0
  /\ EditsBounded
  /\ \A i \in Batch :
       ~maskPredicted /\ Masks(ids[i]) # {} =>
         Cardinality(Masks(ids[i])) + iter <= IF pc = "update" THEN BlockSize + 1 ELSE BlockSize
  /\ pc \in {"commit", "return", "done"} /\ ~maskPredicted => \A i \in Batch : Masks(ids[i]) = {}
  /\ \A i \in Batch, p \in Pos : input[i][p] # Mask => ids[i][p] = input[i][p]

\* run keeps the promise of a denoising algorithm.
KeepsContract == CSpec

=============================================================================
