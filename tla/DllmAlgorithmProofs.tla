------------------------ MODULE DllmAlgorithmProofs -------------------------
(***************************************************************************)
(* Proofs about both denoising algorithms, for every batch, block size,    *)
(* vocabulary and number of post-edit steps: first JointThreshold, then    *)
(* LowConfidence (LC), then the server that runs the one it was given.     *)
(***************************************************************************)
EXTENDS DllmAlgorithm, FiniteSetTheorems, TLAPS

\* The masks of a block are finitely many, at most one for each position.
LEMMA MasksFinite ==
  ASSUME NEW block
  PROVE  /\ IsFiniteSet(Masks(block))
         /\ Cardinality(Masks(block)) \in Nat
         /\ Cardinality(Masks(block)) <= BlockSize
         /\ Cardinality(Masks(block)) = 0 => Masks(block) = {}
<1>1. IsFiniteSet(Pos) /\ Cardinality(Pos) = BlockSize
  BY FS_Interval, DenoiseAssumption DEF Pos
<1>2. Masks(block) \in SUBSET Pos
  BY DEF Masks
<1>3. IsFiniteSet(Masks(block)) /\ Cardinality(Masks(block)) <= Cardinality(Pos)
  BY <1>1, <1>2, FS_Subset
<1>4. Cardinality(Masks(block)) \in Nat
  BY <1>3, FS_CardinalityType
<1>5. Cardinality(Masks(block)) = 0 => Masks(block) = {}
  BY <1>3, FS_EmptySet
<1> QED BY <1>1, <1>3, <1>4, <1>5

\* What an iteration does to one block (Outcomes): it stays a block and the given
\* tokens stay; unless a mask was predicted no mask appears and a block with masks
\* loses one; and an iteration that writes nothing found no mask.
LEMMA IterationOnBlock ==
  ASSUME NEW i \in Batch, NEW out \in Outcomes(i),
         ids \in [Batch -> Blocks], input \in [Batch -> Blocks],
         finished[i] => Masks(ids[i]) = {}
  PROVE  /\ out.block \in Blocks /\ out.moved \in BOOLEAN /\ out.predicted \in BOOLEAN
         /\ ~out.predicted =>
              /\ Masks(out.block) \subseteq Masks(ids[i])
              /\ Masks(ids[i]) # {} => Masks(out.block) # Masks(ids[i])
         /\ \A p \in Pos : input[i][p] # Mask => out.block[p] = ids[i][p]
         /\ ~out.moved => out.block = ids[i] /\ Masks(ids[i]) = {}
         /\ finished[i] \/ UsedUp(i) => ~out.moved
<1>1. CASE finished[i] \/ UsedUp(i)
  <2>1. out = [block |-> ids[i], moved |-> FALSE, predicted |-> FALSE]
    BY <1>1 DEF Outcomes
  <2>2. Masks(ids[i]) = {}
    BY <1>1 DEF UsedUp
  <2> QED BY <2>1, <2>2
<1>2. CASE ~(finished[i] \/ UsedUp(i))
  <2>1. PICK t \in Transfers(i) :
          \E x \in [t -> Vocab \cup {Mask}] :
            out = [block |-> Written(ids[i], t, x), moved |-> t # {},
                   predicted |-> \E p \in t : x[p] = Mask]
    BY <1>2 DEF Outcomes
  <2>2. PICK x \in [t -> Vocab \cup {Mask}] :
          out = [block |-> Written(ids[i], t, x), moved |-> t # {},
                 predicted |-> \E p \in t : x[p] = Mask]
    BY Zenon, <2>1
  <2>3. /\ t \subseteq {p \in Pos : input[i][p] = Mask}
        /\ Masks(ids[i]) # {} => t \cap Masks(ids[i]) # {}
    BY DEF Transfers
  <2>4. /\ out.block = [p \in Pos |-> IF p \in t THEN x[p] ELSE ids[i][p]]
        /\ out.moved = (t # {})
        /\ out.predicted = (\E p \in t : x[p] = Mask)
    BY <2>2 DEF Written
  <2>5. out.block \in Blocks
    BY <2>3, <2>4 DEF Blocks
  <2>6. \A p \in Pos \ t : out.block[p] = ids[i][p]
    BY <2>4
  <2>7. \A p \in Pos : input[i][p] # Mask => out.block[p] = ids[i][p]
    BY <2>3, <2>6
  <2>8. ~out.predicted => \A p \in t : out.block[p] # Mask
    BY <2>3, <2>4
  <2>9. ~out.predicted => /\ Masks(out.block) \subseteq Masks(ids[i])
                          /\ Masks(ids[i]) # {} => Masks(out.block) # Masks(ids[i])
    BY <2>3, <2>6, <2>8 DEF Masks
  <2>10. ~out.moved => out.block = ids[i] /\ Masks(ids[i]) = {}
    BY Zenon, <2>3, <2>4 DEF Blocks
  <2> QED BY <1>2, <2>4, <2>5, <2>7, <2>9, <2>10
<1> QED BY <1>1, <1>2

\* The initial states satisfy the inductive invariant.
LEMMA InitInductive == Init => Inductive
<1> SUFFICES ASSUME Init PROVE Inductive
  OBVIOUS
<1>1. /\ input \in [Batch -> Blocks] /\ ids = input /\ returned = FALSE
      /\ pc = "start" /\ iter = 0 /\ changed = FALSE
      /\ postEdit = [i \in Batch |-> 0] /\ finished = [i \in Batch |-> FALSE]
  BY DEF Init, CInit, Inputs
<1> maskPredicted = FALSE
  BY DEF Init, CInit
<1>2. TypeOK
  <2>1. 0 \in 0 .. MaxIterations
    BY DenoiseAssumption, JointAssumption DEF MaxIterations
  <2>2. postEdit \in [Batch -> Nat] /\ finished \in [Batch -> BOOLEAN]
    BY <1>1
  <2> QED BY Zenon, <1>1, <2>1, <2>2 DEF TypeOK
<1>3. EditsBounded
  <2>1. \A i \in Batch : postEdit[i] = 0 /\ finished[i] = FALSE
    BY Zenon, <1>1
  <2>2. 0 <= MaxPostEdit + 1 /\ 0 # MaxPostEdit + 1
    BY JointAssumption
  <2> QED BY Zenon, <2>1, <2>2 DEF EditsBounded
<1>4. ASSUME NEW i \in Batch
      PROVE  Cardinality(Masks(ids[i])) + iter <= BlockSize
  <2>1. Cardinality(Masks(ids[i])) \in Nat /\ Cardinality(Masks(ids[i])) <= BlockSize
    BY MasksFinite
  <2> QED BY <2>1, <1>1, DenoiseAssumption
<1> QED BY <1>1, <1>2, <1>3, <1>4 DEF Inductive

\* The iteration that changes the blocks keeps the inductive invariant: the only
\* step that writes them.
LEMMA UpdateInductive == Inductive /\ Update => Inductive'
<1> SUFFICES ASSUME Inductive, Update PROVE Inductive'
  OBVIOUS
<1>1. /\ pc = "update" /\ pc' = "test"
      /\ postEdit' = [i \in Batch |-> Counted(i)]
      /\ input' = input /\ seen' = seen /\ returned' = returned /\ iter' = iter
  BY DEF Update
<1>2. TypeOK /\ EditsBounded /\ (returned <=> pc = "done") /\ seen = ids /\ iter > 0
  BY <1>1 DEF Inductive
<1>a. PICK out \in [Batch -> UNION {Outcomes(i) : i \in Batch}] :
        /\ \A i \in Batch : out[i] \in Outcomes(i)
        /\ ids' = [i \in Batch |-> out[i].block]
        /\ finished' = [i \in Batch |-> finished[i] \/ ~out[i].moved]
        /\ changed' = \E i \in Batch : out[i].moved
        /\ maskPredicted' = (maskPredicted \/ \E i \in Batch : out[i].predicted)
  BY DEF Update
<1>b. ASSUME NEW i \in Batch
      PROVE  /\ out[i].block \in Blocks /\ out[i].moved \in BOOLEAN
             /\ out[i].predicted \in BOOLEAN
             /\ ~out[i].predicted =>
                  /\ Masks(out[i].block) \subseteq Masks(ids[i])
                  /\ Masks(ids[i]) # {} => Masks(out[i].block) # Masks(ids[i])
             /\ \A p \in Pos : input[i][p] # Mask => out[i].block[p] = ids[i][p]
             /\ ~out[i].moved => out[i].block = ids[i] /\ Masks(ids[i]) = {}
             /\ finished[i] \/ UsedUp(i) => ~out[i].moved
  BY Zenon, <1>a, <1>2, IterationOnBlock DEF TypeOK, EditsBounded
<1>3. ASSUME NEW i \in Batch
      PROVE  /\ ids'[i] = out[i].block
             /\ finished'[i] = (finished[i] \/ ~out[i].moved)
             /\ ~maskPredicted' => ~maskPredicted /\ ~out[i].predicted
             /\ ~maskPredicted' => /\ Masks(ids'[i]) \subseteq Masks(ids[i])
                                   /\ Masks(ids[i]) # {} => Masks(ids'[i]) # Masks(ids[i])
             /\ \A p \in Pos : input[i][p] # Mask => ids'[i][p] = ids[i][p]
             /\ finished[i] \/ UsedUp(i) => ids'[i] = ids[i]
             /\ finished'[i] => ids'[i] = ids[i] /\ Masks(ids[i]) = {}
  <2>1. /\ ids'[i] = out[i].block
        /\ finished'[i] = (finished[i] \/ ~out[i].moved)
        /\ ~maskPredicted' => ~maskPredicted /\ ~out[i].predicted
    BY Zenon, <1>a
  <2> QED BY Zenon, <2>1, <1>b
<1>4. TypeOK'
  <2>1. postEdit' \in [Batch -> Nat]
    BY <1>1, <1>2 DEF TypeOK, Counted
  <2>2. finished' \in [Batch -> BOOLEAN]
    BY <1>a, <1>2 DEF TypeOK
  <2>3. changed' \in BOOLEAN /\ maskPredicted' \in BOOLEAN
    BY <1>a
  <2>4. ids' \in [Batch -> Blocks]
    BY <1>a, <1>b
  <2> QED BY <1>1, <1>2, <2>1, <2>2, <2>3, <2>4 DEF TypeOK, MaxIterations, Blocks
<1>5. EditsBounded'
  <2> SUFFICES ASSUME NEW i \in Batch
               PROVE  /\ finished'[i] => Masks(ids'[i]) = {}
                      /\ postEdit'[i] <= MaxPostEdit + 1
                      /\ postEdit'[i] = MaxPostEdit + 1 => finished'[i]
    BY DEF EditsBounded, Masks
  <2>1. finished'[i] = (finished[i] \/ ~out[i].moved)
    BY <1>3
  <2>2. /\ finished[i] => Masks(ids[i]) = {}
        /\ postEdit[i] <= MaxPostEdit + 1
        /\ postEdit[i] = MaxPostEdit + 1 => finished[i]
        /\ postEdit[i] \in Nat
    BY <1>2 DEF EditsBounded, TypeOK
  <2>3. finished'[i] => Masks(ids'[i]) = {}
    BY Zenon, <2>1, <2>2, <1>3
  <2>4. CASE finished[i] \/ Masks(ids[i]) # {}
    BY Zenon, <2>1, <2>2, <2>3, <2>4, <1>1 DEF Counted
  <2>5. CASE ~finished[i] /\ Masks(ids[i]) = {}
    <3>1. postEdit'[i] = postEdit[i] + 1 /\ Counted(i) = postEdit'[i]
      BY <2>5, <1>1 DEF Counted
    <3>2. postEdit[i] <= MaxPostEdit
      BY <2>2, <2>5, JointAssumption
    <3>3. postEdit'[i] = MaxPostEdit + 1 => UsedUp(i)
      BY <3>1, <2>5, JointAssumption DEF UsedUp
    <3>4. postEdit'[i] = MaxPostEdit + 1 => finished'[i]
      BY Zenon, <3>3, <2>1, <1>b
    <3>5. postEdit'[i] <= MaxPostEdit + 1
      BY <3>1, <3>2, <2>2, JointAssumption
    <3> QED BY <3>4, <3>5, <2>3
  <2> QED BY <2>4, <2>5
<1>6. ASSUME NEW i \in Batch, ~maskPredicted', Masks(ids'[i]) # {}
      PROVE  Cardinality(Masks(ids'[i])) + iter <= BlockSize
  <2>1. Masks(ids'[i]) \subseteq Masks(ids[i]) /\ Masks(ids'[i]) # Masks(ids[i])
    BY Zenon, <1>3, <1>6
  <2>2. Cardinality(Masks(ids[i])) + iter <= BlockSize + 1
    BY Zenon, <2>1, <1>3, <1>6, <1>1 DEF Inductive
  <2>3. /\ Cardinality(Masks(ids'[i])) <= Cardinality(Masks(ids[i]))
        /\ Cardinality(Masks(ids'[i])) # Cardinality(Masks(ids[i]))
    BY <2>1, MasksFinite, FS_Subset
  <2>4. iter \in Nat /\ BlockSize \in Nat
    BY <1>2, DenoiseAssumption, JointAssumption DEF TypeOK, MaxIterations
  <2>5. Cardinality(Masks(ids'[i])) \in Nat /\ Cardinality(Masks(ids[i])) \in Nat
    BY MasksFinite
  <2> QED BY <2>2, <2>3, <2>4, <2>5
<1>7. \A i \in Batch, p \in Pos : input[i][p] # Mask => ids'[i][p] = input[i][p]
  BY <1>3 DEF Inductive
<1>8. (\A i \in Batch : ~maskPredicted /\ Masks(ids[i]) # {} =>
         Cardinality(Masks(ids[i])) + iter <= IF pc = "update" THEN BlockSize + 1 ELSE BlockSize)'
  BY <1>6, <1>1 DEF Masks, Pos
<1>9. changed' \/ seen' = ids'
  <2>1. ASSUME ~changed', NEW i \in Batch PROVE ids'[i] = ids[i]
    BY <2>1, <1>a, <1>b
  <2>2. ids' = [i \in Batch |-> ids'[i]] /\ ids = [i \in Batch |-> ids[i]]
    BY <1>2, <1>4 DEF TypeOK
  <2>3. ~changed' => [i \in Batch |-> ids'[i]] = [i \in Batch |-> ids[i]]
    BY <2>1
  <2> QED BY <1>1, <1>2, <2>2, <2>3
<1>10. /\ (returned <=> pc = "done")' /\ pc' = "test" /\ iter' > 0
       /\ (\A i \in Batch, p \in Pos : input[i][p] # Mask => ids[i][p] = input[i][p])'
  BY <1>1, <1>2, <1>7 DEF Pos
<1>11. /\ (pc \in {"start", "test"} /\ iter = 0 => \A i \in Batch : ~finished[i])'
       /\ (pc = "start" => iter = 0 /\ ids = input)'
       /\ (pc \in {"update", "return", "done"} => seen = ids)'
       /\ (pc = "test" /\ iter > 0 /\ ~changed => seen = ids)'
       /\ (pc = "commit" /\ ~changed => seen = ids)'
       /\ (pc = "update" => iter > 0)'
       /\ (pc \in {"commit", "return", "done"} /\ ~maskPredicted
             => \A i \in Batch : Masks(ids[i]) = {})'
  BY <1>9, <1>10
<1> QED BY Zenon, <1>4, <1>5, <1>8, <1>10, <1>11 DEF Inductive

\* The steps that leave the blocks alone keep the inductive invariant.
LEMMA ControlInductive ==
  Inductive /\ (PrefillPass \/ StartLoop \/ Pass \/ LeaveLoop \/ CommitPass \/ Return)
    => Inductive'
<1> SUFFICES ASSUME Inductive,
                    PrefillPass \/ StartLoop \/ Pass \/ LeaveLoop \/ CommitPass \/ Return
             PROVE  Inductive'
  OBVIOUS
<1>1. /\ ids' = ids /\ input' = input /\ changed' = changed
      /\ finished' = finished /\ postEdit' = postEdit /\ maskPredicted' = maskPredicted
  BY DEF PrefillPass, StartLoop, Pass, LeaveLoop, CommitPass, Return, cvars
<1>2. TypeOK /\ EditsBounded /\ iter \in Nat /\ BlockSize \in Nat /\ MaxIterations \in Nat
  BY DenoiseAssumption, JointAssumption DEF Inductive, TypeOK, MaxIterations
<1>3. EditsBounded'
  BY <1>1, <1>2 DEF EditsBounded, Masks
<1>4. (\A i \in Batch, p \in Pos : input[i][p] # Mask => ids[i][p] = input[i][p])'
  BY <1>1 DEF Inductive, Pos
<1>5. \A i \in Batch : Masks(ids'[i]) = Masks(ids[i])
  BY <1>1
<1>6. ASSUME NEW i \in Batch PROVE Cardinality(Masks(ids[i])) \in Nat
  BY MasksFinite
<1>7. iter' \in 0 .. MaxIterations /\ (iter' = iter \/ (iter' = iter + 1 /\ pc' = "update"))
  <2>1. iter \in 0 .. MaxIterations
    BY <1>2 DEF TypeOK
  <2>2. CASE Pass
    <3>1. iter' = iter + 1 /\ iter # MaxIterations /\ pc' = "update"
      BY <2>2 DEF Pass, LoopOver
    <3> QED BY <3>1, <2>1, <1>2
  <2>3. CASE ~Pass
    <3>1. iter' = iter
      BY <2>3 DEF PrefillPass, StartLoop, LeaveLoop, CommitPass, Return
    <3> QED BY <3>1, <2>1
  <2> QED BY <2>2, <2>3
<1>8. TypeOK'
  <2>1. pc' \in {"start", "test", "update", "commit", "return", "done"} /\ returned' \in BOOLEAN
    BY Zenon, <1>2 DEF PrefillPass, StartLoop, Pass, LeaveLoop, CommitPass, Return, cvars,
       TypeOK
  <2> QED BY <1>1, <1>2, <1>7, <2>1 DEF TypeOK, MaxIterations, Blocks, Pos
<1>9. ASSUME NEW i \in Batch, ~maskPredicted, Masks(ids[i]) # {}
      PROVE  Cardinality(Masks(ids[i])) + iter' <=
               IF pc' = "update" THEN BlockSize + 1 ELSE BlockSize
  <2>1. Cardinality(Masks(ids[i])) + iter <= BlockSize
    BY <1>9 DEF Inductive, PrefillPass, StartLoop, Pass, LeaveLoop, CommitPass, Return
  <2> QED BY <2>1, <1>2, <1>6, <1>7
<1>10. (\A i \in Batch : ~maskPredicted /\ Masks(ids[i]) # {} =>
          Cardinality(Masks(ids[i])) + iter <= IF pc = "update" THEN BlockSize + 1 ELSE BlockSize)'
  BY <1>1, <1>9 DEF Masks, Pos
<1>11. pc' \in {"commit", "return", "done"} /\ ~maskPredicted => \A i \in Batch : Masks(ids[i]) = {}
  <2>1. CASE LeaveLoop
    <3> SUFFICES ASSUME ~maskPredicted, NEW i \in Batch, Masks(ids[i]) # {} PROVE FALSE
      OBVIOUS
    <3>1. Cardinality(Masks(ids[i])) + iter <= BlockSize
      BY <2>1 DEF LeaveLoop, Inductive
    <3>2. ~finished[i]
      BY <1>2 DEF EditsBounded
    <3>3. iter = MaxIterations
      BY <2>1, <3>2 DEF LeaveLoop, LoopOver
    <3>4. Cardinality(Masks(ids[i])) = 0
      BY <3>1, <3>3, <1>2, <1>6, JointAssumption DEF MaxIterations
    <3> QED BY <3>4, MasksFinite
  <2> QED BY <2>1 DEF Inductive, PrefillPass, StartLoop, Pass, CommitPass, Return
<1>12. (pc \in {"commit", "return", "done"} /\ ~maskPredicted => \A i \in Batch : Masks(ids[i]) = {})'
  BY <1>1, <1>11 DEF Masks, Pos
<1>13. pc = "test" /\ LoopOver => iter > 0
  <2> SUFFICES ASSUME pc = "test", LoopOver, iter = 0 PROVE FALSE
    BY <1>2
  <2>1. \A i \in Batch : ~finished[i]
    BY Zenon DEF Inductive
  <2> QED BY <2>1, DenoiseAssumption, JointAssumption DEF LoopOver, MaxIterations
<1>14. /\ (returned <=> pc = "done")'
       /\ (pc \in {"start", "test"} /\ iter = 0 => \A i \in Batch : ~finished[i])'
       /\ (pc = "start" => iter = 0 /\ ids = input)'
       /\ (pc \in {"update", "return", "done"} => seen = ids)'
       /\ (pc = "test" /\ iter > 0 /\ ~changed => seen = ids)'
       /\ (pc = "commit" /\ ~changed => seen = ids)'
       /\ (pc = "update" => iter > 0)'
  <2>1. CASE PrefillPass
    BY <2>1, <1>1 DEF PrefillPass, Inductive
  <2>2. CASE StartLoop
    BY <2>2, <1>1 DEF StartLoop, cvars, Inductive
  <2>3. CASE Pass
    BY <2>3, <1>1, <1>2 DEF Pass, Inductive
  <2>4. CASE LeaveLoop
    BY <2>4, <1>1, <1>13 DEF LeaveLoop, cvars, Inductive
  <2>5. CASE CommitPass
    BY <2>5, <1>1, <1>2 DEF CommitPass, Inductive, TypeOK
  <2>6. CASE Return
    BY <2>6, <1>1 DEF Return, Inductive
  <2> QED BY <2>1, <2>2, <2>3, <2>4, <2>5, <2>6
<1> QED BY <1>3, <1>4, <1>8, <1>10, <1>12, <1>14 DEF Inductive

\* Every step keeps the inductive invariant.
LEMMA NextInductive == Inductive /\ [Next]_vars => Inductive'
<1> SUFFICES ASSUME Inductive, [Next]_vars PROVE Inductive'
  OBVIOUS
<1>1. CASE Update
  BY <1>1, UpdateInductive
<1>2. CASE PrefillPass \/ StartLoop \/ Pass \/ LeaveLoop \/ CommitPass \/ Return
  BY <1>2, ControlInductive
<1>3. CASE UNCHANGED vars
  BY <1>3 DEF vars, cvars, Inductive, TypeOK, EditsBounded, Masks, Pos, Blocks, MaxIterations
<1> QED BY <1>1, <1>2, <1>3 DEF Next

\* Every step of run is a step that DenoiseContract allows, or a stutter of it.
LEMMA StepKeepsContract == Inductive /\ [Next]_vars => [CNext]_cvars
<1> SUFFICES ASSUME Inductive, [Next]_vars PROVE [CNext]_cvars
  OBVIOUS
<1>1. returned <=> pc = "done"
  BY DEF Inductive
<1>2. CASE PrefillPass
  BY <1>1, <1>2 DEF PrefillPass, CNext, CForward
<1>3. CASE StartLoop \/ LeaveLoop \/ UNCHANGED vars
  BY <1>3 DEF StartLoop, LeaveLoop, vars
<1>4. CASE Pass
  BY <1>1, <1>4 DEF Pass, CNext, CForward
<1>5. CASE Update
  <2>1. Inductive'
    BY <1>5, UpdateInductive
  <2>2. /\ pc = "update" /\ input' = input /\ seen' = seen /\ returned' = returned
        /\ maskPredicted' \in {maskPredicted, TRUE}
    BY Zenon, <1>5 DEF Update, Inductive, TypeOK
  <2>3. (\A i \in Batch, p \in Pos : input[i][p] # Mask => ids[i][p] = input[i][p])'
    BY <2>1 DEF Inductive
  <2>4. \A i \in Batch, p \in Pos : input[i][p] # Mask => ids'[i][p] = input[i][p]
    BY <2>2, <2>3 DEF Pos
  <2>5. seen = ids
    BY <2>2 DEF Inductive
  <2>6. ids' \in [Batch -> Blocks]
    BY <2>1 DEF Inductive, TypeOK, Blocks, Pos
  <2> QED BY Zenon, <1>1, <2>2, <2>4, <2>5, <2>6 DEF CNext, CChange
<1>6. CASE CommitPass
  BY <1>1, <1>6 DEF CommitPass, CNext, CForward, cvars
<1>7. CASE Return
  <2>1. pc = "return" /\ returned' = TRUE /\ UNCHANGED <<input, ids, seen, maskPredicted>>
    BY <1>7 DEF Return
  <2>2. seen = ids /\ (maskPredicted \/ \A i \in Batch : Masks(ids[i]) = {})
    BY <2>1 DEF Inductive
  <2> QED BY <1>1, <2>1, <2>2 DEF CNext, CReturn
<1> QED BY <1>2, <1>3, <1>4, <1>5, <1>6, <1>7 DEF Next

-----------------------------------------------------------------------------
(* LowConfidence. *)

\* The instance counts as this module does.
LEMMA SameCardinality == \A S : LC!Cardinality(S) = Cardinality(S)
BY Zenon DEF LC!Cardinality, Cardinality, LC!IsFiniteSet, IsFiniteSet

\* The masks of a block are finitely many, at most one for each position.
LEMMA LCMasksFinite ==
  ASSUME NEW block
  PROVE  /\ IsFiniteSet(LC!Masks(block))
         /\ Cardinality(LC!Masks(block)) \in Nat
         /\ Cardinality(LC!Masks(block)) <= BlockSize
         /\ Cardinality(LC!Masks(block)) = 0 => LC!Masks(block) = {}
<1>1. IsFiniteSet(LC!Pos) /\ Cardinality(LC!Pos) = BlockSize
  BY FS_Interval, DenoiseAssumption DEF LC!Pos
<1>2. LC!Masks(block) \in SUBSET LC!Pos
  BY DEF LC!Masks
<1>3. IsFiniteSet(LC!Masks(block)) /\ Cardinality(LC!Masks(block)) <= Cardinality(LC!Pos)
  BY <1>1, <1>2, FS_Subset
<1>4. Cardinality(LC!Masks(block)) \in Nat
  BY <1>3, FS_CardinalityType
<1>5. Cardinality(LC!Masks(block)) = 0 => LC!Masks(block) = {}
  BY <1>3, FS_EmptySet
<1> QED BY <1>1, <1>3, <1>4, <1>5

\* A block that has lost a mask and got none has fewer.
LEMMA LCFewerMasks ==
  ASSUME NEW old, NEW new, LC!Masks(new) \subseteq LC!Masks(old), LC!Masks(new) # LC!Masks(old)
  PROVE  Cardinality(LC!Masks(new)) + 1 <= Cardinality(LC!Masks(old))
<1>1. /\ Cardinality(LC!Masks(new)) <= Cardinality(LC!Masks(old))
      /\ Cardinality(LC!Masks(new)) # Cardinality(LC!Masks(old))
  BY LCMasksFinite, FS_Subset
<1>2. Cardinality(LC!Masks(new)) \in Nat /\ Cardinality(LC!Masks(old)) \in Nat
  BY LCMasksFinite
<1> QED BY <1>1, <1>2

\* What an iteration does to one block (Outcomes): it stays a block and loses no
\* token; unless a mask was predicted a block with masks loses one of them.
LEMMA LCIterationOnBlock ==
  ASSUME NEW block \in LC!Blocks, NEW out \in LC!Outcomes(block)
  PROVE  /\ out.block \in LC!Blocks /\ out.predicted \in BOOLEAN
         /\ \A p \in LC!Pos : block[p] # Mask => out.block[p] = block[p]
         /\ ~out.predicted =>
              /\ LC!Masks(out.block) \subseteq LC!Masks(block)
              /\ LC!Masks(block) # {} => LC!Masks(out.block) # LC!Masks(block)
<1>1. CASE LC!Masks(block) = {}
  <2>1. out = [block |-> block, predicted |-> FALSE]
    BY <1>1 DEF LC!Outcomes
  <2> QED BY <1>1, <2>1
<1>2. CASE LC!Masks(block) # {}
  <2>1. PICK t \in (SUBSET LC!Masks(block)) \ {{}} :
          \E x \in [t -> Vocab \cup {Mask}] :
            out = [block |-> LC!Written(block, t, x), predicted |-> \E p \in t : x[p] = Mask]
    BY <1>2 DEF LC!Outcomes
  <2>2. PICK x \in [t -> Vocab \cup {Mask}] :
          out = [block |-> LC!Written(block, t, x), predicted |-> \E p \in t : x[p] = Mask]
    BY Zenon, <2>1
  <2>3. /\ out.block = [p \in LC!Pos |-> IF p \in t THEN x[p] ELSE block[p]]
        /\ out.predicted = (\E p \in t : x[p] = Mask)
    BY <2>2 DEF LC!Written
  <2>4. t # {} /\ \A p \in t : p \in LC!Pos /\ block[p] = Mask
    BY <2>1 DEF LC!Masks
  <2>5. out.block \in LC!Blocks
    BY <2>3, <2>4 DEF LC!Blocks
  <2>6. \A p \in LC!Pos : block[p] # Mask => out.block[p] = block[p]
    BY <2>3, <2>4
  <2>7. ~out.predicted => \A p \in t : out.block[p] # Mask
    BY <2>3, <2>4
  <2>8. ~out.predicted => /\ LC!Masks(out.block) \subseteq LC!Masks(block)
                          /\ LC!Masks(out.block) # LC!Masks(block)
    BY <2>4, <2>6, <2>7 DEF LC!Masks
  <2> QED BY <2>3, <2>5, <2>6, <2>8
<1> QED BY <1>1, <1>2

\* The initial states satisfy the inductive invariant.
LEMMA LCInitInductive == LC!Init => LC!Inductive
<1> SUFFICES ASSUME LC!Init PROVE LC!Inductive
  OBVIOUS
<1>1. /\ input \in [Batch -> LC!Blocks] /\ ids = input /\ returned = FALSE
      /\ maskPredicted = FALSE /\ pc = "start" /\ iter = 0
  BY DEF LC!Init, LC!CInit, LC!Inputs
<1>2. 0 \in 0 .. BlockSize
  BY DenoiseAssumption
<1>3. ASSUME NEW i \in Batch
      PROVE  Cardinality(LC!Masks(ids[i])) + iter <= BlockSize
  <2>1. Cardinality(LC!Masks(ids[i])) \in Nat /\ Cardinality(LC!Masks(ids[i])) <= BlockSize
    BY LCMasksFinite
  <2> QED BY <2>1, <1>1, DenoiseAssumption
<1> QED BY Zenon, <1>1, <1>2, <1>3, SameCardinality DEF LC!Inductive

\* The iteration keeps the inductive invariant.
LEMMA LCUpdateInductive == LC!Inductive /\ LC!Update => LC!Inductive'
<1> SUFFICES ASSUME LC!Inductive, LC!Update PROVE LC!Inductive'
  OBVIOUS
<1>1. /\ pc = "update" /\ pc' = "test" /\ input' = input /\ seen' = seen
      /\ returned' = returned /\ iter' = iter
  BY DEF LC!Update
<1>2. /\ input \in [Batch -> LC!Blocks] /\ ids \in [Batch -> LC!Blocks]
      /\ iter \in 0 .. BlockSize /\ BlockSize \in Nat /\ iter > 0
      /\ returned = FALSE /\ maskPredicted \in BOOLEAN
  BY <1>1, DenoiseAssumption DEF LC!Inductive
<1>3. PICK out \in [Batch -> UNION {LC!Outcomes(ids[i]) : i \in Batch}] :
        /\ \A i \in Batch : out[i] \in LC!Outcomes(ids[i])
        /\ ids' = [i \in Batch |-> out[i].block]
        /\ maskPredicted' = (maskPredicted \/ \E i \in Batch : out[i].predicted)
  BY DEF LC!Update
<1>4. ASSUME NEW i \in Batch
      PROVE  /\ ids'[i] = out[i].block /\ ids'[i] \in LC!Blocks
             /\ \A p \in LC!Pos : ids[i][p] # Mask => ids'[i][p] = ids[i][p]
             /\ ~maskPredicted' => /\ ~maskPredicted
                                   /\ LC!Masks(ids'[i]) \subseteq LC!Masks(ids[i])
                                   /\ LC!Masks(ids[i]) # {} => LC!Masks(ids'[i]) # LC!Masks(ids[i])
  <2>1. ids[i] \in LC!Blocks /\ out[i] \in LC!Outcomes(ids[i]) /\ ids'[i] = out[i].block
    BY <1>2, <1>3
  <2>2. ~maskPredicted' => ~maskPredicted /\ ~out[i].predicted
    BY Zenon, <1>3
  <2> QED BY <2>1, <2>2, LCIterationOnBlock
<1>5. ids' \in [Batch -> LC!Blocks]
  BY <1>3, <1>4
<1>6. ASSUME NEW i \in Batch, ~maskPredicted', LC!Masks(ids'[i]) # {}
      PROVE  Cardinality(LC!Masks(ids'[i])) + iter <= BlockSize
  <2>1. LC!Masks(ids'[i]) \subseteq LC!Masks(ids[i]) /\ LC!Masks(ids'[i]) # LC!Masks(ids[i])
    BY Zenon, <1>4, <1>6
  <2>2. Cardinality(LC!Masks(ids[i])) + iter <= BlockSize + 1
    BY <2>1, <1>1, <1>4, <1>6, SameCardinality DEF LC!Inductive
  <2>3. Cardinality(LC!Masks(ids'[i])) + 1 <= Cardinality(LC!Masks(ids[i]))
    BY <2>1, LCFewerMasks
  <2>4. Cardinality(LC!Masks(ids'[i])) \in Nat /\ Cardinality(LC!Masks(ids[i])) \in Nat
    BY LCMasksFinite
  <2> QED BY <2>2, <2>3, <2>4, <1>2
<1>7. (\A i \in Batch : ~maskPredicted /\ LC!Masks(ids[i]) # {} =>
         Cardinality(LC!Masks(ids[i])) + iter <= IF pc = "update" THEN BlockSize + 1 ELSE BlockSize)'
  BY <1>1, <1>6 DEF LC!Masks, LC!Pos
<1>8. (\A i \in Batch, p \in LC!Pos : input[i][p] # Mask => ids[i][p] = input[i][p])'
  BY <1>1, <1>4 DEF LC!Inductive, LC!Pos
<1>9. maskPredicted' \in BOOLEAN
  BY <1>3
<1> QED BY <1>1, <1>2, <1>5, <1>7, <1>8, <1>9, SameCardinality DEF LC!Inductive, LC!Blocks,
           LC!Pos

\* The steps that leave the blocks alone keep the inductive invariant.
LEMMA LCControlInductive ==
  LC!Inductive /\ (LC!PrefillPass \/ LC!StartLoop \/ LC!Pass \/ LC!LeaveLoop \/ LC!CommitPass \/ LC!Return)
    => LC!Inductive'
<1> SUFFICES ASSUME LC!Inductive,
                    LC!PrefillPass \/ LC!StartLoop \/ LC!Pass \/ LC!LeaveLoop \/ LC!CommitPass \/ LC!Return
             PROVE  LC!Inductive'
  OBVIOUS
<1>1. ids' = ids /\ input' = input /\ maskPredicted' = maskPredicted
  BY DEF LC!PrefillPass, LC!StartLoop, LC!Pass, LC!LeaveLoop, LC!CommitPass, LC!Return, LC!cvars
<1>2. /\ iter \in 0 .. BlockSize /\ iter \in Nat /\ BlockSize \in Nat
      /\ \A i \in Batch : Cardinality(LC!Masks(ids[i])) \in Nat
  BY LCMasksFinite, DenoiseAssumption DEF LC!Inductive
<1>3. iter' \in 0 .. BlockSize /\ (iter' = iter \/ (iter' = iter + 1 /\ pc' = "update"))
  <2>1. CASE LC!Pass
    <3>1. iter' = iter + 1 /\ iter # BlockSize /\ pc' = "update"
      BY <2>1 DEF LC!Pass, LC!LoopOver
    <3> QED BY <3>1, <1>2
  <2>2. CASE ~LC!Pass
    <3>1. iter' = iter
      BY <2>2 DEF LC!PrefillPass, LC!StartLoop, LC!LeaveLoop, LC!CommitPass, LC!Return
    <3> QED BY <3>1, <1>2
  <2> QED BY <2>1, <2>2
<1>4. ASSUME NEW i \in Batch, ~maskPredicted, LC!Masks(ids[i]) # {}
      PROVE  Cardinality(LC!Masks(ids[i])) + iter' <=
               IF pc' = "update" THEN BlockSize + 1 ELSE BlockSize
  <2>1. Cardinality(LC!Masks(ids[i])) + iter <= BlockSize
    BY <1>4, SameCardinality
    DEF LC!Inductive, LC!PrefillPass, LC!StartLoop, LC!Pass, LC!LeaveLoop, LC!CommitPass, LC!Return
  <2> QED BY <2>1, <1>2, <1>3
<1>5. (\A i \in Batch : ~maskPredicted /\ LC!Masks(ids[i]) # {} =>
         Cardinality(LC!Masks(ids[i])) + iter <= IF pc = "update" THEN BlockSize + 1 ELSE BlockSize)'
  BY <1>1, <1>4 DEF LC!Masks, LC!Pos
<1>6. pc' \in {"commit", "return", "done"} /\ ~maskPredicted => LC!NoMaskLeft
  <2>1. CASE LC!LeaveLoop
    <3> SUFFICES ASSUME ~maskPredicted, NEW i \in Batch, LC!Masks(ids[i]) # {} PROVE FALSE
      BY DEF LC!NoMaskLeft
    <3>1. Cardinality(LC!Masks(ids[i])) + iter <= BlockSize
      BY <2>1, SameCardinality DEF LC!LeaveLoop, LC!Inductive
    <3>2. iter = BlockSize
      BY <2>1 DEF LC!LeaveLoop, LC!LoopOver, LC!NoMaskLeft
    <3>3. Cardinality(LC!Masks(ids[i])) = 0
      BY <3>1, <3>2, <1>2
    <3> QED BY <3>3, LCMasksFinite
  <2> QED BY <2>1 DEF LC!Inductive, LC!PrefillPass, LC!StartLoop, LC!Pass, LC!CommitPass,
             LC!Return
<1>7. (pc \in {"commit", "return", "done"} /\ ~maskPredicted => LC!NoMaskLeft)'
  BY <1>1, <1>6 DEF LC!NoMaskLeft, LC!Masks, LC!Pos
<1>8. /\ pc' \in {"start", "test", "update", "commit", "return", "done"}
      /\ returned' \in BOOLEAN
      /\ (returned <=> pc = "done")'
      /\ (pc = "start" => iter = 0 /\ ids = input)'
      /\ (pc \in {"update", "return", "done"} => seen = ids)'
      /\ (pc = "update" => iter > 0)'
  <2>1. returned \in BOOLEAN /\ (returned <=> pc = "done") /\ (pc = "start" => iter = 0 /\ ids = input)
    BY DEF LC!Inductive
  <2>2. CASE LC!PrefillPass
    BY <2>1, <2>2, <1>1 DEF LC!PrefillPass
  <2>3. CASE LC!StartLoop
    BY <2>1, <2>3 DEF LC!StartLoop, LC!cvars
  <2>4. CASE LC!Pass
    BY <2>1, <2>4, <1>1, <1>2 DEF LC!Pass
  <2>5. CASE LC!LeaveLoop
    BY <2>1, <2>5 DEF LC!LeaveLoop, LC!cvars
  <2>6. CASE LC!CommitPass
    BY <2>1, <2>6, <1>1 DEF LC!CommitPass
  <2>7. CASE LC!Return
    <3>1. seen = ids
      BY <2>7 DEF LC!Return, LC!Inductive
    <3> QED BY <2>1, <2>7, <3>1 DEF LC!Return
  <2> QED BY <2>2, <2>3, <2>4, <2>5, <2>6, <2>7
<1>9. (\A i \in Batch, p \in LC!Pos : input[i][p] # Mask => ids[i][p] = input[i][p])'
  BY <1>1 DEF LC!Inductive, LC!Pos
<1>10. input' \in [Batch -> LC!Blocks] /\ ids' \in [Batch -> LC!Blocks] /\ maskPredicted' \in BOOLEAN
  BY <1>1 DEF LC!Inductive
<1> QED BY <1>3, <1>5, <1>7, <1>8, <1>9, <1>10, SameCardinality DEF LC!Inductive, LC!Blocks,
           LC!Pos

\* Every step keeps the inductive invariant.
LEMMA LCNextInductive == LC!Inductive /\ [LC!Next]_(LC!vars) => LC!Inductive'
<1> SUFFICES ASSUME LC!Inductive, [LC!Next]_(LC!vars) PROVE LC!Inductive'
  OBVIOUS
<1>1. CASE LC!Update
  BY <1>1, LCUpdateInductive
<1>2. CASE LC!PrefillPass \/ LC!StartLoop \/ LC!Pass \/ LC!LeaveLoop \/ LC!CommitPass \/ LC!Return
  BY <1>2, LCControlInductive
<1>3. CASE UNCHANGED LC!vars
  BY <1>3 DEF LC!vars, LC!cvars, LC!Inductive, LC!NoMaskLeft, LC!Masks, LC!Pos, LC!Blocks
<1> QED BY <1>1, <1>2, <1>3 DEF LC!Next

\* Every step of run is a step that DenoiseContract allows, or a stutter of it.
LEMMA LCStepKeepsContract == LC!Inductive /\ [LC!Next]_(LC!vars) => [LC!CNext]_(LC!cvars)
<1> SUFFICES ASSUME LC!Inductive, [LC!Next]_(LC!vars) PROVE [LC!CNext]_(LC!cvars)
  OBVIOUS
<1>1. returned \in BOOLEAN /\ (returned <=> pc = "done")
  BY DEF LC!Inductive
<1>2. CASE LC!PrefillPass
  BY <1>1, <1>2 DEF LC!PrefillPass, LC!CNext, LC!CForward
<1>3. CASE LC!StartLoop \/ LC!LeaveLoop \/ UNCHANGED LC!vars
  BY <1>3 DEF LC!StartLoop, LC!LeaveLoop, LC!vars, LC!cvars
<1>4. CASE LC!Pass
  BY <1>1, <1>4 DEF LC!Pass, LC!CNext, LC!CForward
<1>5. CASE LC!Update
  <2>1. LC!Inductive'
    BY <1>5, LCUpdateInductive
  <2>2. /\ pc = "update" /\ input' = input /\ seen' = seen /\ returned' = returned
        /\ maskPredicted' \in {maskPredicted, TRUE}
    BY Zenon, <1>5 DEF LC!Update, LC!Inductive
  <2>3. (\A i \in Batch, p \in LC!Pos : input[i][p] # Mask => ids[i][p] = input[i][p])'
    BY <2>1 DEF LC!Inductive
  <2>4. \A i \in Batch, p \in LC!Pos : input[i][p] # Mask => ids'[i][p] = input[i][p]
    BY <2>2, <2>3 DEF LC!Pos
  <2>5. seen = ids
    BY <2>2 DEF LC!Inductive
  <2>6. ids' \in [Batch -> LC!Blocks]
    BY <2>1 DEF LC!Inductive, LC!Blocks, LC!Pos
  <2> QED BY Zenon, <1>1, <2>2, <2>4, <2>5, <2>6 DEF LC!CNext, LC!CChange
<1>6. CASE LC!CommitPass
  BY <1>1, <1>6 DEF LC!CommitPass, LC!CNext, LC!CForward, LC!cvars
<1>7. CASE LC!Return
  <2>1. pc = "return" /\ returned' = TRUE /\ UNCHANGED <<input, ids, seen, maskPredicted>>
    BY <1>7 DEF LC!Return
  <2>2. seen = ids /\ (maskPredicted \/ \A i \in Batch : LC!Masks(ids[i]) = {})
    BY <2>1 DEF LC!Inductive, LC!NoMaskLeft
  <2> QED BY <1>1, <2>1, <2>2 DEF LC!CNext, LC!CReturn
<1> QED BY <1>2, <1>3, <1>4, <1>5, <1>6, <1>7 DEF LC!Next

-----------------------------------------------------------------------------
(* The algorithm of the server. *)

\* The invariant of the algorithm that runs; what LowConfidence does not have stays as
\* it was.
AlgorithmInv ==
  \/ algorithm = "JointThreshold" /\ Inductive
  \/ /\ algorithm = "LowConfidence"
     /\ LC!Inductive
     /\ postEdit = [i \in Batch |-> 0]
     /\ finished = [i \in Batch |-> FALSE]
     /\ changed = TRUE

\* The invariant holds when run is called.
LEMMA InitAlgorithm == AlgorithmInit => AlgorithmInv /\ CInit
<1> SUFFICES ASSUME AlgorithmInit PROVE AlgorithmInv /\ CInit
  OBVIOUS
<1>1. CASE algorithm = "JointThreshold" /\ Init
  BY <1>1, InitInductive DEF AlgorithmInv, Init
<1>2. CASE /\ algorithm = "LowConfidence" /\ LC!Init
           /\ postEdit = [i \in Batch |-> 0]
           /\ finished = [i \in Batch |-> FALSE]
           /\ changed = TRUE
  <2>1. CInit
    BY Zenon, <1>2 DEF LC!Init, LC!CInit, CInit, LC!Inputs, Inputs, LC!Blocks, Blocks,
       LC!Pos, Pos, LC!Masks, Masks, LC!NotSeen, NotSeen
  <2> QED BY <1>2, <2>1, LCInitInductive DEF AlgorithmInv
<1> QED BY Zenon, <1>1, <1>2 DEF AlgorithmInit

\* Every step keeps it, and is a step that DenoiseContract allows or a stutter of it.
LEMMA NextAlgorithm ==
  ASSUME AlgorithmInv, [AlgorithmNext]_algorithmVars
  PROVE  AlgorithmInv' /\ [CNext]_cvars
<1>1. CASE algorithm = "JointThreshold" /\ Next /\ UNCHANGED algorithm
  <2>1. Inductive
    BY <1>1 DEF AlgorithmInv
  <2> QED BY <1>1, <2>1, NextInductive, StepKeepsContract DEF AlgorithmInv
<1>2. CASE /\ algorithm = "LowConfidence" /\ LC!Next
           /\ UNCHANGED <<postEdit, finished, changed, algorithm>>
  <2>1. LC!Inductive /\ postEdit = [i \in Batch |-> 0] /\ finished = [i \in Batch |-> FALSE]
        /\ changed = TRUE
    BY <1>2 DEF AlgorithmInv
  <2>2. AlgorithmInv'
    BY <1>2, <2>1, LCNextInductive DEF AlgorithmInv
  <2>3. LC!CNext \/ UNCHANGED LC!cvars
    BY <1>2, <2>1, LCStepKeepsContract
  <2>4. [CNext]_cvars
    BY Zenon, <2>3 DEF LC!CNext, CNext, LC!CForward, CForward, LC!CChange, CChange,
       LC!CReturn, CReturn, LC!Blocks, Blocks, LC!Pos, Pos, LC!Masks, Masks, LC!cvars, cvars
  <2> QED BY <2>2, <2>4
<1>3. CASE UNCHANGED algorithmVars
  <2>1. UNCHANGED vars /\ UNCHANGED algorithm
    BY <1>3 DEF algorithmVars
  <2>2. UNCHANGED cvars /\ UNCHANGED <<pc, iter, postEdit, finished, changed>>
    BY <2>1 DEF vars
  <2>3. UNCHANGED LC!vars
    BY <2>2 DEF cvars, LC!vars, LC!cvars
  <2>4. CASE algorithm = "JointThreshold" /\ Inductive
    BY <2>1, <2>2, <2>4, NextInductive DEF AlgorithmInv
  <2>5. CASE /\ algorithm = "LowConfidence" /\ LC!Inductive
             /\ postEdit = [i \in Batch |-> 0]
             /\ finished = [i \in Batch |-> FALSE]
             /\ changed = TRUE
    BY <2>1, <2>2, <2>3, <2>5, LCNextInductive DEF AlgorithmInv
  <2> QED BY Zenon, <2>2, <2>4, <2>5 DEF AlgorithmInv
<1> QED BY <1>1, <1>2, <1>3 DEF AlgorithmNext

\* What holds of LowConfidence holds of JointThreshold with no post-edit steps, so one
\* invariant describes both.
LEMMA OneInvariant == AlgorithmInv => Inductive
<1> SUFFICES ASSUME LC!Inductive, postEdit = [i \in Batch |-> 0],
                    finished = [i \in Batch |-> FALSE], changed = TRUE
             PROVE  Inductive
  BY Zenon DEF AlgorithmInv
<1>1. /\ \A block : LC!Masks(block) = Masks(block)
      /\ LC!Pos = Pos /\ LC!Blocks = Blocks
  BY Zenon DEF LC!Masks, Masks, LC!Pos, Pos, LC!Blocks, Blocks
<1>2. BlockSize \in Nat /\ MaxPostEdit \in Nat
  BY DenoiseAssumption, JointAssumption
<1>3. TypeOK
  <2>1. iter \in 0 .. MaxIterations
    BY <1>2 DEF LC!Inductive, MaxIterations
  <2>2. /\ pc \in {"start", "test", "update", "commit", "return", "done"}
        /\ input \in [Batch -> Blocks] /\ ids \in [Batch -> Blocks]
        /\ returned \in BOOLEAN /\ maskPredicted \in BOOLEAN
    BY <1>1 DEF LC!Inductive
  <2> QED BY <2>1, <2>2 DEF TypeOK
<1>4. EditsBounded
  <2>1. \A i \in Batch : postEdit[i] = 0 /\ finished[i] = FALSE
    OBVIOUS
  <2>2. 0 <= MaxPostEdit + 1 /\ 0 # MaxPostEdit + 1
    BY <1>2
  <2> QED BY Zenon, <2>1, <2>2 DEF EditsBounded
<1>5. /\ returned <=> pc = "done"
      /\ pc = "start" => iter = 0 /\ ids = input
      /\ pc \in {"update", "return", "done"} => seen = ids
      /\ pc = "update" => iter > 0
  BY DEF LC!Inductive
<1>6. \A i \in Batch :
        ~maskPredicted /\ Masks(ids[i]) # {} =>
          Cardinality(Masks(ids[i])) + iter <= IF pc = "update" THEN BlockSize + 1 ELSE BlockSize
  BY <1>1, SameCardinality DEF LC!Inductive
<1>7. pc \in {"commit", "return", "done"} /\ ~maskPredicted => \A i \in Batch : Masks(ids[i]) = {}
  BY Zenon, <1>1 DEF LC!Inductive, LC!NoMaskLeft
<1>8. \A i \in Batch, p \in Pos : input[i][p] # Mask => ids[i][p] = input[i][p]
  BY <1>1 DEF LC!Inductive
<1> QED BY <1>3, <1>4, <1>5, <1>6, <1>7, <1>8 DEF Inductive

\* The inductive invariant holds in every run of either algorithm.
THEOREM InductiveHolds == AlgorithmSpec => []Inductive
<1>1. AlgorithmInv /\ [AlgorithmNext]_algorithmVars => AlgorithmInv'
  BY NextAlgorithm
<1> QED BY <1>1, InitAlgorithm, OneInvariant, PTL DEF AlgorithmSpec

\* Whatever the batch, the last pass of run saw the tokens that it returns: the KV
\* entries and the recurrent state that get committed belong to the output.
THEOREM FreshOnReturnHolds == AlgorithmSpec => []FreshOnReturn
<1>1. Inductive => FreshOnReturn
  BY DEF Inductive, FreshOnReturn
<1> QED BY <1>1, InductiveHolds, PTL

\* Whatever the block size and the number of post-edit steps, block_size iterations, and
\* max_post_edit_steps more in JointThreshold, leave no mask.
THEOREM NoMaskReturnedHolds == AlgorithmSpec => []NoMaskReturned
<1>1. Inductive => NoMaskReturned
  BY Zenon DEF Inductive, NoMaskReturned
<1> QED BY <1>1, InductiveHolds, PTL

\* Edits after the last mask are bounded, for every request of the batch.
THEOREM EditsBoundedHolds == AlgorithmSpec => []EditsBounded
<1>1. Inductive => EditsBounded
  BY DEF Inductive
<1> QED BY <1>1, InductiveHolds, PTL

\* Both algorithms implement DenoiseContract: the blocks change only after a pass that
\* saw them, the given tokens stay, and run returns what its last pass saw.
THEOREM KeepsContractHolds == AlgorithmSpec => KeepsContract
<1>1. AlgorithmInv /\ [AlgorithmNext]_algorithmVars => AlgorithmInv' /\ [CNext]_cvars
  BY NextAlgorithm
<1> QED BY <1>1, InitAlgorithm, PTL DEF AlgorithmSpec, KeepsContract, CSpec

=============================================================================
