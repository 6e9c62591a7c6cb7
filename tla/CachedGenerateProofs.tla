------------------------ MODULE CachedGenerateProofs ------------------------
(***************************************************************************)
(* The generation loops of the PyTorch model, for every call, block length,*)
(* number of layers and limit of steps: what generate may change and may   *)
(* leave behind, and that the loop with a BlockDiffusionCache does what the*)
(* loop without one does.                                                  *)
(***************************************************************************)
EXTENDS CachedGenerate, FiniteSetTheorems, TLAPS

-----------------------------------------------------------------------------
(* Numbers *)

\* A set of naturals that is not empty has a least element.
LEMMA LeastNat ==
  ASSUME NEW T \in SUBSET Nat, T # {}
  PROVE  \E n \in T : \A m \in T : n <= m
<1> DEFINE R == {ss \in Nat \X Nat : ss[1] < ss[2]}
<1>1. IsWellFoundedOn(R, Nat)
  BY Zenon, NatLessThanWellFounded DEF OpToRel
<1>2. PICK n \in T : \A m \in T : ~(<<m, n>> \in R)
  BY Zenon, <1>1, WFMin
<1>3. ASSUME NEW m \in T, m < n PROVE FALSE
  <2>1. <<m, n>> \in Nat \X Nat
    OBVIOUS
  <2>2. <<m, n>> \in R
    BY Zenon, <1>3, <2>1
  <2> QED BY Zenon, <1>2, <2>2
<1>4. \A m \in T : n <= m
  BY <1>3
<1> QED BY <1>4

\* Induction, with the property given by the set of the numbers that have it.
LEMMA SetInduction ==
  ASSUME NEW S, 0 \in S, \A n \in Nat : n \in S => n + 1 \in S
  PROVE  Nat \subseteq S
<1> DEFINE T == Nat \ S
<1> SUFFICES ASSUME T # {} PROVE FALSE
  OBVIOUS
<1>1. PICK n \in T : \A m \in T : n <= m
  BY Zenon, LeastNat
<1>2. n - 1 \in Nat
  BY <1>1
<1>3. n - 1 \in S
  BY <1>1, <1>2
<1> QED BY <1>1, <1>2, <1>3

\* Integer division.
LEMMA DivFacts ==
  ASSUME NEW a \in Nat, NEW b \in Nat \ {0}
  PROVE  /\ a \div b \in Nat
         /\ (a \div b) * b <= a
         /\ a < (a \div b) * b + b
OBVIOUS

\* The smaller of two numbers.
LEMMA MinOfTwo ==
  ASSUME NEW a \in Nat, NEW b \in Nat
  PROVE  Min({a, b}) = IF a <= b THEN a ELSE b
BY DEF Min

\* Blocks follow each other.
LEMMA BlockOrder ==
  ASSUME NEW m \in Nat, NEW n \in Nat
  PROVE  /\ m * BlockLength \in Nat
         /\ (m + 1) * BlockLength = m * BlockLength + BlockLength
         /\ m <= n => m * BlockLength <= n * BlockLength
         /\ m < n => m * BlockLength + BlockLength <= n * BlockLength
<1>1. BlockLength \in Nat \ {0}
  BY GenerateAssumption
<1>2. m * BlockLength \in Nat /\ n * BlockLength \in Nat
  BY <1>1
<1>3. (m + 1) * BlockLength = m * BlockLength + BlockLength
  BY <1>1
<1>4. ASSUME m <= n PROVE m * BlockLength <= n * BlockLength
  <2>1. n - m \in Nat /\ n = m + (n - m)
    BY <1>4
  <2>2. (n - m) * BlockLength >= 0
    BY <1>1, <2>1
  <2>3. n * BlockLength = m * BlockLength + (n - m) * BlockLength
    BY <1>1, <2>1
  <2> QED BY <1>1, <1>2, <2>1, <2>2, <2>3
<1>5. ASSUME m < n PROVE m * BlockLength + BlockLength <= n * BlockLength
  <2>1. n - m - 1 \in Nat /\ n = m + 1 + (n - m - 1)
    BY <1>5
  <2>2. (n - m - 1) * BlockLength >= 0
    BY <1>1, <2>1
  <2>3. n * BlockLength = m * BlockLength + BlockLength + (n - m - 1) * BlockLength
    BY <1>1, <2>1
  <2> QED BY <1>1, <1>2, <2>2, <2>3
<1> QED BY <1>2, <1>3, <1>4, <1>5

\* The window of a call: the prompt ends inside block PrefillBlocks, and the blocks
\* hold what is to be generated.
LEMMA WindowShape ==
  ASSUME call \in Calls
  PROVE  /\ PromptLength \in Nat /\ call.genLength \in Nat \ {0}
         /\ PrefillBlocks \in Nat /\ NumBlocks \in Nat /\ TotalLength \in Nat
         /\ PrefillBlocks + 1 <= NumBlocks
         /\ PrefillBlocks * BlockLength <= PromptLength
         /\ PromptLength < (PrefillBlocks + 1) * BlockLength
         /\ PromptLength + call.genLength <= TotalLength
         /\ TotalLength = NumBlocks * BlockLength
         /\ Steps \in Nat
<1> DEFINE P == PromptLength
           G == call.genLength
           B == BlockLength
<1>1. P \in Nat /\ G \in Nat \ {0} /\ B \in Nat \ {0}
  BY GenerateAssumption DEF PromptLength
<1>2. PrefillBlocks \in Nat /\ PrefillBlocks * B <= P /\ P < PrefillBlocks * B + B
  BY <1>1, DivFacts DEF PrefillBlocks
<1>3. /\ NumBlocks \in Nat /\ NumBlocks * B <= P + G + B - 1
      /\ P + G + B - 1 < NumBlocks * B + B
  <2>1. P + G + B - 1 \in Nat
    BY <1>1
  <2> QED BY Zenon, <1>1, <2>1, DivFacts DEF NumBlocks
<1>4. TotalLength = NumBlocks * B /\ TotalLength \in Nat /\ P + G <= TotalLength
  BY <1>1, <1>3, BlockOrder DEF TotalLength
<1>5. PrefillBlocks + 1 <= NumBlocks
  <2> SUFFICES ASSUME NumBlocks <= PrefillBlocks PROVE FALSE
    BY <1>2, <1>3
  <2>1. NumBlocks * B <= PrefillBlocks * B
    BY <1>2, <1>3, BlockOrder
  <2> QED BY <1>1, <1>2, <1>4, <2>1
<1>6. Steps \in Nat
  <2>1. MinimalTopk \in Nat \ {0} /\ StepsArg \in Nat
    BY GenerateAssumption
  <2>2. G \div MinimalTopk \in Nat
    BY <1>1, <2>1, DivFacts
  <2> QED BY <2>1, <2>2, MinOfTwo DEF Steps
<1>7. P < (PrefillBlocks + 1) * B
  BY <1>2, BlockOrder
<1> QED BY <1>1, <1>2, <1>3, <1>4, <1>5, <1>6, <1>7

\* The positions of block n of the window.
LEMMA BlockPositions ==
  ASSUME call \in Calls, NEW n \in Nat
  PROVE  /\ \A p \in BlockPos(n) : /\ p \in Nat /\ n * BlockLength <= p
                                   /\ p < (n + 1) * BlockLength
         /\ \A p \in Nat : n * BlockLength <= p /\ p < (n + 1) * BlockLength => p \in BlockPos(n)
         /\ n < NumBlocks => BlockPos(n) \subseteq Positions
         /\ IsFiniteSet(BlockPos(n)) /\ Cardinality(BlockPos(n)) = BlockLength
<1> DEFINE lo == n * BlockLength
<1>1. lo \in Nat /\ (n + 1) * BlockLength = lo + BlockLength /\ BlockLength \in Nat \ {0}
  BY BlockOrder, GenerateAssumption
<1>2. BlockPos(n) = lo .. (lo + BlockLength - 1)
  BY <1>1 DEF BlockPos
<1> HIDE DEF lo
<1>3. IsFiniteSet(BlockPos(n)) /\ Cardinality(BlockPos(n)) = BlockLength
  <2>1. IsFiniteSet(BlockPos(n))
    BY <1>1, <1>2, FS_Interval
  <2>2. Cardinality(BlockPos(n)) = (lo + BlockLength - 1) - lo + 1
    BY <1>1, <1>2, FS_Interval
  <2> QED BY <1>1, <2>1, <2>2
<1>4. ASSUME n < NumBlocks PROVE BlockPos(n) \subseteq Positions
  <2>1. lo + BlockLength <= TotalLength /\ TotalLength \in Nat
    BY <1>4, BlockOrder, WindowShape DEF lo
  <2> QED BY <1>1, <1>2, <2>1 DEF Positions
<1> QED BY <1>1, <1>2, <1>3, <1>4 DEF lo

-----------------------------------------------------------------------------
(* The loop without a cache *)

\* The masks of a row in the current block are finitely many, and at most a block.
LEMMA MasksFitBlock ==
  ASSUME call \in Calls, numBlock \in Nat, NEW b \in Batch
  PROVE  /\ IsFiniteSet(ActiveMask(b)) /\ Cardinality(ActiveMask(b)) \in Nat
         /\ Cardinality(ActiveMask(b)) <= BlockLength
<1>1. ActiveMask(b) \subseteq BlockPos(numBlock)
  BY DEF ActiveMask
<1>2. IsFiniteSet(BlockPos(numBlock)) /\ Cardinality(BlockPos(numBlock)) = BlockLength
  BY BlockPositions
<1> QED BY <1>1, <1>2, FS_Subset, FS_CardinalityType


\* The generation loop starts with GenerateInv.
LEMMA InitGenerate == Init => GenerateInv
<1> SUFFICES ASSUME Init PROVE GenerateInv
  OBVIOUS
<1>1. call \in Calls
  BY DEF Init
<1>2. /\ numBlock = PrefillBlocks /\ stepCount = 0 /\ postSteps = 0 /\ maskPredicted = FALSE
      /\ answer = NoAnswer /\ pc = "head"
  BY DEF Init
<1>3. PICK prompt \in [Batch -> [0 .. PromptLength - 1 -> PromptTokens]] :
        x = [b \in Batch |-> [p \in Positions |-> IF p < PromptLength THEN prompt[b][p]
                                                  ELSE Mask]]
  BY DEF Init
<1>4. PromptLength \in Nat /\ Positions \subseteq Nat
  BY <1>1, WindowShape DEF Positions
<1>5. ASSUME NEW b \in Batch, NEW p \in Positions, p < PromptLength
      PROVE  x[b][p] \in Tokens /\ x[b][p] # Mask
  <2>1. p \in 0 .. PromptLength - 1
    BY <1>4, <1>5
  <2>2. prompt[b][p] \in PromptTokens
    BY Zenon, <1>3, <2>1
  <2>3. x[b][p] = prompt[b][p]
    BY <1>3, <1>5
  <2> QED BY <2>2, <2>3, GenerateAssumption DEF Tokens
<1>6. ASSUME NEW b \in Batch, NEW p \in Positions, ~(p < PromptLength)
      PROVE  x[b][p] = Mask
  BY <1>3, <1>6
<1>7. x \in [Batch -> [Positions -> Tokens]]
  <2>1. \A b \in Batch, p \in Positions : x[b][p] \in Tokens
    BY <1>5, <1>6 DEF Tokens
  <2>2. x = [b \in Batch |-> [p \in Positions |-> x[b][p]]]
    BY <1>3
  <2> QED BY <2>1, <2>2
<1>8. TypeOK
  <2>1. numBlock \in PrefillBlocks .. NumBlocks - 1
    BY <1>1, <1>2, WindowShape
  <2>2. stepCount \in 0 .. Steps /\ postSteps \in 0 .. MaxPostSteps + 1
    BY <1>1, <1>2, WindowShape, GenerateAssumption
  <2> QED BY Zenon, <1>1, <1>2, <1>7, <2>1, <2>2 DEF TypeOK
<1>9. \A b \in Batch, p \in Positions : p >= (numBlock + 1) * BlockLength => x[b][p] = Mask
  <2> SUFFICES ASSUME NEW b \in Batch, NEW p \in Positions, p >= (numBlock + 1) * BlockLength
               PROVE  ~(p < PromptLength)
    BY <1>6
  <2>1. PromptLength < (numBlock + 1) * BlockLength
    BY <1>1, <1>2, WindowShape
  <2>2. (numBlock + 1) * BlockLength \in Nat
    BY <1>1, <1>2, WindowShape, BlockOrder
  <2> QED BY <1>4, <2>1, <2>2
<1>10. ClearBelow(numBlock)
  <2> SUFFICES ASSUME NEW b \in Batch, NEW p \in Positions, p < numBlock * BlockLength
               PROVE  p < PromptLength
    BY <1>5 DEF ClearBelow
  <2>1. numBlock * BlockLength <= PromptLength
    BY <1>1, <1>2, WindowShape
  <2>2. numBlock * BlockLength \in Nat
    BY <1>1, <1>2, WindowShape, BlockOrder
  <2> QED BY <1>4, <2>1, <2>2
<1>11. InTime(stepCount)
  BY <1>1, <1>2, WindowShape, MasksFitBlock, GenerateAssumption DEF InTime
<1>12. OnTime
  BY <1>2, <1>10, <1>11 DEF OnTime
<1>13. AroundBlock
  BY <1>5, <1>9 DEF AroundBlock
<1> QED
  BY <1>2, <1>8, <1>12, <1>13, GenerateAssumption DEF GenerateInv

\* What the rest of a denoising step does to the tokens: only the current block changes,
\* behind the prompt, and a row whose masks are not predicted again loses all of them
\* or NumToTransfer.
LEMMA UpdateEffect ==
  ASSUME GenerateInv, Update
  PROVE  /\ x' \in [Batch -> [Positions -> Tokens]]
         /\ \A b \in Batch, p \in Positions :
              p \notin BlockPos(numBlock) \/ p < PromptLength => x'[b][p] = x[b][p]
         /\ maskPredicted' \in BOOLEAN
         /\ ~maskPredicted' =>
              /\ ~maskPredicted
              /\ \A b \in Batch :
                   LET left == {p \in BlockPos(numBlock) : x'[b][p] = Mask}
                   IN  /\ left \subseteq ActiveMask(b)
                       /\ \/ left = {}
                          \/ Cardinality(left) + NumToTransfer <= Cardinality(ActiveMask(b))
<1> DEFINE Block == BlockPos(numBlock)
<1>1. PICK tokens \in [Batch -> [Block -> Tokens]] :
        /\ \A b \in Batch, p \in Block :
             p \notin ActiveMask(b) \cup Editable(b) => tokens[b][p] = x[b][p]
        /\ x' = [b \in Batch |-> [p \in Positions |-> IF p \in Block THEN tokens[b][p] ELSE x[b][p]]]
        /\ maskPredicted' = (maskPredicted \/ \E b \in Batch : NeedsMask(b, tokens[b]))
  BY DEF Update
<1>2. TypeOK /\ call \in Calls /\ x \in [Batch -> [Positions -> Tokens]]
  BY DEF GenerateInv, TypeOK
<1>3. numBlock \in Nat /\ numBlock < NumBlocks /\ PromptLength \in Nat
  BY <1>2, WindowShape DEF TypeOK
<1>4. Block \subseteq Positions /\ Positions \subseteq Nat
  BY <1>2, <1>3, BlockPositions, WindowShape DEF Positions
<1>5. ASSUME NEW b \in Batch, NEW p \in Positions
      PROVE  /\ x'[b][p] \in Tokens
             /\ p \in Block => x'[b][p] = tokens[b][p]
             /\ p \notin Block => x'[b][p] = x[b][p]
  BY <1>1, <1>2
<1>6. x' \in [Batch -> [Positions -> Tokens]]
  <2>1. x' = [b \in Batch |-> [p \in Positions |-> x'[b][p]]]
    BY <1>1
  <2> QED BY <1>5, <2>1
<1>7. ASSUME NEW b \in Batch, NEW p \in Positions, p < PromptLength
      PROVE  x'[b][p] = x[b][p]
  <2>1. CASE p \notin Block
    BY <1>5, <2>1
  <2>2. CASE p \in Block
    <3>1. x[b][p] # Mask
      BY <1>7 DEF GenerateInv, AroundBlock
    <3>2. p \notin ActiveMask(b) \cup Editable(b)
      BY <1>3, <1>4, <1>7, <3>1 DEF ActiveMask, Editable
    <3> QED BY <1>1, <1>5, <2>2, <3>2
  <2> QED BY <2>1, <2>2
<1>8. ASSUME ~maskPredicted', NEW b \in Batch
      PROVE  LET left == {p \in Block : x'[b][p] = Mask}
             IN  /\ left \subseteq ActiveMask(b)
                 /\ \/ left = {}
                    \/ Cardinality(left) + NumToTransfer <= Cardinality(ActiveMask(b))
  <2> DEFINE left == {p \in Block : x'[b][p] = Mask}
             active == ActiveMask(b)
             filledNow == Filled(b, tokens[b])
  <2>1. ~NeedsMask(b, tokens[b])
    BY Zenon, <1>1, <1>8
  <2>2. left \subseteq active
    <3> SUFFICES ASSUME NEW p \in Block, x'[b][p] = Mask, x[b][p] # Mask PROVE FALSE
      BY DEF ActiveMask
    <3>1. tokens[b][p] = Mask
      BY Zenon, <1>4, <1>5
    <3>2. p \in Editable(b)
      BY <1>1, <3>1 DEF ActiveMask
    <3>3. p \in Edited(b, tokens[b])
      BY <3>1, <3>2 DEF Edited
    <3> QED BY <2>1, <3>1, <3>3 DEF NeedsMask
  <2>3. left = active \ filledNow /\ filledNow \subseteq active
    <3>1. \A p \in active : p \in Block /\ (p \in left <=> tokens[b][p] = Mask)
      BY Zenon, <1>4, <1>5 DEF ActiveMask
    <3> QED BY <2>2, <3>1 DEF Filled
  <2>4. IsFiniteSet(active) /\ Cardinality(active) \in Nat
    BY <1>2, <1>3, MasksFitBlock
  <2>5. IsFiniteSet(filledNow) /\ Cardinality(filledNow) \in Nat
    BY <2>3, <2>4, FS_Subset, FS_CardinalityType
  <2>6. Cardinality(left) = Cardinality(active) - Cardinality(filledNow) /\ IsFiniteSet(left)
    <3>1. active \cap filledNow = filledNow
      BY <2>3
    <3> HIDE DEF left, active, filledNow
    <3>2. IsFiniteSet(active \ filledNow)
      BY Zenon, <2>4, FS_Difference
    <3>3. Cardinality(active \ filledNow) = Cardinality(active) - Cardinality(active \cap filledNow)
      BY Zenon, <2>4, FS_Difference
    <3> QED BY Zenon, <2>3, <3>1, <3>2, <3>3
  <2>7. Cardinality(filledNow) >= Forced(b) /\ Forced(b) \in Nat
    <3>1. Forced(b) \in Nat
      BY <2>4, MinOfTwo, GenerateAssumption DEF Forced
    <3>2. ~(Cardinality(filledNow) < Forced(b))
      BY <2>1 DEF NeedsMask
    <3> HIDE DEF filledNow
    <3> QED BY <2>5, <3>1, <3>2
  <2>8. Forced(b) = NumToTransfer \/ Forced(b) = Cardinality(active)
    BY <2>4, MinOfTwo, GenerateAssumption DEF Forced
  <2> HIDE DEF left, active, filledNow
  <2>9. CASE Forced(b) = NumToTransfer
    <3>1. NumToTransfer \in Nat
      BY GenerateAssumption
    <3> QED BY <2>2, <2>4, <2>5, <2>6, <2>7, <2>9, <3>1 DEF left, active
  <2>10. CASE Forced(b) = Cardinality(active)
    <3>1. Cardinality(left) = 0
      <4>1. Cardinality(left) \in Nat
        BY <2>6, FS_CardinalityType
      <4> QED BY <2>4, <2>5, <2>6, <2>7, <2>10, <4>1
    <3>2. left = {}
      BY <2>6, <3>1, FS_EmptySet
    <3> QED BY <2>2, <3>2 DEF left, active
  <2> QED BY <2>8, <2>9, <2>10
<1>9. maskPredicted' \in BOOLEAN /\ (~maskPredicted' => ~maskPredicted)
  BY Zenon, <1>1
<1> QED BY Zenon, <1>5, <1>6, <1>7, <1>8, <1>9

\* A block without masks extends the clear part of the window.
LEMMA ClearBlock ==
  ASSUME TypeOK, ClearBelow(numBlock), \A b \in Batch : ActiveMask(b) = {}
  PROVE  ClearBelow(numBlock + 1)
<1> SUFFICES ASSUME NEW b \in Batch, NEW p \in Positions, p < (numBlock + 1) * BlockLength,
                    ~(p < numBlock * BlockLength)
             PROVE  x[b][p] # Mask
  BY DEF ClearBelow
<1>1. call \in Calls /\ numBlock \in Nat /\ p \in Nat
  BY WindowShape DEF TypeOK, Positions
<1>2. numBlock * BlockLength <= p
  BY <1>1, BlockOrder
<1>3. p \in BlockPos(numBlock)
  BY <1>1, <1>2, BlockPositions
<1> QED BY <1>3 DEF ActiveMask

\* The window of a call does not change.
LEMMA SameWindow ==
  ASSUME call' = call
  PROVE  /\ Batch' = Batch /\ PromptLength' = PromptLength /\ Positions' = Positions
         /\ NumBlocks' = NumBlocks /\ PrefillBlocks' = PrefillBlocks /\ Steps' = Steps
         /\ StepsSuffice' = StepsSuffice
BY DEF Batch, PromptLength, Positions, TotalLength, NumBlocks, PrefillBlocks, Steps,
   StepsSuffice

\* Nor does what is said of the tokens, when neither they nor the block change.
LEMMA SameTokens ==
  ASSUME UNCHANGED <<call, x, numBlock>>
  PROVE  /\ \A b : ActiveMask(b)' = ActiveMask(b)
         /\ \A n : ClearBelow(n)' = ClearBelow(n)
         /\ \A n : InTime(n)' = InTime(n)
         /\ EosStop' = EosStop /\ LastBlock' = LastBlock /\ AnyMask' = AnyMask
<1>1. Batch' = Batch /\ Positions' = Positions /\ PromptLength' = PromptLength /\ NumBlocks' = NumBlocks
  BY SameWindow
<1>2. \A b : ActiveMask(b)' = ActiveMask(b)
  BY DEF ActiveMask, BlockPos
<1>3. \A n : ClearBelow(n)' = ClearBelow(n)
  BY <1>1 DEF ClearBelow
<1>4. \A n : InTime(n)' = InTime(n)
  BY <1>1, <1>2 DEF InTime
<1>5. EosStop' = EosStop /\ LastBlock' = LastBlock /\ AnyMask' = AnyMask
  BY <1>1, <1>2 DEF EosStop, GeneratedPart, LastBlock, AnyMask
<1> QED BY <1>2, <1>3, <1>4, <1>5

\* The top of the loop keeps GenerateInv: a block is left without masks, or when no
\* step is left, which is time enough.
LEMMA HeadKeeps ==
  ASSUME GenerateInv, StepsOver \/ PostStepsOver \/ \E view : Pass(view)
  PROVE  GenerateInv'
<1>1. /\ pc = "head" /\ UNCHANGED <<call, x, numBlock, maskPredicted, answer>>
      /\ pc' \in {"finish", "update"}
  BY DEF StepsOver, PostStepsOver, Pass
<1>2. TypeOK /\ call \in Calls /\ postSteps <= MaxPostSteps /\ postSteps \in Nat /\ MaxPostSteps \in Nat
  BY <1>1, GenerateAssumption DEF GenerateInv, TypeOK
<1>3. /\ stepCount \in Nat /\ Steps \in Nat /\ stepCount <= Steps
      /\ PostStepsAfter \in {postSteps, postSteps + 1} /\ (AnyMask => PostStepsAfter = postSteps)
  BY <1>2, WindowShape DEF TypeOK, PostStepsAfter
<1>4. \/ pc' = "finish" /\ stepCount = Steps /\ UNCHANGED <<stepCount, postSteps>>
      \/ pc' = "finish" /\ stepCount < Steps /\ stepCount' = stepCount + 1 /\ ~AnyMask
         /\ postSteps' = PostStepsAfter
      \/ pc' = "update" /\ stepCount < Steps /\ stepCount' = stepCount + 1
         /\ postSteps' = PostStepsAfter /\ PostStepsAfter <= MaxPostSteps
  BY <1>2, <1>3 DEF StepsOver, PostStepsOver, Pass, StepCountAfter
<1>5. TypeOK'
  <2>1. stepCount' \in 0 .. Steps /\ postSteps' \in 0 .. MaxPostSteps + 1
    BY <1>2, <1>3, <1>4 DEF TypeOK
  <2> QED BY <1>1, <1>2, <2>1, SameWindow DEF TypeOK
<1>6. ASSUME StepsSuffice, ~maskPredicted
      PROVE  /\ pc' = "finish" => ClearBelow(numBlock + 1)
             /\ pc' = "update" => ClearBelow(numBlock) /\ InTime(stepCount' - 1)
  <2>1. ClearBelow(numBlock) /\ InTime(stepCount)
    BY <1>1, <1>6 DEF GenerateInv, OnTime
  <2>2. CASE pc' = "update"
    BY <1>3, <1>4, <2>1, <2>2
  <2>3. CASE pc' = "finish"
    <3>1. \A b \in Batch : ActiveMask(b) = {}
      <4>1. CASE ~AnyMask
        BY <4>1 DEF AnyMask
      <4>2. CASE stepCount = Steps
        <5> SUFFICES ASSUME NEW b \in Batch PROVE ActiveMask(b) = {}
          OBVIOUS
        <5>1. numBlock \in Nat
          BY <1>2, WindowShape DEF TypeOK
        <5>2. IsFiniteSet(ActiveMask(b)) /\ Cardinality(ActiveMask(b)) \in Nat
          BY <1>2, <5>1, MasksFitBlock
        <5>3. ActiveMask(b) = {} \/ Cardinality(ActiveMask(b)) + Steps * NumToTransfer <= BlockLength
          BY <2>1, <4>2 DEF InTime
        <5>4. Steps * NumToTransfer >= BlockLength
          BY <1>6 DEF StepsSuffice
        <5>5. Steps * NumToTransfer \in Nat /\ BlockLength \in Nat
          BY <1>3, GenerateAssumption
        <5>6. ActiveMask(b) = {} \/ Cardinality(ActiveMask(b)) = 0
          BY <5>2, <5>3, <5>4, <5>5
        <5> QED BY <5>2, <5>6, FS_EmptySet
      <4> QED BY <1>4, <2>3, <4>1, <4>2
    <3> QED BY <1>2, <2>1, <2>3, <3>1, ClearBlock
  <2> QED BY <1>1, <2>2, <2>3
<1>7. OnTime'
  <2> SUFFICES ASSUME StepsSuffice', ~maskPredicted'
               PROVE  /\ pc' = "update" => ClearBelow(numBlock)' /\ InTime(stepCount - 1)'
                      /\ pc' = "finish" => ClearBelow(numBlock + 1)'
    BY <1>1 DEF OnTime
  <2>1. StepsSuffice /\ ~maskPredicted
    BY Zenon, <1>1, SameWindow
  <2>2. (pc' = "finish" => ClearBelow(numBlock + 1)') /\ (pc' = "update" => ClearBelow(numBlock)')
    BY <1>1, <1>6, <2>1, SameWindow DEF ClearBelow
  <2>3. InTime(stepCount - 1)' = InTime(stepCount' - 1)
    BY <1>1, SameWindow DEF InTime, ActiveMask, BlockPos
  <2> QED BY <1>6, <2>1, <2>2, <2>3
<1>8. AroundBlock'
  BY <1>1, SameWindow DEF GenerateInv, AroundBlock
<1>9. stepCount' > 0 \/ pc' = "finish"
  BY <1>3, <1>4
<1>10. pc' = "update" => postSteps' <= MaxPostSteps
  BY <1>4
<1> QED
  BY <1>1, <1>5, <1>7, <1>8, <1>9, <1>10 DEF GenerateInv

\* The rest of a denoising step keeps GenerateInv.
LEMMA UpdateKeeps ==
  ASSUME GenerateInv, Update
  PROVE  GenerateInv'
<1>1. /\ pc = "update" /\ pc' \in {"finish", "head"} /\ (pc' = "finish" => ~AnyMask)
      /\ UNCHANGED <<call, numBlock, stepCount, postSteps, answer>>
  BY DEF Update
<1>2. TypeOK /\ call \in Calls /\ AroundBlock /\ OnTime /\ stepCount > 0 /\ postSteps <= MaxPostSteps
  BY <1>1 DEF GenerateInv, TypeOK
<1>3. /\ numBlock \in Nat /\ Positions \subseteq Nat /\ stepCount \in Nat
      /\ PromptLength \in Nat
  BY <1>2, WindowShape DEF TypeOK, Positions
<1>4. /\ x' \in [Batch -> [Positions -> Tokens]] /\ maskPredicted' \in BOOLEAN
      /\ \A b \in Batch, p \in Positions :
           p \notin BlockPos(numBlock) \/ p < PromptLength => x'[b][p] = x[b][p]
  BY UpdateEffect
<1>5. TypeOK'
  BY <1>1, <1>2, <1>4, SameWindow DEF TypeOK
<1>6. AroundBlock'
  <2> SUFFICES ASSUME NEW b \in Batch, NEW p \in Positions,
                      p < PromptLength \/ p >= (numBlock + 1) * BlockLength
               PROVE  x'[b][p] = x[b][p]
    BY <1>1, <1>2, SameWindow DEF AroundBlock
  <2>1. CASE p < PromptLength
    BY <1>4, <2>1
  <2>2. CASE p >= (numBlock + 1) * BlockLength
    <3>1. (numBlock + 1) * BlockLength \in Nat /\ p \in Nat
      BY <1>3, BlockOrder
    <3>2. p \notin BlockPos(numBlock)
      BY <1>2, <1>3, <2>2, <3>1, BlockPositions
    <3> QED BY <1>4, <3>2
  <2> QED BY <2>1, <2>2
<1>7. OnTime'
  <2> SUFFICES ASSUME StepsSuffice', ~maskPredicted'
               PROVE  /\ pc' = "head" => ClearBelow(numBlock)' /\ InTime(stepCount)'
                      /\ pc' = "finish" => ClearBelow(numBlock + 1)'
    BY <1>1 DEF OnTime
  <2>1. /\ StepsSuffice /\ ~maskPredicted
        /\ \A b \in Batch :
             LET left == {p \in BlockPos(numBlock) : x'[b][p] = Mask}
             IN  /\ left \subseteq ActiveMask(b)
                 /\ \/ left = {}
                    \/ Cardinality(left) + NumToTransfer <= Cardinality(ActiveMask(b))
    BY Zenon, <1>1, SameWindow, UpdateEffect
  <2>2. \A b : ActiveMask(b)' = {p \in BlockPos(numBlock) : x'[b][p] = Mask}
    BY <1>1 DEF ActiveMask, BlockPos
  <2>3. ClearBelow(numBlock) /\ InTime(stepCount - 1)
    BY <1>1, <1>2, <2>1 DEF OnTime
  <2>4. ClearBelow(numBlock)'
    <3> SUFFICES ASSUME NEW b \in Batch, NEW p \in Positions, p < numBlock * BlockLength
                 PROVE  x'[b][p] = x[b][p]
      BY <1>1, <2>3, SameWindow DEF ClearBelow
    <3>1. numBlock * BlockLength \in Nat /\ p \in Nat
      BY <1>3, BlockOrder
    <3>2. p \notin BlockPos(numBlock)
      BY <1>2, <1>3, <3>1, BlockPositions
    <3> QED BY <1>4, <3>2
  <2>5. InTime(stepCount)'
    <3> SUFFICES ASSUME NEW b \in Batch, ActiveMask(b)' # {}
                 PROVE  Cardinality(ActiveMask(b)') + stepCount * NumToTransfer <= BlockLength
      BY <1>1, SameWindow DEF InTime
    <3> DEFINE left == ActiveMask(b)'
               active == ActiveMask(b)
    <3>1. left \subseteq active /\ left # {} /\ Cardinality(left) + NumToTransfer <= Cardinality(active)
      BY <2>1, <2>2
    <3>2. IsFiniteSet(active) /\ Cardinality(active) \in Nat
      BY <1>2, <1>3, MasksFitBlock
    <3>3. Cardinality(left) \in Nat
      BY <3>1, <3>2, FS_Subset, FS_CardinalityType
    <3>4. Cardinality(active) + (stepCount - 1) * NumToTransfer <= BlockLength
      BY <2>3, <3>1 DEF InTime
    <3>5. NumToTransfer \in Nat /\ BlockLength \in Nat
      BY GenerateAssumption
    <3>6. stepCount * NumToTransfer = (stepCount - 1) * NumToTransfer + NumToTransfer
      BY <1>3, <3>5
    <3>7. (stepCount - 1) * NumToTransfer \in Int
      BY <1>3, <3>5
    <3> HIDE DEF left, active
    <3> QED BY <3>1, <3>2, <3>3, <3>4, <3>5, <3>6, <3>7 DEF left
  <2>6. ASSUME pc' = "finish" PROVE ClearBelow(numBlock + 1)'
    <3>1. \A b \in Batch : ActiveMask(b)' = {}
      BY Zenon, <1>1, <2>1, <2>2, <2>6 DEF AnyMask
    <3> SUFFICES ASSUME NEW b \in Batch, NEW p \in Positions, p < (numBlock + 1) * BlockLength
                 PROVE  x'[b][p] # Mask
      BY <1>1, SameWindow DEF ClearBelow
    <3>2. numBlock * BlockLength \in Nat /\ p \in Nat
      BY <1>3, BlockOrder
    <3>3. CASE p < numBlock * BlockLength
      BY <1>1, <2>4, <3>3, SameWindow DEF ClearBelow
    <3>4. CASE numBlock * BlockLength <= p
      <4>1. p \in BlockPos(numBlock)
        BY <1>2, <1>3, <3>2, <3>4, BlockPositions
      <4> QED BY <2>2, <3>1, <4>1
    <3> QED BY <3>2, <3>3, <3>4
  <2> QED BY <2>4, <2>5, <2>6
<1> QED
  BY <1>1, <1>2, <1>5, <1>6, <1>7 DEF GenerateInv

\* The end of a block keeps GenerateInv.
LEMMA FinishKeeps ==
  ASSUME GenerateInv, FinishBlock
  PROVE  GenerateInv'
<1>1. pc = "finish" /\ UNCHANGED <<call, x, maskPredicted, answer>>
  BY DEF FinishBlock
<1>2. TypeOK /\ call \in Calls /\ AroundBlock /\ OnTime
  BY DEF GenerateInv, TypeOK
<1>3. numBlock \in Nat /\ Positions \subseteq Nat
  BY <1>2, WindowShape DEF TypeOK, Positions
<1>4. CASE (EosStop \/ LastBlock) /\ pc' = "return" /\ UNCHANGED <<numBlock, stepCount, postSteps>>
  <2>1. TypeOK'
    BY <1>1, <1>2, <1>4, SameWindow DEF TypeOK
  <2>2. AroundBlock'
    BY <1>1, <1>2, <1>4, SameWindow DEF AroundBlock
  <2>3. OnTime'
    <3>1. ClearBelow(numBlock + 1)' = ClearBelow(numBlock + 1)
      BY <1>1, <1>4, SameWindow DEF ClearBelow
    <3> QED BY Zenon, <1>1, <1>2, <1>4, <3>1, SameWindow DEF OnTime
  <2>4. (EosStop \/ LastBlock)'
    BY <1>1, <1>4, SameTokens
  <2> QED BY <1>4, <2>1, <2>2, <2>3, <2>4 DEF GenerateInv
<1>5. CASE /\ ~(EosStop \/ LastBlock) /\ pc' = "head" /\ numBlock' = numBlock + 1
           /\ stepCount' = 0 /\ postSteps' = 0
  <2>1. TypeOK'
    <3>1. numBlock' \in PrefillBlocks .. NumBlocks - 1
      BY <1>2, <1>3, <1>5, WindowShape DEF TypeOK, LastBlock
    <3>2. stepCount' \in 0 .. Steps /\ postSteps' \in 0 .. MaxPostSteps + 1
      BY <1>2, <1>5, WindowShape, GenerateAssumption
    <3> QED BY <1>1, <1>2, <1>5, <3>1, <3>2, SameWindow DEF TypeOK
  <2>2. AroundBlock'
    <3> SUFFICES ASSUME NEW b \in Batch, NEW p \in Positions, p >= (numBlock + 1 + 1) * BlockLength
                 PROVE  p >= (numBlock + 1) * BlockLength
      BY <1>1, <1>2, <1>5, SameWindow DEF AroundBlock
    <3>1. /\ (numBlock + 1) * BlockLength \in Nat /\ p \in Nat /\ BlockLength \in Nat
          /\ (numBlock + 1 + 1) * BlockLength = (numBlock + 1) * BlockLength + BlockLength
      BY <1>3, BlockOrder, GenerateAssumption
    <3> QED BY <3>1
  <2>3. OnTime'
    <3> SUFFICES ASSUME StepsSuffice', ~maskPredicted'
                 PROVE  ClearBelow(numBlock)' /\ InTime(stepCount)'
      BY <1>5 DEF OnTime
    <3>1. ClearBelow(numBlock + 1)
      BY Zenon, <1>1, <1>2, SameWindow DEF OnTime
    <3>2. ClearBelow(numBlock)'
      BY <1>1, <1>5, <3>1, SameWindow DEF ClearBelow
    <3>3. InTime(stepCount)'
      <4> SUFFICES ASSUME NEW b \in Batch
                   PROVE  Cardinality(ActiveMask(b)') + 0 * NumToTransfer <= BlockLength
        BY <1>1, <1>5, SameWindow DEF InTime
      <4>1. ActiveMask(b)' \subseteq BlockPos(numBlock + 1)
        BY <1>5 DEF ActiveMask, BlockPos
      <4>2. IsFiniteSet(BlockPos(numBlock + 1)) /\ Cardinality(BlockPos(numBlock + 1)) = BlockLength
        BY <1>2, <1>3, BlockPositions
      <4>3. Cardinality(ActiveMask(b)') \in Nat /\ Cardinality(ActiveMask(b)') <= BlockLength
        BY <4>1, <4>2, FS_Subset, FS_CardinalityType
      <4>4. 0 * NumToTransfer = 0 /\ BlockLength \in Nat
        BY GenerateAssumption
      <4> QED BY <4>3, <4>4
    <3> QED BY <3>2, <3>3
  <2> QED BY <1>5, <2>1, <2>2, <2>3, GenerateAssumption DEF GenerateInv
<1> QED BY <1>4, <1>5 DEF FinishBlock

\* Trimming and returning keeps GenerateInv.
LEMMA ReturnKeeps ==
  ASSUME GenerateInv, Return
  PROVE  GenerateInv'
<1>1. /\ pc = "return" /\ pc' = "done" /\ answer' = [b \in Batch |-> Trimmed(b)]
      /\ UNCHANGED <<call, x, numBlock, stepCount, postSteps, seen, maskPredicted>>
  BY DEF Return
<1>2. TypeOK /\ call \in Calls /\ AroundBlock /\ OnTime /\ (EosStop \/ LastBlock)
  BY <1>1 DEF GenerateInv, TypeOK
<1>3. ASSUME NEW b \in Batch PROVE Trimmed(b) \in [0 .. call.genLength - 1 -> Tokens]
  <2> SUFFICES ASSUME NEW i \in 0 .. call.genLength - 1
               PROVE  Eos \in Tokens /\ x[b][PromptLength + i] \in Tokens
    BY DEF Trimmed
  <2>1. PromptLength + i \in Positions
    BY <1>2, WindowShape DEF Positions
  <2> QED BY <1>2, <2>1, GenerateAssumption DEF TypeOK, Tokens
<1>4. TypeOK'
  BY <1>1, <1>2, <1>3, SameWindow DEF TypeOK
<1>5. AroundBlock'
  BY <1>1, <1>2, SameWindow DEF AroundBlock
<1>6. OnTime'
  <2>1. ClearBelow(numBlock + 1)' = ClearBelow(numBlock + 1)
    BY <1>1, SameWindow DEF ClearBelow
  <2> QED BY Zenon, <1>1, <1>2, <2>1, SameWindow DEF OnTime
<1>7. (EosStop \/ LastBlock)'
  BY <1>1, <1>2, SameTokens
<1>8. answer' = [b \in Batch |-> Trimmed(b)]'
  BY <1>1, SameWindow DEF Trimmed
<1> QED BY <1>1, <1>4, <1>5, <1>6, <1>7, <1>8 DEF GenerateInv

\* GenerateInv is inductive.
LEMMA NextGenerate == GenerateInv /\ [Next]_vars => GenerateInv'
<1> SUFFICES ASSUME GenerateInv, [Next]_vars PROVE GenerateInv'
  OBVIOUS
<1>1. CASE UNCHANGED vars
  <2>1. UNCHANGED <<call, x, numBlock, stepCount, postSteps, maskPredicted, answer, pc>>
    BY <1>1 DEF vars
  <2>2. TypeOK'
    BY <2>1, SameWindow DEF GenerateInv, TypeOK
  <2>3. AroundBlock'
    BY <2>1, SameWindow DEF GenerateInv, AroundBlock
  <2>4. OnTime'
    <3>1. /\ ClearBelow(numBlock)' = ClearBelow(numBlock)
          /\ ClearBelow(numBlock + 1)' = ClearBelow(numBlock + 1)
          /\ InTime(stepCount)' = InTime(stepCount)
          /\ InTime(stepCount - 1)' = InTime(stepCount - 1)
      BY <2>1, SameWindow DEF ClearBelow, InTime, ActiveMask, BlockPos
    <3> QED BY Zenon, <2>1, <3>1, SameWindow DEF GenerateInv, OnTime
  <2>5. pc \in {"return", "done"} => (EosStop \/ LastBlock)'
    BY <2>1, SameTokens DEF GenerateInv
  <2>6. pc = "done" => answer' = [b \in Batch |-> Trimmed(b)]'
    BY <2>1, SameWindow DEF GenerateInv, Trimmed
  <2>7. /\ pc \in {"head", "update"} => postSteps <= MaxPostSteps
        /\ pc = "update" => stepCount > 0
    BY DEF GenerateInv
  <2> QED BY <2>1, <2>2, <2>3, <2>4, <2>5, <2>6, <2>7 DEF GenerateInv
<1> QED BY <1>1, HeadKeeps, UpdateKeeps, FinishKeeps, ReturnKeeps DEF Next

\* A mask in an answer is explained by the invariant.
LEMMA MasksExplained == GenerateInv => MaskReturnedOnlyIf
<1> SUFFICES ASSUME GenerateInv, pc = "done", StepsSuffice, ~maskPredicted,
                    NEW b \in Batch, NEW i \in DOMAIN answer[b], answer[b][i] = Mask
             PROVE  /\ call.eosEarlyStop
                    /\ \A j \in DOMAIN answer[b] : answer[b][j] # Eos
                    /\ \E c \in Batch \ {b}, p \in Positions : p >= PromptLength /\ x[c][p] = Eos
  BY DEF MaskReturnedOnlyIf
<1> DEFINE G == call.genLength
           P == PromptLength
           end == (numBlock + 1) * BlockLength
<1>1. /\ TypeOK /\ call \in Calls /\ AroundBlock /\ ClearBelow(numBlock + 1)
      /\ EosStop \/ LastBlock
      /\ answer = [c \in Batch |-> Trimmed(c)]
  BY DEF GenerateInv, TypeOK, OnTime
<1>2. /\ P \in Nat /\ G \in Nat \ {0} /\ TotalLength \in Nat /\ P + G <= TotalLength
      /\ numBlock \in Nat /\ end \in Nat
  <2>1. /\ P \in Nat /\ G \in Nat \ {0} /\ TotalLength \in Nat /\ P + G <= TotalLength
        /\ PrefillBlocks \in Nat /\ NumBlocks \in Nat
    BY <1>1, WindowShape
  <2>2. numBlock \in Nat
    BY <1>1, <2>1 DEF TypeOK
  <2> QED BY <2>1, <2>2, BlockOrder
<1>3. answer[b] = Trimmed(b) /\ DOMAIN answer[b] = 0 .. G - 1
  BY <1>1 DEF Trimmed
<1>4. Eos # Mask
  BY GenerateAssumption
<1>5. \A j \in 0 .. G - 1 : P + j \in Positions /\ P + j >= P
  BY <1>2 DEF Positions
<1>6. i \in 0 .. G - 1 /\ x[b][P + i] = Mask
      /\ (call.eosEarlyStop => \A j \in 0 .. i - 1 : x[b][P + j] # Eos)
  BY <1>3, <1>4 DEF Trimmed
<1>7. P + i >= end
  BY <1>1, <1>2, <1>5, <1>6 DEF ClearBelow
<1>8. ~LastBlock
  <2> SUFFICES ASSUME numBlock + 1 = NumBlocks PROVE FALSE
    BY DEF LastBlock
  <2>1. end = TotalLength
    BY <1>1, WindowShape
  <2> QED BY <1>2, <1>5, <1>6, <1>7, <2>1 DEF Positions
<1>9. EosStop /\ call.eosEarlyStop
  BY <1>1, <1>8 DEF EosStop
<1>10. ASSUME NEW p \in Positions, p >= P, x[b][p] = Eos PROVE p < P + i
  <2>1. p \in Nat
    BY <1>2 DEF Positions
  <2>2. ~(p >= end)
    BY <1>1, <1>4, <1>10 DEF AroundBlock
  <2> QED BY <1>2, <1>6, <1>7, <2>1, <2>2
<1>11. ASSUME NEW p \in Positions, p >= P, x[b][p] = Eos PROVE FALSE
  <2>1. p < P + i /\ p \in Nat
    BY <1>2, <1>10, <1>11 DEF Positions
  <2>2. p - P \in 0 .. i - 1 /\ P + (p - P) = p
    BY <1>2, <1>6, <1>11, <2>1
  <2> QED BY <1>6, <1>9, <1>11, <2>2
<1>12. \A j \in 0 .. G - 1 : Trimmed(b)[j] # Eos
  <2> SUFFICES ASSUME NEW j \in 0 .. G - 1 PROVE Trimmed(b)[j] # Eos
    OBVIOUS
  <2>1. x[b][P + j] # Eos
    BY <1>5, <1>11
  <2>2. \A k \in 0 .. j - 1 : x[b][P + k] # Eos
    <3> SUFFICES ASSUME NEW k \in 0 .. j - 1 PROVE k \in 0 .. G - 1
      BY <1>5, <1>11
    <3> QED BY <1>2
  <2> QED BY <2>1, <2>2 DEF Trimmed
<1>13. PICK c \in Batch, p \in GeneratedPart : x[c][p] = Eos
  BY <1>9 DEF EosStop
<1>14. p \in Positions /\ p >= P
  <2>1. end <= TotalLength
    BY <1>1, <1>2, WindowShape, BlockOrder DEF TypeOK
  <2> QED BY <1>2, <2>1 DEF GeneratedPart, Positions
<1>15. c # b
  BY <1>11, <1>13, <1>14
<1> QED BY <1>3, <1>9, <1>12, <1>13, <1>14, <1>15

\* A step of the loop without a cache changes the current block behind the prompt only.
LEMMA ChangesCurrentBlock ==
  ASSUME GenerateInv, [Next]_vars
  PROVE  \A b \in Batch, p \in Positions :
           x'[b][p] # x[b][p] => p \in BlockPos(numBlock) /\ p >= PromptLength
<1>1. x' = x \/ Update
  BY DEF Next, StepsOver, PostStepsOver, Pass, FinishBlock, Return, vars
<1>2. CASE Update
  <2> SUFFICES ASSUME NEW b \in Batch, NEW p \in Positions, x'[b][p] # x[b][p]
               PROVE  p \in BlockPos(numBlock) /\ p >= PromptLength
    OBVIOUS
  <2>1. p \in BlockPos(numBlock) /\ ~(p < PromptLength)
    BY <1>2, UpdateEffect
  <2>2. p \in Int /\ PromptLength \in Int
    BY WindowShape DEF GenerateInv, TypeOK, Positions
  <2> QED BY <2>1, <2>2
<1> QED BY <1>1, <1>2

\* The loop without a cache: GenerateInv holds.
LEMMA SpecGenerate == Spec => []GenerateInv
BY InitGenerate, NextGenerate, PTL DEF Spec

\* The loop without a cache never changes the prompt or a finished block.
LEMMA SpecChangesCurrentBlock == Spec => OnlyCurrentBlockChanges
<1>1. GenerateInv /\ [Next]_vars =>
        [\A b \in Batch, p \in Positions :
           x'[b][p] # x[b][p] => p \in BlockPos(numBlock) /\ p >= PromptLength]_vars
  BY ChangesCurrentBlock
<1> QED BY <1>1, SpecGenerate, PTL DEF Spec, OnlyCurrentBlockChanges

-----------------------------------------------------------------------------
(* The cache *)

\* Append to a sequence that is given as a function.
LEMMA AppendedFunction ==
  ASSUME NEW S, NEW k \in Nat, NEW f \in [1 .. k -> S], NEW e \in S
  PROVE  Append(f, e) = [j \in 1 .. k + 1 |-> IF j <= k THEN f[j] ELSE e]
<1>1. f \in Seq(S) /\ Len(f) = k
  OBVIOUS
<1>2. Append(f, e) \in Seq(S) /\ Len(Append(f, e)) = k + 1
  BY <1>1
<1>3. \A j \in 1 .. k + 1 : Append(f, e)[j] = IF j <= k THEN f[j] ELSE e
  BY <1>1
<1>4. Append(f, e) = [j \in 1 .. k + 1 |-> Append(f, e)[j]]
  <2> DEFINE g == Append(f, e)
  <2>1. g \in Seq(S) /\ Len(g) = k + 1
    BY <1>2
  <2> HIDE DEF g
  <2>2. g \in [1 .. Len(g) -> S]
    BY <2>1
  <2>3. g \in [1 .. k + 1 -> S]
    BY <2>1, <2>2
  <2>4. g = [j \in 1 .. k + 1 |-> g[j]]
    BY <2>3
  <2> QED BY Zenon, <2>4 DEF g
<1> QED BY <1>3, <1>4

\* What the key of block n in layer l depends on.
On(l, n) == {<<m, BlockTokens(m)>> : m \in IF l = 1 THEN {n} ELSE 0 .. n}

\* In a cache that is current, the entries of a layer are the keys of the blocks before n.
LEMMA CurrentEntries ==
  ASSUME NEW n \in Nat, NEW l \in Layers
  PROVE  DependsOn(l, WindowView(n)[l]) = UNION {On(l, m) : m \in 0 .. n - 1}
<1> DEFINE Keys == {Contribution(l, m) : m \in 0 .. n - 1}
<1>0. UNION {key.on : key \in Keys} = UNION {On(l, m) : m \in 0 .. n - 1}
  <2>1. \A m : Contribution(l, m).on = On(l, m)
    BY DEF Contribution, On
  <2> QED BY <2>1
<1>1. CASE l \in LinearLayers
  <2>1. WindowView(n)[l] = SetToBag(Keys)
    BY <1>1 DEF WindowView
  <2>2. BagToSet(SetToBag(Keys)) = Keys
    BY DEF BagToSet, SetToBag
  <2>3. DependsOn(l, WindowView(n)[l]) = UNION {key.on : key \in Keys}
    BY Zenon, <1>1, <2>1, <2>2 DEF DependsOn
  <2> QED BY Zenon, <2>3, <1>0
<1>2. CASE l \notin LinearLayers
  <2>1. WindowView(n)[l] = [m \in 1 .. n |-> Contribution(l, m - 1)]
    BY <1>2 DEF WindowView
  <2>2. Range([m \in 1 .. n |-> Contribution(l, m - 1)]) = Keys
    <3> DEFINE f == [m \in 1 .. n |-> Contribution(l, m - 1)]
    <3>1. ASSUME NEW m \in 1 .. n PROVE f[m] \in Keys
      <4>1. m - 1 \in 0 .. n - 1
        OBVIOUS
      <4> QED BY <4>1
    <3>2. ASSUME NEW m \in 0 .. n - 1 PROVE Contribution(l, m) \in Range(f)
      <4>1. m + 1 \in 1 .. n /\ (m + 1) - 1 = m
        OBVIOUS
      <4> QED BY <4>1 DEF Range
    <3> QED BY <3>1, <3>2 DEF Range
  <2>3. DependsOn(l, WindowView(n)[l]) = UNION {key.on : key \in Keys}
    BY Zenon, <1>2, <2>1, <2>2 DEF DependsOn
  <2> QED BY Zenon, <2>3, <1>0
<1> QED BY <1>1, <1>2

\* A layer that attends to a cache that is current mixes in the blocks before n, no
\* more and no fewer.
LEMMA HiddenStates ==
  ASSUME NEW n \in Nat, NEW l \in Layers
  PROVE  On(l, n) \cup DependsOn(l, WindowView(n)[l]) = On(l + 1, n)
<1> DEFINE At(m) == <<m, BlockTokens(m)>>
<1>1. l \in Nat \ {0} /\ l + 1 # 1
  BY GenerateAssumption DEF Layers
<1>2. On(l + 1, n) = {At(m) : m \in 0 .. n}
  BY <1>1 DEF On
<1>3. \A k \in Nat : k <= n => On(l, k) \subseteq {At(m) : m \in 0 .. n} /\ At(k) \in On(l, k)
  <2> SUFFICES ASSUME NEW k \in Nat, k <= n
               PROVE  On(l, k) \subseteq {At(m) : m \in 0 .. n} /\ At(k) \in On(l, k)
    OBVIOUS
  <2>1. k \in 0 .. k /\ k \in 0 .. n /\ 0 .. k \subseteq 0 .. n
    OBVIOUS
  <2> QED BY <2>1 DEF On
<1>4. \A k \in 0 .. n : k \in Nat /\ k <= n /\ (k = n \/ k \in 0 .. n - 1)
  OBVIOUS
<1>5. \A k \in 0 .. n - 1 : k \in Nat /\ k <= n
  OBVIOUS
<1> HIDE DEF At
<1>6. UNION {On(l, m) : m \in 0 .. n - 1} \subseteq {At(m) : m \in 0 .. n}
  BY <1>3, <1>5
<1>7. \A k \in 0 .. n : At(k) \in On(l, n) \cup UNION {On(l, m) : m \in 0 .. n - 1}
  BY <1>3, <1>4
<1> QED BY <1>2, <1>3, <1>6, <1>7, CurrentEntries

\* A commit of block n on top of a cache that is current makes it current with one
\* block more: the key is appended in a softmax layer, and counted once in a linear one.
LEMMA CommitExtends ==
  ASSUME NEW n \in Nat, NEW l \in Layers
  PROVE  CacheUpdate(l, WindowView(n)[l], Contribution(l, n)) = WindowView(n + 1)[l]
<1> DEFINE Keys(k) == {Contribution(l, m) : m \in 0 .. k - 1}
           key == Contribution(l, n)
<1>1. CASE l \in LinearLayers
  <2>1. WindowView(n)[l] = SetToBag(Keys(n)) /\ WindowView(n + 1)[l] = SetToBag(Keys(n + 1))
    BY <1>1 DEF WindowView
  <2>2. \A m \in 0 .. n - 1 : Contribution(l, m) # key
    <3>1. \A m : Contribution(l, m).block = m
      BY DEF Contribution
    <3>2. \A m \in 0 .. n - 1 : m # n
      OBVIOUS
    <3> QED BY <3>1, <3>2
  <2>3. Keys(n + 1) = Keys(n) \cup {key}
    <3>1. 0 .. (n + 1) - 1 = (0 .. n - 1) \cup {n}
      OBVIOUS
    <3> QED BY <3>1
  <2>4. key \notin Keys(n)
    BY <2>2
  <2> HIDE DEF Keys, key
  <2>5. SetToBag(Keys(n)) (+) SetToBag({key}) = SetToBag(Keys(n) \cup {key})
    BY <2>4 DEF SetToBag, (+)
  <2> QED BY <1>1, <2>1, <2>3, <2>5 DEF CacheUpdate, key
<1>2. CASE l \notin LinearLayers
  <2> DEFINE f(k) == [m \in 1 .. k |-> Contribution(l, m - 1)]
             S == {Contribution(l, m) : m \in Nat}
  <2>1. WindowView(n)[l] = f(n) /\ WindowView(n + 1)[l] = f(n + 1)
    BY <1>2 DEF WindowView
  <2>2. f(n) \in [1 .. n -> S] /\ key \in S
    <3>1. \A m \in 1 .. n : m - 1 \in Nat
      OBVIOUS
    <3> QED BY <3>1
  <2>3. Append(f(n), key) = [j \in 1 .. n + 1 |-> IF j <= n THEN f(n)[j] ELSE key]
    BY <2>2, AppendedFunction
  <2>4. \A j \in 1 .. n + 1 : (IF j <= n THEN f(n)[j] ELSE key) = Contribution(l, j - 1)
    <3> SUFFICES ASSUME NEW j \in 1 .. n + 1
                 PROVE  (IF j <= n THEN f(n)[j] ELSE key) = Contribution(l, j - 1)
      OBVIOUS
    <3>1. CASE j <= n
      <4>1. j \in 1 .. n
        BY <3>1
      <4> QED BY <3>1, <4>1
    <3>2. CASE ~(j <= n)
      <4>1. j - 1 = n
        BY <3>2
      <4> QED BY <3>2, <4>1
    <3> QED BY <3>1, <3>2
  <2>5. Append(f(n), key) = f(n + 1)
    BY <2>3, <2>4
  <2> QED BY <1>2, <2>1, <2>5 DEF CacheUpdate
<1> QED BY <1>1, <1>2

\* The pass through the layers satisfies the equation it is defined by.
LEMMA ForwardEquation ==
  ASSUME NEW mode, NEW n, NEW tokens
  PROVE  \E after :
           /\ ForwardBlock(mode, n, tokens) = after[NumLayers]
           /\ after[0] = [hidden |-> {<<n, tokens>>}, read |-> <<>>, cache |-> cache]
           /\ \A l \in Layers : after[l] = LayerPass(after[l - 1], l, mode, n)
<1> DEFINE N == NumLayers
           Start == [hidden |-> {<<n, tokens>>}, read |-> <<>>, cache |-> cache]
           Def(f, l) == IF l = 0 THEN Start ELSE LayerPass(f[l - 1], l, mode, n)
           after == CHOOSE f : f = [l \in 0 .. N |-> Def(f, l)]
           Solved == {m \in Nat : \E g : g = [l \in 0 .. m |-> Def(g, l)]}
<1>1. N \in Nat
  BY GenerateAssumption
<1>2. ForwardBlock(mode, n, tokens) = after[N]
  BY DEF ForwardBlock
<1>3. \A f, g : Def(f, 0) = Def(g, 0)
  OBVIOUS
<1>4. \A f, g : \A l \in Nat \ {0} : f[l - 1] = g[l - 1] => Def(f, l) = Def(g, l)
  OBVIOUS
<1>5. \A f : Def(f, 0) = Start
  OBVIOUS
<1>6. \A f : \A l \in 1 .. N : Def(f, l) = LayerPass(f[l - 1], l, mode, n)
  OBVIOUS
<1> HIDE DEF N, Def, Start
<1>7. 0 \in Solved
  <2> DEFINE g == [l \in 0 .. 0 |-> Def(0, l)]
  <2>1. g = [l \in 0 .. 0 |-> Def(g, l)]
    BY <1>3
  <2> QED BY <2>1
<1>8. ASSUME NEW m \in Nat, m \in Solved PROVE m + 1 \in Solved
  <2>1. PICK g : g = [l \in 0 .. m |-> Def(g, l)]
    BY <1>8
  <2> DEFINE h == [l \in 0 .. m + 1 |-> Def(g, l)]
  <2>2. \A l \in 0 .. m : h[l] = g[l]
    BY <2>1
  <2>3. ASSUME NEW l \in 0 .. m + 1 PROVE h[l] = Def(h, l)
    <3>1. h[l] = Def(g, l)
      OBVIOUS
    <3>2. CASE l = 0
      BY <1>3, <3>1, <3>2
    <3>3. CASE l # 0
      <4>1. l - 1 \in 0 .. m
        BY <3>3
      <4>2. h[l - 1] = g[l - 1]
        BY <2>2, <4>1
      <4>3. Def(h, l) = Def(g, l)
        BY <1>4, <3>3, <4>2
      <4> QED BY <3>1, <4>3
    <3> QED BY <3>2, <3>3
  <2> HIDE DEF h
  <2>4. h = [l \in 0 .. m + 1 |-> Def(h, l)]
    BY <2>3 DEF h
  <2> QED BY <2>4
<1>9. N \in Solved
  <2> HIDE DEF Solved
  <2> QED BY <1>1, <1>7, <1>8, SetInduction
<1>10. \E g : g = [l \in 0 .. N |-> Def(g, l)]
  BY <1>1, <1>9
<1>11. after = [l \in 0 .. N |-> Def(after, l)]
  BY Zenon, <1>10
<1> HIDE DEF after
<1>12. after[0] = Start
  BY <1>1, <1>5, <1>11
<1>13. \A l \in 1 .. N : after[l] = Def(after, l)
  BY <1>1, <1>11
<1>14. \A l \in 1 .. N : after[l] = LayerPass(after[l - 1], l, mode, n)
  BY <1>6, <1>13
<1> QED BY <1>2, <1>12, <1>14 DEF N, Start, Layers

\* With a cache that holds the blocks before n, a pass of block n reads what a pass over
\* the whole window attends to; a commit leaves a cache that holds block n too, and a
\* pass that reads leaves the cache alone.
LEMMA ForwardResult ==
  ASSUME NEW n \in Nat, cache = WindowView(n), NEW mode \in {"commit", "read"}
  PROVE  /\ ForwardBlock(mode, n, BlockTokens(n)).read = WindowView(n)
         /\ ForwardBlock(mode, n, BlockTokens(n)).cache =
              IF mode = "commit" THEN WindowView(n + 1) ELSE cache
<1> DEFINE old == WindowView(n)
           new == IF mode = "commit" THEN WindowView(n + 1) ELSE old
           Good(st, k) ==
             /\ st.hidden = On(k + 1, n)
             /\ st.read = [j \in 1 .. k |-> old[j]]
             /\ st.cache = [j \in Layers |-> IF j <= k THEN new[j] ELSE old[j]]
<1>1. PICK after :
        /\ ForwardBlock(mode, n, BlockTokens(n)) = after[NumLayers]
        /\ after[0] = [hidden |-> {<<n, BlockTokens(n)>>}, read |-> <<>>, cache |-> cache]
        /\ \A l \in Layers : after[l] = LayerPass(after[l - 1], l, mode, n)
  BY ForwardEquation
<1>2. NumLayers \in Nat \ {0} /\ Layers = 1 .. NumLayers
  BY GenerateAssumption DEF Layers
<1>3. DOMAIN old = Layers /\ old = [j \in Layers |-> old[j]]
      /\ new = [j \in Layers |-> new[j]]
  BY Zenon DEF WindowView
<1>4. \A l \in Layers : new[l] = IF mode = "commit" THEN CacheUpdate(l, old[l], Contribution(l, n))
                                ELSE old[l]
  BY CommitExtends
<1>5. \A l \in Layers : On(l, n) \cup DependsOn(l, old[l]) = On(l + 1, n)
  BY HiddenStates
<1>6. \A l : Contribution(l, n) = [block |-> n, on |-> On(l, n)]
  BY DEF Contribution, On
<1>7. cache = old
  OBVIOUS
<1> HIDE DEF old, new
<1>8. Good(after[0], 0)
  <2>1. On(1, n) = {<<n, BlockTokens(n)>>}
    BY DEF On
  <2>2. <<>> = [j \in 1 .. 0 |-> old[j]]
    OBVIOUS
  <2>3. old = [j \in Layers |-> IF j <= 0 THEN new[j] ELSE old[j]]
    BY <1>2, <1>3
  <2> QED BY <1>1, <1>7, <2>1, <2>2, <2>3
<1>9. ASSUME NEW k \in Nat, k + 1 <= NumLayers, Good(after[k], k)
      PROVE  Good(after[k + 1], k + 1)
  <2> DEFINE l == k + 1
             st == after[k]
             key == [block |-> n, on |-> st.hidden]
  <2>1. l \in Layers /\ l - 1 = k
    BY <1>2, <1>9
  <2>2. /\ after[l].hidden = st.hidden \cup DependsOn(l, st.cache[l])
        /\ after[l].read = Append(st.read, st.cache[l])
        /\ after[l].cache = [st.cache EXCEPT ![l] = IF mode = "commit"
                                                   THEN CacheUpdate(l, @, key) ELSE @]
    <3> DEFINE h == st.hidden \cup DependsOn(l, st.cache[l])
               d == Append(st.read, st.cache[l])
               c == [st.cache EXCEPT ![l] = IF mode = "commit"
                                            THEN CacheUpdate(l, @, key) ELSE @]
    <3>1. after[l] = [hidden |-> h, read |-> d, cache |-> c]
      BY Zenon, <1>1, <2>1 DEF LayerPass
    <3> HIDE DEF h, d, c
    <3>2. after[l].hidden = h /\ after[l].read = d /\ after[l].cache = c
      BY <3>1
    <3> QED BY Zenon, <3>2 DEF h, d, c
  <2>3. st.hidden = On(l, n) /\ st.cache[l] = old[l] /\ key = Contribution(l, n)
    <3>1. ~(l <= k)
      OBVIOUS
    <3> QED BY <1>6, <1>9, <2>1, <3>1
  <2>4. after[l].hidden = On(l + 1, n)
    BY <1>5, <2>1, <2>2, <2>3
  <2>5. after[l].read = [j \in 1 .. l |-> old[j]]
    <3> DEFINE S == {old[j] : j \in Layers}
               f == [j \in 1 .. k |-> old[j]]
    <3>1. f \in [1 .. k -> S] /\ old[l] \in S
      BY <1>2, <1>9, <2>1
    <3>2. Append(f, old[l]) = [j \in 1 .. k + 1 |-> IF j <= k THEN f[j] ELSE old[l]]
      BY <3>1, AppendedFunction
    <3>3. \A j \in 1 .. k + 1 : (IF j <= k THEN f[j] ELSE old[l]) = old[j]
      OBVIOUS
    <3>4. after[l].read = Append(f, old[l])
      <4>1. after[l].read = Append(st.read, st.cache[l])
        BY Zenon, <2>2
      <4>2. st.read = f
        BY Zenon, <1>9
      <4> QED BY Zenon, <2>3, <4>1, <4>2
    <3> HIDE DEF f
    <3> QED BY <3>2, <3>3, <3>4
  <2>6. after[l].cache = [j \in Layers |-> IF j <= l THEN new[j] ELSE old[j]]
    <3>1. after[l].cache = [st.cache EXCEPT ![l] = new[l]]
      <4>1. after[l].cache = [st.cache EXCEPT ![l] = IF mode = "commit"
                                                     THEN CacheUpdate(l, st.cache[l], key)
                                                     ELSE st.cache[l]]
        BY Zenon, <2>2
      <4>2. (IF mode = "commit" THEN CacheUpdate(l, st.cache[l], key) ELSE st.cache[l]) = new[l]
        BY Zenon, <1>4, <2>1, <2>3
      <4> QED BY Zenon, <4>1, <4>2
    <3>2. st.cache = [j \in Layers |-> IF j <= k THEN new[j] ELSE old[j]]
      BY <1>9
    <3>3. \A j \in Layers : j # l => (j <= k <=> j <= l)
      BY <1>2
    <3>4. l <= l
      BY <1>2, <2>1
    <3>5. after[l].cache = [j \in Layers |-> IF j = l THEN new[l]
                                            ELSE IF j <= k THEN new[j] ELSE old[j]]
      BY SMTT(30), <2>1, <3>1, <3>2
    <3>6. \A j \in Layers : (IF j = l THEN new[l] ELSE IF j <= k THEN new[j] ELSE old[j])
                           = (IF j <= l THEN new[j] ELSE old[j])
      BY Zenon, <3>3, <3>4
    <3> QED BY Zenon, <3>5, <3>6
  <2> QED BY <2>4, <2>5, <2>6
<1>10. Good(after[NumLayers], NumLayers)
  <2> DEFINE S == {k \in Nat : k <= NumLayers => Good(after[k], k)}
  <2> HIDE DEF Good
  <2>1. 0 \in S
    BY <1>8
  <2>2. ASSUME NEW k \in Nat, k \in S PROVE k + 1 \in S
    <3> SUFFICES ASSUME k + 1 <= NumLayers PROVE Good(after[k + 1], k + 1)
      OBVIOUS
    <3>1. k <= NumLayers
      BY <1>2
    <3> QED BY <1>9, <2>2, <3>1
  <2>3. NumLayers \in S
    <3> HIDE DEF S
    <3> QED BY <1>2, <2>1, <2>2, SetInduction
  <2> QED BY <1>2, <2>3
<1>11. after[NumLayers].read = old
  BY <1>2, <1>3, <1>10
<1>12. after[NumLayers].cache = new
  <2>1. \A j \in Layers : j <= NumLayers
    BY <1>2
  <2> QED BY <1>3, <1>10, <2>1
<1> QED BY <1>1, <1>11, <1>12 DEF old, new

-----------------------------------------------------------------------------
(* The loop with a cache *)

\* Steps that leave the tokens of the blocks before n alone leave their keys alone.
LEMMA SameView ==
  ASSUME call \in Calls, call' = call, NEW n \in Nat, n <= NumBlocks,
         \A b \in Batch, p \in Positions : p < n * BlockLength => x'[b][p] = x[b][p]
  PROVE  WindowView(n)' = WindowView(n)
<1>1. ASSUME NEW m \in 0 .. n - 1 PROVE BlockTokens(m)' = BlockTokens(m)
  <2>1. m \in Nat /\ m < n /\ m < NumBlocks
    BY WindowShape
  <2>2. BlockPos(m)' = BlockPos(m) /\ Batch' = Batch
    BY SameWindow DEF BlockPos
  <2>3. ASSUME NEW b \in Batch, NEW p \in BlockPos(m) PROVE x'[b][p] = x[b][p]
    <3>1. p \in Nat /\ p < (m + 1) * BlockLength /\ p \in Positions
      BY <2>1, BlockPositions
    <3>2. (m + 1) * BlockLength <= n * BlockLength /\ (m + 1) * BlockLength \in Nat /\ n * BlockLength \in Nat
      BY <2>1, BlockOrder
    <3> QED BY <3>1, <3>2
  <2> QED BY <2>2, <2>3 DEF BlockTokens
<1>2. ASSUME NEW l, NEW m \in 0 .. n - 1 PROVE Contribution(l, m)' = Contribution(l, m)
  <2>1. \A k \in IF l = 1 THEN {m} ELSE 0 .. m : BlockTokens(k)' = BlockTokens(k)
    <3>1. \A k \in 0 .. m : k \in 0 .. n - 1
      OBVIOUS
    <3> QED BY <1>1, <3>1
  <2> QED BY <2>1 DEF Contribution
<1>3. ASSUME NEW l \in Layers
      PROVE  /\ {Contribution(l, m) : m \in 0 .. n - 1}' = {Contribution(l, m) : m \in 0 .. n - 1}
             /\ [m \in 1 .. n |-> Contribution(l, m - 1)]' = [m \in 1 .. n |-> Contribution(l, m - 1)]
  <2>1. \A m \in 1 .. n : m - 1 \in 0 .. n - 1
    OBVIOUS
  <2> QED BY <1>2, <2>1
<1> QED BY Zenon, <1>3 DEF WindowView

\* The view of the committed blocks after a step.
LEMMA PrimedView ==
  ASSUME NEW n, Committed' = n
  PROVE  WindowView(Committed)' = WindowView(n)'
BY DEF WindowView

\* The loop with a cache starts with CachedInv: an empty cache holds no block.
LEMMA InitCached == CachedInit => CachedInv
<1> SUFFICES ASSUME CachedInit PROVE CachedInv
  OBVIOUS
<1>1. GenerateInv /\ pc = "head" /\ numBlock = PrefillBlocks /\ call \in Calls
  BY InitGenerate DEF CachedInit, Init
<1>2. filled = 0 /\ PrefillBlocks \in Nat
  BY <1>1, WindowShape DEF CachedInit
<1>3. Committed = 0
  BY <1>1, <1>2 DEF Committed
<1>4. cache = WindowView(0)
  <2>1. \A l : {Contribution(l, m) : m \in 0 .. 0 - 1} = {}
    OBVIOUS
  <2>2. \A l : [m \in 1 .. 0 |-> Contribution(l, m - 1)] = <<>>
    OBVIOUS
  <2>3. cache = [l \in Layers |-> IF l \in LinearLayers THEN EmptyBag ELSE <<>>]
    BY DEF CachedInit
  <2> QED BY Zenon, <2>1, <2>2, <2>3 DEF WindowView, EmptyBag
<1> QED BY <1>1, <1>2, <1>3, <1>4 DEF CachedInv, CacheIsCurrent

\* The steps of the loop with a cache are steps of the loop without, or of the prefill.
LEMMA CachedStepIsStep ==
  ASSUME CachedInv, [CachedNext]_cachedVars
  PROVE  [Next]_vars
<1>1. CASE CachedPass
  <2>1. numBlock \in Nat /\ filled = PrefillBlocks /\ pc = "head"
    BY <1>1, WindowShape DEF CachedInv, GenerateInv, TypeOK, CachedPass, Pass
  <2>2. cache = WindowView(numBlock)
    <3>1. ~(filled < PrefillBlocks) /\ pc \notin {"return", "done"}
      BY <2>1, WindowShape DEF CachedInv, GenerateInv, TypeOK
    <3> QED BY <3>1 DEF CachedInv, CacheIsCurrent, Committed
  <2>3. ForwardBlock("read", numBlock, BlockTokens(numBlock)).read = WindowView(numBlock)
    BY <2>1, <2>2, ForwardResult
  <2>4. Pass(WindowView(numBlock))
    BY <1>1, <2>3 DEF CachedPass
  <2> QED BY <2>4 DEF Next
<1>2. CASE CommitBlock
  BY <1>2 DEF CommitBlock, Next
<1>3. CASE PrefillBlock \/ UNCHANGED cachedVars
  BY <1>3 DEF PrefillBlock, cachedVars
<1> QED BY <1>1, <1>2, <1>3 DEF CachedNext, Next

\* CachedInv is inductive: a block is committed when the loop has done with it, and no
\* step changes the tokens of a block that is committed.
LEMMA NextCached == CachedInv /\ [CachedNext]_cachedVars => CachedInv'
<1> SUFFICES ASSUME CachedInv, [CachedNext]_cachedVars PROVE CachedInv'
  OBVIOUS
<1>1. GenerateInv /\ GenerateInv' /\ [Next]_vars
  BY CachedStepIsStep, NextGenerate DEF CachedInv
<1>2. /\ call \in Calls /\ numBlock \in Nat /\ PrefillBlocks \in Nat /\ NumBlocks \in Nat
      /\ filled \in Nat /\ filled <= PrefillBlocks /\ cache = WindowView(Committed)
      /\ PrefillBlocks <= numBlock /\ numBlock + 1 <= NumBlocks
      /\ filled < PrefillBlocks => pc = "head" /\ numBlock = PrefillBlocks
  BY <1>1, WindowShape DEF CachedInv, CacheIsCurrent, GenerateInv, TypeOK
<1>3. call' = call
  BY <1>1 DEF Next, StepsOver, PostStepsOver, Pass, Update, FinishBlock, Return, vars
<1>4. PrefillBlocks' = PrefillBlocks /\ NumBlocks' = NumBlocks
  BY <1>3, SameWindow
<1>5. \A n \in Nat : n <= NumBlocks /\ x' = x => WindowView(n)' = WindowView(n)
  BY <1>2, <1>3, SameView
<1>6. CASE PrefillBlock
  <2>1. /\ filled < PrefillBlocks /\ filled' = filled + 1 /\ UNCHANGED vars
        /\ cache' = ForwardBlock("commit", filled, BlockTokens(filled)).cache
    BY <1>6 DEF PrefillBlock
  <2>2. x' = x /\ pc' = pc /\ numBlock' = numBlock /\ pc = "head" /\ numBlock = PrefillBlocks
    BY <1>2, <2>1 DEF vars
  <2>3. Committed = filled
    BY <2>1 DEF Committed
  <2>4. cache' = WindowView(filled + 1)
    BY <1>2, <2>1, <2>3, ForwardResult
  <2>5. Committed' = filled + 1
    BY <1>2, <1>4, <2>1, <2>2 DEF Committed
  <2>6. PICK n \in Nat : n = filled + 1
    BY <1>2
  <2>7. WindowView(n)' = WindowView(n)
    BY <1>2, <1>5, <2>1, <2>2, <2>6
  <2>8. CacheIsCurrent'
    BY <2>4, <2>5, <2>6, <2>7, PrimedView DEF CacheIsCurrent
  <2> QED BY <1>1, <1>2, <1>4, <2>1, <2>2, <2>8 DEF CachedInv
<1>7. ASSUME ~PrefillBlock
      PROVE  /\ filled' = filled /\ (filled = PrefillBlocks \/ UNCHANGED <<pc, numBlock>>)
             /\ \/ Update /\ cache' = cache
                \/ CommitBlock
                \/ x' = x /\ cache' = cache /\ Committed' = Committed
  <2>1. CASE /\ filled = PrefillBlocks /\ (StepsOver \/ PostStepsOver)
             /\ UNCHANGED <<filled, cache>>
    <3>1. pc = "head" /\ pc' = "finish" /\ x' = x /\ numBlock' = numBlock
      BY <2>1 DEF StepsOver, PostStepsOver
    <3>2. Committed' = Committed
      BY <1>2, <1>4, <2>1, <3>1 DEF Committed
    <3> QED BY <2>1, <3>1, <3>2
  <2>2. CASE CachedPass
    <3>1. /\ filled = PrefillBlocks /\ filled' = filled /\ pc = "head" /\ pc' = "update" /\ x' = x
          /\ numBlock' = numBlock
      BY <2>2 DEF CachedPass, Pass
    <3>2. Committed = numBlock /\ Committed' = Committed
      BY <1>2, <1>4, <3>1 DEF Committed
    <3>3. cache' = cache
      <4>1. cache' = ForwardBlock("read", numBlock, BlockTokens(numBlock)).cache
        BY <2>2 DEF CachedPass
      <4> QED BY <1>2, <3>2, <4>1, ForwardResult
    <3> QED BY <3>1, <3>2, <3>3
  <2>3. CASE Update /\ UNCHANGED <<filled, cache>>
    <3>1. pc = "update" /\ filled' = filled /\ cache' = cache
      BY <2>3 DEF Update
    <3>2. filled = PrefillBlocks
      BY <1>2, <3>1
    <3> QED BY <2>3, <3>1, <3>2
  <2>4. CASE CommitBlock
    <3>1. pc = "finish" /\ filled' = filled
      BY <2>4 DEF CommitBlock, FinishBlock
    <3>2. filled = PrefillBlocks
      BY <1>2, <3>1
    <3> QED BY <2>4, <3>1, <3>2
  <2>5. CASE Return /\ UNCHANGED <<filled, cache>>
    <3>1. pc = "return" /\ pc' = "done" /\ x' = x /\ numBlock' = numBlock
      BY <2>5 DEF Return
    <3>2. filled = PrefillBlocks /\ Committed' = Committed
      BY <1>2, <1>4, <2>5, <3>1 DEF Committed
    <3> QED BY <2>5, <3>1, <3>2
  <2>6. CASE UNCHANGED cachedVars
    <3>1. UNCHANGED <<x, pc, numBlock, filled, cache>>
      BY <2>6 DEF cachedVars, vars
    <3> QED BY <1>4, <3>1 DEF Committed
  <2> QED BY <1>7, <2>1, <2>2, <2>3, <2>4, <2>5, <2>6 DEF CachedNext
<1>8. ASSUME ~PrefillBlock PROVE CacheIsCurrent'
  <2>1. CASE x' = x /\ cache' = cache /\ Committed' = Committed
    <3>1. Committed \in Nat /\ Committed <= NumBlocks
      BY <1>2 DEF Committed
    <3>2. WindowView(Committed)' = WindowView(Committed)
      <4>1. PICK n \in Nat : n = Committed
        BY <3>1
      <4>2. WindowView(n)' = WindowView(n)
        BY <1>5, <2>1, <3>1, <4>1
      <4> QED BY <2>1, <4>1, <4>2, PrimedView
    <3> QED BY <1>2, <2>1, <3>2 DEF CacheIsCurrent
  <2>2. CASE Update /\ cache' = cache
    <3>1. /\ pc = "update" /\ pc' \in {"head", "finish"} /\ numBlock' = numBlock
          /\ filled' = filled /\ filled = PrefillBlocks
      BY <1>2, <1>7, <1>8, <2>2 DEF Update
    <3>2. Committed = numBlock /\ Committed' = numBlock
      BY <1>2, <1>4, <3>1 DEF Committed
    <3>3. ASSUME NEW b \in Batch, NEW p \in Positions, p < numBlock * BlockLength
          PROVE  x'[b][p] = x[b][p]
      <4>1. numBlock * BlockLength \in Nat /\ p \in Nat
        BY <1>2, BlockOrder, WindowShape DEF Positions
      <4>2. p \notin BlockPos(numBlock)
        BY <1>2, <3>3, <4>1, BlockPositions
      <4> QED BY <1>1, <2>2, <4>2, UpdateEffect
    <3>4. PICK n \in Nat : n = numBlock
      BY <1>2
    <3>5. WindowView(n)' = WindowView(n)
      BY <1>2, <1>3, <3>3, <3>4, SameView
    <3>6. WindowView(Committed)' = WindowView(numBlock)
      BY <3>2, <3>4, <3>5, PrimedView
    <3> QED BY <1>2, <2>2, <3>2, <3>6 DEF CacheIsCurrent
  <2>3. CASE CommitBlock
    <3>1. /\ pc = "finish" /\ filled' = filled /\ filled = PrefillBlocks /\ x' = x
          /\ cache' = ForwardBlock("commit", numBlock, BlockTokens(numBlock)).cache
          /\ \/ pc' = "return" /\ numBlock' = numBlock
             \/ pc' = "head" /\ numBlock' = numBlock + 1
      BY <1>2, <2>3 DEF CommitBlock, FinishBlock
    <3>2. Committed = numBlock /\ Committed' = numBlock + 1
      BY <1>2, <1>4, <3>1 DEF Committed
    <3>3. cache' = WindowView(numBlock + 1)
      BY <1>2, <3>1, <3>2, ForwardResult
    <3>4. PICK n \in Nat : n = numBlock + 1
      BY <1>2
    <3>5. WindowView(n)' = WindowView(n)
      BY <1>2, <1>5, <3>1, <3>4
    <3>6. WindowView(Committed)' = WindowView(numBlock + 1)
      BY <3>2, <3>4, <3>5, PrimedView
    <3> QED BY <3>3, <3>6 DEF CacheIsCurrent
  <2> QED BY <1>7, <1>8, <2>1, <2>2, <2>3
<1>9. CASE ~PrefillBlock
  BY <1>1, <1>2, <1>4, <1>7, <1>8, <1>9 DEF CachedInv
<1> QED BY <1>6, <1>9

-----------------------------------------------------------------------------
(* Theorems *)

\* CachedInv holds of the loop with a cache (_generate_with_kv_cache).
THEOREM CachedInvHolds == CachedSpec => []CachedInv
BY InitCached, NextCached, PTL DEF CachedSpec

\* The loop with a BlockDiffusionCache implements the loop without: every pass of
\* _generate_with_kv_cache attends to exactly what a pass of generate over the whole
\* window attends to, in every layer, for any pattern of softmax and linear layers.
THEOREM CacheImplementsGenerate == CachedSpec => ImplementsGenerate
<1>1. CachedInit => Init
  BY DEF CachedInit
<1>2. CachedInv /\ [CachedNext]_cachedVars => [Next]_vars
  BY CachedStepIsStep
<1> QED BY <1>1, <1>2, CachedInvHolds, PTL DEF CachedSpec, Spec, ImplementsGenerate

\* The cache always holds one entry for each committed block, computed from the tokens
\* that it and the blocks before it have now (update_kv, update_recurrent_state).
THEOREM CacheStaysCurrent == CachedSpec => []CacheIsCurrent
<1>1. CachedInv => CacheIsCurrent
  BY DEF CachedInv
<1> QED BY <1>1, CachedInvHolds, PTL

\* The cache is read-only while a block is denoised: it changes in the prefill and when
\* a block is finished (_commit_block_to_cache).
THEOREM CacheReadOnly == CachedSpec => ReadOnlyInRefinement
<1>1. CachedInv /\ [CachedNext]_cachedVars =>
        [cache' # cache => pc = "finish" \/ filled' = filled + 1]_cachedVars
  <2> SUFFICES ASSUME CachedInv, CachedNext, cache' # cache
               PROVE  pc = "finish" \/ filled' = filled + 1
    OBVIOUS
  <2>1. ~CachedPass
    <3> SUFFICES ASSUME CachedPass PROVE FALSE
      OBVIOUS
    <3>1. /\ filled = PrefillBlocks /\ pc = "head"
          /\ cache' = ForwardBlock("read", numBlock, BlockTokens(numBlock)).cache
      BY DEF CachedPass, Pass
    <3>2. numBlock \in Nat /\ PrefillBlocks \in Nat
      BY WindowShape DEF CachedInv, GenerateInv, TypeOK
    <3>3. cache = WindowView(numBlock)
      BY <3>1, <3>2 DEF CachedInv, CacheIsCurrent, Committed
    <3> QED BY <3>1, <3>2, <3>3, ForwardResult
  <2> QED BY <2>1 DEF CachedNext, PrefillBlock, CommitBlock, FinishBlock
<1> QED BY <1>1, CachedInvHolds, PTL DEF CachedSpec, ReadOnlyInRefinement

\* Type correctness of the generation loops.
THEOREM GenerateTypeCorrect == CachedSpec => []TypeOK
<1>1. CachedInv => TypeOK
  BY DEF CachedInv, GenerateInv
<1> QED BY <1>1, CachedInvHolds, PTL

\* When the steps of a block suffice, a mask is returned only when the model predicted
\* one, or in a row that the end of text of another row has stopped (generate).
THEOREM NoMaskLeftBehind == CachedSpec => []MaskReturnedOnlyIf
<1>1. CachedInv => MaskReturnedOnlyIf
  BY MasksExplained DEF CachedInv
<1> QED BY <1>1, CachedInvHolds, PTL

\* No step edits the prompt, or a block that was finished (editable_positions).
THEOREM FinishedBlocksAreFinal == CachedSpec => OnlyCurrentBlockChanges
BY CacheImplementsGenerate, SpecChangesCurrentBlock, PTL DEF ImplementsGenerate

=============================================================================
