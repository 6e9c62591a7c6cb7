--------------------------- MODULE BlockGenerate ----------------------------
(***************************************************************************)
(* The reference generation loop of the PyTorch model, without a cache:    *)
(* generate of modeling_llada2_moe.py.  A batch of rows of equal prompt    *)
(* length is filled block by block; every denoising step runs the model on *)
(* the whole window up to the current block, replaces masks by predictions *)
(* and edits earlier predictions of the block.                             *)
(*                                                                         *)
(* The logits are abstracted to any prediction; mask_id is not excluded    *)
(* from them.  What a forward pass attends to is kept in seen, layer by    *)
(* layer, as the contributions of the blocks in front of the current one.  *)
(***************************************************************************)
EXTENDS Integers, FiniteSetsExt, Bags

CONSTANTS
  Calls,          \* the calls: [batch, promptLength, genLength, eosEarlyStop]
  BlockLength,    \* block_length, and block_size of the linear layers
  StepsArg,       \* steps
  MinimalTopk,    \* minimal_topk
  MaxPostSteps,   \* max_post_steps
  NumToTransfer,  \* num_to_transfer
  Vocab,          \* the tokens, without mask_id
  Mask,           \* mask_id
  Eos,            \* eos_id
  PromptTokens,   \* the tokens that prompts are made of
  NumLayers,      \* config.num_hidden_layers
  LinearLayers    \* the layers with linear attention

ASSUME GenerateAssumption ==
  /\ \A c \in Calls : /\ c.promptLength \in Nat /\ c.genLength \in Nat \ {0}
                      /\ c.eosEarlyStop \in BOOLEAN
  /\ BlockLength \in Nat \ {0} /\ StepsArg \in Nat /\ MinimalTopk \in Nat \ {0}
  /\ MaxPostSteps \in Nat /\ NumToTransfer \in Nat
  /\ Mask \notin Vocab /\ Eos \in Vocab /\ PromptTokens \subseteq Vocab
  /\ NumLayers \in Nat \ {0} /\ LinearLayers \subseteq 1 .. NumLayers

VARIABLES
  call,          \* the arguments of the call
  x,             \* x: the tokens of every row
  numBlock,      \* num_block
  stepCount,     \* step_count
  postSteps,     \* post_steps
  seen,          \* what the forward pass of this step attended to, or NotSeen
  maskPredicted, \* has the model predicted a mask for a position that it filled?
  answer,        \* the tokens returned, or NoAnswer
  pc             \* "head", "update", "finish", "return" or "done"

vars == <<call, x, numBlock, stepCount, postSteps, seen, maskPredicted, answer, pc>>

Tokens == Vocab \cup {Mask}
Layers == 1 .. NumLayers
NotSeen == <<>>
NoAnswer == <<>>

Batch == call.batch
PromptLength == call.promptLength
NumBlocks == (PromptLength + call.genLength + BlockLength - 1) \div BlockLength
TotalLength == NumBlocks * BlockLength
PrefillBlocks == PromptLength \div BlockLength
Steps == Min({StepsArg, call.genLength \div MinimalTopk})

Positions == 0 .. TotalLength - 1
BlockPos(n) == n * BlockLength .. (n + 1) * BlockLength - 1

Init ==
  /\ call \in Calls
  /\ \E prompt \in [Batch -> [0 .. PromptLength - 1 -> PromptTokens]] :
       x = [b \in Batch |-> [p \in Positions |-> IF p < PromptLength THEN prompt[b][p]
                                                 ELSE Mask]]
  /\ numBlock = PrefillBlocks
  /\ stepCount = 0
  /\ postSteps = 0
  /\ seen = NotSeen
  /\ maskPredicted = FALSE
  /\ answer = NoAnswer
  /\ pc = "head"

-----------------------------------------------------------------------------
\* The tokens of block n, in every row.
BlockTokens(n) == [b \in Batch |-> [p \in BlockPos(n) |-> x[b][p]]]

\* Key n of layer l, as the hidden states it is projected from depend on the blocks:
\* the first layer sees the block alone, the others what the block-causal attention
\* of the layers below has mixed in.
Contribution(l, n) ==
  [block |-> n, on |-> {<<m, BlockTokens(m)>> : m \in IF l = 1 THEN {n} ELSE 0 .. n}]

\* What the pass over the window attends to in front of block n: the keys of a
\* softmax layer, the sum over keys in a linear one.
WindowView(n) ==
  [l \in Layers |->
     IF l \in LinearLayers THEN SetToBag({Contribution(l, m) : m \in 0 .. n - 1})
     ELSE [m \in 1 .. n |-> Contribution(l, m - 1)]]

\* active_block_mask of row b.
ActiveMask(b) == {p \in BlockPos(numBlock) : x[b][p] = Mask}

AnyMask == \E b \in Batch : ActiveMask(b) # {}

\* The top of the loop: steps are counted, and those on a block without masks.
StepsOver ==
  /\ pc = "head"
  /\ stepCount >= Steps
  /\ pc' = "finish"
  /\ UNCHANGED <<call, x, numBlock, stepCount, postSteps, seen, maskPredicted, answer>>

PostStepsAfter == IF AnyMask THEN postSteps ELSE postSteps + 1

\* Mutant of StepCountAfter: the steps that fill masks are not counted.
StepCountAfterFill == IF AnyMask THEN stepCount ELSE stepCount + 1

StepCountAfter == stepCount + 1

PostStepsOver ==
  /\ pc = "head"
  /\ stepCount < Steps
  /\ PostStepsAfter > MaxPostSteps
  /\ stepCount' = StepCountAfter
  /\ postSteps' = PostStepsAfter
  /\ pc' = "finish"
  /\ UNCHANGED <<call, x, numBlock, seen, maskPredicted, answer>>

\* The forward pass, which attends to view.
Pass(view) ==
  /\ pc = "head"
  /\ stepCount < Steps
  /\ PostStepsAfter <= MaxPostSteps
  /\ stepCount' = StepCountAfter
  /\ postSteps' = PostStepsAfter
  /\ seen' = view
  /\ pc' = "update"
  /\ UNCHANGED <<call, x, numBlock, maskPredicted, answer>>

\* Mutant of Editable: the tokens of the prompt may be edited too.
EditableWithPrompt(b) == {p \in BlockPos(numBlock) : x[b][p] # Mask}

\* editable_positions of row b.
Editable(b) == {p \in BlockPos(numBlock) : x[b][p] # Mask /\ p >= PromptLength}

\* Mutant of Forced: only the masks above the threshold are filled.
ForcedNone(b) == 0

\* The number of masks of row b that are filled whatever their confidence: all those
\* above the threshold when these are enough, else the most confident ones.
Forced(b) == Min({NumToTransfer, Cardinality(ActiveMask(b))})

Filled(b, tokens) == {p \in ActiveMask(b) : tokens[p] # Mask}
Edited(b, tokens) == {p \in Editable(b) : tokens[p] # x[b][p]}

\* Can only a predicted mask explain these tokens of row b?
NeedsMask(b, tokens) ==
  \/ Cardinality(Filled(b, tokens)) < Forced(b)
  \/ \E p \in Edited(b, tokens) : tokens[p] = Mask

\* The rest of a step: masks are filled and tokens edited; the block is finished
\* when it had no mask and nothing was edited.
Update ==
  /\ pc = "update"
  /\ \E tokens \in [Batch -> [BlockPos(numBlock) -> Tokens]] :
       /\ \A b \in Batch, p \in BlockPos(numBlock) :
            p \notin ActiveMask(b) \cup Editable(b) => tokens[b][p] = x[b][p]
       /\ x' = [b \in Batch |-> [p \in Positions |->
                  IF p \in BlockPos(numBlock) THEN tokens[b][p] ELSE x[b][p]]]
       /\ maskPredicted' = (maskPredicted \/ \E b \in Batch : NeedsMask(b, tokens[b]))
       /\ pc' = IF ~AnyMask /\ \A b \in Batch : Edited(b, tokens[b]) = {}
                THEN "finish" ELSE "head"
  /\ seen' = NotSeen
  /\ UNCHANGED <<call, numBlock, stepCount, postSteps, answer>>

-----------------------------------------------------------------------------
\* The generated part of the window.
GeneratedPart == PromptLength .. (numBlock + 1) * BlockLength - 1

\* The early stop: looks at all rows together.
EosStop ==
  /\ call.eosEarlyStop
  /\ \A b \in Batch, p \in GeneratedPart : x[b][p] # Mask
  /\ \E b \in Batch, p \in GeneratedPart : x[b][p] = Eos

\* Mutant of LastBlock: the range of blocks is one too long.
LastBlockBeyond == numBlock = NumBlocks

LastBlock == numBlock + 1 = NumBlocks

\* The end of a block: on to the next one, unless there is none or generation stops.
FinishBlock ==
  /\ pc = "finish"
  /\ IF EosStop \/ LastBlock
     THEN pc' = "return" /\ UNCHANGED <<numBlock, stepCount, postSteps>>
     ELSE /\ numBlock' = numBlock + 1
          /\ stepCount' = 0
          /\ postSteps' = 0
          /\ pc' = "head"
  /\ UNCHANGED <<call, x, seen, maskPredicted, answer>>

\* The tokens behind the first eos of a row become eos.
Trimmed(b) ==
  [i \in 0 .. call.genLength - 1 |->
     IF call.eosEarlyStop /\ \E j \in 0 .. i - 1 : x[b][PromptLength + j] = Eos
     THEN Eos ELSE x[b][PromptLength + i]]

Return ==
  /\ pc = "return"
  /\ answer' = [b \in Batch |-> Trimmed(b)]
  /\ pc' = "done"
  /\ UNCHANGED <<call, x, numBlock, stepCount, postSteps, seen, maskPredicted>>

Next ==
  StepsOver \/ PostStepsOver \/ Pass(WindowView(numBlock)) \/ Update \/ FinishBlock \/ Return

Spec == Init /\ [][Next]_vars

-----------------------------------------------------------------------------
\* Type invariant.
TypeOK ==
  /\ call \in Calls
  /\ x \in [Batch -> [Positions -> Tokens]]
  /\ numBlock \in PrefillBlocks .. NumBlocks - 1
  /\ stepCount \in 0 .. Steps
  /\ postSteps \in 0 .. MaxPostSteps + 1
  /\ maskPredicted \in BOOLEAN
  /\ pc \in {"head", "update", "finish", "return", "done"}
  /\ answer = NoAnswer \/ answer \in [Batch -> [0 .. call.genLength - 1 -> Tokens]]

\* A step changes tokens of the current block behind the prompt only: no edit reaches
\* the prompt, which shares its last block with generated tokens, or a block that was
\* finished and, with a cache, committed.
OnlyCurrentBlockChanges ==
  [][\A b \in Batch, p \in Positions :
       x'[b][p] # x[b][p] => p \in BlockPos(numBlock) /\ p >= PromptLength]_vars

\* Are the steps of a block enough for all its masks?
StepsSuffice == Steps * NumToTransfer >= BlockLength

\* When the steps suffice, a mask is returned only when the model predicted one, or in
\* a row that an end of text in another row has stopped: no mask is left behind in a
\* block, whatever was edited there (generate).
MaskReturnedOnlyIf ==
  pc = "done" /\ StepsSuffice /\ ~maskPredicted =>
    \A b \in Batch : (\E i \in DOMAIN answer[b] : answer[b][i] = Mask) =>
      /\ call.eosEarlyStop
      /\ \A i \in DOMAIN answer[b] : answer[b][i] # Eos
      /\ \E c \in Batch \ {b}, p \in Positions : p >= PromptLength /\ x[c][p] = Eos

-----------------------------------------------------------------------------
\* No position below the first one of block n is masked.
ClearBelow(n) ==
  \A b \in Batch, p \in Positions : p < n * BlockLength => x[b][p] # Mask

\* Every row has lost its masks, or enough of them in this many steps.
InTime(steps) ==
  \A b \in Batch :
    \/ ActiveMask(b) = {}
    \/ Cardinality(ActiveMask(b)) + steps * NumToTransfer <= BlockLength

\* The prompt is never masked, and the blocks ahead are masked altogether.
AroundBlock ==
  \A b \in Batch, p \in Positions :
    /\ p < PromptLength => x[b][p] # Mask
    /\ p >= (numBlock + 1) * BlockLength => x[b][p] = Mask

\* When the steps suffice and no mask was predicted, the blocks behind are clear and the
\* current one loses NumToTransfer masks a step.
OnTime ==
  StepsSuffice /\ ~maskPredicted =>
    /\ pc \in {"head", "update"} => ClearBelow(numBlock)
    /\ pc \in {"finish", "return", "done"} => ClearBelow(numBlock + 1)
    /\ pc = "head" => InTime(stepCount)
    /\ pc = "update" => InTime(stepCount - 1)

\* The invariant that MaskReturnedOnlyIf rests on.
GenerateInv ==
  /\ TypeOK
  /\ AroundBlock
  /\ OnTime
  /\ pc \in {"head", "update"} => postSteps <= MaxPostSteps
  /\ pc = "update" => stepCount > 0
  /\ pc \in {"return", "done"} => EosStop \/ LastBlock
  /\ pc = "done" => answer = [b \in Batch |-> Trimmed(b)]

=============================================================================
