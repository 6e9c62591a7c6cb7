--------------------------- MODULE CachedGenerate ---------------------------
(***************************************************************************)
(* The generation loop with a BlockDiffusionCache: _generate_with_kv_cache.*)
(* A forward pass runs on the current block only and finds the blocks in   *)
(* front of it in the cache, layer by layer: a softmax layer has their keys*)
(* and values, a linear layer a recurrent state, the sum over them.        *)
(*                                                                         *)
(* The loop around the pass is that of BlockGenerate, line by line.        *)
(***************************************************************************)
EXTENDS BlockGenerate, Sequences

VARIABLES
  filled,  \* the blocks of the prompt that are committed
  cache    \* kv_cache of a softmax layer, recurrent_state of a linear one

cachedVars == <<vars, filled, cache>>

\* _init_prefix_cache
CachedInit ==
  /\ Init
  /\ filled = 0
  /\ cache = [l \in Layers |-> IF l \in LinearLayers THEN EmptyBag ELSE <<>>]

\* Mutant of CacheUpdate: the recurrent state is overwritten with that of the block.
CacheUpdateReplaces(l, old, key) ==
  IF l \in LinearLayers THEN SetToBag({key}) ELSE Append(old, key)

\* Mutant of CacheUpdate: the new keys are put in front of the old ones.
CacheUpdatePrepends(l, old, key) ==
  IF l \in LinearLayers THEN old (+) SetToBag({key}) ELSE <<key>> \o old

\* update_kv and update_recurrent_state, whose state was computed on top of the old
\* one.
CacheUpdate(l, old, key) ==
  IF l \in LinearLayers THEN old (+) SetToBag({key}) ELSE Append(old, key)

\* The blocks that the entries of a layer's cache depend on.
DependsOn(l, entries) ==
  UNION {key.on : key \in IF l \in LinearLayers THEN BagToSet(entries) ELSE Range(entries)}

\* Mutant of LayerPass: a pass that reads updates the keys of softmax layers too.
LayerPassAlwaysAppends(st, l, mode, n) ==
  LET key == [block |-> n, on |-> st.hidden]
  IN  [hidden |-> st.hidden \cup DependsOn(l, st.cache[l]),
       read |-> Append(st.read, st.cache[l]),
       cache |-> [st.cache EXCEPT ![l] = IF mode = "commit" \/ l \notin LinearLayers
                                         THEN CacheUpdate(l, @, key) ELSE @]]

\* _forward_with_prefix_cache of layer l: the block attends to the cached blocks and
\* to itself; a commit adds it to the cache.
LayerPass(st, l, mode, n) ==
  LET key == [block |-> n, on |-> st.hidden]
  IN  [hidden |-> st.hidden \cup DependsOn(l, st.cache[l]),
       read |-> Append(st.read, st.cache[l]),
       cache |-> [st.cache EXCEPT ![l] = IF mode = "commit"
                                         THEN CacheUpdate(l, @, key) ELSE @]]

\* The pass of block n through the decoder layers.
ForwardBlock(mode, n, tokens) ==
  LET after[l \in 0 .. NumLayers] ==
        IF l = 0 THEN [hidden |-> {<<n, tokens>>}, read |-> <<>>, cache |-> cache]
        ELSE LayerPass(after[l - 1], l, mode, n)
  IN  after[NumLayers]

\* The prefill commits the blocks that hold nothing but prompt.
PrefillBlock ==
  /\ filled < PrefillBlocks
  /\ cache' = ForwardBlock("commit", filled, BlockTokens(filled)).cache
  /\ filled' = filled + 1
  /\ UNCHANGED vars

CachedPass ==
  LET pass == ForwardBlock("read", numBlock, BlockTokens(numBlock))
  IN  /\ filled = PrefillBlocks
      /\ Pass(pass.read)
      /\ cache' = pass.cache
      /\ UNCHANGED filled

\* _commit_block_to_cache of the finished block, and the end of the block.
CommitBlock ==
  /\ FinishBlock
  /\ cache' = ForwardBlock("commit", numBlock, BlockTokens(numBlock)).cache
  /\ UNCHANGED filled

CachedNext ==
  \/ PrefillBlock
  \/ filled = PrefillBlocks /\ StepsOver /\ UNCHANGED <<filled, cache>>
  \/ filled = PrefillBlocks /\ PostStepsOver /\ UNCHANGED <<filled, cache>>
  \/ CachedPass
  \/ Update /\ UNCHANGED <<filled, cache>>
  \/ CommitBlock
  \/ Return /\ UNCHANGED <<filled, cache>>

\* The loop is one thread and every step of it returns.
CachedSpec == CachedInit /\ [][CachedNext]_cachedVars /\ WF_cachedVars(CachedNext)

-----------------------------------------------------------------------------
\* The number of blocks that are committed.
Committed == IF filled < PrefillBlocks THEN filled
             ELSE IF pc \in {"return", "done"} THEN numBlock + 1 ELSE numBlock

\* The cache holds, in every layer, one entry for each committed block, computed from
\* the tokens that the block and the blocks before it have now: "After each block is
\* finalized, its contribution is committed" (cache.py), and no entry
\* is stale, missing or counted twice.
CacheIsCurrent == cache = WindowView(Committed)

\* The invariant that CacheIsCurrent rests on: the loop has not begun before the
\* prompt is committed.
CachedInv ==
  /\ GenerateInv
  /\ filled \in 0 .. PrefillBlocks
  /\ filled < PrefillBlocks => pc = "head" /\ numBlock = PrefillBlocks
  /\ CacheIsCurrent

\* "During refinement of the active block, the cache is read-only" (cache.py): the
\* cache grows when a block is finished and at no other time.
ReadOnlyInRefinement ==
  [][cache' # cache => pc = "finish" \/ filled' = filled + 1]_cachedVars

\* With the cache the loop does what it does without: every pass attends to exactly
\* what a pass over the whole window would.
ImplementsGenerate == Spec

\* generate returns, whatever the model predicts: the steps of each block are counted
\* even when masks come back.
Returns == <>(pc = "done")

=============================================================================
