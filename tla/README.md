# TLA+ models of the LLaDA-Hybrid serving path

LLaDA-Hybrid serves a block-diffusion language model with SGLang. Text is
produced a block of tokens at a time: a block starts as mask tokens and is
denoised in many forward passes. In 6 of the 20 layers softmax attention over
the past is replaced by a recurrent state, so a request owns two kinds of memory
that must stay in step: a row of KV cells for the softmax layers, and a state
slot for the hybrid layers with a *committed* copy (the past) and a *working*
copy (the past with the block being denoised).

These modules model the control of that path: who owns which row, cell and slot,
when a block is committed, how requests move between the queues, what the
denoising loops hand back, and how the front end takes calls from clients and
brings the answers back. The reference generation loop of the PyTorch model is
modelled too. Paths below are relative to
`src/sglang/python/sglang/srt` (SRT) unless they start with `src/`.

## 1. Inventory

| Part | Source | State it keeps | Entry points | Modelled |
|---|---|---|---|---|
| Request and state pools | `mem_cache/memory_pool.py`, `mem_cache/common.py`, `mem_cache/chunk_cache.py` | free rows, slots, cells; row -> slot mapping; committed and working states | `alloc_for_extend`, `release_kv_cache`, `cache_unfinished_req`, `clear` | `HybridPool`, `PoolContract` |
| dLLM scheduler mixin | `dllm/mixin/scheduler.py`, `dllm/mixin/req.py` | two queues of `DllmManager`; phase and block offset per request | `get_new_batch_dllm`, `process_batch_result_dllm` | `DllmScheduler` |
| Scheduler event loop | `managers/scheduler.py` and its runtime checker | `waiting_queue`, current and last batch, `batch_is_full` | `event_loop_normal`, `abort_request`, `flush_cache`, timeouts, idle check | `DllmScheduler` |
| Admission budget | `managers/schedule_policy.py` | `PrefillAdder`, one per round | `add_dllm_staging_req`, `add_one_req` | `PrefillAdder` |
| Denoising | `dllm/algorithm/joint_threshold.py`, `low_confidence.py` | token ids of a batch, edit counters, staleness flag | `run` | `JointThreshold`, `LowConfidence`, `DllmAlgorithm` |
| Hybrid attention | `layers/attention/llada_fast_backend.py` and its Triton kernel | slot indices per batch | `init_forward_metadata*`, forward | `HybridPool`, `GraphReplay` |
| CUDA graph runner | `model_executor/cuda_graph_runner.py` | persistent input buffers | `can_run`, `replay` | `GraphReplay` |
| Configuration | `dllm/config.py`, `configs/llada_fast.py` | none after start-up | - | no: constants |
| Serving model, adapter loading | `models/llada_fast.py` | weights | `load_weights` | no: start-up |
| Front end | `managers/tokenizer_manager.py`, `utils/aio_rwlock.py`, `entrypoints/http_server.py` | `rid_to_state`, reader-writer lock, pause flag, queues to and from the scheduler | `generate_request`, `abort_request`, `pause_generation`, `update_weights_from_disk`, `handle_loop`, SIGTERM | `RWLock`, `TokenizerManager` |
| Reference generation | `src/llada_hybrid/modeling_llada2_moe.py`, `cache.py`, `attention.py` | `BlockDiffusionCache` | `generate` | `BlockGenerate`, `CachedGenerate` |
| Layers, kernels | `src/llada_hybrid/*`, `src/kernel/*` | - | - | no: numerics |
| Scripts | `src/eval`, `src/scripts` | - | - | no: sequential I/O |

The deployment is the one of `src/eval/engine.py`: radix cache off (so
`ChunkCache`, page size 1), overlap schedule off, one process, FCFS, no
speculative decoding, CUDA graphs optional.

## 2. Modules

```
 HybridPool ──► PoolContract
     │               ├─(refined by) DllmScheduler ──► MCDllmScheduler
     │               │                  └──► SchedulerStepProofs ──► SchedulerRoundProofs
     │               │                                    └──► DllmSchedulerProofs
     │               └─(refined by) GraphReplay ───► MCGraphReplay
     │                                  └──► PoolContractProofs
 PrefillAdder ─────────────────► DllmScheduler
 DenoiseContract ─(refined by) JointThreshold, LowConfidence
                                  both in ──► DllmAlgorithm ──► DllmAlgorithmProofs
 BlockGenerate ──(refined by) CachedGenerate ──► MCCachedGenerate
                                  └──► CachedGenerateProofs
 RWLock ──► TokenizerManager ──► MCTokenizerManager
                    └──► TokenizerManagerProofs ──► AnswerCauseProofs
```

**HybridPool** holds the pools and their operations, one operator per
operation. A recurrent state is abstracted to the sequence of blocks folded
into it, a block to its set of KV cells, so "the state equals the prefix" can be
stated without numbers. Two requests of a batch that map to one slot race in the
kernel; the model lets either write win.

**PoolContract** is the abstract specification of how a client may use the pools:
extend a batch, run it any number of times, finish some requests, stash the
others before they are extended again, flush only when nothing is owned.

**PrefillAdder** is the token budget, as functions on a record that is one adder,
with the second budget that requests with `ignore_eos` are admitted by.

**DllmScheduler** is the event loop. `pc` names the stages of an iteration: input
arrives only at `recv`, as the loop is one thread. `FilterAndStash`, `Schedule`,
`RunBatch` and `ProcessResult` are each the whole handler, and `Schedule` has one
disjunct for each way `prepare_for_extend` ends. An exception sets `crash`; no
action is enabled after it. A request is a record of lengths (prompt, output,
`fill_ids`, extend length, offset), its phase and its status: token values do
not matter here, except that a mask is known by its position.

**GraphReplay** replaces the forward pass of PoolContract by the graph runner's:
pad to a captured size, copy the inputs into persistent buffers, compute slot
indices, run one program per entry. Batches that fit no captured size run eagerly.

**DenoiseContract** is what a denoising run promises: tokens it was given keep
their values, no mask is returned unless the model has predicted one, and the
last forward pass saw exactly the tokens returned, because that pass is the one
whose KV and state are committed. **JointThreshold** and **LowConfidence**
implement it for batches of requests; each forward pass predicts arbitrary
tokens and confidences. **DllmAlgorithm** is the one of the two that the server
was started with.

**BlockGenerate** is `generate` without a cache: blocks are filled one after the
other, every step runs the model on the window up to the current block. What a
layer attends to is recorded as the contributions of the earlier blocks, each
with the blocks it depends on itself. **CachedGenerate** is `generate` with
`kv_cache`: the pass runs on one block and takes the earlier ones from the cache,
a sequence of keys in softmax layers and a sum (a bag) in linear ones. Its `seen`
must be what BlockGenerate sees, which is the refinement that is checked.

**RWLock** is the asyncio reader-writer lock: counters, and the set of tasks
asleep in its condition. **TokenizerManager** is the front end. Coroutines
interleave where they are suspended, so an action is the code between two
suspensions; `pc[c]` says where call `c` waits:

| `pc` | waits at |
|---|---|
| `pause` | `is_pause_cond.wait_for` |
| `lock` | `acquire_reader` |
| `tokenize` | `_tokenize_one_request` |
| `wait` | `state.event.wait` in `_wait_one_response` |
| `close` | the response is sent, the generator not yet closed |

A call is found by its request id in `rid_to_state`, here a function from ids to
calls. Messages carry the call they were sent for, which the code does not have:
the handlers use its id only, and `heard` records which calls' messages reached
which state, so that a mix-up shows. The scheduler is reduced to where it has a
request. Its answers come over two paths, outputs through the detokenizer and
replies directly, so that they may overtake each other.

## 3. Runs

| Run | Checks | Instance | States |
|---|---|---|---|
| `scheduler_safety` | nine properties of the loop, `ImplementsContract` among them | 3 requests, one with `ignore_eos`, 2 places, 16 cells, blocks of 2 | 290 thousand |
| `scheduler_tight` | `LoopInv` and `ImplementsContract` until the loop dies | 3 requests, 2 rows, 3 admitted, 9 cells | 186 thousand |
| `scheduler_liveness` | `EveryRequestAnswered` | 3 requests, one with `ignore_eos`, 2 places, 10 cells | 100 thousand |
| `graph_replay` | the pool contract's invariants under eager and replayed passes, `ReplayImplementsContract` | 2 requests; sizes 1 and 2, or only 1, captured | 2.8 thousand, up to symmetry |
| `dllm_algorithm` | six properties of both algorithms, `KeepsContract` and `RunReturns` among them | 2 requests, blocks of 2, 2 tokens and the mask | 208 thousand |
| `cached_generate` | seven properties of the reference loop, `ImplementsGenerate` and `Returns` among them | 3 kinds of call, 1 or 2 rows, 3 layers of which one is linear | 5.9 thousand |
| `front_end` | eight properties of the front end, `CallsEnd` and `OperationsReturn` among them | 2 calls, 1 or 2 ids, one call streamed, 2 disturbances | 469 thousand |

Five more runs end in a violation; section 6 explains them. What the runs show:

- *The scheduler's loop.* A live request is in one queue, once
  (`QueuesPartitionRequests`), and is not touched after it was answered
  (`AnsweredIsFinal`). A request that was parked goes on at the end of its prefix
  (`PositionsMatchPrefix`) and in the phase that its tokens have by then
  (`PhaseIsCurrent`). No masked position is committed and no token left out
  (`OnlyKnownTokensCommitted`); output and row exceed
  `max_new_tokens` by less than a block, where 0 counts as 1
  (`OvershootWithinBlock`). With enough cells nothing raises (`NoCrash`), and the
  pools are used as PoolContract says (`ImplementsContract`), until the loop dies
  if there are too few. Every request is answered (`EveryRequestAnswered`).
- *Pools and graphs.* Rows, slots and cells have one owner or are free
  (`Ownership`). The committed state is the fold of the prefix
  (`StateMatchesPrefix`), what a stash will promote is the prefix and one block
  (`StagedStateIsRow`), and commits only append (`CommitsAppendOneBlock`). This is
  so with replayed passes too, although the row buffer keeps the rows of earlier
  batches, if every size is captured (`ReplayWritesOwnStates`,
  `ReplayImplementsContract`).
- *Denoising.* The last pass saw what is returned (`FreshOnReturn`), the iterations
  suffice (`NoMaskReturned`), edits are bounded (`EditsBounded`), both algorithms
  keep the contract (`KeepsContract`) and return whatever the model predicts
  (`RunReturns`).
- *Reference generation.* A pass with the cache attends to what a pass over the whole
  window would (`ImplementsGenerate`). The cache has one entry for each finished
  block, computed from its present tokens (`CacheIsCurrent`), and does not change
  while a block is refined (`ReadOnlyInRefinement`). Steps change only generated
  tokens of the current block (`OnlyCurrentBlockChanges`), masks are returned for the
  reasons named (`MaskReturnedOnlyIf`), and the call returns (`Returns`).
- *Front end.* A call hears only of its own request, although ids are used again
  (`OwnAnswer`), and no answer meets an unknown id (`NoKeyError`). A weight update
  excludes calls (`UpdateExclusive`). Failed flushes, aborted answers and entries
  that outlive their call have the causes named (`FlushFailureHasCause`,
  `AbortHasCause`, `StatesAccounted`). Calls, pauses and updates end (`CallsEnd`,
  `OperationsReturn`).

The type invariants of the pools, of JointThreshold and of the front end are proved
and not run separately. The strengthened invariants that the proofs rest on are run
too: `Inductive` of the pools and of JointThreshold, `LoopInv` of the scheduler in
the run with too little memory, `CachedInv` of the reference loop.

**Bounds.** Blocks of two tokens are the smallest in which a block can be partly
prompt and partly mask. Prompts of 1, 3 and 4 tokens give a request without
prefill, one whose first mask is inside a block, and one that ends on a block
boundary. `Asked` pairs them with limits of new tokens: 3, which takes more than one
block, 1, and 0, for which a block is decoded all the same, inside a block and on a
boundary. Three requests for two places make parking, fetching and reuse of rows
and slots by another request happen. With 16 cells (`scheduler_safety`) no
admission is refused and the loop never dies; with 10 cells and short outputs
(`scheduler_liveness`) admissions are refused and the loop survives; with 9 cells and
longer outputs (`scheduler_tight`) it dies in all four ways the model has. Requests of one kind
are symmetric in the safety runs; the liveness runs use no symmetry.

In `cached_generate` the calls are a prompt that ends inside its second block, with
steps enough for the limit on edits of a full block to be met, two rows that may
stop at different times, and a generation shorter than a block; three layers with a
linear one between two softmax ones are the fewest in which the keys of a layer
depend on what a linear and a softmax layer below have read.

In `front_end` two calls are enough for an id to be used again and for a
duplicate to be refused while the first is under way; one of them is streamed and
so has a background task and may be cancelled. `MaxEvents` bounds the
disconnects, aborts over the API, pauses, updates and signals of a behaviour
together: with two of them every pair meets. `MaxQueue` keeps the loop of
`pause_generation` from filling the queue with equal aborts.

**Deadlock** is not checked where the system may stop: in `scheduler_tight`, since
an exception ends the process, in two of the scheduler's violation runs, in the
graph runs, whose pool may be full of parked requests, in the denoising and
generation runs, which end when the function returns, and in the front end, which
may have been asked for nothing more.

**Fairness.** `LoopFairness` says that the scheduler's loop keeps iterating while
the process lives, which is what `while True` without a blocking call does. It is
weak fairness of the loop's steps, written out (each of them changes `pc`).
Nothing is assumed of input, of stop tokens or of timeouts. In the denoising and
generation runs the one thread keeps going. In the front end some coroutine that
can go on does so, the loop of `pause_generation` comes round again and the
scheduler reads its socket; the event loop is fair to every coroutine, which is
more than is used. An operator who has paused the server is assumed to continue
it: without that, calls wait for as long as it stays paused, as they should.

Every property has a mutant, a small operator next to the definition it replaces
(`...Never`, `...Unclipped` and so on), which changes the definition as a bug
would and makes TLC refute the property.

## 4. What is proved

TLAPS checks these for every value of the constants. Each module of proofs states
the inductive steps as lemmas, one per action, and ends in the theorems.

- **PoolContractProofs** (any number of requests, rows, slots, cells):
  `InductiveHolds`, and from it `TypeCorrect`, `OwnershipHolds`,
  `StateInStepWithKv`, `StagedStateHolds` and `CommitsAppend`. `Inductive` is
  needed because "committed state = prefix" is not inductive alone: that the
  stash restores it depends on the working state being prefix plus block once a
  batch has run, which depends on the mapping sending every row in use to its
  owner's slot, which depends on rows and slots being owned by one request and
  being disjoint from the free ones.
  The module then turns to GraphReplay. `UnpaddedReplaysImplement`: as long as no
  batch is padded, whatever the sizes captured and whatever earlier replays left in
  the buffers, a replay is a forward pass of the contract, and its programs write the
  slots of their own requests. `ReplaysImplement` and `ReplaysWriteOwnStates` add
  that no batch is padded if a graph is captured for every size. The row of a
  request that runs ends in a whole block, so its length is not the 1 that the
  backend takes for padding: that is where a block of more than one token is assumed.
  The order of a batch without padding reaches every request, so no program uses a
  row from an earlier replay. Without the assumption on the sizes both properties
  fail: that is the run `graph_padding`.
- **DllmSchedulerProofs** (any requests, prompts, limits of new tokens with 0
  among them, numbers of rows and cells, any block size; crashes included):
  `LoopTypeCorrect`, `NoRequestLost`, `NoBlockSkipped`, `PhaseHolds`,
  `NoMaskCommitted`, `OvershootBounded`,
  `AnswersAreFinal`, `LoopImplementsNamedContract` and `LoopImplementsPoolContract`.
  The invariant of the loop, `LoopInv`, and the one of the pools are inductive only
  together (`JointHolds`). The queues say who may hold a row; the pools say that the
  length of a prefix is what was stashed; and only with both is the block a request
  waits for the one behind its prefix (`Parked`), is what the admission makes of it a
  part of that block (`Admitted`), and are the tokens stored for it known ones
  (`InStep`). `OvershootBounded` adds that a request is finished by the check of a
  result alone (`FinishesInResult`), which found it below its limit and gave it a block
  at most. Since every step of the loop is a step of PoolContract, all that is
  proved of the contract holds of the loop.
  - **SchedulerStepProofs** has the actions other than `Schedule`, and the facts
    about queues, lengths of prefixes and induction that the others use, and what the
    invariant implies for rows and outputs.
  - **SchedulerRoundProofs** has the round that `Schedule` makes of the queues:
    what `ProcessStaging` and `ProcessIncoming` admit, one request after the other,
    for queues of any length, and that the cells handed out are disjoint and as many
    as asked for.
- **DllmAlgorithmProofs** (any block size, batch, edit limit; either algorithm):
  `InductiveHolds`, and from it `FreshOnReturnHolds`, `NoMaskReturnedHolds`,
  `EditsBoundedHolds` and `KeepsContractHolds`. The strengthening counts: as long
  as the model predicts no mask, after `i` passes a request that still has masks
  has at most `B - i` of them, as every pass transfers at least one, so the
  iteration cap is enough; and the staleness flag is false only if the last pass
  saw the present tokens.
- **CachedGenerateProofs** (any calls, block length, limits of steps, any pattern of
  softmax and linear layers): `CacheImplementsGenerate`, `CacheStaysCurrent`,
  `CacheReadOnly`, `NoMaskLeftBehind`, `FinishedBlocksAreFinal` and
  `GenerateTypeCorrect`, from `CachedInvHolds`. That the cache is current makes a pass
  of one block compute, layer by layer, the keys that a pass over the whole window
  computes (`ForwardResult`, by induction over the layers), so a commit keeps it
  current; that the tokens of committed blocks do not change any more keeps it so
  between commits. The masks of a block are counted against the steps (`InTime`), and
  blocks ahead are masked altogether, so no end of text hides behind a mask.
- **TokenizerManagerProofs** (any finite set of calls, any ids): `TypeCorrect` and
  `UpdateExclusiveHolds`. The readers counted are the calls between tokenization
  and closing, and a writer is active only with none of them; that a sleeping
  updater is also counted as waiting is needed for the counter not to go below
  zero. `OwnAnswerHolds` and `NoKeyErrorHolds`: a call can still be
  heard of while its request is in the queue to the scheduler, in the scheduler,
  in an output or in a refusal. The invariant says that such a call owns the
  entry under its id (`Owned`), that it is in one of those places at a time
  (`Apart`) and that nothing follows its last message (`Once`). So a new call
  with the same id is refused until nothing can be heard of the old one. Nothing
  of this depends on the bounds `MaxEvents` and `MaxQueue`. `StatesAccountedHolds`
  follows what a message, the state and the outcome of a call say in turn.
- **AnswerCauseProofs** (as above):
  - `AbortHasCauseHolds`. An abort is read by the scheduler long after it was sent,
    and by id. `AbortInv` therefore says of every abort message in the queue that each
    call it can hit has a cause: the requests the scheduler has, and those ahead of
    the message. A call that is sent behind an abort is not hit by it. Causes are
    never withdrawn, and a call with an abort in an output, a refusal or its state
    has one.
  - `FlushFailureHasCauseHolds`. `LateInv`: a call that waits still has its answer to
    come, and a call that has ended is no longer held by the scheduler unless its
    client left. `FlushInv`: of an update in the queue, every request ahead of it or
    in the scheduler belongs to a call that has ended, since the update was sent with
    nobody inside the lock; and where the lock is left out, in a paused server, no
    reader is inside.

The assumptions are the named `ASSUME`s of the modules (finite or positive sizes,
`None` and the mask outside the sets they are told apart from).

Loops over data are recursive functions. What they compute is proved by induction
over the set of the numbers for which it holds (`SetInduction`, from the
well-foundedness of the naturals), once per loop.

Only model-checked: `NoCrash`, which depends on how many cells there are, and all
liveness, which is out of the prover's reach.

## 5. Abstractions to keep in mind

- The network predicts any tokens, the mask token among them: none of the code
  excludes it. `maskPredicted` records that it did, and the promises about masks
  are made for the other behaviours.
- BlockGenerate assumes `block_length = config.block_size`, as the linear layers
  do.
- Request ids are compared as a whole. The scheduler aborts by prefix, which is
  the same for ids of one length.
- The scheduler of the front end refuses a request when it has waited too long; a
  refusal at the limit of the queue is the same with no wait.
- The server goes on accepting calls while it drains, as the code does.
- The passes of one denoising run write the same abstract working state, so
  `RunBatch` makes one pass; `PoolContract` allows any number.
- Kernel races are modelled per slot, not per head and tile.
- A released request leaves its prefix empty, since the element of `Reqs` then
  stands for a request to come.
- The numbers of the budget (`CLIP_MAX_NEW_TOKENS`, `max_prefill_tokens`) are
  scaled down with the block size.

## 6. Where code and comments disagree

| Run | Property | What happens |
|---|---|---|
| `idle_check` | `IdleMeansFree` | A parked request holds cells in an iteration in which the only candidate is refused. There is no batch, so the loop takes the server for idle and the memory check raises. |
| `block_shape` | `ExtendIsOneBlock` | A staged request is truncated to a budget below one block; the model code needs whole blocks. |
| `lost_abort` | `AbortTakesEffect` | An abort misses a request that is parked in `DllmManager.waiting_queue`. |
| `graph_padding` | `ReplayWritesOwnStates` | The runner pads sequence lengths with the block size, the backend looks for 1. Padding is not recognised and its programs write through stale rows. The deployment captures sizes with gaps (3 requests run as 4); the model scales this to 1 and 2. |
| `drain` | `DrainEnds` | A call that is refused in tokenization, or aborted before it runs, leaves its entry in `rid_to_state`: `_handle_abort_req` does not delete it, although the table at the end of `tokenizer_manager.py` says so. After SIGTERM the watchdog waits for that entry for ever, unless the health check fails or `SGL_FORCE_SHUTDOWN` is set. |

Seen and not made a run of their own:

- At a budget of zero or less `_get_dllm_remain_tokens` falls back to the dLLM
  budget (`schedule_policy.py:544`), so a staged request can be admitted that the
  KV pool cannot hold. `scheduler_tight` reaches the exception that follows.
- `is_fully_idle` does not ask for parked requests (`scheduler.py:2719`). A flush
  would free what they hold, but in the iteration that makes this possible the
  idle check already ends the process. With
  `SGLANG_ENABLE_STRICT_MEM_CHECK_DURING_IDLE` off, which is not modelled, it does
  not.
- The slot that padding is meant to be diverted to is one that
  `MambaPool` hands out (`memory_pool.py:329` reserves row 0 instead).
- A request for 0 new tokens is accepted (`sampling/sampling_params.py:138`), and the
  front end sends one itself to cache a common prefix (`tokenizer_manager.py:1314`).
  The loop looks at the limit only when a block gave output
  (`schedule_batch.py:1090`), so the request is decoded for a block, and gets a whole
  one if its prompt ends on a block boundary. `scheduler_safety` has such requests.
- `SGLANG_REQ_RUNNING_TIMEOUT` has no effect here, as it looks at
  `running_batch`, which stays empty (`scheduler.py:1192`).
- `dllm_skip_kv_cache` is set by `low_confidence.py` and read nowhere.
- The background task of a streamed call aborts by id after every end of the call
  (`tokenizer_manager.py:1478`). A duplicate that was refused because its id was
  taken therefore aborts the call it was a duplicate of, although the comment only
  speaks of disconnected clients; `AbortHasCause` states what is left.
- An update that is not paused waits for calls, not for requests. When a client
  has left, or in the iteration after a last output, the scheduler may still be
  busy, and the assertion on the cache flush fails; `FlushFailureHasCause` says
  that these are the only cases.
- `generate` with a `gen_length` below the block length has fewer steps than a block
  has masks and may return masks (`StepsSuffice`). An end of text in one row stops
  all rows, which leaves masks in the others; one mask left anywhere disables the
  early stop.

## 7. Not modelled

- Numerics: layers, Triton kernels, sampling, quantisation. Their control is a
  function of shapes; what they read and write is in HybridPool and CachedGenerate.
- The multi-block path of the backend: with one block per request and pass the
  scheduler does not produce it.
- Configuration, weight loading, adapter preparation, evaluation scripts: they run
  once, in sequence.
- Pausing in place and retracting, sessions, grammars, speculative decoding,
  disaggregation, overlap scheduling, pipeline and data parallelism, LoRA,
  multimodal input: the deployment described above uses none of them.
- Batched calls of the front end, several HTTP workers, the other ways to update
  weights, and the forced exits of the watchdog.
- Two updates at a time: in a paused server the second replaces the future that
  the first one awaits (`tokenizer_manager.py:1437`).
- The internal lock of `RWLock` and a cancellation while it is awaited: no task holds
  that lock while suspended, so `release_reader` always finds it free.
- A prompt that the scheduler itself finds too long: it is cut to one token and marked
  to be finished (`scheduler.py:1758`). The front end has refused prompts beyond the
  model's context length; the scheduler's limit may be lower, by the size of its pool.
- Scheduler and front end are separate models. The front end's scheduler allows a
  request every life that DllmScheduler gives it, seen from outside; this
  correspondence is by reading, not checked.
