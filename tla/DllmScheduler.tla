--------------------------- MODULE DllmScheduler ----------------------------
(***************************************************************************)
(* The serving loop of a block-diffusion model: event_loop_normal with the *)
(* dLLM mixin of the scheduler, the dLLM state of the requests, and the    *)
(* pools of HybridPool.  It is one thread; pc says where in an iteration it*)
(* is:                                                                     *)
(*    recv     process_input_requests: requests, aborts and flushes arrive *)
(*    sched    get_next_batch_to_run has filtered and stashed; the next    *)
(*             step is get_new_batch_dllm                                  *)
(*    idle     no batch: self_check_during_idle                            *)
(*    forward  a batch was prepared: run_batch                             *)
(*    result   process_batch_result_dllm                                   *)
(* An exception ends the process: crash holds the reason and no action is  *)
(* enabled any more.                                                       *)
(*                                                                         *)
(* The deployment is the one of eval/engine.py: radix cache and overlap    *)
(* schedule disabled, page size 1, no pipeline parallelism, the FCFS       *)
(* policy.  running_batch then stays empty, because every batch is excluded*)
(* from the merge, and only its batch_is_full flag is kept.                *)
(***************************************************************************)
EXTENDS HybridPool, PrefillAdder

CONSTANTS
  Asked,            \* what clients send: pairs of a prompt's length and max_new_tokens
  IgnoreEosReqs,    \* the requests sent with ignore_eos
  WaitingTimeout    \* is SGLANG_REQ_WAITING_TIMEOUT set?

ASSUME SchedulerAssumption ==
  /\ Cells \subseteq Nat /\ IsFiniteSet(Cells)
  /\ Asked \subseteq Nat \X Nat
  /\ IgnoreEosReqs \subseteq Reqs /\ WaitingTimeout \in BOOLEAN

VARIABLES
  pc,         \* where the event loop is
  crash,      \* why the process died, or "no"
  waitingQ,   \* Scheduler.waiting_queue
  dllmQ,      \* DllmManager.waiting_queue
  stagingQ,   \* DllmManager.staging_queue
  batch,      \* cur_batch and last_batch; <<>> is None
  batchFull,  \* running_batch.batch_is_full
  req,        \* the request objects
  aborted     \* the requests an abort was received for

loopVars == <<pc, crash, waitingQ, dllmQ, stagingQ, batch, batchFull, req, aborted>>
vars == <<poolVars, loopVars>>

Prefill == {"STAGING_PREFILL", "INCOMING_PREFILL"}
Staging == {"STAGING_PREFILL", "STAGING_DECODE"}
Phases == {"NONE", "STAGING_PREFILL", "STAGING_DECODE",
           "INCOMING_PREFILL", "INCOMING_DECODE"}

\* len(req.prefix_indices)
PrefixLen == [r \in Reqs |-> Cardinality(TokensOf(prefix[r]))]

NoReq == [status |-> "absent", prompt |-> 0, maxNew |-> 0, ignoreEos |-> FALSE,
          out |-> 0, fill |-> 0, ext |-> 0, offset |-> 0, phase |-> "NONE", toFinish |-> FALSE]

Init ==
  /\ PoolInit
  /\ pc = "recv"
  /\ crash = "no"
  /\ waitingQ = <<>>
  /\ dllmQ = <<>>
  /\ stagingQ = <<>>
  /\ batch = <<>>
  /\ batchFull = FALSE
  /\ req = [r \in Reqs |-> NoReq]
  /\ aborted = {}

At(label) == pc = label /\ crash = "no"

\* The requests of a queue that are in S, in their order.
Keep(queue, S) ==
  LET kept[n \in 0 .. Len(queue)] ==
        IF n = 0 THEN <<>>
        ELSE IF queue[n] \in S THEN Append(kept[n - 1], queue[n]) ELSE kept[n - 1]
  IN  kept[Len(queue)]

-----------------------------------------------------------------------------
\* process_input_requests

\* A request arrives (ReqDllmMixin.init_diffusion_llm, _add_request_to_queue).
Receive(r, prompt, maxNew) ==
  /\ At("recv")
  /\ req[r].status = "absent"
  /\ req' = [req EXCEPT ![r] =
               [NoReq EXCEPT !.status = "live", !.prompt = prompt, !.maxNew = maxNew,
                             !.ignoreEos = r \in IgnoreEosReqs,
                             !.phase = IF prompt < BlockSize
                                       THEN "INCOMING_DECODE" ELSE "INCOMING_PREFILL"]]
  /\ waitingQ' = Append(waitingQ, r)
  /\ UNCHANGED <<poolVars, pc, crash, dllmQ, stagingQ, batch, batchFull, aborted>>

\* abort_request: a request of waiting_queue is deleted and answered; one of
\* cur_batch that is not finished is marked.
Abort(r) ==
  /\ At("recv")
  /\ req[r].status = "live"
  /\ r \notin aborted
  /\ aborted' = aborted \cup {r}
  /\ waitingQ' = Keep(waitingQ, Reqs \ {r})
  /\ req' = [req EXCEPT ![r].status = IF r \in Range(waitingQ) THEN "dropped" ELSE @,
                        ![r].toFinish = @ \/ r \in Range(batch)]
  /\ UNCHANGED <<poolVars, pc, crash, dllmQ, stagingQ, batch, batchFull>>

\* Mutant of IsFullyIdle: only the queue of the scheduler is looked at.
IsIdleQueue == waitingQ = <<>>

\* is_fully_idle: no staged request, no batch and nothing in waiting_queue.
IsFullyIdle == stagingQ = <<>> /\ batch = <<>> /\ waitingQ = <<>>

\* flush_cache
FlushCache ==
  /\ At("recv")
  /\ IsFullyIdle
  /\ ClearPools
  /\ UNCHANGED loopVars

-----------------------------------------------------------------------------
Live(r) == req[r].status = "live"

\* filter_finished_reqs
FilterFinished(queue) == Keep(queue, {r \in Reqs : Live(r)})

\* Mutant of Unexpired: a request that was answered with a timeout stays queued.
UnexpiredOrAnswered(expired) == waitingQ

\* _abort_on_waiting_timeout: waiting_queue without the requests it deletes.
Unexpired(expired) == Keep(waitingQ, Reqs \ expired)

\* Mutant of FullAfterRound: the flag outlives the batch it was set for.
FullForEver == batchFull

\* batch_is_full is reset when the last batch did not stay in running_batch.
FullAfterRound == batchFull /\ batch = <<>>

\* get_next_batch_to_run up to get_new_batch_dllm: the requests that waited too
\* long are deleted, finished requests leave the queues of the manager, the
\* staged requests are stashed and the last batch is filtered.
FilterAndStash(expired) ==
  /\ At("recv")
  /\ expired \subseteq Range(waitingQ)
  /\ WaitingTimeout \/ expired = {}
  /\ waitingQ' = Unexpired(expired)
  /\ req' = [r \in Reqs |-> IF r \in expired THEN [req[r] EXCEPT !.status = "dropped"]
                                             ELSE req[r]]
  /\ dllmQ' = FilterFinished(dllmQ)
  /\ stagingQ' = FilterFinished(stagingQ)
  /\ StashRequests(Range(stagingQ'))
  /\ batchFull' = FullAfterRound
  /\ pc' = "sched"
  /\ UNCHANGED <<crash, batch, aborted>>

-----------------------------------------------------------------------------
\* get_new_batch_dllm

\* Mutant of DeterminePhase: the last block without a mask counts as a decode.
DeterminePhaseStrict(q, known, prefixLen) ==
  IF known < prefixLen THEN q.phase
  ELSE IF prefixLen + BlockSize < known THEN "STAGING_PREFILL" ELSE "STAGING_DECODE"

\* determine_dllm_phase: does the block behind the prefix hold a mask?
DeterminePhase(q, known, prefixLen) ==
  IF known < prefixLen THEN q.phase
  ELSE IF prefixLen + BlockSize <= known THEN "STAGING_PREFILL" ELSE "STAGING_DECODE"

\* Mutant of NextOffset: the offset is taken from the end of the masked block.
NextOffsetFromEnd(q) == IF q.fill = 0 THEN 0 ELSE q.prompt + q.out - 2 * BlockSize

\* The new dllm_block_offset.
NextOffset(q) == IF q.fill = 0 THEN 0 ELSE q.offset + BlockSize

\* Req.init_next_round_input without a radix cache: _init_fill_ids_for_dllm,
\* determine_dllm_phase and the new extend_input_len.
InitNextRound(q, prefixLen) ==
  LET known == q.prompt + q.out  \* tokens of fill_ids in front of the masks
  IN  [q EXCEPT !.offset = NextOffset(q),
                !.fill = known + BlockSize,
                !.phase = DeterminePhase(q, known, prefixLen),
                !.ext = known + BlockSize - prefixLen]

\* One request of process_dllm_staging_reqs.
StagingStep(st, r) ==
  IF st.res = "NO_TOKEN" THEN st ELSE AddDllmStagingReq(st.adder, r)

\* process_dllm_staging_reqs
ProcessStaging(adder, reqs) ==
  LET after[n \in 0 .. Len(reqs)] ==
        IF n = 0 THEN [adder |-> adder, res |-> "CONTINUE"]
                 ELSE StagingStep(after[n - 1], reqs[n])
  IN  after[Len(reqs)]

\* One request of process_dllm_incoming_reqs.
IncomingStep(st, r) ==
  LET isFull == st.full \/ Len(st.adder.canRun) >= NumRows
      ready == [st.adder EXCEPT !.req[r] = InitNextRound(@, st.adder.prefixLen[r])]
      added == AddOneReq(ready, r)
  IN  IF st.stop THEN st
      ELSE IF isFull THEN [st EXCEPT !.full = TRUE, !.stop = TRUE]
      ELSE [adder |-> added.adder, full |-> added.res = "NO_TOKEN",
            stop |-> added.res # "CONTINUE"]

\* process_dllm_incoming_reqs: the adder and batch_is_full.
ProcessIncoming(adder, full, reqs) ==
  LET after[n \in 0 .. Len(reqs)] ==
        IF n = 0 THEN [adder |-> adder, full |-> full, stop |-> FALSE]
                 ELSE IncomingStep(after[n - 1], reqs[n])
  IN  after[Len(reqs)]

\* _process_dllm_batches: the requests of one kind of phase, prefill first; the
\* staging ones, and when there is budget left the incoming ones.
ProcessBatches(adder, full, queue) ==
  LET InPhase(phases) == {r \in Reqs : adder.req[r].phase \in phases}
      prefill == Keep(queue, InPhase(Prefill))
      chosen == IF prefill # <<>> THEN prefill ELSE queue
      staged == ProcessStaging(adder, Keep(chosen, InPhase(Staging)))
  IN  IF staged.res # "CONTINUE"
      THEN [adder |-> staged.adder, full |-> full, stop |-> TRUE]
      ELSE ProcessIncoming(staged.adder, full, Keep(chosen, InPhase(Phases \ Staging)))

\* _should_skip_prefill; at least one request can always be allocated, as
\* running_batch is empty.
ShouldSkip == (batchFull \/ waitingQ = <<>>) /\ dllmQ = <<>>

\* Mutant of ReqsOfNextRound: parked requests are advanced too.
ReqsOfNextRoundAll ==
  [r \in Reqs |-> IF r \in Range(dllmQ) THEN InitNextRound(req[r], PrefixLen[r])
                                        ELSE req[r]]

\* DllmManager.init_next_round
ReqsOfNextRound ==
  [r \in Reqs |-> IF r \in Range(stagingQ) THEN InitNextRound(req[r], PrefixLen[r])
                                           ELSE req[r]]

\* Mutant of NumToFetch: the requests that the manager has are not counted.
NumToFetchIgnoringManager == Min({MaxRunning, Len(waitingQ)})

\* _fetch_waiting_reqs
NumToFetch == Max({0, Min({MaxRunning - Len(dllmQ), Len(waitingQ)})})

\* How many cells the first n requests of the batch get.
CellsBefore(list, ext) ==
  LET sum[n \in 0 .. Len(list)] == IF n = 0 THEN 0 ELSE sum[n - 1] + ext[list[n]]
  IN  sum

\* The free cells, lowest first, go to the requests of the batch in order
\* (alloc_token_slots, write_cache_indices).
CellsFor(list, ext) ==
  [r \in Range(list) |->
     LET before == CellsBefore(list, ext)[(CHOOSE i \in DOMAIN list : list[i] = r) - 1]
         Rank(c) == Cardinality({d \in freeCells : d < c})
     IN  {c \in freeCells : before <= Rank(c) /\ Rank(c) < before + ext[r]}]

\* No batch this time: get_new_batch_dllm returns before it touches the manager.
SkipRound ==
  /\ At("sched")
  /\ ShouldSkip
  /\ batch' = <<>>
  /\ pc' = "idle"
  /\ UNCHANGED <<poolVars, crash, waitingQ, dllmQ, stagingQ, batchFull, req, aborted>>

\* A round: the manager is brought up to date and the adder fills can_run_list;
\* when it is not empty prepare_for_extend allocates for it, or raises.
Schedule ==
  LET fetched == SubSeq(waitingQ, 1, NumToFetch)
      queue == dllmQ \o fetched
      round == ProcessBatches(NewAdder(Cardinality(freeCells), ReqsOfNextRound, PrefixLen),
                              batchFull, queue)
      list == round.adder.canRun
      reqs == Range(list)
      ext == [r \in reqs |-> round.adder.req[r].ext]
      needed == CellsBefore(list, ext)[Len(list)]
  IN  /\ At("sched")
      /\ ~ShouldSkip
      /\ waitingQ' = SubSeq(waitingQ, NumToFetch + 1, Len(waitingQ))
      /\ dllmQ' = queue
      /\ stagingQ' = list
      /\ batch' = list
      /\ batchFull' = round.full
      /\ req' = round.adder.req
      /\ \/ /\ list = <<>>
            /\ pc' = "idle"
            /\ UNCHANGED <<poolVars, crash>>
         \/ /\ list # <<>>
            /\ Cardinality(NeedRow(reqs)) <= Cardinality(freeRows)
            /\ Cardinality(NeedSlot(reqs)) <= Cardinality(freeSlots)
            /\ needed <= Cardinality(freeCells)
            /\ \E newRow \in [NeedRow(reqs) -> freeRows],
                  newSlot \in [NeedSlot(reqs) -> freeSlots] :
                 AllocForExtend(reqs, newRow, newSlot, CellsFor(list, ext))
            /\ pc' = "forward"
            /\ UNCHANGED crash
         \/ /\ \/ Cardinality(NeedRow(reqs)) > Cardinality(freeRows)
               \/ Cardinality(NeedSlot(reqs)) > Cardinality(freeSlots)
            /\ crash' = "request slots"
            /\ UNCHANGED <<poolVars, pc>>
         \/ /\ Cardinality(NeedRow(reqs)) <= Cardinality(freeRows)
            /\ Cardinality(NeedSlot(reqs)) <= Cardinality(freeSlots)
            /\ needed > Cardinality(freeCells)
            /\ crash' = "kv cells"
            /\ UNCHANGED <<poolVars, pc>>
      /\ UNCHANGED aborted

-----------------------------------------------------------------------------
\* self_check_during_idle (check_memory): everything must be free, or the check
\* raises (SGLANG_ENABLE_STRICT_MEM_CHECK_DURING_IDLE is on, as by default).
IdleCheck ==
  /\ At("idle")
  /\ IF freeCells # Cells \/ freeRows # Rows
     THEN crash' = "idle check" /\ UNCHANGED pc
     ELSE pc' = "recv" /\ UNCHANGED crash
  /\ UNCHANGED <<poolVars, waitingQ, dllmQ, stagingQ, batch, batchFull, req, aborted>>

(***************************************************************************)
(* run_batch.  ForwardBatch gives every request block_size positions, and  *)
(* the denoising algorithms view the batch as rows of block_size tokens: a *)
(* batch whose extend lengths differ from it raises.  The passes of one    *)
(* denoising run all write the same abstract state, so one stands for them.*)
(***************************************************************************)
RunBatch ==
  /\ At("forward")
  /\ IF \E r \in Range(batch) : req[r].ext # BlockSize
     THEN crash' = "block shape" /\ UNCHANGED <<poolVars, pc>>
     ELSE ForwardPass(Range(batch)) /\ pc' = "result" /\ UNCHANGED crash
  /\ UNCHANGED <<waitingQ, dllmQ, stagingQ, batch, batchFull, req, aborted>>

\* Mutant of NewTokens: the last token of the block is cut off.
NewTokensButLast(r) ==
  Max({0, req[r].fill - Max({PrefixLen[r], req[r].prompt + req[r].out}) - 1})

\* The masks of the block of r: its new tokens, as the algorithm returns them.
NewTokens(r) == Max({0, req[r].fill - Max({PrefixLen[r], req[r].prompt + req[r].out})})

\* Mutant of CheckFinished: one token more than asked for.
CheckFinishedBeyond(q, eos) ==
  IF q.toFinish \/ q.out > q.maxNew \/ eos
  THEN [q EXCEPT !.status = "finished", !.toFinish = FALSE] ELSE q

\* check_finished, where eos tells whether the new tokens hold a stop token or a stop
\* string; ignore_eos leaves the latter.
CheckFinished(q, eos) ==
  IF q.toFinish \/ q.out >= q.maxNew \/ eos
  THEN [q EXCEPT !.status = "finished", !.toFinish = FALSE] ELSE q

\* process_batch_result_dllm: a request with new tokens gets them and is checked;
\* the finished ones give back what they own.
ProcessResult(eos) ==
  LET decoded == {r \in Range(batch) : NewTokens(r) > 0}
  IN  /\ At("result")
      /\ eos \subseteq decoded
      /\ req' = [r \in Reqs |->
                   IF r \in decoded
                   THEN CheckFinished([req[r] EXCEPT !.out = @ + NewTokens(r)], r \in eos)
                   ELSE req[r]]
      /\ ReleaseKvCache({r \in decoded : req'[r].status = "finished"})
      /\ pc' = "recv"
      /\ UNCHANGED <<crash, waitingQ, dllmQ, stagingQ, batch, batchFull, aborted>>

-----------------------------------------------------------------------------
Input ==
  \/ \E r \in Reqs, ask \in Asked : Receive(r, ask[1], ask[2])
  \/ \E r \in Reqs : Abort(r)
  \/ FlushCache

LoopStep ==
  \/ \E expired \in SUBSET Reqs : FilterAndStash(expired)
  \/ SkipRound
  \/ Schedule
  \/ IdleCheck
  \/ RunBatch
  \/ \E eos \in SUBSET Reqs : ProcessResult(eos)

Next == Input \/ LoopStep

Spec == Init /\ [][Next]_vars

\* The loop never blocks: with sleep-on-idle off, as by default, an iteration
\* without input or work just ends.  This is WF_vars(LoopStep) written out: a step
\* of the loop is enabled as long as the process lives, and exactly these steps
\* change pc.
LoopFairness == <>[](crash # "no") \/ []<><<TRUE>>_pc

FairSpec == Spec /\ LoopFairness

-----------------------------------------------------------------------------
ReqType == [status : {"absent", "live", "finished", "dropped"},
            prompt : Nat, maxNew : Nat, ignoreEos : BOOLEAN,
            out : Nat, fill : Nat, ext : Nat, offset : Nat,
            phase : Phases, toFinish : BOOLEAN]

\* Type invariant of the loop's own state.
TypeOK ==
  /\ pc \in {"recv", "sched", "idle", "forward", "result"}
  /\ crash \in {"no", "request slots", "kv cells", "block shape", "idle check"}
  /\ {waitingQ, dllmQ, stagingQ, batch} \subseteq Seq(Reqs)
  /\ batchFull \in BOOLEAN
  /\ aborted \subseteq Reqs
  /\ req \in [Reqs -> ReqType]

Extended == IF pc \in {"forward", "result"} THEN Range(batch) ELSE {}
Staged == IF pc = "recv" THEN {r \in Range(stagingQ) : Live(r)} ELSE {}

Contract == INSTANCE PoolContract WITH
  extended <- Extended, forwarded <- pc = "result", staged <- Staged

\* Contract!Next with its choices named, so that TLC need not search for them.
ContractNext ==
  \/ /\ Extended = {}
     /\ Extended' \cap Staged = {}
     /\ Contract!Extend(Extended',
                        [r \in NeedRow(Extended') |-> row'[r]],
                        [r \in NeedSlot(Extended') |-> slot'[r]],
                        [r \in Extended' |-> kv'[r][Len(kv'[r])]])
  \/ Contract!Forward
  \/ Contract!Finish({r \in Extended : row'[r] = None})
  \/ Contract!Stash(Staged)
  \/ Contract!Flush

\* The loop uses the pools as PoolContract says, so it inherits what is proved
\* of that specification: every step allocates for unstashed requests only, runs
\* what it allocated, stages what it ran, stashes it before it is extended again,
\* and flushes only when no request owns anything.
ImplementsContract == Contract!Init /\ [][ContractNext]_Contract!vars

\* No exception ends the loop: the allocations of prepare_for_extend succeed, the
\* batch has the shape the model needs, and the idle check finds nothing held.
NoCrash == crash = "no"

\* A live request is in exactly one of the two waiting queues and once, the staged
\* requests are requests of the manager, and the manager holds at most
\* max_running_requests: none is lost or run twice when it moves between them.
QueuesPartitionRequests ==
  /\ IsInjective(waitingQ \o dllmQ)
  /\ {r \in Reqs : Live(r)} \subseteq Range(waitingQ \o dllmQ)
  /\ \A r \in Range(waitingQ) : Live(r) /\ row[r] = None
  /\ Range(stagingQ) \subseteq Range(dllmQ) \cup {r \in Reqs : ~Live(r)}
  /\ Len(dllmQ) <= MaxRunning

\* The number of tokens in the row of r.
StoredLen(r) == Cardinality(TokensOf(kv[r]))

\* When a batch has run, the positions its tokens were given (dllm_block_offset)
\* start at the end of the request's prefix, and its row ends with that block: a
\* request that was parked for any number of rounds has neither skipped nor
\* repeated a block.
PositionsMatchPrefix ==
  At("result") => \A r \in Range(batch) :
    /\ req[r].offset = PrefixLen[r]
    /\ StoredLen(r) = PrefixLen[r] + BlockSize

\* When a batch has run, the phase of each of its requests, computed when its last
\* round ended, is right: a prefill block has no mask and a decode block has one, so
\* a batch never mixes the two (JointThreshold.run returns no tokens at all when
\* there is no mask in the batch).
PhaseIsCurrent ==
  At("result") => \A r \in Range(batch) :
    req[r].phase \in Prefill <=> NewTokens(r) = 0

\* Between two iterations every token in the row of a live request is a prompt or
\* an output token, and a request that decodes has all of them in its row: no
\* masked position is ever committed to the KV cache or to the recurrent state,
\* and no token is left out of them.
OnlyKnownTokensCommitted ==
  pc = "recv" => \A r \in Reqs : Live(r) /\ row[r] # None =>
    LET known == req[r].prompt + req[r].out
    IN  StoredLen(r) <= known /\ (req[r].out > 0 => StoredLen(r) = known)

\* A request that goes on is below max_new_tokens, and the output of a finished one is
\* beyond it by less than a block; so is the row as soon as the batch has passed the
\* check of its shape. check_finished first looks when a block was decoded, so a request
\* for 0 tokens is treated as one for 1, and may overshoot by a whole block.
OvershootWithinBlock ==
  \A r \in Reqs :
    LET limit == Max({req[r].maxNew, 1})
    IN  /\ Live(r) =>
             /\ req[r].out < limit
             /\ pc # "forward" => StoredLen(r) < req[r].prompt + limit + BlockSize
        /\ req[r].status = "finished" => req[r].out < limit + BlockSize

-----------------------------------------------------------------------------
(* The inductive invariant behind the properties above. *)

\* len tokens are stored for q: prompt or output tokens, all of them once it decodes.
InStep(q, len) ==
  len <= q.prompt + q.out /\ (q.out > 0 => len = q.prompt + q.out)

\* What init_next_round has set behind a prefix of len tokens, as long as the request
\* is not admitted, and what the admission has made of it.
AtBlock(q, len) ==
  /\ InStep(q, len)
  /\ q.offset = len
  /\ q.phase = IF len + BlockSize <= q.prompt + q.out
               THEN "STAGING_PREFILL" ELSE "STAGING_DECODE"

Parked(q, len) ==
  AtBlock(q, len) /\ q.fill = q.prompt + q.out + BlockSize /\ q.ext = q.fill - len

Admitted(q, len) ==
  AtBlock(q, len) /\ q.ext > 0 /\ q.fill = len + q.ext

\* The queues and where the loop is: only requests of the manager hold rows, they
\* are there since they were received, and those of the batch are the staged ones.
QueueInv ==
  /\ QueuesPartitionRequests
  /\ \A r \in Reqs : row[r] # None => Live(r) /\ r \in Range(dllmQ)
  /\ \A r \in Range(dllmQ \o stagingQ) : req[r].status \in {"live", "finished"}
  /\ pc # "recv" => Range(stagingQ) \subseteq Range(dllmQ) /\ \A r \in Range(dllmQ) : Live(r)
  /\ pc \in {"forward", "result"} => batch = stagingQ /\ batch # <<>>
  /\ At("idle") => batch = <<>> /\ stagingQ = <<>>
  /\ crash # "no" => pc \in {"sched", "idle", "forward"}
  /\ pc = "recv" /\ batch = <<>> => freeRows = Rows /\ stagingQ = <<>>

\* A live request: before its first round it has neither a block nor a row; behind
\* the staged requests every one waits at the block that follows its prefix.
RequestInv(r) ==
  LET q == req[r]
      len == PrefixLen[r]
  IN  /\ q.out = 0 \/ q.out < q.maxNew
      /\ len <= q.prompt + q.out
      /\ row[r] = None => q.out = 0
      /\ q.phase \notin Staging => q.fill = 0 /\ row[r] = None
      /\ r \in Range(waitingQ) => q.phase \notin Staging
      /\ r \notin Range(stagingQ) /\ q.phase \in Staging => Parked(q, len)

\* A staged request, from its admission to its next round.
StagedInv(r) ==
  LET q == req[r]
  IN  /\ row[r] # None
      /\ q.phase \in Staging /\ q.fill > 0
      /\ pc = "recv" => InStep(q, StoredLen(r)) /\ StoredLen(r) = q.offset + BlockSize
      /\ pc = "sched" => InStep(q, PrefixLen[r]) /\ PrefixLen[r] = q.offset + BlockSize
      /\ pc \in {"forward", "result"} =>
           Admitted(q, PrefixLen[r]) /\ StoredLen(r) = PrefixLen[r] + q.ext
      /\ pc = "result" => q.ext = BlockSize

\* At every step of event_loop_normal the queues of the scheduler and of the dLLM
\* manager hold each live request once; a parked request is at the block that follows
\* its prefix (init_next_round_input), and a staged one has exactly the tokens of its
\* prefix and of the block it was admitted for in its row, which are prompt or output
\* tokens when the round is over. With the invariant of PoolContract this is inductive.
LoopInv ==
  /\ TypeOK
  /\ QueueInv
  /\ \A r \in Reqs : Live(r) => RequestInv(r)
  /\ crash = "no" => \A r \in Range(stagingQ) : Live(r) => StagedInv(r)

-----------------------------------------------------------------------------
\* A request that finished or was dropped is never touched again: it is not run
\* in a later batch and gets no more output.
AnsweredIsFinal ==
  [][\A r \in Reqs : req[r].status \in {"finished", "dropped"} => req'[r] = req[r]]_vars

\* Every request that arrives is answered, whatever arrives, is aborted or flushed
\* meanwhile: neither the prefill-first rule, nor a full batch, nor a rejected
\* admission leaves one behind for ever.
EveryRequestAnswered ==
  \A r \in Reqs : Live(r) ~> req[r].status \in {"finished", "dropped"}

-----------------------------------------------------------------------------
\* What comments and messages of the code say of the loop, and the loop does not do
\* when the KV pool is short or a request is parked.

\* "When the server is idle, do self-check" (scheduler.py): an iteration without a
\* batch finds every row and every KV cell free.
IdleMeansFree == At("idle") => freeCells = Cells /\ freeRows = Rows

\* "extend_seq_lens == block_size" for every request (llada_fast_backend.py).
ExtendIsOneBlock == At("forward") => \A r \in Range(batch) : req[r].ext = BlockSize

\* An aborted request was deleted or marked (scheduler.py, "Delete requests in the
\* waiting queue", "Delete requests in the running batch").
AbortTakesEffect == \A r \in aborted : ~Live(r) \/ req[r].toFinish

=============================================================================
