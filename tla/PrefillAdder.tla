---------------------------- MODULE PrefillAdder ----------------------------
(***************************************************************************)
(* The token budget that decides which requests join a batch: PrefillAdder *)
(* as the dLLM scheduler uses it, with page size 1 (radix cache disabled), *)
(* no mixed decode tokens and no prefill delayer.                          *)
(*                                                                         *)
(* An adder is a record:                                                   *)
(*   avail       token_to_kv_pool_allocator.available_size()               *)
(*   offTotal    rem_total_token_offset                                    *)
(*   offCur      cur_rem_token_offset                                      *)
(*   remInput    rem_input_tokens                                          *)
(*   remDllm     rem_dllm_tokens                                           *)
(*   canRun      can_run_list                                              *)
(*   states      req_states, or None                                       *)
(*   req         the request objects: functions of the request             *)
(*   prefixLen   the lengths of their prefix_indices                       *)
(* Of a request it reads ext (extend_input_len), prompt and out (the       *)
(* lengths of origin_input_ids and output_ids), maxNew (max_new_tokens) and*)
(* ignoreEos, and sets ext and fill (the length of fill_ids) when it admits*)
(* the request.                                                            *)
(***************************************************************************)
EXTENDS Integers, Sequences, FiniteSetsExt, TLC

CONSTANTS
  BlockSize,        \* dllm_config.block_size
  MaxRunning,       \* dllm_config.max_running_requests
  ClipMaxNew,       \* CLIP_MAX_NEW_TOKENS
  MaxPrefillTokens, \* max_prefill_tokens
  NewTokenRatio     \* new_token_ratio, in hundredths

ASSUME AdderAssumption ==
  /\ BlockSize \in Nat \ {0}
  /\ MaxRunning \in Nat \ {0}
  /\ ClipMaxNew \in Nat
  /\ MaxPrefillTokens \in Nat \ {0}
  /\ NewTokenRatio \in 0 .. 100

PageSize == 1
NoStates == <<[left |-> 0, occupied |-> 0]>>  \* None; a real state has left > 0

NewAdder(avail, req, prefixLen) ==
  [avail |-> avail, offTotal |-> 0, offCur |-> 0,
   remInput |-> MaxPrefillTokens, remDllm |-> MaxRunning * BlockSize,
   canRun |-> <<>>, states |-> NoStates, req |-> req, prefixLen |-> prefixLen]

RemTotalTokens(a) == a.avail - a.offTotal
CurRemTokens(a) == a.avail - a.offCur

\* budget_state
BudgetState(a) ==
  IF RemTotalTokens(a) <= 0 \/ CurRemTokens(a) <= 0 THEN "NO_TOKEN"
  ELSE IF a.remInput <= 0 \/ a.remDllm <= 0 THEN "OTHER"
  ELSE "CONTINUE"

\* Appends r to can_run_list with ext input tokens behind a prefix and charges the
\* budget (_update_prefill_budget).
Charge(a, r, prefixLen, ext, maxNewTokens) ==
  [a EXCEPT !.canRun = Append(@, r),
            !.req[r].ext = ext,
            !.req[r].fill = prefixLen + ext,
            !.offTotal = @ + ext + maxNewTokens + PageSize,
            !.offCur = @ + ext + PageSize,
            !.remInput = @ - ext,
            !.remDllm = @ - ext]

\* Mutant of GetDllmRemainTokens: a request may take more than one block.
GetDllmRemainTokensUnclipped(a) ==
  LET rem == Min({a.remDllm, RemTotalTokens(a)})
  IN  IF rem <= 0 THEN a.remDllm ELSE rem

\* _get_dllm_remain_tokens
GetDllmRemainTokens(a) ==
  LET rem == Min({a.remDllm, BlockSize, RemTotalTokens(a)})
  IN  IF rem <= 0 THEN a.remDllm ELSE rem

\* add_dllm_staging_req: the new adder and the result.
AddDllmStagingReq(a, r) ==
  LET rem == GetDllmRemainTokens(a)
      q == a.req[r]
      added == Charge(a, r, a.prefixLen[r], Min({q.ext, rem}),
                      IF q.ext > rem THEN 0 ELSE Min({q.maxNew, ClipMaxNew}))
  IN  IF rem <= 0 THEN [adder |-> a, res |-> "NO_TOKEN"]
      ELSE [adder |-> added,
            res |-> IF GetDllmRemainTokens(added) <= 0 THEN "NO_TOKEN" ELSE "CONTINUE"]

\* _add_dllm_req: a request is truncated to one block.
AddDllmReq(a, r, prefixLen) == Charge(a, r, prefixLen, Min({a.remDllm, BlockSize}), 0)

-----------------------------------------------------------------------------
(***************************************************************************)
(* add_one_req_ignore_eos: requests that ignore the end of text run to     *)
(* their max_new_tokens, so the adder plays the future through: the        *)
(* requests of the batch end in the order of the tokens they have left, and*)
(* each time there must be cells for what the others have generated by     *)
(* then.  left is in hundredths of a token.                                *)
(***************************************************************************)
ReqState(q) ==
  [left |-> q.maxNew * (IF q.ignoreEos THEN 100 ELSE NewTokenRatio) - 100 * q.out,
   occupied |-> q.prompt + q.out]

\* add_req_state with insert_sort: in front of the first state with as many tokens
\* left, or of the last one.
InsertSorted(states, st) ==
  LET later == {i \in DOMAIN states : st.left <= states[i].left}
      pos == IF later = {} THEN Len(states) ELSE Min(later)
  IN  IF states = <<>> THEN <<st>>
      ELSE SubSeq(states, 1, pos - 1) \o <<st>> \o SubSeq(states, pos, Len(states))

\* req_states with request r added.
StatesWith(a, r) ==
  LET Left(st) == st.left > 0
      all == SelectSeq([i \in 1 .. Len(a.canRun) + 1 |->
                          ReqState(a.req[(<<r>> \o a.canRun)[i]])], Left)
  IN  IF a.states = NoStates THEN SortSeq(all, LAMBDA s, t : s.left <= t.left)
      ELSE IF ReqState(a.req[r]).left > 0 THEN InsertSorted(a.states, ReqState(a.req[r]))
      ELSE a.states

IgnoreEosReserveTokens == 1

\* Do the cells run out before the last request of states ends?
RunsOut(states, curRem) ==
  \E i \in DOMAIN states :
    LET freed == FoldFunction(+, 0, [j \in 1 .. i - 1 |-> states[j].occupied])
        bs == Len(states) - i + 1
    IN  100 * (curRem + freed) - states[i].left * bs <= 100 * IgnoreEosReserveTokens * bs

AddOneReqIgnoreEos(a, r) ==
  LET ext == a.req[r].ext
      counted == [a EXCEPT !.states = StatesWith(a, r)]
      added == AddDllmReq(counted, r, 0)
  IN  IF ext > Min({CurRemTokens(a), RemTotalTokens(a)})
      THEN [adder |-> a, res |-> "NO_TOKEN"]
      ELSE IF RunsOut(counted.states, CurRemTokens(a) - ext)
      THEN [adder |-> counted, res |-> "NO_TOKEN"]
      ELSE IF a.remDllm <= 0 THEN [adder |-> counted, res |-> "OTHER"]
      ELSE [adder |-> added, res |-> BudgetState(added)]

\* add_one_req; without a radix cache a request that ignores the end of text is
\* admitted by the other budget (ChunkCache.disable).
AddOneReq(a, r) ==
  LET q == a.req[r]
      totalTokens == q.ext + Min({Max({q.maxNew - q.out, 0}), ClipMaxNew})
      added == AddDllmReq(a, r, a.prefixLen[r])
  IN  IF q.ignoreEos THEN AddOneReqIgnoreEos(a, r)
      ELSE IF totalTokens >= RemTotalTokens(a) THEN [adder |-> a, res |-> "NO_TOKEN"]
      ELSE IF \/ q.ext >= a.remInput /\ a.canRun # <<>>
              \/ a.remDllm <= 0
           THEN [adder |-> a, res |-> "OTHER"]
      ELSE [adder |-> added, res |-> BudgetState(added)]

=============================================================================
