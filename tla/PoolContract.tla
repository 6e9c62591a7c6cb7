---------------------------- MODULE PoolContract ----------------------------
(***************************************************************************)
(* The pools of HybridPool together with the most general client that uses *)
(* them the way a serving loop must: extend a batch, run forward passes on *)
(* it, release the requests that finished and stage the others, and stash  *)
(* a staged request before it is extended again.  Any number of requests   *)
(* may be parked (extended before, stashed, not in the batch) meanwhile.   *)
(*                                                                         *)
(* This is the abstract specification of the serving loop as the pools see *)
(* it; DllmScheduler is shown to implement it.                             *)
(***************************************************************************)
EXTENDS HybridPool

VARIABLES
  extended,   \* the requests of the batch between alloc_for_extend and its result
  forwarded,  \* has the batch had a forward pass?
  staged      \* the requests that have run and are not stashed yet

vars == <<poolVars, extended, forwarded, staged>>

Live == {r \in Reqs : row[r] # None}

Init ==
  /\ PoolInit
  /\ extended = {}
  /\ forwarded = FALSE
  /\ staged = {}

Extend(batch, newRow, newSlot, newCells) ==
  /\ batch # {}
  /\ \A r \in batch : newCells[r] # {}
  /\ AllocForExtend(batch, newRow, newSlot, newCells)
  /\ extended' = batch
  /\ UNCHANGED <<forwarded, staged>>

Forward ==
  /\ extended # {}
  /\ ForwardPass(extended)
  /\ forwarded' = TRUE
  /\ UNCHANGED <<extended, staged>>

Finish(finished) ==
  /\ extended # {}
  /\ forwarded
  /\ ReleaseKvCache(finished)
  /\ staged' = staged \cup (extended \ finished)
  /\ extended' = {}
  /\ forwarded' = FALSE

Stash(reqs) ==
  /\ reqs # {}
  /\ StashRequests(reqs)
  /\ staged' = staged \ reqs
  /\ UNCHANGED <<extended, forwarded>>

Flush ==
  /\ Live = {}
  /\ ClearPools
  /\ UNCHANGED <<extended, forwarded, staged>>

Next ==
  \/ /\ extended = {}
     /\ \E batch \in SUBSET (Reqs \ staged) :
          \E newRow \in [NeedRow(batch) -> freeRows],
             newSlot \in [NeedSlot(batch) -> freeSlots],
             newCells \in [batch -> SUBSET freeCells] :
            Extend(batch, newRow, newSlot, newCells)
  \/ Forward
  \/ \E finished \in SUBSET extended : Finish(finished)
  \/ \E reqs \in SUBSET staged : Stash(reqs)
  \/ Flush

Spec == Init /\ [][Next]_vars

-----------------------------------------------------------------------------
\* Type invariant of the pools and of the client.
TypeOK ==
  /\ row \in [Reqs -> Rows \cup {None}]
  /\ slot \in [Reqs -> Slots \cup {None}]
  /\ mambaOf \in [Rows -> SlotIds]
  /\ freeRows \in SUBSET Rows
  /\ freeSlots \in SUBSET Slots
  /\ freeCells \in SUBSET Cells
  /\ kv \in [Reqs -> Seq(SUBSET Cells)]
  /\ prefix \in [Reqs -> Seq(SUBSET Cells)]
  /\ committed \in [SlotIds -> Seq(SUBSET Cells)]
  /\ working \in [SlotIds -> Seq(SUBSET Cells)]
  /\ extended \in SUBSET Reqs
  /\ forwarded \in BOOLEAN
  /\ staged \in SUBSET Reqs

\* Rows, state slots and KV cells are each owned by one request or free, and
\* never both: no two requests share one, none that is owned can be handed out
\* again, and none is lost (HybridReqToTokenPool.alloc / free, the KV allocator).
Ownership ==
  /\ \A r, q \in Live : r # q =>
       /\ row[r] # row[q]
       /\ slot[r] # slot[q]
       /\ TokensOf(kv[r]) \cap TokensOf(kv[q]) = {}
  /\ freeRows = Rows \ {row[r] : r \in Live}
  /\ freeSlots = Slots \ {slot[r] : r \in Live}
  /\ freeCells = Cells \ UNION {TokensOf(kv[r]) : r \in Live}

\* The committed state that the kernel finds through the row of a request is
\* the fold of exactly the tokens of the request's prefix, block by block and
\* each once: the recurrent state of the hybrid layers is never out of step with
\* the KV cache of the softmax layers (stash_chunked_request), and never holds
\* anything of the slot's previous owner (MambaPool.alloc).
StateMatchesPrefix ==
  \A r \in Live : committed[StateSlot(r)] = prefix[r]

\* What stash_chunked_request will promote for a staged request is its prefix
\* with exactly its last block added.
StagedStateIsRow ==
  \A r \in staged : working[StateSlot(r)] = kv[r]

\* The inductive invariant behind the properties above: what links a request to
\* its row, its slot and its mapping entry, and what a request holds in each
\* stage of a round (parked, extended, forwarded, staged).
Inductive ==
  /\ TypeOK
  /\ \A r \in Reqs : row[r] = None => slot[r] = None /\ kv[r] = <<>> /\ prefix[r] = <<>>
  /\ \A r \in Live : slot[r] # None /\ mambaOf[row[r]] = slot[r]
  /\ Ownership
  /\ StateMatchesPrefix
  /\ staged \subseteq Live
  /\ extended \subseteq Live \ staged
  /\ \A r \in Live \ (extended \cup staged) : kv[r] = prefix[r]
  /\ \A r \in extended \cup staged :
       \E block \in SUBSET Cells : kv[r] = Append(prefix[r], block)
  /\ StagedStateIsRow
  /\ forwarded => extended # {} /\ \A r \in extended : working[StateSlot(r)] = kv[r]

CommitStep(r) ==
  \/ committed'[StateSlot(r)'] = committed[StateSlot(r)]
  \/ \E block \in SUBSET Cells :
       committed'[StateSlot(r)'] = Append(committed[StateSlot(r)], block)

\* While a request is live, a step leaves its committed state alone or appends
\* one block to it: no denoising pass, allocation or release of another request
\* rewrites it (commit=False in the backend: "never promote during forward").
CommitsAppendOneBlock ==
  [][\A r \in Reqs : row[r] # None /\ row'[r] # None => CommitStep(r)]_vars

=============================================================================
