----------------------------- MODULE HybridPool -----------------------------
(***************************************************************************)
(* The memory pools behind a block-diffusion request of the hybrid model,  *)
(* and the operations the scheduler and the attention backend run on them: *)
(*                                                                         *)
(*   - ReqToTokenPool: a request owns one row of the token table;          *)
(*   - the KV allocator: every token of a row is stored in a KV cell;      *)
(*   - MambaPool: a request owns one slot with a committed and a working   *)
(*     copy of the recurrent state (S, Z) of the hybrid layers;            *)
(*   - HybridReqToTokenPool: the kernels find the slot of a request through*)
(*     the row (req_index_to_mamba_index_mapping), not through the request.*)
(*                                                                         *)
(* A token is named by the KV cell that stores it.  A recurrent state is   *)
(* the sequence of the blocks (sets of tokens) that were folded into it,   *)
(* and so is the content of a row: one element for each extend.  The order *)
(* of the free lists is abstracted: an allocation takes any free elements. *)
(***************************************************************************)
EXTENDS Integers, Sequences

CONSTANTS
  Reqs,      \* the request objects
  NumRows,   \* req_to_token_pool.size
  NumSlots,  \* mamba_pool.size; slot 0 is the extra, padded slot
  Cells      \* the cells of the KV pool

ASSUME PoolAssumption == NumRows \in Nat /\ NumSlots \in Nat

VARIABLES
  row,        \* req.req_pool_idx, or None
  slot,       \* req.mamba_pool_idx, or None
  mambaOf,    \* req_index_to_mamba_index_mapping
  freeRows,   \* ReqToTokenPool.free_slots
  freeSlots,  \* MambaPool.free_slots
  freeCells,  \* the free cells of the KV allocator
  kv,         \* the first kv_committed_len entries of the request's row
  prefix,     \* req.prefix_indices
  committed,  \* temporal[slot, 0] and conv[0][slot]
  working     \* temporal[slot, 1] and conv[1][slot]

poolVars == <<row, slot, mambaOf, freeRows, freeSlots, freeCells,
              kv, prefix, committed, working>>

None == -1
Rows == 0 .. NumRows - 1
Slots == 1 .. NumSlots
SlotIds == 0 .. NumSlots

\* The tokens of a row, of a prefix or of a recurrent state.
TokensOf(blocks) == UNION {blocks[i] : i \in DOMAIN blocks}

Injective(f) == \A x, y \in DOMAIN f : f[x] = f[y] => x = y

PoolInit ==
  /\ row = [r \in Reqs |-> None]
  /\ slot = [r \in Reqs |-> None]
  /\ mambaOf = [i \in Rows |-> 0]
  /\ freeRows = Rows
  /\ freeSlots = Slots
  /\ freeCells = Cells
  /\ kv = [r \in Reqs |-> <<>>]
  /\ prefix = [r \in Reqs |-> <<>>]
  /\ committed = [s \in SlotIds |-> <<>>]
  /\ working = [s \in SlotIds |-> <<>>]

-----------------------------------------------------------------------------
(***************************************************************************)
(* alloc_for_extend for the requests of a batch.  A request that has a row *)
(* and a slot keeps them; the others get free ones, and a slot is zeroed,  *)
(* both copies, when it is handed out.  The mapping is rewritten for every *)
(* row of the batch.  The cells of the new tokens are written to the row   *)
(* behind the prefix of the request.                                       *)
(***************************************************************************)
NeedRow(batch) == {r \in batch : row[r] = None}

\* Mutant of NeedSlot: a request that has a slot is given another one.
NeedSlotAlways(batch) == batch

NeedSlot(batch) == {r \in batch : slot[r] = None}

\* Mutant of Zeroed: a slot is handed out as its last owner left it.
ZeroedNever(states, newSlot) == states

\* MambaPool.alloc clears the slots it hands out.
Zeroed(states, newSlot) ==
  [s \in SlotIds |-> IF \E r \in DOMAIN newSlot : newSlot[r] = s THEN <<>> ELSE states[s]]

AllocForExtend(batch, newRow, newSlot, newCells) ==
  /\ newRow \in [NeedRow(batch) -> freeRows] /\ Injective(newRow)
  /\ newSlot \in [NeedSlot(batch) -> freeSlots] /\ Injective(newSlot)
  /\ newCells \in [batch -> SUBSET freeCells]
  /\ \A r, q \in batch : r # q => newCells[r] \cap newCells[q] = {}
  /\ row' = [r \in Reqs |-> IF r \in NeedRow(batch) THEN newRow[r] ELSE row[r]]
  /\ slot' = [r \in Reqs |-> IF r \in NeedSlot(batch) THEN newSlot[r] ELSE slot[r]]
  /\ freeRows' = freeRows \ {newRow[r] : r \in NeedRow(batch)}
  /\ freeSlots' = freeSlots \ {newSlot[r] : r \in NeedSlot(batch)}
  /\ freeCells' = freeCells \ UNION {newCells[r] : r \in batch}
  /\ mambaOf' = [i \in Rows |->
                   IF \E r \in batch : row'[r] = i
                   THEN slot'[CHOOSE r \in batch : row'[r] = i]
                   ELSE mambaOf[i]]
  /\ kv' = [r \in Reqs |->
              IF r \in batch THEN Append(prefix[r], newCells[r]) ELSE kv[r]]
  /\ committed' = Zeroed(committed, newSlot)
  /\ working' = Zeroed(working, newSlot)
  /\ UNCHANGED prefix

(***************************************************************************)
(* One forward pass.  The hybrid kernel reads the committed state of the   *)
(* slot its row maps to and writes committed + current block to the working*)
(* state.  When two requests of the batch map to one slot the kernel's     *)
(* programs race and either write may be the one that stays.               *)
(***************************************************************************)
StateSlot(r) == mambaOf[row[r]]

CurrentBlock(r) == kv[r][Len(kv[r])]

\* Mutant of Folded: the passes of one denoising run add up.
FoldedIntoWorking(s, block) == Append(working[s], block)

\* What the kernel writes to the working state of slot s.
Folded(s, block) == Append(committed[s], block)

ForwardPass(batch) ==
  /\ \E writer \in [{StateSlot(r) : r \in batch} -> batch] :
       /\ \A s \in DOMAIN writer : StateSlot(writer[s]) = s
       /\ working' = [s \in SlotIds |->
                        IF s \in DOMAIN writer
                        THEN Folded(s, CurrentBlock(writer[s]))
                        ELSE working[s]]
  /\ UNCHANGED <<row, slot, mambaOf, freeRows, freeSlots, freeCells,
                 kv, prefix, committed>>

\* Mutant of Promoted: a stash keeps the committed state.
PromotedNever(s) == committed[s]

Promoted(s) == working[s]

(***************************************************************************)
(* stash_chunked_request for each request of a set: the row becomes the    *)
(* prefix of the next round, and the working state is promoted.            *)
(***************************************************************************)
StashRequests(reqs) ==
  /\ prefix' = [r \in Reqs |-> IF r \in reqs THEN kv[r] ELSE prefix[r]]
  /\ committed' = [s \in SlotIds |->
                     IF \E r \in reqs : StateSlot(r) = s
                     THEN Promoted(s) ELSE committed[s]]
  /\ UNCHANGED <<row, slot, mambaOf, freeRows, freeSlots, freeCells, kv, working>>

\* Mutant of CellsOf: only the cells of the prefix are freed.
CellsOfPrefix(reqs) == UNION {TokensOf(prefix[r]) : r \in reqs}

CellsOf(reqs) == UNION {TokensOf(kv[r]) : r \in reqs}
SlotsOf(reqs) == {slot[r] : r \in reqs}

(***************************************************************************)
(* release_kv_cache for each request of a set.  The mapping and the states *)
(* are left as they are.  The prefix is emptied because the element of Reqs*)
(* then stands for a request that is yet to come.                          *)
(***************************************************************************)
ReleaseKvCache(reqs) ==
  /\ freeCells' = freeCells \cup CellsOf(reqs)
  /\ freeSlots' = freeSlots \cup SlotsOf(reqs)
  /\ freeRows' = freeRows \cup {row[r] : r \in reqs}
  /\ slot' = [r \in Reqs |-> IF r \in reqs THEN None ELSE slot[r]]
  /\ row' = [r \in Reqs |-> IF r \in reqs THEN None ELSE row[r]]
  /\ kv' = [r \in Reqs |-> IF r \in reqs THEN <<>> ELSE kv[r]]
  /\ prefix' = [r \in Reqs |-> IF r \in reqs THEN <<>> ELSE prefix[r]]
  /\ UNCHANGED <<mambaOf, committed, working>>

(***************************************************************************)
(* flush_cache: the pools and the mapping return to their initial content, *)
(* whoever owns a row.                                                     *)
(***************************************************************************)
ClearPools ==
  /\ freeRows' = Rows
  /\ freeSlots' = Slots
  /\ freeCells' = Cells
  /\ mambaOf' = [i \in Rows |-> 0]
  /\ UNCHANGED <<row, slot, kv, prefix, committed, working>>

=============================================================================
