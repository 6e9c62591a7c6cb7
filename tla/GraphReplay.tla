---------------------------- MODULE GraphReplay -----------------------------
(***************************************************************************)
(* PoolContract with its forward pass replayed from a CUDA graph: the batch*)
(* is padded to a captured batch size, its rows are copied to a buffer that*)
(* lives as long as the process, and the hybrid backend turns the buffer   *)
(* into the state slots that the kernel's programs write, one program for  *)
(* each entry, padding included.                                           *)
(***************************************************************************)
EXTENDS PoolContract, FiniteSetsExt

CONSTANTS
  CaptureSizes,  \* the choices of batch sizes to capture
  BlockSize      \* dllm_config.block_size

ASSUME GraphAssumption ==
  /\ CaptureSizes \subseteq (SUBSET (1 .. NumRows)) \ {{}}
  /\ IsFiniteSet(Cells)
  /\ BlockSize \in Nat \ {0}

VARIABLES
  captureBs,  \* CudaGraphRunner.capture_bs, fixed when the server starts
  bufRow      \* DecodeInputBuffers.req_pool_indices

gvars == <<vars, captureBs, bufRow>>

MaxBs == Max(captureBs)

GInit ==
  /\ Init
  /\ captureBs \in CaptureSizes
  /\ bufRow = [i \in 1 .. MaxBs |-> 0]

\* seq_len_fill_value of the runner, for a diffusion model.
RunnerFillValue == BlockSize

\* get_cuda_graph_seq_len_fill_value of the hybrid backend.
BackendFillValue == 1

\* _pad_state_slot: the last row of the state tensor, which has one row more than
\* the pool has slots.
PadStateSlot == NumSlots

\* replay_prepare: the captured size for a batch.
PaddedBs(rawBs) == Min({bs \in captureBs : rawBs <= bs})

\* Mutant of PopulatedRows: the row of the last request is not copied.
PopulatedRowsButLast(order) ==
  [i \in 1 .. MaxBs |-> IF i < Len(order) THEN row[order[i]] ELSE bufRow[i]]

\* populate_from_forward_batch: the rows behind the batch stay as they were, the
\* sequence lengths behind it are filled.
PopulatedRows(order) ==
  [i \in 1 .. MaxBs |-> IF i <= Len(order) THEN row[order[i]] ELSE bufRow[i]]

PopulatedLens(order) ==
  [i \in 1 .. MaxBs |-> IF i <= Len(order)
                        THEN Cardinality(TokensOf(kv[order[i]])) ELSE RunnerFillValue]

\* Mutant of StateSlots: the last request is taken for padding.
StateSlotsShifted(bs, rows, lens) ==
  LET numPad == Cardinality({i \in 1 .. bs : lens[i] = BackendFillValue})
  IN  [i \in 1 .. bs |-> IF i >= bs - numPad THEN PadStateSlot ELSE mambaOf[rows[i]]]

\* init_forward_metadata_replay_cuda_graph, _build_cuda_graph_metadata: the slot of
\* each of the bs programs.
StateSlots(bs, rows, lens) ==
  LET numPad == Cardinality({i \in 1 .. bs : lens[i] = BackendFillValue})
  IN  [i \in 1 .. bs |-> IF i > bs - numPad THEN PadStateSlot ELSE mambaOf[rows[i]]]

\* One replay for the batch in the given order.  A padding program folds a block of
\* no request, {}; of the programs that write one slot any may be the last.
Replay(order) ==
  LET bs == PaddedBs(Len(order))
      rows == PopulatedRows(order)
      slots == StateSlots(bs, rows, PopulatedLens(order))
      BlockOf(i) == IF i <= Len(order) THEN CurrentBlock(order[i]) ELSE {}
  IN  /\ \E writer \in [{slots[i] : i \in 1 .. bs} -> 1 .. bs] :
           /\ \A s \in DOMAIN writer : slots[writer[s]] = s
           /\ working' = [s \in SlotIds |->
                            IF s \in DOMAIN writer
                            THEN Folded(s, BlockOf(writer[s]))
                            ELSE working[s]]
      /\ bufRow' = rows
      /\ forwarded' = TRUE
      /\ UNCHANGED <<row, slot, mambaOf, freeRows, freeSlots, freeCells,
                     kv, prefix, committed, extended, staged, captureBs>>

\* Batches the runner cannot replay (can_run) go through the eager pass.
EagerForward ==
  /\ Cardinality(extended) > MaxBs
  /\ Forward
  /\ UNCHANGED <<captureBs, bufRow>>

GraphForward ==
  /\ extended # {}
  /\ Cardinality(extended) <= MaxBs
  /\ \E order \in [1 .. Cardinality(extended) -> extended] :
       Injective(order) /\ Replay(order)

GNext ==
  \/ /\ extended = {}
     /\ \E batch \in SUBSET (Reqs \ staged) :
          \E newRow \in [NeedRow(batch) -> freeRows],
             newSlot \in [NeedSlot(batch) -> freeSlots],
             newCells \in [batch -> kSubset(BlockSize, freeCells)] :
            Extend(batch, newRow, newSlot, newCells)
     /\ UNCHANGED <<captureBs, bufRow>>
  \/ EagerForward
  \/ GraphForward
  \/ \E finished \in SUBSET extended : Finish(finished) /\ UNCHANGED <<captureBs, bufRow>>
  \/ Stash(staged) /\ UNCHANGED <<captureBs, bufRow>>
  \/ Flush /\ UNCHANGED <<captureBs, bufRow>>

GSpec == GInit /\ [][GNext]_gvars

-----------------------------------------------------------------------------
\* After a replay every request of the batch finds its row's tokens, each folded
\* once, in the working state of its slot: the programs of the padding, pointed at
\* a scratch slot, "cannot corrupt a real request's state" (llada_fast_backend.py).
ReplayWritesOwnStates ==
  forwarded => \A r \in extended : working[StateSlot(r)] = kv[r]

\* Replays keep the contract of the pools: nothing but the working states of the
\* batch's own slots changes, whatever an earlier, larger batch left in the buffer,
\* so replayed and eager passes can be mixed freely (CudaGraphRunner.replay).
ReplayImplementsContract == Spec

=============================================================================
