------------------------- MODULE PoolContractProofs -------------------------
(***************************************************************************)
(* Proofs about PoolContract for every number of requests, rows, slots and *)
(* KV cells: Inductive is an inductive invariant, and the ownership of the *)
(* pools and the agreement of the recurrent state with the KV prefix       *)
(* follow from it.  Then GraphReplay: a server that replays its forward    *)
(* passes from CUDA graphs implements PoolContract as long as it does not  *)
(* pad a batch.                                                            *)
(***************************************************************************)
EXTENDS GraphReplay, FiniteSetTheorems, TLAPS

-----------------------------------------------------------------------------
(* Blocks appended to a row or to a state. *)

\* An empty row or state holds no token.
LEMMA TokensOfEmpty == TokensOf(<<>>) = {}
  BY DEF TokensOf

\* The last block of a row is the one the last extend appended.
LEMMA LastOfAppend ==
  ASSUME NEW S, NEW s \in Seq(S), NEW e \in S
  PROVE  /\ Append(s, e) \in Seq(S)
         /\ Append(s, e)[Len(Append(s, e))] = e
  OBVIOUS

\* Appending a block adds its tokens and no other.
LEMMA TokensOfAppend ==
  ASSUME NEW S, NEW s \in Seq(SUBSET S), NEW e \in SUBSET S
  PROVE  TokensOf(Append(s, e)) = TokensOf(s) \cup e
  <1> DEFINE a == Append(s, e)
  <1>1. DOMAIN a = 1 .. Len(s) + 1 /\ DOMAIN s = 1 .. Len(s) /\ Len(s) \in Nat
    OBVIOUS
  <1>2. a[Len(s) + 1] = e /\ \A i \in 1 .. Len(s) : a[i] = s[i]
    OBVIOUS
  <1>3. ASSUME NEW t \in TokensOf(a) PROVE t \in TokensOf(s) \cup e
    BY <1>1, <1>2, <1>3 DEF TokensOf
  <1>4. ASSUME NEW t \in TokensOf(s) PROVE t \in TokensOf(a)
    <2>1. PICK i \in 1 .. Len(s) : t \in s[i]
      BY <1>1, <1>4 DEF TokensOf
    <2>2. i \in DOMAIN a /\ a[i] = s[i]
      BY <1>1, <1>2
    <2> QED
      BY <2>1, <2>2 DEF TokensOf
  <1>5. ASSUME NEW t \in e PROVE t \in TokensOf(a)
    <2>1. Len(s) + 1 \in DOMAIN a
      BY <1>1
    <2> QED
      BY <1>2, <1>5, <2>1 DEF TokensOf
  <1> QED
    BY <1>3, <1>4, <1>5

\* The tokens of a row are cells of the pool.
LEMMA TokensOfType ==
  ASSUME NEW S, NEW s \in Seq(SUBSET S)
  PROVE  TokensOf(s) \subseteq S
  BY DEF TokensOf

-----------------------------------------------------------------------------
(* Inductive is an invariant. *)

\* Before the first request the pools are free and all states are empty.
LEMMA InitInductive == Init => Inductive
  <1> SUFFICES ASSUME Init PROVE Inductive
    OBVIOUS
  <1> USE DEF Init, PoolInit
  <1>1. TypeOK
    <2>1. <<>> \in Seq(SUBSET Cells)
      OBVIOUS
    <2>2. 0 \in SlotIds
      BY PoolAssumption DEF SlotIds
    <2> QED
      BY Zenon, <2>1, <2>2 DEF TypeOK
  <1>2. Live = {}
    BY DEF Live
  <1>3. Ownership
    BY <1>2 DEF Ownership
  <1> QED
    BY <1>1, <1>2, <1>3 DEF Inductive, StateMatchesPrefix, StagedStateIsRow

\* A forward pass writes the working states of its batch and nothing else, and
\* each of them becomes the row of the request: one writer for each slot.
LEMMA ForwardInductive == Inductive /\ Forward => Inductive'
  <1> SUFFICES ASSUME Inductive, Forward PROVE Inductive'
    OBVIOUS
  <1>1. PICK writer \in [{StateSlot(r) : r \in extended} -> extended] :
          /\ \A s \in DOMAIN writer : StateSlot(writer[s]) = s
          /\ working' = [s \in SlotIds |->
                           IF s \in DOMAIN writer
                           THEN Append(committed[s], CurrentBlock(writer[s]))
                           ELSE working[s]]
    BY Zenon DEF Forward, ForwardPass, Folded
  <1>2. /\ UNCHANGED <<row, slot, mambaOf, freeRows, freeSlots, freeCells, kv,
                       prefix, committed, extended, staged>>
        /\ forwarded' = TRUE
    BY DEF Forward, ForwardPass, Folded
  <1>3. /\ Live' = Live
        /\ \A r \in Reqs : StateSlot(r)' = StateSlot(r)
    BY <1>2 DEF Live, StateSlot
  <1>4. \A r, q \in Live : StateSlot(r) \in Slots /\ (StateSlot(r) = StateSlot(q) => r = q)
    BY DEF Inductive, TypeOK, Ownership, StateSlot, Live
  <1>5. ASSUME NEW r \in extended PROVE working'[StateSlot(r)] = kv[r]
    <2>1. r \in Live /\ StateSlot(r) \in SlotIds
      BY <1>4 DEF Inductive, Slots, SlotIds
    <2>2. writer[StateSlot(r)] = r
      BY <1>1, <1>4, <2>1 DEF Inductive
    <2>3. PICK block \in SUBSET Cells : kv[r] = Append(prefix[r], block)
      BY Zenon, <1>5 DEF Inductive
    <2>4. prefix[r] \in Seq(SUBSET Cells)
      BY <2>1 DEF Inductive, TypeOK, Live
    <2>5. CurrentBlock(r) = block
      BY <2>3, <2>4, LastOfAppend DEF CurrentBlock
    <2>6. committed[StateSlot(r)] = prefix[r]
      BY <2>1 DEF Inductive, StateMatchesPrefix
    <2> QED
      BY <1>1, <1>5, <2>1, <2>2, <2>3, <2>5, <2>6
  <1>6. ASSUME NEW r \in staged PROVE working'[StateSlot(r)] = kv[r]
    <2>1. r \in Live /\ r \notin extended /\ StateSlot(r) \in SlotIds
      BY <1>4 DEF Inductive, Slots, SlotIds
    <2>2. StateSlot(r) \notin DOMAIN writer
      BY <1>1, <1>4, <2>1 DEF Inductive
    <2> QED
      BY <1>1, <1>6, <2>1, <2>2 DEF Inductive, StagedStateIsRow
  <1>7. TypeOK'
    <2>1. ASSUME NEW s \in SlotIds PROVE working'[s] \in Seq(SUBSET Cells)
      <3>1. CASE s \in DOMAIN writer
        <4>1. PICK r \in extended : s = StateSlot(r)
          BY <1>1, <3>1
        <4>2. kv[r] \in Seq(SUBSET Cells)
          BY <4>1 DEF Inductive, TypeOK
        <4> QED
          BY <1>5, <4>1, <4>2
      <3>2. CASE s \notin DOMAIN writer
        BY <1>1, <3>2 DEF Inductive, TypeOK
      <3> QED
        BY <3>1, <3>2
    <2>2. working' \in [SlotIds -> Seq(SUBSET Cells)]
      BY <1>1, <2>1
    <2> QED
      BY <1>2, <2>2 DEF Inductive, TypeOK
  <1>8. Ownership' /\ StateMatchesPrefix'
    <2>1. Ownership /\ StateMatchesPrefix
      BY DEF Inductive
    <2>2. Ownership'
      BY <1>2, <2>1 DEF Ownership, Live, TokensOf
    <2> QED
      BY <1>2, <2>1, <2>2 DEF StateMatchesPrefix, Live, StateSlot
  <1>9. StagedStateIsRow'
    BY <1>2, <1>3, <1>6 DEF Inductive, TypeOK, StagedStateIsRow
  <1>10. extended' # {} /\ \A r \in extended' : working'[StateSlot(r)'] = kv'[r]
    <2>1. extended # {}
      BY DEF Forward
    <2>2. extended \subseteq Reqs
      BY DEF Inductive, TypeOK
    <2> QED
      BY <1>2, <1>3, <1>5, <2>1, <2>2
  <1> QED
    BY Zenon, <1>2, <1>3, <1>7, <1>8, <1>9, <1>10 DEF Inductive

\* Stashing turns the rows of its requests into their prefixes and promotes
\* their working states, which hold the same blocks.
LEMMA StashInductive ==
  ASSUME Inductive, NEW reqs \in SUBSET staged, Stash(reqs)
  PROVE  Inductive'
  <1>1. /\ prefix' = [r \in Reqs |-> IF r \in reqs THEN kv[r] ELSE prefix[r]]
        /\ committed' = [s \in SlotIds |->
                           IF \E r \in reqs : StateSlot(r) = s
                           THEN working[s] ELSE committed[s]]
        /\ staged' = staged \ reqs
        /\ UNCHANGED <<row, slot, mambaOf, freeRows, freeSlots, freeCells, kv,
                       working, extended, forwarded>>
    BY DEF Stash, StashRequests, Promoted
  <1>2. /\ Live' = Live
        /\ \A r \in Reqs : StateSlot(r)' = StateSlot(r)
    BY <1>1 DEF Live, StateSlot
  <1>3. \A r, q \in Live : StateSlot(r) \in Slots /\ (StateSlot(r) = StateSlot(q) => r = q)
    BY DEF Inductive, TypeOK, Ownership, StateSlot, Live
  <1>4. /\ TypeOK /\ Ownership /\ StateMatchesPrefix /\ StagedStateIsRow
        /\ staged \subseteq Live /\ extended \subseteq Live \ staged
    BY DEF Inductive
  <1>5. TypeOK'
    <2>1. prefix' \in [Reqs -> Seq(SUBSET Cells)]
      BY <1>1, <1>4 DEF TypeOK
    <2>2. committed' \in [SlotIds -> Seq(SUBSET Cells)]
      BY <1>1, <1>4 DEF TypeOK
    <2> QED
      BY <1>1, <1>4, <2>1, <2>2 DEF TypeOK
  <1>6. Ownership'
    <2>1. Ownership
      BY <1>4
    <2>2. UNCHANGED <<row, slot, freeRows, freeSlots, freeCells, kv>>
      BY <1>1
    <2> QED
      BY SMTT(30), <2>1, <2>2 DEF Ownership, Live, TokensOf
  <1>7. ASSUME NEW r \in Live PROVE committed'[StateSlot(r)] = prefix'[r]
    <2>1. r \in Reqs /\ StateSlot(r) \in SlotIds
      BY <1>3 DEF Live, Slots, SlotIds
    <2>2. CASE r \in reqs
      BY <1>1, <1>4, <2>1, <2>2 DEF StagedStateIsRow
    <2>3. CASE r \notin reqs
      <3>1. ~ \E q \in reqs : StateSlot(q) = StateSlot(r)
        BY <1>3, <1>4, <1>7, <2>3
      <3> QED
        BY <1>1, <1>4, <1>7, <2>1, <2>3, <3>1 DEF StateMatchesPrefix
    <2> QED
      BY <2>2, <2>3
  <1>8. StateMatchesPrefix'
    BY <1>2, <1>7 DEF StateMatchesPrefix, Live
  <1>9. StagedStateIsRow'
    BY <1>1, <1>2, <1>4 DEF StagedStateIsRow, Live
  <1>10. \A r \in Live' \ (extended' \cup staged') : kv'[r] = prefix'[r]
    <2>1. \A r \in Live \ (extended \cup staged) : kv[r] = prefix[r]
      BY Zenon DEF Inductive
    <2> QED
      BY <1>1, <1>2, <2>1 DEF Live
  <1>11. \A r \in extended' \cup staged' :
           \E block \in SUBSET Cells : kv'[r] = Append(prefix'[r], block)
    <2>1. \A r \in extended \cup staged :
            \E block \in SUBSET Cells : kv[r] = Append(prefix[r], block)
      BY Zenon DEF Inductive
    <2>2. \A r \in extended' \cup staged' : r \notin reqs /\ r \in Reqs
      BY <1>1, <1>4 DEF Live
    <2> QED
      BY Zenon, <1>1, <2>1, <2>2
  <1>12. \A r \in Reqs : row'[r] = None =>
           slot'[r] = None /\ kv'[r] = <<>> /\ prefix'[r] = <<>>
    BY <1>1 DEF Inductive
  <1>13. \A r \in Live' : slot'[r] # None /\ mambaOf'[row'[r]] = slot'[r]
    BY <1>1, <1>2 DEF Inductive
  <1>14. staged' \subseteq Live' /\ extended' \subseteq Live' \ staged'
    BY <1>1, <1>2, <1>4
  <1>15. forwarded' => extended' # {} /\ \A r \in extended' : working'[StateSlot(r)'] = kv'[r]
    <2>1. forwarded => extended # {} /\ \A r \in extended : working[StateSlot(r)] = kv[r]
      BY DEF Inductive
    <2> QED
      BY <1>1, <1>2, <1>4, <2>1 DEF Live
  <1> QED
    BY Zenon, <1>5, <1>6, <1>8, <1>9, <1>10, <1>11, <1>12, <1>13, <1>14, <1>15
    DEF Inductive

\* Flushing changes nothing when no request is live: what it resets is free.
LEMMA FlushInductive == Inductive /\ Flush => Inductive'
  <1> SUFFICES ASSUME Inductive, Flush PROVE Inductive'
    OBVIOUS
  <1>1. /\ Live = {}
        /\ freeRows' = Rows /\ freeSlots' = Slots /\ freeCells' = Cells
        /\ mambaOf' = [i \in Rows |-> 0]
        /\ UNCHANGED <<row, slot, kv, prefix, committed, working,
                       extended, forwarded, staged>>
    BY DEF Flush, ClearPools
  <1>2. Live' = {} /\ extended' = {} /\ staged' = {}
    BY <1>1 DEF Live, Inductive
  <1>3. TypeOK'
    <2>1. 0 \in SlotIds
      BY PoolAssumption DEF SlotIds
    <2> QED
      BY <1>1, <2>1 DEF Inductive, TypeOK
  <1>4. Ownership'
    BY <1>1, <1>2 DEF Ownership
  <1>5. \A r \in Reqs : row'[r] = None =>
          slot'[r] = None /\ kv'[r] = <<>> /\ prefix'[r] = <<>>
    BY <1>1 DEF Inductive
  <1> QED
    BY <1>1, <1>2, <1>3, <1>4, <1>5
    DEF Inductive, StateMatchesPrefix, StagedStateIsRow

\* Releasing returns the row, the slot and the cells of a request, which no other
\* request owns; the rest of the batch has run and is staged.
LEMMA FinishInductive ==
  ASSUME Inductive, NEW finished \in SUBSET extended, Finish(finished)
  PROVE  Inductive'
  <1>1. /\ freeCells' = freeCells \cup UNION {TokensOf(kv[r]) : r \in finished}
        /\ freeSlots' = freeSlots \cup {slot[r] : r \in finished}
        /\ freeRows' = freeRows \cup {row[r] : r \in finished}
        /\ slot' = [r \in Reqs |-> IF r \in finished THEN None ELSE slot[r]]
        /\ row' = [r \in Reqs |-> IF r \in finished THEN None ELSE row[r]]
        /\ kv' = [r \in Reqs |-> IF r \in finished THEN <<>> ELSE kv[r]]
        /\ prefix' = [r \in Reqs |-> IF r \in finished THEN <<>> ELSE prefix[r]]
        /\ UNCHANGED <<mambaOf, committed, working>>
    BY DEF Finish, ReleaseKvCache, CellsOf, SlotsOf
  <1>2. /\ forwarded
        /\ staged' = staged \cup (extended \ finished)
        /\ extended' = {}
        /\ forwarded' = FALSE
    BY DEF Finish
  <1>3. /\ TypeOK /\ Ownership /\ StateMatchesPrefix /\ StagedStateIsRow
        /\ staged \subseteq Live /\ extended \subseteq Live \ staged
    BY DEF Inductive
  <1>4. Live \subseteq Reqs /\ Live' = Live \ finished
    BY <1>1, <1>3 DEF Live
  <1>5. \A r \in Live' :
          /\ row'[r] = row[r] /\ slot'[r] = slot[r] /\ kv'[r] = kv[r]
          /\ prefix'[r] = prefix[r] /\ StateSlot(r)' = StateSlot(r)
    BY <1>1, <1>4 DEF StateSlot
  <1>6. \A r \in Live : row[r] \in Rows /\ slot[r] \in Slots /\ TokensOf(kv[r]) \subseteq Cells
    <2>1. \A r \in Live : row[r] \in Rows /\ slot[r] \in Slots
      <3>1. row \in [Reqs -> Rows \cup {None}] /\ slot \in [Reqs -> Slots \cup {None}]
        BY <1>3 DEF TypeOK
      <3>2. \A r \in Live : slot[r] # None
        BY Zenon DEF Inductive
      <3> QED
        BY Zenon, <3>1, <3>2 DEF Live
    <2>2. ASSUME NEW r \in Live PROVE TokensOf(kv[r]) \subseteq Cells
      <3>1. kv[r] \in Seq(SUBSET Cells)
        BY <1>3, <1>4 DEF TypeOK
      <3> QED
        BY <3>1, TokensOfType
    <2> QED
      BY <2>1, <2>2
  <1>7. TypeOK'
    <2>1. freeRows' \subseteq Rows /\ freeSlots' \subseteq Slots
      BY <1>1, <1>3, <1>6 DEF TypeOK
    <2>2. freeCells' \subseteq Cells
      BY <1>1, <1>3, <1>6 DEF TypeOK
    <2>3. <<>> \in Seq(SUBSET Cells)
      OBVIOUS
    <2>4. /\ kv' \in [Reqs -> Seq(SUBSET Cells)]
          /\ prefix' \in [Reqs -> Seq(SUBSET Cells)]
      BY <1>1, <1>3, <2>3 DEF TypeOK
    <2> QED
      BY Zenon, <1>1, <1>2, <1>3, <2>1, <2>2, <2>4 DEF TypeOK
  <1>8. Ownership'
    <2>1. \A r, q \in Live : r # q =>
            /\ row[r] # row[q]
            /\ slot[r] # slot[q]
            /\ TokensOf(kv[r]) \cap TokensOf(kv[q]) = {}
      BY <1>3 DEF Ownership
    <2>2. \A r, q \in Live' : r # q =>
            /\ row'[r] # row'[q]
            /\ slot'[r] # slot'[q]
            /\ TokensOf(kv'[r]) \cap TokensOf(kv'[q]) = {}
      BY <1>4, <1>5, <2>1
    <2>3. freeRows' = Rows \ {row'[r] : r \in Live'}
      BY <1>1, <1>3, <1>4, <1>5, <1>6, <2>1 DEF Ownership
    <2>4. freeSlots' = Slots \ {slot'[r] : r \in Live'}
      BY <1>1, <1>3, <1>4, <1>5, <1>6, <2>1 DEF Ownership
    <2>5. freeCells' = Cells \ UNION {TokensOf(kv'[r]) : r \in Live'}
      <3>1. freeCells = Cells \ UNION {TokensOf(kv[r]) : r \in Live}
        BY <1>3 DEF Ownership
      <3>2. \A r \in Live' : TokensOf(kv'[r]) = TokensOf(kv[r])
        BY <1>5
      <3>3. ASSUME NEW c \in freeCells', NEW r \in Live' PROVE c \notin TokensOf(kv'[r])
        <4>1. CASE c \in freeCells
          BY <1>4, <3>1, <3>2, <4>1
        <4>2. CASE \E q \in finished : c \in TokensOf(kv[q])
          BY <1>3, <1>4, <2>1, <3>2, <4>2
        <4> QED
          BY <1>1, <4>1, <4>2
      <3>4. ASSUME NEW c \in Cells, \A r \in Live' : c \notin TokensOf(kv'[r])
            PROVE  c \in freeCells'
        <4>1. CASE \E r \in finished : c \in TokensOf(kv[r])
          BY <1>1, <4>1
        <4>2. CASE \A r \in finished : c \notin TokensOf(kv[r])
          BY Zenon, <1>1, <1>4, <3>1, <3>2, <3>4, <4>2
        <4> QED
          BY <4>1, <4>2
      <3>5. freeCells' \subseteq Cells
        BY <1>7 DEF TypeOK
      <3> QED
        BY <3>3, <3>4, <3>5
    <2> QED
      BY <2>2, <2>3, <2>4, <2>5 DEF Ownership, TokensOf
  <1>9. StateMatchesPrefix'
    BY Zenon, <1>1, <1>3, <1>4, <1>5 DEF StateMatchesPrefix
  <1>10. StagedStateIsRow'
    <2>1. \A r \in staged \cup extended : working[StateSlot(r)] = kv[r]
      BY <1>2, <1>3 DEF Inductive, StagedStateIsRow
    <2>2. staged' \subseteq Live' /\ staged' \subseteq staged \cup extended
      BY <1>2, <1>3, <1>4
    <2> QED
      BY Zenon, <1>1, <1>5, <2>1, <2>2 DEF StagedStateIsRow
  <1>11. \A r \in Live' \ (extended' \cup staged') : kv'[r] = prefix'[r]
    <2>1. \A r \in Live \ (extended \cup staged) : kv[r] = prefix[r]
      BY Zenon DEF Inductive
    <2> QED
      BY <1>2, <1>4, <1>5, <2>1
  <1>12. \A r \in extended' \cup staged' :
           \E block \in SUBSET Cells : kv'[r] = Append(prefix'[r], block)
    <2>1. \A r \in extended \cup staged :
            \E block \in SUBSET Cells : kv[r] = Append(prefix[r], block)
      BY Zenon DEF Inductive
    <2>2. \A r \in extended' \cup staged' : r \in extended \cup staged /\ r \in Live'
      BY <1>2, <1>3, <1>4
    <2> QED
      BY Zenon, <1>5, <2>1, <2>2
  <1>13. \A r \in Reqs : row'[r] = None =>
           slot'[r] = None /\ kv'[r] = <<>> /\ prefix'[r] = <<>>
    BY <1>1 DEF Inductive
  <1>14. \A r \in Live' : slot'[r] # None /\ mambaOf'[row'[r]] = slot'[r]
    BY <1>1, <1>4, <1>5 DEF Inductive
  <1>15. staged' \subseteq Live' /\ extended' \subseteq Live' \ staged'
    BY SMTT(30), <1>2, <1>3, <1>4
  <1> QED
    BY Zenon, <1>2, <1>7, <1>8, <1>9, <1>10, <1>11, <1>12, <1>13, <1>14, <1>15
    DEF Inductive

\* An extend hands free rows, zeroed free slots and free cells to the requests
\* of its batch, and points the rows of the batch at their slots.
LEMMA ExtendInductive ==
  ASSUME Inductive, extended = {},
         NEW batch \in SUBSET (Reqs \ staged),
         NEW newRow \in [NeedRow(batch) -> freeRows],
         NEW newSlot \in [NeedSlot(batch) -> freeSlots],
         NEW newCells \in [batch -> SUBSET freeCells],
         Extend(batch, newRow, newSlot, newCells)
  PROVE  Inductive'
  <1> DEFINE fresh == {r \in batch : row[r] = None}
  <1>1. /\ TypeOK /\ Ownership /\ StateMatchesPrefix /\ StagedStateIsRow
        /\ staged \subseteq Live
        /\ \A r \in Reqs : row[r] = None => slot[r] = None /\ kv[r] = <<>> /\ prefix[r] = <<>>
        /\ \A r \in Live : slot[r] # None /\ mambaOf[row[r]] = slot[r]
    BY DEF Inductive
  <1>2. fresh = NeedRow(batch) /\ fresh = NeedSlot(batch) /\ fresh = batch \ Live
    BY <1>1 DEF NeedRow, NeedSlot, Live
  <1>3. /\ newRow \in [fresh -> freeRows] /\ newSlot \in [fresh -> freeSlots]
        /\ \A r, q \in fresh : r # q => newRow[r] # newRow[q] /\ newSlot[r] # newSlot[q]
        /\ \A r, q \in batch : r # q => newCells[r] \cap newCells[q] = {}
    BY <1>2 DEF Extend, AllocForExtend, Injective
  <1>4. /\ row' = [r \in Reqs |-> IF r \in fresh THEN newRow[r] ELSE row[r]]
        /\ slot' = [r \in Reqs |-> IF r \in fresh THEN newSlot[r] ELSE slot[r]]
        /\ freeRows' = freeRows \ {newRow[r] : r \in fresh}
        /\ freeSlots' = freeSlots \ {newSlot[r] : r \in fresh}
        /\ freeCells' = freeCells \ UNION {newCells[r] : r \in batch}
        /\ mambaOf' = [i \in Rows |->
                         IF \E r \in batch : row'[r] = i
                         THEN slot'[CHOOSE r \in batch : row'[r] = i]
                         ELSE mambaOf[i]]
        /\ kv' = [r \in Reqs |->
                    IF r \in batch THEN Append(prefix[r], newCells[r]) ELSE kv[r]]
        /\ committed' = [s \in SlotIds |->
                           IF \E r \in fresh : newSlot[r] = s THEN <<>> ELSE committed[s]]
        /\ working' = [s \in SlotIds |->
                         IF \E r \in fresh : newSlot[r] = s THEN <<>> ELSE working[s]]
        /\ UNCHANGED prefix
    BY <1>2 DEF Extend, AllocForExtend, Zeroed
  <1>5. extended' = batch /\ UNCHANGED <<forwarded, staged>>
    BY DEF Extend
  <1> HIDE DEF fresh
  <1>6. fresh \subseteq batch /\ batch \subseteq Reqs /\ Live \subseteq Reqs
    BY DEF fresh, Live
  <1>7. /\ \A r \in fresh : newRow[r] \in freeRows /\ newSlot[r] \in freeSlots
        /\ freeRows \subseteq Rows /\ freeSlots \subseteq Slots /\ freeCells \subseteq Cells
    BY <1>1, <1>3 DEF TypeOK
  <1>8. Live' = Live \cup batch
    <2>1. None \notin Rows
      BY SMTT(30) DEF None, Rows
    <2> QED
      BY <1>2, <1>4, <1>6, <1>7, <2>1 DEF Live
  <1>9. \A r \in Live : /\ row'[r] = row[r] /\ slot'[r] = slot[r] /\ r \notin fresh
                         /\ row[r] \in Rows \ freeRows /\ slot[r] \in Slots \ freeSlots
    <2> SUFFICES ASSUME NEW r \in Live
                 PROVE  /\ row'[r] = row[r] /\ slot'[r] = slot[r] /\ r \notin fresh
                        /\ row[r] \in Rows \ freeRows /\ slot[r] \in Slots \ freeSlots
      OBVIOUS
    <2>1. r \notin fresh /\ r \in Reqs
      BY <1>2, <1>6
    <2>2. row'[r] = row[r] /\ slot'[r] = slot[r]
      BY <1>4, <2>1
    <2>3. row[r] \in Rows /\ slot[r] \in Slots
      BY <1>1, <2>1 DEF TypeOK, Live
    <2>4. row[r] \notin freeRows /\ slot[r] \notin freeSlots
      BY <1>1 DEF Ownership
    <2> QED
      BY <2>1, <2>2, <2>3, <2>4
  <1>10. \A r \in fresh : /\ row'[r] = newRow[r] /\ slot'[r] = newSlot[r] /\ r \notin Live
                           /\ row'[r] \in Rows /\ slot'[r] \in Slots
    BY <1>2, <1>4, <1>6, <1>7
  <1>11. \A r \in Live' : r \in Live \/ r \in fresh
    BY SMTT(30), <1>2, <1>8
  <1>12. \A r, q \in Live' : r # q => row'[r] # row'[q] /\ slot'[r] # slot'[q]
    <2>1. \A r, q \in Live : r # q => row[r] # row[q] /\ slot[r] # slot[q]
      BY <1>1 DEF Ownership
    <2>2. ASSUME NEW r \in Live, NEW q \in fresh
          PROVE  row'[r] # row'[q] /\ slot'[r] # slot'[q]
      BY <1>7, <1>9, <1>10
    <2>3. ASSUME NEW r \in fresh, NEW q \in fresh, r # q
          PROVE  row'[r] # row'[q] /\ slot'[r] # slot'[q]
      BY <1>3, <1>10, <2>3
    <2>4. ASSUME NEW r \in Live, NEW q \in Live, r # q
          PROVE  row'[r] # row'[q] /\ slot'[r] # slot'[q]
      BY <1>9, <2>1, <2>4
    <2> QED
      BY Zenon, <1>11, <2>2, <2>3, <2>4
  <1>13. \A r \in Live' : slot'[r] \in Slots /\ row'[r] \in Rows /\ mambaOf'[row'[r]] = slot'[r]
    <2> SUFFICES ASSUME NEW r \in Live'
                 PROVE  slot'[r] \in Slots /\ row'[r] \in Rows /\ mambaOf'[row'[r]] = slot'[r]
      OBVIOUS
    <2>1. slot'[r] \in Slots /\ row'[r] \in Rows
      BY SMTT(30), <1>9, <1>10, <1>11
    <2>2. CASE r \in batch
      <3>1. (CHOOSE q \in batch : row'[q] = row'[r]) = r
        BY <1>8, <1>12, <2>2
      <3> QED
        BY Zenon, <1>4, <2>1, <2>2, <3>1
    <2>3. CASE r \notin batch
      <3>1. r \in Live
        BY <1>8, <2>3
      <3>2. ~ \E q \in batch : row'[q] = row'[r]
        BY <1>8, <1>12, <2>3
      <3> QED
        BY ZenonT(30), <1>1, <1>4, <1>9, <2>1, <3>1, <3>2
    <2> QED
      BY <2>1, <2>2, <2>3
  <1>14. \A r \in Reqs : prefix[r] \in Seq(SUBSET Cells) /\ kv[r] \in Seq(SUBSET Cells)
    BY Zenon, <1>1 DEF TypeOK
  <1>15. \A r \in batch : kv[r] = prefix[r]
    BY Zenon, <1>1, <1>6 DEF Inductive, Live
  <1>16. \A r \in batch : newCells[r] \in SUBSET freeCells /\ newCells[r] \in SUBSET Cells
    BY <1>7
  <1>17. ASSUME NEW r \in Live'
         PROVE  /\ kv'[r] \in Seq(SUBSET Cells)
                /\ TokensOf(kv'[r]) = TokensOf(kv[r]) \cup (IF r \in batch THEN newCells[r] ELSE {})
    <2>1. r \in Reqs
      BY <1>6, <1>8
    <2>2. CASE r \in batch
      <3>1. kv'[r] = Append(prefix[r], newCells[r]) /\ prefix[r] \in Seq(SUBSET Cells)
        BY <1>4, <1>14, <2>1, <2>2
      <3>2. newCells[r] \in SUBSET Cells
        BY SMTT(30), <1>16, <2>2
      <3>3. TokensOf(kv'[r]) = TokensOf(prefix[r]) \cup newCells[r]
        BY SMTT(30), <3>1, <3>2, TokensOfAppend
      <3>4. kv'[r] \in Seq(SUBSET Cells)
        <4>1. Append(prefix[r], newCells[r]) \in Seq(SUBSET Cells)
          BY <3>1, <3>2
        <4> QED
          BY Zenon, <3>1, <4>1
      <3> QED
        BY <1>15, <2>2, <3>3, <3>4
    <2>3. CASE r \notin batch
      BY SMTT(30), <1>4, <1>14, <2>1, <2>3
    <2> QED
      BY <2>2, <2>3
  <1>18. TypeOK'
    <2>1. row' \in [Reqs -> Rows \cup {None}] /\ slot' \in [Reqs -> Slots \cup {None}]
      BY Zenon, <1>1, <1>4, <1>10 DEF TypeOK
    <2>2. mambaOf' \in [Rows -> SlotIds]
      <3>1. ASSUME NEW i \in Rows PROVE mambaOf'[i] \in SlotIds
        <4>1. CASE \E r \in batch : row'[r] = i
          <5>1. PICK r \in batch : row'[r] = i
            BY <4>1
          <5>2. r \in Live' /\ Slots \subseteq SlotIds
            BY <1>8 DEF Slots, SlotIds
          <5> QED
            BY <1>13, <5>1, <5>2
        <4>2. CASE ~ \E r \in batch : row'[r] = i
          BY <1>1, <1>4, <3>1, <4>2 DEF TypeOK
        <4> QED
          BY <4>1, <4>2
      <3> QED
        BY Zenon, <1>4, <3>1
    <2>3. kv' \in [Reqs -> Seq(SUBSET Cells)]
      <3>1. ASSUME NEW r \in Reqs PROVE kv'[r] \in Seq(SUBSET Cells)
        <4>1. CASE r \in batch
          BY <1>8, <1>17, <4>1
        <4>2. CASE r \notin batch
          BY <1>4, <1>14, <4>2
        <4> QED
          BY <4>1, <4>2
      <3> QED
        BY <1>4, <3>1
    <2>4. /\ committed' \in [SlotIds -> Seq(SUBSET Cells)]
          /\ working' \in [SlotIds -> Seq(SUBSET Cells)]
      <3>1. <<>> \in Seq(SUBSET Cells)
        OBVIOUS
      <3> QED
        BY <1>1, <1>4, <3>1 DEF TypeOK
    <2>5. freeRows' \in SUBSET Rows /\ freeSlots' \in SUBSET Slots /\ freeCells' \in SUBSET Cells
      BY <1>4, <1>7
    <2> QED
      BY Zenon, <1>1, <1>4, <1>5, <1>6, <2>1, <2>2, <2>3, <2>4, <2>5 DEF TypeOK
  <1>19. Ownership'
    <2>1. freeRows' = Rows \ {row'[r] : r \in Live'}
      <3>1. {row'[r] : r \in Live'} = {row[r] : r \in Live} \cup {newRow[r] : r \in fresh}
        BY SMTT(30), <1>6, <1>8, <1>9, <1>10, <1>11
      <3>2. freeRows = Rows \ {row[r] : r \in Live}
        BY Zenon, <1>1 DEF Ownership
      <3> QED
        BY Zenon, <1>4, <3>1, <3>2
    <2>2. freeSlots' = Slots \ {slot'[r] : r \in Live'}
      <3>1. {slot'[r] : r \in Live'} = {slot[r] : r \in Live} \cup {newSlot[r] : r \in fresh}
        BY <1>6, <1>8, <1>9, <1>10, <1>11
      <3>2. freeSlots = Slots \ {slot[r] : r \in Live}
        BY <1>1 DEF Ownership
      <3> QED
        BY Zenon, <1>4, <3>1, <3>2
    <2>3. /\ \A r \in Live' : TokensOf(kv[r]) \cap freeCells = {}
          /\ \A r, q \in Live' : r # q => TokensOf(kv[r]) \cap TokensOf(kv[q]) = {}
          /\ freeCells = Cells \ UNION {TokensOf(kv[r]) : r \in Live}
      <3>1. \A r \in fresh : TokensOf(kv[r]) = {}
        BY Zenon, <1>1, <1>6, TokensOfEmpty DEF fresh
      <3>2. /\ \A r, q \in Live : r # q => TokensOf(kv[r]) \cap TokensOf(kv[q]) = {}
            /\ freeCells = Cells \ UNION {TokensOf(kv[r]) : r \in Live}
        BY Zenon, <1>1 DEF Ownership
      <3> QED
        BY SMTT(30), <1>11, <3>1, <3>2
    <2>4. ASSUME NEW r \in Live', NEW q \in Live', r # q
          PROVE  TokensOf(kv'[r]) \cap TokensOf(kv'[q]) = {}
      <3>1. /\ TokensOf(kv'[r]) = TokensOf(kv[r]) \cup (IF r \in batch THEN newCells[r] ELSE {})
            /\ TokensOf(kv'[q]) = TokensOf(kv[q]) \cup (IF q \in batch THEN newCells[q] ELSE {})
        BY <1>17
      <3> QED
        BY <1>3, <1>16, <2>3, <2>4, <3>1
    <2>5. freeCells' = Cells \ UNION {TokensOf(kv'[r]) : r \in Live'}
      <3>1. ASSUME NEW c \in freeCells', NEW r \in Live' PROVE c \notin TokensOf(kv'[r])
        <4>1. c \in freeCells /\ \A q \in batch : c \notin newCells[q]
          BY SMTT(30), <1>4, <3>1
        <4>2. TokensOf(kv'[r]) = TokensOf(kv[r]) \cup (IF r \in batch THEN newCells[r] ELSE {})
          BY <1>17
        <4>3. c \notin TokensOf(kv[r])
          BY <2>3, <4>1
        <4> QED
          BY <4>1, <4>2, <4>3
      <3>2. ASSUME NEW c \in Cells, \A r \in Live' : c \notin TokensOf(kv'[r])
            PROVE  c \in freeCells'
        <4>1. \A r \in Live : c \notin TokensOf(kv[r])
          BY Zenon, <1>8, <1>17, <3>2
        <4>2. \A r \in batch : c \notin newCells[r]
          BY <1>8, <1>17, <3>2
        <4> QED
          BY SMTT(30), <1>4, <2>3, <4>1, <4>2
      <3>3. freeCells' \subseteq Cells
        BY <1>18 DEF TypeOK
      <3> QED
        BY <3>1, <3>2, <3>3
    <2>6. \A r, q \in Live' : r # q => /\ row'[r] # row'[q] /\ slot'[r] # slot'[q]
                                      /\ TokensOf(kv'[r]) \cap TokensOf(kv'[q]) = {}
      BY <1>12, <2>4
    <2> QED
      BY <2>1, <2>2, <2>5, <2>6 DEF Ownership
  <1>20. \A r \in Live' : StateSlot(r)' = slot'[r]
    BY <1>13 DEF StateSlot
  <1>21. \A r \in Live : StateSlot(r) = slot[r] /\ slot[r] \in SlotIds
    <2>1. Slots \subseteq SlotIds
      BY DEF Slots, SlotIds
    <2> QED
      BY <1>1, <1>9, <2>1 DEF StateSlot
  <1>22. \A r \in Live : /\ committed'[slot[r]] = committed[slot[r]]
                          /\ working'[slot[r]] = working[slot[r]]
    BY Zenon, <1>4, <1>7, <1>9, <1>21
  <1>23. \A r \in Live' : committed'[slot'[r]] = prefix'[r]
    <2>1. ASSUME NEW r \in fresh PROVE committed'[slot'[r]] = prefix'[r]
      <3>1. slot'[r] = newSlot[r] /\ slot'[r] \in SlotIds
        BY SMTT(30), <1>10 DEF Slots, SlotIds
      <3>2. prefix'[r] = <<>>
        BY SMTT(30), <1>1, <1>4, <1>6 DEF fresh
      <3> QED
        BY ZenonT(30), <1>4, <2>1, <3>1, <3>2
    <2>2. ASSUME NEW r \in Live PROVE committed'[slot'[r]] = prefix'[r]
      <3>1. slot'[r] = slot[r] /\ prefix'[r] = prefix[r]
        BY Zenon, <1>4, <1>9, <2>2
      <3>2. committed'[slot[r]] = committed[slot[r]]
        BY <1>22, <2>2
      <3>3. committed[slot[r]] = prefix[r]
        <4>1. StateMatchesPrefix
          BY <1>1
        <4> QED
          BY <1>21, <2>2, <4>1 DEF StateMatchesPrefix
      <3> QED
        BY Zenon, <3>1, <3>2, <3>3
    <2> QED
      BY <1>11, <2>1, <2>2
  <1>24. StateMatchesPrefix'
    BY <1>20, <1>23 DEF StateMatchesPrefix
  <1>25. StagedStateIsRow'
    <2>1. \A r \in staged : r \in Live /\ r \in Live' /\ r \notin batch
      BY SMTT(30), <1>1, <1>8
    <2>2. ASSUME NEW r \in staged PROVE working'[slot'[r]] = kv'[r]
      BY SMTT(30), <1>1, <1>4, <1>6, <1>9, <1>21, <1>22, <2>1 DEF StagedStateIsRow
    <2> QED
      BY SMTT(30), <1>5, <1>20, <2>1, <2>2 DEF StagedStateIsRow
  <1>26. \A r \in Live' \ (extended' \cup staged') : kv'[r] = prefix'[r]
    <2>1. \A r \in Live \ (extended \cup staged) : kv[r] = prefix[r]
      BY Zenon DEF Inductive
    <2> QED
      BY <1>4, <1>5, <1>6, <1>8, <2>1
  <1>27. \A r \in extended' \cup staged' :
           \E block \in SUBSET Cells : kv'[r] = Append(prefix'[r], block)
    <2>1. \A r \in staged :
            \E block \in SUBSET Cells : kv[r] = Append(prefix[r], block)
      BY Zenon DEF Inductive
    <2>2. \A r \in staged : r \notin batch /\ r \in Reqs
      BY Zenon, <1>1, <1>6
    <2> QED
      BY Zenon, <1>4, <1>5, <1>6, <1>16, <2>1, <2>2
  <1>28. \A r \in Reqs : row'[r] = None =>
           slot'[r] = None /\ kv'[r] = <<>> /\ prefix'[r] = <<>>
    <2>1. \A r \in Reqs : row'[r] = None => r \notin Live'
      BY DEF Live
    <2> QED
      BY Zenon, <1>1, <1>4, <1>8, <2>1, <1>6 DEF Live
  <1>29. staged' \subseteq Live' /\ extended' \subseteq Live' \ staged'
    BY Zenon, <1>1, <1>5, <1>8
  <1>30. ~ forwarded'
    BY <1>5 DEF Inductive
  <1>31. \A r \in Live' : slot'[r] # None
    BY <1>13 DEF None, Slots
  <1> QED
    BY Zenon, <1>13, <1>18, <1>19, <1>24, <1>25, <1>26, <1>27, <1>28, <1>29, <1>30, <1>31
    DEF Inductive

\* Every step of the pools and their client preserves Inductive.
LEMMA NextInductive == Inductive /\ [Next]_vars => Inductive'
  <1> SUFFICES ASSUME Inductive, [Next]_vars PROVE Inductive'
    OBVIOUS
  <1>1. ASSUME extended = {},
               NEW batch \in SUBSET (Reqs \ staged),
               NEW newRow \in [NeedRow(batch) -> freeRows],
               NEW newSlot \in [NeedSlot(batch) -> freeSlots],
               NEW newCells \in [batch -> SUBSET freeCells],
               Extend(batch, newRow, newSlot, newCells)
        PROVE  Inductive'
    BY <1>1, ExtendInductive
  <1>2. CASE Forward
    BY <1>2, ForwardInductive
  <1>3. ASSUME NEW finished \in SUBSET extended, Finish(finished) PROVE Inductive'
    BY <1>3, FinishInductive
  <1>4. ASSUME NEW reqs \in SUBSET staged, Stash(reqs) PROVE Inductive'
    BY <1>4, StashInductive
  <1>5. CASE Flush
    BY <1>5, FlushInductive
  <1>6. CASE UNCHANGED vars
    <2>1. UNCHANGED <<row, slot, mambaOf, freeRows, freeSlots, freeCells, kv,
                      prefix, committed, working, extended, forwarded, staged>>
      BY <1>6 DEF vars, poolVars
    <2>2. Live' = Live /\ \A r \in Reqs : StateSlot(r)' = StateSlot(r)
      BY <2>1 DEF Live, StateSlot
    <2>3. TypeOK' /\ Ownership'
      <3>1. TypeOK /\ Ownership
        BY DEF Inductive
      <3>2. TypeOK'
        BY <2>1, <3>1 DEF TypeOK
      <3>3. Ownership'
        <4>1. \A r, q \in Live' : r # q =>
                 /\ row'[r] # row'[q] /\ slot'[r] # slot'[q]
                 /\ TokensOf(kv'[r]) \cap TokensOf(kv'[q]) = {}
          BY Zenon, <2>1, <2>2, <3>1 DEF Ownership
        <4>2. freeRows' = Rows \ {row'[r] : r \in Live'}
          BY Zenon, <2>1, <2>2, <3>1 DEF Ownership
        <4>3. freeSlots' = Slots \ {slot'[r] : r \in Live'}
          BY Zenon, <2>1, <2>2, <3>1 DEF Ownership
        <4>4. freeCells' = Cells \ UNION {TokensOf(kv'[r]) : r \in Live'}
          BY Zenon, <2>1, <2>2, <3>1 DEF Ownership
        <4> QED BY Zenon, <4>1, <4>2, <4>3, <4>4 DEF Ownership, TokensOf
      <3> QED
        BY <3>2, <3>3
    <2>4. StateMatchesPrefix' /\ StagedStateIsRow'
      BY Zenon, <2>1 DEF Inductive, StateMatchesPrefix, StagedStateIsRow, Live, StateSlot
    <2> QED
      BY ZenonT(30), <2>1, <2>2, <2>3, <2>4 DEF Inductive, StateSlot
  <1> QED
    BY <1>1, <1>2, <1>3, <1>4, <1>5, <1>6 DEF Next

-----------------------------------------------------------------------------
(* The properties, for every value of the constants. *)

\* The inductive invariant holds in every state of the pools and their client.
THEOREM InductiveHolds == Spec => []Inductive
  BY InitInductive, NextInductive, PTL DEF Spec

\* Rows, slots and cells keep their types.
THEOREM TypeCorrect == Spec => []TypeOK
  <1>1. Inductive => TypeOK
    BY DEF Inductive
  <1> QED
    BY <1>1, InductiveHolds, PTL

\* No row, state slot or KV cell is shared, handed out twice or lost
\* (HybridReqToTokenPool.alloc, release_kv_cache).
THEOREM OwnershipHolds == Spec => []Ownership
  <1>1. Inductive => Ownership
    BY DEF Inductive
  <1> QED
    BY <1>1, InductiveHolds, PTL

\* The committed recurrent state the kernel reads for a request is the fold of
\* exactly the tokens of its KV prefix (stash_chunked_request, MambaPool.alloc).
THEOREM StateInStepWithKv == Spec => []StateMatchesPrefix
  <1>1. Inductive => StateMatchesPrefix
    BY DEF Inductive
  <1> QED
    BY <1>1, InductiveHolds, PTL

\* What the next stash promotes is the prefix with the last block added.
THEOREM StagedStateHolds == Spec => []StagedStateIsRow
  <1>1. Inductive => StagedStateIsRow
    BY SMTT(30) DEF Inductive
  <1> QED
    BY <1>1, InductiveHolds, PTL

\* The prefix of a request that stays live is left alone or becomes its row.
LEMMA PrefixStep ==
  ASSUME Inductive, Next, NEW r \in Reqs, row[r] # None, row'[r] # None
  PROVE  prefix'[r] = prefix[r] \/ (r \in staged /\ prefix'[r] = kv[r])
  <1>1. ASSUME NEW batch, NEW newRow, NEW newSlot, NEW newCells,
               Extend(batch, newRow, newSlot, newCells)
        PROVE  prefix'[r] = prefix[r]
    BY <1>1 DEF Extend, AllocForExtend, Zeroed
  <1>2. CASE Forward
    BY <1>2 DEF Forward, ForwardPass, Folded
  <1>3. ASSUME NEW finished \in SUBSET extended, Finish(finished)
        PROVE  prefix'[r] = prefix[r]
    BY <1>3 DEF Finish, ReleaseKvCache, CellsOf, SlotsOf
  <1>4. ASSUME NEW reqs \in SUBSET staged, Stash(reqs)
        PROVE  prefix'[r] = prefix[r] \/ (r \in staged /\ prefix'[r] = kv[r])
    BY <1>4 DEF Stash, StashRequests, Promoted
  <1>5. CASE Flush
    BY <1>5 DEF Flush, ClearPools
  <1> QED
    BY <1>1, <1>2, <1>3, <1>4, <1>5 DEF Next

\* A committed state only ever grows, by one block at a time: neither a forward
\* pass nor what happens to other requests rewrites it.
THEOREM CommitsAppend == Spec => CommitsAppendOneBlock
  <1>1. ASSUME Inductive, Inductive', [Next]_vars
        PROVE  [\A r \in Reqs : row[r] # None /\ row'[r] # None => CommitStep(r)]_vars
    <2>1. CASE UNCHANGED vars
      BY <2>1
    <2>2. ASSUME Next, NEW r \in Reqs, row[r] # None, row'[r] # None
          PROVE  CommitStep(r)
      <3>1. r \in Live /\ r \in Live'
        BY SMTT(30), <2>2 DEF Live
      <3>2. committed[StateSlot(r)] = prefix[r]
        BY <1>1, <3>1 DEF Inductive, StateMatchesPrefix
      <3>3. committed'[StateSlot(r)'] = prefix'[r]
        BY <1>1, <3>1 DEF Inductive, StateMatchesPrefix
      <3>4. CASE prefix'[r] = prefix[r]
        BY <3>2, <3>3, <3>4 DEF CommitStep
      <3>5. CASE r \in staged /\ prefix'[r] = kv[r]
        <4>1. \E block \in SUBSET Cells : kv[r] = Append(prefix[r], block)
          BY Zenon, <1>1, <3>5 DEF Inductive
        <4> QED
          BY SMTT(30), <3>2, <3>3, <3>5, <4>1 DEF CommitStep
      <3> QED
        BY <1>1, <2>2, <3>4, <3>5, PrefixStep
    <2> QED
      BY <1>1, <2>1, <2>2
  <1> QED
    BY <1>1, InductiveHolds, PTL DEF Spec, CommitsAppendOneBlock

-----------------------------------------------------------------------------
(* Forward passes replayed from a CUDA graph. *)

\* The batch is none of those that replay_prepare pads: it is as large as a captured
\* one, or too large for all of them.
Unpadded ==
  extended = {} \/ Cardinality(extended) \in captureBs \/ Cardinality(extended) > MaxBs

\* The sizes are the ones captured at the start, and the last block of a row of the
\* batch is a whole block: the backend does not take it for padding.
GraphInv ==
  /\ captureBs \in CaptureSizes
  /\ \A r \in extended : Cardinality(CurrentBlock(r)) = BlockSize

\* There are as many requests in the batch as rows at most.
LEMMA BatchFinite ==
  ASSUME Inductive
  PROVE  IsFiniteSet(extended) /\ Cardinality(extended) \in Nat
<1> DEFINE f == [r \in extended |-> row[r]]
<1>1. extended \subseteq Live /\ extended \subseteq Reqs
  BY DEF Inductive, Live
<1>2. \A r \in extended : row[r] \in Rows
  BY Zenon, <1>1 DEF Inductive, TypeOK, Live
<1>3. \A r, q \in extended : r # q => row[r] # row[q]
  BY <1>1 DEF Inductive, Ownership
<1>4. f \in Injection(extended, Rows)
  BY <1>2, <1>3 DEF Injection, IsInjective
<1>5. IsFiniteSet(Rows)
  BY FS_Interval, PoolAssumption DEF Rows
<1>6. IsFiniteSet(extended)
  BY <1>4, <1>5, FS_Injection
<1> QED BY <1>6, FS_CardinalityType

\* An order of the batch names every request of it.
LEMMA OrderOnto ==
  ASSUME Inductive, NEW order \in [1 .. Cardinality(extended) -> extended], Injective(order)
  PROVE  \A r \in extended : \E i \in 1 .. Cardinality(extended) : order[i] = r
<1> DEFINE n == Cardinality(extended)
<1>1. IsFiniteSet(extended) /\ n \in Nat
  BY BatchFinite
<1>2. Cardinality(1 .. n) = n
  BY <1>1, FS_Interval
<1>3. order \in Injection(1 .. n, extended)
  BY DEF Injection, IsInjective, Injective
<1>4. order \in Surjection(1 .. n, extended)
  BY <1>1, <1>2, <1>3, FS_Injection
<1> QED BY <1>4 DEF Surjection

\* A row that ends in a whole block holds no less than a block, so that its length is
\* not the one by which the backend counts the padding.
LEMMA RowsAreNoPadding ==
  ASSUME Inductive, GraphInv, BlockSize > 1, NEW r \in extended
  PROVE  Cardinality(TokensOf(kv[r])) # BackendFillValue
<1>1. r \in Reqs /\ kv[r] \in Seq(SUBSET Cells) /\ prefix[r] \in Seq(SUBSET Cells)
  BY DEF Inductive, TypeOK
<1>2. PICK block \in SUBSET Cells : kv[r] = Append(prefix[r], block)
  BY Zenon DEF Inductive
<1>3. CurrentBlock(r) = block /\ TokensOf(kv[r]) = TokensOf(prefix[r]) \cup block
  BY <1>1, <1>2, LastOfAppend, TokensOfAppend DEF CurrentBlock
<1>4. TokensOf(kv[r]) \subseteq Cells
  BY <1>1, TokensOfType
<1>5. IsFiniteSet(TokensOf(kv[r]))
  BY <1>4, GraphAssumption, FS_Subset
<1>6. block \in SUBSET TokensOf(kv[r])
  BY <1>3
<1>7. Cardinality(block) <= Cardinality(TokensOf(kv[r]))
  BY <1>5, <1>6, FS_Subset
<1>8. Cardinality(TokensOf(kv[r])) \in Nat /\ Cardinality(block) = BlockSize
  BY <1>3, <1>5, FS_CardinalityType DEF GraphInv
<1> QED BY <1>7, <1>8, GraphAssumption DEF BackendFillValue

\* A set of naturals that is not empty has a least element.
LEMMA LeastNat ==
  ASSUME NEW T \in SUBSET Nat, T # {}
  PROVE  \E n \in T : \A m \in T : n <= m
<1> DEFINE R == {ss \in Nat \X Nat : ss[1] < ss[2]}
<1>1. IsWellFoundedOn(R, Nat)
  BY Zenon, NatLessThanWellFounded DEF OpToRel
<1>2. PICK n \in T : \A m \in T : ~(<<m, n>> \in R)
  BY Zenon, <1>1, WFMin
<1>3. ASSUME NEW m \in T, m < n PROVE FALSE
  <2>1. <<m, n>> \in Nat \X Nat
    OBVIOUS
  <2>2. <<m, n>> \in R
    BY Zenon, <1>3, <2>1
  <2> QED BY Zenon, <1>2, <2>2
<1>4. \A m \in T : n <= m
  BY <1>3
<1> QED BY <1>4

\* The largest captured size is one of them.
LEMMA LargestCaptured ==
  ASSUME GraphInv
  PROVE  MaxBs \in captureBs /\ captureBs \subseteq 1 .. NumRows
                             /\ \A n \in captureBs : n <= MaxBs
<1>1. captureBs \subseteq 1 .. NumRows /\ captureBs # {}
  BY GraphAssumption DEF GraphInv
<1> DEFINE gaps == {NumRows - n : n \in captureBs}
<1>2. gaps \in SUBSET Nat /\ gaps # {}
  <2>1. ASSUME NEW n \in captureBs PROVE NumRows - n \in Nat
    BY <1>1, <2>1, PoolAssumption
  <2> QED BY Zenon, <1>1, <2>1
<1> HIDE DEF gaps
<1>3. PICK gap \in gaps : \A other \in gaps : gap <= other
  BY <1>2, LeastNat
<1>4. PICK n \in captureBs : gap = NumRows - n
  BY <1>3 DEF gaps
<1>5. ASSUME NEW m \in captureBs PROVE n >= m
  <2>1. gap <= NumRows - m
    BY <1>3 DEF gaps
  <2>2. n \in Int /\ m \in Int /\ NumRows \in Int
    BY <1>1, PoolAssumption
  <2> QED BY <1>4, <2>1, <2>2
<1>6. MaxBs \in captureBs /\ \A m \in captureBs : MaxBs >= m
  BY <1>5 DEF MaxBs, Max
<1> QED BY <1>1, <1>6, PoolAssumption

\* A batch of a captured size is not padded.
LEMMA CapturedSize ==
  ASSUME GraphInv, NEW n \in captureBs
  PROVE  PaddedBs(n) = n
<1>1. captureBs \subseteq 1 .. NumRows
  BY LargestCaptured
<1> DEFINE S == {bs \in captureBs : n <= bs}
<1>2. n \in S /\ \A y \in S : n <= y
  BY <1>1, PoolAssumption
<1>3. PaddedBs(n) \in S /\ \A y \in S : PaddedBs(n) <= y
  BY <1>2 DEF PaddedBs, Min
<1>4. n \in Int /\ PaddedBs(n) \in Int
  <2>1. PaddedBs(n) \in captureBs
    BY <1>3
  <2>2. \A y \in captureBs : y \in Int
    BY <1>1, PoolAssumption
  <2> QED BY <2>1, <2>2
<1>5. n <= PaddedBs(n) /\ PaddedBs(n) <= n
  BY <1>2, <1>3
<1> QED BY <1>4, <1>5

\* The replay of a batch of a captured size is a forward pass on it: the program of
\* each request, and no other, writes the request's state slot.
LEMMA ReplayIsForward ==
  ASSUME Inductive, GraphInv, BlockSize > 1, extended # {},
         Cardinality(extended) \in captureBs,
         NEW order \in [1 .. Cardinality(extended) -> extended],
         Injective(order), Replay(order)
  PROVE  Forward
<1> DEFINE n == Cardinality(extended)
           rows == PopulatedRows(order)
           lens == PopulatedLens(order)
           slots == StateSlots(n, rows, lens)
           BlockOf(i) == IF i <= Len(order) THEN CurrentBlock(order[i]) ELSE {}
<1>1. n \in Nat /\ Len(order) = n
  BY BatchFinite
<1>2. PaddedBs(Len(order)) = n /\ n <= MaxBs /\ MaxBs \in Nat
  BY <1>1, CapturedSize, LargestCaptured
<1>3. \A i \in 1 .. n : rows[i] = row[order[i]]
  BY <1>1, <1>2 DEF PopulatedRows
<1>4. \A i \in 1 .. n : lens[i] = Cardinality(TokensOf(kv[order[i]]))
  BY <1>1, <1>2 DEF PopulatedLens
<1>5. {i \in 1 .. n : lens[i] = BackendFillValue} = {}
  BY <1>4, RowsAreNoPadding
<1>6. \A i \in 1 .. n : slots[i] = StateSlot(order[i])
  <2>1. slots = [i \in 1 .. n |-> IF i > n - 0 THEN PadStateSlot ELSE mambaOf[rows[i]]]
    BY <1>5, FS_EmptySet DEF StateSlots
  <2>2. ASSUME NEW i \in 1 .. n PROVE slots[i] = mambaOf[rows[i]]
    BY <1>1, <2>1
  <2> QED BY <1>3, <2>2 DEF StateSlot
<1>7. {slots[i] : i \in 1 .. n} = {StateSlot(r) : r \in extended}
  <2>1. \A r \in extended : \E i \in 1 .. n : order[i] = r
    BY Zenon, OrderOnto
  <2>2. \A i \in 1 .. n : order[i] \in extended
    OBVIOUS
  <2> HIDE DEF n, slots
  <2> QED BY <1>6, <2>1, <2>2
<1> DEFINE m == PaddedBs(Len(order))
           on == StateSlots(m, rows, lens)
<1>8. /\ \E writer \in [{on[i] : i \in 1 .. m} -> 1 .. m] :
           /\ \A s \in DOMAIN writer : on[writer[s]] = s
           /\ working' = [s \in SlotIds |->
                            IF s \in DOMAIN writer
                            THEN Folded(s, BlockOf(writer[s]))
                            ELSE working[s]]
      /\ forwarded' = TRUE
      /\ UNCHANGED <<row, slot, mambaOf, freeRows, freeSlots, freeCells,
                     kv, prefix, committed, extended, staged>>
  BY Zenon DEF Replay
<1>9. m = n /\ on = slots
  BY <1>2
<1> HIDE DEF m, on, rows, lens, slots
<1>10. PICK writer \in [{on[i] : i \in 1 .. m} -> 1 .. m] :
           /\ \A s \in DOMAIN writer : on[writer[s]] = s
           /\ working' = [s \in SlotIds |->
                            IF s \in DOMAIN writer
                            THEN Folded(s, BlockOf(writer[s]))
                            ELSE working[s]]
  BY Zenon, <1>8
<1> DEFINE W == {StateSlot(r) : r \in extended}
           req == [s \in W |-> order[writer[s]]]
<1>11. writer \in [W -> 1 .. n] /\ req \in [W -> extended]
  <2>1. {on[i] : i \in 1 .. m} = W
    BY Zenon, <1>7, <1>9
  <2>2. writer \in [W -> 1 .. n]
    BY Zenon, <1>10, <1>9, <2>1
  <2> QED BY Zenon, <2>2
<1>12. \A s \in W : StateSlot(req[s]) = s /\ BlockOf(writer[s]) = CurrentBlock(req[s])
  <2> SUFFICES ASSUME NEW s \in W
               PROVE  StateSlot(req[s]) = s /\ BlockOf(writer[s]) = CurrentBlock(req[s])
    OBVIOUS
  <2>1. writer[s] \in 1 .. n /\ slots[writer[s]] = s /\ req[s] = order[writer[s]]
    BY Zenon, <1>7, <1>10, <1>11, <1>9
  <2> QED BY <1>1, <1>6, <2>1
<1>13. working' = [s \in SlotIds |-> IF s \in DOMAIN req
                                     THEN Folded(s, CurrentBlock(req[s]))
                                     ELSE working[s]]
  BY Zenon, <1>7, <1>10, <1>11, <1>12, <1>9
<1>14. ForwardPass(extended)
  BY Zenon, <1>8, <1>11, <1>12, <1>13 DEF ForwardPass
<1> QED BY <1>8, <1>14 DEF Forward

\* A step of the replaying server is one of the contract, as long as the batch is not
\* padded; the rows it extends end in a whole block.
LEMMA GraphStep ==
  ASSUME Inductive, GraphInv, Unpadded, BlockSize > 1, [GNext]_gvars
  PROVE  [Next]_vars /\ GraphInv'
<1>1. CASE UNCHANGED gvars
  BY <1>1 DEF gvars, vars, poolVars, GraphInv, CurrentBlock
<1>2. ASSUME extended = {}, UNCHANGED <<captureBs, bufRow>>,
             NEW batch \in SUBSET (Reqs \ staged),
             NEW newRow \in [NeedRow(batch) -> freeRows],
             NEW newSlot \in [NeedSlot(batch) -> freeSlots],
             NEW newCells \in [batch -> kSubset(BlockSize, freeCells)],
             Extend(batch, newRow, newSlot, newCells)
      PROVE  Next /\ GraphInv'
  <2>1. newCells \in [batch -> SUBSET freeCells]
        /\ \A r \in batch : Cardinality(newCells[r]) = BlockSize
    BY <1>2 DEF kSubset
  <2>2. Next
    BY <1>2, <2>1 DEF Next
  <2>3. ASSUME NEW r \in batch PROVE CurrentBlock(r)' = newCells[r]
    <3>1. r \in Reqs /\ prefix[r] \in Seq(SUBSET Cells) /\ freeCells \subseteq Cells
      BY <1>2 DEF Inductive, TypeOK
    <3>2. kv'[r] = Append(prefix[r], newCells[r]) /\ newCells[r] \in SUBSET Cells
      BY <1>2, <2>1, <3>1 DEF Extend, AllocForExtend
    <3> QED BY <3>1, <3>2, LastOfAppend DEF CurrentBlock
  <2>4. GraphInv'
    BY <1>2, <2>1, <2>3 DEF GraphInv, Extend
  <2> QED BY <2>2, <2>4
<1>3. CASE EagerForward
  <2>1. Forward /\ UNCHANGED <<kv, extended, captureBs>>
    BY <1>3 DEF EagerForward, Forward, ForwardPass
  <2> QED BY <2>1 DEF Next, GraphInv, CurrentBlock
<1>4. CASE GraphForward
  <2>1. PICK order \in [1 .. Cardinality(extended) -> extended] :
          Injective(order) /\ Replay(order)
    BY <1>4 DEF GraphForward
  <2>2. extended # {} /\ Cardinality(extended) <= MaxBs
    BY <1>4 DEF GraphForward
  <2>3. Cardinality(extended) \in captureBs
    BY <2>2, BatchFinite, LargestCaptured DEF Unpadded
  <2>4. Forward
    BY <2>1, <2>2, <2>3, ReplayIsForward
  <2>5. UNCHANGED <<kv, extended, captureBs>>
    BY Zenon, <2>1 DEF Replay
  <2> QED BY <2>4, <2>5 DEF Next, GraphInv, CurrentBlock
<1>5. ASSUME NEW finished \in SUBSET extended, Finish(finished),
             UNCHANGED <<captureBs, bufRow>>
      PROVE  Next /\ GraphInv'
  <2>1. extended' = {}
    BY <1>5 DEF Finish
  <2> QED BY <1>5, <2>1 DEF Next, GraphInv
<1>6. CASE Stash(staged) /\ UNCHANGED <<captureBs, bufRow>>
  <2>1. Next
    BY <1>6 DEF Next
  <2>2. UNCHANGED <<kv, extended, captureBs>>
    BY <1>6 DEF Stash, StashRequests
  <2> QED BY <2>1, <2>2 DEF GraphInv, CurrentBlock
<1>7. CASE Flush /\ UNCHANGED <<captureBs, bufRow>>
  <2>1. UNCHANGED <<kv, extended, captureBs>>
    BY <1>7 DEF Flush, ClearPools
  <2> QED BY <1>7, <2>1 DEF Next, GraphInv, CurrentBlock
<1> QED BY <1>1, <1>2, <1>3, <1>4, <1>5, <1>6, <1>7 DEF GNext

\* As long as no batch is padded, a server that mixes replayed and eager passes
\* implements the contract of the pools, whatever an earlier batch left in the buffer
\* of rows (CudaGraphRunner.replay).
THEOREM UnpaddedReplaysImplement ==
  ASSUME BlockSize > 1
  PROVE  GSpec /\ []Unpadded => ReplayImplementsContract /\ []ReplayWritesOwnStates
<1>1. GInit => Init /\ Inductive /\ GraphInv
  BY InitInductive DEF GInit, GraphInv, Init
<1>2. Inductive /\ GraphInv /\ Unpadded /\ [GNext]_gvars
        => [Next]_vars /\ Inductive' /\ GraphInv'
  BY GraphStep, NextInductive
<1>3. Inductive => ReplayWritesOwnStates
  BY Zenon DEF Inductive, ReplayWritesOwnStates
<1> QED BY <1>1, <1>2, <1>3, PTL DEF GSpec, Spec, ReplayImplementsContract

\* The sizes up to some size are captured, each of them.
EverySizeCaptured == \A sizes \in CaptureSizes : \E k \in Nat : sizes = 1 .. k

\* A server that captures every size up to its largest pads no batch, and so
\* implements the contract of the pools.
THEOREM ReplaysImplement ==
  ASSUME BlockSize > 1, EverySizeCaptured
  PROVE  GSpec => ReplayImplementsContract
<1>1. Inductive /\ GraphInv => Unpadded
  <2> SUFFICES ASSUME Inductive, GraphInv, extended # {}, ~(Cardinality(extended) > MaxBs)
               PROVE  Cardinality(extended) \in captureBs
    BY DEF Unpadded
  <2>1. PICK k \in Nat : captureBs = 1 .. k
    BY DEF EverySizeCaptured, GraphInv
  <2>2. Cardinality(extended) \in Nat /\ Cardinality(extended) # 0
    BY BatchFinite, FS_EmptySet
  <2>3. MaxBs \in 1 .. k
    BY <2>1, LargestCaptured
  <2> QED BY <2>1, <2>2, <2>3
<1>2. GInit => Init /\ Inductive /\ GraphInv
  BY InitInductive DEF GInit, GraphInv, Init
<1>3. Inductive /\ GraphInv /\ [GNext]_gvars => [Next]_vars /\ Inductive' /\ GraphInv'
  BY <1>1, GraphStep, NextInductive
<1> QED BY <1>2, <1>3, PTL DEF GSpec, Spec, ReplayImplementsContract

\* After a replay every request of the batch has its own tokens, each folded once, in
\* the working state of its slot, when every size is captured.
THEOREM ReplaysWriteOwnStates ==
  ASSUME BlockSize > 1, EverySizeCaptured
  PROVE  GSpec => []ReplayWritesOwnStates
<1>1. Inductive => ReplayWritesOwnStates
  BY Zenon DEF Inductive, ReplayWritesOwnStates
<1>2. GSpec => Spec
  BY ReplaysImplement DEF ReplayImplementsContract
<1> QED BY <1>1, <1>2, InductiveHolds, PTL

=============================================================================
