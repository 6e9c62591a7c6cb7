------------------------ MODULE DllmSchedulerProofs -------------------------
(***************************************************************************)
(* Proofs about the scheduler's event loop, for every number of requests,  *)
(* rows, slots and KV cells, and for every block size and budget.          *)
(***************************************************************************)
EXTENDS SchedulerRoundProofs

-----------------------------------------------------------------------------
(* A round keeps the invariant. *)

\* Whether the batch is empty, allocated for or refused: what the round has made of
\* the queues and of the requests satisfies the invariant of the loop.
LEMMA RoundKeepsInvariant ==
  ASSUME LoopInv, PoolFacts, At("sched"),
         waitingQ' = Rest, dllmQ' = RoundQueue, aborted' = aborted, prefix' = prefix,
         stagingQ' = Round.adder.canRun, batch' = Round.adder.canRun,
         batchFull' = Round.full, req' = Round.adder.req,
         \A r \in Reqs : row'[r] = None <=>
           row[r] = None /\ ~(pc' = "forward" /\ r \in Range(Round.adder.canRun)),
         \/ pc' = "idle" /\ crash' = "no" /\ Round.adder.canRun = <<>>
         \/ /\ pc' = "forward" /\ crash' = "no" /\ Round.adder.canRun # <<>>
            /\ \A r \in Range(Round.adder.canRun) :
                 StoredLen(r)' = PrefixLen[r] + Round.adder.req[r].ext
         \/ pc' = "sched" /\ crash' \in {"request slots", "kv cells"}
  PROVE  LoopInv'
<1> DEFINE list == Round.adder.canRun
           Q == Range(RoundQueue)
           L == Range(list)
<1>1. TypeOK /\ QueueFacts /\ pc = "sched" /\ crash = "no"
  BY Zenon, QueueForms DEF LoopInv, At
<1>2. /\ RoundQueue \in Seq(Reqs) /\ IsInjective(RoundQueue) /\ Len(RoundQueue) <= MaxRunning
      /\ Rest \in Seq(Reqs) /\ IsInjective(Rest)
      /\ Q \subseteq Reqs /\ Range(Rest) \subseteq Range(waitingQ)
      /\ Q \cup Range(Rest) = Range(dllmQ) \cup Range(waitingQ)
      /\ Q \cap Range(Rest) = {}
      /\ Range(dllmQ) \subseteq Q
  BY Zenon, QueueOfRound
<1>3. /\ req' \in [Reqs -> ReqType] /\ batchFull' \in BOOLEAN
      /\ list \in Seq(Reqs) /\ IsInjective(list) /\ L \subseteq Q
      /\ \A r \in Reqs \ Q : req'[r] = req[r]
      /\ \A r \in Q : RoundOf(r)
  BY Zenon, RoundOfRequests
<1>4. PrefixLen' = PrefixLen
  BY Zenon DEF PrefixLen
<1>5. ASSUME NEW r \in Q
      PROVE  /\ Live(r) /\ r \in Reqs /\ Static(req'[r], req[r])
             /\ r \in L => /\ Admitted(req'[r], PrefixLen[r])
                           /\ req'[r].phase \in Staging /\ req'[r].fill > 0
             /\ r \notin L => \/ Parked(req'[r], PrefixLen[r]) /\ req'[r].phase \in Staging
                              \/ req'[r] = req[r] /\ req'[r].phase \notin Staging
  <2>1. RoundOf(r)
    BY Zenon, <1>3
  <2> QED BY Zenon, <1>2, <2>1 DEF RoundOf
<1>6. /\ \/ pc' = "idle" /\ crash' = "no" /\ list = <<>>
         \/ /\ pc' = "forward" /\ crash' = "no" /\ list # <<>>
            /\ \A r \in L : StoredLen(r)' = PrefixLen[r] + req'[r].ext
         \/ pc' = "sched" /\ crash' \in {"request slots", "kv cells"}
      /\ stagingQ' = list /\ batch' = list
      /\ \A r \in Reqs : row'[r] = None <=> row[r] = None /\ ~(pc' = "forward" /\ r \in L)
  OBVIOUS
<1> HIDE DEF list, L, Q
<1>7. \A r \in Reqs : Live(r)' <=> Live(r)
  <2>1. \A r \in Reqs : req'[r].status = req[r].status
    BY Zenon, <1>3, <1>5 DEF Static
  <2> QED BY Zenon, <2>1 DEF Live
<1>8. Range(stagingQ') = L /\ Range(dllmQ') = Q
  BY Zenon, <1>6 DEF L, Q
<1>9. TypeOK'
  BY Zenon, <1>1, <1>2, <1>3, <1>6 DEF TypeOK
<1>10. QueueInv'
  <2>1. /\ Range(waitingQ') \cap Range(dllmQ') = {}
        /\ \A q \in Reqs : Live(q)' => q \in Range(waitingQ') \/ q \in Range(dllmQ')
    <3>1. \A q \in Reqs : Live(q) => q \in Range(waitingQ) \/ q \in Range(dllmQ)
      BY Zenon, <1>1 DEF QueueFacts
    <3> QED BY Zenon, <1>2, <1>7, <1>8, <3>1
  <2>2. \A q \in Range(waitingQ') : Live(q)' /\ row'[q] = None
    <3>1. \A q \in Range(waitingQ) : Live(q) /\ row[q] = None
      BY Zenon, <1>1 DEF QueueFacts
    <3>2. Range(waitingQ') \subseteq Reqs
      BY Zenon, <1>2, QueueMembers
    <3> QED BY Zenon, <1>2, <1>3, <1>6, <1>7, <3>1, <3>2
  <2>3. \A q \in Q : q \in Reqs /\ Live(q)'
    BY Zenon, <1>5, <1>7
  <2>4. \A q \in Reqs : row'[q] # None => Live(q)' /\ q \in Range(dllmQ')
    <3>1. \A q \in Reqs : row[q] # None => Live(q) /\ q \in Range(dllmQ)
      BY Zenon, <1>1 DEF QueueFacts
    <3> QED BY Zenon, <1>2, <1>3, <1>5, <1>6, <1>7, <1>8, <3>1
  <2>5. /\ IsInjective(waitingQ') /\ IsInjective(dllmQ') /\ Len(dllmQ') <= MaxRunning
        /\ Range(stagingQ') \subseteq Range(dllmQ')
        /\ \A q \in Range(dllmQ') : Live(q)'
    BY Zenon, <1>2, <1>3, <1>8, <2>3
  <2>6. \A q \in Range(dllmQ') : req'[q].status \in {"live", "finished"}
    BY Zenon, <2>5 DEF Live
  <2>7. /\ pc' \in {"forward", "result"} => batch' = stagingQ' /\ batch' # <<>>
        /\ At("idle")' => batch' = <<>> /\ stagingQ' = <<>>
        /\ crash' # "no" => pc' \in {"sched", "idle", "forward"}
        /\ pc' # "recv"
    BY Zenon, <1>6 DEF At
  <2>8. QueueFacts'
    BY Zenon, <2>1, <2>2, <2>4, <2>5, <2>6, <2>7 DEF QueueFacts
  <2> QED BY Zenon, <1>9, <2>8, QueueFormsNext
<1>11. ASSUME NEW r \in Reqs, Live(r)' PROVE RequestInv(r)'
  <2>1. Live(r) /\ RequestInv(r)
    BY Zenon, <1>7, <1>11 DEF LoopInv
  <2>2. row'[r] = None => row[r] = None
    BY Zenon, <1>6
  <2>3. CASE r \in Q
    <3>1. /\ req'[r].prompt = req[r].prompt /\ req'[r].out = req[r].out
          /\ req'[r].maxNew = req[r].maxNew
      BY Zenon, <1>5, <2>3 DEF Static
    <3>2. r \notin Range(waitingQ')
      BY Zenon, <1>2, <2>3
    <3>3. req'[r].phase \notin Staging => req'[r].fill = 0 /\ row'[r] = None
      <4> SUFFICES ASSUME req'[r].phase \notin Staging PROVE req'[r].fill = 0 /\ row'[r] = None
        OBVIOUS
      <4>1. r \notin L /\ req'[r] = req[r]
        BY Zenon, <1>5, <2>3
      <4>2. req[r].fill = 0 /\ row[r] = None
        BY Zenon, <2>1, <4>1 DEF RequestInv
      <4> QED BY Zenon, <1>6, <4>1, <4>2
    <3>4. r \notin Range(stagingQ') /\ req'[r].phase \in Staging => Parked(req'[r], PrefixLen[r])
      BY Zenon, <1>5, <1>8, <2>3
    <3> QED BY Zenon, <1>4, <2>1, <2>2, <3>1, <3>2, <3>3, <3>4 DEF RequestInv
  <2>4. CASE r \notin Q
    <3>1. req'[r] = req[r] /\ r \notin L
      BY Zenon, <1>3, <2>4
    <3>2. r \in Range(waitingQ)
      BY Zenon, <1>1, <1>2, <2>1, <2>4 DEF QueueFacts
    <3>3. req[r].phase \notin Staging /\ row'[r] = None
      BY Zenon, <1>6, <2>1, <3>1, <3>2 DEF RequestInv
    <3> QED BY Zenon, <1>4, <2>1, <2>2, <3>1, <3>3 DEF RequestInv
  <2> QED BY Zenon, <2>3, <2>4
<1>12. ASSUME crash' = "no", NEW r \in Range(stagingQ'), Live(r)' PROVE StagedInv(r)'
  <2>1. r \in L /\ r \in Q /\ r \in Reqs
    BY Zenon, <1>2, <1>3, <1>8
  <2>2. pc' = "forward" /\ StoredLen(r)' = PrefixLen[r] + req'[r].ext
    <3>1. list # <<>>
      BY Zenon, <2>1, EmptyQueue DEF L
    <3> QED BY <1>6, <1>12, <2>1, <3>1
  <2>3. Admitted(req'[r], PrefixLen[r]) /\ req'[r].phase \in Staging /\ req'[r].fill > 0
    BY Zenon, <1>5, <2>1
  <2>4. row'[r] # None
    BY <1>6, <2>1, <2>2
  <2>5. pc' # "recv" /\ pc' # "sched" /\ pc' # "result"
    BY <2>2
  <2> QED BY Zenon, <1>4, <2>2, <2>3, <2>4, <2>5 DEF StagedInv
<1> QED BY Zenon, <1>9, <1>10, <1>11, <1>12 DEF LoopInv

-----------------------------------------------------------------------------
(* prepare_for_extend as a step of the contract. *)

\* A row that gets new cells behind its prefix has as many tokens as both together.
LEMMA AppendedLength ==
  ASSUME NEW p \in Seq(SUBSET Cells), NEW c \in SUBSET Cells, c \cap TokensOf(p) = {}
  PROVE  Cardinality(TokensOf(Append(p, c))) = Cardinality(TokensOf(p)) + Cardinality(c)
<1>1. TokensOf(Append(p, c)) = TokensOf(p) \cup c
  <2>1. /\ DOMAIN p = 1 .. Len(p) /\ DOMAIN Append(p, c) = 1 .. Len(p) + 1
        /\ \A i \in 1 .. Len(p) : Append(p, c)[i] = p[i]
        /\ Append(p, c)[Len(p) + 1] = c
        /\ Len(p) \in Nat
    OBVIOUS
  <2>2. ASSUME NEW x \in TokensOf(Append(p, c)) PROVE x \in TokensOf(p) \cup c
    <3>1. PICK i \in 1 .. Len(p) + 1 : x \in Append(p, c)[i]
      BY <2>1, <2>2 DEF TokensOf
    <3>2. CASE i = Len(p) + 1
      BY <2>1, <3>1, <3>2
    <3>3. CASE i # Len(p) + 1
      <4>1. i \in 1 .. Len(p)
        BY <2>1, <3>3
      <4>2. x \in p[i]
        BY <2>1, <3>1, <4>1
      <4> QED BY <2>1, <4>1, <4>2 DEF TokensOf
    <3> QED BY <3>2, <3>3
  <2>3. ASSUME NEW x \in TokensOf(p) PROVE x \in TokensOf(Append(p, c))
    <3>1. PICK i \in 1 .. Len(p) : x \in p[i]
      BY <2>1, <2>3 DEF TokensOf
    <3>2. i \in DOMAIN Append(p, c) /\ x \in Append(p, c)[i]
      BY <2>1, <3>1
    <3> QED BY <3>2 DEF TokensOf
  <2>4. ASSUME NEW x \in c PROVE x \in TokensOf(Append(p, c))
    <3>1. Len(p) + 1 \in DOMAIN Append(p, c) /\ x \in Append(p, c)[Len(p) + 1]
      BY <2>1, <2>4
    <3> QED BY <3>1 DEF TokensOf
  <2> QED BY <2>2, <2>3, <2>4
<1>2. TokensOf(p) \subseteq Cells
  BY DEF TokensOf
<1>3. IsFiniteSet(TokensOf(p)) /\ IsFiniteSet(c)
  BY Zenon, <1>2, SchedulerAssumption, FS_Subset
<1>4. Cardinality(TokensOf(p) \cup c)
        = Cardinality(TokensOf(p)) + Cardinality(c) - Cardinality(TokensOf(p) \cap c)
  BY <1>3, FS_Union
<1>5. TokensOf(p) \cap c = {}
  OBVIOUS
<1>6. Cardinality(TokensOf(p)) \in Nat /\ Cardinality(c) \in Nat
  BY <1>3, FS_CardinalityType
<1>7. Cardinality(TokensOf(p) \cap c) = 0
  BY Zenon, <1>5, FS_EmptySet
<1> QED BY <1>1, <1>4, <1>6, <1>7

\* What alloc_for_extend does to the requests: those of the batch own rows, whose
\* last block is the new one, and the others keep what they have.
LEMMA AllocatedRequests ==
  ASSUME PoolFacts, Extended = {}, Staged = {}, NEW b, b \subseteq Reqs,
         NEW newRow, NEW newSlot, NEW newCells,
         AllocForExtend(b, newRow, newSlot, newCells)
  PROVE  /\ \A r \in Reqs : row'[r] = None <=> row[r] = None /\ r \notin b
         /\ \A r \in b : StoredLen(r)' = PrefixLen[r] + Cardinality(newCells[r])
         /\ newRow = [r \in NeedRow(b) |-> row'[r]]
         /\ newSlot = [r \in NeedSlot(b) |-> slot'[r]]
         /\ newCells = [r \in b |-> kv'[r][Len(kv'[r])]]
         /\ prefix' = prefix
<1>1. /\ newRow \in [NeedRow(b) -> freeRows]
      /\ newSlot \in [NeedSlot(b) -> freeSlots]
      /\ newCells \in [b -> SUBSET freeCells]
      /\ row' = [r \in Reqs |-> IF r \in NeedRow(b) THEN newRow[r] ELSE row[r]]
      /\ slot' = [r \in Reqs |-> IF r \in NeedSlot(b) THEN newSlot[r] ELSE slot[r]]
      /\ kv' = [r \in Reqs |-> IF r \in b THEN Append(prefix[r], newCells[r]) ELSE kv[r]]
      /\ prefix' = prefix
  BY DEF AllocForExtend
<1>2. NeedRow(b) \subseteq b /\ NeedSlot(b) \subseteq b
  BY DEF NeedRow, NeedSlot
<1>3. /\ freeRows \subseteq Rows /\ freeCells \subseteq Cells
      /\ prefix \in [Reqs -> Seq(SUBSET Cells)]
      /\ \A r \in Reqs : kv[r] = prefix[r] /\ freeCells \cap TokensOf(kv[r]) = {}
  BY DEF PoolFacts
<1>4. \A r \in NeedRow(b) : newRow[r] # None
  BY <1>1, <1>3 DEF Rows, None
<1>5. \A r \in Reqs : row'[r] = None <=> row[r] = None /\ r \notin b
  BY <1>1, <1>2, <1>4 DEF NeedRow
<1>6. newRow = [r \in NeedRow(b) |-> row'[r]]
  BY <1>1, <1>2
<1>7. newSlot = [r \in NeedSlot(b) |-> slot'[r]]
  BY <1>1, <1>2
<1>8. ASSUME NEW r \in b
      PROVE  /\ StoredLen(r)' = PrefixLen[r] + Cardinality(newCells[r])
             /\ kv'[r][Len(kv'[r])] = newCells[r]
  <2>1. r \in Reqs /\ kv'[r] = Append(prefix[r], newCells[r])
    BY <1>1
  <2>2. prefix[r] \in Seq(SUBSET Cells) /\ newCells[r] \in SUBSET Cells
    BY <1>1, <1>3, <2>1
  <2>3. newCells[r] \cap TokensOf(prefix[r]) = {}
    BY <1>1, <1>3, <2>1
  <2>4. Cardinality(TokensOf(kv'[r])) = Cardinality(TokensOf(prefix[r])) + Cardinality(newCells[r])
    BY <2>1, <2>2, <2>3, AppendedLength
  <2>5. PrefixLen[r] = Cardinality(TokensOf(prefix[r]))
    BY <2>1 DEF PrefixLen
  <2>6. StoredLen(r)' = Cardinality(TokensOf(kv'[r]))
    BY DEF StoredLen
  <2>7. kv'[r][Len(kv'[r])] = newCells[r]
    BY <2>1, <2>2
  <2> QED BY <2>4, <2>5, <2>6, <2>7
<1>9. newCells = [r \in b |-> kv'[r][Len(kv'[r])]]
  BY <1>1, <1>8
<1> QED BY Zenon, <1>1, <1>5, <1>6, <1>7, <1>8, <1>9

\* Which requests a round takes, and how many cells they need.
BatchOfRound == Range(Round.adder.canRun)
ExtOfRound == [r \in BatchOfRound |-> Round.adder.req[r].ext]

\* The branches of Schedule.
RoundIdle == Round.adder.canRun = <<>> /\ pc' = "idle" /\ UNCHANGED <<poolVars, crash>>

RoundRuns ==
  /\ Round.adder.canRun # <<>>
  /\ CellsBefore(Round.adder.canRun, ExtOfRound)[Len(Round.adder.canRun)]
       <= Cardinality(freeCells)
  /\ \E newRow \in [NeedRow(BatchOfRound) -> freeRows],
        newSlot \in [NeedSlot(BatchOfRound) -> freeSlots] :
       AllocForExtend(BatchOfRound, newRow, newSlot,
                      CellsFor(Round.adder.canRun, ExtOfRound))
  /\ pc' = "forward" /\ UNCHANGED crash

RoundFails ==
  crash' \in {"request slots", "kv cells"} /\ UNCHANGED <<poolVars, pc>>

\* Schedule in these terms.
LEMMA ScheduleBranches ==
  ASSUME Schedule
  PROVE  /\ At("sched")
         /\ waitingQ' = Rest /\ dllmQ' = RoundQueue /\ aborted' = aborted
         /\ stagingQ' = Round.adder.canRun /\ batch' = Round.adder.canRun
         /\ batchFull' = Round.full /\ req' = Round.adder.req
         /\ RoundIdle \/ RoundRuns \/ RoundFails
  BY Zenon DEF Schedule, Rest, RoundQueue, Fetched, Round, Start, RoundIdle, RoundRuns,
     RoundFails, BatchOfRound, ExtOfRound

\* A round that runs allocates what the contract allows.
LEMMA RoundExtends ==
  ASSUME LoopInv, PoolFacts, At("sched"), batch' = Round.adder.canRun,
         stagingQ' = Round.adder.canRun, RoundRuns
  PROVE  /\ \A r \in Reqs : row'[r] = None <=> row[r] = None /\ r \notin BatchOfRound
         /\ \A r \in BatchOfRound : StoredLen(r)' = PrefixLen[r] + Round.adder.req[r].ext
         /\ prefix' = prefix
         /\ ContractNext
<1> DEFINE list == Round.adder.canRun
           cells == CellsFor(list, ExtOfRound)
<1>1. /\ list \in Seq(Reqs) /\ IsInjective(list)
      /\ BatchOfRound \subseteq Range(RoundQueue)
      /\ Round.adder.req \in [Reqs -> ReqType]
      /\ \A r \in Range(RoundQueue) : RoundOf(r)
  BY RoundOfRequests DEF BatchOfRound
<1>2. BatchOfRound \subseteq Reqs /\ BatchOfRound # {}
  <2>1. list # <<>>
    BY DEF RoundRuns
  <2> QED BY <1>1, <2>1, QueueMembers DEF BatchOfRound
<1>3. \A r \in BatchOfRound : Round.adder.req[r].ext \in Nat /\ Round.adder.req[r].ext > 0
  <2> SUFFICES ASSUME NEW r \in BatchOfRound
               PROVE  Round.adder.req[r].ext \in Nat /\ Round.adder.req[r].ext > 0
    OBVIOUS
  <2>1. RoundOf(r) /\ r \in Reqs
    BY <1>1, <1>2
  <2>2. Admitted(Round.adder.req[r], PrefixLen[r])
    BY Zenon, <2>1 DEF RoundOf, BatchOfRound
  <2>3. Round.adder.req[r] \in ReqType
    BY <1>1, <2>1
  <2> QED BY <2>2, <2>3 DEF Admitted, ReqType
<1>4. ExtOfRound \in [Range(list) -> Nat]
  BY <1>3 DEF ExtOfRound, BatchOfRound
<1>5. freeCells \in SUBSET Cells
  BY DEF PoolFacts
<1>6. CellsBefore(list, ExtOfRound)[Len(list)] <= Cardinality(freeCells)
  BY Zenon DEF RoundRuns
<1>7. \A r \in BatchOfRound : IsFiniteSet(cells[r]) /\ Cardinality(cells[r]) = ExtOfRound[r]
  <2> HIDE DEF list
  <2>1. \A r \in Range(list) : IsFiniteSet(cells[r]) /\ Cardinality(cells[r]) = ExtOfRound[r]
    BY Zenon, <1>1, <1>4, <1>5, <1>6, CellsForBatch
  <2> QED BY <2>1 DEF BatchOfRound, list
<1>8. PICK newRow \in [NeedRow(BatchOfRound) -> freeRows],
           newSlot \in [NeedSlot(BatchOfRound) -> freeSlots] :
        AllocForExtend(BatchOfRound, newRow, newSlot, cells)
  BY Zenon DEF RoundRuns
<1>9. Extended = {} /\ Staged = {}
  BY DEF At, Extended, Staged
<1> HIDE DEF cells
<1>10. /\ \A r \in Reqs : row'[r] = None <=> row[r] = None /\ r \notin BatchOfRound
       /\ \A r \in BatchOfRound : StoredLen(r)' = PrefixLen[r] + Cardinality(cells[r])
       /\ newRow = [r \in NeedRow(BatchOfRound) |-> row'[r]]
       /\ newSlot = [r \in NeedSlot(BatchOfRound) |-> slot'[r]]
       /\ cells = [r \in BatchOfRound |-> kv'[r][Len(kv'[r])]]
       /\ prefix' = prefix
  BY <1>2, <1>8, <1>9, AllocatedRequests
<1>11. \A r \in BatchOfRound : Cardinality(cells[r]) = Round.adder.req[r].ext
  BY <1>7 DEF ExtOfRound
<1>12. \A r \in BatchOfRound : cells[r] # {}
  <2> SUFFICES ASSUME NEW r \in BatchOfRound, cells[r] = {} PROVE FALSE
    OBVIOUS
  <2>1. Cardinality(cells[r]) = 0
    BY FS_EmptySet
  <2>2. Round.adder.req[r].ext = 0
    BY Zenon, <1>11, <2>1
  <2>3. Round.adder.req[r].ext > 0
    BY Zenon, <1>3
  <2> QED BY <2>2, <2>3
<1>13. Extended' = BatchOfRound /\ Staged' = {} /\ (pc = "result")' = FALSE /\ (pc = "result") = FALSE
  BY DEF RoundRuns, Extended, Staged, BatchOfRound, At
<1>14. Contract!AllocForExtend(BatchOfRound, newRow, newSlot, cells)
  BY Zenon, <1>8 DEF AllocForExtend, Contract!AllocForExtend, NeedRow, Contract!NeedRow,
     NeedSlot, Contract!NeedSlot, Zeroed, Contract!Zeroed, Injective, Contract!Injective,
     None, Contract!None, Rows, Contract!Rows, SlotIds, Contract!SlotIds
<1>15. Contract!Extend(BatchOfRound, newRow, newSlot, cells)
  BY <1>2, <1>9, <1>12, <1>13, <1>14 DEF Contract!Extend
<1>16. Contract!Extend(Extended',
                       [r \in NeedRow(Extended') |-> row'[r]],
                       [r \in NeedSlot(Extended') |-> slot'[r]],
                       [r \in Extended' |-> kv'[r][Len(kv'[r])]])
  <2>1. /\ newRow = [r \in NeedRow(Extended') |-> row'[r]]
        /\ newSlot = [r \in NeedSlot(Extended') |-> slot'[r]]
        /\ cells = [r \in Extended' |-> kv'[r][Len(kv'[r])]]
    BY Zenon, <1>10, <1>13
  <2> QED BY Zenon, <1>13, <1>15, <2>1
<1>17. ContractNext
  BY Zenon, <1>9, <1>16 DEF ContractNext
<1> QED BY <1>10, <1>11, <1>17

\* get_new_batch_dllm keeps the invariant and is a step of the contract, or none.
LEMMA ScheduleStep ==
  ASSUME LoopInv, PoolFacts, Schedule
  PROVE  LoopInv' /\ (ContractNext \/ UNCHANGED Contract!vars)
<1>1. /\ At("sched")
      /\ waitingQ' = Rest /\ dllmQ' = RoundQueue /\ aborted' = aborted
      /\ stagingQ' = Round.adder.canRun /\ batch' = Round.adder.canRun
      /\ batchFull' = Round.full /\ req' = Round.adder.req
      /\ RoundIdle \/ RoundRuns \/ RoundFails
  BY ScheduleBranches
<1>2. pc = "sched" /\ crash = "no"
  BY <1>1 DEF At
<1>3. CASE RoundIdle \/ RoundFails
  <2>1. UNCHANGED poolVars
    BY Zenon, <1>3 DEF RoundIdle, RoundFails
  <2>2. /\ prefix' = prefix /\ row' = row
        /\ UNCHANGED <<slot, mambaOf, freeRows, freeSlots, freeCells, kv, committed, working>>
    BY <2>1 DEF poolVars
  <2>3. \/ pc' = "idle" /\ crash' = "no" /\ Round.adder.canRun = <<>>
        \/ pc' = "sched" /\ crash' \in {"request slots", "kv cells"}
    BY Zenon, <1>2, <1>3 DEF RoundIdle, RoundFails
  <2>4. pc' # "forward"
    BY Zenon, <2>3
  <2>5. LoopInv'
    BY Zenon, <1>1, <2>2, <2>3, <2>4, RoundKeepsInvariant
  <2>6. Extended' = Extended /\ Staged' = Staged /\ (pc = "result")' = (pc = "result")
    BY Zenon, <1>2, <2>3 DEF Extended, Staged
  <2>7. UNCHANGED Contract!vars
    BY <2>2, <2>6 DEF Contract!vars, Contract!poolVars
  <2> QED BY <2>5, <2>7
<1>4. CASE RoundRuns
  <2>1. /\ \A r \in Reqs : row'[r] = None <=> row[r] = None /\ r \notin Range(Round.adder.canRun)
        /\ \A r \in Range(Round.adder.canRun) :
             StoredLen(r)' = PrefixLen[r] + Round.adder.req[r].ext
        /\ prefix' = prefix
        /\ ContractNext
    BY Zenon, <1>1, <1>4, RoundExtends DEF BatchOfRound
  <2>2. pc' = "forward" /\ crash' = "no" /\ Round.adder.canRun # <<>>
    BY <1>2, <1>4 DEF RoundRuns
  <2>3. LoopInv'
    BY Zenon, <1>1, <2>1, <2>2, RoundKeepsInvariant
  <2> QED BY <2>1, <2>3
<1> QED BY <1>1, <1>3, <1>4

-----------------------------------------------------------------------------
(* Every step of the loop. *)

\* The loop starts without requests.
LEMMA LoopInitially == Init => LoopInv /\ Contract!Init
<1> SUFFICES ASSUME Init PROVE LoopInv /\ Contract!Init
  OBVIOUS
<1>1. /\ pc = "recv" /\ crash = "no" /\ waitingQ = <<>> /\ dllmQ = <<>> /\ stagingQ = <<>>
      /\ batch = <<>> /\ batchFull = FALSE /\ req = [r \in Reqs |-> NoReq] /\ aborted = {}
      /\ row = [r \in Reqs |-> None] /\ freeRows = Rows
  BY DEF Init, PoolInit
<1>2. \A r \in Reqs : req[r].status = "absent"
  BY Zenon, <1>1 DEF NoReq
<1>3. TypeOK
  <2>1. NoReq \in ReqType
    BY DEF NoReq, ReqType, Phases
  <2>2. req \in [Reqs -> ReqType]
    BY <1>1, <2>1
  <2>3. {waitingQ, dllmQ, stagingQ, batch} \subseteq Seq(Reqs)
    BY <1>1
  <2>4. batchFull \in BOOLEAN /\ aborted \subseteq Reqs
    BY Zenon, <1>1
  <2> QED BY Zenon, <1>1, <2>2, <2>3, <2>4 DEF TypeOK
<1>4. /\ Range(waitingQ) = {} /\ Range(dllmQ) = {} /\ Range(stagingQ) = {} /\ Range(batch) = {}
      /\ IsInjective(waitingQ) /\ IsInjective(dllmQ) /\ Len(dllmQ) = 0
  BY <1>1, EmptyQueue DEF IsInjective
<1>5. MaxRunning \in Nat
  BY AdderAssumption
<1>6. \A r \in Reqs : ~Live(r) /\ row[r] = None
  BY Zenon, <1>1, <1>2 DEF Live
<1>7. QueueInv
  <2>1. QueueFacts
    BY <1>1, <1>4, <1>5, <1>6 DEF QueueFacts, At
  <2> QED BY <1>3, <2>1, QueueForms
<1>8. LoopInv
  BY <1>3, <1>4, <1>6, <1>7 DEF LoopInv
<1>9. Contract!Init
  <2>1. Extended = {} /\ Staged = {} /\ (pc = "result") = FALSE
    BY <1>1, <1>4 DEF Extended, Staged
  <2>2. Contract!PoolInit
    BY Zenon DEF Init, PoolInit, Contract!PoolInit, None, Contract!None, Rows, Contract!Rows,
       Slots, Contract!Slots, SlotIds, Contract!SlotIds
  <2> QED BY <2>1, <2>2 DEF Contract!Init
<1> QED BY <1>8, <1>9

\* Every step of the loop keeps the invariant and is a step of the contract, or none.
LEMMA LoopSteps ==
  ASSUME LoopInv, PoolFacts, Next
  PROVE  LoopInv' /\ (ContractNext \/ UNCHANGED Contract!vars)
<1>1. CASE \E r \in Reqs, ask \in Asked : Receive(r, ask[1], ask[2])
  <2>1. PICK r \in Reqs, ask \in Asked : Receive(r, ask[1], ask[2])
    BY <1>1
  <2>2. ask[1] \in Nat /\ ask[2] \in Nat
    BY SchedulerAssumption
  <2> QED BY Zenon, <2>1, <2>2, ReceiveStep
<1>2. CASE \E r \in Reqs : Abort(r)
  BY <1>2, AbortStep
<1>3. CASE FlushCache
  BY Zenon, <1>3, FlushStep DEF ContractNext
<1>4. CASE \E expired \in SUBSET Reqs : FilterAndStash(expired)
  BY Zenon, <1>4, FilterAndStashStep DEF ContractNext
<1>5. CASE SkipRound
  BY Zenon, <1>5, SkipRoundStep
<1>6. CASE Schedule
  BY Zenon, <1>6, ScheduleStep
<1>7. CASE IdleCheck
  BY Zenon, <1>7, IdleCheckStep
<1>8. CASE RunBatch
  BY Zenon, <1>8, RunBatchStep DEF ContractNext
<1>9. CASE \E eos \in SUBSET Reqs : ProcessResult(eos)
  BY Zenon, <1>9, ProcessResultStep DEF ContractNext
<1> QED BY Zenon, <1>1, <1>2, <1>3, <1>4, <1>5, <1>6, <1>7, <1>8, <1>9 DEF Next, Input, LoopStep

\* A stutter of the loop.
LEMMA LoopStutters ==
  ASSUME LoopInv, UNCHANGED vars
  PROVE  LoopInv' /\ UNCHANGED Contract!vars
<1>1. /\ UNCHANGED <<row, slot, mambaOf, freeRows, freeSlots, freeCells, kv, prefix, committed, working>>
      /\ UNCHANGED <<pc, crash, waitingQ, dllmQ, stagingQ, batch, batchFull, req, aborted>>
  BY DEF vars, poolVars, loopVars
<1>2. LoopInv'
  <2>1. PrefixLen' = PrefixLen
    BY <1>1 DEF PrefixLen
  <2>2. \A r : Live(r)' <=> Live(r)
    BY <1>1 DEF Live
  <2>3. \A r : RequestInv(r)' <=> RequestInv(r)
    BY Zenon, <1>1, <2>1 DEF RequestInv
  <2>4. \A r : StagedInv(r)' <=> StagedInv(r)
    BY Zenon, <1>1, <2>1 DEF StagedInv, StoredLen
  <2>5. TypeOK' /\ QueueInv'
    <3>1. TypeOK' <=> TypeOK
      BY Zenon, <1>1 DEF TypeOK
    <3>2. QueueInv' <=> QueueInv
      BY Zenon, <1>1 DEF QueueInv, QueuesPartitionRequests, Live, At
    <3> QED BY <3>1, <3>2 DEF LoopInv
  <2> QED BY Zenon, <1>1, <2>2, <2>3, <2>4, <2>5 DEF LoopInv
<1>3. Extended' = Extended /\ Staged' = Staged
  BY <1>1 DEF Extended, Staged, Live
<1>4. UNCHANGED Contract!vars
  BY <1>1, <1>3 DEF Contract!vars, Contract!poolVars
<1> QED BY <1>2, <1>4

-----------------------------------------------------------------------------
(* Answered requests. *)

\* No step changes a request that was answered.
LEMMA AnsweredStays ==
  ASSUME LoopInv, PoolFacts, Next, NEW r \in Reqs, req[r].status \in {"finished", "dropped"}
  PROVE  req'[r] = req[r]
<1>1. TypeOK /\ QueueFacts
  BY QueueForms DEF LoopInv
<1>2. req \in [Reqs -> ReqType] /\ ~Live(r) /\ req[r].status # "absent"
  BY Zenon, <1>1 DEF TypeOK, Live
<1>3. ASSUME NEW q \in Reqs, NEW prompt, NEW maxNew, Receive(q, prompt, maxNew)
      PROVE  req'[r] = req[r]
  <2>1. q # r
    BY <1>2, <1>3 DEF Receive
  <2> QED BY <1>2, <1>3, <2>1 DEF Receive
<1>4. ASSUME NEW q \in Reqs, Abort(q) PROVE req'[r] = req[r]
  <2>1. q # r
    BY <1>2, <1>4 DEF Abort, Live
  <2>2. \E x, y : req' = [req EXCEPT ![q].status = x, ![q].toFinish = y]
    BY Zenon, <1>4 DEF Abort
  <2> QED BY <1>2, <2>1, <2>2
<1>5. ASSUME NEW expired \in SUBSET Reqs, FilterAndStash(expired) PROVE req'[r] = req[r]
  <2>1. expired \subseteq Range(waitingQ)
    BY <1>5 DEF FilterAndStash
  <2>2. r \notin expired
    BY <1>1, <1>2, <2>1 DEF QueueFacts
  <2> QED BY <1>5, <2>2 DEF FilterAndStash
<1>6. ASSUME Schedule PROVE req'[r] = req[r]
  <2>1. At("sched") /\ req' = Round.adder.req
    BY <1>6, ScheduleBranches
  <2>2. CASE r \in Range(RoundQueue)
    <3>1. RoundOf(r)
      BY <2>1, <2>2, RoundOfRequests
    <3> QED BY Zenon, <1>2, <3>1 DEF RoundOf
  <2>3. CASE r \notin Range(RoundQueue)
    BY <2>1, <2>3, RoundOfRequests
  <2> QED BY <2>2, <2>3
<1>7. ASSUME NEW eos \in SUBSET Reqs, ProcessResult(eos) PROVE req'[r] = req[r]
  <2>1. pc = "result"
    BY <1>7 DEF ProcessResult, At
  <2>2. r \notin Range(batch)
    BY <1>1, <1>2, <2>1 DEF QueueFacts
  <2> QED BY <1>7, <2>2 DEF ProcessResult
<1>8. FlushCache \/ SkipRound \/ IdleCheck \/ RunBatch => req'[r] = req[r]
  BY Zenon DEF FlushCache, SkipRound, IdleCheck, RunBatch, loopVars
<1> QED BY Zenon, <1>3, <1>4, <1>5, <1>6, <1>7, <1>8 DEF Next, Input, LoopStep

\* The output of a finished request is beyond its limit by less than a block.
FinishedShort ==
  \A r \in Reqs : req[r].status = "finished" => req[r].out < Limit(req[r]) + BlockSize

\* Only the check of a batch's result finishes a request.
LEMMA FinishesInResult ==
  ASSUME LoopInv, PoolFacts, Next, NEW r \in Reqs,
         req[r].status # "finished", req'[r].status = "finished"
  PROVE  \E eos \in SUBSET Reqs : ProcessResult(eos)
<1>1. TypeOK /\ QueueFacts
  BY QueueForms DEF LoopInv
<1>2. req \in [Reqs -> ReqType]
  BY Zenon, <1>1 DEF TypeOK
<1>3. ASSUME NEW q \in Reqs, NEW prompt, NEW maxNew, Receive(q, prompt, maxNew) PROVE FALSE
  <2>1. req' = [req EXCEPT ![q] = req'[q]] /\ req'[q].status = "live"
    BY <1>2, <1>3 DEF Receive, NoReq
  <2> QED BY <1>2, <2>1
<1>4. ASSUME NEW q \in Reqs, Abort(q) PROVE FALSE
  <2>1. \E y : req' = [req EXCEPT ![q].status = IF q \in Range(waitingQ) THEN "dropped" ELSE @,
                                 ![q].toFinish = y]
    BY <1>4 DEF Abort
  <2> QED BY <1>2, <2>1 DEF ReqType
<1>5. ASSUME NEW expired \in SUBSET Reqs, FilterAndStash(expired) PROVE FALSE
  BY <1>2, <1>5 DEF FilterAndStash, ReqType
<1>6. ASSUME Schedule PROVE FALSE
  <2>1. At("sched") /\ req' = Round.adder.req
    BY <1>6, ScheduleBranches
  <2>2. CASE r \in Range(RoundQueue)
    <3>1. RoundOf(r)
      BY <2>1, <2>2, RoundOfRequests
    <3> QED BY Zenon, <2>1, <3>1 DEF RoundOf, Static
  <2>3. CASE r \notin Range(RoundQueue)
    BY <2>1, <2>3, RoundOfRequests
  <2> QED BY <2>2, <2>3
<1>7. FlushCache \/ SkipRound \/ IdleCheck \/ RunBatch => FALSE
  BY Zenon DEF FlushCache, SkipRound, IdleCheck, RunBatch, loopVars
<1> QED BY Zenon, <1>3, <1>4, <1>5, <1>6, <1>7 DEF Next, Input, LoopStep

\* There it had fewer tokens than its limit, and got at most a block of them.
LEMMA FinishesShort ==
  ASSUME LoopInv, PoolFacts, Next, FinishedShort
  PROVE  FinishedShort'
<1> SUFFICES ASSUME NEW r \in Reqs, req'[r].status = "finished"
             PROVE  req'[r].out < Limit(req'[r]) + BlockSize
  BY Zenon DEF FinishedShort, Limit
<1>1. CASE req[r].status = "finished"
  <2>1. req'[r] = req[r]
    BY Zenon, <1>1, AnsweredStays
  <2> QED BY Zenon, <1>1, <2>1 DEF FinishedShort
<1>2. CASE req[r].status # "finished"
  <2>1. PICK eos \in SUBSET Reqs : ProcessResult(eos)
    BY Zenon, <1>2, FinishesInResult
  <2>2. TypeOK /\ QueueFacts /\ At("result") /\ req[r] \in ReqType
    BY <2>1, QueueForms DEF LoopInv, TypeOK, ProcessResult
  <2>3. r \in Range(batch) /\ NewTokens(r) > 0
        /\ req'[r] = CheckFinished([req[r] EXCEPT !.out = req[r].out + NewTokens(r)], r \in eos)
    BY <1>2, <2>1 DEF ProcessResult
  <2>4. Live(r) /\ r \in Range(stagingQ)
    BY <2>2, <2>3 DEF QueueFacts, At
  <2>5. req[r].out < Limit(req[r])
    BY Zenon, <2>4, RowsHoldKnownTokens
  <2>6. /\ Admitted(req[r], PrefixLen[r]) /\ req[r].ext = BlockSize
        /\ PrefixLen[r] <= req[r].prompt + req[r].out
    BY <2>2, <2>4 DEF LoopInv, StagedInv, RequestInv, At
  <2>7. NewTokens(r) \in Nat /\ NewTokens(r) <= BlockSize
    <3>1. PrefixLen[r] \in Nat
      BY Lengths
    <3>2. /\ NewTokens(r) = IF PrefixLen[r] + BlockSize <= req[r].prompt + req[r].out
                            THEN 0 ELSE PrefixLen[r] + BlockSize - (req[r].prompt + req[r].out)
          /\ NewTokens(r) \in Nat
      BY <2>2, <2>6, <3>1, BlockTokens
    <3> QED BY <2>2, <2>6, <3>1, <3>2, AdderAssumption DEF ReqType
  <2>8. req'[r].out = req[r].out + NewTokens(r) /\ req'[r].maxNew = req[r].maxNew
    BY <2>2, <2>3, <2>4, <2>7, CheckedReq DEF Live
  <2>9. Limit(req'[r]) = Limit(req[r]) /\ Limit(req[r]) \in Nat /\ req[r].out \in Nat
    BY <2>2, <2>8, LimitBounds DEF Limit, ReqType
  <2> QED BY <2>5, <2>7, <2>8, <2>9, AdderAssumption
<1> QED BY <1>1, <1>2

\* The contract as the loop uses it, with what is proved of it; which passes are
\* replayed from a graph does not matter to the loop.
CP == INSTANCE PoolContractProofs WITH
  extended <- Extended, forwarded <- pc = "result", staged <- Staged,
  CaptureSizes <- {}, captureBs <- {}, bufRow <- <<>>

\* What the contract assumes of the constants is true of those of the loop.
LEMMA ContractAssumptions ==
  /\ NumRows \in Nat /\ NumSlots \in Nat
  /\ {} \subseteq (SUBSET (1 .. NumRows)) \ {{}}
  /\ CP!IsFiniteSet(Cells)
  /\ BlockSize \in Nat \ {0}
<1>1. CP!IsFiniteSet(Cells)
  BY Zenon, SchedulerAssumption DEF IsFiniteSet, CP!IsFiniteSet
<1> QED BY <1>1, PoolAssumption, AdderAssumption

\* What the steps of the loop need of the invariant of the contract.
LEMMA PoolInvariantFacts == CP!Inductive => PoolFacts
<1> SUFFICES ASSUME CP!Inductive PROVE PoolFacts
  OBVIOUS
<1> USE DEF CP!Inductive, CP!TypeOK
<1>1. CP!None = None /\ CP!Rows = Rows /\ CP!Slots = Slots /\ CP!SlotIds = SlotIds
  BY DEF None, Rows, Slots, SlotIds, CP!None, CP!Rows, CP!Slots, CP!SlotIds
<1>2. /\ row \in [Reqs -> Rows \cup {None}]
      /\ slot \in [Reqs -> Slots \cup {None}]
      /\ freeRows \in SUBSET Rows
      /\ freeCells \in SUBSET Cells
      /\ kv \in [Reqs -> Seq(SUBSET Cells)]
      /\ prefix \in [Reqs -> Seq(SUBSET Cells)]
      /\ committed \in [SlotIds -> Seq(SUBSET Cells)]
      /\ Extended \in SUBSET Reqs /\ Staged \in SUBSET Reqs
  BY <1>1
<1>3. CP!Live = {r \in Reqs : row[r] # None}
  BY <1>1 DEF CP!Live
<1>4. \A r \in Reqs : row[r] = None => kv[r] = <<>> /\ prefix[r] = <<>>
  BY <1>1
<1>5. \A r \in Reqs : row[r] # None => row[r] \notin freeRows
  BY <1>3 DEF CP!Ownership
<1>6. \A r \in Extended \cup Staged : r \in Reqs /\ row[r] # None
  BY Zenon, <1>2, <1>3
<1>7. \A r \in Reqs : r \notin Extended \cup Staged => kv[r] = prefix[r]
  BY <1>3, <1>4
<1>8. ASSUME NEW r \in Reqs PROVE freeCells \cap TokensOf(kv[r]) = {}
  <2>1. CASE row[r] = None
    BY <1>4, <2>1 DEF TokensOf
  <2>2. CASE row[r] # None
    <3>1. freeCells = Cells \ UNION {CP!TokensOf(kv[q]) : q \in CP!Live}
      BY DEF CP!Ownership
    <3>2. r \in CP!Live
      BY <1>3, <2>2
    <3>3. CP!TokensOf(kv[r]) = TokensOf(kv[r])
      BY DEF TokensOf, CP!TokensOf
    <3>4. ASSUME NEW x \in TokensOf(kv[r]) PROVE x \notin freeCells
      <4>1. x \in UNION {CP!TokensOf(kv[q]) : q \in CP!Live}
        BY ZenonT(30), <3>2, <3>3
      <4> QED BY Zenon, <3>1, <4>1
    <3> QED BY Zenon, <3>4
  <2> QED BY <2>1, <2>2
<1> QED BY ZenonT(30), <1>2, <1>4, <1>5, <1>6, <1>7, <1>8 DEF PoolFacts

\* The same after a step.
LEMMA PoolFactsNext == CP!Inductive' => PoolFacts'
  BY PoolInvariantFacts, PTL

-----------------------------------------------------------------------------
(* The steps of the contract. *)

\* The choices that ContractNext names are choices of Contract!Next.
LEMMA NamedChoices ==
  ASSUME TypeOK, TypeOK', ContractNext
  PROVE  Contract!Next
<1>1. batch \in Seq(Reqs) /\ stagingQ \in Seq(Reqs) /\ batch' \in Seq(Reqs)
  BY Zenon DEF TypeOK
<1>2. Staged \subseteq Reqs /\ Extended' \subseteq Reqs
  BY <1>1 DEF Staged, Extended, Range
<1>3. CASE /\ Extended = {}
           /\ Extended' \cap Staged = {}
           /\ Contract!Extend(Extended',
                              [r \in NeedRow(Extended') |-> row'[r]],
                              [r \in NeedSlot(Extended') |-> slot'[r]],
                              [r \in Extended' |-> kv'[r][Len(kv'[r])]])
  <2> DEFINE b == Extended'
             newRow == [r \in NeedRow(b) |-> row'[r]]
             newSlot == [r \in NeedSlot(b) |-> slot'[r]]
             newCells == [r \in b |-> kv'[r][Len(kv'[r])]]
  <2>1. b \in SUBSET (Reqs \ Staged)
    BY SMTT(30), <1>2, <1>3
  <2>2. /\ newRow \in [NeedRow(b) -> freeRows]
        /\ newSlot \in [NeedSlot(b) -> freeSlots]
        /\ newCells \in [b -> SUBSET freeCells]
    BY ZenonT(30), <1>3 DEF Contract!Extend, AllocForExtend, Contract!AllocForExtend, NeedRow,
       NeedSlot,
       Contract!NeedRow, Contract!NeedSlot
  <2>3. Extended = {} /\ Contract!Extend(b, newRow, newSlot, newCells)
    BY <1>3
  <2>4. /\ newRow \in [Contract!NeedRow(b) -> freeRows]
        /\ newSlot \in [Contract!NeedSlot(b) -> freeSlots]
    BY <2>2 DEF NeedRow, NeedSlot, Contract!NeedRow, Contract!NeedSlot, None, Contract!None
  <2> HIDE DEF b, newRow, newSlot, newCells
  <2> QED BY SMTT(30), <2>1, <2>2, <2>3, <2>4 DEF Contract!Next
<1>4. CASE Contract!Forward
  BY <1>4 DEF Contract!Next
<1>5. CASE Contract!Finish({r \in Extended : row'[r] = None})
  BY <1>5 DEF Contract!Next
<1>6. CASE Contract!Stash(Staged)
  BY SMTT(30), <1>6 DEF Contract!Next
<1>7. CASE Contract!Flush
  BY <1>7 DEF Contract!Next
<1> QED BY SMTT(30), <1>3, <1>4, <1>5, <1>6, <1>7 DEF ContractNext

\* The contract is the one whose invariant is proved in PoolContractProofs.
LEMMA SameContract ==
  /\ Contract!Init <=> CP!Init
  /\ Contract!Next <=> CP!Next
  /\ Contract!vars = CP!vars
<1>1. Contract!Init <=> CP!Init
  BY Zenon DEF Contract!Init, CP!Init, Contract!PoolInit, CP!PoolInit, Contract!Extend,
     CP!Extend, Contract!Forward, CP!Forward, Contract!Finish, CP!Finish, Contract!Stash,
     CP!Stash, Contract!Flush, CP!Flush, Contract!AllocForExtend, CP!AllocForExtend,
     Contract!NeedRow, CP!NeedRow, Contract!NeedSlot, CP!NeedSlot, Contract!Zeroed, CP!Zeroed,
     Contract!ForwardPass, CP!ForwardPass, Contract!StateSlot, CP!StateSlot,
     Contract!CurrentBlock, CP!CurrentBlock, Contract!Folded, CP!Folded, Contract!Promoted,
     CP!Promoted, Contract!StashRequests, CP!StashRequests, Contract!CellsOf, CP!CellsOf,
     Contract!SlotsOf, CP!SlotsOf, Contract!ReleaseKvCache, CP!ReleaseKvCache,
     Contract!ClearPools, CP!ClearPools, Contract!Live, CP!Live, Contract!None, CP!None,
     Contract!Rows, CP!Rows, Contract!Slots, CP!Slots, Contract!SlotIds, CP!SlotIds,
     Contract!TokensOf, CP!TokensOf, Contract!Injective, CP!Injective, Contract!poolVars,
     CP!poolVars
<1>2. Contract!Next <=> CP!Next
  BY Zenon DEF Contract!Next, CP!Next, Contract!Extend, CP!Extend, Contract!Forward,
     CP!Forward, Contract!Finish, CP!Finish, Contract!Stash, CP!Stash, Contract!Flush,
     CP!Flush, Contract!AllocForExtend, CP!AllocForExtend, Contract!NeedRow, CP!NeedRow,
     Contract!NeedSlot, CP!NeedSlot, Contract!Zeroed, CP!Zeroed, Contract!ForwardPass,
     CP!ForwardPass, Contract!StateSlot, CP!StateSlot, Contract!CurrentBlock, CP!CurrentBlock,
     Contract!Folded, CP!Folded, Contract!Promoted, CP!Promoted, Contract!StashRequests,
     CP!StashRequests, Contract!CellsOf, CP!CellsOf, Contract!SlotsOf, CP!SlotsOf,
     Contract!ReleaseKvCache, CP!ReleaseKvCache, Contract!ClearPools, CP!ClearPools,
     Contract!Live, CP!Live, Contract!None, CP!None, Contract!Rows, CP!Rows, Contract!Slots,
     CP!Slots, Contract!SlotIds, CP!SlotIds, Contract!TokensOf, CP!TokensOf,
     Contract!Injective, CP!Injective, Contract!poolVars, CP!poolVars
<1>3. Contract!vars = CP!vars
  BY Zenon DEF Contract!vars, CP!vars, Contract!poolVars, CP!poolVars
<1> QED BY <1>1, <1>2, <1>3

-----------------------------------------------------------------------------
(* The theorems. *)

\* The invariant of the loop together with the one of its contract.
Joint == LoopInv /\ CP!Inductive

\* The two invariants hold at the start.
LEMMA JointInitially == Init => Joint
<1>1. Init => LoopInv /\ CP!Init
  BY LoopInitially, SameContract
<1>2. CP!Init => CP!Inductive
  BY CP!InitInductive, ContractAssumptions, PTL
<1> QED BY <1>1, <1>2 DEF Joint

\* Each keeps the other going: the loop's steps are steps of the contract because of
\* LoopInv, and the facts about the pools that they need are the contract's invariant.
LEMMA JointSteps ==
  ASSUME Joint, [Next]_vars
  PROVE  Joint' /\ [ContractNext]_Contract!vars /\ [Contract!Next]_Contract!vars
<1>1. LoopInv /\ PoolFacts /\ CP!Inductive
  BY PoolInvariantFacts DEF Joint
<1>2. LoopInv' /\ (ContractNext \/ UNCHANGED Contract!vars)
  <2>1. CASE Next
    BY Zenon, <1>1, <2>1, LoopSteps
  <2>2. CASE UNCHANGED vars
    BY Zenon, <1>1, <2>2, LoopStutters
  <2> QED BY Zenon, <2>1, <2>2
<1>3. [Contract!Next]_Contract!vars
  <2>1. TypeOK /\ TypeOK'
    BY Zenon, <1>1, <1>2 DEF LoopInv
  <2> QED BY Zenon, <1>2, <2>1, NamedChoices
<1>4. [CP!Next]_(CP!vars)
  <2>1. CP!Next \/ UNCHANGED Contract!vars
    BY Zenon, <1>3, SameContract
  <2>2. UNCHANGED Contract!vars => UNCHANGED CP!vars
    BY Zenon DEF Contract!vars, CP!vars, Contract!poolVars, CP!poolVars
  <2> QED BY <2>1, <2>2
<1>5. CP!Inductive /\ [CP!Next]_(CP!vars) => CP!Inductive'
  BY CP!NextInductive, ContractAssumptions, PTL
<1> QED BY Zenon, <1>1, <1>2, <1>3, <1>4, <1>5 DEF Joint

\* In every reachable state of the loop both invariants hold.
THEOREM JointHolds == Spec => []Joint
<1>1. Joint /\ [Next]_vars => Joint'
  BY JointSteps
<1> QED BY <1>1, JointInitially, PTL DEF Spec

\* The invariant of the event loop: where a live request is queued, at which block it
\* waits, and what its row holds, at every place of an iteration.
THEOREM LoopInvHolds == Spec => []LoopInv
<1>1. Joint => LoopInv
  BY DEF Joint
<1> QED BY <1>1, JointHolds, PTL

\* Queues, flags and request objects keep their types.
THEOREM LoopTypeCorrect == Spec => []TypeOK
<1>1. LoopInv => TypeOK
  BY DEF LoopInv
<1> QED BY <1>1, LoopInvHolds, PTL

\* A live request is in exactly one of waiting_queue and the manager, and once.
THEOREM NoRequestLost == Spec => []QueuesPartitionRequests
<1>1. LoopInv => QueuesPartitionRequests
  BY DEF LoopInv, QueueInv
<1> QED BY <1>1, LoopInvHolds, PTL

\* The positions of a batch that has run start where the prefix of its request ends.
THEOREM NoBlockSkipped == Spec => []PositionsMatchPrefix
<1>1. Joint => PositionsMatchPrefix
  BY PoolInvariantFacts, BatchIsCurrent DEF Joint
<1> QED BY <1>1, JointHolds, PTL

\* The phase of a request in a batch that has run tells whether its block has a mask.
THEOREM PhaseHolds == Spec => []PhaseIsCurrent
<1>1. Joint => PhaseIsCurrent
  BY PoolInvariantFacts, BatchIsCurrent DEF Joint
<1> QED BY <1>1, JointHolds, PTL

\* No masked position is committed and no token is left out of the row.
THEOREM NoMaskCommitted == Spec => []OnlyKnownTokensCommitted
<1>1. Joint => OnlyKnownTokensCommitted
  BY PoolInvariantFacts, RowsHoldKnownTokens DEF Joint, OnlyKnownTokensCommitted, InStep
<1> QED BY <1>1, JointHolds, PTL

\* However many tokens are asked for, 0 included: a request that goes on is below its
\* limit, and the row and the output of a finished one are beyond it by less than a block
\* (check_finished, process_batch_result_dllm).
THEOREM OvershootBounded == Spec => []OvershootWithinBlock
<1>1. Init => FinishedShort
  BY DEF Init, NoReq, FinishedShort
<1>2. Joint /\ FinishedShort /\ [Next]_vars => FinishedShort'
  <2> SUFFICES ASSUME Joint, FinishedShort, [Next]_vars PROVE FinishedShort'
    OBVIOUS
  <2>1. LoopInv /\ PoolFacts
    BY PoolInvariantFacts DEF Joint
  <2>2. CASE Next
    BY Zenon, <2>1, <2>2, FinishesShort
  <2>3. CASE UNCHANGED vars
    BY Zenon, <2>3 DEF FinishedShort, vars, loopVars
  <2> QED BY <2>2, <2>3
<1>3. Joint /\ FinishedShort => OvershootWithinBlock
  <2> SUFFICES ASSUME Joint, FinishedShort PROVE OvershootWithinBlock
    OBVIOUS
  <2>1. LoopInv /\ PoolFacts
    BY PoolInvariantFacts DEF Joint
  <2> QED BY Zenon, <2>1, RowsHoldKnownTokens DEF OvershootWithinBlock, FinishedShort, Limit
<1> QED BY <1>1, <1>2, <1>3, JointHolds, PTL DEF Spec

\* An answered request is never run or written again.
THEOREM AnswersAreFinal == Spec => AnsweredIsFinal
<1> DEFINE Final == \A r \in Reqs : req[r].status \in {"finished", "dropped"} => req'[r] = req[r]
<1>1. Joint /\ [Next]_vars => [Final]_vars
  <2> SUFFICES ASSUME Joint, Next PROVE Final
    OBVIOUS
  <2>1. LoopInv /\ PoolFacts
    BY PoolInvariantFacts DEF Joint
  <2> QED BY <2>1, AnsweredStays
<1> QED BY <1>1, JointHolds, PTL DEF Spec, AnsweredIsFinal

\* The event loop uses the pools as PoolContract allows, with the choices of each step
\* read off the loop's own state.
THEOREM LoopImplementsNamedContract == Spec => ImplementsContract
<1>1. Joint /\ [Next]_vars => [ContractNext]_Contract!vars
  BY Zenon, JointSteps
<1>2. Init => Contract!Init
  BY LoopInitially
<1> QED BY <1>1, <1>2, JointHolds, PTL DEF Spec, ImplementsContract

\* The event loop implements PoolContract, and so inherits what PoolContractProofs
\* proves of it: that no row, slot or cell has two owners and that the committed
\* recurrent state of a request is the fold of exactly its prefix.
THEOREM LoopImplementsPoolContract == Spec => Contract!Spec
<1>1. Joint /\ [Next]_vars => [Contract!Next]_Contract!vars
  BY Zenon, JointSteps
<1>2. Init => Contract!Init
  BY LoopInitially
<1> QED BY <1>1, <1>2, JointHolds, PTL DEF Spec, Contract!Spec

=============================================================================
