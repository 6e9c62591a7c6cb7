----------------------- MODULE TokenizerManagerProofs -----------------------
(***************************************************************************)
(* Proofs about the front end, for any number of calls and ids.  They do   *)
(* not use the bounds MaxQueue and MaxEvents.                              *)
(***************************************************************************)
EXTENDS TokenizerManager, FiniteSetTheorems, TLAPS

\* What is on the queues.
ToSchedulerMsg ==
  [type : {"generate"}, call : Calls] \cup [type : {"abort"}, rid : Rids]
    \cup [type : {"abortAll"}] \cup [type : {"update"}]

OutputMsg == [call : Calls, finished : BOOLEAN, reason : {"none", "answered", "aborted"}]

AbortMsg == [type : {"abort"}, call : Calls, reason : {"aborted", "unavailable"}]

NetType ==
  /\ toScheduler \in Seq(ToSchedulerMsg)
  /\ outputs \in Seq(OutputMsg)
  /\ replies \in Seq(AbortMsg \cup [type : {"update"}])

\* The lock counts the calls inside it, and an update that waits for it.
LockInv ==
  /\ UpdateExclusive
  /\ updatePc = "lock" => waitingWriters > 0

-----------------------------------------------------------------------------
(***************************************************************************)
(* The lock.                                                               *)
(***************************************************************************)

\* Only what is in Calls is inside the lock, so the calls inside are finitely many.
LEMMA ReadingFinite == IsFiniteSet(Reading) /\ Cardinality(Reading) \in Nat
BY FrontEndAssumption, FS_Subset, FS_CardinalityType DEF Reading

\* A call that enters the lock is one more reader.
LEMMA OneMoreReader ==
  ASSUME NEW c \in Calls, c \notin Reading, Reading' = Reading \cup {c}
  PROVE  Cardinality(Reading') = Cardinality(Reading) + 1
BY ReadingFinite, FS_AddElement

\* A call that leaves it is one less.
LEMMA OneReaderLess ==
  ASSUME NEW c \in Calls, c \in Reading, Reading' = Reading \ {c}
  PROVE  Cardinality(Reading') = Cardinality(Reading) - 1
BY ReadingFinite, FS_RemoveElement

\* The part of the types that the lock is about.
LockTyped ==
  /\ LockInv
  /\ pc \in [Calls -> {"new", "pause", "lock", "tokenize", "wait", "close", "end"}]
  /\ readers \in Nat /\ writerActive \in BOOLEAN /\ waitingWriters \in Nat
  /\ asleep \subseteq Calls \cup {Updater}

\* acquire_reader counts the call, or puts it to sleep outside.
LEMMA EnterKeepsLock ==
  ASSUME LockTyped, NEW c \in Calls, pc[c] \in {"new", "pause", "lock"}, EnterLock(c),
         UNCHANGED updatePc
  PROVE  LockTyped'
<1>1. CASE AcquireReader /\ pc' = [pc EXCEPT ![c] = "tokenize"]
  <2>1. c \notin Reading /\ Reading' = Reading \cup {c}
    BY <1>1 DEF LockTyped, Reading
  <2>2. readers' = Cardinality(Reading')
    BY Zenon, <1>1, <2>1, OneMoreReader DEF AcquireReader, LockTyped, LockInv, UpdateExclusive
  <2>3. ~writerActive'
    BY <1>1 DEF AcquireReader, MayRead
  <2> QED BY <1>1, <2>2, <2>3 DEF AcquireReader, LockTyped, LockInv, UpdateExclusive
<1>2. CASE SleepReader(c) /\ pc' = [pc EXCEPT ![c] = "lock"]
  <2>1. Reading' = Reading
    BY <1>2 DEF LockTyped, Reading
  <2> QED BY <1>2, <2>1 DEF SleepReader, LockTyped, LockInv, UpdateExclusive
<1> QED BY <1>1, <1>2 DEF EnterLock

\* A call that ends gives back the lock exactly if it was inside.
LEMMA EndKeepsLock ==
  ASSUME LockTyped, NEW c \in Calls, NEW how, NEW locked \in BOOLEAN, End(c, how, locked),
         locked <=> c \in Reading, UNCHANGED updatePc
  PROVE  LockTyped'
<1>1. Reading' = Reading \ {c}
  BY DEF End, LockTyped, Reading
<1>2. CASE locked
  <2>1. readers' = Cardinality(Reading')
    BY Zenon, <1>1, <1>2, OneReaderLess DEF End, ReleaseReader, LockTyped, LockInv,
       UpdateExclusive
  <2>2. Cardinality(Reading') \in Nat
    BY <1>1, <1>2, ReadingFinite, FS_RemoveElement, FS_CardinalityType
  <2>3. ~writerActive
    BY <1>2 DEF LockTyped, LockInv, UpdateExclusive
  <2> QED BY <1>2, <2>1, <2>2, <2>3
          DEF End, ReleaseReader, LockTyped, LockInv, UpdateExclusive
<1>3. CASE ~locked
  <2>1. Reading' = Reading
    BY <1>1, <1>3
  <2> QED BY <1>3, <2>1 DEF End, CancelReader, LockTyped, LockInv, UpdateExclusive
<1> QED BY <1>2, <1>3

\* A call that goes on inside the lock changes nothing of it.
LEMMA MoveKeepsLock ==
  ASSUME LockTyped, UNCHANGED <<rwVars, updatePc>>, NEW c \in Calls,
         NEW to \in {"wait", "close"}, c \in Reading, pc' = [pc EXCEPT ![c] = to]
  PROVE  LockTyped'
<1>1. Reading' = Reading
  BY DEF LockTyped, Reading
<1> QED BY <1>1 DEF LockTyped, LockInv, UpdateExclusive, rwVars

\* Steps that do not touch the calls, the lock or the update.
LEMMA OthersKeepLock ==
  ASSUME LockTyped, UNCHANGED <<pc, rwVars, updatePc>>
  PROVE  LockTyped'
BY DEF LockTyped, LockInv, UpdateExclusive, Reading, rwVars

\* The writer's steps: it becomes active only when nobody reads.
LEMMA UpdateKeepsLock ==
  ASSUME LockTyped, updatePc \in {"new", "check", "lock", "await", "reply", "over"},
         UpdateWeights \/ UpdateStep \/ HandleUpdateReply
  PROVE  LockTyped'
<1>0. Reading' = Reading /\ pc' = pc
  BY DEF UpdateWeights, UpdateStep, UpdateCheck, UpdateLock, UpdateReturn, HandleUpdateReply,
         callVars, Reading
<1>1. Cardinality(Reading) = 0 => Reading = {}
  BY ReadingFinite, FS_EmptySet
<1>2. ASSUME NEW queue, EnterUpdate(queue), updatePc \in {"new", "check"}
      PROVE  LockTyped'
  <2>1. CASE UNCHANGED rwVars /\ SendUpdate(queue)
    BY <1>0, <2>1 DEF SendUpdate, rwVars, LockTyped, LockInv, UpdateExclusive
  <2>2. CASE AcquireWriter /\ SendUpdate(queue)
    BY <1>0, <1>1, <2>2
       DEF SendUpdate, AcquireWriter, MayWrite, LockTyped, LockInv, UpdateExclusive
  <2>3. CASE QueueWriter(Updater)
    BY <1>0, <2>3 DEF QueueWriter, LockTyped, LockInv, UpdateExclusive
  <2> QED BY <1>2, <2>1, <2>2, <2>3 DEF EnterUpdate
<1>3. CASE UpdateWeights
  <2>1. CASE updatePc' = "check" /\ UNCHANGED rwVars
    BY <1>0, <2>1 DEF rwVars, LockTyped, LockInv, UpdateExclusive
  <2> QED BY <1>2, <1>3, <2>1 DEF UpdateWeights
<1>4. CASE UpdateCheck
  BY <1>2, <1>4 DEF UpdateCheck
<1>5. CASE UpdateLock
  <2>1. CASE WakeWriter /\ SendUpdate(toScheduler)
    BY <1>0, <1>1, <1>5, <2>1
       DEF UpdateLock, SendUpdate, WakeWriter, MayWrite, LockTyped, LockInv, UpdateExclusive
  <2>2. CASE SleepWriter(Updater) /\ UNCHANGED updatePc
    BY <1>0, <2>2 DEF SleepWriter, LockTyped, LockInv, UpdateExclusive
  <2> QED BY <1>5, <2>1, <2>2 DEF UpdateLock
<1>6. CASE UpdateReturn
  BY Zenon, <1>0, <1>6 DEF UpdateReturn, ReleaseWriter, rwVars, LockTyped, LockInv,
     UpdateExclusive
<1>7. CASE HandleUpdateReply
  BY <1>0, <1>7 DEF HandleUpdateReply, rwVars, LockTyped, LockInv, UpdateExclusive
<1> QED BY <1>3, <1>4, <1>5, <1>6, <1>7 DEF UpdateStep

-----------------------------------------------------------------------------
(***************************************************************************)
(* Types.                                                                  *)
(***************************************************************************)
FrontTyped ==
  /\ rid \in [Calls -> Rids]
  /\ outcome \in [Calls -> {"none", "rejected", "invalid", "left", "answered", "aborted",
                            "unavailable"}]
  /\ state \in [Calls -> [finished : BOOLEAN, event : BOOLEAN,
                          reason : {"none", "answered", "aborted", "unavailable"}]]
  /\ heard \in [Calls -> SUBSET Calls]
  /\ ridToState \in [Rids -> Calls \cup {None}]
  /\ left \subseteq Calls /\ abortTask \subseteq StreamCalls /\ asked \subseteq Rids

OpTyped ==
  /\ isPause \in BOOLEAN /\ gracefullyExit \in BOOLEAN /\ exited \in BOOLEAN
  /\ pausePc \in {"new", "loop", "paused", "over"}
  /\ updatePc \in {"new", "check", "lock", "await", "reply", "over"}
  /\ crash \in {"none", "key error", "flush"}
  /\ sch \in [Calls -> Places]

Typed == LockTyped /\ FrontTyped /\ OpTyped /\ NetType

\* Listed has each element of a finite set once.
LEMMA ListedOnce ==
  ASSUME NEW S, IsFiniteSet(S)
  PROVE  /\ Listed(S) \in Seq(S)
         /\ \A j, k \in 1 .. Len(Listed(S)) : Listed(S)[j] = Listed(S)[k] => j = k
<1>1. Cardinality(S) \in Nat /\ ExistsBijection(1 .. Cardinality(S), S)
  BY FS_CardinalityType
<1>2. PICK g \in [1 .. Cardinality(S) -> S] : IsInjective(g)
  BY <1>1 DEF ExistsBijection, Bijection, Injection, IsInjective
<1>3. Listed(S) \in [1 .. Cardinality(S) -> S] /\ IsInjective(Listed(S))
  BY <1>2 DEF Listed
<1>4. Listed(S) \in Seq(S) /\ Len(Listed(S)) = Cardinality(S)
  BY <1>1, <1>3
<1> QED BY <1>3, <1>4 DEF IsInjective

\* The initial state.
LEMMA InitTyped == Init => Typed
<1> SUFFICES ASSUME Init PROVE Typed
  OBVIOUS
<1>1. Reading = {}
  BY DEF Init, Reading
<1>2. LockTyped
  BY Zenon, <1>1, FS_EmptySet DEF Init, RWInit, LockTyped, LockInv, UpdateExclusive
<1>3. FrontTyped
  BY FrontEndAssumption DEF Init, FrontTyped
<1>4. OpTyped
  BY Zenon DEF Init, OpTyped, Places
<1>5. NetType
  BY DEF Init, NetType
<1> QED BY <1>2, <1>3, <1>4, <1>5 DEF Typed

\* The lock stays typed and exclusive.
LEMMA NextLockTyped ==
  ASSUME Typed, [Next]_vars
  PROVE  LockTyped'
<1> USE DEF Typed
<1>1. ASSUME NEW c \in Calls, Arrive(c) PROVE LockTyped'
  <2>1. CASE End(c, "rejected", FALSE)
    BY Zenon, <1>1, <2>1, EndKeepsLock DEF Arrive, opVars, Reading
  <2>2. CASE EnterLock(c)
    BY <1>1, <2>2, EnterKeepsLock DEF Arrive, opVars
  <2>3. CASE pc' = [pc EXCEPT ![c] = "pause"] /\ UNCHANGED rwVars
    <3>1. Reading' = Reading
      BY <1>1, <2>3 DEF Arrive, Reading, LockTyped
    <3> QED BY <1>1, <2>3, <3>1 DEF Arrive, opVars, LockTyped, LockInv, UpdateExclusive, rwVars
  <2> QED BY Zenon, <1>1, <2>1, <2>2, <2>3 DEF Arrive
<1>2. ASSUME NEW c \in Calls, PassPause(c) PROVE LockTyped'
  BY <1>2, EnterKeepsLock DEF PassPause, opVars
<1>3. ASSUME NEW c \in Calls, WakeReader(c) PROVE LockTyped'
  <2>1. CASE AcquireReader /\ pc' = [pc EXCEPT ![c] = "tokenize"]
    BY Zenon, <1>3, <2>1, EnterKeepsLock DEF WakeReader, opVars, EnterLock
  <2>2. CASE SleepReader(c) /\ UNCHANGED pc
    BY <1>3, <2>2 DEF WakeReader, SleepReader, opVars, LockTyped, LockInv, UpdateExclusive,
       Reading
  <2> QED BY <1>3, <2>1, <2>2 DEF WakeReader
<1>4. ASSUME NEW c \in Calls, TokenizeAndSend(c) PROVE LockTyped'
  <2>1. c \in Reading
    BY <1>4 DEF TokenizeAndSend, Reading
  <2> QED BY Zenon, <1>4, <2>1, EndKeepsLock, MoveKeepsLock DEF TokenizeAndSend, opVars
<1>5. ASSUME NEW c \in Calls, WaitOneResponse(c) PROVE LockTyped'
  <2>1. c \in Reading
    BY <1>5 DEF WaitOneResponse, Reading
  <2> QED BY Zenon, <1>5, <2>1, EndKeepsLock, MoveKeepsLock, OthersKeepLock
             DEF WaitOneResponse, opVars
<1>6. ASSUME NEW c \in Calls, WaitTimeout(c) \/ Close(c) PROVE LockTyped'
  <2>1. c \in Reading
    BY Zenon, <1>6 DEF WaitTimeout, Close, Reading
  <2> QED BY Zenon, <1>6, <2>1, EndKeepsLock DEF WaitTimeout, Close, opVars
<1>7. ASSUME NEW c \in Calls, CancelStream(c) PROVE LockTyped'
  <2> DEFINE inside == pc[c] \in {"tokenize", "wait", "close"}
  <2>1. inside \in BOOLEAN /\ (inside <=> c \in Reading)
    BY DEF Reading
  <2>2. End(c, "left", inside) /\ UNCHANGED updatePc
    BY <1>7 DEF CancelStream, opVars
  <2> HIDE DEF inside
  <2> QED BY <2>1, <2>2, EndKeepsLock
<1>8. ASSUME NEW c \in Calls, ClientLeaves(c) \/ AbortTask(c) PROVE LockTyped'
  BY <1>8, OthersKeepLock DEF ClientLeaves, AbortTask, opVars
<1>9. ASSUME NEW i \in Rids, AbortRequest(i) PROVE LockTyped'
  BY <1>9, OthersKeepLock DEF AbortRequest, opVars
<1>10. CASE HandleBatchOutput \/ HandleAbortReq
  BY Zenon, <1>10, OthersKeepLock DEF HandleBatchOutput, HandleAbortReq, opVars
<1>11. CASE UpdateWeights \/ UpdateStep \/ HandleUpdateReply
  BY Zenon, <1>11, UpdateKeepsLock DEF OpTyped
<1>12. CASE PauseGeneration \/ PauseAgain \/ ContinueGeneration \/ Sigterm \/ Drain
  BY <1>12, OthersKeepLock
     DEF PauseGeneration, PauseAgain, PauseRound, ContinueGeneration, Sigterm, Drain, callVars
<1>13. CASE SchedulerReceive
  BY <1>13, OthersKeepLock DEF SchedulerReceive, callVars, opVars
<1>14. ASSUME NEW c \in Calls, SchedulerStep(c) \/ SchedulerOutput(c) \/ SchedulerTimeout(c)
       PROVE  LockTyped'
  BY Zenon, <1>14, OthersKeepLock
     DEF SchedulerStep, SchedulerStart, SchedulerFinish, SchedulerDrop, SchedulerOutput,
         SchedulerTimeout, callVars, opVars
<1>15. CASE UNCHANGED vars
  BY <1>15, OthersKeepLock DEF vars, callVars, opVars
<1> QED
  BY <1>1, <1>2, <1>3, <1>4, <1>5, <1>6, <1>7, <1>8, <1>9, <1>10, <1>11, <1>12, <1>13, <1>14,
     <1>15
     DEF Next, CallStep, HandleLoop

\* The queues: what is sent and what is received.
LEMMA NextNetType ==
  ASSUME Typed, [Next]_vars
  PROVE  NetType'
<1> USE DEF Typed
<1>1. ASSUME NEW i \in Rids
      PROVE  Aborted(toScheduler, i) \in Seq(ToSchedulerMsg)
  BY DEF Aborted, NetType, ToSchedulerMsg
<1>2. AbortAll(toScheduler) \in Seq(ToSchedulerMsg)
  BY DEF AbortAll, NetType, ToSchedulerMsg
<1>3. ASSUME NEW queue \in Seq(ToSchedulerMsg), SendUpdate(queue)
      PROVE  toScheduler' \in Seq(ToSchedulerMsg)
  BY <1>3 DEF SendUpdate, ToSchedulerMsg
<1>4. ASSUME NEW c \in Calls, Arrive(c) \/ PassPause(c) \/ WakeReader(c) \/ Close(c)
                              \/ ClientLeaves(c) \/ CancelStream(c)
      PROVE  NetType'
  BY Zenon, <1>4 DEF Arrive, PassPause, WakeReader, Close, ClientLeaves, CancelStream,
     netVars, NetType
<1>5. ASSUME NEW c \in Calls, TokenizeAndSend(c) PROVE NetType'
  <2>1. [type |-> "generate", call |-> c] \in ToSchedulerMsg
    BY DEF ToSchedulerMsg
  <2>2. \/ toScheduler' = Append(toScheduler, [type |-> "generate", call |-> c])
        \/ UNCHANGED toScheduler
    BY Zenon, <1>5 DEF TokenizeAndSend
  <2>3. toScheduler' \in Seq(ToSchedulerMsg)
    BY <2>1, <2>2 DEF NetType
  <2> QED BY <1>5, <2>3 DEF TokenizeAndSend, NetType
<1>6. ASSUME NEW c \in Calls, WaitOneResponse(c) \/ WaitTimeout(c) \/ AbortTask(c)
      PROVE  NetType'
  <2>1. rid[c] \in Rids
    BY DEF FrontTyped
  <2> QED BY Zenon, <1>1, <1>6, <2>1 DEF WaitOneResponse, WaitTimeout, AbortTask, NetType
<1>7. ASSUME NEW i \in Rids, AbortRequest(i) PROVE NetType'
  BY <1>1, <1>7 DEF AbortRequest, NetType
<1>8. CASE HandleLoop
  <2>1. CASE HandleBatchOutput
    BY <2>1 DEF HandleBatchOutput, NetType
  <2>2. CASE HandleAbortReq
    <3>1. replies # <<>> /\ replies' = Tail(replies) /\ UNCHANGED <<toScheduler, outputs>>
      BY Zenon, <2>2 DEF HandleAbortReq
    <3> QED BY <3>1 DEF NetType
  <2>3. CASE HandleUpdateReply
    BY <2>3 DEF HandleUpdateReply, NetType
  <2> QED BY <1>8, <2>1, <2>2, <2>3 DEF HandleLoop
<1>9. CASE PauseGeneration \/ PauseAgain
  BY <1>2, <1>9 DEF PauseGeneration, PauseAgain, PauseRound, NetType
<1>10. CASE ContinueGeneration \/ Sigterm \/ Drain \/ UpdateReturn \/ UNCHANGED vars
  BY <1>10 DEF ContinueGeneration, Sigterm, Drain, UpdateReturn, vars, netVars, NetType
<1>11. CASE UpdateWeights
  BY <1>2, <1>3, <1>11 DEF UpdateWeights, EnterUpdate, NetType
<1>12. CASE UpdateCheck \/ UpdateLock
  BY <1>3, <1>12 DEF UpdateCheck, UpdateLock, EnterUpdate, NetType
<1>13. ASSUME NEW hit \in SUBSET Calls, SchedulerAbort(hit)
       PROVE  replies' \in Seq(AbortMsg \cup [type : {"update"}])
  <2> DEFINE told == {Unserved(c, "aborted") : c \in {c \in hit : sch[c] = "waiting"}}
  <2>1. IsFiniteSet(told)
    <3> DEFINE queued == {c \in hit : sch[c] = "waiting"}
               f == [c \in queued |-> Unserved(c, "aborted")]
    <3>1. IsFiniteSet(queued)
      BY FrontEndAssumption, FS_Subset
    <3>2. f \in Surjection(queued, told)
      BY DEF Surjection
    <3> QED BY <3>1, <3>2, FS_Surjection DEF ExistsSurjection
  <2>2. Listed(told) \in Seq(told)
    BY <2>1, ListedOnce
  <2>3. told \subseteq AbortMsg
    BY DEF Unserved, AbortMsg
  <2>4. Listed(told) \in Seq(AbortMsg \cup [type : {"update"}])
    BY <2>2, <2>3
  <2>5. replies' = replies \o Listed(told)
    BY <1>13 DEF SchedulerAbort
  <2> HIDE DEF told
  <2> QED BY <2>4, <2>5 DEF NetType
<1>14. CASE SchedulerReceive
  <2>1. toScheduler' \in Seq(ToSchedulerMsg) /\ outputs' = outputs
    BY <1>14 DEF SchedulerReceive, NetType
  <2>2. CASE UNCHANGED replies
    BY <2>1, <2>2 DEF NetType
  <2>3. CASE SchedulerUpdate
    <3>1. [type |-> "update"] \in AbortMsg \cup [type : {"update"}]
      OBVIOUS
    <3>2. replies' \in Seq(AbortMsg \cup [type : {"update"}])
      BY <2>3, <3>1 DEF SchedulerUpdate, NetType
    <3> QED BY <2>1, <3>2 DEF NetType
  <2>4. CASE \E hit \in SUBSET Calls : SchedulerAbort(hit)
    BY <1>13, <2>1, <2>4 DEF NetType
  <2> QED BY <1>14, <2>2, <2>3, <2>4 DEF SchedulerReceive
<1>15. ASSUME NEW c \in Calls, SchedulerStart(c) \/ SchedulerDrop(c) PROVE NetType'
  BY <1>15 DEF SchedulerStart, SchedulerDrop, netVars, NetType
<1>16. ASSUME NEW c \in Calls, SchedulerOutput(c) \/ SchedulerFinish(c) PROVE NetType'
  <2>1. ASSUME NEW f \in BOOLEAN, NEW reason \in {"none", "answered", "aborted"},
               Output(c, f, reason)
        PROVE  outputs' \in Seq(OutputMsg)
    <3>1. [call |-> c, finished |-> f, reason |-> reason] \in OutputMsg
      BY DEF OutputMsg
    <3> QED BY <2>1, <3>1 DEF Output, NetType
  <2>2. outputs' \in Seq(OutputMsg)
    BY Zenon, <1>16, <2>1 DEF SchedulerOutput, SchedulerFinish
  <2> QED BY Zenon, <1>16, <2>2 DEF SchedulerOutput, SchedulerFinish, NetType
<1>17. ASSUME NEW c \in Calls, SchedulerTimeout(c) PROVE NetType'
  BY <1>17 DEF SchedulerTimeout, Unserved, AbortMsg, NetType
<1> QED
  BY <1>4, <1>5, <1>6, <1>7, <1>8, <1>9, <1>10, <1>11, <1>12, <1>14, <1>15, <1>16, <1>17
     DEF Next, CallStep, SchedulerStep, UpdateStep

\* The variables of the calls.
LEMMA NextFrontTyped ==
  ASSUME Typed, [Next]_vars
  PROVE  FrontTyped'
<1> USE DEF Typed
<1>1. ASSUME NEW c \in Calls, NEW locked \in BOOLEAN,
             NEW how \in {"none", "rejected", "invalid", "left"}, End(c, how, locked)
      PROVE  /\ outcome' \in [Calls -> {"none", "rejected", "invalid", "left", "answered",
                                        "aborted", "unavailable"}]
             /\ abortTask' \subseteq StreamCalls
  BY <1>1 DEF End, FrontTyped
<1>2. ASSUME NEW c \in Calls, NEW m \in Calls, NEW f \in BOOLEAN,
             NEW reason \in {"none", "answered", "aborted", "unavailable"},
             Told(c, f, reason, m)
      PROVE  /\ state' \in [Calls -> [finished : BOOLEAN, event : BOOLEAN,
                              reason : {"none", "answered", "aborted", "unavailable"}]]
             /\ heard' \in [Calls -> SUBSET Calls]
  BY <1>2 DEF Told, FrontTyped
<1>3. ASSUME NEW c \in Calls, Arrive(c) PROVE FrontTyped'
  <2>1. ridToState' \in [Rids -> Calls \cup {None}]
    BY Zenon, <1>3 DEF Arrive, FrontTyped
  <2>2. CASE End(c, "rejected", FALSE)
    BY Zenon, <1>1, <1>3, <2>1, <2>2 DEF Arrive, FrontTyped
  <2>3. CASE UNCHANGED <<outcome, abortTask>>
    BY <1>3, <2>1, <2>3 DEF Arrive, FrontTyped
  <2> QED BY Zenon, <1>3, <2>2, <2>3 DEF Arrive
<1>4. ASSUME NEW c \in Calls, PassPause(c) \/ WakeReader(c) PROVE FrontTyped'
  BY <1>4 DEF PassPause, WakeReader, FrontTyped
<1>5. ASSUME NEW c \in Calls, TokenizeAndSend(c) PROVE FrontTyped'
  <2>1. CASE End(c, "invalid", TRUE)
    BY Zenon, <1>1, <1>5, <2>1 DEF TokenizeAndSend, FrontTyped
  <2>2. CASE UNCHANGED <<outcome, abortTask>>
    BY <1>5, <2>2 DEF TokenizeAndSend, FrontTyped
  <2> QED BY Zenon, <1>5, <2>1, <2>2 DEF TokenizeAndSend
<1>6. ASSUME NEW c \in Calls, WaitOneResponse(c) PROVE FrontTyped'
  <2>1. state' \in [Calls -> [finished : BOOLEAN, event : BOOLEAN,
                              reason : {"none", "answered", "aborted", "unavailable"}]]
    BY Zenon, <1>6 DEF WaitOneResponse, FrontTyped
  <2>2. ridToState' \in [Rids -> Calls \cup {None}]
    BY Zenon, <1>6 DEF WaitOneResponse, FrontTyped
  <2>3. CASE End(c, "left", TRUE)
    BY Zenon, <1>1, <1>6, <2>1, <2>2, <2>3 DEF WaitOneResponse, FrontTyped
  <2>4. CASE outcome' = [outcome EXCEPT ![c] = state[c].reason] /\ UNCHANGED abortTask
    BY <1>6, <2>1, <2>2, <2>4 DEF WaitOneResponse, FrontTyped
  <2>5. CASE UNCHANGED <<outcome, abortTask>>
    BY <1>6, <2>1, <2>2, <2>5 DEF WaitOneResponse, FrontTyped
  <2> QED BY Zenon, <1>6, <2>3, <2>4, <2>5 DEF WaitOneResponse
<1>7. ASSUME NEW c \in Calls, WaitTimeout(c) \/ Close(c) PROVE FrontTyped'
  BY Zenon, <1>1, <1>7 DEF WaitTimeout, StatesAfterLeaving, Close, FrontTyped
<1>8. ASSUME NEW c \in Calls, CancelStream(c) PROVE FrontTyped'
  <2> DEFINE inside == pc[c] \in {"tokenize", "wait", "close"}
  <2>1. inside \in BOOLEAN /\ End(c, "left", inside)
    BY <1>8 DEF CancelStream
  <2> HIDE DEF inside
  <2> QED BY <1>1, <1>8, <2>1 DEF CancelStream, FrontTyped
<1>9. ASSUME NEW c \in Calls, ClientLeaves(c) \/ AbortTask(c) PROVE FrontTyped'
  BY <1>9 DEF ClientLeaves, AbortTask, FrontTyped
<1>10. ASSUME NEW i \in Rids, AbortRequest(i) PROVE FrontTyped'
  BY <1>10 DEF AbortRequest, FrontTyped
<1>11. CASE HandleBatchOutput
  <2> DEFINE m == Head(outputs)
             c == ridToState[rid[m.call]]
  <2>1. m \in OutputMsg
    BY <1>11 DEF HandleBatchOutput, NetType
  <2>2. m.call \in Calls /\ m.finished \in BOOLEAN /\ m.reason \in {"none", "answered", "aborted"}
    BY <2>1 DEF OutputMsg
  <2>3. c \in Calls \cup {None} /\ rid[m.call] \in Rids
    BY <2>2 DEF FrontTyped
  <2>4. CASE c = None
    BY <1>11, <2>4 DEF HandleBatchOutput, FrontTyped
  <2>5. CASE c # None
    <3>1. Told(c, m.finished, m.reason, m.call) /\ ridToState' = StatesAfterOutput(m)
      BY <1>11, <2>5 DEF HandleBatchOutput
    <3>2. ridToState' \in [Rids -> Calls \cup {None}]
      BY <2>2, <3>1 DEF StatesAfterOutput, FrontTyped
    <3>3. UNCHANGED <<rid, outcome, left, abortTask, asked>>
      BY Zenon, <1>11 DEF HandleBatchOutput
    <3> HIDE DEF m, c
    <3> QED BY <1>2, <2>2, <2>3, <2>5, <3>1, <3>2, <3>3 DEF FrontTyped
  <2> QED BY <2>4, <2>5
<1>12. CASE HandleAbortReq
  <2> DEFINE m == Head(replies)
             c == ridToState[rid[m.call]]
  <2>0. replies # <<>> /\ m.type = "abort"
    BY Zenon, <1>12 DEF HandleAbortReq
  <2>1. m \in AbortMsg
    BY <2>0 DEF NetType
  <2>2. m.call \in Calls /\ m.reason \in {"aborted", "unavailable"}
    BY <2>1 DEF AbortMsg
  <2>3. c \in Calls \cup {None} /\ rid[m.call] \in Rids
    BY <2>2 DEF FrontTyped
  <2>4. UNCHANGED <<rid, outcome, ridToState, left, abortTask, asked>>
    BY Zenon, <1>12 DEF HandleAbortReq
  <2>5. CASE c = None
    <3>1. UNCHANGED <<state, heard>>
      BY Zenon, <1>12, <2>5 DEF HandleAbortReq
    <3> QED BY <2>4, <3>1 DEF FrontTyped
  <2>6. CASE c # None
    <3>1. Told(c, TRUE, m.reason, m.call)
      BY Zenon, <1>12, <2>6 DEF HandleAbortReq
    <3> HIDE DEF m, c
    <3>2. TRUE \in BOOLEAN /\ m.reason \in {"none", "answered", "aborted", "unavailable"}
          /\ c \in Calls
      BY <2>2, <2>3, <2>6
    <3>3. /\ state' \in [Calls -> [finished : BOOLEAN, event : BOOLEAN,
                              reason : {"none", "answered", "aborted", "unavailable"}]]
          /\ heard' \in [Calls -> SUBSET Calls]
      BY Zenon, <1>2, <2>2, <3>1, <3>2
    <3> QED BY <2>4, <3>3 DEF FrontTyped
  <2> QED BY <2>5, <2>6
<1>13. CASE UNCHANGED callVars
  BY <1>13 DEF callVars, FrontTyped
<1>14. ASSUME NEW c \in Calls, SchedulerStep(c) \/ SchedulerOutput(c) \/ SchedulerTimeout(c)
       PROVE  UNCHANGED callVars
  BY Zenon, <1>14 DEF SchedulerStep, SchedulerStart, SchedulerFinish, SchedulerDrop,
     SchedulerOutput,
               SchedulerTimeout
<1>15. ASSUME HandleUpdateReply \/ PauseGeneration \/ PauseAgain \/ ContinueGeneration
              \/ UpdateWeights \/ UpdateStep \/ Sigterm \/ Drain \/ SchedulerReceive
       PROVE  UNCHANGED callVars
  BY Zenon, <1>15 DEF HandleUpdateReply, PauseGeneration, PauseAgain, PauseRound,
     ContinueGeneration,
               UpdateWeights, UpdateStep, UpdateCheck, UpdateLock, UpdateReturn, Sigterm, Drain,
               SchedulerReceive
<1> QED
  BY <1>3, <1>4, <1>5, <1>6, <1>7, <1>8, <1>9, <1>10, <1>11, <1>12, <1>13, <1>14, <1>15
     DEF Next, CallStep, HandleLoop, vars

\* The operators' variables and the scheduler's.
LEMMA NextOpTyped ==
  ASSUME Typed, [Next]_vars
  PROVE  OpTyped'
<1> USE DEF Typed
<1>1. ASSUME NEW c \in Calls,
             Arrive(c) \/ ClientLeaves(c) \/ CancelStream(c) \/ AbortTask(c) \/ CallStep(c)
      PROVE  OpTyped'
  <2>1. UNCHANGED <<opVars, crash, sch>>
    BY Zenon, <1>1 DEF Arrive, ClientLeaves, CancelStream, AbortTask, CallStep, PassPause,
       WakeReader,
                TokenizeAndSend, WaitOneResponse, WaitTimeout, Close
  <2> QED BY Zenon, <2>1 DEF opVars, OpTyped
<1>2. ASSUME NEW i \in Rids, AbortRequest(i) PROVE OpTyped'
  BY Zenon, <1>2 DEF AbortRequest, opVars, OpTyped
<1>3. CASE HandleBatchOutput
  BY Zenon, <1>3 DEF HandleBatchOutput, opVars, OpTyped
<1>4. CASE HandleAbortReq
  <2>1. UNCHANGED <<opVars, sch>> /\ crash' \in {crash, "key error"}
    BY Zenon, <1>4 DEF HandleAbortReq
  <2> QED BY Zenon, <2>1 DEF opVars, OpTyped
<1>5. CASE HandleUpdateReply
  BY Zenon, <1>5 DEF HandleUpdateReply, OpTyped
<1>6. CASE PauseGeneration \/ PauseAgain \/ ContinueGeneration \/ Sigterm \/ Drain
  BY ZenonT(30), <1>6 DEF PauseGeneration, PauseAgain, PauseRound, ContinueGeneration,
     Sigterm, Drain,
     OpTyped
<1>7. CASE UpdateWeights \/ UpdateStep
  <2>1. /\ updatePc' \in {"new", "check", "lock", "await", "reply", "over"}
        /\ UNCHANGED <<isPause, pausePc, gracefullyExit, exited, crash, sch>>
    BY Zenon, <1>7 DEF UpdateWeights, UpdateStep, UpdateCheck, UpdateLock, UpdateReturn,
       EnterUpdate,
                SendUpdate, OpTyped
  <2> QED BY Zenon, <2>1 DEF OpTyped
<1>8. CASE SchedulerReceive
  <2>1. UNCHANGED opVars
    BY <1>8 DEF SchedulerReceive
  <2>2. CASE SchedulerUpdate
    BY Zenon, <2>1, <2>2 DEF SchedulerUpdate, opVars, OpTyped
  <2>3. ASSUME NEW hit, SchedulerAbort(hit) PROVE OpTyped'
    BY Zenon, <2>1, <2>3 DEF SchedulerAbort, opVars, OpTyped, Places
  <2>4. ASSUME NEW c, sch' = [sch EXCEPT ![c] = "waiting"], UNCHANGED crash PROVE OpTyped'
    BY Zenon, <2>1, <2>4 DEF opVars, OpTyped, Places
  <2> QED BY <1>8, <2>2, <2>3, <2>4 DEF SchedulerReceive
<1>9. ASSUME NEW c \in Calls, SchedulerStep(c) \/ SchedulerOutput(c) \/ SchedulerTimeout(c)
      PROVE  OpTyped'
  <2>1. \E p \in Places : sch' = [sch EXCEPT ![c] = p]
    BY Zenon, <1>9 DEF SchedulerStep, SchedulerStart, SchedulerFinish, SchedulerDrop,
       SchedulerOutput,
                SchedulerTimeout, Places
  <2>2. UNCHANGED <<opVars, crash>>
    BY Zenon, <1>9 DEF SchedulerStep, SchedulerStart, SchedulerFinish, SchedulerDrop,
       SchedulerOutput,
                SchedulerTimeout
  <2> QED BY Zenon, <2>1, <2>2 DEF opVars, OpTyped
<1>10. CASE UNCHANGED vars
  BY Zenon, <1>10 DEF vars, opVars, OpTyped
<1> QED
  BY <1>1, <1>2, <1>3, <1>4, <1>5, <1>6, <1>7, <1>8, <1>9, <1>10 DEF Next, HandleLoop

\* The types, and with them the lock, are inductive.
LEMMA TypedHolds == Spec => []Typed
<1>1. Typed /\ [Next]_vars => Typed'
  BY NextLockTyped, NextNetType, NextFrontTyped, NextOpTyped DEF Typed
<1> QED BY InitTyped, <1>1, PTL DEF Spec

\* Every variable of the front end always has its type.
THEOREM TypeCorrect == Spec => []TypeOK
<1>1. Typed => TypeOK
  <2> SUFFICES ASSUME Typed PROVE TypeOK
    OBVIOUS
  <2>1. LockTyped /\ FrontTyped /\ OpTyped
    BY DEF Typed
  <2> QED BY <2>1, Zenon DEF LockTyped, FrontTyped, OpTyped, TypeOK
<1> QED BY TypedHolds, <1>1, PTL

\* However many calls read, sleep, are woken, cancelled or end, no call is inside the
\* lock while update_weights_from_disk has it (RWLock, generate_request).
THEOREM UpdateExclusiveHolds == Spec => []UpdateExclusive
<1>1. Typed => UpdateExclusive
  BY DEF Typed, LockTyped, LockInv
<1> QED BY TypedHolds, <1>1, PTL

-----------------------------------------------------------------------------
(***************************************************************************)
(* That answers reach the call they are meant for.  Messages carry an id,  *)
(* and ids are used again; what keeps the calls apart is that a call which *)
(* can still be heard of owns the state under its id, and that nothing is  *)
(* heard of it after its last message.                                     *)
(***************************************************************************)

\* The calls that a queue to the scheduler, the outputs and the replies are about.
SentIn(q) == {d \in Calls : \E k \in 1 .. Len(q) : q[k].type = "generate" /\ q[k].call = d}
SpokenIn(o) == {d \in Calls : \E k \in 1 .. Len(o) : o[k].call = d}
EndedIn(o) == {d \in Calls : \E k \in 1 .. Len(o) : o[k].call = d /\ o[k].finished}
RefusedIn(r) == {d \in Calls : \E k \in 1 .. Len(r) : r[k].type = "abort" /\ r[k].call = d}

\* A call is sent once, refused once, and its finished output is its last.
SentOnce(q) ==
  \A j, k \in 1 .. Len(q) :
    (q[j].type = "generate" /\ q[k].type = "generate" /\ q[j].call = q[k].call) => j = k
EndedLast(o) ==
  \A j, k \in 1 .. Len(o) : (o[j].finished /\ o[j].call = o[k].call) => k <= j
RefusedOnce(r) ==
  \A j, k \in 1 .. Len(r) :
    (r[j].type = "abort" /\ r[k].type = "abort" /\ r[j].call = r[k].call) => j = k

Sent == SentIn(toScheduler)
Spoken == SpokenIn(outputs)
Ended == EndedIn(outputs)
Refused == RefusedIn(replies)
Working == {d \in Calls : sch[d] \in {"waiting", "running", "streaming", "finishing"}}

\* The calls that can still be heard of.
Live == Sent \cup Working \cup Spoken \cup Refused

Early == {"new", "pause", "lock", "tokenize"}

Once == SentOnce(toScheduler) /\ EndedLast(outputs) /\ RefusedOnce(replies)

\* A call is in one of these places at a time, and in none before it is sent.
Apart ==
  \A d \in Calls :
    /\ d \in Sent => sch[d] = "none" /\ d \notin Spoken /\ d \notin Refused
    /\ sch[d] = "waiting" => d \notin Spoken
    /\ d \in Working => d \notin Ended /\ d \notin Refused
    /\ d \in Refused => d \notin Spoken
    /\ pc[d] \in Early => d \notin Live /\ sch[d] = "none"

\* A call that will be sent, can be heard of, or is about to delete its state, owns it.
Owned ==
  \A d \in Calls :
    /\ d \in Live => ridToState[rid[d]] = d
    /\ pc[d] \in Early \ {"new"} => ridToState[rid[d]] = d
    /\ (pc[d] = "wait" /\ state[d].reason = "unavailable") =>
         ridToState[rid[d]] = d /\ d \notin Live
    /\ pc[d] \in Early => state[d].reason = "none"

OwnInv == Once /\ Apart /\ Owned /\ OwnAnswer /\ NoKeyError

-----------------------------------------------------------------------------
(***************************************************************************)
(* The queues.                                                             *)
(***************************************************************************)

\* Sending a request adds its call, once if it was not there.
LEMMA SendGenerate ==
  ASSUME NEW q \in Seq(ToSchedulerMsg), NEW c \in Calls, SentOnce(q), c \notin SentIn(q)
  PROVE  LET q2 == Append(q, [type |-> "generate", call |-> c])
         IN  SentIn(q2) \subseteq SentIn(q) \cup {c} /\ SentOnce(q2)
BY DEF SentIn, SentOnce

\* Sending anything else adds no call.
LEMMA SendOther ==
  ASSUME NEW q \in Seq(ToSchedulerMsg), NEW m \in ToSchedulerMsg, m.type # "generate", SentOnce(q)
  PROVE  SentIn(Append(q, m)) \subseteq SentIn(q) /\ SentOnce(Append(q, m))
BY DEF SentIn, SentOnce

\* Receiving a request removes its call.
LEMMA ReceiveFirst ==
  ASSUME NEW q \in Seq(ToSchedulerMsg), q # <<>>, SentOnce(q)
  PROVE  /\ SentIn(Tail(q)) \subseteq SentIn(q) /\ SentOnce(Tail(q))
         /\ Head(q).type = "generate" => Head(q).call \notin SentIn(Tail(q))
         /\ Head(q).type = "generate" /\ Head(q).call \in Calls => Head(q).call \in SentIn(q)
<1>1. Len(Tail(q)) = Len(q) - 1 /\ Head(q) = q[1] /\ 1 \in 1 .. Len(q)
  OBVIOUS
<1>2. \A k \in 1 .. Len(Tail(q)) : Tail(q)[k] = q[k + 1] /\ k + 1 \in 1 .. Len(q)
  OBVIOUS
<1> QED BY <1>1, <1>2 DEF SentIn, SentOnce

\* An output adds its call; after a finished one there must be no other.
LEMMA AppendOutput ==
  ASSUME NEW o \in Seq(OutputMsg), NEW m \in OutputMsg, EndedLast(o), m.call \notin EndedIn(o)
  PROVE  /\ SpokenIn(Append(o, m)) \subseteq SpokenIn(o) \cup {m.call}
         /\ EndedIn(Append(o, m)) \subseteq EndedIn(o) \cup {m.call}
         /\ ~m.finished => EndedIn(Append(o, m)) \subseteq EndedIn(o)
         /\ EndedLast(Append(o, m))
BY DEF SpokenIn, EndedIn, EndedLast, OutputMsg

\* Handling a finished output leaves nothing of its call.
LEMMA HandleFirstOutput ==
  ASSUME NEW o \in Seq(OutputMsg), o # <<>>, EndedLast(o)
  PROVE  /\ SpokenIn(Tail(o)) \subseteq SpokenIn(o) /\ EndedIn(Tail(o)) \subseteq EndedIn(o)
         /\ EndedLast(Tail(o))
         /\ Head(o).call \in SpokenIn(o)
         /\ Head(o).finished => Head(o).call \in EndedIn(o) /\ Head(o).call \notin SpokenIn(Tail(o))
<1>1. Len(Tail(o)) = Len(o) - 1 /\ Head(o) = o[1] /\ 1 \in 1 .. Len(o)
  OBVIOUS
<1>2. \A k \in 1 .. Len(Tail(o)) : Tail(o)[k] = o[k + 1] /\ k + 1 \in 1 .. Len(o)
  OBVIOUS
<1>3. Head(o) \in OutputMsg
  OBVIOUS
<1>4. Head(o).call \in Calls
  BY <1>3 DEF OutputMsg
<1> QED BY <1>1, <1>2, <1>4 DEF SpokenIn, EndedIn, EndedLast

\* A refusal adds its call, once if it was not there.
LEMMA AppendReply ==
  ASSUME NEW r \in Seq(AbortMsg \cup [type : {"update"}]), NEW c \in Calls, NEW reason,
         RefusedOnce(r), c \notin RefusedIn(r)
  PROVE  /\ RefusedIn(Append(r, Unserved(c, reason))) \subseteq RefusedIn(r) \cup {c}
         /\ RefusedOnce(Append(r, Unserved(c, reason)))
BY DEF RefusedIn, RefusedOnce, Unserved

\* The answer to an update adds no call.
LEMMA AppendUpdateReply ==
  ASSUME NEW r \in Seq(AbortMsg \cup [type : {"update"}]), RefusedOnce(r)
  PROVE  /\ RefusedIn(Append(r, [type |-> "update"])) \subseteq RefusedIn(r)
         /\ RefusedOnce(Append(r, [type |-> "update"]))
BY DEF RefusedIn, RefusedOnce

\* Handling a refusal leaves nothing of its call.
LEMMA HandleFirstReply ==
  ASSUME NEW r \in Seq(AbortMsg \cup [type : {"update"}]), r # <<>>, RefusedOnce(r)
  PROVE  /\ RefusedIn(Tail(r)) \subseteq RefusedIn(r) /\ RefusedOnce(Tail(r))
         /\ Head(r).type = "abort" =>
              /\ Head(r).call \in RefusedIn(r) /\ Head(r).call \notin RefusedIn(Tail(r))
              /\ Head(r) \in AbortMsg
<1>1. Len(Tail(r)) = Len(r) - 1 /\ Head(r) = r[1] /\ 1 \in 1 .. Len(r)
  OBVIOUS
<1>2. \A k \in 1 .. Len(Tail(r)) : Tail(r)[k] = r[k + 1] /\ k + 1 \in 1 .. Len(r)
  OBVIOUS
<1>3. Head(r).type = "abort" => Head(r) \in AbortMsg /\ Head(r).call \in Calls
  <2>1. Head(r) \in AbortMsg \cup [type : {"update"}]
    OBVIOUS
  <2> QED BY <2>1 DEF AbortMsg
<1> QED BY <1>1, <1>2, <1>3 DEF RefusedIn, RefusedOnce

\* The refusals of an abort add the calls it found in the queue, each once.
LEMMA AppendRefusals ==
  ASSUME NEW r \in Seq(AbortMsg \cup [type : {"update"}]), NEW queued \in SUBSET Calls,
         RefusedOnce(r), queued \cap RefusedIn(r) = {}
  PROVE  LET r2 == r \o Listed({Unserved(c, "aborted") : c \in queued})
         IN  RefusedIn(r2) \subseteq RefusedIn(r) \cup queued /\ RefusedOnce(r2)
<1> DEFINE told == {Unserved(c, "aborted") : c \in queued}
           t == Listed(told)
           f == [c \in queued |-> Unserved(c, "aborted")]
<1>1. IsFiniteSet(told)
  <2>1. IsFiniteSet(queued)
    BY FrontEndAssumption, FS_Subset
  <2>2. f \in Surjection(queued, told)
    BY DEF Surjection
  <2> QED BY <2>1, <2>2, FS_Surjection
<1>2. t \in Seq(told) /\ \A j, k \in 1 .. Len(t) : t[j] = t[k] => j = k
  BY Zenon, <1>1, ListedOnce
<1>3. told \subseteq AbortMsg
  BY DEF Unserved, AbortMsg
<1>4. \A k \in 1 .. Len(t) : t[k].call \in queued /\ t[k] = Unserved(t[k].call, "aborted")
  <2>1. \A m \in told : m.call \in queued /\ m = Unserved(m.call, "aborted")
    BY DEF Unserved
  <2> HIDE DEF told, t
  <2> QED BY <1>2, <2>1
<1>5. \A j, k \in 1 .. Len(t) : t[j].call = t[k].call => j = k
  BY <1>2, <1>4
<1> HIDE DEF told, t
<1>6. t \in Seq(AbortMsg \cup [type : {"update"}])
  BY <1>2, <1>3
<1>7. /\ Len(r \o t) = Len(r) + Len(t)
      /\ \A k \in 1 .. Len(r) : (r \o t)[k] = r[k]
      /\ \A k \in Len(r) + 1 .. Len(r) + Len(t) :
           (r \o t)[k] = t[k - Len(r)] /\ k - Len(r) \in 1 .. Len(t)
  BY <1>6
<1>8. RefusedIn(r \o t) \subseteq RefusedIn(r) \cup queued
  BY <1>4, <1>7 DEF RefusedIn
<1>9. RefusedOnce(r \o t)
  <2> SUFFICES ASSUME NEW j \in 1 .. Len(r) + Len(t), NEW k \in 1 .. Len(r) + Len(t),
                      (r \o t)[j].type = "abort", (r \o t)[k].type = "abort",
                      (r \o t)[j].call = (r \o t)[k].call
               PROVE  j = k
    BY <1>7 DEF RefusedOnce
  <2>1. CASE j <= Len(r) /\ k <= Len(r)
    BY <1>7, <2>1 DEF RefusedOnce
  <2>2. CASE j > Len(r) /\ k > Len(r)
    BY <1>5, <1>7, <2>2
  <2>3. CASE j <= Len(r) /\ k > Len(r)
    BY <1>4, <1>7, <2>3 DEF RefusedIn
  <2>4. CASE j > Len(r) /\ k <= Len(r)
    BY <1>4, <1>7, <2>4 DEF RefusedIn
  <2> QED BY <2>1, <2>2, <2>3, <2>4
<1> QED BY <1>8, <1>9 DEF told, t

-----------------------------------------------------------------------------
(***************************************************************************)
(* Steps that add nothing that could be heard of a call.                   *)
(***************************************************************************)

\* What such a step may do.
Quiet ==
  /\ UNCHANGED <<rid, ridToState, heard>> /\ crash' # "key error"
  /\ Sent' \subseteq Sent /\ Spoken' \subseteq Spoken /\ Ended' \subseteq Ended
  /\ Refused' \subseteq Refused /\ Once'
  /\ \A d \in Calls : state'[d].reason = state[d].reason
  /\ \A d \in Calls : /\ sch[d] = "none" => sch'[d] = "none"
                      /\ sch'[d] = "waiting" => sch[d] = "waiting"
                      /\ d \in Working' => d \in Working
  /\ \A d \in Calls : \/ pc'[d] = pc[d] \/ pc'[d] \in {"close", "end"}
                      \/ pc[d] \in Early \ {"new"} /\ pc'[d] \in Early \ {"new"}

\* It keeps the invariant.
LEMMA QuietKeeps ==
  ASSUME OwnInv, Quiet
  PROVE  OwnInv'
<1>1. Live' \subseteq Live
  BY Zenon DEF Live, Quiet, Working
<1>2. ASSUME NEW d \in Calls, pc'[d] \in Early PROVE pc[d] \in Early
  BY Zenon, <1>2 DEF Quiet, Early
<1>3. Apart'
  BY Zenon, <1>1, <1>2 DEF OwnInv, Apart, Quiet
<1>4. Owned'
  <2> SUFFICES ASSUME NEW d \in Calls
               PROVE  /\ d \in Live' => ridToState'[rid'[d]] = d
                      /\ pc'[d] \in Early \ {"new"} => ridToState'[rid'[d]] = d
                      /\ (pc'[d] = "wait" /\ state'[d].reason = "unavailable") =>
                           ridToState'[rid'[d]] = d /\ d \notin Live'
                      /\ pc'[d] \in Early => state'[d].reason = "none"
    BY DEF Owned, Early
  <2>1. d \in Live' => ridToState'[rid'[d]] = d
    BY ZenonT(30), <1>1 DEF OwnInv, Owned, Quiet
  <2>2. pc'[d] \in Early \ {"new"} => ridToState'[rid'[d]] = d
    BY ZenonT(30) DEF OwnInv, Owned, Quiet, Early
  <2>3. (pc'[d] = "wait" /\ state'[d].reason = "unavailable") =>
          ridToState'[rid'[d]] = d /\ d \notin Live'
    BY ZenonT(30), <1>1 DEF OwnInv, Owned, Quiet, Early
  <2>4. pc'[d] \in Early => state'[d].reason = "none"
    BY Zenon, <1>2 DEF OwnInv, Owned, Quiet
  <2> QED BY <2>1, <2>2, <2>3, <2>4
<1> QED BY Zenon, <1>3, <1>4 DEF OwnInv, Quiet, OwnAnswer, NoKeyError

\* Appending an abort, or an update, to the queue to the scheduler adds no request.
LEMMA QueueOther ==
  ASSUME Typed, Once
  PROVE  /\ \A i \in Rids : /\ SentIn(Aborted(toScheduler, i)) \subseteq Sent
                            /\ SentOnce(Aborted(toScheduler, i))
         /\ SentIn(AbortAll(toScheduler)) \subseteq Sent /\ SentOnce(AbortAll(toScheduler))
         /\ \A q \in {toScheduler, AbortAll(toScheduler)} :
              /\ SentIn(Append(q, [type |-> "update"])) \subseteq Sent
              /\ SentOnce(Append(q, [type |-> "update"]))
<1>1. toScheduler \in Seq(ToSchedulerMsg)
  BY DEF Typed, NetType
<1>2. ASSUME NEW i \in Rids
      PROVE  /\ SentIn(Aborted(toScheduler, i)) \subseteq Sent
             /\ SentOnce(Aborted(toScheduler, i))
  <2>1. [type |-> "abort", rid |-> i] \in ToSchedulerMsg
    BY DEF ToSchedulerMsg
  <2> QED BY <1>1, <2>1, SendOther DEF Aborted, Sent, Once
<1>3. [type |-> "abortAll"] \in ToSchedulerMsg /\ [type |-> "update"] \in ToSchedulerMsg
  BY DEF ToSchedulerMsg
<1>4. SentIn(AbortAll(toScheduler)) \subseteq Sent /\ SentOnce(AbortAll(toScheduler))
  BY <1>1, <1>3, SendOther DEF AbortAll, Sent, Once
<1>5. AbortAll(toScheduler) \in Seq(ToSchedulerMsg)
  BY <1>1, <1>3 DEF AbortAll
<1>6. ASSUME NEW q \in {toScheduler, AbortAll(toScheduler)}
      PROVE  /\ SentIn(Append(q, [type |-> "update"])) \subseteq Sent
             /\ SentOnce(Append(q, [type |-> "update"]))
  BY <1>1, <1>3, <1>4, <1>5, SendOther DEF Sent, Once
<1> QED BY <1>2, <1>4, <1>6

\* A step that only sends the scheduler something else than a request.
LEMMA QuietNet ==
  ASSUME Once, UNCHANGED <<outputs, replies>>, SentIn(toScheduler') \subseteq Sent,
         SentOnce(toScheduler')
  PROVE  /\ Sent' \subseteq Sent /\ Spoken' \subseteq Spoken /\ Ended' \subseteq Ended
         /\ Refused' \subseteq Refused /\ Once'
BY DEF Once, Sent, Spoken, Ended, Refused

\* A call that ends, closes or goes on waiting, whatever it sends.
LEMMA QuietCall ==
  ASSUME Typed, OwnInv, NEW c \in Calls,
         UNCHANGED <<rid, ridToState, heard, crash, sch, outputs, replies>>,
         SentIn(toScheduler') \subseteq Sent, SentOnce(toScheduler'),
         \A d \in Calls : state'[d].reason = state[d].reason,
         \/ UNCHANGED pc
         \/ \E p \in {"close", "end"} : pc' = [pc EXCEPT ![c] = p]
         \/ /\ pc[c] \in Early \ {"new"}
            /\ \E p \in Early \ {"new"} : pc' = [pc EXCEPT ![c] = p]
  PROVE  OwnInv'
<1>1. /\ Sent' \subseteq Sent /\ Spoken' \subseteq Spoken /\ Ended' \subseteq Ended
      /\ Refused' \subseteq Refused /\ Once'
  BY Zenon, QuietNet DEF OwnInv
<1>2. Working' = Working
  BY DEF Working
<1>3. \A d \in Calls : \/ pc'[d] = pc[d] \/ pc'[d] \in {"close", "end"}
                       \/ pc[d] \in Early \ {"new"} /\ pc'[d] \in Early \ {"new"}
  BY DEF Typed, LockTyped
<1>4. crash' # "key error"
  BY Zenon DEF OwnInv, NoKeyError
<1> QED BY ZenonT(30), <1>1, <1>2, <1>3, <1>4, QuietKeeps DEF Quiet

\* The steps of a call other than its arrival, its sending and the deletion of its state.
LEMMA CallStepKeeps ==
  ASSUME Typed, OwnInv, NEW c \in Calls,
         \/ Arrive(c) /\ RidTaken(c)
         \/ ClientLeaves(c) \/ CancelStream(c) \/ AbortTask(c)
         \/ PassPause(c) \/ WakeReader(c)
         \/ TokenizeAndSend(c) /\ UNCHANGED toScheduler
         \/ WaitOneResponse(c) /\ UNCHANGED ridToState
         \/ WaitTimeout(c) \/ Close(c)
  PROVE  OwnInv'
<1> USE DEF OwnInv
<1>0. rid[c] \in Rids /\ SentOnce(toScheduler) /\ SentIn(toScheduler) \subseteq Sent
  BY DEF Typed, FrontTyped, Once, Sent
<1>1. CASE Arrive(c) /\ RidTaken(c)
  BY ZenonT(30), <1>0, <1>1, QuietCall DEF Arrive, End, netVars
<1>2. CASE ClientLeaves(c)
  BY ZenonT(30), <1>0, <1>2, QuietCall DEF ClientLeaves, netVars
<1>3. CASE CancelStream(c)
  BY ZenonT(30), <1>0, <1>3, QuietCall DEF CancelStream, End, netVars
<1>4. CASE AbortTask(c)
  BY ZenonT(30), <1>0, <1>4, QueueOther, QuietCall DEF AbortTask
<1>5. CASE PassPause(c) \/ WakeReader(c)
  BY Zenon, <1>0, <1>5, QuietCall DEF PassPause, WakeReader, EnterLock, Early, netVars
<1>6. CASE TokenizeAndSend(c) /\ UNCHANGED toScheduler
  <2>1. CASE End(c, "invalid", TRUE)
    BY Zenon, <1>0, <1>6, <2>1, QuietCall DEF TokenizeAndSend, End
  <2>2. CASE toScheduler' = Append(toScheduler, [type |-> "generate", call |-> c])
    BY <1>6, <2>2 DEF Typed, NetType
  <2> QED BY Zenon, <1>6, <2>1, <2>2 DEF TokenizeAndSend
<1>7. CASE WaitOneResponse(c) /\ UNCHANGED ridToState
  <2>1. \A d \in Calls : state'[d].reason = state[d].reason
    BY <1>7 DEF WaitOneResponse, Typed, FrontTyped
  <2>2. \/ UNCHANGED toScheduler
        \/ toScheduler' = Aborted(toScheduler, rid[c])
    BY Zenon, <1>7 DEF WaitOneResponse
  <2>3. SentIn(toScheduler') \subseteq Sent /\ SentOnce(toScheduler')
    BY <1>0, <2>2, QueueOther
  <2>4. \/ UNCHANGED pc
        \/ \E p \in {"close", "end"} : pc' = [pc EXCEPT ![c] = p]
    BY <1>7 DEF WaitOneResponse, End
  <2>5. UNCHANGED <<rid, ridToState, heard, crash, sch, outputs, replies>>
    BY <1>7 DEF WaitOneResponse
  <2> QED BY Zenon, <2>1, <2>3, <2>4, <2>5, QuietCall
<1>8. CASE WaitTimeout(c)
  BY ZenonT(30), <1>0, <1>8, QueueOther, QuietCall DEF WaitTimeout, StatesAfterLeaving, End
<1>9. CASE Close(c)
  BY Zenon, <1>0, <1>9, QuietCall DEF Close, End, netVars
<1> QED BY <1>1, <1>2, <1>3, <1>4, <1>5, <1>6, <1>7, <1>8, <1>9

\* The operators' steps.
LEMMA OperatorStepKeeps ==
  ASSUME Typed, OwnInv,
         \/ \E i \in Rids : AbortRequest(i)
         \/ PauseGeneration \/ PauseAgain \/ ContinueGeneration \/ UpdateWeights \/ UpdateStep
         \/ Sigterm \/ Drain \/ UNCHANGED vars
  PROVE  OwnInv'
<1>0. SentOnce(toScheduler) /\ SentIn(toScheduler) \subseteq Sent
  BY DEF OwnInv, Once, Sent
<1>1. /\ UNCHANGED <<rid, pc, state, ridToState, heard, crash, sch, outputs, replies>>
      /\ SentIn(toScheduler') \subseteq Sent /\ SentOnce(toScheduler')
  <2>1. CASE \E i \in Rids : AbortRequest(i)
    BY ZenonT(30), <2>1, QueueOther DEF AbortRequest, OwnInv
  <2>2. CASE PauseGeneration \/ PauseAgain
    BY ZenonT(30), <2>2, QueueOther DEF PauseGeneration, PauseAgain, PauseRound, callVars,
       OwnInv
  <2>3. CASE ContinueGeneration \/ Sigterm \/ Drain \/ UpdateReturn \/ UNCHANGED vars
    BY Zenon, <1>0, <2>3 DEF ContinueGeneration, Sigterm, Drain, UpdateReturn, vars, netVars,
       callVars
  <2>4. ASSUME NEW q \in {toScheduler, AbortAll(toScheduler)},
               toScheduler' \in {q, Append(q, [type |-> "update"])}
        PROVE  SentIn(toScheduler') \subseteq Sent /\ SentOnce(toScheduler')
    BY Zenon, <1>0, <2>4, QueueOther DEF OwnInv
  <2>5. CASE UpdateWeights
    BY Zenon, <2>4, <2>5 DEF UpdateWeights, EnterUpdate, SendUpdate, callVars
  <2>6. CASE UpdateCheck \/ UpdateLock
    BY <2>4, <2>6 DEF UpdateCheck, UpdateLock, EnterUpdate, SendUpdate, callVars
  <2> QED BY <2>1, <2>2, <2>3, <2>5, <2>6 DEF UpdateStep
<1>2. CASE Calls = {}
  BY Zenon, <1>1, <1>2, QuietNet DEF OwnInv, Apart, Owned, OwnAnswer, NoKeyError
<1>3. CASE Calls # {}
  BY <1>1, <1>3, QuietCall
<1> QED BY <1>2, <1>3

-----------------------------------------------------------------------------
(***************************************************************************)
(* The life of a call: arrival, sending, and its way through the scheduler.*)
(***************************************************************************)

\* A new call takes an id that nobody owns, so it takes nothing from another.
LEMMA ArriveKeeps ==
  ASSUME Typed, OwnInv, NEW c \in Calls, Arrive(c), ~RidTaken(c)
  PROVE  OwnInv'
<1>1. /\ UNCHANGED <<rid, state, heard, crash, sch, toScheduler, outputs, replies>>
      /\ ridToState' = [ridToState EXCEPT ![rid[c]] = c] /\ pc[c] = "new"
  BY Zenon DEF Arrive, netVars
<1>2. \E p \in Early \ {"new"} : pc' = [pc EXCEPT ![c] = p]
  BY Zenon DEF Arrive, EnterLock, Early
<1>3. UNCHANGED <<Sent, Spoken, Ended, Refused, Working, Live, Once>>
  BY Zenon, <1>1 DEF Sent, Spoken, Ended, Refused, Working, Live, Once
<1>4. c \notin Live
  BY <1>1 DEF OwnInv, Apart, Early
<1>5. \A d \in Calls : pc'[d] \in Early => pc[d] \in Early
  BY <1>1, <1>2 DEF Typed, LockTyped, Early
<1>6. Apart'
  BY Zenon, <1>1, <1>3, <1>5 DEF OwnInv, Apart
<1>7. \A d \in Calls : ridToState[rid[d]] = d => d # None
  BY FrontEndAssumption
<1>8. \A d \in Calls \ {c} : ridToState[rid[d]] = d => ridToState'[rid'[d]] = d
  BY <1>1, <1>7 DEF RidTaken, Typed, FrontTyped
<1>9. ridToState'[rid'[c]] = c
  BY <1>1 DEF Typed, FrontTyped
<1>10. \A d \in Calls \ {c} : pc'[d] = pc[d]
  BY <1>2 DEF Typed, LockTyped
<1>11. pc'[c] \in Early \ {"new"}
  BY <1>2 DEF Typed, LockTyped
<1>12. Owned'
  <2> SUFFICES ASSUME NEW d \in Calls
               PROVE  /\ d \in Live' => ridToState'[rid'[d]] = d
                      /\ pc'[d] \in Early \ {"new"} => ridToState'[rid'[d]] = d
                      /\ (pc'[d] = "wait" /\ state'[d].reason = "unavailable") =>
                           ridToState'[rid'[d]] = d /\ d \notin Live'
                      /\ pc'[d] \in Early => state'[d].reason = "none"
    BY DEF Owned, Early
  <2>1. CASE d = c
    BY <1>1, <1>3, <1>4, <1>9, <1>11, <2>1 DEF OwnInv, Owned, Early
  <2>2. CASE d # c
    BY ZenonT(30), <1>1, <1>3, <1>8, <1>10, <2>2 DEF OwnInv, Owned
  <2> QED BY Zenon, <2>1, <2>2
<1> QED BY Zenon, <1>1, <1>3, <1>6, <1>12 DEF OwnInv, OwnAnswer, NoKeyError

\* A call is sent with its state in place.
LEMMA SendKeeps ==
  ASSUME Typed, OwnInv, NEW c \in Calls, TokenizeAndSend(c),
         toScheduler' = Append(toScheduler, [type |-> "generate", call |-> c])
  PROVE  OwnInv'
<1>1. UNCHANGED <<rid, state, ridToState, heard, crash, sch, outputs, replies>>
      /\ pc[c] = "tokenize" /\ c \notin Live /\ sch[c] = "none"
  BY DEF TokenizeAndSend, OwnInv, Apart, Early
<1>2. \E p \in {"wait", "end"} : pc' = [pc EXCEPT ![c] = p]
  BY DEF TokenizeAndSend, End
<1>3. Sent' \subseteq Sent \cup {c} /\ SentOnce(toScheduler')
  BY ZenonT(30), <1>1, SendGenerate DEF Sent, Live, OwnInv, Once, Typed, NetType
<1>4. UNCHANGED <<Spoken, Ended, Refused, Working>> /\ Once'
  BY <1>1, <1>3 DEF Spoken, Ended, Refused, Working, OwnInv, Once
<1>5. Live' \subseteq Live \cup {c}
  BY <1>3, <1>4 DEF Live
<1>6. \A d \in Calls \ {c} : pc'[d] = pc[d]
  BY <1>2 DEF Typed, LockTyped
<1>7. pc'[c] \in {"wait", "end"}
  BY <1>2 DEF Typed, LockTyped
<1>8. Apart'
  BY ZenonT(30), <1>1, <1>3, <1>4, <1>5, <1>6, <1>7 DEF OwnInv, Apart, Early, Live
<1>9. Owned'
  <2> SUFFICES ASSUME NEW d \in Calls
               PROVE  /\ d \in Live' => ridToState'[rid'[d]] = d
                      /\ pc'[d] \in Early \ {"new"} => ridToState'[rid'[d]] = d
                      /\ (pc'[d] = "wait" /\ state'[d].reason = "unavailable") =>
                           ridToState'[rid'[d]] = d /\ d \notin Live'
                      /\ pc'[d] \in Early => state'[d].reason = "none"
    BY Zenon DEF Owned, Early
  <2>1. CASE d = c
    BY <1>1, <1>7, <2>1 DEF OwnInv, Owned, Early
  <2>2. CASE d # c
    BY Zenon, <1>1, <1>5, <1>6, <2>2 DEF OwnInv, Owned
  <2> QED BY ZenonT(30), <2>1, <2>2
<1> QED BY Zenon, <1>1, <1>4, <1>8, <1>9 DEF OwnInv, OwnAnswer, NoKeyError

\* A step of the scheduler keeps the invariant if it keeps its own part of it.
LEMMA SchedulerKeeps ==
  ASSUME OwnInv, UNCHANGED callVars, crash' # "key error", Once', Apart', Live' \subseteq Live
  PROVE  OwnInv'
<1>1. UNCHANGED <<rid, pc, state, ridToState, heard>>
  BY ZenonT(30) DEF callVars
<1>2. Owned'
  BY Zenon, <1>1 DEF OwnInv, Owned
<1> QED BY Zenon, <1>1, <1>2 DEF OwnInv, OwnAnswer, NoKeyError

\* A request that is received waits in the scheduler and is nowhere else.
LEMMA ReceiveGenerateKeeps ==
  ASSUME Typed, OwnInv, SchedulerReceive, Head(toScheduler).type = "generate"
  PROVE  OwnInv'
<1> DEFINE m == Head(toScheduler)
           d == m.call
<1>1. toScheduler # <<>> /\ toScheduler' = Tail(toScheduler) /\ UNCHANGED outputs
  BY DEF SchedulerReceive
<1>2. m \in ToSchedulerMsg
  BY <1>1 DEF Typed, NetType
<1>3. d \in Calls
  BY <1>2 DEF ToSchedulerMsg
<1>4. sch' = [sch EXCEPT ![d] = "waiting"] /\ UNCHANGED <<replies, crash, callVars>>
  BY DEF SchedulerReceive
<1>5. Sent' \subseteq Sent /\ d \notin Sent' /\ d \in Sent /\ SentOnce(toScheduler')
  BY <1>1, <1>3, ReceiveFirst DEF Sent, OwnInv, Once, Typed, NetType
<1> HIDE DEF m, d
<1>6. UNCHANGED <<Spoken, Ended, Refused>> /\ Once'
  BY <1>1, <1>4, <1>5 DEF Spoken, Ended, Refused, OwnInv, Once
<1>7. Working' = Working \cup {d} /\ \A e \in Calls \ {d} : sch'[e] = sch[e]
  BY Zenon, <1>3, <1>4 DEF Working, Typed, OpTyped
<1>8. Live' \subseteq Live /\ d \in Live
  BY <1>5, <1>6, <1>7 DEF Live
<1>9. Ended \subseteq Spoken
  BY DEF Ended, Spoken, EndedIn, SpokenIn
<1>10. UNCHANGED pc
  BY <1>4 DEF callVars
<1>11. Apart'
  <2> SUFFICES ASSUME NEW e \in Calls
               PROVE  /\ e \in Sent' => sch'[e] = "none" /\ e \notin Spoken' /\ e \notin Refused'
                      /\ sch'[e] = "waiting" => e \notin Spoken'
                      /\ e \in Working' => e \notin Ended' /\ e \notin Refused'
                      /\ e \in Refused' => e \notin Spoken'
                      /\ pc'[e] \in Early => e \notin Live' /\ sch'[e] = "none"
    BY DEF Apart, Early
  <2>1. CASE e = d
    BY <1>5, <1>6, <1>8, <1>9, <1>10, <2>1 DEF OwnInv, Apart
  <2>2. CASE e # d
    BY <1>5, <1>6, <1>7, <1>8, <1>10, <2>2 DEF OwnInv, Apart
  <2> QED BY <2>1, <2>2
<1> QED BY ZenonT(30), <1>4, <1>6, <1>8, <1>11, SchedulerKeeps DEF OwnInv, NoKeyError

\* An abort refuses the calls it finds waiting, each once, and forgets them.
LEMMA ReceiveAbortKeeps ==
  ASSUME Typed, OwnInv, SchedulerReceive, NEW hit \in SUBSET Calls, SchedulerAbort(hit)
  PROVE  OwnInv'
<1> DEFINE queued == {c \in hit : sch[c] = "waiting"}
<1>1. /\ toScheduler # <<>> /\ toScheduler' = Tail(toScheduler)
      /\ UNCHANGED <<outputs, crash, callVars>>
  BY Zenon DEF SchedulerReceive, SchedulerAbort
<1>2. Sent' \subseteq Sent /\ SentOnce(toScheduler')
  BY <1>1, ReceiveFirst DEF Sent, OwnInv, Once, Typed, NetType
<1>3. replies' = replies \o Listed({Unserved(c, "aborted") : c \in queued})
  BY DEF SchedulerAbort
<1>4. queued \subseteq Working /\ queued \in SUBSET Calls
  BY DEF Working
<1>5. queued \cap Refused = {}
  BY <1>4 DEF OwnInv, Apart
<1>6. \A c \in Calls : \/ c \in queued /\ sch'[c] = "none"
                       \/ c \notin queued /\ sch'[c] = sch[c]
                       \/ c \notin queued /\ sch'[c] = "finishing"
                          /\ sch[c] \in {"running", "streaming"}
  BY DEF SchedulerAbort
<1>7. \A c \in queued : sch[c] = "waiting"
  OBVIOUS
<1> HIDE DEF queued
<1>8. Refused' \subseteq Refused \cup queued /\ RefusedOnce(replies')
  BY Zenon, <1>3, <1>4, <1>5, AppendRefusals DEF Refused, OwnInv, Once, Typed, NetType
<1>9. UNCHANGED <<Spoken, Ended>> /\ Once'
  BY <1>1, <1>2, <1>8 DEF Spoken, Ended, OwnInv, Once
<1>10. Working' \subseteq Working \ queued
  BY <1>6 DEF Working
<1>11. Live' \subseteq Live
  BY <1>2, <1>4, <1>8, <1>9, <1>10 DEF Live
<1>12. UNCHANGED pc
  BY <1>1 DEF callVars
<1>13. Apart'
  <2> SUFFICES ASSUME NEW e \in Calls
               PROVE  /\ e \in Sent' => sch'[e] = "none" /\ e \notin Spoken' /\ e \notin Refused'
                      /\ sch'[e] = "waiting" => e \notin Spoken'
                      /\ e \in Working' => e \notin Ended' /\ e \notin Refused'
                      /\ e \in Refused' => e \notin Spoken'
                      /\ pc'[e] \in Early => e \notin Live' /\ sch'[e] = "none"
    BY DEF Apart, Early
  <2>1. CASE e \in queued
    BY <1>2, <1>6, <1>7, <1>8, <1>9, <1>10, <1>11, <1>12, <2>1 DEF OwnInv, Apart
  <2>2. CASE e \notin queued
    BY ZenonT(30), <1>2, <1>6, <1>8, <1>9, <1>10, <1>11, <1>12, <2>2 DEF OwnInv, Apart
  <2> QED BY ZenonT(30), <2>1, <2>2
<1> QED BY ZenonT(30), <1>1, <1>9, <1>11, <1>13, SchedulerKeeps DEF OwnInv, NoKeyError

\* An update, the answer to one, and the moves inside the scheduler are not heard of.
LEMMA QuietSchedulerKeeps ==
  ASSUME Typed, OwnInv,
         \/ SchedulerReceive /\ SchedulerUpdate
         \/ HandleUpdateReply
         \/ \E c \in Calls : SchedulerStart(c) \/ SchedulerDrop(c)
  PROVE  OwnInv'
<1>1. UNCHANGED <<rid, pc, state, ridToState, heard, outputs>>
  BY Zenon DEF SchedulerReceive, HandleUpdateReply, SchedulerStart, SchedulerDrop, callVars,
     netVars
<1>2. crash' # "key error"
  BY Zenon DEF SchedulerUpdate, HandleUpdateReply, SchedulerStart, SchedulerDrop, OwnInv,
     NoKeyError
<1>3. Sent' \subseteq Sent /\ SentOnce(toScheduler')
  <2>1. CASE UNCHANGED toScheduler
    BY <2>1 DEF Sent, OwnInv, Once
  <2>2. CASE SchedulerReceive
    BY Zenon, <2>2, ReceiveFirst DEF SchedulerReceive, Sent, OwnInv, Once, Typed, NetType
  <2> QED BY <2>1, <2>2 DEF HandleUpdateReply, SchedulerStart, SchedulerDrop, netVars
<1>4. Refused' \subseteq Refused /\ RefusedOnce(replies')
  <2>1. CASE UNCHANGED replies
    BY <2>1 DEF Refused, OwnInv, Once
  <2>2. CASE replies' = Append(replies, [type |-> "update"])
    BY <2>2, AppendUpdateReply DEF Refused, OwnInv, Once, Typed, NetType
  <2>3. CASE HandleUpdateReply
    BY Zenon, <2>3, HandleFirstReply DEF HandleUpdateReply, Refused, OwnInv, Once, Typed,
       NetType
  <2> QED BY <2>1, <2>2, <2>3 DEF SchedulerUpdate, SchedulerStart, SchedulerDrop, netVars
<1>5. \A d \in Calls : /\ sch[d] = "none" => sch'[d] = "none"
                       /\ sch'[d] = "waiting" => sch[d] = "waiting"
                       /\ d \in Working' => d \in Working
  BY Zenon DEF SchedulerUpdate, HandleUpdateReply, SchedulerStart, SchedulerDrop, Working,
     Typed,
     OpTyped
<1>6. UNCHANGED <<Spoken, Ended>> /\ Once'
  BY <1>1, <1>3, <1>4 DEF Spoken, Ended, OwnInv, Once
<1> QED BY ZenonT(30), <1>1, <1>2, <1>3, <1>4, <1>5, <1>6, QuietKeeps DEF Quiet

\* A request that runs may speak, and it is silent after its last output.
LEMMA OutputKeeps ==
  ASSUME Typed, OwnInv, NEW c \in Calls, SchedulerOutput(c) \/ SchedulerFinish(c)
  PROVE  OwnInv'
<1>1. /\ UNCHANGED <<callVars, toScheduler, replies, crash>> /\ c \in Working /\ sch[c] # "none"
      /\ \E p \in {"streaming", "last"} : sch' = [sch EXCEPT ![c] = p]
  BY Zenon DEF SchedulerOutput, SchedulerFinish, Working
<1>2. PICK m \in OutputMsg : /\ outputs' = Append(outputs, m) /\ m.call = c
                             /\ m.finished => sch' = [sch EXCEPT ![c] = "last"]
  <2>1. CASE SchedulerOutput(c)
    <3>1. [call |-> c, finished |-> FALSE, reason |-> "none"] \in OutputMsg
      BY DEF OutputMsg
    <3> QED BY <2>1, <3>1 DEF SchedulerOutput, Output
  <2>2. CASE SchedulerFinish(c)
    <3>1. \A r \in {"aborted", "answered"} : [call |-> c, finished |-> TRUE, reason |-> r] \in OutputMsg
      BY DEF OutputMsg
    <3> QED BY <2>2, <3>1 DEF SchedulerFinish, Output
  <2> QED BY <2>1, <2>2
<1>3. c \notin Ended /\ c \notin Refused /\ c \notin Sent
  BY <1>1 DEF OwnInv, Apart
<1>4. /\ Spoken' \subseteq Spoken \cup {c} /\ Ended' \subseteq Ended \cup {c}
      /\ ~m.finished => Ended' \subseteq Ended
      /\ EndedLast(outputs')
  BY <1>2, <1>3, AppendOutput DEF Spoken, Ended, OwnInv, Once, Typed, NetType
<1>5. UNCHANGED <<Sent, Refused>> /\ Once'
  BY <1>1, <1>4 DEF Sent, Refused, OwnInv, Once
<1>6. /\ \A d \in Calls \ {c} : sch'[d] = sch[d]
      /\ sch'[c] \in {"streaming", "last"}
      /\ m.finished => sch'[c] = "last"
  BY Zenon, <1>1, <1>2 DEF Typed, OpTyped
<1>7. /\ Working' \subseteq Working
      /\ c \in Working' => c \notin Ended'
  BY <1>1, <1>3, <1>4, <1>6 DEF Working
<1>8. Live' \subseteq Live /\ c \in Live
  BY <1>1, <1>4, <1>5, <1>7 DEF Live
<1>9. UNCHANGED pc
  BY <1>1 DEF callVars
<1>10. Apart'
  <2> SUFFICES ASSUME NEW e \in Calls
               PROVE  /\ e \in Sent' => sch'[e] = "none" /\ e \notin Spoken' /\ e \notin Refused'
                      /\ sch'[e] = "waiting" => e \notin Spoken'
                      /\ e \in Working' => e \notin Ended' /\ e \notin Refused'
                      /\ e \in Refused' => e \notin Spoken'
                      /\ pc'[e] \in Early => e \notin Live' /\ sch'[e] = "none"
    BY DEF Apart, Early
  <2>1. CASE e = c
    BY ZenonT(30), <1>3, <1>5, <1>6, <1>7, <1>8, <1>9, <2>1 DEF OwnInv, Apart
  <2>2. CASE e # c
    BY Zenon, <1>4, <1>5, <1>6, <1>7, <1>8, <1>9, <2>2 DEF OwnInv, Apart
  <2> QED BY ZenonT(30), <2>1, <2>2
<1> QED BY Zenon, <1>1, <1>5, <1>8, <1>10, SchedulerKeeps DEF OwnInv, NoKeyError

\* A request that has waited too long is refused and forgotten.
LEMMA TimeoutKeeps ==
  ASSUME Typed, OwnInv, NEW c \in Calls, SchedulerTimeout(c)
  PROVE  OwnInv'
<1>1. /\ UNCHANGED <<callVars, toScheduler, outputs, crash>> /\ c \in Working
      /\ sch[c] = "waiting" /\ sch' = [sch EXCEPT ![c] = "none"]
      /\ replies' = Append(replies, Unserved(c, "unavailable"))
  BY DEF SchedulerTimeout, Working
<1>2. c \notin Refused /\ c \notin Spoken /\ c \notin Sent /\ c \in Live
  BY <1>1 DEF OwnInv, Apart, Live
<1>3. Refused' \subseteq Refused \cup {c} /\ RefusedOnce(replies')
  BY <1>1, <1>2, AppendReply DEF Refused, OwnInv, Once, Typed, NetType
<1>4. UNCHANGED <<Sent, Spoken, Ended>> /\ Once'
  BY <1>1, <1>3 DEF Sent, Spoken, Ended, OwnInv, Once
<1>5. sch'[c] = "none" /\ \A d \in Calls \ {c} : sch'[d] = sch[d]
  BY Zenon, <1>1 DEF Typed, OpTyped
<1>6. Working' \subseteq Working \ {c}
  BY <1>5 DEF Working
<1>7. Live' \subseteq Live
  BY <1>2, <1>3, <1>4, <1>6 DEF Live
<1>8. UNCHANGED pc
  BY <1>1 DEF callVars
<1>9. Apart'
  <2> SUFFICES ASSUME NEW e \in Calls
               PROVE  /\ e \in Sent' => sch'[e] = "none" /\ e \notin Spoken' /\ e \notin Refused'
                      /\ sch'[e] = "waiting" => e \notin Spoken'
                      /\ e \in Working' => e \notin Ended' /\ e \notin Refused'
                      /\ e \in Refused' => e \notin Spoken'
                      /\ pc'[e] \in Early => e \notin Live' /\ sch'[e] = "none"
    BY DEF Apart, Early
  <2>1. CASE e = c
    BY <1>2, <1>4, <1>5, <1>6, <1>7, <1>8, <2>1 DEF OwnInv, Apart
  <2>2. CASE e # c
    BY <1>3, <1>4, <1>5, <1>6, <1>7, <1>8, <2>2 DEF OwnInv, Apart
  <2> QED BY <2>1, <2>2
<1> QED BY Zenon, <1>1, <1>4, <1>7, <1>9, SchedulerKeeps DEF OwnInv, NoKeyError

-----------------------------------------------------------------------------
(***************************************************************************)
(* The answers, and the end of a refused call.                             *)
(***************************************************************************)

\* An output finds the state of its own call, and a last one removes it.
LEMMA HandleOutputKeeps ==
  ASSUME Typed, OwnInv, HandleBatchOutput
  PROVE  OwnInv'
<1>1. /\ UNCHANGED <<rid, pc, crash, sch, toScheduler, replies>>
      /\ outputs # <<>> /\ outputs' = Tail(outputs)
  BY DEF HandleBatchOutput
<1>2. PICK m \in OutputMsg : m = Head(outputs)
  BY <1>1 DEF Typed, NetType
<1>3. PICK d \in Calls : d = m.call
  BY DEF OutputMsg
<1>4. /\ Spoken' \subseteq Spoken /\ Ended' \subseteq Ended /\ EndedLast(outputs') /\ d \in Spoken
      /\ m.finished => d \in Ended /\ d \notin Spoken'
  BY <1>1, <1>2, <1>3, HandleFirstOutput DEF Spoken, Ended, OwnInv, Once, Typed, NetType
<1>5. d \in Live /\ ridToState[rid[d]] = d /\ d # None /\ pc[d] \notin Early
  BY ZenonT(30), <1>4, FrontEndAssumption DEF Live, OwnInv, Owned, Apart
<1>6. /\ Told(d, m.finished, m.reason, d)
      /\ ridToState' = IF m.finished THEN [ridToState EXCEPT ![rid[d]] = None] ELSE ridToState
  BY Zenon, <1>2, <1>3, <1>5 DEF HandleBatchOutput, StatesAfterOutput
<1>7. UNCHANGED <<Sent, Refused, Working>> /\ Once'
  BY <1>1, <1>4 DEF Sent, Refused, Working, OwnInv, Once
<1>8. Live' \subseteq Live /\ (m.finished => d \notin Live')
  BY <1>4, <1>7 DEF Live, OwnInv, Apart
<1>9. Apart'
  BY <1>1, <1>4, <1>7, <1>8 DEF OwnInv, Apart
<1>10. /\ state'[d].reason = m.reason /\ m.reason # "unavailable"
       /\ \A e \in Calls \ {d} : state'[e] = state[e]
  BY <1>6 DEF Told, Typed, FrontTyped, OutputMsg
<1>11. /\ \A e \in Calls \ {d} : ridToState[rid[e]] = e => ridToState'[rid'[e]] = e
       /\ ~m.finished => ridToState'[rid'[d]] = d
  BY ZenonT(30), <1>1, <1>5, <1>6 DEF Typed, FrontTyped
<1>12. Owned'
  <2> SUFFICES ASSUME NEW e \in Calls
               PROVE  /\ e \in Live' => ridToState'[rid'[e]] = e
                      /\ pc'[e] \in Early \ {"new"} => ridToState'[rid'[e]] = e
                      /\ (pc'[e] = "wait" /\ state'[e].reason = "unavailable") =>
                           ridToState'[rid'[e]] = e /\ e \notin Live'
                      /\ pc'[e] \in Early => state'[e].reason = "none"
    BY ZenonT(30) DEF Owned, Early
  <2>1. CASE e = d
    BY ZenonT(30), <1>1, <1>5, <1>8, <1>10, <1>11, <2>1
  <2>2. CASE e # d
    <3>1. state'[e] = state[e] /\ (ridToState[rid[e]] = e => ridToState'[rid'[e]] = e)
      BY Zenon, <1>10, <1>11, <2>2
    <3>2. /\ e \in Live => ridToState[rid[e]] = e
          /\ pc[e] \in Early \ {"new"} => ridToState[rid[e]] = e
          /\ (pc[e] = "wait" /\ state[e].reason = "unavailable") =>
               ridToState[rid[e]] = e /\ e \notin Live
          /\ pc[e] \in Early => state[e].reason = "none"
      BY Zenon DEF OwnInv, Owned
    <3> QED BY Zenon, <1>1, <1>8, <3>1, <3>2
  <2> QED BY <2>1, <2>2
<1>13. OwnAnswer'
  BY Zenon, <1>6 DEF Told, OwnInv, OwnAnswer, Typed, FrontTyped
<1> QED BY ZenonT(30), <1>1, <1>7, <1>9, <1>12, <1>13 DEF OwnInv, NoKeyError

\* A refusal finds the state of its own call, and is the last that is heard of it.
LEMMA HandleAbortKeeps ==
  ASSUME Typed, OwnInv, HandleAbortReq
  PROVE  OwnInv'
<1>1. /\ UNCHANGED <<rid, pc, ridToState, sch, toScheduler, outputs>>
      /\ replies # <<>> /\ replies' = Tail(replies) /\ Head(replies).type = "abort"
  BY Zenon DEF HandleAbortReq
<1>2. /\ Refused' \subseteq Refused /\ RefusedOnce(replies') /\ Head(replies) \in AbortMsg
      /\ Head(replies).call \in Refused /\ Head(replies).call \notin Refused'
  BY <1>1, HandleFirstReply DEF Refused, OwnInv, Once, Typed, NetType
<1>3. PICK m \in AbortMsg : m = Head(replies)
  BY <1>2
<1>4. PICK d \in Calls : d = m.call
  BY DEF AbortMsg
<1>5. d \in Live /\ ridToState[rid[d]] = d /\ d # None /\ pc[d] \notin Early
  BY ZenonT(30), <1>2, <1>3, <1>4, FrontEndAssumption DEF Live, OwnInv, Owned, Apart
<1>6. Told(d, TRUE, m.reason, d) /\ UNCHANGED crash
  BY ZenonT(30), <1>3, <1>4, <1>5 DEF HandleAbortReq
<1>7. UNCHANGED <<Sent, Spoken, Ended, Working>> /\ Once'
  BY <1>1, <1>2 DEF Sent, Spoken, Ended, Working, OwnInv, Once
<1>8. Live' \subseteq Live /\ d \notin Live'
  BY <1>2, <1>3, <1>4, <1>7 DEF Live, OwnInv, Apart
<1>9. Apart'
  BY <1>1, <1>2, <1>7, <1>8 DEF OwnInv, Apart
<1>10. \A e \in Calls \ {d} : state'[e] = state[e]
  BY ZenonT(30), <1>6 DEF Told, Typed, FrontTyped
<1>11. Owned'
  <2> SUFFICES ASSUME NEW e \in Calls
               PROVE  /\ e \in Live' => ridToState'[rid'[e]] = e
                      /\ pc'[e] \in Early \ {"new"} => ridToState'[rid'[e]] = e
                      /\ (pc'[e] = "wait" /\ state'[e].reason = "unavailable") =>
                           ridToState'[rid'[e]] = e /\ e \notin Live'
                      /\ pc'[e] \in Early => state'[e].reason = "none"
    BY DEF Owned, Early
  <2>1. CASE e = d
    BY <1>1, <1>5, <1>8, <2>1
  <2>2. CASE e # d
    BY <1>1, <1>8, <1>10, <2>2 DEF OwnInv, Owned
  <2> QED BY Zenon, <2>1, <2>2
<1>12. OwnAnswer'
  BY <1>6 DEF Told, OwnInv, OwnAnswer, Typed, FrontTyped
<1> QED BY ZenonT(30), <1>6, <1>7, <1>9, <1>11, <1>12 DEF OwnInv, NoKeyError

\* A call that the scheduler had no room for deletes its own state.
LEMMA DeleteKeeps ==
  ASSUME Typed, OwnInv, NEW c \in Calls, WaitOneResponse(c), ridToState' # ridToState
  PROVE  OwnInv'
<1>1. /\ UNCHANGED <<rid, heard, crash, sch, toScheduler, outputs, replies>>
      /\ pc[c] = "wait" /\ state[c].reason = "unavailable"
      /\ pc' = [pc EXCEPT ![c] = "close"]
      /\ ridToState' = [ridToState EXCEPT ![rid[c]] = None]
  BY ZenonT(30) DEF WaitOneResponse
<1>2. \A d \in Calls : state'[d].reason = state[d].reason
  BY DEF WaitOneResponse, Typed, FrontTyped
<1>3. ridToState[rid[c]] = c /\ c \notin Live
  BY <1>1 DEF OwnInv, Owned
<1>4. UNCHANGED <<Sent, Spoken, Ended, Refused, Working, Live, Once>>
  BY ZenonT(30), <1>1 DEF Sent, Spoken, Ended, Refused, Working, Live, Once
<1>5. pc'[c] = "close" /\ \A d \in Calls \ {c} : pc'[d] = pc[d]
  BY <1>1 DEF Typed, LockTyped
<1>6. Apart'
  BY Zenon, <1>1, <1>4, <1>5 DEF OwnInv, Apart, Early
<1>7. \A d \in Calls \ {c} : ridToState[rid[d]] = d => ridToState'[rid'[d]] = d
  BY <1>1, <1>3 DEF Typed, FrontTyped
<1>8. Owned'
  <2> SUFFICES ASSUME NEW e \in Calls
               PROVE  /\ e \in Live' => ridToState'[rid'[e]] = e
                      /\ pc'[e] \in Early \ {"new"} => ridToState'[rid'[e]] = e
                      /\ (pc'[e] = "wait" /\ state'[e].reason = "unavailable") =>
                           ridToState'[rid'[e]] = e /\ e \notin Live'
                      /\ pc'[e] \in Early => state'[e].reason = "none"
    BY DEF Owned, Early
  <2>1. CASE e = c
    BY ZenonT(30), <1>3, <1>4, <1>5, <2>1 DEF Early
  <2>2. CASE e # c
    BY ZenonT(30), <1>2, <1>4, <1>5, <1>7, <2>2 DEF OwnInv, Owned
  <2> QED BY Zenon, <2>1, <2>2
<1> QED BY Zenon, <1>1, <1>4, <1>6, <1>8 DEF OwnInv, OwnAnswer, NoKeyError

-----------------------------------------------------------------------------
\* The invariant holds initially: nothing was sent.
LEMMA InitOwn == Init => OwnInv
<1> SUFFICES ASSUME Init PROVE OwnInv
  OBVIOUS
<1>1. toScheduler = <<>> /\ outputs = <<>> /\ replies = <<>> /\ crash = "none"
  BY DEF Init
<1>2. Sent = {} /\ Spoken = {} /\ Ended = {} /\ Refused = {} /\ Once
  <2>1. 1 .. Len(<<>>) = {}
    OBVIOUS
  <2>2. Sent = {} /\ Spoken = {} /\ Ended = {} /\ Refused = {}
    BY Zenon, <1>1, <2>1 DEF Sent, Spoken, Ended, Refused, SentIn, SpokenIn, EndedIn, RefusedIn
  <2>3. Once
    BY Zenon, <1>1, <2>1 DEF Once, SentOnce, EndedLast, RefusedOnce
  <2> QED BY <2>2, <2>3
<1>3. \A d \in Calls : /\ pc[d] = "new" /\ state[d].reason = "none" /\ heard[d] = {}
                       /\ sch[d] = "none"
  BY DEF Init
<1>4. Live = {}
  BY <1>2, <1>3 DEF Live, Working
<1> QED BY Zenon, <1>1, <1>2, <1>3, <1>4 DEF OwnInv, Apart, Owned, OwnAnswer, NoKeyError,
           Working,
           Early

\* Every step keeps it.
LEMMA NextOwn == Typed /\ OwnInv /\ [Next]_vars => OwnInv'
<1> SUFFICES ASSUME Typed, OwnInv, [Next]_vars PROVE OwnInv'
  OBVIOUS
<1>1. ASSUME NEW c \in Calls, Arrive(c) PROVE OwnInv'
  BY <1>1, ArriveKeeps, CallStepKeeps
<1>2. ASSUME NEW c \in Calls, ClientLeaves(c) \/ CancelStream(c) \/ AbortTask(c) PROVE OwnInv'
  BY <1>2, CallStepKeeps
<1>3. ASSUME NEW c \in Calls, CallStep(c) PROVE OwnInv'
  <2>1. CASE TokenizeAndSend(c)
    <3>1. \/ toScheduler' = Append(toScheduler, [type |-> "generate", call |-> c])
          \/ UNCHANGED toScheduler
      BY Zenon, <2>1 DEF TokenizeAndSend
    <3> QED BY <2>1, <3>1, SendKeeps, CallStepKeeps
  <2>2. CASE WaitOneResponse(c)
    BY <2>2, DeleteKeeps, CallStepKeeps
  <2> QED BY <1>3, <2>1, <2>2, CallStepKeeps DEF CallStep
<1>4. ASSUME NEW c \in Calls, SchedulerStep(c) \/ SchedulerOutput(c) \/ SchedulerTimeout(c)
      PROVE  OwnInv'
  BY <1>4, QuietSchedulerKeeps, OutputKeeps, TimeoutKeeps DEF SchedulerStep
<1>5. ASSUME HandleLoop PROVE OwnInv'
  BY <1>5, HandleOutputKeeps, HandleAbortKeeps, QuietSchedulerKeeps DEF HandleLoop
<1>6. ASSUME SchedulerReceive PROVE OwnInv'
  <2>1. \/ Head(toScheduler).type = "generate"
        \/ \E hit \in SUBSET Calls : SchedulerAbort(hit)
        \/ SchedulerUpdate
    <3>1. {c \in Calls : rid[c] = Head(toScheduler).rid} \in SUBSET Calls
      OBVIOUS
    <3> QED BY Zenon, <1>6, <3>1 DEF SchedulerReceive
  <2> QED BY <1>6, <2>1, ReceiveGenerateKeeps, ReceiveAbortKeeps, QuietSchedulerKeeps
<1> QED BY <1>1, <1>2, <1>3, <1>4, <1>5, <1>6, OperatorStepKeeps DEF Next

\* OwnInv is an invariant of the front end.
LEMMA OwnInvHolds == Spec => []OwnInv
BY InitOwn, NextOwn, TypedHolds, PTL DEF Spec

\* For any number of calls, ids and disturbances: an answer of the scheduler is put into
\* the state of the call it was meant for, whichever call had the id before
\* (_handle_batch_output, _handle_abort_req).
THEOREM OwnAnswerHolds == Spec => []OwnAnswer
<1>1. OwnInv => OwnAnswer
  BY DEF OwnInv
<1> QED BY <1>1, OwnInvHolds, PTL

\* And _handle_abort_req always finds a state for the id of a refused request.
THEOREM NoKeyErrorHolds == Spec => []NoKeyError
<1>1. OwnInv => NoKeyError
  BY DEF OwnInv
<1> QED BY <1>1, OwnInvHolds, PTL

-----------------------------------------------------------------------------
(***************************************************************************)
(* Which states outlive their calls.  The state of a call is deleted by    *)
(* the handler of its last output or by the call itself when it reads a    *)
(* refusal, so the invariant follows what a message, the state and the     *)
(* outcome say in turn.                                                    *)
(***************************************************************************)

\* The state of a call can be found.
InTable(c) == ridToState[rid[c]] = c

\* rid_to_state has a state under the id of its call only.
Keyed == \A i \in Rids : ridToState[i] # None => rid[ridToState[i]] = i

\* An answer is a last output, and a last output gives its reason.
Reasoned(o) ==
  \A k \in 1 .. Len(o) : /\ o[k].reason = "answered" => o[k].finished
                         /\ o[k].finished => o[k].reason # "none"

Accounted(c) ==
  /\ pc[c] = "new" => outcome[c] = "none" /\ ~InTable(c)
  /\ InTable(c) => /\ state[c].reason # "answered"
                   /\ outcome[c] \notin {"answered", "unavailable", "rejected"}
  /\ state[c].finished => state[c].reason # "none"
  /\ pc[c] \in {"close", "end"} => outcome[c] # "none"

AccountInv == Keyed /\ Reasoned(outputs) /\ \A c \in Calls : Accounted(c)

-----------------------------------------------------------------------------
\* A step that changes no more than how far calls are, short of their ends.
LEMMA StillAccounted ==
  ASSUME AccountInv, UNCHANGED <<rid, outcome, state, ridToState, outputs>>,
         \A c \in Calls : pc'[c] = pc[c] \/ pc'[c] \notin {"new", "close", "end"}
  PROVE  AccountInv'
BY DEF AccountInv, Keyed, Accounted, InTable

\* A call ends with an outcome, and with its state deleted if that says so.
LEMMA EndAccounted ==
  ASSUME Typed, AccountInv, NEW c \in Calls, NEW how, NEW locked, End(c, how, locked),
         UNCHANGED <<rid, ridToState, outputs>>,
         \A d \in Calls : /\ state'[d].reason = state[d].reason
                          /\ state'[d].finished = state[d].finished,
         outcome[c] # "none" \/ how \in {"invalid", "left"} \/ (how = "rejected" /\ ~InTable(c))
  PROVE  AccountInv'
<1>1. pc'[c] = "end" /\ \A d \in Calls \ {c} : pc'[d] = pc[d] /\ outcome'[d] = outcome[d]
  BY DEF End, Typed, LockTyped, FrontTyped
<1>2. outcome'[c] = IF outcome[c] = "none" THEN how ELSE outcome[c]
  BY DEF End, Typed, FrontTyped
<1>3. \A d \in Calls : InTable(d)' = InTable(d)
  BY DEF InTable
<1>4. Accounted(c)'
  BY <1>1, <1>2, <1>3 DEF AccountInv, Accounted
<1>5. ASSUME NEW d \in Calls \ {c} PROVE Accounted(d)'
  BY <1>1, <1>3 DEF AccountInv, Accounted
<1> QED BY <1>4, <1>5 DEF AccountInv, Keyed

\* A new call enters the table with nothing to its account.
LEMMA ArriveAccounted ==
  ASSUME Typed, OwnInv, AccountInv, NEW c \in Calls, Arrive(c)
  PROVE  AccountInv'
<1>0. UNCHANGED <<rid, state, outputs>> /\ pc[c] = "new"
  BY DEF Arrive, netVars
<1>1. CASE RidTaken(c)
  <2>1. ~InTable(c)
    BY <1>0 DEF AccountInv, Accounted
  <2>2. End(c, "rejected", FALSE) /\ UNCHANGED ridToState
    BY Zenon, <1>1 DEF Arrive
  <2> QED BY Zenon, <1>0, <2>1, <2>2, EndAccounted
<1>2. CASE ~RidTaken(c)
  <2>1. ridToState' = [ridToState EXCEPT ![rid[c]] = c] /\ UNCHANGED outcome
    BY Zenon, <1>2 DEF Arrive
  <2>2. \E p \in {"pause", "lock", "tokenize"} : pc' = [pc EXCEPT ![c] = p]
    BY Zenon, <1>2 DEF Arrive, EnterLock
  <2>3. pc'[c] \in {"pause", "lock", "tokenize"} /\ \A d \in Calls \ {c} : pc'[d] = pc[d]
    BY <2>2 DEF Typed, LockTyped
  <2>4. state[c].reason = "none" /\ outcome[c] = "none"
    BY <1>0 DEF OwnInv, Owned, Early, AccountInv, Accounted
  <2>5. Accounted(c)'
    BY <1>0, <2>1, <2>3, <2>4 DEF AccountInv, Accounted
  <2>6. ASSUME NEW d \in Calls \ {c} PROVE Accounted(d)'
    <3>1. InTable(d)' => InTable(d)
      BY <1>0, <2>1 DEF InTable, Typed, FrontTyped
    <3> QED BY <1>0, <2>1, <2>3, <3>1 DEF AccountInv, Accounted
  <2>7. Keyed'
    BY <1>0, <2>1 DEF AccountInv, Keyed, Typed, FrontTyped
  <2> QED BY <1>0, <2>5, <2>6, <2>7 DEF AccountInv
<1> QED BY <1>1, <1>2

\* A call that has read the last output is left to close; one that read a refusal of the
\* scheduler has deleted its state.
LEMMA WaitAccounted ==
  ASSUME Typed, AccountInv, NEW c \in Calls, WaitOneResponse(c)
  PROVE  AccountInv'
<1>1. UNCHANGED <<rid, outputs>>
  BY DEF WaitOneResponse
<1>2. \A d \in Calls : /\ state'[d].reason = state[d].reason
                       /\ state'[d].finished = state[d].finished
  BY DEF WaitOneResponse, Typed, FrontTyped
<1>3. CASE state[c].finished
  <2>1. /\ pc' = [pc EXCEPT ![c] = "close"]
        /\ outcome' = [outcome EXCEPT ![c] = state[c].reason]
        /\ ridToState' = IF state[c].reason = "unavailable"
                         THEN [ridToState EXCEPT ![rid[c]] = None] ELSE ridToState
    BY <1>3 DEF WaitOneResponse
  <2>2. /\ pc'[c] = "close" /\ outcome'[c] = state[c].reason
        /\ \A d \in Calls \ {c} : pc'[d] = pc[d] /\ outcome'[d] = outcome[d]
    BY <2>1 DEF Typed, LockTyped, FrontTyped
  <2>3. /\ \A d \in Calls : InTable(d)' => InTable(d)
        /\ state[c].reason = "unavailable" => ~InTable(c)'
    BY <1>1, <2>1, FrontEndAssumption DEF InTable, Typed, FrontTyped
  <2>4. state[c].reason \in {"none", "answered", "aborted", "unavailable"}
    BY DEF Typed, FrontTyped
  <2>5. Accounted(c)'
    BY <1>2, <1>3, <2>2, <2>3, <2>4 DEF AccountInv, Accounted
  <2>6. ASSUME NEW d \in Calls \ {c} PROVE Accounted(d)'
    BY <1>2, <2>2, <2>3 DEF AccountInv, Accounted
  <2>7. Keyed'
    BY <1>1, <2>1 DEF AccountInv, Keyed, Typed, FrontTyped
  <2> QED BY <1>1, <2>5, <2>6, <2>7 DEF AccountInv
<1>4. CASE ~state[c].finished /\ End(c, "left", TRUE) /\ UNCHANGED ridToState
  BY Zenon, <1>1, <1>2, <1>4, EndAccounted
<1>5. CASE UNCHANGED <<pc, outcome, ridToState>>
  BY <1>1, <1>2, <1>5 DEF AccountInv, Keyed, Accounted, InTable
<1> QED BY Zenon, <1>3, <1>4, <1>5 DEF WaitOneResponse

\* A step that ends a call, or moves it on inside.
LEMMA CallAccounted ==
  ASSUME Typed, OwnInv, AccountInv, NEW c \in Calls,
         \/ Arrive(c) \/ ClientLeaves(c) \/ CancelStream(c) \/ AbortTask(c) \/ CallStep(c)
  PROVE  AccountInv'
<1>1. CASE ClientLeaves(c) \/ AbortTask(c)
  BY <1>1, StillAccounted DEF ClientLeaves, AbortTask, netVars
<1>2. CASE CancelStream(c)
  BY <1>2, EndAccounted DEF CancelStream, netVars
<1>3. CASE PassPause(c) \/ WakeReader(c)
  <2>1. UNCHANGED pc \/ \E p \in {"tokenize", "lock"} : pc' = [pc EXCEPT ![c] = p]
    BY <1>3 DEF PassPause, WakeReader, EnterLock
  <2>2. \A d \in Calls : pc'[d] = pc[d] \/ pc'[d] \notin {"new", "close", "end"}
    BY <2>1 DEF Typed, LockTyped
  <2> QED BY <1>3, <2>2, StillAccounted DEF PassPause, WakeReader, netVars
<1>4. CASE TokenizeAndSend(c)
  <2>1. CASE End(c, "invalid", TRUE)
    BY Zenon, <1>4, <2>1, EndAccounted DEF TokenizeAndSend
  <2>2. CASE pc' = [pc EXCEPT ![c] = "wait"] /\ UNCHANGED outcome
    <3>1. \A d \in Calls : pc'[d] = pc[d] \/ pc'[d] \notin {"new", "close", "end"}
      BY <2>2 DEF Typed, LockTyped
    <3> QED BY <1>4, <2>2, <3>1, StillAccounted DEF TokenizeAndSend
  <2> QED BY Zenon, <1>4, <2>1, <2>2 DEF TokenizeAndSend
<1>5. CASE WaitTimeout(c)
  BY Zenon, <1>5, EndAccounted DEF WaitTimeout, StatesAfterLeaving
<1>6. CASE Close(c)
  <2>1. outcome[c] # "none"
    BY <1>6 DEF Close, AccountInv, Accounted
  <2> QED BY Zenon, <1>6, <2>1, EndAccounted DEF Close, netVars
<1> QED BY <1>1, <1>2, <1>3, <1>4, <1>5, <1>6, ArriveAccounted, WaitAccounted DEF CallStep

\* An answer leaves no state behind.
LEMMA OutputAccounted ==
  ASSUME Typed, OwnInv, AccountInv, HandleBatchOutput
  PROVE  AccountInv'
<1>1. /\ UNCHANGED <<rid, pc, outcome>> /\ outputs # <<>> /\ outputs' = Tail(outputs)
      /\ outputs \in Seq(OutputMsg)
  BY DEF HandleBatchOutput, Typed, NetType
<1>2. PICK m \in OutputMsg : m = Head(outputs)
  BY <1>1
<1>3. PICK d \in Calls : d = m.call
  BY DEF OutputMsg
<1>4. ridToState[rid[d]] = d /\ d # None /\ pc[d] \notin Early
  <2>1. d \in Live
    BY <1>1, <1>2, <1>3, HandleFirstOutput DEF Spoken, Live, OwnInv, Once
  <2> QED BY <2>1, FrontEndAssumption DEF OwnInv, Owned, Apart
<1>5. /\ Told(d, m.finished, m.reason, d)
      /\ ridToState' = IF m.finished THEN [ridToState EXCEPT ![rid[d]] = None] ELSE ridToState
  BY <1>2, <1>3, <1>4 DEF HandleBatchOutput, StatesAfterOutput
<1>6. /\ m.reason = "answered" => m.finished
      /\ m.finished => m.reason # "none"
      /\ Reasoned(outputs')
  <2>1. Head(outputs) = outputs[1] /\ 1 \in 1 .. Len(outputs)
    BY <1>1
  <2>2. \A k \in 1 .. Len(Tail(outputs)) :
          Tail(outputs)[k] = outputs[k + 1] /\ k + 1 \in 1 .. Len(outputs)
    BY <1>1
  <2> QED BY <1>1, <1>2, <2>1, <2>2 DEF AccountInv, Reasoned
<1>7. /\ state'[d].reason = m.reason /\ state'[d].finished = m.finished
      /\ \A e \in Calls \ {d} : state'[e] = state[e]
  BY <1>5 DEF Told, Typed, FrontTyped
<1>8. /\ \A e \in Calls : InTable(e)' => InTable(e)
      /\ m.finished => ~InTable(d)'
  BY <1>1, <1>4, <1>5, FrontEndAssumption DEF InTable, Typed, FrontTyped
<1>9. Accounted(d)'
  BY <1>1, <1>4, <1>6, <1>7, <1>8 DEF AccountInv, Accounted, Early
<1>10. ASSUME NEW e \in Calls \ {d} PROVE Accounted(e)'
  BY <1>1, <1>7, <1>8 DEF AccountInv, Accounted
<1>11. Keyed'
  BY <1>1, <1>5 DEF AccountInv, Keyed, Typed, FrontTyped
<1> QED BY <1>6, <1>9, <1>10, <1>11 DEF AccountInv

\* A refusal leaves the state, and says so.
LEMMA RefusalAccounted ==
  ASSUME Typed, OwnInv, AccountInv, HandleAbortReq
  PROVE  AccountInv'
<1>1. /\ UNCHANGED <<rid, pc, outcome, ridToState, outputs>>
      /\ replies # <<>> /\ Head(replies).type = "abort"
  BY Zenon DEF HandleAbortReq
<1>2. Head(replies) \in AbortMsg /\ Head(replies).call \in Refused
  BY <1>1, HandleFirstReply DEF Refused, OwnInv, Once, Typed, NetType
<1>3. PICK m \in AbortMsg : m = Head(replies)
  BY <1>2
<1>4. PICK d \in Calls : d = m.call
  BY DEF AbortMsg
<1>5. ridToState[rid[d]] = d /\ d # None
  BY <1>2, <1>3, <1>4, FrontEndAssumption DEF Live, OwnInv, Owned
<1>6. Told(d, TRUE, m.reason, d)
  BY Zenon, <1>3, <1>4, <1>5 DEF HandleAbortReq
<1>7. /\ state'[d].reason \in {"aborted", "unavailable"}
      /\ \A e \in Calls \ {d} : state'[e] = state[e]
  BY <1>6 DEF Told, Typed, FrontTyped, AbortMsg
<1>8. \A e \in Calls : InTable(e)' = InTable(e)
  BY <1>1 DEF InTable
<1>9. Accounted(d)'
  BY <1>1, <1>7, <1>8 DEF AccountInv, Accounted
<1>10. ASSUME NEW e \in Calls \ {d} PROVE Accounted(e)'
  BY <1>1, <1>7, <1>8 DEF AccountInv, Accounted
<1> QED BY <1>1, <1>9, <1>10 DEF AccountInv, Keyed

\* The scheduler's outputs are reasoned.
LEMMA SpeakAccounted ==
  ASSUME Typed, AccountInv, NEW c \in Calls, SchedulerOutput(c) \/ SchedulerFinish(c)
  PROVE  AccountInv'
<1>1. UNCHANGED <<rid, pc, outcome, state, ridToState>>
  BY Zenon DEF SchedulerOutput, SchedulerFinish, callVars
<1>2. \E m \in OutputMsg : /\ outputs' = Append(outputs, m)
                           /\ m.reason = "answered" => m.finished
                           /\ m.finished => m.reason # "none"
  <2>1. \A r \in {"aborted", "answered"} : [call |-> c, finished |-> TRUE, reason |-> r] \in OutputMsg
    BY DEF OutputMsg
  <2>2. [call |-> c, finished |-> FALSE, reason |-> "none"] \in OutputMsg
    BY DEF OutputMsg
  <2> QED BY Zenon, <2>1, <2>2 DEF SchedulerOutput, SchedulerFinish, Output
<1>3. Reasoned(outputs')
  BY <1>2, SMTT(30) DEF AccountInv, Reasoned, Typed, NetType
<1> QED BY <1>1, <1>3 DEF AccountInv, Keyed, Accounted, InTable

\* Every step keeps the account.
LEMMA NextAccounted == Typed /\ OwnInv /\ AccountInv /\ [Next]_vars => AccountInv'
<1> SUFFICES ASSUME Typed, OwnInv, AccountInv, [Next]_vars PROVE AccountInv'
  OBVIOUS
<1>1. ASSUME UNCHANGED <<rid, pc, outcome, state, ridToState, outputs>> PROVE AccountInv'
  BY <1>1, StillAccounted
<1>2. ASSUME NEW c \in Calls,
             SchedulerStep(c) \/ SchedulerOutput(c) \/ SchedulerTimeout(c)
      PROVE  AccountInv'
  BY <1>1, <1>2, SpeakAccounted
  DEF SchedulerStep, SchedulerStart, SchedulerDrop, SchedulerTimeout, callVars, netVars
<1>3. CASE HandleLoop
  BY <1>1, <1>3, OutputAccounted, RefusalAccounted DEF HandleLoop, HandleUpdateReply, callVars
<1>4. CASE \E i \in Rids : AbortRequest(i)
  BY <1>1, <1>4 DEF AbortRequest
<1>5. CASE PauseGeneration \/ PauseAgain \/ ContinueGeneration
  BY <1>1, <1>5 DEF PauseGeneration, PauseAgain, PauseRound, ContinueGeneration, callVars,
     netVars
<1>6. CASE UpdateWeights \/ UpdateStep
  BY <1>1, <1>6
  DEF UpdateWeights, UpdateStep, UpdateCheck, UpdateLock, UpdateReturn, callVars, netVars
<1>7. CASE Sigterm \/ Drain \/ SchedulerReceive \/ UNCHANGED vars
  BY <1>1, <1>7 DEF Sigterm, Drain, SchedulerReceive, vars, callVars, netVars
<1> QED BY <1>2, <1>3, <1>4, <1>5, <1>6, <1>7, CallAccounted DEF Next

\* At the start nobody has an outcome, a state or a message.
LEMMA InitAccounted == Init => AccountInv
<1> SUFFICES ASSUME Init PROVE AccountInv
  OBVIOUS
<1>1. rid \in [Calls -> Rids]
  BY FrontEndAssumption DEF Init
<1>2. Keyed /\ Reasoned(outputs)
  BY DEF Init, Keyed, Reasoned
<1>3. ASSUME NEW c \in Calls PROVE Accounted(c)
  BY <1>1, FrontEndAssumption DEF Init, Accounted, InTable
<1> QED BY <1>2, <1>3 DEF AccountInv

\* AccountInv is an invariant of the front end.
LEMMA AccountInvHolds == Spec => []AccountInv
BY InitAccounted, NextAccounted, TypedHolds, OwnInvHolds, PTL DEF Spec

\* For any number of calls and ids: a state that outlives its call is that of a refused
\* input, of a client that has left or of an aborted request.  These are the ends after
\* which the id stays taken and the server does not drain (_handle_abort_req).
THEOREM StatesAccountedHolds == Spec => []StatesAccounted
<1>1. Typed /\ AccountInv => StatesAccounted
  <2> SUFFICES ASSUME Typed, AccountInv, NEW i \in Rids,
                      ridToState[i] # None, pc[ridToState[i]] = "end"
               PROVE  outcome[ridToState[i]] \in {"invalid", "left", "aborted"}
    BY DEF StatesAccounted
  <2> DEFINE c == ridToState[i]
  <2>1. c \in Calls /\ InTable(c)
    BY DEF InTable, AccountInv, Keyed, Typed, FrontTyped
  <2> HIDE DEF c
  <2>2. pc[c] = "end" /\ outcome[c] \in {"none", "rejected", "invalid", "left", "answered",
                                         "aborted", "unavailable"}
    BY <2>1 DEF c, Typed, FrontTyped
  <2>3. outcome[c] \in {"invalid", "left", "aborted"}
    BY <2>1, <2>2 DEF AccountInv, Accounted
  <2> QED BY <2>3 DEF c
<1> QED BY <1>1, AccountInvHolds, TypedHolds, PTL

=============================================================================
