------------------------- MODULE AnswerCauseProofs --------------------------
(***************************************************************************)
(* What answers say, for any number of calls and ids: why a call is        *)
(* aborted, and why an update may find the scheduler busy.                 *)
(***************************************************************************)
EXTENDS TokenizerManagerProofs

(***************************************************************************)
(* Why a call is aborted and why an update may find the scheduler busy.    *)
(* Both follow the calls that the scheduler has or will have: a call that  *)
(* waits has an answer to come, and one that has ended is not there any    *)
(* more unless its client has left.                                        *)
(***************************************************************************)

\* The calls that the scheduler has not answered, and those whose last answer is to come.
Held == Sent \cup Working
Pending == Held \cup Ended \cup Refused

Late(c) ==
  /\ pc[c] = "wait" /\ ~state[c].finished => c \in Pending
  /\ pc[c] = "wait" /\ state[c].finished => state[c].event
  /\ state[c].finished \/ pc[c] = "close" => c \notin Live
  /\ c \in Held /\ pc[c] = "end" => c \in left

LateInv == \A c \in Calls : Late(c)

\* A queue that loses its first message keeps what the others are about.
LEMMA TailKeeps ==
  /\ \A q \in Seq(ToSchedulerMsg) : q # <<>> =>
       \A c \in SentIn(q) :
         c \in SentIn(Tail(q)) \/ (Head(q).type = "generate" /\ Head(q).call = c)
  /\ \A o \in Seq(OutputMsg) : o # <<>> =>
       \A c \in EndedIn(o) : c \in EndedIn(Tail(o)) \/ (Head(o).finished /\ Head(o).call = c)
  /\ \A r \in Seq(AbortMsg \cup [type : {"update"}]) : r # <<>> =>
       \A c \in RefusedIn(r) :
         c \in RefusedIn(Tail(r)) \/ (Head(r).type = "abort" /\ Head(r).call = c)
<1>1. ASSUME NEW S, NEW q \in Seq(S), q # <<>>, NEW k \in 1 .. Len(q)
      PROVE  \/ k = 1 /\ q[k] = Head(q)
             \/ k - 1 \in 1 .. Len(Tail(q)) /\ q[k] = Tail(q)[k - 1]
  BY <1>1
<1>2. ASSUME NEW q \in Seq(ToSchedulerMsg), q # <<>>, NEW c \in SentIn(q)
      PROVE  c \in SentIn(Tail(q)) \/ (Head(q).type = "generate" /\ Head(q).call = c)
  BY <1>1, <1>2 DEF SentIn
<1>3. ASSUME NEW o \in Seq(OutputMsg), o # <<>>, NEW c \in EndedIn(o)
      PROVE  c \in EndedIn(Tail(o)) \/ (Head(o).finished /\ Head(o).call = c)
  BY <1>1, <1>3 DEF EndedIn
<1>4. ASSUME NEW r \in Seq(AbortMsg \cup [type : {"update"}]), r # <<>>, NEW c \in RefusedIn(r)
      PROVE  c \in RefusedIn(Tail(r)) \/ (Head(r).type = "abort" /\ Head(r).call = c)
  BY <1>1, <1>4 DEF RefusedIn
<1> QED BY <1>2, <1>3, <1>4

\* A queue that gets a message keeps what the others are about.
LEMMA AppendKeeps ==
  /\ \A q \in Seq(ToSchedulerMsg), m \in ToSchedulerMsg :
       SentIn(q) \subseteq SentIn(Append(q, m))
  /\ \A o \in Seq(OutputMsg), m \in OutputMsg :
       /\ EndedIn(o) \subseteq EndedIn(Append(o, m))
       /\ m.finished => m.call \in EndedIn(Append(o, m))
  /\ \A r \in Seq(AbortMsg \cup [type : {"update"}]), m \in AbortMsg \cup [type : {"update"}] :
       /\ RefusedIn(r) \subseteq RefusedIn(Append(r, m))
       /\ m \in AbortMsg => m.call \in RefusedIn(Append(r, m))
<1>1. ASSUME NEW S, NEW q \in Seq(S), NEW m \in S
      PROVE  /\ Len(q) + 1 \in 1 .. Len(Append(q, m)) /\ Append(q, m)[Len(q) + 1] = m
             /\ \A k \in 1 .. Len(q) : k \in 1 .. Len(Append(q, m)) /\ Append(q, m)[k] = q[k]
  OBVIOUS
<1>2. ASSUME NEW q \in Seq(ToSchedulerMsg), NEW m \in ToSchedulerMsg
      PROVE  SentIn(q) \subseteq SentIn(Append(q, m))
  BY <1>1 DEF SentIn
<1>3. ASSUME NEW o \in Seq(OutputMsg), NEW m \in OutputMsg
      PROVE  /\ EndedIn(o) \subseteq EndedIn(Append(o, m))
             /\ m.finished => m.call \in EndedIn(Append(o, m))
  <2>1. m.call \in Calls
    BY DEF OutputMsg
  <2> QED BY <1>1, <2>1 DEF EndedIn
<1>4. ASSUME NEW r \in Seq(AbortMsg \cup [type : {"update"}]),
             NEW m \in AbortMsg \cup [type : {"update"}]
      PROVE  /\ RefusedIn(r) \subseteq RefusedIn(Append(r, m))
             /\ m \in AbortMsg => m.call \in RefusedIn(Append(r, m))
  <2>1. m \in AbortMsg => m.call \in Calls /\ m.type = "abort"
    BY DEF AbortMsg
  <2> QED BY <1>1, <2>1 DEF RefusedIn
<1> QED BY <1>2, <1>3, <1>4

\* Listed has every element of a finite set.
LEMMA ListedAll ==
  ASSUME NEW S, IsFiniteSet(S)
  PROVE  Listed(S) \in Seq(S) /\ \A x \in S : \E k \in 1 .. Len(Listed(S)) : Listed(S)[k] = x
<1>1. Cardinality(S) \in Nat /\ ExistsBijection(1 .. Cardinality(S), S)
  BY FS_CardinalityType
<1>2. PICK g \in [1 .. Cardinality(S) -> S] : IsInjective(g)
  BY <1>1 DEF ExistsBijection, Bijection, Injection, IsInjective
<1>3. Listed(S) \in [1 .. Cardinality(S) -> S] /\ IsInjective(Listed(S))
  BY <1>2 DEF Listed
<1>4. Listed(S) \in Seq(S) /\ Len(Listed(S)) = Cardinality(S)
  BY <1>1, <1>3
<1>5. Listed(S) \in Injection(1 .. Cardinality(S), S)
  BY <1>3 DEF Injection, IsInjective
<1>6. Cardinality(1 .. Cardinality(S)) = Cardinality(S)
  BY <1>1, FS_Interval
<1>7. Listed(S) \in Surjection(1 .. Cardinality(S), S)
  BY <1>5, <1>6, FS_Injection
<1> QED BY <1>4, <1>7 DEF Surjection

\* What the replies are when the queued requests of a set of calls are aborted: what they
\* were, and one for each of them.
LEMMA RefusalsListed ==
  ASSUME NEW r \in Seq(AbortMsg \cup [type : {"update"}]), NEW queued \in SUBSET Calls
  PROVE  LET r2 == r \o Listed({Unserved(c, "aborted") : c \in queued})
         IN  /\ \A k \in 1 .. Len(r2) : \/ k \in 1 .. Len(r) /\ r2[k] = r[k]
                                        \/ \E c \in queued : r2[k] = Unserved(c, "aborted")
             /\ RefusedIn(r) \cup queued \subseteq RefusedIn(r2)
<1> DEFINE told == {Unserved(c, "aborted") : c \in queued}
           t == Listed(told)
           f == [c \in queued |-> Unserved(c, "aborted")]
<1>1. IsFiniteSet(told)
  <2>1. IsFiniteSet(queued)
    BY FrontEndAssumption, FS_Subset
  <2>2. f \in Surjection(queued, told)
    BY DEF Surjection
  <2> QED BY <2>1, <2>2, FS_Surjection
<1>2. told \subseteq AbortMsg
  BY DEF Unserved, AbortMsg
<1>3. \A c \in queued : Unserved(c, "aborted") \in told
  OBVIOUS
<1>4. \A m \in told : \E c \in queued : m = Unserved(c, "aborted")
  OBVIOUS
<1> HIDE DEF told
<1>5. t \in Seq(told) /\ \A m \in told : \E k \in 1 .. Len(t) : t[k] = m
  BY <1>1, ListedAll
<1> HIDE DEF t
<1>6. t \in Seq(AbortMsg \cup [type : {"update"}])
  BY <1>2, <1>5
<1>7. /\ Len(r \o t) = Len(r) + Len(t)
      /\ \A k \in 1 .. Len(r) : k \in 1 .. Len(r \o t) /\ (r \o t)[k] = r[k]
      /\ \A k \in 1 .. Len(t) : Len(r) + k \in 1 .. Len(r \o t) /\ (r \o t)[Len(r) + k] = t[k]
      /\ \A k \in 1 .. Len(r \o t) : k \in 1 .. Len(r)
           \/ (k - Len(r) \in 1 .. Len(t) /\ (r \o t)[k] = t[k - Len(r)])
  BY <1>6
<1>8. ASSUME NEW k \in 1 .. Len(r \o t)
      PROVE  \/ k \in 1 .. Len(r) /\ (r \o t)[k] = r[k]
             \/ \E c \in queued : (r \o t)[k] = Unserved(c, "aborted")
  <2>1. CASE k \in 1 .. Len(r)
    BY Zenon, <1>7, <2>1
  <2>2. CASE k - Len(r) \in 1 .. Len(t) /\ (r \o t)[k] = t[k - Len(r)]
    <3>1. t[k - Len(r)] \in told
      BY <1>5, <2>2
    <3> QED BY Zenon, <1>4, <2>2, <3>1
  <2> QED BY Zenon, <1>7, <1>8, <2>1, <2>2
<1>9. RefusedIn(r) \subseteq RefusedIn(r \o t)
  BY <1>7 DEF RefusedIn
<1>10. ASSUME NEW c \in queued PROVE c \in RefusedIn(r \o t)
  <2>1. PICK k \in 1 .. Len(t) : t[k] = Unserved(c, "aborted")
    BY <1>3, <1>5
  <2>2. Len(r) + k \in 1 .. Len(r \o t) /\ (r \o t)[Len(r) + k] = Unserved(c, "aborted")
    BY Zenon, <1>7, <2>1
  <2> QED BY <2>2 DEF RefusedIn, Unserved
<1> QED BY Zenon, <1>8, <1>9, <1>10 DEF told, t

\* The notices that the front end sends beside the requests themselves.
Notice ==
  \/ toScheduler' = toScheduler
  \/ \E i \in Rids : toScheduler' = Aborted(toScheduler, i)
  \/ toScheduler' = AbortAll(toScheduler)
  \/ \E q \in {toScheduler, AbortAll(toScheduler)} : toScheduler' = Append(q, [type |-> "update"])

\* A notice changes nothing about where the calls are.
LEMMA NoticeSent ==
  ASSUME Typed, OwnInv, Notice
  PROVE  Sent' = Sent
<1>1. toScheduler \in Seq(ToSchedulerMsg) /\ SentOnce(toScheduler)
  BY DEF Typed, NetType, OwnInv, Once
<1>2. ASSUME NEW q \in Seq(ToSchedulerMsg), SentOnce(q),
             NEW m \in ToSchedulerMsg, m.type # "generate"
      PROVE  /\ SentIn(Append(q, m)) = SentIn(q) /\ SentOnce(Append(q, m))
             /\ Append(q, m) \in Seq(ToSchedulerMsg)
  <2>1. SentIn(Append(q, m)) \subseteq SentIn(q) /\ SentOnce(Append(q, m))
    BY <1>2, SendOther
  <2>2. SentIn(q) \subseteq SentIn(Append(q, m))
    BY AppendKeeps
  <2>3. Append(q, m) \in Seq(ToSchedulerMsg)
    OBVIOUS
  <2> QED BY Zenon, <2>1, <2>2, <2>3
<1>3. /\ \A i \in Rids : [type |-> "abort", rid |-> i] \in ToSchedulerMsg
      /\ [type |-> "abortAll"] \in ToSchedulerMsg /\ [type |-> "update"] \in ToSchedulerMsg
  BY DEF ToSchedulerMsg
<1>4. ASSUME NEW i \in Rids PROVE SentIn(Aborted(toScheduler, i)) = Sent
  <2>1. SentIn(Append(toScheduler, [type |-> "abort", rid |-> i])) = Sent
    BY <1>1, <1>2, <1>3 DEF Sent
  <2> QED BY <2>1 DEF Aborted, Sent
<1>5. /\ SentIn(AbortAll(toScheduler)) = Sent /\ SentOnce(AbortAll(toScheduler))
      /\ AbortAll(toScheduler) \in Seq(ToSchedulerMsg)
  BY <1>1, <1>2, <1>3 DEF AbortAll, Sent
<1>6. \A q \in {toScheduler, AbortAll(toScheduler)} : SentIn(Append(q, [type |-> "update"])) = Sent
  BY <1>1, <1>2, <1>3, <1>5 DEF Sent
<1> QED BY Zenon, <1>4, <1>5, <1>6 DEF Notice, Sent

\* Nor does it if nothing else is sent.
LEMMA NoticeOnly ==
  ASSUME Typed, OwnInv, Notice, UNCHANGED <<outputs, replies, sch>>
  PROVE  Live' = Live /\ Held' = Held /\ Pending' = Pending /\ Working' = Working
BY NoticeSent DEF Live, Held, Pending, Working, Spoken, Ended, Refused

-----------------------------------------------------------------------------
\* A step after which no call is further from its answer.
LEMMA StillLate ==
  ASSUME LateInv, Live' \subseteq Live, Held' \subseteq Held, Pending \subseteq Pending',
         left \subseteq left', UNCHANGED <<pc, state>>
  PROVE  LateInv'
BY DEF LateInv, Late

\* A call that ends has no request in the scheduler, or its client has left.
LEMMA EndLate ==
  ASSUME Typed, OwnInv, LateInv, Notice, UNCHANGED <<outputs, replies, sch, left>>,
         NEW c \in Calls, NEW how, NEW locked, End(c, how, locked),
         \A d \in Calls : /\ state'[d].finished = state[d].finished
                          /\ d # c => state'[d] = state[d],
         c \in Held => c \in left
  PROVE  LateInv'
<1>1. pc'[c] = "end" /\ \A d \in Calls \ {c} : pc'[d] = pc[d]
  BY DEF End, Typed, LockTyped
<1>2. Live' = Live /\ Held' = Held /\ Pending' = Pending
  BY NoticeOnly
<1>3. ASSUME NEW d \in Calls \ {c} PROVE Late(d)'
  BY <1>1, <1>2 DEF LateInv, Late
<1>4. Late(c)'
  BY <1>1, <1>2 DEF LateInv, Late
<1> QED BY <1>3, <1>4 DEF LateInv

\* Before its request is sent a call is not in the scheduler.
LEMMA EarlyNotLive ==
  ASSUME OwnInv, NEW c \in Calls, pc[c] \in Early
  PROVE  c \notin Live /\ c \notin Held /\ c \notin Working /\ sch[c] = "none"
BY DEF OwnInv, Apart, Held, Live

\* A request that is sent has its answer to come.
LEMMA SendLate ==
  ASSUME Typed, OwnInv, AccountInv, LateInv, NEW c \in Calls, pc[c] \in Early,
         toScheduler' = Append(toScheduler, [type |-> "generate", call |-> c]),
         pc' = [pc EXCEPT ![c] = "wait"], UNCHANGED <<outputs, replies, sch, left, state>>
  PROVE  LateInv'
<1>1. pc'[c] = "wait" /\ \A d \in Calls \ {c} : pc'[d] = pc[d]
  BY DEF Typed, LockTyped
<1>2. /\ toScheduler \in Seq(ToSchedulerMsg) /\ SentOnce(toScheduler) /\ c \notin Sent
      /\ [type |-> "generate", call |-> c] \in ToSchedulerMsg
  BY DEF Typed, NetType, OwnInv, Once, Apart, Live, ToSchedulerMsg
<1>3. Sent \subseteq Sent' /\ Sent' \subseteq Sent \cup {c}
  BY <1>2, SendGenerate, AppendKeeps DEF Sent
<1>4. c \in Sent'
  <2>1. /\ Len(toScheduler) + 1 \in 1 .. Len(toScheduler')
        /\ toScheduler'[Len(toScheduler) + 1] = [type |-> "generate", call |-> c]
    BY <1>2
  <2> QED BY <2>1 DEF Sent, SentIn
<1>5. UNCHANGED <<Working, Spoken, Ended, Refused>>
  BY DEF Working, Spoken, Ended, Refused
<1>6. ~state[c].finished
  BY DEF AccountInv, Accounted, OwnInv, Owned
<1>7. Late(c)'
  BY <1>1, <1>4, <1>6 DEF Late, Pending, Held
<1>8. ASSUME NEW d \in Calls \ {c} PROVE Late(d)'
  BY <1>1, <1>3, <1>5 DEF LateInv, Late, Pending, Held, Live
<1> QED BY <1>7, <1>8 DEF LateInv

\* A call reads its last answer, or ends because its client has left, or waits on.
LEMMA WaitLate ==
  ASSUME Typed, OwnInv, LateInv, NEW c \in Calls, WaitOneResponse(c)
  PROVE  LateInv'
<1>0. rid[c] \in Rids
  BY DEF Typed, FrontTyped
<1>1. /\ UNCHANGED <<outputs, replies, sch, left>> /\ pc[c] = "wait"
      /\ state' = [state EXCEPT ![c].event = FALSE]
  BY DEF WaitOneResponse
<1>2. Notice
  BY Zenon, <1>0 DEF WaitOneResponse, Notice
<1>3. \A d \in Calls : /\ state'[d].finished = state[d].finished
                       /\ d # c => state'[d] = state[d]
  BY <1>1 DEF Typed, FrontTyped
<1>4. Live' = Live /\ Held' = Held /\ Pending' = Pending
  BY <1>1, <1>2, NoticeOnly
<1>5. CASE state[c].finished
  <2>1. pc' = [pc EXCEPT ![c] = "close"]
    BY <1>5 DEF WaitOneResponse
  <2>2. pc'[c] = "close" /\ \A d \in Calls \ {c} : pc'[d] = pc[d]
    BY <2>1 DEF Typed, LockTyped
  <2>3. Late(c)' /\ \A d \in Calls \ {c} : Late(d)'
    BY <1>1, <1>3, <1>4, <1>5, <2>2 DEF LateInv, Late
  <2> QED BY <2>3 DEF LateInv
<1>6. CASE ~state[c].finished /\ UNCHANGED pc
  <2>1. Late(c)' /\ \A d \in Calls \ {c} : Late(d)'
    BY <1>1, <1>3, <1>4, <1>6 DEF LateInv, Late
  <2> QED BY <2>1 DEF LateInv
<1>7. CASE c \in left /\ End(c, "left", TRUE)
  BY ZenonT(30), <1>1, <1>2, <1>3, <1>7, EndLate
<1> QED BY Zenon, <1>5, <1>6, <1>7 DEF WaitOneResponse

\* The steps of a call.
LEMMA CallLate ==
  ASSUME Typed, OwnInv, AccountInv, LateInv, NEW c \in Calls,
         \/ Arrive(c) \/ ClientLeaves(c) \/ CancelStream(c) \/ AbortTask(c) \/ CallStep(c)
  PROVE  LateInv'
<1> USE DEF Early
<1>0. rid[c] \in Rids
  BY DEF Typed, FrontTyped
<1>1. CASE ClientLeaves(c) \/ AbortTask(c)
  <2>1. Notice /\ UNCHANGED <<outputs, replies, sch, pc, state>> /\ left \subseteq left'
    BY ZenonT(30), <1>0, <1>1 DEF ClientLeaves, AbortTask, Notice, netVars
  <2> QED BY <2>1, NoticeOnly, StillLate
<1>2. CASE CancelStream(c)
  BY Zenon, <1>2, EndLate DEF CancelStream, Notice, netVars
<1>3. ASSUME UNCHANGED <<outputs, replies, sch, left, state, toScheduler>>,
             NEW p \in {"pause", "lock", "tokenize"}, pc' = [pc EXCEPT ![c] = p],
             pc[c] \in Early
      PROVE  LateInv'
  <2>1. pc'[c] = p /\ \A d \in Calls \ {c} : pc'[d] = pc[d]
    BY <1>3 DEF Typed, LockTyped
  <2>2. Live' = Live /\ Held' = Held /\ Pending' = Pending
    BY <1>3, NoticeOnly DEF Notice
  <2>3. c \notin Live /\ c \notin Held
    BY <1>3, EarlyNotLive
  <2>4. Late(c)' /\ \A d \in Calls \ {c} : Late(d)'
    BY Zenon, <1>3, <2>1, <2>2, <2>3 DEF LateInv, Late
  <2> QED BY <2>4 DEF LateInv
<1>4. CASE PassPause(c) \/ WakeReader(c)
  <2>1. UNCHANGED pc \/ \E p \in {"tokenize", "lock"} : pc' = [pc EXCEPT ![c] = p]
    BY <1>4 DEF PassPause, WakeReader, EnterLock
  <2>2. UNCHANGED <<outputs, replies, sch, left, state, toScheduler>> /\ pc[c] \in Early
    BY <1>4 DEF PassPause, WakeReader, netVars
  <2>3. CASE UNCHANGED pc
    BY <2>2, <2>3, NoticeOnly, StillLate DEF Notice
  <2> QED BY <1>3, <2>1, <2>2, <2>3
<1>5. CASE Arrive(c)
  <2>1. UNCHANGED <<outputs, replies, sch, left, state, toScheduler>> /\ pc[c] \in Early
    BY <1>5 DEF Arrive, netVars
  <2>2. CASE RidTaken(c)
    BY Zenon, <1>5, <2>1, <2>2, EarlyNotLive, EndLate DEF Arrive, Notice
  <2>3. CASE ~RidTaken(c)
    <3>1. \E p \in {"pause", "lock", "tokenize"} : pc' = [pc EXCEPT ![c] = p]
      BY Zenon, <1>5, <2>3 DEF Arrive, EnterLock
    <3> QED BY Zenon, <1>3, <2>1, <3>1
  <2> QED BY <2>2, <2>3
<1>6. CASE TokenizeAndSend(c)
  <2>1. UNCHANGED <<outputs, replies, sch, left, state>> /\ pc[c] \in Early
    BY <1>6 DEF TokenizeAndSend
  <2>2. CASE End(c, "invalid", TRUE) /\ UNCHANGED toScheduler
    BY Zenon, <2>1, <2>2, EarlyNotLive, EndLate DEF Notice
  <2>3. CASE /\ toScheduler' = Append(toScheduler, [type |-> "generate", call |-> c])
             /\ pc' = [pc EXCEPT ![c] = "wait"]
    BY Zenon, <2>1, <2>3, SendLate
  <2> QED BY Zenon, <1>6, <2>2, <2>3 DEF TokenizeAndSend
<1>7. CASE WaitTimeout(c)
  <2>1. Notice /\ c \in left
    BY <1>0, <1>7 DEF WaitTimeout, Notice
  <2> QED BY Zenon, <1>7, <2>1, EndLate DEF WaitTimeout
<1>8. CASE Close(c)
  <2>1. c \notin Held
    BY <1>8 DEF Close, LateInv, Late, Live, Held
  <2> QED BY Zenon, <1>8, <2>1, EndLate DEF Close, Notice, netVars
<1>9. CASE WaitOneResponse(c)
  BY <1>9, WaitLate
<1> QED BY <1>1, <1>2, <1>4, <1>5, <1>6, <1>7, <1>8, <1>9 DEF CallStep

\* The scheduler works on a request: it stays there until its last output is on its way.
LEMMA SchedulerLate ==
  ASSUME Typed, OwnInv, LateInv, NEW c \in Calls,
         SchedulerStep(c) \/ SchedulerOutput(c) \/ SchedulerTimeout(c)
  PROVE  LateInv'
<1>0. /\ UNCHANGED <<pc, state, left, toScheduler>> /\ sch \in [Calls -> Places]
      /\ outputs \in Seq(OutputMsg) /\ replies \in Seq(AbortMsg \cup [type : {"update"}])
  BY Zenon DEF SchedulerStep, SchedulerStart, SchedulerFinish, SchedulerDrop, SchedulerOutput,
         SchedulerTimeout, callVars, netVars, Typed, OpTyped, NetType
<1>1. UNCHANGED Sent
  BY <1>0 DEF Sent
<1>2. CASE SchedulerStart(c) \/ SchedulerDrop(c)
  <2>1. UNCHANGED <<outputs, replies>> /\ Working' = Working
    BY <1>0, <1>2 DEF SchedulerStart, SchedulerDrop, netVars, Working
  <2>2. Live' = Live /\ Held' = Held /\ Pending' = Pending
    BY <1>1, <2>1 DEF Live, Held, Pending, Spoken, Ended, Refused
  <2> QED BY <1>0, <2>2, StillLate
<1>3. CASE SchedulerOutput(c) \/ SchedulerFinish(c)
  <2>1. UNCHANGED replies /\ c \in Working /\ Working' \subseteq Working
        /\ Working \subseteq Working' \cup {c}
    BY Zenon, <1>0, <1>3 DEF SchedulerOutput, SchedulerFinish, Working
  <2>2. PICK m \in OutputMsg : /\ outputs' = Append(outputs, m) /\ m.call = c
                               /\ c \notin Working' => m.finished
    <3>1. CASE SchedulerOutput(c)
      <4>1. [call |-> c, finished |-> FALSE, reason |-> "none"] \in OutputMsg
        BY DEF OutputMsg
      <4>2. c \in Working'
        BY <1>0, <3>1 DEF SchedulerOutput, Working
      <4> QED BY <3>1, <4>1, <4>2 DEF SchedulerOutput, Output
    <3>2. CASE SchedulerFinish(c)
      <4>1. \A r \in {"aborted", "answered"} :
              [call |-> c, finished |-> TRUE, reason |-> r] \in OutputMsg
        BY DEF OutputMsg
      <4> QED BY <3>2, <4>1 DEF SchedulerFinish, Output
    <3> QED BY <1>3, <3>1, <3>2
  <2>3. c \notin Ended /\ EndedLast(outputs)
    BY <2>1 DEF OwnInv, Apart, Once
  <2>4. Spoken' \subseteq Spoken \cup {c}
    BY <1>0, <2>2, <2>3, AppendOutput DEF Spoken, Ended
  <2>5. Ended \subseteq Ended' /\ (c \notin Working' => c \in Ended')
    BY <1>0, <2>2, AppendKeeps DEF Ended
  <2>6. Live' \subseteq Live /\ Held' \subseteq Held /\ Pending \subseteq Pending'
    BY <1>1, <2>1, <2>4, <2>5 DEF Live, Held, Pending, Refused
  <2> QED BY <1>0, <2>6, StillLate
<1>4. CASE SchedulerTimeout(c)
  <2>1. /\ UNCHANGED outputs /\ c \in Working /\ Working' = Working \ {c}
        /\ replies' = Append(replies, Unserved(c, "unavailable"))
    BY <1>0, <1>4 DEF SchedulerTimeout, Working
  <2>2. Unserved(c, "unavailable") \in AbortMsg /\ Unserved(c, "unavailable").call = c
    BY DEF Unserved, AbortMsg
  <2>3. Refused \subseteq Refused' /\ c \in Refused'
    BY Zenon, <1>0, <2>1, <2>2, AppendKeeps DEF Refused
  <2>4. Refused' \subseteq Refused \cup {c}
    BY <1>0, <2>1, AppendReply DEF Refused, OwnInv, Once, Apart
  <2>5. Live' \subseteq Live /\ Held' \subseteq Held /\ Pending \subseteq Pending'
    BY <1>1, <2>1, <2>3, <2>4 DEF Live, Held, Pending, Spoken, Ended
  <2> QED BY <1>0, <2>5, StillLate
<1> QED BY <1>2, <1>3, <1>4 DEF SchedulerStep

\* The scheduler reads a message: what is sent arrives, and what is aborted in the queue
\* is refused.
LEMMA ReceiveLate ==
  ASSUME Typed, OwnInv, LateInv, SchedulerReceive
  PROVE  LateInv'
<1>0. /\ toScheduler # <<>> /\ toScheduler' = Tail(toScheduler)
      /\ UNCHANGED <<pc, state, left, outputs>> /\ sch \in [Calls -> Places]
      /\ toScheduler \in Seq(ToSchedulerMsg)
      /\ replies \in Seq(AbortMsg \cup [type : {"update"}])
  BY Zenon DEF SchedulerReceive, callVars, Typed, OpTyped, NetType
<1>1. PICK m \in ToSchedulerMsg : m = Head(toScheduler)
  BY <1>0
<1>2. /\ Sent' \subseteq Sent
      /\ m.type = "generate" /\ m.call \in Calls => m.call \in Sent
      /\ \A d \in Sent : d \in Sent' \/ (m.type = "generate" /\ m.call = d)
  BY <1>0, <1>1, ReceiveFirst, TailKeeps DEF Sent, OwnInv, Once
<1>3. CASE m.type = "generate"
  <2>1. m.call \in Calls
    BY <1>3 DEF ToSchedulerMsg
  <2>2. sch' = [sch EXCEPT ![m.call] = "waiting"] /\ UNCHANGED replies
    BY <1>1, <1>3 DEF SchedulerReceive
  <2>3. Working' = Working \cup {m.call}
    BY <1>0, <2>1, <2>2 DEF Working
  <2>4. Live' \subseteq Live /\ Held' \subseteq Held /\ Pending \subseteq Pending'
    BY <1>0, <1>2, <1>3, <2>1, <2>2, <2>3 DEF Live, Held, Pending, Spoken, Ended, Refused
  <2> QED BY <1>0, <2>4, StillLate
<1>4. ASSUME NEW hit \in SUBSET Calls, SchedulerAbort(hit), m.type # "generate"
      PROVE  LateInv'
  <2> DEFINE queued == {c \in hit : sch[c] = "waiting"}
  <2>1. queued \in SUBSET Calls /\ queued \subseteq Working
    BY DEF Working
  <2>2. replies' = replies \o Listed({Unserved(c, "aborted") : c \in queued})
    BY <1>4 DEF SchedulerAbort
  <2>3. Working' = Working \ queued
    BY <1>0, <1>4 DEF SchedulerAbort, Working
  <2> HIDE DEF queued
  <2>4. Refused \cup queued \subseteq Refused'
    BY Zenon, <1>0, <2>1, <2>2, RefusalsListed DEF Refused
  <2>5. Refused' \subseteq Refused \cup queued
    <3>1. RefusedOnce(replies) /\ queued \cap RefusedIn(replies) = {}
      BY <2>1 DEF Refused, OwnInv, Once, Apart
    <3> QED BY Zenon, <1>0, <2>1, <2>2, <3>1, AppendRefusals DEF Refused
  <2>6. Live' \subseteq Live /\ Held' \subseteq Held /\ Pending \subseteq Pending'
    BY <1>0, <1>2, <1>4, <2>1, <2>3, <2>4, <2>5 DEF Live, Held, Pending, Spoken, Ended
  <2> QED BY <1>0, <2>6, StillLate
<1>5. CASE SchedulerUpdate /\ m.type # "generate"
  <2>1. UNCHANGED sch /\ (replies' = replies \/ replies' = Append(replies, [type |-> "update"]))
    BY <1>5 DEF SchedulerUpdate
  <2>2. Refused' \subseteq Refused
    BY Zenon, <1>0, <2>1, AppendUpdateReply DEF Refused, OwnInv, Once
  <2>3. Refused \subseteq Refused'
    BY Zenon, <1>0, <2>1, AppendKeeps DEF Refused
  <2>4. Live' \subseteq Live /\ Held' \subseteq Held /\ Pending \subseteq Pending'
    BY <1>0, <1>2, <1>5, <2>1, <2>2, <2>3 DEF Live, Held, Pending, Spoken, Ended, Working
  <2> QED BY <1>0, <2>4, StillLate
<1> QED BY <1>1, <1>3, <1>4, <1>5 DEF SchedulerReceive

\* A last output finishes the state of its call, which is heard of no more.
LEMMA OutputLate ==
  ASSUME Typed, OwnInv, LateInv, HandleBatchOutput
  PROVE  LateInv'
<1>1. /\ UNCHANGED <<pc, left, sch, toScheduler, replies>>
      /\ outputs # <<>> /\ outputs' = Tail(outputs) /\ outputs \in Seq(OutputMsg)
  BY Zenon DEF HandleBatchOutput, Typed, NetType
<1>2. PICK m \in OutputMsg : m = Head(outputs)
  BY <1>1
<1>3. PICK d \in Calls : d = m.call
  BY DEF OutputMsg
<1>4. UNCHANGED <<Sent, Working, Refused, Held>>
  BY <1>1 DEF Sent, Working, Refused, Held
<1>5. /\ Spoken' \subseteq Spoken /\ d \in Spoken
      /\ m.finished => d \in Ended /\ d \notin Spoken'
  BY <1>1, <1>2, <1>3, HandleFirstOutput DEF Spoken, Ended, OwnInv, Once
<1>6. \A e \in Ended : e \in Ended' \/ (m.finished /\ e = d)
  BY <1>1, <1>2, <1>3, TailKeeps DEF Ended
<1>7. d \in Live /\ Live' \subseteq Live /\ (m.finished => d \notin Live')
  <2>1. m.finished => d \notin Sent /\ d \notin Working /\ d \notin Refused
    BY <1>5 DEF OwnInv, Apart
  <2> QED BY <1>4, <1>5, <2>1 DEF Live
<1>8. /\ state'[d].finished = m.finished /\ state'[d].event
      /\ \A e \in Calls \ {d} : state'[e] = state[e]
  <2>1. ridToState[rid[d]] = d /\ d # None
    BY <1>7, FrontEndAssumption DEF OwnInv, Owned
  <2> QED BY SMTT(30), <1>2, <1>3, <2>1 DEF HandleBatchOutput, Told, Typed, FrontTyped
<1>9. ~state[d].finished /\ pc[d] # "close"
  BY <1>7 DEF LateInv, Late
<1>10. Late(d)'
  BY ZenonT(30), <1>1, <1>4, <1>6, <1>7, <1>8, <1>9 DEF LateInv, Late, Pending
<1>11. ASSUME NEW e \in Calls \ {d} PROVE Late(e)'
  BY <1>1, <1>4, <1>6, <1>7, <1>8 DEF LateInv, Late, Pending
<1> QED BY <1>10, <1>11 DEF LateInv

\* So does a refusal.
LEMMA RefusalLate ==
  ASSUME Typed, OwnInv, LateInv, HandleAbortReq
  PROVE  LateInv'
<1>1. /\ UNCHANGED <<pc, left, sch, toScheduler, outputs>>
      /\ replies # <<>> /\ replies' = Tail(replies) /\ Head(replies).type = "abort"
      /\ replies \in Seq(AbortMsg \cup [type : {"update"}])
  BY Zenon DEF HandleAbortReq, Typed, NetType
<1>2. PICK d \in Calls : d = Head(replies).call
  BY <1>1, HandleFirstReply DEF AbortMsg, OwnInv, Once
<1>3. UNCHANGED <<Sent, Working, Spoken, Ended, Held>>
  BY <1>1 DEF Sent, Working, Spoken, Ended, Held
<1>4. Refused' \subseteq Refused /\ d \in Refused /\ d \notin Refused'
  BY <1>1, <1>2, HandleFirstReply DEF Refused, OwnInv, Once
<1>5. \A e \in Refused : e \in Refused' \/ e = d
  BY <1>1, <1>2, TailKeeps DEF Refused
<1>6. d \in Live /\ Live' \subseteq Live /\ d \notin Live'
  BY <1>3, <1>4 DEF Live, OwnInv, Apart
<1>7. /\ state'[d].finished /\ state'[d].event
      /\ \A e \in Calls \ {d} : state'[e] = state[e]
  <2>1. ridToState[rid[d]] = d /\ d # None
    BY <1>6, FrontEndAssumption DEF OwnInv, Owned
  <2> QED BY SMTT(30), <1>2, <2>1 DEF HandleAbortReq, Told, Typed, FrontTyped
<1>8. Late(d)'
  BY ZenonT(30), <1>1, <1>3, <1>6, <1>7 DEF LateInv, Late
<1>9. ASSUME NEW e \in Calls \ {d} PROVE Late(e)'
  BY Zenon, <1>1, <1>3, <1>5, <1>6, <1>7 DEF LateInv, Late, Pending
<1> QED BY <1>8, <1>9 DEF LateInv

\* What the operators' calls send and leave alone.
LEMMA OperatorNotice ==
  ASSUME Typed,
         \/ \E i \in Rids : AbortRequest(i)
         \/ PauseGeneration \/ PauseAgain \/ ContinueGeneration \/ UpdateWeights \/ UpdateStep
         \/ Sigterm \/ Drain \/ UNCHANGED vars
  PROVE  Notice /\ UNCHANGED <<pc, rid, outcome, state, left, abortTask, outputs, replies, sch, crash>>
<1>1. CASE \E i \in Rids : AbortRequest(i)
  BY Zenon, <1>1 DEF AbortRequest, Notice
<1>2. CASE PauseGeneration \/ PauseAgain \/ ContinueGeneration
  BY ZenonT(30), <1>2 DEF PauseGeneration, PauseAgain, PauseRound, ContinueGeneration, Notice,
     callVars, netVars
<1>3. CASE UpdateWeights \/ UpdateCheck
  BY <1>3 DEF UpdateWeights, UpdateCheck, EnterUpdate, SendUpdate, Notice, callVars
<1>4. CASE UpdateLock \/ UpdateReturn
  BY <1>4 DEF UpdateLock, UpdateReturn, SendUpdate, Notice, callVars, netVars
<1>5. CASE Sigterm \/ Drain \/ UNCHANGED vars
  BY <1>5 DEF Sigterm, Drain, vars, Notice, callVars, netVars
<1> QED BY <1>1, <1>2, <1>3, <1>4, <1>5 DEF UpdateStep

\* Every step keeps the calls in time.
LEMMA NextLate ==
  Typed /\ OwnInv /\ AccountInv /\ LateInv /\ [Next]_vars => LateInv'
<1> SUFFICES ASSUME Typed, OwnInv, AccountInv, LateInv, [Next]_vars PROVE LateInv'
  OBVIOUS
<1>1. CASE \/ \E i \in Rids : AbortRequest(i)
           \/ PauseGeneration \/ PauseAgain \/ ContinueGeneration \/ UpdateWeights \/ UpdateStep
           \/ Sigterm \/ Drain \/ UNCHANGED vars
  <2>1. Notice /\ UNCHANGED <<pc, state, left, outputs, replies, sch>>
    BY <1>1, OperatorNotice
  <2> QED BY <2>1, NoticeOnly, StillLate
<1>2. CASE HandleUpdateReply
  <2>1. /\ UNCHANGED <<pc, state, left, outputs, sch, toScheduler>>
        /\ replies # <<>> /\ replies' = Tail(replies) /\ Head(replies).type # "abort"
        /\ replies \in Seq(AbortMsg \cup [type : {"update"}])
    BY <1>2 DEF HandleUpdateReply, callVars, Typed, NetType
  <2>2. Refused' = Refused
    <3>1. Refused' \subseteq Refused
      BY <2>1, HandleFirstReply DEF Refused, OwnInv, Once
    <3>2. Refused \subseteq Refused'
      BY <2>1, TailKeeps DEF Refused
    <3> QED BY <3>1, <3>2
  <2>3. Live' = Live /\ Held' = Held /\ Pending' = Pending
    BY <2>1, <2>2 DEF Live, Held, Pending, Sent, Working, Spoken, Ended
  <2> QED BY <2>1, <2>3, StillLate
<1> QED BY <1>1, <1>2, CallLate, SchedulerLate, ReceiveLate, OutputLate, RefusalLate
        DEF Next, HandleLoop

\* At the start nobody waits.
LEMMA InitLate == Init => LateInv
<1> SUFFICES ASSUME Init PROVE LateInv
  OBVIOUS
<1>1. \A c \in Calls : pc[c] = "new" /\ ~state[c].finished
  BY DEF Init
<1> QED BY <1>1 DEF LateInv, Late

\* LateInv is an invariant of the front end.
LEMMA LateInvHolds == Spec => []LateInv
BY InitLate, NextLate, TypedHolds, OwnInvHolds, AccountInvHolds, PTL DEF Spec

-----------------------------------------------------------------------------
(* Aborts have a cause. *)

\* The calls that have a reason to be aborted.
Causes ==
  {c \in Calls : \/ c \in left \/ rid[c] \in asked \/ pausePc # "new" \/ updatePc # "new"
                 \/ \E d \in StreamCalls \ {c} : rid[d] = rid[c] /\ pc[d] = "end"}

\* The calls whose requests the scheduler gets before it gets the k-th message.
Ahead(q, k) == {c \in Calls : \E j \in 1 .. k - 1 : q[j].type = "generate" /\ q[j].call = c}

Hits(m, c) == m.type = "abortAll" \/ (m.type = "abort" /\ m.rid = rid[c])

\* With the calls W in the scheduler, the aborts of a queue only hit calls in C.
Caused(q, W, C) ==
  \A k \in 1 .. Len(q), c \in Calls : Hits(q[k], c) /\ c \in W \cup Ahead(q, k) => c \in C

OutputsCaused(o, C) == \A k \in 1 .. Len(o) : o[k].reason = "aborted" => o[k].call \in C

RepliesCaused(r, C) ==
  \A k \in 1 .. Len(r) : r[k].type = "abort" /\ r[k].reason = "aborted" => r[k].call \in C

CallsCaused ==
  \A c \in Calls :
    outcome[c] = "aborted" \/ state[c].reason = "aborted" \/ sch[c] = "finishing" => c \in Causes

AbortInv ==
  /\ CallsCaused
  /\ OutputsCaused(outputs, Causes)
  /\ RepliesCaused(replies, Causes)
  /\ Caused(toScheduler, Working, Causes)
  /\ \A c \in abortTask : pc[c] = "end"

\* What is ahead of the messages of a queue that gets another one.
LEMMA AheadAppend ==
  ASSUME NEW q \in Seq(ToSchedulerMsg), NEW m \in ToSchedulerMsg
  PROVE  /\ Len(Append(q, m)) = Len(q) + 1 /\ Append(q, m)[Len(q) + 1] = m
         /\ \A k \in 1 .. Len(q) : Append(q, m)[k] = q[k] /\ Ahead(Append(q, m), k) = Ahead(q, k)
         /\ Ahead(Append(q, m), Len(q) + 1) = SentIn(q)
<1>1. /\ Len(Append(q, m)) = Len(q) + 1 /\ Append(q, m)[Len(q) + 1] = m /\ Len(q) \in Nat
      /\ \A k \in 1 .. Len(q) : Append(q, m)[k] = q[k]
  OBVIOUS
<1>2. \A k \in 1 .. Len(q) : Ahead(Append(q, m), k) = Ahead(q, k)
  BY <1>1 DEF Ahead
<1>3. Ahead(Append(q, m), Len(q) + 1) = SentIn(q)
  BY <1>1 DEF Ahead, SentIn
<1> QED BY Zenon, <1>1, <1>2, <1>3

\* The same for a queue that loses its first message.
LEMMA AheadTail ==
  ASSUME NEW q \in Seq(ToSchedulerMsg), q # <<>>, NEW k \in 1 .. Len(Tail(q))
  PROVE  /\ k + 1 \in 1 .. Len(q) /\ Tail(q)[k] = q[k + 1]
         /\ Ahead(Tail(q), k) \subseteq Ahead(q, k + 1)
         /\ Head(q).type = "generate" /\ Head(q).call \in Calls => Head(q).call \in Ahead(q, k + 1)
<1>1. /\ Len(q) \in Nat /\ Len(Tail(q)) = Len(q) - 1 /\ Head(q) = q[1]
      /\ \A j \in 1 .. Len(Tail(q)) : j + 1 \in 1 .. Len(q) /\ Tail(q)[j] = q[j + 1]
  OBVIOUS
<1>2. ASSUME NEW c \in Ahead(Tail(q), k) PROVE c \in Ahead(q, k + 1)
  <2>1. PICK j \in 1 .. k - 1 : Tail(q)[j].type = "generate" /\ Tail(q)[j].call = c
    BY DEF Ahead
  <2>2. j + 1 \in 1 .. (k + 1) - 1 /\ Tail(q)[j] = q[j + 1]
    BY <1>1
  <2> QED BY <2>1, <2>2 DEF Ahead
<1>3. 1 \in 1 .. (k + 1) - 1
  BY <1>1
<1> QED BY <1>1, <1>2, <1>3 DEF Ahead

\* A message is sent that hits only calls with a cause.
LEMMA CausedAppend ==
  ASSUME NEW q \in Seq(ToSchedulerMsg), NEW m \in ToSchedulerMsg, NEW W, NEW C,
         Caused(q, W, C), \A c \in W \cup SentIn(q) : c \in Calls /\ Hits(m, c) => c \in C
  PROVE  Caused(Append(q, m), W, C)
<1> SUFFICES ASSUME NEW k \in 1 .. Len(Append(q, m)), NEW c \in Calls, Hits(Append(q, m)[k], c),
                    c \in W \cup Ahead(Append(q, m), k)
             PROVE  c \in C
  BY DEF Caused
<1>1. k \in 1 .. Len(q) \/ k = Len(q) + 1
  BY AheadAppend
<1>2. CASE k \in 1 .. Len(q)
  BY <1>2, AheadAppend DEF Caused
<1>3. CASE k = Len(q) + 1
  BY <1>3, AheadAppend
<1> QED BY <1>1, <1>2, <1>3

\* The scheduler reads the first message.
LEMMA CausedTail ==
  ASSUME NEW q \in Seq(ToSchedulerMsg), q # <<>>, NEW W, NEW W2, NEW C, Caused(q, W, C),
         \A c \in W2 : c \in W \/ (Head(q).type = "generate" /\ Head(q).call = c)
  PROVE  Caused(Tail(q), W2, C)
<1> SUFFICES ASSUME NEW k \in 1 .. Len(Tail(q)), NEW c \in Calls, Hits(Tail(q)[k], c),
                    c \in W2 \cup Ahead(Tail(q), k)
             PROVE  c \in C
  BY Zenon DEF Caused
<1>1. /\ k + 1 \in 1 .. Len(q) /\ Tail(q)[k] = q[k + 1]
      /\ Ahead(Tail(q), k) \subseteq Ahead(q, k + 1)
      /\ Head(q).type = "generate" /\ Head(q).call \in Calls => Head(q).call \in Ahead(q, k + 1)
  BY AheadTail, Zenon
<1>2. Hits(q[k + 1], c)
  BY <1>1, Zenon
<1>3. c \in W \cup Ahead(q, k + 1)
  BY <1>1
<1> QED BY <1>1, <1>2, <1>3 DEF Caused

\* Fewer calls are in the scheduler, or more have a cause.
LEMMA CausedNext ==
  ASSUME NEW q, NEW W, NEW C, Caused(q, W, C), NEW D, C \subseteq D, NEW V, V \subseteq W
  PROVE  Caused(q, V, D)
BY DEF Caused

\* Outputs that are read or added, with more causes.
LEMMA OutputsNext ==
  ASSUME NEW o \in Seq(OutputMsg), NEW C, NEW D, C \subseteq D, OutputsCaused(o, C)
  PROVE  /\ OutputsCaused(o, D)
         /\ o # <<>> => OutputsCaused(Tail(o), D)
         /\ \A m \in OutputMsg :
              (m.reason = "aborted" => m.call \in C) => OutputsCaused(Append(o, m), D)
<1>1. OutputsCaused(o, D)
  BY DEF OutputsCaused
<1>2. ASSUME o # <<>> PROVE OutputsCaused(Tail(o), D)
  <2>1. \A k \in 1 .. Len(Tail(o)) : Tail(o)[k] = o[k + 1] /\ k + 1 \in 1 .. Len(o)
    BY <1>2
  <2> QED BY <1>1, <2>1 DEF OutputsCaused
<1>3. ASSUME NEW m \in OutputMsg, m.reason = "aborted" => m.call \in C
      PROVE  OutputsCaused(Append(o, m), D)
  <2>1. \A k \in 1 .. Len(Append(o, m)) :
          (k \in 1 .. Len(o) /\ Append(o, m)[k] = o[k]) \/ Append(o, m)[k] = m
    OBVIOUS
  <2> QED BY Zenon, <1>1, <1>3, <2>1 DEF OutputsCaused
<1> QED BY <1>1, <1>2, <1>3

\* Replies that are read or added, with more causes.
LEMMA RepliesNext ==
  ASSUME NEW r \in Seq(AbortMsg \cup [type : {"update"}]), NEW C, NEW D, C \subseteq D,
         RepliesCaused(r, C)
  PROVE  /\ RepliesCaused(r, D)
         /\ r # <<>> => RepliesCaused(Tail(r), D)
         /\ \A m \in AbortMsg \cup [type : {"update"}] :
              m.type = "update" \/ m.reason # "aborted" => RepliesCaused(Append(r, m), D)
<1>1. RepliesCaused(r, D)
  BY DEF RepliesCaused
<1>2. ASSUME r # <<>> PROVE RepliesCaused(Tail(r), D)
  <2>1. \A k \in 1 .. Len(Tail(r)) : Tail(r)[k] = r[k + 1] /\ k + 1 \in 1 .. Len(r)
    BY <1>2
  <2> QED BY <1>1, <2>1 DEF RepliesCaused
<1>3. ASSUME NEW m \in AbortMsg \cup [type : {"update"}], m.type = "update" \/ m.reason # "aborted"
      PROVE  RepliesCaused(Append(r, m), D)
  <2>1. \A k \in 1 .. Len(Append(r, m)) :
          (k \in 1 .. Len(r) /\ Append(r, m)[k] = r[k]) \/ Append(r, m)[k] = m
    OBVIOUS
  <2>2. m.type = "update" => m.type # "abort"
    OBVIOUS
  <2> QED BY Zenon, <1>1, <1>3, <2>1, <2>2 DEF RepliesCaused
<1> QED BY Zenon, <1>1, <1>2, <1>3

\* The causes stay, and so do the ends of calls.
LEMMA MoreCauses ==
  ASSUME Typed, [Next]_vars
  PROVE  /\ rid' = rid /\ Causes \subseteq Causes'
         /\ \A d \in Calls : pc[d] = "end" => pc'[d] = "end"
<1>1. ASSUME NEW c \in Calls,
             \/ Arrive(c) \/ ClientLeaves(c) \/ CancelStream(c) \/ AbortTask(c) \/ CallStep(c)
      PROVE  /\ UNCHANGED <<rid, asked, pausePc, updatePc>> /\ left \subseteq left'
             /\ \A d \in Calls : pc[d] = "end" => pc'[d] = "end"
  <2>1. UNCHANGED <<rid, asked, pausePc, updatePc>> /\ left \subseteq left'
    BY Zenon, <1>1 DEF Arrive, ClientLeaves, CancelStream, AbortTask, CallStep, PassPause,
       WakeReader,
                TokenizeAndSend, WaitOneResponse, WaitTimeout, Close, opVars
  <2>2. UNCHANGED pc \/ (pc[c] # "end" /\ \E p : pc' = [pc EXCEPT ![c] = p])
    BY <1>1 DEF Arrive, ClientLeaves, CancelStream, AbortTask, CallStep, PassPause, WakeReader,
                TokenizeAndSend, WaitOneResponse, WaitTimeout, Close, End, EnterLock
  <2>3. \A d \in Calls : pc[d] = "end" => pc'[d] = "end"
    BY <2>2 DEF Typed, LockTyped
  <2> QED BY <2>1, <2>3
<1>2. ASSUME \/ \E c \in Calls : SchedulerStep(c) \/ SchedulerOutput(c) \/ SchedulerTimeout(c)
             \/ HandleBatchOutput \/ HandleAbortReq \/ SchedulerReceive \/ UNCHANGED vars
      PROVE  UNCHANGED <<rid, asked, pausePc, updatePc, left, pc>>
  BY Zenon, <1>2 DEF SchedulerStep, SchedulerStart, SchedulerFinish, SchedulerDrop,
     SchedulerOutput,
              SchedulerTimeout, HandleBatchOutput, HandleAbortReq, SchedulerReceive, callVars,
              opVars, vars
<1>3. ASSUME \/ \E i \in Rids : AbortRequest(i)
             \/ PauseGeneration \/ PauseAgain \/ ContinueGeneration \/ UpdateWeights
             \/ UpdateStep \/ HandleUpdateReply \/ Sigterm \/ Drain
      PROVE  /\ UNCHANGED <<rid, left, pc>> /\ asked \subseteq asked'
             /\ pausePc # "new" => pausePc' # "new"
             /\ updatePc # "new" => updatePc' # "new"
  <2>1. CASE (\E i \in Rids : AbortRequest(i)) \/ Sigterm \/ Drain \/ HandleUpdateReply
    BY Zenon, <2>1 DEF AbortRequest, Sigterm, Drain, HandleUpdateReply, callVars, opVars
  <2>2. CASE PauseGeneration \/ PauseAgain \/ ContinueGeneration
    BY <2>2 DEF PauseGeneration, PauseAgain, ContinueGeneration, PauseRound, callVars
  <2>3. CASE UpdateWeights \/ UpdateStep
    BY <2>3 DEF UpdateWeights, UpdateStep, UpdateCheck, UpdateLock, UpdateReturn, EnterUpdate,
                SendUpdate, callVars
  <2> QED BY <1>3, <2>1, <2>2, <2>3
<1>4. /\ rid' = rid /\ left \subseteq left' /\ asked \subseteq asked'
      /\ pausePc # "new" => pausePc' # "new"
      /\ updatePc # "new" => updatePc' # "new"
      /\ \A d \in Calls : pc[d] = "end" => pc'[d] = "end"
  BY <1>1, <1>2, <1>3 DEF Next, HandleLoop
<1>5. StreamCalls \subseteq Calls
  BY FrontEndAssumption
<1> QED BY <1>4, <1>5 DEF Causes

\* A step that sends no answers keeps the invariant if what it tells the scheduler has a
\* cause.
LEMMA StillCaused ==
  ASSUME AbortInv, rid' = rid, Causes \subseteq Causes', UNCHANGED <<outputs, replies>>, CallsCaused',
         Caused(toScheduler', Working', Causes'), \A c \in abortTask' : pc'[c] = "end"
  PROVE  AbortInv'
<1>1. OutputsCaused(outputs, Causes)'
  BY DEF AbortInv, OutputsCaused
<1>2. RepliesCaused(replies, Causes)'
  BY DEF AbortInv, RepliesCaused
<1>3. Caused(toScheduler, Working, Causes)'
  BY DEF Caused, Hits, Ahead
<1> QED BY <1>1, <1>2, <1>3 DEF AbortInv

\* An abort by id has a cause if the calls with that id have one.
LEMMA AbortedCaused ==
  ASSUME Typed, AbortInv, Causes \subseteq Causes', NEW i \in Rids,
         \A d \in Held : rid[d] = i => d \in Causes',
         toScheduler' = Aborted(toScheduler, i), UNCHANGED sch
  PROVE  Caused(toScheduler', Working', Causes')
<1>1. /\ toScheduler \in Seq(ToSchedulerMsg) /\ [type |-> "abort", rid |-> i] \in ToSchedulerMsg
      /\ Working' = Working
  BY DEF Typed, NetType, ToSchedulerMsg, Working
<1>2. Caused(toScheduler, Working, Causes')
  BY CausedNext DEF AbortInv
<1>3. \A c \in Working \cup SentIn(toScheduler) :
        c \in Calls /\ Hits([type |-> "abort", rid |-> i], c) => c \in Causes'
  BY DEF Held, Sent, Hits
<1>4. Caused(Append(toScheduler, [type |-> "abort", rid |-> i]), Working, Causes')
  BY <1>1, <1>2, <1>3, CausedAppend
<1> QED BY <1>1, <1>2, <1>4 DEF Aborted

\* Two calls that can still be heard of have two ids.
LEMMA ApartById ==
  ASSUME OwnInv, NEW c \in Live, NEW d \in Live, rid[c] = rid[d]
  PROVE  c = d
<1>1. c \in Calls /\ d \in Calls
  BY DEF Live, Sent, SentIn, Working, Spoken, SpokenIn, Refused, RefusedIn
<1> QED BY <1>1 DEF OwnInv, Owned

\* A call that waits in vain for its client aborts its own request only.
LEMMA LeavingCaused ==
  ASSUME Typed, OwnInv, LateInv, AbortInv, Causes \subseteq Causes', NEW c \in Calls,
         pc[c] = "wait", ~state[c].finished, c \in left,
         toScheduler' = Aborted(toScheduler, rid[c]), UNCHANGED sch
  PROVE  Caused(toScheduler', Working', Causes')
<1>1. c \in Pending
  BY DEF LateInv, Late
<1>2. c \in Live
  <2>1. Ended \subseteq Spoken
    BY DEF Ended, EndedIn, Spoken, SpokenIn
  <2> QED BY <1>1, <2>1 DEF Pending, Held, Live
<1>3. c \in Causes
  BY DEF Causes
<1>4. \A d \in Held : rid[d] = rid[c] => d \in Causes'
  BY <1>2, <1>3, ApartById DEF Held, Live
<1>5. rid[c] \in Rids
  BY DEF Typed, FrontTyped
<1> QED BY <1>4, <1>5, AbortedCaused

\* The background task of a streamed call aborts whoever has its id by then.
LEMMA TaskCaused ==
  ASSUME Typed, OwnInv, LateInv, AbortInv, Causes \subseteq Causes', NEW c \in Calls, AbortTask(c)
  PROVE  Caused(toScheduler', Working', Causes')
<1>1. /\ c \in StreamCalls /\ pc[c] = "end" /\ rid[c] \in Rids
      /\ toScheduler' = Aborted(toScheduler, rid[c]) /\ UNCHANGED sch
  BY DEF AbortTask, AbortInv, Typed, FrontTyped
<1>2. ASSUME NEW d \in Held, rid[d] = rid[c] PROVE d \in Causes
  <2>1. d \in Calls
    BY DEF Held, Sent, SentIn, Working
  <2>2. CASE d = c
    BY ZenonT(30), <1>1, <2>1, <2>2 DEF LateInv, Late, Causes
  <2>3. CASE d # c
    BY Zenon, <1>1, <1>2, <2>1, <2>3 DEF Causes
  <2> QED BY <2>2, <2>3
<1> QED BY <1>1, <1>2, AbortedCaused

\* A request is no abort.
LEMMA SendCaused ==
  ASSUME Typed, AbortInv, Causes \subseteq Causes', NEW c \in Calls, UNCHANGED sch,
         toScheduler' = Append(toScheduler, [type |-> "generate", call |-> c])
  PROVE  Caused(toScheduler', Working', Causes')
<1>1. /\ toScheduler \in Seq(ToSchedulerMsg)
      /\ [type |-> "generate", call |-> c] \in ToSchedulerMsg /\ Working' = Working
  BY DEF Typed, NetType, ToSchedulerMsg, Working
<1>2. Caused(toScheduler, Working, Causes')
  BY CausedNext DEF AbortInv
<1>3. \A d \in Calls : ~Hits([type |-> "generate", call |-> c], d)
  BY DEF Hits
<1> QED BY <1>1, <1>2, <1>3, CausedAppend

\* The steps of a call.
LEMMA CallCaused ==
  ASSUME Typed, OwnInv, LateInv, AbortInv, rid' = rid, Causes \subseteq Causes', NEW c \in Calls,
         \/ Arrive(c) \/ ClientLeaves(c) \/ CancelStream(c) \/ AbortTask(c) \/ CallStep(c)
  PROVE  AbortInv'
<1>1. /\ UNCHANGED <<outputs, replies, sch>>
      /\ \A d \in Calls : state'[d].reason = state[d].reason
  <2>1. CASE WaitOneResponse(c)
    BY <2>1 DEF WaitOneResponse, Typed, FrontTyped
  <2>2. CASE ~WaitOneResponse(c)
    BY ZenonT(30), <2>2 DEF Arrive, ClientLeaves, CancelStream, AbortTask, CallStep,
       PassPause, WakeReader,
                TokenizeAndSend, WaitTimeout, Close, netVars
  <2> QED BY <2>1, <2>2
<1>2. CallsCaused'
  <2>1. \A d \in Calls : \/ outcome'[d] = outcome[d] \/ outcome'[d] # "aborted"
                         \/ outcome'[d] = state[d].reason
    <3>1. ASSUME NEW how \in {"none", "rejected", "invalid", "left"}, NEW locked, End(c, how, locked)
          PROVE  \A d \in Calls : outcome'[d] = outcome[d] \/ outcome'[d] # "aborted"
      BY <3>1 DEF End, Typed, FrontTyped
    <3>2. CASE WaitOneResponse(c) /\ outcome' = [outcome EXCEPT ![c] = state[c].reason]
      BY <3>2 DEF Typed, FrontTyped
    <3>3. CASE UNCHANGED outcome
      BY <3>3
    <3> QED BY ZenonT(30), <3>1, <3>2, <3>3 DEF Arrive, ClientLeaves, CancelStream, AbortTask,
               CallStep,
               PassPause, WakeReader, TokenizeAndSend, WaitOneResponse, WaitTimeout, Close
  <2> QED BY ZenonT(30), <1>1, <2>1 DEF AbortInv, CallsCaused
<1>3. \A d \in abortTask' : pc'[d] = "end"
  <2>1. ASSUME NEW how, NEW locked, End(c, how, locked)
        PROVE  \A d \in abortTask' : pc'[d] = "end"
    BY <2>1 DEF End, AbortInv, Typed, FrontTyped, LockTyped
  <2>2. ASSUME abortTask' \subseteq abortTask,
               UNCHANGED pc \/ (pc[c] # "end" /\ \E p : pc' = [pc EXCEPT ![c] = p])
        PROVE  \A d \in abortTask' : pc'[d] = "end"
    <3>1. abortTask \subseteq Calls
      BY FrontEndAssumption DEF Typed, FrontTyped
    <3>2. \A d \in Calls : pc[d] = "end" => pc'[d] = "end"
      BY <2>2 DEF Typed, LockTyped
    <3> QED BY <2>2, <3>1, <3>2 DEF AbortInv
  <2> QED BY ZenonT(30), <2>1, <2>2 DEF Arrive, ClientLeaves, CancelStream, AbortTask,
             CallStep, PassPause,
             WakeReader, EnterLock, TokenizeAndSend, WaitOneResponse, WaitTimeout, Close
<1>4. Caused(toScheduler', Working', Causes')
  <2>1. CASE UNCHANGED toScheduler
    BY Zenon, <1>1, <2>1, CausedNext DEF AbortInv, Working
  <2>2. CASE WaitOneResponse(c) \/ WaitTimeout(c)
    <3>1. CASE pc[c] = "wait" /\ ~state[c].finished /\ c \in left
               /\ toScheduler' = Aborted(toScheduler, rid[c])
      BY Zenon, <1>1, <3>1, LeavingCaused
    <3>2. WaitTimeout(c) => ~state[c].finished
      BY Zenon DEF WaitTimeout, LateInv, Late
    <3> QED BY ZenonT(30), <2>1, <2>2, <3>1, <3>2 DEF WaitOneResponse, WaitTimeout
  <2>3. CASE AbortTask(c)
    BY <2>3, TaskCaused
  <2>4. CASE TokenizeAndSend(c)
    BY Zenon, <1>1, <2>1, <2>4, SendCaused DEF TokenizeAndSend
  <2> QED BY ZenonT(30), <2>1, <2>2, <2>3, <2>4 DEF Arrive, ClientLeaves, CancelStream,
             CallStep, PassPause,
             WakeReader, Close, netVars
<1> QED BY <1>1, <1>2, <1>3, <1>4, StillCaused

\* The operators' calls, of which only the abort by id is one call's matter.
LEMMA OperatorCaused ==
  ASSUME Typed, OwnInv, AbortInv, rid' = rid, Causes \subseteq Causes',
         \/ \E i \in Rids : AbortRequest(i)
         \/ PauseGeneration \/ PauseAgain \/ ContinueGeneration \/ UpdateWeights \/ UpdateStep
         \/ Sigterm \/ Drain \/ UNCHANGED vars
  PROVE  AbortInv'
<1>1. UNCHANGED <<pc, outcome, state, abortTask, outputs, replies, sch>> /\ Working' = Working
  BY OperatorNotice DEF Working
<1>2. CallsCaused' /\ \A c \in abortTask' : pc'[c] = "end"
  BY Zenon, <1>1 DEF AbortInv, CallsCaused
<1>3. Caused(toScheduler', Working', Causes')
  <2>1. CASE UNCHANGED toScheduler
    BY <1>1, <2>1, CausedNext DEF AbortInv
  <2>2. CASE Calls \subseteq Causes'
    BY <2>2 DEF Caused
  <2>3. ASSUME NEW i \in Rids, AbortRequest(i) PROVE Caused(toScheduler', Working', Causes')
    <3>1. \A d \in Held : rid[d] = i => d \in Causes'
      BY Zenon, <2>3 DEF AbortRequest, Causes, Held, Sent, SentIn, Working
    <3> QED BY ZenonT(30), <1>1, <2>3, <3>1, AbortedCaused DEF AbortRequest
  <2>4. CASE PauseGeneration \/ PauseAgain
    <3>1. pausePc' # "new"
      BY <2>4 DEF PauseGeneration, PauseAgain, PauseRound
    <3> QED BY <2>2, <3>1 DEF Causes
  <2>5. CASE UpdateWeights \/ UpdateStep
    <3>1. updatePc' # "new"
      BY Zenon, <2>5 DEF UpdateWeights, UpdateStep, UpdateCheck, UpdateLock, UpdateReturn,
         EnterUpdate,
                  SendUpdate
    <3> QED BY Zenon, <2>2, <3>1 DEF Causes
  <2> QED BY <2>1, <2>3, <2>4, <2>5
          DEF ContinueGeneration, Sigterm, Drain, netVars, vars
<1> QED BY <1>1, <1>2, <1>3, StillCaused

\* The scheduler's steps: a request that is marked ends as aborted.
LEMMA SchedulerCaused ==
  ASSUME Typed, AbortInv, rid' = rid, Causes \subseteq Causes', NEW c \in Calls,
         SchedulerStep(c) \/ SchedulerOutput(c) \/ SchedulerTimeout(c)
  PROVE  AbortInv'
<1>1. /\ UNCHANGED <<pc, outcome, state, abortTask, toScheduler>> /\ sch \in [Calls -> Places]
      /\ outputs \in Seq(OutputMsg) /\ replies \in Seq(AbortMsg \cup [type : {"update"}])
  BY Zenon DEF SchedulerStep, SchedulerStart, SchedulerFinish, SchedulerDrop, SchedulerOutput,
         SchedulerTimeout, callVars, netVars, Typed, OpTyped, NetType
<1>2. PICK p \in {"none", "running", "streaming", "last"} : sch' = [sch EXCEPT ![c] = p]
  BY ZenonT(30) DEF SchedulerStep, SchedulerStart, SchedulerFinish, SchedulerDrop,
     SchedulerOutput,
         SchedulerTimeout
<1>3. \A d \in Calls : sch'[d] = "finishing" => sch[d] = "finishing"
  BY <1>1, <1>2
<1>4. CallsCaused'
  BY Zenon, <1>1, <1>3 DEF AbortInv, CallsCaused
<1>5. Working' \subseteq Working
  BY ZenonT(30), <1>1 DEF SchedulerStep, SchedulerStart, SchedulerFinish, SchedulerDrop,
     SchedulerOutput,
              SchedulerTimeout, Working
<1>6. Caused(toScheduler, Working', Causes')
  BY <1>5, CausedNext DEF AbortInv
<1>7. OutputsCaused(outputs, Causes)'
  <2>1. CASE UNCHANGED outputs
    BY Zenon, <1>1, <2>1, OutputsNext DEF AbortInv
  <2>2. ASSUME NEW m \in OutputMsg, outputs' = Append(outputs, m),
               m.reason = "aborted" => m.call \in Causes
        PROVE  OutputsCaused(outputs, Causes)'
    BY Zenon, <1>1, <2>2, OutputsNext DEF AbortInv
  <2>3. CASE SchedulerOutput(c)
    <3>1. [call |-> c, finished |-> FALSE, reason |-> "none"] \in OutputMsg
      BY DEF OutputMsg
    <3> QED BY Zenon, <2>2, <2>3, <3>1 DEF SchedulerOutput, Output
  <2>4. CASE SchedulerFinish(c)
    <3>1. /\ \A r \in {"aborted", "answered"} :
               [call |-> c, finished |-> TRUE, reason |-> r] \in OutputMsg
          /\ sch[c] = "finishing" => c \in Causes
      BY Zenon DEF OutputMsg, AbortInv, CallsCaused
    <3> QED BY Zenon, <2>2, <2>4, <3>1 DEF SchedulerFinish, Output
  <2> QED BY <2>1, <2>3, <2>4
          DEF SchedulerStep, SchedulerStart, SchedulerDrop, SchedulerTimeout, netVars
<1>8. RepliesCaused(replies, Causes)'
  <2>1. CASE UNCHANGED replies
    BY Zenon, <1>1, <2>1, RepliesNext DEF AbortInv
  <2>2. CASE replies' = Append(replies, Unserved(c, "unavailable"))
    <3>1. Unserved(c, "unavailable") \in AbortMsg \cup [type : {"update"}]
          /\ Unserved(c, "unavailable").reason # "aborted"
      BY Zenon DEF Unserved, AbortMsg
    <3> QED BY Zenon, <1>1, <2>2, <3>1, RepliesNext DEF AbortInv
  <2> QED BY ZenonT(30), <2>1, <2>2 DEF SchedulerStep, SchedulerStart, SchedulerFinish,
             SchedulerDrop,
             SchedulerOutput, SchedulerTimeout, netVars
<1>9. Caused(toScheduler, Working, Causes)'
  BY ZenonT(30), <1>1, <1>6 DEF Caused, Hits, Ahead
<1> QED BY <1>1, <1>4, <1>7, <1>8, <1>9 DEF AbortInv

\* The scheduler reads a message: an abort hits what is in the queue or in the batch.
LEMMA ReceiveCaused ==
  ASSUME Typed, AbortInv, rid' = rid, Causes \subseteq Causes', SchedulerReceive
  PROVE  AbortInv'
<1>1. /\ UNCHANGED <<pc, outcome, state, abortTask, outputs>> /\ sch \in [Calls -> Places]
      /\ toScheduler # <<>> /\ toScheduler' = Tail(toScheduler)
      /\ toScheduler \in Seq(ToSchedulerMsg)
      /\ replies \in Seq(AbortMsg \cup [type : {"update"}])
  BY Zenon DEF SchedulerReceive, callVars, Typed, OpTyped, NetType
<1>2. PICK m \in ToSchedulerMsg : m = Head(toScheduler)
  BY <1>1
<1>3. OutputsCaused(outputs, Causes)'
  BY Zenon, <1>1, OutputsNext DEF AbortInv, Typed, NetType
<1>4. ASSUME \A c \in Working' : c \in Working \/ (m.type = "generate" /\ m.call = c),
             \A c \in Calls : sch'[c] = "finishing" => c \in Causes,
             RepliesCaused(replies, Causes)'
      PROVE  AbortInv'
  <2>1. CallsCaused'
    BY ZenonT(30), <1>1, <1>4 DEF AbortInv, CallsCaused
  <2>2. Caused(toScheduler', Working', Causes)
    BY ZenonT(30), <1>1, <1>2, <1>4, CausedTail DEF AbortInv
  <2>3. Caused(toScheduler, Working, Causes)'
    BY <2>2 DEF Caused, Hits, Ahead
  <2> QED BY <1>1, <1>3, <1>4, <2>1, <2>3 DEF AbortInv
<1>5. CASE m.type = "generate"
  <2>1. sch' = [sch EXCEPT ![m.call] = "waiting"] /\ UNCHANGED replies
    BY <1>2, <1>5 DEF SchedulerReceive
  <2>2. /\ \A c \in Working' : c \in Working \/ (m.type = "generate" /\ m.call = c)
        /\ \A c \in Calls : sch'[c] = "finishing" => c \in Causes
    BY ZenonT(30), <1>1, <1>5, <2>1 DEF Working, AbortInv, CallsCaused
  <2>3. RepliesCaused(replies, Causes)'
    BY ZenonT(30), <2>1 DEF AbortInv, RepliesCaused
  <2> QED BY <1>4, <2>2, <2>3
<1>6. ASSUME NEW hit \in SUBSET Calls, SchedulerAbort(hit), \A c \in hit : Hits(m, c)
      PROVE  AbortInv'
  <2> DEFINE queued == {c \in hit : sch[c] = "waiting"}
             running == {c \in hit : sch[c] \in {"running", "streaming"}}
  <2>1. /\ Head(toScheduler) = toScheduler[1] /\ 1 \in 1 .. Len(toScheduler)
    BY <1>1
  <2>2. hit \cap Working \subseteq Causes
    BY <1>2, <1>6, <2>1 DEF AbortInv, Caused
  <2>3. queued \in SUBSET Calls /\ queued \subseteq Causes /\ running \subseteq Causes
    BY <2>2 DEF Working
  <2>4. /\ \A c \in Calls : sch'[c] = "finishing" => sch[c] = "finishing" \/ c \in running
        /\ Working' \subseteq Working
    BY <1>1, <1>6 DEF SchedulerAbort, Working
  <2>5. replies' = replies \o Listed({Unserved(c, "aborted") : c \in queued})
    BY <1>6 DEF SchedulerAbort
  <2> HIDE DEF queued, running
  <2>6. \A k \in 1 .. Len(replies') :
          \/ k \in 1 .. Len(replies) /\ replies'[k] = replies[k]
          \/ \E c \in queued : replies'[k] = Unserved(c, "aborted")
    BY ZenonT(30), <1>1, <2>3, <2>5, RefusalsListed
  <2>7. RepliesCaused(replies, Causes)'
    <3> SUFFICES ASSUME NEW k \in 1 .. Len(replies'),
                        replies'[k].type = "abort", replies'[k].reason = "aborted"
                 PROVE  replies'[k].call \in Causes'
      BY DEF RepliesCaused
    <3>1. CASE k \in 1 .. Len(replies) /\ replies'[k] = replies[k]
      BY <3>1 DEF AbortInv, RepliesCaused
    <3>2. CASE \E c \in queued : replies'[k] = Unserved(c, "aborted")
      BY <2>3, <3>2 DEF Unserved
    <3> QED BY <2>6, <3>1, <3>2
  <2> QED BY Zenon, <1>4, <2>3, <2>4, <2>7 DEF AbortInv, CallsCaused
<1>7. CASE SchedulerUpdate
  <2>1. UNCHANGED sch /\ (replies' = replies \/ replies' = Append(replies, [type |-> "update"]))
    BY <1>7 DEF SchedulerUpdate
  <2>2. RepliesCaused(replies, Causes)'
    <3>1. [type |-> "update"] \in [type : {"update"}]
      OBVIOUS
    <3>2. /\ RepliesCaused(replies, Causes')
          /\ RepliesCaused(Append(replies, [type |-> "update"]), Causes')
      BY <1>1, <3>1, RepliesNext DEF AbortInv
    <3> QED BY Zenon, <2>1, <3>2
  <2> QED BY Zenon, <1>4, <2>1, <2>2 DEF Working, AbortInv, CallsCaused
<1>8. CASE m.type = "abort" /\ SchedulerAbort({c \in Calls : rid[c] = m.rid})
  BY <1>6, <1>8 DEF Hits
<1>9. CASE m.type = "abortAll" /\ SchedulerAbort(Calls)
  BY <1>6, <1>9 DEF Hits
<1> QED BY ZenonT(30), <1>2, <1>5, <1>7, <1>8, <1>9 DEF SchedulerReceive

\* The front end reads an answer: it is for the call that it is about.
LEMMA HandleCaused ==
  ASSUME Typed, OwnInv, AbortInv, rid' = rid, Causes \subseteq Causes', HandleLoop
  PROVE  AbortInv'
<1>1. /\ UNCHANGED <<pc, outcome, sch, abortTask, toScheduler>>
      /\ outputs \in Seq(OutputMsg) /\ replies \in Seq(AbortMsg \cup [type : {"update"}])
      /\ outputs' \in {outputs, Tail(outputs)} /\ replies' \in {replies, Tail(replies)}
      /\ outputs' = outputs \/ outputs # <<>>
      /\ replies' = replies \/ replies # <<>>
  BY Zenon DEF HandleLoop, HandleBatchOutput, HandleAbortReq, HandleUpdateReply, callVars,
     Typed, NetType
<1>2. ASSUME NEW S, NEW q \in Seq(S), q # <<>>
      PROVE  /\ q[1] = Head(q) /\ 1 \in 1 .. Len(q)
             /\ \A k \in 1 .. Len(Tail(q)) : Tail(q)[k] = q[k + 1] /\ k + 1 \in 1 .. Len(q)
  BY <1>2
<1>3. OutputsCaused(outputs, Causes)'
  <2>1. /\ OutputsCaused(outputs, Causes')
        /\ outputs # <<>> => OutputsCaused(Tail(outputs), Causes')
    BY <1>1, OutputsNext DEF AbortInv
  <2>2. outputs' = outputs \/ (outputs # <<>> /\ outputs' = Tail(outputs))
    BY <1>1
  <2> QED BY Zenon, <2>1, <2>2
<1>4. RepliesCaused(replies, Causes)'
  <2>1. /\ RepliesCaused(replies, Causes')
        /\ replies # <<>> => RepliesCaused(Tail(replies), Causes')
    BY <1>1, RepliesNext DEF AbortInv
  <2>2. replies' = replies \/ (replies # <<>> /\ replies' = Tail(replies))
    BY <1>1
  <2> QED BY Zenon, <2>1, <2>2
<1>5. Caused(toScheduler, Working, Causes)'
  <2>1. Caused(toScheduler, Working, Causes')
    BY Zenon, CausedNext DEF AbortInv
  <2> QED BY Zenon, <1>1, <2>1 DEF Caused, Hits, Ahead, Working
<1>6. \A d \in Calls : state'[d].reason = "aborted" => d \in Causes
  <2>1. CASE UNCHANGED state
    BY <2>1 DEF AbortInv, CallsCaused
  <2>2. ASSUME NEW d \in Calls, NEW finished, NEW reason, Told(d, finished, reason, d),
               reason = "aborted" => d \in Causes
        PROVE  \A e \in Calls : state'[e].reason = "aborted" => e \in Causes
    BY ZenonT(30), <2>2 DEF Told, Typed, FrontTyped, AbortInv, CallsCaused
  <2>3. CASE HandleBatchOutput
    <3>1. outputs # <<>>
      BY Zenon, <2>3 DEF HandleBatchOutput
    <3>2. PICK m \in OutputMsg : m = Head(outputs)
      BY <1>1, <3>1
    <3>3. PICK d \in Calls : d = m.call
      BY DEF OutputMsg
    <3>4. d \in Live
      BY <1>1, <3>1, <3>2, <3>3, HandleFirstOutput DEF Spoken, Live, OwnInv, Once
    <3>5. ridToState[rid[d]] = d /\ d # None
      BY <3>4, FrontEndAssumption DEF OwnInv, Owned
    <3>6. Told(d, m.finished, m.reason, d)
      BY Zenon, <2>3, <3>2, <3>3, <3>5 DEF HandleBatchOutput
    <3>7. m.reason = "aborted" => d \in Causes
      BY <1>1, <1>2, <3>1, <3>2, <3>3 DEF AbortInv, OutputsCaused
    <3> QED BY ZenonT(30), <2>2, <3>6, <3>7
  <2>4. CASE HandleAbortReq
    <3>1. replies # <<>> /\ Head(replies).type = "abort"
      BY Zenon, <2>4 DEF HandleAbortReq
    <3>2. Head(replies) \in AbortMsg /\ Head(replies).call \in Refused
      BY Zenon, <1>1, <3>1, HandleFirstReply DEF Refused, OwnInv, Once
    <3>3. PICK d \in Calls : d = Head(replies).call
      BY <3>2 DEF AbortMsg
    <3>4. ridToState[rid[d]] = d /\ d # None
      BY <3>2, <3>3, FrontEndAssumption DEF Live, OwnInv, Owned
    <3>5. Told(d, TRUE, Head(replies).reason, d)
      BY Zenon, <2>4, <3>3, <3>4 DEF HandleAbortReq
    <3>6. Head(replies).reason = "aborted" => d \in Causes
      BY <1>1, <1>2, <3>1, <3>3 DEF AbortInv, RepliesCaused
    <3> QED BY Zenon, <2>2, <3>5, <3>6
  <2> QED BY Zenon, <2>1, <2>3, <2>4 DEF HandleLoop, HandleUpdateReply, callVars
<1>7. CallsCaused'
  BY Zenon, <1>1, <1>6 DEF AbortInv, CallsCaused
<1> QED BY <1>1, <1>3, <1>4, <1>5, <1>7 DEF AbortInv

\* Every step gives a cause to what it aborts.
LEMMA NextCaused == Typed /\ OwnInv /\ LateInv /\ AbortInv /\ [Next]_vars => AbortInv'
<1> SUFFICES ASSUME Typed, OwnInv, LateInv, AbortInv, [Next]_vars PROVE AbortInv'
  OBVIOUS
<1>1. rid' = rid /\ Causes \subseteq Causes'
  BY MoreCauses
<1> QED BY <1>1, CallCaused, OperatorCaused, SchedulerCaused, ReceiveCaused, HandleCaused
           DEF Next

\* At the start nothing is aborted.
LEMMA InitCaused == Init => AbortInv
<1> SUFFICES ASSUME Init PROVE AbortInv
  OBVIOUS
<1>1. CallsCaused
  BY DEF Init, CallsCaused
<1>2. OutputsCaused(outputs, Causes) /\ RepliesCaused(replies, Causes)
  <2>1. outputs = <<>> /\ replies = <<>>
    BY Zenon DEF Init
  <2> QED BY <2>1 DEF OutputsCaused, RepliesCaused
<1>3. Caused(toScheduler, Working, Causes)
  <2>1. toScheduler = <<>>
    BY Zenon DEF Init
  <2> QED BY <2>1 DEF Caused
<1> QED BY <1>1, <1>2, <1>3 DEF Init, AbortInv

\* For any number of calls and ids: a client is told that its request was aborted only if
\* that client has left, its id was aborted over the API, an operator has aborted all
\* requests, or the background task of a streamed call with the same id has run
\* (abort_request, create_abort_task).
THEOREM AbortHasCauseHolds == Spec => []AbortHasCause
<1>1. AbortInv => AbortHasCause
  BY ZenonT(30) DEF AbortInv, CallsCaused, Causes, AbortHasCause
<1> QED BY <1>1, InitCaused, NextCaused, TypedHolds, OwnInvHolds, LateInvHolds, PTL DEF Spec

-----------------------------------------------------------------------------
(* Updates that find the scheduler busy. *)

Busy == {c \in Calls : sch[c] # "none"}
Over == {c \in Calls : pc[c] = "end"}

\* With the calls B in the scheduler, it has only calls in E when it gets an update.
Quieted(q, B, E) ==
  \A k \in 1 .. Len(q), c \in Calls : q[k].type = "update" /\ c \in B \cup Ahead(q, k) => c \in E

\* An update that has not come as far as the lock has kept no reader out, and a server that
\* it finds paused has no call inside.
BeforeLock ==
  /\ updatePc \in {"new", "check"} =>
       ~writerActive /\ waitingWriters = 0 /\ \A c \in Calls : pc[c] # "lock"
  /\ isPause <=> pausePc \in {"loop", "paused"}
  /\ pausePc = "paused" /\ updatePc \in {"new", "check"} => Reading = {}

FlushInv == Quieted(toScheduler, Busy, Over) /\ BeforeLock /\ FlushFailureHasCause

\* A message is sent, which is no update unless all the calls in the scheduler are over.
LEMMA QuietedAppend ==
  ASSUME NEW q \in Seq(ToSchedulerMsg), NEW m \in ToSchedulerMsg, NEW B, NEW E,
         Quieted(q, B, E), m.type = "update" => B \cup SentIn(q) \subseteq E
  PROVE  Quieted(Append(q, m), B, E)
<1> SUFFICES ASSUME NEW k \in 1 .. Len(Append(q, m)), NEW c \in Calls,
                    Append(q, m)[k].type = "update", c \in B \cup Ahead(Append(q, m), k)
             PROVE  c \in E
  BY DEF Quieted
<1>1. k \in 1 .. Len(q) \/ k = Len(q) + 1
  BY AheadAppend
<1>2. CASE k \in 1 .. Len(q)
  BY <1>2, AheadAppend DEF Quieted
<1>3. CASE k = Len(q) + 1
  BY <1>3, AheadAppend
<1> QED BY Zenon, <1>1, <1>2, <1>3

\* The scheduler reads the first message.
LEMMA QuietedTail ==
  ASSUME NEW q \in Seq(ToSchedulerMsg), q # <<>>, NEW B, NEW B2, NEW E, Quieted(q, B, E),
         \A c \in B2 : c \in B \/ (Head(q).type = "generate" /\ Head(q).call = c)
  PROVE  Quieted(Tail(q), B2, E)
<1> SUFFICES ASSUME NEW k \in 1 .. Len(Tail(q)), NEW c \in Calls,
                    Tail(q)[k].type = "update", c \in B2 \cup Ahead(Tail(q), k)
             PROVE  c \in E
  BY DEF Quieted
<1>1. /\ k + 1 \in 1 .. Len(q) /\ Tail(q)[k] = q[k + 1]
      /\ Ahead(Tail(q), k) \subseteq Ahead(q, k + 1)
      /\ Head(q).type = "generate" /\ Head(q).call \in Calls => Head(q).call \in Ahead(q, k + 1)
  BY AheadTail, Zenon
<1>2. c \in B \cup Ahead(q, k + 1)
  BY <1>1
<1> QED BY <1>1, <1>2 DEF Quieted

\* Fewer calls are in the scheduler, or more are over.
LEMMA QuietedNext ==
  ASSUME NEW q, NEW B, NEW E, Quieted(q, B, E), NEW D, E \subseteq D, NEW V, V \subseteq B
  PROVE  Quieted(q, V, D)
BY DEF Quieted

\* If no call is inside the lock, those in the scheduler are over.
LEMMA NobodyReads ==
  ASSUME Typed, OwnInv, Reading = {}
  PROVE  Busy \cup Sent \subseteq Over
<1> SUFFICES ASSUME NEW c \in Calls, c \in Busy \cup Sent PROVE pc[c] = "end"
  BY DEF Over, Busy, Sent, SentIn
<1>1. pc[c] \notin Early
  BY EarlyNotLive DEF Busy, Live
<1>2. pc[c] \notin {"tokenize", "wait", "close"}
  BY DEF Reading
<1> QED BY <1>1, <1>2 DEF Typed, LockTyped, Early

\* The calls keep it that way.
LEMMA CallBeforeLock ==
  ASSUME Typed, BeforeLock, NEW c \in Calls,
         \/ Arrive(c) \/ ClientLeaves(c) \/ CancelStream(c) \/ AbortTask(c) \/ CallStep(c)
  PROVE  BeforeLock'
<1>1. UNCHANGED <<isPause, pausePc, updatePc>>
  BY Zenon DEF Arrive, ClientLeaves, CancelStream, AbortTask, CallStep, PassPause, WakeReader,
         TokenizeAndSend, WaitOneResponse, WaitTimeout, Close, opVars
<1>2. ASSUME NEW how, NEW locked, End(c, how, locked) PROVE BeforeLock'
  <2>1. UNCHANGED <<writerActive, waitingWriters>>
    BY <1>2 DEF End, ReleaseReader, CancelReader
  <2>2. pc'[c] = "end" /\ \A d \in Calls \ {c} : pc'[d] = pc[d]
    BY <1>2 DEF End, Typed, LockTyped
  <2>3. Reading' \subseteq Reading /\ (\A d \in Calls : pc'[d] = "lock" => pc[d] = "lock")
    BY Zenon, <2>2 DEF Reading
  <2> QED BY <1>1, <2>1, <2>3 DEF BeforeLock
<1>3. ASSUME NEW p \in {"wait", "close"}, pc' = [pc EXCEPT ![c] = p], pc[c] \in {"tokenize", "wait"},
             UNCHANGED rwVars
      PROVE  BeforeLock'
  <2>1. pc'[c] = p /\ \A d \in Calls \ {c} : pc'[d] = pc[d]
    BY <1>3 DEF Typed, LockTyped
  <2>2. Reading' = Reading /\ (\A d \in Calls : pc'[d] = "lock" => pc[d] = "lock")
    BY <1>3, <2>1 DEF Reading
  <2> QED BY <1>1, <1>3, <2>2 DEF BeforeLock, rwVars
<1>4. ASSUME MayPass, EnterLock(c) PROVE BeforeLock'
  <2>1. ~(pausePc = "paused")
    BY <1>4 DEF MayPass, BeforeLock
  <2>2. UNCHANGED <<writerActive, waitingWriters>>
    BY <1>4 DEF EnterLock, AcquireReader, SleepReader
  <2>3. CASE updatePc \in {"new", "check"}
    <3>1. pc' = [pc EXCEPT ![c] = "tokenize"]
      BY <1>4, <2>3 DEF EnterLock, SleepReader, MayRead, BeforeLock
    <3>2. \A d \in Calls : pc'[d] = "lock" => pc[d] = "lock"
      BY <3>1 DEF Typed, LockTyped
    <3> QED BY <1>1, <2>1, <2>2, <2>3, <3>2 DEF BeforeLock
  <2>4. CASE updatePc \notin {"new", "check"}
    BY Zenon, <1>1, <2>4 DEF BeforeLock
  <2> QED BY <2>3, <2>4
<1>5. CASE UNCHANGED <<pc, rwVars>>
  BY <1>1, <1>5 DEF BeforeLock, Reading, rwVars
<1>6. CASE WakeReader(c)
  <2>1. updatePc \notin {"new", "check"}
    BY <1>6 DEF WakeReader, BeforeLock
  <2> QED BY <1>1, <2>1 DEF BeforeLock
<1>7. CASE Arrive(c)
  <2>1. CASE pc' = [pc EXCEPT ![c] = "pause"] /\ UNCHANGED rwVars
    <3>1. pc'[c] = "pause" /\ \A d \in Calls \ {c} : pc'[d] = pc[d]
      BY <2>1 DEF Typed, LockTyped
    <3>2. Reading' \subseteq Reading /\ (\A d \in Calls : pc'[d] = "lock" => pc[d] = "lock")
      BY Zenon, <3>1 DEF Reading
    <3> QED BY <1>1, <2>1, <3>2 DEF BeforeLock, rwVars
  <2> QED BY ZenonT(30), <1>2, <1>4, <1>7, <2>1 DEF Arrive
<1> QED BY Zenon, <1>2, <1>3, <1>4, <1>5, <1>6, <1>7 DEF ClientLeaves, CancelStream,
           AbortTask, CallStep,
        PassPause, TokenizeAndSend, WaitOneResponse, WaitTimeout, Close

\* What is sent besides updates.
LEMMA OtherQuieted ==
  ASSUME Typed, FlushInv, Over \subseteq Over', Busy' \subseteq Busy,
         \/ UNCHANGED toScheduler
         \/ \E i \in Rids : toScheduler' = Aborted(toScheduler, i)
         \/ toScheduler' = AbortAll(toScheduler)
         \/ \E c \in Calls : toScheduler' = Append(toScheduler, [type |-> "generate", call |-> c])
  PROVE  Quieted(toScheduler', Busy', Over')
<1>1. toScheduler \in Seq(ToSchedulerMsg) /\ Quieted(toScheduler, Busy', Over')
  BY QuietedNext DEF Typed, NetType, FlushInv
<1>2. ASSUME NEW m \in ToSchedulerMsg, m.type # "update", toScheduler' = Append(toScheduler, m)
      PROVE  Quieted(toScheduler', Busy', Over')
  BY <1>1, <1>2, QuietedAppend
<1>3. /\ \A i \in Rids : [type |-> "abort", rid |-> i] \in ToSchedulerMsg
      /\ \A c \in Calls : [type |-> "generate", call |-> c] \in ToSchedulerMsg
      /\ [type |-> "abortAll"] \in ToSchedulerMsg
  BY ZenonT(30) DEF ToSchedulerMsg
<1>4. CASE \E i \in Rids : toScheduler' = Aborted(toScheduler, i)
  BY ZenonT(30), <1>1, <1>2, <1>3, <1>4 DEF Aborted
<1>5. CASE toScheduler' = AbortAll(toScheduler)
  BY ZenonT(30), <1>2, <1>3, <1>5 DEF AbortAll
<1>6. CASE \E c \in Calls : toScheduler' = Append(toScheduler, [type |-> "generate", call |-> c])
  BY Zenon, <1>2, <1>3, <1>6
<1> QED BY Zenon, <1>1, <1>4, <1>5, <1>6

\* An update is sent when no call is inside the lock.
LEMMA SendUpdateQuieted ==
  ASSUME Typed, OwnInv, FlushInv, UNCHANGED <<pc, sch>>, Reading = {},
         NEW q \in {toScheduler, AbortAll(toScheduler)}, SendUpdate(q)
  PROVE  Quieted(toScheduler', Busy', Over')
<1>1. /\ toScheduler \in Seq(ToSchedulerMsg) /\ Busy' = Busy /\ Over' = Over
      /\ [type |-> "abortAll"] \in ToSchedulerMsg /\ [type |-> "update"] \in ToSchedulerMsg
  BY Zenon DEF Typed, NetType, ToSchedulerMsg, Busy, Over
<1>2. Busy \cup Sent \subseteq Over
  BY NobodyReads
<1>3. q \in Seq(ToSchedulerMsg) /\ Quieted(q, Busy, Over)
  <2>1. AbortAll(toScheduler) \in Seq(ToSchedulerMsg)
    BY <1>1 DEF AbortAll
  <2>2. Quieted(AbortAll(toScheduler), Busy, Over)
    BY <1>1, QuietedAppend DEF AbortAll, FlushInv
  <2> QED BY <1>1, <2>1, <2>2 DEF FlushInv
<1>4. SentIn(q) = Sent
  <2>1. CASE q = toScheduler
    BY <2>1 DEF Sent
  <2>2. CASE q = AbortAll(toScheduler)
    BY ZenonT(30), <2>2, QueueOther, AppendKeeps, <1>1 DEF AbortAll, Sent, OwnInv
  <2> QED BY <2>1, <2>2
<1>5. Quieted(Append(q, [type |-> "update"]), Busy, Over)
  BY <1>1, <1>2, <1>3, <1>4, QuietedAppend
<1> QED BY <1>1, <1>5 DEF SendUpdate

\* An update enters, without the lock if the server is paused.
LEMMA EnterUpdateQuieted ==
  ASSUME Typed, OwnInv, FlushInv, UNCHANGED <<pc, sch>>, updatePc \in {"new", "check"},
         pausePc # "loop", NEW q \in {toScheduler, AbortAll(toScheduler)}, EnterUpdate(q)
  PROVE  Quieted(toScheduler', Busy', Over') /\ updatePc' \notin {"new", "check"}
<1>1. updatePc' \notin {"new", "check"}
  BY DEF EnterUpdate, SendUpdate
<1>2. CASE isPause /\ SendUpdate(q)
  <2>1. Reading = {}
    BY <1>2 DEF FlushInv, BeforeLock
  <2> QED BY <1>1, <1>2, <2>1, SendUpdateQuieted
<1>3. CASE AcquireWriter /\ SendUpdate(q)
  <2>1. Reading = {}
    BY Zenon, <1>3, ReadingFinite, FS_EmptySet
       DEF AcquireWriter, MayWrite, Typed, LockTyped, LockInv, UpdateExclusive
  <2> QED BY <1>1, <1>3, <2>1, SendUpdateQuieted
<1>4. CASE toScheduler' = q
  <2>1. Over \subseteq Over' /\ Busy' \subseteq Busy
    BY DEF Over, Busy
  <2> QED BY <1>1, <1>4, <2>1, OtherQuieted
<1> QED BY <1>2, <1>3, <1>4 DEF EnterUpdate

\* The steps of an update.
LEMMA UpdateQuieted ==
  ASSUME Typed, OwnInv, FlushInv, UpdateWeights \/ UpdateStep \/ HandleUpdateReply
  PROVE  Quieted(toScheduler', Busy', Over') /\ BeforeLock'
<1>1. /\ UNCHANGED <<pc, sch, isPause, pausePc>>
      /\ Over \subseteq Over' /\ Busy' \subseteq Busy /\ Reading' = Reading
  BY Zenon DEF UpdateWeights, UpdateStep, UpdateCheck, UpdateLock, UpdateReturn,
     HandleUpdateReply,
         callVars, Over, Busy, Reading
<1>2. ASSUME updatePc' \notin {"new", "check"} PROVE BeforeLock'
  BY <1>1, <1>2 DEF FlushInv, BeforeLock
<1>3. CASE UpdateWeights
  <2>1. PICK q \in {toScheduler, AbortAll(toScheduler)} :
          IF pausePc = "loop"
          THEN updatePc' = "check" /\ toScheduler' = q /\ UNCHANGED rwVars
          ELSE EnterUpdate(q)
    BY <1>3 DEF UpdateWeights
  <2>2. CASE pausePc = "loop"
    <3>1. Quieted(toScheduler', Busy', Over')
      BY <1>1, <2>1, <2>2, OtherQuieted
    <3>2. BeforeLock'
      BY SMTT(30), <1>1, <1>3, <2>1, <2>2 DEF UpdateWeights, FlushInv, BeforeLock, rwVars
    <3> QED BY <3>1, <3>2
  <2>3. CASE pausePc # "loop"
    BY <1>1, <1>2, <1>3, <2>1, <2>3, EnterUpdateQuieted DEF UpdateWeights
  <2> QED BY <2>2, <2>3
<1>4. CASE UpdateCheck
  BY <1>1, <1>2, <1>4, EnterUpdateQuieted DEF UpdateCheck
<1>5. CASE UpdateLock
  <2>1. updatePc' \notin {"new", "check"}
    BY <1>5 DEF UpdateLock, SendUpdate
  <2>2. CASE MayWrite /\ SendUpdate(toScheduler)
    <3>1. Reading = {}
      BY Zenon, <2>2, ReadingFinite, FS_EmptySet DEF MayWrite, Typed, LockTyped, LockInv,
         UpdateExclusive
    <3> QED BY <1>1, <1>2, <2>1, <2>2, <3>1, SendUpdateQuieted
  <2>3. CASE UNCHANGED toScheduler
    BY <1>1, <1>2, <2>1, <2>3, OtherQuieted
  <2> QED BY <1>5, <2>2, <2>3 DEF UpdateLock
<1>6. CASE UpdateReturn \/ HandleUpdateReply
  <2>1. updatePc' \notin {"new", "check"} /\ UNCHANGED toScheduler
    BY <1>6 DEF UpdateReturn, HandleUpdateReply, netVars
  <2> QED BY <1>1, <1>2, <2>1, OtherQuieted
<1> QED BY <1>3, <1>4, <1>5, <1>6 DEF UpdateStep

\* The steps of a pause, and the operators' other calls.
LEMMA PauseQuieted ==
  ASSUME Typed, FlushInv,
         \/ \E i \in Rids : AbortRequest(i)
         \/ PauseGeneration \/ PauseAgain \/ ContinueGeneration \/ Sigterm \/ Drain
         \/ UNCHANGED vars
  PROVE  Quieted(toScheduler', Busy', Over') /\ BeforeLock'
<1>1. /\ UNCHANGED <<pc, sch, updatePc, writerActive, waitingWriters>>
      /\ Over \subseteq Over' /\ Busy' \subseteq Busy /\ Reading' = Reading
  BY ZenonT(30) DEF AbortRequest, PauseGeneration, PauseAgain, PauseRound, ContinueGeneration,
     Sigterm, Drain,
         vars, callVars, opVars, rwVars, Over, Busy, Reading
<1>2. Quieted(toScheduler', Busy', Over')
  BY Zenon, <1>1, OtherQuieted DEF AbortRequest, PauseGeneration, PauseAgain, PauseRound,
     ContinueGeneration, Sigterm, Drain, vars, netVars
<1>3. CASE UNCHANGED <<isPause, pausePc>>
  <2>1. BeforeLock
    BY DEF FlushInv
  <2>2. BeforeLock'
    BY <1>1, <1>3, <2>1 DEF BeforeLock
  <2> QED BY <1>2, <2>2
<1>4. CASE PauseGeneration \/ PauseAgain
  <2>1. isPause' /\ pausePc' = IF IsLocked THEN "loop" ELSE "paused"
    BY <1>4 DEF PauseGeneration, PauseAgain, PauseRound, FlushInv, BeforeLock
  <2>2. ~IsLocked => Reading = {}
    BY ReadingFinite, FS_EmptySet DEF IsLocked, Typed, LockTyped, LockInv, UpdateExclusive
  <2> QED BY <1>1, <1>2, <2>1, <2>2 DEF FlushInv, BeforeLock
<1>5. CASE ContinueGeneration
  BY <1>1, <1>2, <1>5 DEF ContinueGeneration, FlushInv, BeforeLock
<1> QED BY Zenon, <1>2, <1>3, <1>4, <1>5 DEF AbortRequest, Sigterm, Drain, vars, opVars

\* The scheduler's steps add nothing to what it has before an update, and change no call.
LEMMA SchedulerQuieted ==
  ASSUME Typed, FlushInv,
         \/ \E c \in Calls : SchedulerStep(c) \/ SchedulerOutput(c) \/ SchedulerTimeout(c)
         \/ SchedulerReceive
  PROVE  Quieted(toScheduler', Busy', Over') /\ BeforeLock'
<1>1. UNCHANGED <<pc, opVars, rwVars>> /\ sch \in [Calls -> Places]
  BY Zenon DEF SchedulerStep, SchedulerStart, SchedulerFinish, SchedulerDrop, SchedulerOutput,
         SchedulerTimeout, SchedulerReceive, callVars, Typed, OpTyped
<1>2. BeforeLock'
  <2>1. BeforeLock /\ Reading' = Reading
    BY <1>1 DEF FlushInv, Reading
  <2>2. UNCHANGED <<isPause, pausePc, updatePc, writerActive, waitingWriters>>
    BY <1>1 DEF opVars, rwVars
  <2> QED BY <1>1, <2>1, <2>2 DEF BeforeLock
<1>3. Over' = Over
  BY <1>1 DEF Over
<1>4. ASSUME NEW c \in Calls, SchedulerStep(c) \/ SchedulerOutput(c) \/ SchedulerTimeout(c)
      PROVE  Quieted(toScheduler', Busy', Over')
  <2>1. UNCHANGED toScheduler /\ sch[c] # "none" /\ \E p \in Places : sch' = [sch EXCEPT ![c] = p]
    BY Zenon, <1>4 DEF SchedulerStep, SchedulerStart, SchedulerFinish, SchedulerDrop,
       SchedulerOutput,
                SchedulerTimeout, netVars, Places
  <2>2. Busy' \subseteq Busy
    BY <1>1, <2>1 DEF Busy
  <2> QED BY <1>3, <2>1, <2>2, OtherQuieted
<1>5. CASE SchedulerReceive
  <2>1. /\ toScheduler # <<>> /\ toScheduler' = Tail(toScheduler)
        /\ toScheduler \in Seq(ToSchedulerMsg)
    BY ZenonT(30), <1>5 DEF SchedulerReceive, Typed, NetType
  <2>2. \A c \in Busy' :
          c \in Busy \/ (Head(toScheduler).type = "generate" /\ Head(toScheduler).call = c)
    <3>1. ASSUME NEW hit, SchedulerAbort(hit) PROVE Busy' \subseteq Busy
      <4>1. PICK marked \in SUBSET {c \in hit : sch[c] \in {"running", "streaming"}} :
              sch' = [c \in Calls |-> IF c \in {d \in hit : sch[d] = "waiting"} THEN "none"
                                      ELSE IF c \in marked THEN "finishing" ELSE sch[c]]
        BY <3>1 DEF SchedulerAbort
      <4>2. \A c \in Calls : sch'[c] # "none" => sch[c] # "none"
        BY <4>1
      <4> QED BY <4>2 DEF Busy
    <3>2. CASE SchedulerUpdate
      BY ZenonT(30), <3>2 DEF SchedulerUpdate, Busy
    <3>3. CASE /\ Head(toScheduler).type = "generate"
               /\ sch' = [sch EXCEPT ![Head(toScheduler).call] = "waiting"]
      BY ZenonT(30), <1>1, <3>3 DEF Busy
    <3> QED BY ZenonT(30), <1>5, <3>1, <3>2, <3>3 DEF SchedulerReceive
  <2>3. Quieted(toScheduler', Busy', Over)
    BY Zenon, <2>1, <2>2, QuietedTail DEF FlushInv
  <2> QED BY <1>2, <1>3, <2>3
<1> QED BY <1>2, <1>4, <1>5

\* The flush fails at an update only, and there is its cause.
LEMMA FlushCaused ==
  ASSUME Typed, LateInv, FlushInv, [Next]_vars
  PROVE  FlushFailureHasCause'
<1>1. CASE UNCHANGED vars
  BY Zenon, <1>1 DEF vars, callVars, FlushInv, FlushFailureHasCause
<1>2. CASE Next
  <2>1. CASE crash' # "flush"
    BY <2>1 DEF FlushFailureHasCause
  <2>2. CASE crash' = "flush"
    <3>1. crash = "none"
      BY Zenon, <1>2 DEF Next, Up, Arrive, ClientLeaves, CancelStream, AbortTask, CallStep,
         PassPause,
         WakeReader, TokenizeAndSend, WaitOneResponse, WaitTimeout, Close, SchedulerStep,
         SchedulerStart, SchedulerFinish, SchedulerDrop, SchedulerOutput, SchedulerTimeout,
         AbortRequest, HandleLoop, HandleBatchOutput, HandleAbortReq, HandleUpdateReply,
         PauseGeneration, PauseAgain, ContinueGeneration, UpdateWeights, UpdateStep, UpdateCheck,
         UpdateLock, UpdateReturn, Sigterm, Drain, SchedulerReceive
    <3>2. ~ \E c \in Calls : \/ Arrive(c) \/ ClientLeaves(c) \/ CancelStream(c) \/ AbortTask(c)
                             \/ CallStep(c) \/ SchedulerStep(c) \/ SchedulerOutput(c)
                             \/ SchedulerTimeout(c)
      BY <2>2, <3>1 DEF Arrive, ClientLeaves, CancelStream, AbortTask, CallStep, PassPause,
         WakeReader, TokenizeAndSend, WaitOneResponse, WaitTimeout, Close, SchedulerStep,
         SchedulerStart, SchedulerFinish, SchedulerDrop, SchedulerOutput, SchedulerTimeout
    <3>3. ~HandleLoop
      BY Zenon, <2>2, <3>1 DEF HandleLoop, HandleBatchOutput, HandleAbortReq, HandleUpdateReply
    <3>4. ~ \/ \E i \in Rids : AbortRequest(i)
            \/ PauseGeneration \/ PauseAgain \/ ContinueGeneration \/ UpdateWeights \/ UpdateStep
            \/ Sigterm \/ Drain
      BY <2>2, <3>1, OperatorNotice
    <3>5. SchedulerReceive
      BY <1>2, <3>2, <3>3, <3>4 DEF Next
    <3>6. /\ toScheduler # <<>> /\ Head(toScheduler).type = "update" /\ SchedulerUpdate
          /\ UNCHANGED <<pc, left>>
      BY <2>2, <3>1, <3>5 DEF SchedulerReceive, SchedulerAbort, callVars
    <3>7. PICK c \in Calls : sch[c] # "none" /\ UNCHANGED sch
      BY <2>2, <3>1, <3>6 DEF SchedulerUpdate
    <3>8. Head(toScheduler) = toScheduler[1] /\ 1 \in 1 .. Len(toScheduler)
      BY <3>6 DEF Typed, NetType
    <3>9. pc[c] = "end"
      BY <3>6, <3>7, <3>8 DEF FlushInv, Quieted, Busy, Over
    <3>10. sch[c] = "last" \/ c \in Held
      BY Zenon, <3>7 DEF Held, Working, Typed, OpTyped, Places
    <3>11. sch[c] = "last" \/ c \in left
      BY <3>9, <3>10 DEF LateInv, Late
    <3>12. \E e \in Calls : pc'[e] = "end" /\ sch'[e] # "none" /\ (sch'[e] = "last" \/ e \in left')
      BY Zenon, <3>6, <3>7, <3>9, <3>11
    <3> QED BY <3>12 DEF FlushFailureHasCause
  <2> QED BY <2>1, <2>2
<1> QED BY <1>1, <1>2

\* The calls and the answers to them.
LEMMA CallQuieted ==
  ASSUME Typed, FlushInv, Over \subseteq Over', NEW c \in Calls,
         \/ Arrive(c) \/ ClientLeaves(c) \/ CancelStream(c) \/ AbortTask(c) \/ CallStep(c)
  PROVE  Quieted(toScheduler', Busy', Over') /\ BeforeLock'
<1>1. Busy' \subseteq Busy
  BY Zenon DEF Arrive, ClientLeaves, CancelStream, AbortTask, CallStep, PassPause, WakeReader,
         TokenizeAndSend, WaitOneResponse, WaitTimeout, Close, Busy
<1>2. rid[c] \in Rids
  BY DEF Typed, FrontTyped
<1>3. \/ UNCHANGED toScheduler
      \/ toScheduler' = Aborted(toScheduler, rid[c])
      \/ toScheduler' = Append(toScheduler, [type |-> "generate", call |-> c])
  BY Zenon DEF Arrive, ClientLeaves, CancelStream, AbortTask, CallStep, PassPause, WakeReader,
         TokenizeAndSend, WaitOneResponse, WaitTimeout, Close, netVars
<1>4. Quieted(toScheduler', Busy', Over')
  BY <1>1, <1>2, <1>3, OtherQuieted
<1>5. BeforeLock'
  BY CallBeforeLock DEF FlushInv
<1> QED BY <1>4, <1>5

\* Every step keeps the invariant.
LEMMA NextQuieted == Typed /\ OwnInv /\ LateInv /\ FlushInv /\ [Next]_vars => FlushInv'
<1> SUFFICES ASSUME Typed, OwnInv, LateInv, FlushInv, [Next]_vars PROVE FlushInv'
  OBVIOUS
<1>1. Over \subseteq Over'
  BY MoreCauses DEF Over
<1>2. FlushFailureHasCause'
  BY FlushCaused
<1>3. ASSUME HandleBatchOutput \/ HandleAbortReq
      PROVE  Quieted(toScheduler', Busy', Over') /\ BeforeLock'
  <2>1. /\ UNCHANGED <<pc, opVars, rwVars, sch, toScheduler>>
    BY ZenonT(30), <1>3 DEF HandleBatchOutput, HandleAbortReq
  <2>2. Busy' \subseteq Busy /\ BeforeLock /\ Reading' = Reading
        /\ UNCHANGED <<isPause, pausePc, updatePc, writerActive, waitingWriters>>
    BY Zenon, <2>1 DEF Busy, FlushInv, Reading, opVars, rwVars
  <2>3. BeforeLock'
    BY <2>1, <2>2 DEF BeforeLock
  <2>4. Quieted(toScheduler', Busy', Over')
    BY <1>1, <2>1, <2>2, OtherQuieted
  <2> QED BY <2>3, <2>4
<1>4. Quieted(toScheduler', Busy', Over') /\ BeforeLock'
  BY <1>1, <1>3, CallQuieted, SchedulerQuieted, UpdateQuieted, PauseQuieted DEF Next, HandleLoop
<1>5. Quieted(toScheduler, Busy, Over)'
  BY <1>4 DEF Quieted, Ahead
<1> QED BY <1>2, <1>4, <1>5 DEF FlushInv

\* At the start nothing is sent.
LEMMA InitQuieted == Init => FlushInv
<1> SUFFICES ASSUME Init PROVE FlushInv
  OBVIOUS
<1>1. Quieted(toScheduler, Busy, Over)
  <2>1. toScheduler = <<>>
    BY Zenon DEF Init
  <2> QED BY <2>1 DEF Quieted
<1>2. BeforeLock
  BY DEF Init, RWInit, BeforeLock
<1>3. FlushFailureHasCause
  BY DEF Init, FlushFailureHasCause
<1> QED BY <1>1, <1>2, <1>3 DEF FlushInv

\* For any number of calls and ids: when update_weights_from_disk fails the assertion on the
\* cache flush, the scheduler was busy with a call that had ended, whose client had left
\* early or whose last batch was not yet dropped.  Neither the writer lock nor a pause
\* lets an update overtake a call whose client still waits.
THEOREM FlushFailureHasCauseHolds == Spec => []FlushFailureHasCause
<1>1. FlushInv => FlushFailureHasCause
  BY DEF FlushInv
<1> QED BY <1>1, InitQuieted, NextQuieted, TypedHolds, OwnInvHolds, LateInvHolds, PTL DEF Spec

=============================================================================
