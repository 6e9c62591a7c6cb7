-------------------------- MODULE TokenizerManager --------------------------
(***************************************************************************)
(* The front end of the server: TokenizerManager, whose coroutines take    *)
(* calls from the HTTP server, send them to the scheduler process and wait *)
(* for its answers, while operators pause generation, update the weights or*)
(* shut the server down.  Coroutines interleave where they are suspended.  *)
(*                                                                         *)
(* A call is known to the scheduler by its request id only, which clients  *)
(* may choose and use again.  Ids are compared as a whole: the scheduler's *)
(* prefix match is the same for ids of one length.  The scheduler is       *)
(* reduced to where a request is in it.  Its answers arrive on two paths,  *)
(* outputs through the detokenizer and replies directly, each in order.    *)
(***************************************************************************)
EXTENDS RWLock, FiniteSets, Sequences, Functions

CONSTANTS
  Calls,        \* the calls of generate_request
  Rids,         \* the request ids
  RidChoices,   \* the ways the calls may choose their ids
  StreamCalls,  \* the calls with obj.stream
  MaxQueue,     \* bound on the messages to the scheduler while pausing
  MaxEvents,    \* bound on the disconnects and the operators' calls in a behaviour
  Updater,      \* the task of update_weights_from_disk
  None

ASSUME FrontEndAssumption ==
  /\ IsFiniteSet(Calls)
  /\ RidChoices \subseteq [Calls -> Rids]
  /\ StreamCalls \subseteq Calls
  /\ MaxQueue \in Nat \ {0} /\ MaxEvents \in Nat
  /\ Updater \notin Calls /\ None \notin Calls

VARIABLES
  rid,             \* obj.rid of each call
  pc,              \* "new", "pause", "lock", "tokenize", "wait", "close" or "end"
  outcome,         \* how a call ended, for the client
  state,           \* the ReqState of a call: [finished, event, reason]
  heard,           \* the calls whose messages were put into that state
  ridToState,      \* rid_to_state: the call whose state it is, or None
  left,            \* the calls whose client has disconnected
  abortTask,       \* the calls whose create_abort_task is yet to run
  asked,           \* the ids aborted over the API
  isPause,         \* is_pause
  pausePc,         \* "new", "loop", "paused" or "over"
  updatePc,        \* "new", "check", "lock", "await", "reply" or "over"
  gracefullyExit,  \* gracefully_exit
  exited,          \* has sigterm_watchdog ended the server?
  crash,           \* what has killed a process, or "none"
  toScheduler,     \* the messages to the scheduler
  outputs,         \* the outputs on their way through the detokenizer
  replies,         \* the other answers of the scheduler
  sch              \* where the scheduler has the request of a call

callVars == <<rid, pc, outcome, state, heard, ridToState, left, abortTask, asked>>
opVars == <<isPause, pausePc, updatePc, gracefullyExit, exited>>
netVars == <<toScheduler, outputs, replies>>
vars == <<callVars, opVars, netVars, rwVars, crash, sch>>

Places == {"none", "waiting", "running", "streaming", "finishing", "last"}

Init ==
  /\ RWInit
  /\ rid \in RidChoices
  /\ pc = [c \in Calls |-> "new"]
  /\ outcome = [c \in Calls |-> "none"]
  /\ state = [c \in Calls |-> [finished |-> FALSE, event |-> FALSE, reason |-> "none"]]
  /\ heard = [c \in Calls |-> {}]
  /\ ridToState = [i \in Rids |-> None]
  /\ left = {} /\ abortTask = {} /\ asked = {}
  /\ isPause = FALSE /\ pausePc = "new" /\ updatePc = "new"
  /\ gracefullyExit = FALSE /\ exited = FALSE /\ crash = "none"
  /\ toScheduler = <<>> /\ outputs = <<>> /\ replies = <<>>
  /\ sch = [c \in Calls |-> "none"]

Up == crash = "none" /\ ~exited

\* The bound MaxEvents, on what disturbs the calls from outside.
MoreEvents ==
  LET ops == {o \in {"pause", "update", "exit"} :
                \/ o = "pause" /\ pausePc # "new"
                \/ o = "update" /\ updatePc # "new"
                \/ o = "exit" /\ gracefullyExit}
  IN  Cardinality(left) + Cardinality(asked) + Cardinality(ops) < MaxEvents

-----------------------------------------------------------------------------
(***************************************************************************)
(* generate_request.                                                       *)
(***************************************************************************)

\* abort_request for an id: nothing is sent when the id is not known.
Aborted(queue, i) ==
  IF ridToState[i] = None THEN queue ELSE Append(queue, [type |-> "abort", rid |-> i])

\* The end of a call that holds the lock if locked; a streaming response then runs
\* its background task.
End(c, how, locked) ==
  /\ pc' = [pc EXCEPT ![c] = "end"]
  /\ outcome' = [outcome EXCEPT ![c] = IF @ = "none" THEN how ELSE @]
  /\ abortTask' = IF c \in StreamCalls THEN abortTask \cup {c} ELSE abortTask
  /\ IF locked THEN ReleaseReader ELSE CancelReader(c)

\* Mutant of RidTaken: the ids are not compared.
RidTakenNever(c) == FALSE

\* _validate_rid
RidTaken(c) == ridToState[rid[c]] # None

\* is_pause_cond, whose lock pause_generation holds while it loops.
MayPass == pausePc # "loop" /\ ~isPause

EnterLock(c) ==
  \/ AcquireReader /\ pc' = [pc EXCEPT ![c] = "tokenize"]
  \/ SleepReader(c) /\ pc' = [pc EXCEPT ![c] = "lock"]

\* The call up to its first wait: the id is checked and the state created, and if it may
\* pass it enters the lock.
Arrive(c) ==
  /\ Up /\ pc[c] = "new"
  /\ \/ /\ RidTaken(c)
        /\ End(c, "rejected", FALSE)
        /\ UNCHANGED ridToState
     \/ /\ ~RidTaken(c)
        /\ ridToState' = [ridToState EXCEPT ![rid[c]] = c]
        /\ \/ MayPass /\ EnterLock(c)
           \/ ~MayPass /\ pc' = [pc EXCEPT ![c] = "pause"] /\ UNCHANGED rwVars
        /\ UNCHANGED <<outcome, abortTask>>
  /\ UNCHANGED <<rid, state, heard, left, asked, opVars, netVars, crash, sch>>

PassPause(c) ==
  /\ Up /\ pc[c] = "pause"
  /\ MayPass /\ EnterLock(c)
  /\ UNCHANGED <<rid, outcome, state, heard, ridToState, left, abortTask, asked, opVars, netVars,
                 crash, sch>>

\* A wake-up in acquire_reader.
WakeReader(c) ==
  /\ Up /\ pc[c] = "lock" /\ c \notin asleep
  /\ \/ AcquireReader /\ pc' = [pc EXCEPT ![c] = "tokenize"]
     \/ SleepReader(c) /\ UNCHANGED pc
  /\ UNCHANGED <<rid, outcome, state, heard, ridToState, left, abortTask, asked, opVars, netVars,
                 crash, sch>>

\* _tokenize_one_request, which may refuse the input, and _send_one_request.
TokenizeAndSend(c) ==
  /\ Up /\ pc[c] = "tokenize"
  /\ \/ /\ toScheduler' = Append(toScheduler, [type |-> "generate", call |-> c])
        /\ pc' = [pc EXCEPT ![c] = "wait"]
        /\ UNCHANGED <<outcome, abortTask, rwVars>>
     \/ End(c, "invalid", TRUE) /\ UNCHANGED toScheduler
  /\ UNCHANGED <<rid, state, heard, ridToState, left, asked, opVars, outputs, replies, crash, sch>>

\* _wait_one_response after its event was set: the last output is given to the client,
\* an intermediate one lets a call that is not streamed look for its client.
WaitOneResponse(c) ==
  /\ Up /\ pc[c] = "wait" /\ state[c].event
  /\ state' = [state EXCEPT ![c].event = FALSE]
  /\ \/ /\ state[c].finished
        /\ pc' = [pc EXCEPT ![c] = "close"]
        /\ outcome' = [outcome EXCEPT ![c] = state[c].reason]
        /\ ridToState' = IF state[c].reason = "unavailable"
                         THEN [ridToState EXCEPT ![rid[c]] = None] ELSE ridToState
        /\ UNCHANGED <<abortTask, toScheduler, rwVars>>
     \/ /\ ~state[c].finished
        /\ c \notin StreamCalls /\ c \in left
        /\ toScheduler' = Aborted(toScheduler, rid[c])
        /\ End(c, "left", TRUE)
        /\ UNCHANGED ridToState
     \/ /\ ~state[c].finished
        /\ c \in StreamCalls \/ c \notin left
        /\ UNCHANGED <<pc, outcome, ridToState, abortTask, toScheduler, rwVars>>
  /\ UNCHANGED <<rid, heard, left, asked, opVars, outputs, replies, crash, sch>>

\* Mutant of StatesAfterLeaving: a disconnect deletes the state at once.
StatesAfterLeavingDeleted(c) == [ridToState EXCEPT ![rid[c]] = None]

\* A disconnect leaves the state to the answer that is still to come.
StatesAfterLeaving(c) == ridToState

\* The timeout of _wait_one_response, when the client is gone.
WaitTimeout(c) ==
  /\ Up /\ pc[c] = "wait" /\ ~state[c].event
  /\ c \notin StreamCalls /\ c \in left
  /\ toScheduler' = Aborted(toScheduler, rid[c])
  /\ ridToState' = StatesAfterLeaving(c)
  /\ End(c, "left", TRUE)
  /\ UNCHANGED <<rid, state, heard, left, asked, opVars, outputs, replies, crash, sch>>

\* The answer is sent and the generator closed: the lock is held until then.
Close(c) ==
  /\ Up /\ pc[c] = "close"
  /\ End(c, "none", TRUE)
  /\ UNCHANGED <<rid, state, heard, ridToState, left, asked, opVars, netVars, crash, sch>>

ClientLeaves(c) ==
  /\ Up /\ pc[c] \notin {"new", "end"} /\ c \notin left /\ MoreEvents
  /\ left' = left \cup {c}
  /\ UNCHANGED <<rid, pc, outcome, state, heard, ridToState, abortTask, asked, opVars, netVars,
                 rwVars, crash, sch>>

\* The HTTP server cancels a streaming response whose client has left, wherever the
\* coroutine waits.
CancelStream(c) ==
  /\ Up /\ c \in StreamCalls \cap left
  /\ pc[c] \notin {"new", "end"}
  /\ End(c, "left", pc[c] \in {"tokenize", "wait", "close"})
  /\ UNCHANGED <<rid, state, heard, ridToState, left, asked, opVars, netVars, crash, sch>>

\* create_abort_task runs some time after the response, however that has ended.
AbortTask(c) ==
  /\ Up /\ c \in abortTask
  /\ abortTask' = abortTask \ {c}
  /\ toScheduler' = Aborted(toScheduler, rid[c])
  /\ UNCHANGED <<rid, pc, outcome, state, heard, ridToState, left, asked, opVars, outputs, replies,
                 rwVars, crash, sch>>

\* The abort call of the API, once for each id; of an unknown id it does nothing.
AbortRequest(i) ==
  /\ Up /\ i \notin asked /\ MoreEvents
  /\ ridToState[i] # None
  /\ asked' = asked \cup {i}
  /\ toScheduler' = Aborted(toScheduler, i)
  /\ UNCHANGED <<rid, pc, outcome, state, heard, ridToState, left, abortTask, opVars, outputs,
                 replies, rwVars, crash, sch>>

-----------------------------------------------------------------------------
(***************************************************************************)
(* handle_loop: the answers of the scheduler.                              *)
(***************************************************************************)

\* A message about the request of call m puts its reason into the state of call c.
Told(c, finished, reason, m) ==
  /\ state' = [state EXCEPT ![c] = [finished |-> finished, event |-> TRUE, reason |-> reason]]
  /\ heard' = [heard EXCEPT ![c] = @ \cup {m}]

\* Mutant of StatesAfterOutput: the state of a finished request is kept.
StatesAfterOutputKept(m) == ridToState

StatesAfterOutput(m) ==
  IF m.finished THEN [ridToState EXCEPT ![rid[m.call]] = None] ELSE ridToState

HandleBatchOutput ==
  /\ Up /\ outputs # <<>>
  /\ LET m == Head(outputs)
         c == ridToState[rid[m.call]]
     IN  IF c = None
         THEN UNCHANGED <<state, heard, ridToState>>
         ELSE /\ Told(c, m.finished, m.reason, m.call)
              /\ ridToState' = StatesAfterOutput(m)
  /\ outputs' = Tail(outputs)
  /\ UNCHANGED <<rid, pc, outcome, left, abortTask, asked, opVars, toScheduler, replies, rwVars,
                 crash, sch>>

\* _handle_abort_req looks the id up without a check, and leaves the state there.
HandleAbortReq ==
  /\ Up /\ replies # <<>> /\ Head(replies).type = "abort"
  /\ LET m == Head(replies)
         c == ridToState[rid[m.call]]
     IN  IF c = None THEN crash' = "key error" /\ UNCHANGED <<state, heard>>
                     ELSE Told(c, TRUE, m.reason, m.call) /\ UNCHANGED crash
  /\ replies' = Tail(replies)
  /\ UNCHANGED <<rid, pc, outcome, ridToState, left, abortTask, asked, opVars, toScheduler, outputs,
                 rwVars, sch>>

\* _handle_update_weights_from_disk_req_output
HandleUpdateReply ==
  /\ Up /\ replies # <<>> /\ Head(replies).type = "update"
  /\ updatePc' = "reply"
  /\ replies' = Tail(replies)
  /\ UNCHANGED <<callVars, isPause, pausePc, gracefullyExit, exited, toScheduler, outputs, rwVars,
                 crash, sch>>

-----------------------------------------------------------------------------
(***************************************************************************)
(* The operators' calls, one of each: pause_generation with mode "abort",  *)
(* continue_generation, update_weights_from_disk, and SIGTERM.             *)
(***************************************************************************)
AbortAll(queue) == Append(queue, [type |-> "abortAll"])

\* A round of the loop: all requests are aborted, until no call holds the lock.
PauseRound ==
  /\ toScheduler' = AbortAll(toScheduler)
  /\ pausePc' = IF IsLocked THEN "loop" ELSE "paused"
  /\ UNCHANGED <<callVars, updatePc, gracefullyExit, exited, outputs, replies, rwVars, crash, sch>>

PauseGeneration ==
  /\ Up /\ pausePc = "new" /\ MoreEvents
  /\ isPause' = TRUE
  /\ PauseRound

PauseAgain ==
  /\ Up /\ pausePc = "loop"
  /\ Len(toScheduler) < MaxQueue
  /\ PauseRound
  /\ UNCHANGED isPause

\* The message to the scheduler only undoes the modes that pause it in place.
ContinueGeneration ==
  /\ Up /\ pausePc = "paused"
  /\ isPause' = FALSE
  /\ pausePc' = "over"
  /\ UNCHANGED <<callVars, updatePc, gracefullyExit, exited, netVars, rwVars, crash, sch>>

SendUpdate(queue) ==
  /\ toScheduler' = Append(queue, [type |-> "update"])
  /\ updatePc' = "await"

\* From the pause check on: a paused server is updated without the lock.
EnterUpdate(queue) ==
  \/ isPause /\ SendUpdate(queue) /\ UNCHANGED rwVars
  \/ ~isPause /\ AcquireWriter /\ SendUpdate(queue)
  \/ ~isPause /\ QueueWriter(Updater) /\ updatePc' = "lock" /\ toScheduler' = queue

\* The update may begin by aborting all requests; the pause check waits for a pause that
\* loops.
UpdateWeights ==
  /\ Up /\ updatePc = "new" /\ MoreEvents
  /\ \E abortAll \in BOOLEAN :
       LET queue == IF abortAll THEN AbortAll(toScheduler) ELSE toScheduler
       IN  IF pausePc = "loop"
           THEN updatePc' = "check" /\ toScheduler' = queue /\ UNCHANGED rwVars
           ELSE EnterUpdate(queue)
  /\ UNCHANGED <<callVars, isPause, pausePc, gracefullyExit, exited, outputs, replies, crash, sch>>

UpdateCheck ==
  /\ Up /\ updatePc = "check" /\ pausePc # "loop"
  /\ EnterUpdate(toScheduler)
  /\ UNCHANGED <<callVars, isPause, pausePc, gracefullyExit, exited, outputs, replies, crash, sch>>

UpdateLock ==
  /\ Up /\ updatePc = "lock" /\ Updater \notin asleep
  /\ IF MayWrite THEN WakeWriter /\ SendUpdate(toScheduler)
                 ELSE SleepWriter(Updater) /\ UNCHANGED <<toScheduler, updatePc>>
  /\ UNCHANGED <<callVars, isPause, pausePc, gracefullyExit, exited, outputs, replies, crash, sch>>

UpdateReturn ==
  /\ Up /\ updatePc = "reply"
  /\ updatePc' = "over"
  /\ IF writerActive THEN ReleaseWriter ELSE UNCHANGED rwVars
  /\ UNCHANGED <<callVars, isPause, pausePc, gracefullyExit, exited, netVars, crash, sch>>

Sigterm ==
  /\ Up /\ ~gracefullyExit /\ MoreEvents
  /\ gracefullyExit' = TRUE
  /\ UNCHANGED <<callVars, isPause, pausePc, updatePc, exited, netVars, rwVars, crash, sch>>

\* sigterm_watchdog: the server ends when no state is left.
Drain ==
  /\ Up /\ gracefullyExit
  /\ \A i \in Rids : ridToState[i] = None
  /\ exited' = TRUE
  /\ UNCHANGED <<callVars, isPause, pausePc, updatePc, gracefullyExit, netVars, rwVars, crash, sch>>

-----------------------------------------------------------------------------
(***************************************************************************)
(* The scheduler process, as the front end meets it.                       *)
(***************************************************************************)
Unserved(c, reason) == [type |-> "abort", call |-> c, reason |-> reason]

\* The members of S, each once.
Listed(S) == CHOOSE f \in [1 .. Cardinality(S) -> S] : IsInjective(f)

\* abort_request for the requests of a set of calls: queued ones are answered and
\* forgotten, of the others those in the batch are marked.
SchedulerAbort(hit) ==
  LET queued == {c \in hit : sch[c] = "waiting"}
      running == {c \in hit : sch[c] \in {"running", "streaming"}}
  IN  /\ \E marked \in SUBSET running :
           sch' = [c \in Calls |-> IF c \in queued THEN "none"
                                   ELSE IF c \in marked THEN "finishing" ELSE sch[c]]
      /\ replies' = replies \o Listed({Unserved(c, "aborted") : c \in queued})
      /\ UNCHANGED crash

\* update_weights_from_disk: the cache must be flushed, which needs an idle scheduler,
\* unless the update has failed or was sent with flush_cache off.
SchedulerUpdate ==
  /\ \/ replies' = Append(replies, [type |-> "update"]) /\ UNCHANGED crash
     \/ /\ \E c \in Calls : sch[c] # "none"
        /\ crash' = "flush"
        /\ UNCHANGED replies
  /\ UNCHANGED sch

SchedulerReceive ==
  /\ Up /\ toScheduler # <<>>
  /\ LET m == Head(toScheduler)
     IN  \/ /\ m.type = "generate"
            /\ sch' = [sch EXCEPT ![m.call] = "waiting"]
            /\ UNCHANGED <<replies, crash>>
         \/ m.type = "abort" /\ SchedulerAbort({c \in Calls : rid[c] = m.rid})
         \/ m.type = "abortAll" /\ SchedulerAbort(Calls)
         \/ m.type = "update" /\ SchedulerUpdate
  /\ toScheduler' = Tail(toScheduler)
  /\ UNCHANGED <<callVars, opVars, outputs, rwVars>>

Output(c, finished, reason) ==
  outputs' = Append(outputs, [call |-> c, finished |-> finished, reason |-> reason])

\* The life of a request: it waits, runs, may give an intermediate output, and ends with
\* a last one; the last batch is dropped in the iteration that follows.
SchedulerStart(c) ==
  /\ Up /\ sch[c] = "waiting"
  /\ sch' = [sch EXCEPT ![c] = "running"]
  /\ UNCHANGED <<callVars, opVars, netVars, rwVars, crash>>

SchedulerOutput(c) ==
  /\ Up /\ sch[c] = "running"
  /\ sch' = [sch EXCEPT ![c] = "streaming"]
  /\ Output(c, FALSE, "none")
  /\ UNCHANGED <<callVars, opVars, toScheduler, replies, rwVars, crash>>

SchedulerFinish(c) ==
  /\ Up /\ sch[c] \in {"running", "streaming", "finishing"}
  /\ sch' = [sch EXCEPT ![c] = "last"]
  /\ Output(c, TRUE, IF sch[c] = "finishing" THEN "aborted" ELSE "answered")
  /\ UNCHANGED <<callVars, opVars, toScheduler, replies, rwVars, crash>>

SchedulerDrop(c) ==
  /\ Up /\ sch[c] = "last"
  /\ sch' = [sch EXCEPT ![c] = "none"]
  /\ UNCHANGED <<callVars, opVars, netVars, rwVars, crash>>

\* Mutant of SchedulerTimeout: the reply looks like that of an abort.
SchedulerTimeoutAsAbort(c) ==
  /\ Up /\ sch[c] = "waiting"
  /\ sch' = [sch EXCEPT ![c] = "none"]
  /\ replies' = Append(replies, Unserved(c, "aborted"))
  /\ UNCHANGED <<callVars, opVars, toScheduler, outputs, rwVars, crash>>

\* _abort_on_waiting_timeout
SchedulerTimeout(c) ==
  /\ Up /\ sch[c] = "waiting"
  /\ sch' = [sch EXCEPT ![c] = "none"]
  /\ replies' = Append(replies, Unserved(c, "unavailable"))
  /\ UNCHANGED <<callVars, opVars, toScheduler, outputs, rwVars, crash>>

-----------------------------------------------------------------------------
\* What a coroutine of a call does when the event loop runs it.
CallStep(c) ==
  \/ PassPause(c) \/ WakeReader(c) \/ TokenizeAndSend(c)
  \/ WaitOneResponse(c) \/ WaitTimeout(c) \/ Close(c)

SchedulerStep(c) == SchedulerStart(c) \/ SchedulerFinish(c) \/ SchedulerDrop(c)

HandleLoop == HandleBatchOutput \/ HandleAbortReq \/ HandleUpdateReply

UpdateStep == UpdateCheck \/ UpdateLock \/ UpdateReturn

Next ==
  \/ \E c \in Calls :
       \/ Arrive(c) \/ ClientLeaves(c) \/ CancelStream(c) \/ AbortTask(c)
       \/ CallStep(c) \/ SchedulerStep(c) \/ SchedulerOutput(c) \/ SchedulerTimeout(c)
  \/ \E i \in Rids : AbortRequest(i)
  \/ HandleLoop
  \/ PauseGeneration \/ PauseAgain \/ ContinueGeneration
  \/ UpdateWeights \/ UpdateStep
  \/ Sigterm \/ Drain
  \/ SchedulerReceive

\* The steps that bring some call or operation nearer to its end.
Progress ==
  \/ \E c \in Calls : CallStep(c) \/ SchedulerStep(c) \/ CancelStream(c) \/ AbortTask(c)
  \/ HandleLoop \/ UpdateStep \/ ContinueGeneration \/ Drain

\* The event loop runs the coroutines that can go on, timers fire, the scheduler keeps
\* reading its socket and working on its requests, and an operator who has paused the
\* server continues.  Clients, aborts, updates and signals may come or not.  The event
\* loop is fair to each coroutine; that some coroutine goes on is all that is needed here.
Fairness == WF_vars(Progress) /\ WF_vars(PauseAgain) /\ WF_vars(SchedulerReceive)

Spec == Init /\ [][Next]_vars /\ Fairness

-----------------------------------------------------------------------------
\* Every variable of the front end has its type.
TypeOK ==
  /\ pc \in [Calls -> {"new", "pause", "lock", "tokenize", "wait", "close", "end"}]
  /\ outcome \in [Calls -> {"none", "rejected", "invalid", "left", "answered", "aborted",
                            "unavailable"}]
  /\ state \in [Calls -> [finished : BOOLEAN, event : BOOLEAN,
                          reason : {"none", "answered", "aborted", "unavailable"}]]
  /\ heard \in [Calls -> SUBSET Calls]
  /\ ridToState \in [Rids -> Calls \cup {None}]
  /\ left \subseteq Calls /\ abortTask \subseteq StreamCalls /\ asked \subseteq Rids
  /\ isPause \in BOOLEAN /\ gracefullyExit \in BOOLEAN /\ exited \in BOOLEAN
  /\ pausePc \in {"new", "loop", "paused", "over"}
  /\ updatePc \in {"new", "check", "lock", "await", "reply", "over"}
  /\ crash \in {"none", "key error", "flush"}
  /\ sch \in [Calls -> Places]
  /\ readers \in Nat /\ writerActive \in BOOLEAN /\ waitingWriters \in Nat
  /\ asleep \subseteq Calls \cup {Updater}

\* The calls inside the reader lock of generate_request.
Reading == {c \in Calls : pc[c] \in {"tokenize", "wait", "close"}}

\* The state of a call is only ever told about the request of that call, although
\* rid_to_state finds it by an id that an earlier call has used, whose answers, aborts and
\* background task may still be on their way (generate_request, _handle_batch_output).
OwnAnswer == \A c \in Calls : heard[c] \subseteq {c}

\* _handle_abort_req never meets an id without a state, which would end the process: the
\* client of a request that is aborted in the queue may have left long before.
NoKeyError == crash # "key error"

\* While update_weights_from_disk has the writer lock no call is between its tokenization
\* and the end of its response, however readers, the writer and cancellations interleave.
UpdateExclusive ==
  /\ writerActive => Reading = {}
  /\ readers = Cardinality(Reading)

\* An update that finds the scheduler busy, and fails the assertion on the cache flush,
\* was late for a request whose call had ended: the client had left before the request
\* did, or the last batch was not yet dropped.
FlushFailureHasCause ==
  crash = "flush" =>
    \E c \in Calls : /\ sch[c] # "none" /\ pc[c] = "end"
                     /\ sch[c] = "last" \/ c \in left

\* A call is answered with an abort only if its client has left, its id was aborted over
\* the API, an operator has aborted all requests, or a streamed call that used the same
\* id has ended: its background task aborts by the id, whoever has it by then.
AbortHasCause ==
  \A c \in Calls : outcome[c] = "aborted" =>
    \/ c \in left \/ rid[c] \in asked \/ pausePc # "new" \/ updatePc # "new"
    \/ \E d \in StreamCalls \ {c} : rid[d] = rid[c] /\ pc[d] = "end"

\* A state outlives its call only if the input was refused, the client has left or the
\* request was aborted; answers and the scheduler's own refusals remove it, so that the
\* id can be used again (_handle_batch_output, _wait_one_response).
StatesAccounted ==
  \A i \in Rids : LET c == ridToState[i] IN
    (c # None /\ pc[c] = "end") => outcome[c] \in {"invalid", "left", "aborted"}

\* Every call that has begun ends, whatever pauses, updates and disconnects it meets,
\* unless the server itself ends: no wake-up of the lock or of the pause is lost.  (A call
\* begins once, so it is enough that from some time on none is under way.)
CallsEnd == <>[](Up => \A c \in Calls : pc[c] \in {"new", "end"})

\* pause_generation and update_weights_from_disk return unless the server ends, although
\* each waits for the lock and for the calls that hold it.
OperationsReturn == <>[](Up => pausePc # "loop" /\ updatePc \in {"new", "over"})

\* After SIGTERM the server drains its requests and ends (sigterm_watchdog, which waits
\* for rid_to_state to be empty).
DrainEnds == gracefullyExit ~> ~Up

=============================================================================
