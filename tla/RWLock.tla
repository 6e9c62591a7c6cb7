------------------------------- MODULE RWLock -------------------------------
(***************************************************************************)
(* The readers-writer lock of aio_rwlock.py, with preference for writers,  *)
(* as the tasks of one event loop use it.  Its internal lock is never held *)
(* across a suspension other than the wait for the condition, which gives  *)
(* it up, so each operation is one step up to that wait.                   *)
(***************************************************************************)
EXTENDS Integers

VARIABLES
  readers,         \* _readers
  writerActive,    \* _writer_active
  waitingWriters,  \* _waiting_writers
  asleep           \* the tasks that wait for _cond

rwVars == <<readers, writerActive, waitingWriters, asleep>>

RWInit ==
  /\ readers = 0
  /\ writerActive = FALSE
  /\ waitingWriters = 0
  /\ asleep = {}

\* Mutant of MayRead: a writer that waits does not keep readers out, nor one that
\* is active.
MayReadAlways == TRUE

MayRead == ~writerActive /\ waitingWriters = 0

\* acquire_reader, from its beginning or from a wake-up.
AcquireReader ==
  /\ MayRead
  /\ readers' = readers + 1
  /\ UNCHANGED <<writerActive, waitingWriters, asleep>>

SleepReader(task) ==
  /\ ~MayRead
  /\ asleep' = asleep \cup {task}
  /\ UNCHANGED <<readers, writerActive, waitingWriters>>

\* Mutant of WokenByReader: the last reader wakes up nobody.
WokenByReaderNone == {}

\* The tasks that a reader wakes up when it leaves.
WokenByReader == IF readers = 1 THEN asleep ELSE {}

\* release_reader of a task, which was not asleep unless it was cancelled.
ReleaseReader ==
  /\ readers' = readers - 1
  /\ asleep' = asleep \ WokenByReader
  /\ UNCHANGED <<writerActive, waitingWriters>>

\* A task that is cancelled in acquire_reader.
CancelReader(task) ==
  /\ asleep' = asleep \ {task}
  /\ UNCHANGED <<readers, writerActive, waitingWriters>>

\* Mutant of MayWrite: readers are not waited for.
MayWriteOverReaders == ~writerActive

MayWrite == ~writerActive /\ readers = 0

\* acquire_writer from its beginning, which counts the writer as waiting if it has to.
AcquireWriter ==
  /\ MayWrite
  /\ writerActive' = TRUE
  /\ UNCHANGED <<readers, waitingWriters, asleep>>

QueueWriter(task) ==
  /\ ~MayWrite
  /\ waitingWriters' = waitingWriters + 1
  /\ asleep' = asleep \cup {task}
  /\ UNCHANGED <<readers, writerActive>>

\* acquire_writer from a wake-up.
WakeWriter ==
  /\ MayWrite
  /\ writerActive' = TRUE
  /\ waitingWriters' = waitingWriters - 1
  /\ UNCHANGED <<readers, asleep>>

SleepWriter(task) ==
  /\ ~MayWrite
  /\ asleep' = asleep \cup {task}
  /\ UNCHANGED <<readers, writerActive, waitingWriters>>

\* Mutant of ReleaseWriter: the lock stays with the writer.
ReleaseWriterKept ==
  /\ asleep' = {}
  /\ UNCHANGED <<readers, writerActive, waitingWriters>>

ReleaseWriter ==
  /\ writerActive' = FALSE
  /\ asleep' = {}
  /\ UNCHANGED <<readers, waitingWriters>>

IsLocked == writerActive \/ readers > 0

=============================================================================
