---------------------------- MODULE ReadWriteLock ----------------------------
(* The asyncio read-write lock of state/rwlock.py, used by any number of tasks.

   Coroutines interleave at an await that really suspends. The inner asyncio.Lock
   is never held across one, so it is always free where a task runs and each
   stretch between two suspensions is one action here. Event.wait() suspends only
   while the event is clear; setting the event wakes its waiters, and each looks
   at the lock again when it runs, whatever became of the event meanwhile. A
   waiting loop whose event is set while its condition still holds never suspends
   again: the event loop hangs, and no other task ever runs ("spinning").

   The specification's names begin with Lock, so that a module can extend this one
   beside Snapshots, the other component of state/. *)
EXTENDS Naturals, FiniteSets

CONSTANTS
  Readers, Writers,  \* tasks that use `async with lock.read()` and lock.write()
  Cancels            \* whether a waiting task may be cancelled

ASSUME ReadWriteLockAssumption ==
  /\ IsFiniteSet(Readers)
  /\ Readers \cap Writers = {}
  /\ Cancels \in BOOLEAN

VARIABLES
  readers,        \* _readers
  writerActive,   \* _writer_active
  writerWaiting,  \* _writer_waiting
  noReaders,      \* whether the event _no_readers is set
  noWriter,       \* whether the event _no_writer is set
  pc              \* "idle", "blocked", "woken", "holding" or "spinning"

lockVars == <<readers, writerActive, writerWaiting, noReaders, noWriter, pc>>

Tasks == Readers \cup Writers
Hung == \E t \in Tasks : pc[t] = "spinning"

LockTypeOK ==
  /\ readers \in Nat
  /\ writerActive \in BOOLEAN /\ writerWaiting \in BOOLEAN
  /\ noReaders \in BOOLEAN /\ noWriter \in BOOLEAN
  /\ pc \in [Tasks -> {"idle", "blocked", "woken", "holding", "spinning"}]
  /\ readers = Cardinality({t \in Readers : pc[t] = "holding"})

LockInit ==
  /\ readers = 0
  /\ writerActive = FALSE /\ writerWaiting = FALSE
  /\ noReaders = TRUE /\ noWriter = TRUE
  /\ pc = [t \in Tasks |-> "idle"]

Running(t, state) == ~Hung /\ pc[t] = state
Goto(t, state) == pc' = [pc EXCEPT ![t] = state]

(* What a task does whose wait condition holds: suspend on the event, or spin. *)
Wait(t, event) == Goto(t, IF event THEN "spinning" ELSE "blocked")

(* Setting an event wakes the tasks of S that wait for it; t becomes idle. *)
Wake(t, S) ==
  pc' = [u \in Tasks |-> CASE u = t -> "idle"
                           [] u \in S /\ u # t /\ pc[u] = "blocked" -> "woken"
                           [] OTHER -> pc[u]]

-----------------------------------------------------------------------------
(* Shared by every reader: is there a writer to let go first? *)
WriterAhead_OnlyActive == writerActive
WriterAhead_OnlyWaiting == writerWaiting
WriterAhead == writerActive \/ writerWaiting

AcquireRead(t) ==
  /\ Running(t, "idle") \/ Running(t, "woken")
  /\ IF WriterAhead
     THEN Wait(t, noWriter) /\ UNCHANGED <<readers, noReaders>>
     ELSE /\ readers' = readers + 1
          /\ noReaders' = FALSE
          /\ Goto(t, "holding")
  /\ UNCHANGED <<writerActive, writerWaiting, noWriter>>

LastReaderLeaves_Never == FALSE
LastReaderLeaves_Always == TRUE
LastReaderLeaves == readers = 1

ReleaseRead_KeepsCount(t) ==
  /\ Running(t, "holding")
  /\ Wake(t, {})
  /\ UNCHANGED <<readers, noReaders, writerActive, writerWaiting, noWriter>>
ReleaseRead(t) ==
  /\ Running(t, "holding")
  /\ readers' = readers - 1
  /\ noReaders' = (noReaders \/ LastReaderLeaves)
  /\ Wake(t, IF LastReaderLeaves THEN Writers ELSE {})
  /\ UNCHANGED <<writerActive, writerWaiting, noWriter>>

(* The waiting loop of _acquire_write, and what follows it; waiting is the flag
   _writer_waiting as the task finds it or sets it before the loop. *)
EnterWrite(t, waiting) ==
  IF readers > 0
  THEN Wait(t, noReaders) /\ writerWaiting' = waiting /\ UNCHANGED writerActive
  ELSE Goto(t, "holding") /\ writerWaiting' = FALSE /\ writerActive' = TRUE

AcquireWrite(t) ==
  /\ Running(t, "idle")
  /\ EnterWrite(t, TRUE)
  /\ noWriter' = FALSE
  /\ UNCHANGED <<readers, noReaders>>

RetryWrite(t) ==
  /\ Running(t, "woken")
  /\ EnterWrite(t, writerWaiting)
  /\ UNCHANGED <<readers, noReaders, noWriter>>

ReleaseWrite_Silent(t) ==
  /\ Running(t, "holding")
  /\ writerActive' = FALSE
  /\ noWriter' = TRUE
  /\ Wake(t, {})
  /\ UNCHANGED <<readers, writerWaiting, noReaders>>
ReleaseWrite(t) ==
  /\ Running(t, "holding")
  /\ writerActive' = FALSE
  /\ noWriter' = TRUE
  /\ Wake(t, Readers)
  /\ UNCHANGED <<readers, writerWaiting, noReaders>>

(* A task cancelled while it waits leaves every flag as it is: the exit of
   `async with self._lock` finds the inner lock free and raises instead. *)
Cancel(t) ==
  /\ Cancels
  /\ Running(t, "blocked") \/ Running(t, "woken")
  /\ Goto(t, "idle")
  /\ UNCHANGED <<readers, writerActive, writerWaiting, noReaders, noWriter>>

LockNext ==
  \/ \E t \in Readers : AcquireRead(t) \/ ReleaseRead(t)
  \/ \E t \in Writers : AcquireWrite(t) \/ RetryWrite(t) \/ ReleaseWrite(t)
  \/ \E t \in Tasks : Cancel(t)

LockSpec == LockInit /\ [][LockNext]_lockVars

(* The event loop runs every task that is ready, and every task that holds the
   lock leaves its block some day. No task has to ask for the lock. *)
Fairness ==
  /\ \A t \in Readers :
       WF_lockVars(ReleaseRead(t)) /\ WF_lockVars(pc[t] = "woken" /\ AcquireRead(t))
  /\ \A t \in Writers : WF_lockVars(RetryWrite(t)) /\ WF_lockVars(ReleaseWrite(t))

FairSpec == LockSpec /\ Fairness

-----------------------------------------------------------------------------
(* Many readers or one writer: a writer that holds the lock holds it alone. *)
Exclusion ==
  \A t \in Writers : pc[t] = "holding" => \A u \in Tasks \ {t} : pc[u] # "holding"

(* No waiting loop ever blocks the event loop. *)
NeverHangs == ~Hung

(* A reader that comes while a writer waits does not get the lock before it. *)
WriterFirst ==
  [][(\E w \in Writers : pc[w] \in {"blocked", "woken"}) =>
       \A t \in Readers : pc'[t] = "holding" => pc[t] = "holding"]_lockVars

(* A waiting writer gets the lock, unless it is cancelled, however many readers
   come and go. *)
WriterNotStarved == \A w \in Writers : pc[w] = "blocked" ~> pc[w] \in {"holding", "idle"}

(* A writer cancelled while it waited has left its flag: nobody waits to write. *)
Abandoned == writerWaiting /\ \A w \in Writers : pc[w] = "idle"

(* A waiting reader is woken some day, by the release of the writer it waits for,
   unless that writer was cancelled. *)
ReaderWoken ==
  \A t \in Readers : pc[t] = "blocked" ~> pc[t] # "blocked" \/ Abandoned
=============================================================================
