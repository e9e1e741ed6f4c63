--------------------------- MODULE NoncriticalLock ---------------------------
(***************************************************************************)
(* NoncriticalLock: the lock of code that may be preempted.  A thread that *)
(* finds it held queues a WaitingThread on its own stack and sleeps until  *)
(* the holder hands the lock over; code that runs before there are threads *)
(* (a Poller) polls.  It runs on the scheduler of Timeouts.tla.            *)
(***************************************************************************)
EXTENDS Timeouts, Sequences, SequencesExt

CONSTANTS
  Pollers,    \* those who wait when Thread::GetCurrent() is NULL
  Collector,  \* the collector thread, if it is one of the threads
  None

ASSUME NoncriticalLockAssumption ==
  /\ Threads \cap Pollers = {} /\ None \notin Threads \cup Pollers

Procs == Threads \cup Pollers

VARIABLES
  queueLock,    \* who holds the spin lock around the queue, or None
  held,         \* NoncriticalLock::held
  queue,        \* those whose WaitingThread is queued
  owner,        \* those whose WaitingThread::owner is set
  pc,           \* where each of them is in Seize or Release
  next,         \* whom Release hands the lock to
  assertFailed  \* assert(threadLink.owner == true) was false

lockVars == <<queueLock, held, queue, owner, pc, next, assertFailed>>
vars == <<timeoutVars, lockVars>>

\* Points where the timer may preempt a thread: all but the critical section in
\* which SetInfiniteTimeout sets the deadline, unlocks and yields.
Preemptible == {"out", "seize", "set", "in", "release", "grant", "clear"}
\* The WaitingThread exists from the time it is queued until Seize returns.
Waiting == {"set", "unlock", "yield", "asleep", "poll"}
Pcs == Preemptible \cup Waiting

Init ==
  /\ TimeoutsInit
  /\ queueLock = None /\ held = FALSE /\ queue = <<>> /\ owner = {}
  /\ pc = [p \in Procs |-> "out"] /\ next = [p \in Procs |-> None]
  /\ assertFailed = FALSE

At(p, l) == pc[p] = l /\ (p \in Pollers \/ p \in running)
Goto(p, l) == pc' = [pc EXCEPT ![p] = l]

Unlocked == TRUE                                   \* mutant of QueueLockFree
QueueLockFree == queueLock = None

-----------------------------------------------------------------------------
(* Seize.                                                                  *)

SeizeQueueLock(p) ==
  /\ QueueLockFree
  /\ \/ At(p, "out") /\ Goto(p, "seize")
     \/ At(p, "in") /\ Goto(p, "release")
  /\ queueLock' = p
  /\ UNCHANGED <<timeoutVars, held, queue, owner, next, assertFailed>>

TakeFree(p) ==
  /\ At(p, "seize") /\ ~held
  /\ held' = TRUE /\ queueLock' = None
  /\ Goto(p, "in")
  /\ UNCHANGED <<timeoutVars, queue, owner, next, assertFailed>>

StaleOwner(p) == owner                             \* mutant of FreshOwner
FreshOwner(p) == owner \ {p}

Enqueue(p) ==
  /\ At(p, "seize") /\ held
  /\ queue' = Append(queue, p) /\ owner' = FreshOwner(p)
  /\ \/ p \in Threads /\ Goto(p, "set") /\ UNCHANGED queueLock
     \/ p \in Pollers /\ Goto(p, "poll") /\ queueLock' = None
  /\ UNCHANGED <<timeoutVars, held, next, assertFailed>>

SomeTime == 1                                      \* mutant of WaitTime
WaitTime == Infinite

SetDeadline(p) ==
  /\ At(p, "set")
  /\ SetTimeout(p, WaitTime)
  /\ Goto(p, "unlock")
  /\ UNCHANGED <<queueLock, held, queue, owner, next, assertFailed>>

Unlock(p) ==
  /\ At(p, "unlock")
  /\ queueLock' = None
  /\ Goto(p, "yield")
  /\ UNCHANGED <<timeoutVars, held, queue, owner, next, assertFailed>>

Yield(p) ==
  /\ At(p, "yield")
  /\ Suspend(p)
  /\ Goto(p, "asleep")
  /\ UNCHANGED <<queueLock, held, queue, owner, next, assertFailed>>

\* The thread is resumed; it takes it that it has been given the lock.
Resumed(p) ==
  /\ At(p, "asleep")
  /\ assertFailed' = (assertFailed \/ p \notin owner)
  /\ Goto(p, "in")
  /\ UNCHANGED <<timeoutVars, queueLock, held, queue, owner, next>>

Polled(p) ==
  /\ At(p, "poll") /\ p \in owner
  /\ Goto(p, "in")
  /\ UNCHANGED <<timeoutVars, queueLock, held, queue, owner, next, assertFailed>>

-----------------------------------------------------------------------------
(* Release.                                                                *)

SetFree(p) ==
  /\ At(p, "release") /\ queue = <<>>
  /\ held' = FALSE /\ queueLock' = None
  /\ Goto(p, "out")
  /\ UNCHANGED <<timeoutVars, queue, owner, next, assertFailed>>

ShiftLast(s) == <<Last(s), Front(s)>>              \* mutant of Shift
Shift(s) == <<Head(s), Tail(s)>>

ShiftQueue(p) ==
  /\ At(p, "release") /\ queue # <<>>
  /\ next' = [next EXCEPT ![p] = Shift(queue)[1]] /\ queue' = Shift(queue)[2]
  /\ queueLock' = None
  /\ Goto(p, "grant")
  /\ UNCHANGED <<timeoutVars, held, owner, assertFailed>>

PollerOrThread(q) == TRUE                          \* mutants of IsThread
NoThread(q) == FALSE
IsThread(q) == q \in Threads

\* next->owner = true; next->thread is read again only if it is not NULL.
Grant(p) ==
  /\ At(p, "grant")
  /\ owner' = owner \cup {next[p]}
  /\ \/ IsThread(next[p]) /\ Goto(p, "clear")
     \/ ~IsThread(next[p]) /\ Goto(p, "out")
  /\ UNCHANGED <<timeoutVars, queueLock, held, queue, next, assertFailed>>

Clear(p) ==
  /\ At(p, "clear")
  /\ \/ next[p] \in Threads /\ ClearTimeout(next[p])
     \/ next[p] \notin Threads /\ UNCHANGED timeoutVars
  /\ Goto(p, "out")
  /\ UNCHANGED <<queueLock, held, queue, owner, next, assertFailed>>

-----------------------------------------------------------------------------

Schedule(th) == Resume(th) /\ UNCHANGED lockVars
Preempt(th) == pc[th] \in Preemptible /\ Suspend(th) /\ UNCHANGED lockVars

Inside(p) ==
  \/ TakeFree(p) \/ Enqueue(p) \/ SetDeadline(p) \/ Unlock(p) \/ Yield(p)
  \/ Resumed(p) \/ Polled(p)
  \/ SetFree(p) \/ ShiftQueue(p) \/ Grant(p) \/ Clear(p)

Next ==
  \/ \E p \in Procs : SeizeQueueLock(p) \/ Inside(p)
  \/ \E th \in Threads : Schedule(th) \/ Preempt(th)

Spec == Init /\ [][Next]_vars

\* The same with the collector thread among the threads: GarbageCollector::Add
\* on any CPU clears its timeout at any time.
ClearGarbageTimeout == ClearTimeout(Collector) /\ UNCHANGED lockVars
CollectorSpec == Init /\ [][Next \/ ClearGarbageTimeout]_vars

\* Threads that may run are resumed again and again, code inside the lock's
\* methods goes on when it runs, whoever has the lock releases it, and the
\* OrderedLock around the queue is fair.  Nobody has to seize the lock.
Fairness ==
  /\ \A p \in Procs : SF_vars(At(p, "in") /\ SeizeQueueLock(p)) /\ SF_vars(Inside(p))
  /\ \A th \in Threads : SF_vars(Schedule(th)) /\ WF_vars(Preempt(th))

FairSpec == Spec /\ Fairness

-----------------------------------------------------------------------------

TypeOK ==
  /\ TimeoutsType
  /\ queueLock \in Procs \cup {None} /\ held \in BOOLEAN
  /\ queue \in Seq(Procs) /\ owner \subseteq Procs
  /\ pc \in [Procs -> Pcs] /\ next \in [Procs -> Procs \cup {None}]
  /\ assertFailed \in BOOLEAN
  /\ \A p \in Procs : queueLock = p <=> pc[p] \in {"seize", "set", "unlock", "release"}

\* Those who have the lock, or have been chosen to have it next.
Holders ==
  {p \in Procs : \/ pc[p] \in {"in", "release"}
                 \/ pc[p] \in Waiting /\ p \in owner
                 \/ \E q \in Procs : pc[q] = "grant" /\ next[q] = p}

\* At most one has the lock or is being given it, and then the lock is held.
MutualExclusion ==
  /\ \A p, q \in Procs : p \in Holders /\ q \in Holders => p = q
  /\ held <=> Holders # {}

\* Release reads the WaitingThread of the thread it wakes after it set its owner
\* field: the thread must still be inside Seize, on whose stack it is.
FrameIsLive == \A p \in Procs : pc[p] \in {"grant", "clear"} => pc[next[p]] \in Waiting

\* The lock is a FIFO line, across the steps of the hand-over.
Line == IF Holders = {} THEN <<>> ELSE <<CHOOSE p \in Procs : p \in Holders>> \o queue
Promise == INSTANCE FifoLock WITH line <- Line
KeepsPromise == Promise!Spec

\* Whoever waits for the lock gets it.
SeizeReturns == \A p \in Procs : pc[p] \in Waiting ~> pc[p] = "in"

-----------------------------------------------------------------------------

\* assert(threadLink.owner == true) in Seize: whoever sleeps there is resumed only
\* when it has been given the lock.
OwnerWhenResumed == ~assertFailed
=============================================================================
