----------------------------- MODULE RRScheduler -----------------------------
(***************************************************************************)
(* RRScheduler: the list of threads, the lock around it, and the loop by   *)
(* which each CPU that switches picks the next thread.  Threads call the   *)
(* scheduler in every order its interface allows: they set their own       *)
(* timeouts, clear those of others, are added, end and are removed.        *)
(*                                                                         *)
(* A thread that can no longer be retained is in "gone"; Lifecycle.tla     *)
(* says how it gets there and when it may be removed.                      *)
(***************************************************************************)
EXTENDS Integers, Sequences, FiniteSets, SequencesExt

CONSTANTS Threads, Cpus, None, MaxTime

ASSUME RRSchedulerAssumption ==
  /\ IsFiniteSet(Threads) /\ IsFiniteSet(Cpus) /\ Cpus # {}
  /\ None \notin Threads \cup Cpus /\ MaxTime \in Nat \ {0}

VARIABLES
  clock,      \* ticks of the system clock
  threads,    \* the scheduler's list
  deadline,   \* ThreadObj::deadline
  running,    \* the threads whose ThreadObj::running is set
  gone,       \* the threads whose Retain fails
  current,    \* Thread::GetCurrent on every CPU
  lock,       \* the CPU that holds the scheduler's lock, or None
  cpc,        \* where each CPU is
  now,        \* the time each CPU read when it entered Switch
  next        \* how much of the list the CPU in the loop has passed

vars == <<clock, threads, deadline, running, gone, current, lock, cpc, now, next>>

Infinite == MaxTime + 1
Listed == Range(threads)

\* Run() calls Switch on every CPU; the threads have been added before.
Init ==
  /\ clock = 1
  /\ threads \in {s \in [1..Cardinality(Threads) -> Threads] : IsInjective(s)}
  /\ deadline = [th \in Threads |-> 0] /\ running = {} /\ gone = {}
  /\ current = [c \in Cpus |-> None] /\ lock = None
  /\ cpc = [c \in Cpus |-> "switch"] /\ now = [c \in Cpus |-> clock]
  /\ next = 0

Tick ==
  /\ clock < MaxTime /\ clock' = clock + 1
  /\ UNCHANGED <<threads, deadline, running, gone, current, lock, cpc, now, next>>

-----------------------------------------------------------------------------
(* Calls of the thread that runs on CPU c.                                 *)

IgnoreLock == TRUE                                 \* mutant of ListFree
ListFree == lock = None

Calls(c, th) == cpc[c] = "run" /\ current[c] = th

\* SetTimeout and SetInfiniteTimeout, in a critical section: the caller's lock
\* is released (by the module that owns it) between the two steps.
SetTimeout(c, d) ==
  /\ \E th \in Threads : Calls(c, th) /\ deadline' = [deadline EXCEPT ![th] = d]
  /\ cpc' = [cpc EXCEPT ![c] = "yield"]
  /\ UNCHANGED <<clock, threads, running, gone, current, lock, now, next>>

\* Any thread may clear the timeout of any other, and so may a CPU that throws
\* garbage away inside Switch.
ClearTimeout(th) ==
  /\ th \in Listed
  /\ deadline' = [deadline EXCEPT ![th] = 0]
  /\ UNCHANGED <<clock, threads, running, gone, current, lock, cpc, now, next>>

\* A thread ends itself, or its task ends and takes others along.
End(c, S) ==
  /\ \E th \in S : Calls(c, th)
  /\ S \cap gone = {} /\ gone' = gone \cup S
  /\ cpc' = [cpc EXCEPT ![c] = "yield"]
  /\ UNCHANGED <<clock, threads, deadline, running, current, lock, now, next>>

\* Add constructs a ThreadObj, whose deadline is 0, and appends it.
Add(th) ==
  /\ th \notin Listed /\ ListFree
  /\ threads' = Append(threads, th)
  /\ gone' = gone \ {th}
  /\ deadline' = [deadline EXCEPT ![th] = 0]
  /\ UNCHANGED <<clock, running, current, lock, cpc, now, next>>

\* The list without the link of th.
PlaceOf(th) == CHOOSE i \in DOMAIN threads : threads[i] = th
Unlinked(th) == RemoveAt(threads, PlaceOf(th))

\* The collector removes a thread nothing refers to any more.
RemoveThread(th) ==
  /\ th \in gone \cap Listed /\ th \notin running /\ ListFree
  /\ threads' = Unlinked(th)
  /\ UNCHANGED <<clock, deadline, running, gone, current, lock, cpc, now, next>>

-----------------------------------------------------------------------------
(* Switch.                                                                 *)

\* The timer fires on a CPU that runs a thread or waits for work, or the thread
\* yields: the CPU reads the clock, then waits for the lock.
EnterSwitch(c) ==
  /\ cpc[c] \in {"run", "idle", "yield"}
  /\ cpc' = [cpc EXCEPT ![c] = "switch"] /\ now' = [now EXCEPT ![c] = clock]
  /\ UNCHANGED <<clock, threads, deadline, running, gone, current, lock, next>>

\* ResignCurrent moves the thread to the back of the list.
LeftInPlace(th) == threads                         \* mutant of ToTheBack
ToTheBack(th) == Append(Unlinked(th), th)

Seize(c) ==
  /\ cpc[c] = "switch" /\ ListFree
  /\ lock' = c /\ next' = 0
  /\ cpc' = [cpc EXCEPT ![c] = "scan"]
  /\ current' = [current EXCEPT ![c] = None]
  /\ running' = running \ {current[c]}
  /\ threads' = IF current[c] = None THEN threads ELSE ToTheBack(current[c])
  /\ UNCHANGED <<clock, deadline, gone, now>>

DueSoon(th, t) == deadline[th] <= t + 1            \* mutant of Due
Due(th, t) == deadline[th] <= t

RunnableTwice(c, th) == th \notin gone /\ Due(th, now[c])   \* mutant of Runnable
Runnable(c, th) == th \notin gone /\ Due(th, now[c]) /\ th \notin running

\* One turn of the loop.
Pass(c) ==
  /\ cpc[c] = "scan" /\ next < Len(threads)
  /\ ~Runnable(c, threads[next + 1])
  /\ next' = next + 1
  /\ UNCHANGED <<clock, threads, deadline, running, gone, current, lock, cpc, now>>

Take(c) ==
  /\ cpc[c] = "scan" /\ next < Len(threads)
  /\ LET th == threads[next + 1] IN
       /\ Runnable(c, th)
       /\ running' = running \cup {th}
       /\ current' = [current EXCEPT ![c] = th]
  /\ cpc' = [cpc EXCEPT ![c] = "run"]
  /\ lock' = None /\ next' = 0
  /\ UNCHANGED <<clock, threads, deadline, gone, now>>

WaitTimeout(c) ==
  /\ cpc[c] = "scan" /\ next = Len(threads)
  /\ cpc' = [cpc EXCEPT ![c] = "idle"]
  /\ lock' = None /\ next' = 0
  /\ UNCHANGED <<clock, threads, deadline, running, gone, current, now>>

Scan(c) == Pass(c) \/ Take(c) \/ WaitTimeout(c)

Next ==
  \/ Tick
  \/ \E c \in Cpus : \/ EnterSwitch(c) \/ Seize(c) \/ Scan(c)
                     \/ \E d \in clock..Infinite : SetTimeout(c, d)
                     \/ \E S \in SUBSET Threads : End(c, S)
  \/ \E th \in Threads : ClearTimeout(th) \/ Add(th) \/ RemoveThread(th)

Spec == Init /\ [][Next]_vars

-----------------------------------------------------------------------------

TypeOK ==
  /\ clock \in 1..MaxTime /\ threads \in Seq(Threads)
  /\ deadline \in [Threads -> 0..Infinite]
  /\ running \subseteq Threads /\ gone \subseteq Threads
  /\ current \in [Cpus -> Threads \cup {None}] /\ lock \in Cpus \cup {None}
  /\ cpc \in [Cpus -> {"run", "idle", "yield", "switch", "scan"}]
  /\ now \in [Cpus -> 1..MaxTime] /\ next \in 0..Len(threads)

\* Exactly the threads marked running are on a CPU, each on one, and they are in
\* the list once: no interleaving of two CPUs picks a thread twice or loses it.
RunningExact ==
  /\ IsInjective(threads)
  /\ running = {current[c] : c \in Cpus} \ {None}
  /\ running \subseteq Listed
  /\ \A c, d \in Cpus : current[c] = current[d] /\ c # d => current[c] = None

\* The scheduler does what Timeouts.tla promises: one CPU per thread, and no
\* thread resumed before its deadline.
Promise == INSTANCE Timeouts WITH NumCpus <- Cardinality(Cpus)
KeepsPromise == Promise!TimeoutsSpec
=============================================================================
