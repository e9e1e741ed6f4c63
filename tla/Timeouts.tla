------------------------------ MODULE Timeouts ------------------------------
(***************************************************************************)
(* What Scheduler promises to its clients about running and sleeping,      *)
(* without saying how: a thread runs on at most one CPU, no more threads   *)
(* run than there are CPUs, and a thread whose timeout was set is resumed  *)
(* only after the deadline or after somebody cleared it.                   *)
(* RRScheduler.tla implements this; SleepState, GarbageCollector and       *)
(* NoncriticalLock are modelled on top of it.                              *)
(***************************************************************************)
EXTENDS Integers, FiniteSets

CONSTANTS
  Threads,    \* the threads
  NumCpus,    \* the number of hardware threads
  MaxTime     \* the bound of the clock

ASSUME TimeoutsAssumption ==
  /\ IsFiniteSet(Threads) /\ NumCpus \in Nat \ {0} /\ MaxTime \in Nat \ {0}

VARIABLES
  clock,      \* the system clock
  deadline,   \* ThreadObj::deadline of every thread
  running     \* the threads that run on some CPU

timeoutVars == <<clock, deadline, running>>

Times == 1..MaxTime
Infinite == MaxTime + 1      \* a deadline the clock never reaches

TimeoutsInit ==
  /\ clock = 1 /\ deadline = [th \in Threads |-> 0] /\ running = {}

Tick ==
  /\ clock < MaxTime /\ clock' = clock + 1
  /\ UNCHANGED <<deadline, running>>

Resume(th) ==
  /\ th \notin running /\ deadline[th] <= clock
  /\ Cardinality(running) < NumCpus
  /\ running' = running \cup {th}
  /\ UNCHANGED <<clock, deadline>>

\* The timer preempts the thread, or it yields.
Suspend(th) ==
  /\ th \in running /\ running' = running \ {th}
  /\ UNCHANGED <<clock, deadline>>

SetTimeout(th, d) ==
  /\ th \in running /\ deadline' = [deadline EXCEPT ![th] = d]
  /\ UNCHANGED <<clock, running>>

ClearTimeout(th) ==
  /\ deadline' = [deadline EXCEPT ![th] = 0]
  /\ UNCHANGED <<clock, running>>

TimeoutsNext ==
  \/ Tick
  \/ \E th \in Threads : \/ Resume(th) \/ Suspend(th) \/ ClearTimeout(th)
                         \/ \E d \in Times \cup {Infinite} : SetTimeout(th, d)

TimeoutsSpec == TimeoutsInit /\ [][TimeoutsNext]_timeoutVars

TimeoutsType ==
  /\ clock \in Times /\ running \subseteq Threads
  /\ deadline \in [Threads -> 0..Infinite]
=============================================================================
