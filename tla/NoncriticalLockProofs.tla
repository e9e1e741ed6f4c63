------------------------ MODULE NoncriticalLockProofs ------------------------
(***************************************************************************)
(* Theorems about NoncriticalLock.tla, for every number of threads,        *)
(* pollers and CPUs: mutual exclusion, and the two facts on which the      *)
(* hand-over relies.                                                       *)
(***************************************************************************)
EXTENDS NoncriticalLock, TLAPS

\* The lock is a token.  It is with whoever is between Seize and Release, with the
\* releaser who has shifted the queue and not yet granted, or with a waiting
\* thread whose owner field is set.
HasToken(p) ==
  pc[p] \in {"in", "release", "grant"} \/ (pc[p] \in Waiting /\ p \in owner)

OneToken ==
  /\ \A p, q \in Procs : HasToken(p) /\ HasToken(q) => p = q
  /\ held <=> \E p \in Procs : HasToken(p)

\* The queue has each waiting process once, and nobody who was granted the lock;
\* a thread that still holds the queue's lock is in the queue; nobody waits for a
\* lock that is free.
QueueWaits ==
  /\ \A i \in 1..Len(queue) : pc[queue[i]] \in Waiting /\ queue[i] \notin owner
  /\ \A i, j \in 1..Len(queue) : queue[i] = queue[j] => i = j
  /\ \A p \in Procs : pc[p] \in {"set", "unlock"} => \E i \in 1..Len(queue) : queue[i] = p
  /\ queue # <<>> => held

\* Whom a releaser has shifted out of the queue, before and after the grant.
NextWaits ==
  /\ \A q \in Procs : pc[q] = "grant" =>
       /\ next[q] \in Procs /\ pc[next[q]] \in Waiting /\ next[q] \notin owner
       /\ \A i \in 1..Len(queue) : queue[i] # next[q]
  /\ \A q \in Procs : pc[q] = "clear" =>
       next[q] \in Threads /\ pc[next[q]] \in {"yield", "asleep"} /\ next[q] \in owner
  /\ \A q, r \in Procs : pc[q] = "clear" /\ pc[r] = "clear" /\ next[q] = next[r] => q = r

\* A thread that sleeps has an infinite timeout until its releaser, the last to
\* touch its stack, clears it; only then can it be resumed.
Cleared(p) == p \in owner /\ \A q \in Procs : pc[q] = "clear" => next[q] # p

SleepersWait ==
  \A p \in Threads :
    /\ pc[p] \in {"unlock", "yield", "asleep"} => deadline[p] = Infinite \/ Cleared(p)
    /\ pc[p] = "asleep" /\ p \in running => Cleared(p)

PlacesExist ==
  /\ \A p \in Threads : pc[p] # "poll"
  /\ \A p \in Pollers : pc[p] \notin {"set", "unlock", "yield", "asleep"}

IInv ==
  /\ TypeOK /\ OneToken /\ QueueWaits /\ NextWaits /\ SleepersWait /\ PlacesExist
  /\ OwnerWhenResumed

-----------------------------------------------------------------------------

\* The invariant holds before anybody calls Seize.
LEMMA InitInv == Init => IInv
<1> SUFFICES ASSUME Init PROVE IInv OBVIOUS
<1> USE NoncriticalLockAssumption, TimeoutsAssumption DEF Init, TimeoutsInit, Procs
<1>1. TypeOK
  <2>1. TimeoutsType BY DEF TimeoutsType, Times, Infinite
  <2>2. queue \in Seq(Procs) /\ pc \in [Procs -> Pcs] BY DEF Pcs, Preemptible
  <2> QED BY <2>1, <2>2 DEF TypeOK
<1>2. OneToken BY DEF OneToken, HasToken, Waiting
<1>3. QueueWaits /\ NextWaits BY DEF QueueWaits, NextWaits
<1>4. SleepersWait /\ PlacesExist BY DEF SleepersWait, PlacesExist
<1>5. OwnerWhenResumed BY DEF OwnerWhenResumed
<1> QED BY <1>1, <1>2, <1>3, <1>4, <1>5 DEF IInv

(* Each step of Seize and Release preserves each part of the invariant.      *)

\* SeizeQueueLock keeps the invariant.
LEMMA SeizeQueueLockInv ==
  ASSUME IInv, NEW p \in Procs, SeizeQueueLock(p)
  PROVE  IInv'
<1> USE NoncriticalLockAssumption, TimeoutsAssumption DEF IInv, SeizeQueueLock, At, Goto,
    Procs, timeoutVars, QueueLockFree
<1>1. TypeOK' BY DEF TypeOK, TimeoutsType, Times, Infinite, Pcs, Preemptible, Waiting
<1>2. OneToken' BY DEF TypeOK, OneToken, HasToken, Waiting
<1>3. QueueWaits' BY DEF TypeOK, QueueWaits, Waiting
<1>4. NextWaits' BY DEF TypeOK, NextWaits, Waiting
<1>5. SleepersWait' BY DEF TypeOK, SleepersWait, Cleared
<1>6. PlacesExist' BY DEF TypeOK, PlacesExist
<1>7. OwnerWhenResumed' BY DEF OwnerWhenResumed
<1> QED BY <1>1, <1>2, <1>3, <1>4, <1>5, <1>6, <1>7

\* TakeFree keeps the invariant.
LEMMA TakeFreeInv ==
  ASSUME IInv, NEW p \in Procs, TakeFree(p)
  PROVE  IInv'
<1> USE NoncriticalLockAssumption, TimeoutsAssumption DEF IInv, TakeFree, At, Goto, Procs,
    timeoutVars
<1>1. TypeOK' BY DEF TypeOK, TimeoutsType, Times, Infinite, Pcs, Preemptible, Waiting
<1>2. OneToken' BY DEF TypeOK, OneToken, HasToken, Waiting
<1>3. QueueWaits' BY DEF TypeOK, QueueWaits, Waiting
<1>4. NextWaits' BY DEF TypeOK, NextWaits, Waiting
<1>5. SleepersWait' BY DEF TypeOK, SleepersWait, Cleared
<1>6. PlacesExist' BY DEF TypeOK, PlacesExist
<1>7. OwnerWhenResumed' BY DEF OwnerWhenResumed
<1> QED BY <1>1, <1>2, <1>3, <1>4, <1>5, <1>6, <1>7

\* Enqueue keeps the invariant.
LEMMA EnqueueInv ==
  ASSUME IInv, NEW p \in Procs, Enqueue(p)
  PROVE  IInv'
<1> USE NoncriticalLockAssumption, TimeoutsAssumption DEF IInv, Enqueue, At, Goto, Procs,
    timeoutVars, FreshOwner
<1>1. TypeOK'
  <2>1. queue' \in Seq(Procs) BY DEF TypeOK
  <2>2. pc' \in [Procs -> Pcs] BY DEF TypeOK, Pcs, Preemptible, Waiting
  <2>3. \A q \in Procs : queueLock' = q <=> pc'[q] \in {"seize", "set", "unlock", "release"}
    BY DEF TypeOK
  <2> QED BY <2>1, <2>2, <2>3 DEF TypeOK, TimeoutsType, Times, Infinite
<1>2. OneToken' BY DEF TypeOK, OneToken, HasToken, Waiting
<1>3. QueueWaits'
  <2>1. /\ pc[p] = "seize" /\ queue \in Seq(Procs) /\ queue' = Append(queue, p) /\ held'
        /\ owner' = owner \ {p} /\ pc' = [pc EXCEPT ![p] = pc'[p]] /\ pc'[p] \in Waiting
    BY DEF TypeOK, Waiting
  <2>2. \A i \in 1..Len(queue) : queue[i] # p BY <2>1 DEF QueueWaits, Waiting
  <2>3. /\ Len(queue') = Len(queue) + 1 /\ queue'[Len(queue) + 1] = p /\ Len(queue) \in Nat
        /\ \A i \in 1..Len(queue) : queue'[i] = queue[i]
    BY <2>1
  <2>4. \A i \in 1..Len(queue') : pc'[queue'[i]] \in Waiting /\ queue'[i] \notin owner'
    BY <2>1, <2>2, <2>3 DEF QueueWaits, TypeOK
  <2>5. \A i, j \in 1..Len(queue') : queue'[i] = queue'[j] => i = j
    BY <2>2, <2>3 DEF QueueWaits
  <2>6. \A q \in Procs : pc'[q] \in {"set", "unlock"} => \E i \in 1..Len(queue') : queue'[i] = q
    <3> SUFFICES ASSUME NEW q \in Procs, pc'[q] \in {"set", "unlock"}
                 PROVE  \E i \in 1..Len(queue') : queue'[i] = q
      OBVIOUS
    <3>1. CASE q = p BY <2>3, <3>1
    <3>2. CASE q # p
      <4>1. pc[q] = pc'[q] BY <2>1, <3>2 DEF TypeOK
      <4>2. PICK i \in 1..Len(queue) : queue[i] = q BY <4>1 DEF QueueWaits
      <4> QED BY <2>3, <4>2
    <3> QED BY <3>1, <3>2
  <2> QED BY <2>1, <2>4, <2>5, <2>6 DEF QueueWaits
<1>4. NextWaits'
  <2>1. \A q \in Procs : pc'[q] \in {"grant", "clear"} => pc[q] = pc'[q] /\ q # p
    BY DEF TypeOK
  <2>2. \A q \in Procs : pc'[q] \in {"grant", "clear"} =>
          next[q] \in Procs /\ next[q] # p /\ pc'[next[q]] = pc[next[q]]
    BY <2>1 DEF TypeOK, NextWaits, Waiting
  <2>3. \A q \in Procs : pc'[q] = "grant" =>
          /\ next'[q] \in Procs /\ pc'[next'[q]] \in Waiting /\ next'[q] \notin owner'
          /\ \A i \in 1..Len(queue') : queue'[i] # next'[q]
    BY <2>1, <2>2 DEF TypeOK, NextWaits
  <2>4. \A q \in Procs : pc'[q] = "clear" =>
          next'[q] \in Threads /\ pc'[next'[q]] \in {"yield", "asleep"} /\ next'[q] \in owner'
    BY <2>1, <2>2 DEF TypeOK, NextWaits
  <2> QED BY <2>1, <2>3, <2>4 DEF NextWaits
<1>5. SleepersWait' BY DEF TypeOK, SleepersWait, Cleared
<1>6. PlacesExist' BY DEF TypeOK, PlacesExist
<1>7. OwnerWhenResumed' BY DEF OwnerWhenResumed
<1> QED BY <1>1, <1>2, <1>3, <1>4, <1>5, <1>6, <1>7

\* SetDeadline keeps the invariant.
LEMMA SetDeadlineInv ==
  ASSUME IInv, NEW p \in Procs, SetDeadline(p)
  PROVE  IInv'
<1> USE NoncriticalLockAssumption, TimeoutsAssumption DEF IInv, SetDeadline, At, Goto,
    Procs, timeoutVars, SetTimeout, WaitTime
<1>1. TypeOK' BY DEF TypeOK, TimeoutsType, Times, Infinite, Pcs, Preemptible, Waiting
<1>2. OneToken' BY DEF TypeOK, OneToken, HasToken, Waiting
<1>3. QueueWaits' BY DEF TypeOK, QueueWaits, Waiting
<1>4. NextWaits' BY DEF TypeOK, NextWaits, Waiting
<1>5. SleepersWait' BY DEF TypeOK, TimeoutsType, Infinite, QueueWaits, NextWaits,
    SleepersWait, Cleared, PlacesExist
<1>6. PlacesExist' BY DEF TypeOK, PlacesExist
<1>7. OwnerWhenResumed' BY DEF OwnerWhenResumed
<1> QED BY <1>1, <1>2, <1>3, <1>4, <1>5, <1>6, <1>7

\* Unlock keeps the invariant.
LEMMA UnlockInv ==
  ASSUME IInv, NEW p \in Procs, Unlock(p)
  PROVE  IInv'
<1> USE NoncriticalLockAssumption, TimeoutsAssumption DEF IInv, Unlock, At, Goto, Procs,
    timeoutVars
<1>1. TypeOK' BY DEF TypeOK, TimeoutsType, Times, Infinite, Pcs, Preemptible, Waiting
<1>2. OneToken' BY DEF TypeOK, OneToken, HasToken, Waiting
<1>3. QueueWaits' BY DEF TypeOK, QueueWaits, Waiting
<1>4. NextWaits' BY DEF TypeOK, NextWaits, Waiting
<1>5. SleepersWait' BY DEF TypeOK, SleepersWait, Cleared
<1>6. PlacesExist' BY DEF TypeOK, PlacesExist
<1>7. OwnerWhenResumed' BY DEF OwnerWhenResumed
<1> QED BY <1>1, <1>2, <1>3, <1>4, <1>5, <1>6, <1>7

\* Yield keeps the invariant.
LEMMA YieldInv ==
  ASSUME IInv, NEW p \in Procs, Yield(p)
  PROVE  IInv'
<1> USE NoncriticalLockAssumption, TimeoutsAssumption DEF IInv, Yield, At, Goto, Procs,
    timeoutVars, Suspend
<1>1. TypeOK' BY DEF TypeOK, TimeoutsType, Times, Infinite, Pcs, Preemptible, Waiting
<1>2. OneToken' BY DEF TypeOK, OneToken, HasToken, Waiting
<1>3. QueueWaits' BY DEF TypeOK, QueueWaits, Waiting
<1>4. NextWaits' BY DEF TypeOK, NextWaits, Waiting
<1>5. SleepersWait' BY DEF TypeOK, SleepersWait, Cleared
<1>6. PlacesExist' BY DEF TypeOK, PlacesExist
<1>7. OwnerWhenResumed' BY DEF OwnerWhenResumed
<1> QED BY <1>1, <1>2, <1>3, <1>4, <1>5, <1>6, <1>7

\* Resumed keeps the invariant.
LEMMA ResumedInv ==
  ASSUME IInv, NEW p \in Procs, Resumed(p)
  PROVE  IInv'
<1> USE NoncriticalLockAssumption, TimeoutsAssumption DEF IInv, Resumed, At, Goto, Procs,
    timeoutVars
<1>1. TypeOK' BY DEF TypeOK, TimeoutsType, Times, Infinite, Pcs, Preemptible, Waiting
<1>2. OneToken' BY DEF TypeOK, OneToken, HasToken, SleepersWait, Cleared, PlacesExist,
    Waiting
<1>3. QueueWaits' BY DEF TypeOK, QueueWaits, SleepersWait, Cleared, PlacesExist, Waiting
<1>4. NextWaits' BY DEF TypeOK, NextWaits, SleepersWait, Cleared, PlacesExist, Waiting
<1>5. SleepersWait' BY DEF TypeOK, SleepersWait, Cleared
<1>6. PlacesExist' BY DEF TypeOK, PlacesExist
<1>7. OwnerWhenResumed' BY DEF SleepersWait, Cleared, PlacesExist, OwnerWhenResumed
<1> QED BY <1>1, <1>2, <1>3, <1>4, <1>5, <1>6, <1>7

\* Polled keeps the invariant.
LEMMA PolledInv ==
  ASSUME IInv, NEW p \in Procs, Polled(p)
  PROVE  IInv'
<1> USE NoncriticalLockAssumption, TimeoutsAssumption DEF IInv, Polled, At, Goto, Procs,
    timeoutVars
<1>1. TypeOK' BY DEF TypeOK, TimeoutsType, Times, Infinite, Pcs, Preemptible, Waiting
<1>2. OneToken' BY DEF TypeOK, OneToken, HasToken, Waiting
<1>3. QueueWaits' BY DEF TypeOK, QueueWaits, Waiting
<1>4. NextWaits' BY DEF TypeOK, NextWaits, Waiting
<1>5. SleepersWait' BY DEF TypeOK, SleepersWait, Cleared
<1>6. PlacesExist' BY DEF TypeOK, PlacesExist
<1>7. OwnerWhenResumed' BY DEF OwnerWhenResumed
<1> QED BY <1>1, <1>2, <1>3, <1>4, <1>5, <1>6, <1>7

\* SetFree keeps the invariant.
LEMMA SetFreeInv ==
  ASSUME IInv, NEW p \in Procs, SetFree(p)
  PROVE  IInv'
<1> USE NoncriticalLockAssumption, TimeoutsAssumption DEF IInv, SetFree, At, Goto, Procs,
    timeoutVars
<1>1. TypeOK'
  <2>1. pc' \in [Procs -> Pcs] BY DEF TypeOK, Pcs, Preemptible
  <2>2. \A q \in Procs : queueLock' = q <=> pc'[q] \in {"seize", "set", "unlock", "release"}
    BY DEF TypeOK
  <2> QED BY <2>1, <2>2 DEF TypeOK, TimeoutsType, Times, Infinite
<1>2. OneToken' BY DEF TypeOK, OneToken, HasToken, Waiting
<1>3. QueueWaits' BY DEF TypeOK, QueueWaits, Waiting
<1>4. NextWaits' BY DEF TypeOK, NextWaits, Waiting
<1>5. SleepersWait' BY DEF TypeOK, SleepersWait, Cleared
<1>6. PlacesExist' BY DEF TypeOK, PlacesExist
<1>7. OwnerWhenResumed' BY DEF OwnerWhenResumed
<1> QED BY <1>1, <1>2, <1>3, <1>4, <1>5, <1>6, <1>7

\* ShiftQueue keeps the invariant.
LEMMA ShiftQueueInv ==
  ASSUME IInv, NEW p \in Procs, ShiftQueue(p)
  PROVE  IInv'
<1> USE NoncriticalLockAssumption, TimeoutsAssumption DEF IInv, ShiftQueue, At, Goto, Procs,
    timeoutVars, Shift
<1>1. TypeOK'
  <2>1. queue' \in Seq(Procs) /\ Head(queue) \in Procs BY DEF TypeOK
  <2>2. pc' \in [Procs -> Pcs] BY DEF TypeOK, Pcs, Preemptible, Waiting
  <2>3. \A q \in Procs : queueLock' = q <=> pc'[q] \in {"seize", "set", "unlock", "release"}
    BY DEF TypeOK
  <2> QED BY <2>1, <2>2, <2>3 DEF TypeOK, TimeoutsType, Times, Infinite
<1>2. OneToken' BY DEF TypeOK, OneToken, HasToken, Waiting
<1>3. QueueWaits' BY DEF TypeOK, QueueWaits, Waiting
<1>4. NextWaits' BY DEF TypeOK, OneToken, HasToken, QueueWaits, NextWaits, Waiting
<1>5. SleepersWait' BY DEF TypeOK, SleepersWait, Cleared
<1>6. PlacesExist' BY DEF TypeOK, PlacesExist
<1>7. OwnerWhenResumed' BY DEF OwnerWhenResumed
<1> QED BY <1>1, <1>2, <1>3, <1>4, <1>5, <1>6, <1>7

\* Grant keeps the invariant.
LEMMA GrantInv ==
  ASSUME IInv, NEW p \in Procs, Grant(p)
  PROVE  IInv'
<1> USE NoncriticalLockAssumption, TimeoutsAssumption DEF IInv, Grant, At, Goto, Procs,
    timeoutVars, IsThread
<1>1. TypeOK' BY DEF TypeOK, TimeoutsType, Times, Infinite, Pcs, Preemptible, NextWaits,
    Waiting
<1>2. OneToken' BY DEF TypeOK, OneToken, HasToken, NextWaits, Waiting
<1>3. QueueWaits' BY DEF TypeOK, QueueWaits, NextWaits, Waiting
<1>4. NextWaits'
  <2>1. next[p] \in Procs /\ pc[next[p]] \in Waiting /\ next[p] \notin owner /\ next[p] # p
    BY DEF NextWaits, Waiting
  <2>2. \A q \in Procs : pc'[q] # "grant"
    BY DEF TypeOK, OneToken, HasToken
  <2>3. next[p] \in Threads => pc[next[p]] \in {"yield", "asleep"}
    BY <2>1 DEF NextWaits, QueueWaits, PlacesExist, Waiting
  <2>4. \A q \in Procs \ {p} : pc'[q] = "clear" =>
          /\ pc[q] = "clear" /\ next[q] # next[p]
          /\ next[q] \in Threads /\ pc'[next[q]] \in {"yield", "asleep"} /\ next[q] \in owner'
    BY <2>1 DEF TypeOK, NextWaits
  <2>5. pc'[p] = "clear" =>
          next[p] \in Threads /\ pc'[next[p]] \in {"yield", "asleep"} /\ next[p] \in owner'
    BY <2>1, <2>3 DEF TypeOK
  <2>6. \A q, r \in Procs : pc'[q] = "clear" /\ pc'[r] = "clear" /\ next[q] = next[r] => q = r
    BY <2>4 DEF NextWaits
  <2> QED BY <2>2, <2>4, <2>5, <2>6 DEF NextWaits
<1>5. SleepersWait' BY DEF TypeOK, NextWaits, SleepersWait, Cleared
<1>6. PlacesExist' BY DEF TypeOK, PlacesExist
<1>7. OwnerWhenResumed' BY DEF OwnerWhenResumed
<1> QED BY <1>1, <1>2, <1>3, <1>4, <1>5, <1>6, <1>7

\* Clear keeps the invariant.
LEMMA ClearInv ==
  ASSUME IInv, NEW p \in Procs, Clear(p)
  PROVE  IInv'
<1> USE NoncriticalLockAssumption, TimeoutsAssumption DEF IInv, Clear, At, Goto, Procs,
    timeoutVars, ClearTimeout
<1>1. TypeOK' BY DEF TypeOK, TimeoutsType, Times, Infinite, Pcs, Preemptible, Waiting
<1>2. OneToken' BY DEF TypeOK, OneToken, HasToken, Waiting
<1>3. QueueWaits' BY DEF TypeOK, QueueWaits, Waiting
<1>4. NextWaits' BY DEF TypeOK, NextWaits, Waiting
<1>5. SleepersWait' BY DEF TypeOK, TimeoutsType, NextWaits, SleepersWait, Cleared
<1>6. PlacesExist' BY DEF TypeOK, PlacesExist
<1>7. OwnerWhenResumed' BY DEF OwnerWhenResumed
<1> QED BY <1>1, <1>2, <1>3, <1>4, <1>5, <1>6, <1>7

-----------------------------------------------------------------------------
(* The scheduler's steps.                                                  *)

\* A thread is resumed when its deadline has passed, so not while it waits.
LEMMA ScheduleInv ==
  ASSUME IInv, NEW th \in Threads, Schedule(th)
  PROVE  IInv'
<1> USE TimeoutsAssumption DEF IInv, Schedule, Resume, lockVars
<1>1. TypeOK' BY DEF TypeOK, TimeoutsType
<1>2. OneToken' /\ QueueWaits' /\ NextWaits'
  BY DEF OneToken, HasToken, QueueWaits, NextWaits
<1>3. SleepersWait'
  <2>1. deadline[th] # Infinite BY DEF TypeOK, TimeoutsType, Times, Infinite
  <2> QED BY <2>1 DEF SleepersWait, Cleared
<1>4. PlacesExist' /\ OwnerWhenResumed' BY DEF PlacesExist, OwnerWhenResumed
<1> QED BY <1>1, <1>2, <1>3, <1>4

\* The timer keeps it: it suspends no thread that is setting its timeout.
LEMMA PreemptInv ==
  ASSUME IInv, NEW th \in Threads, Preempt(th)
  PROVE  IInv'
<1> USE DEF IInv, Preempt, Suspend, lockVars
<1>1. TypeOK' BY DEF TypeOK, TimeoutsType
<1>2. OneToken' /\ QueueWaits' /\ NextWaits'
  BY DEF OneToken, HasToken, QueueWaits, NextWaits
<1>3. SleepersWait' BY DEF SleepersWait, Cleared
<1>4. PlacesExist' /\ OwnerWhenResumed' BY DEF PlacesExist, OwnerWhenResumed
<1> QED BY <1>1, <1>2, <1>3, <1>4

\* A step that changes nothing keeps it too.
LEMMA StutterInv ==
  ASSUME IInv, UNCHANGED vars
  PROVE  IInv'
BY DEF IInv, vars, lockVars, timeoutVars, TypeOK, TimeoutsType, OneToken, HasToken, QueueWaits,
       NextWaits, SleepersWait, Cleared, PlacesExist, OwnerWhenResumed

\* The invariant holds in every reachable state.
LEMMA Inductive == Spec => []IInv
<1>1. IInv /\ [Next]_vars => IInv'
  <2> SUFFICES ASSUME IInv, [Next]_vars PROVE IInv' OBVIOUS
  <2>1. ASSUME NEW p \in Procs, SeizeQueueLock(p) \/ Inside(p) PROVE IInv'
    BY <2>1, SeizeQueueLockInv, TakeFreeInv, EnqueueInv, SetDeadlineInv, UnlockInv, YieldInv,
       ResumedInv, PolledInv, SetFreeInv, ShiftQueueInv, GrantInv, ClearInv DEF Inside
  <2> QED BY <2>1, ScheduleInv, PreemptInv, StutterInv DEF Next
<1> QED BY InitInv, <1>1, PTL DEF Spec

-----------------------------------------------------------------------------

\* Those who hold the lock in the sense of MutualExclusion have the token.
LEMMA TokenExcludes == IInv => MutualExclusion
<1> SUFFICES ASSUME IInv PROVE MutualExclusion OBVIOUS
<1> USE DEF IInv, OneToken, HasToken, Holders, Waiting
<1>1. ASSUME NEW p \in Holders, NEW q \in Holders PROVE p = q
  BY <1>1 DEF TypeOK
<1>2. held <=> Holders # {}
  BY DEF NextWaits
<1> QED BY <1>1, <1>2 DEF MutualExclusion

\* The variables of the lock keep their types, and the spin lock around the queue
\* is held by exactly the process that is between its Seize and its Release.
THEOREM TypeCorrect == Spec => []TypeOK
<1>1. IInv => TypeOK BY DEF IInv
<1> QED BY Inductive, <1>1, PTL

\* NoncriticalLock::Seize and Release exclude one another: one process has the
\* lock or has been chosen to have it, and held says whether there is one.
THEOREM Exclusion == Spec => []MutualExclusion
BY Inductive, TokenExcludes, PTL

\* NoncriticalLock::Release touches the WaitingThread of a process only while that
\* process is inside Seize, whose stack it is on.
THEOREM FrameLive == Spec => []FrameIsLive
<1>1. IInv => FrameIsLive BY DEF IInv, NextWaits, FrameIsLive, Waiting
<1> QED BY Inductive, <1>1, PTL

\* A thread that is not the collector's returns from its sleep in Seize only when
\* it owns the lock: the assertion there does not fail.
THEOREM AssertionHolds == Spec => []OwnerWhenResumed
<1>1. IInv => OwnerWhenResumed BY DEF IInv
<1> QED BY Inductive, <1>1, PTL

-----------------------------------------------------------------------------
(* The lock implements FifoLock.                                           *)

\* The line, by who has the lock.
LineFits ==
  /\ Holders = {} => Line = <<>>
  /\ \A p \in Holders : Line = <<p>> \o queue

\* The token, and the queue behind it, make up the line.
LEMMA LineOfHolder == IInv => LineFits
<1> SUFFICES ASSUME IInv PROVE LineFits OBVIOUS
<1>1. ASSUME NEW p \in Holders PROVE Line = <<p>> \o queue
  <2>1. p \in Procs BY DEF Holders
  <2>2. MutualExclusion BY TokenExcludes
  <2>3. (CHOOSE q \in Procs : q \in Holders) = p BY <2>1, <2>2 DEF MutualExclusion
  <2> QED BY <2>3 DEF Line
<1> QED BY <1>1 DEF LineFits, Line

\* A step that moves neither the token nor the queue leaves the line as it is.
LEMMA LineStays ==
  ASSUME Holders' = Holders, queue' = queue
  PROVE  Line' = Line
BY DEF Line

\* The holder stays the same in every step but these four.
LEMMA QuietStep ==
  ASSUME IInv, NEW p \in Procs,
         \/ SeizeQueueLock(p) \/ SetDeadline(p) \/ Unlock(p) \/ Yield(p) \/ Resumed(p)
         \/ Polled(p) \/ Grant(p) \/ Clear(p)
  PROVE  Line' = Line
<1> USE DEF IInv, At, Goto, Holders, Waiting, Procs
<1>1. CASE SeizeQueueLock(p)
  BY <1>1, LineStays DEF SeizeQueueLock, TypeOK
<1>2. CASE SetDeadline(p) \/ Unlock(p) \/ Yield(p)
  BY <1>2, LineStays DEF SetDeadline, Unlock, Yield, TypeOK
<1>3. CASE Resumed(p) \/ Polled(p)
  <2>1. p \in owner BY <1>3 DEF Resumed, Polled, SleepersWait, Cleared, PlacesExist
  <2> QED BY <1>3, <2>1, LineStays DEF Resumed, Polled, TypeOK
<1>4. CASE Grant(p)
  <2>1. next[p] \in Procs /\ pc[next[p]] \in Waiting /\ next[p] # p
    BY <1>4 DEF Grant, NextWaits
  <2> QED BY <1>4, <2>1, LineStays DEF Grant, TypeOK, OneToken, HasToken
<1>5. CASE Clear(p)
  BY <1>5, LineStays DEF Clear, TypeOK
<1> QED BY <1>1, <1>2, <1>3, <1>4, <1>5

\* What Head, Tail and Append do to a line.
LEMMA SequenceFacts ==
  ASSUME NEW s \in Seq(Procs), NEW p \in Procs, NEW q \in Procs
  PROVE  /\ <<q>> \o <<>> = <<q>>
         /\ Append(<<q>> \o s, p) = <<q>> \o Append(s, p)
         /\ <<q>> \o s # <<>> /\ Tail(<<q>> \o s) = s
         /\ s # <<>> => <<Head(s)>> \o Tail(s) = s
<1>1. <<q>> \o <<>> = <<q>> OBVIOUS
<1>2. Append(<<q>> \o s, p) = <<q>> \o Append(s, p) OBVIOUS
<1>3. <<q>> \o s # <<>> /\ Tail(<<q>> \o s) = s OBVIOUS
<1>4. s # <<>> => <<Head(s)>> \o Tail(s) = s OBVIOUS
<1> QED BY <1>1, <1>2, <1>3, <1>4

-----------------------------------------------------------------------------
(* The four steps that change the line.                                    *)

\* Taking a free lock is an arrival at an empty line.
LEMMA TakeFreeArrives ==
  ASSUME IInv, NEW p \in Procs, TakeFree(p), LineFits, LineFits'
  PROVE  Line = <<>> /\ Line' = <<p>>
<1> USE DEF IInv
<1>1. Holders = {}
  BY DEF TakeFree, Holders, OneToken, HasToken
<1>2. p \in Holders' /\ queue' = <<>>
  BY DEF TakeFree, Holders, Goto, TypeOK, QueueWaits
<1>3. queue \in Seq(Procs) BY DEF TypeOK
<1> QED BY <1>1, <1>2, <1>3, SequenceFacts DEF LineFits

\* So is getting into the queue, at the end of it.
LEMMA EnqueueArrives ==
  ASSUME IInv, NEW p \in Procs, Enqueue(p), LineFits, LineFits'
  PROVE  Line' = Append(Line, p) /\ \A i \in DOMAIN Line : Line[i] # p
<1> USE DEF IInv
<1>1. PICK q \in Procs : q \in Holders
  BY DEF Enqueue, Holders, OneToken, HasToken, NextWaits
<1>2. p # q /\ q \in Holders'
  <2>1. \A r \in Procs \ {p} : pc'[r] = pc[r] /\ (r \in owner <=> r \in owner')
    BY DEF Enqueue, Goto, TypeOK, FreshOwner
  <2>2. p # q BY <1>1 DEF Enqueue, At, Holders, NextWaits, Waiting
  <2>3. next' = next /\ pc[p] = "seize" BY DEF Enqueue, At
  <2>4. CASE pc[q] \in {"in", "release"} \/ (pc[q] \in Waiting /\ q \in owner)
    BY <2>1, <2>2, <2>4 DEF Holders
  <2>5. CASE \E r \in Procs : pc[r] = "grant" /\ next[r] = q
    <3>1. PICK r \in Procs : pc[r] = "grant" /\ next[r] = q BY <2>5
    <3>2. pc'[r] = "grant" /\ next'[r] = q BY <2>1, <2>3, <3>1
    <3> QED BY <2>2, <3>2 DEF Holders
  <2> QED BY <1>1, <2>4, <2>5 DEF Holders
<1>3. queue \in Seq(Procs) /\ queue' = Append(queue, p) BY DEF TypeOK, Enqueue
<1>4. Line = <<q>> \o queue /\ Line' = <<q>> \o Append(queue, p)
  BY <1>1, <1>2, <1>3 DEF LineFits
<1>5. \A i \in 1..Len(queue) : queue[i] # p
  BY DEF Enqueue, At, QueueWaits, Waiting
<1>6. \A i \in DOMAIN (<<q>> \o queue) : (<<q>> \o queue)[i] # p
  BY <1>2, <1>3, <1>5
<1> QED BY <1>3, <1>4, <1>6, SequenceFacts

\* Setting the lock free is the departure of the last of the line.
LEMMA SetFreeLeaves ==
  ASSUME IInv, NEW p \in Procs, SetFree(p), LineFits, LineFits', IInv'
  PROVE  Line = <<p>> /\ Line' = <<>>
<1> USE DEF IInv
<1>1. p \in Holders /\ queue = <<>> BY DEF SetFree, At, Holders
<1>2. Holders' = {}
  BY DEF SetFree, Holders, OneToken, HasToken
<1>3. queue \in Seq(Procs) BY DEF TypeOK
<1> QED BY <1>1, <1>2, <1>3, SequenceFacts DEF LineFits

\* And choosing the next holder that of the first.
LEMMA ShiftQueueLeaves ==
  ASSUME IInv, NEW p \in Procs, ShiftQueue(p), LineFits, LineFits'
  PROVE  Line = <<p>> \o queue /\ Line' = queue
<1> USE DEF IInv
<1>1. p \in Holders BY DEF ShiftQueue, At, Holders
<1>2. queue \in Seq(Procs) /\ queue # <<>> /\ queue' = Tail(queue) /\ Head(queue) \in Procs
  BY DEF TypeOK, ShiftQueue, Shift
<1>3. Head(queue) \in Holders'
  BY <1>2 DEF ShiftQueue, Shift, Goto, Holders, TypeOK
<1> QED BY <1>1, <1>2, <1>3, SequenceFacts DEF LineFits

\* What the lock does to its line is what FifoLock allows: who wants the lock joins
\* at the end, and only the first leaves.  NoncriticalLock.Release therefore hands
\* the lock over in the order of arrival.
THEOREM ImplementsFifoLock == Spec => KeepsPromise
<1>1. Init => Line = <<>>
  BY DEF Init, Line, Holders, Waiting
<1>2. IInv /\ IInv' /\ LineFits /\ LineFits' /\ [Next]_vars => [Promise!Next]_Line
  <2> SUFFICES ASSUME IInv, IInv', LineFits, LineFits', [Next]_vars
               PROVE  [Promise!Next]_Line
    OBVIOUS
  <2> USE DEF Promise!Next, Promise!Leave, Promise!Arrive, Promise!Range
  <2>1. ASSUME NEW p \in Procs, TakeFree(p) PROVE Promise!Arrive(p)
    <3>1. Line = <<>> /\ Line' = <<p>> BY <2>1, TakeFreeArrives
    <3> QED BY <3>1
  <2>2. ASSUME NEW p \in Procs, Enqueue(p) PROVE Promise!Arrive(p)
    <3>1. Line' = Append(Line, p) /\ \A i \in DOMAIN Line : Line[i] # p
      BY <2>2, EnqueueArrives
    <3> QED BY <3>1
  <2>3. ASSUME NEW p \in Procs, SetFree(p) PROVE Promise!Leave
    <3>1. Line = <<p>> /\ Line' = <<>> BY <2>3, SetFreeLeaves
    <3> QED BY <3>1
  <2>4. ASSUME NEW p \in Procs, ShiftQueue(p) PROVE Promise!Leave
    <3>1. Line = <<p>> \o queue /\ Line' = queue /\ queue \in Seq(Procs)
      BY <2>4, ShiftQueueLeaves DEF IInv, TypeOK
    <3> QED BY <3>1, SequenceFacts
  <2>5. ASSUME NEW th \in Threads, Schedule(th) \/ Preempt(th) PROVE Line' = Line
    BY <2>5, LineStays DEF Schedule, Preempt, lockVars, Holders
  <2>6. CASE UNCHANGED vars
    BY <2>6, LineStays DEF vars, lockVars, Holders
  <2>7. ASSUME NEW p \in Procs, SeizeQueueLock(p) \/ Inside(p) PROVE [Promise!Next]_Line
    BY <2>1, <2>2, <2>3, <2>4, <2>7, QuietStep DEF Inside
  <2> QED BY <2>5, <2>6, <2>7 DEF Next
<1> QED BY <1>1, <1>2, Inductive, LineOfHolder, PTL DEF Spec, KeepsPromise, Promise!Spec, Promise!Init

=============================================================================
