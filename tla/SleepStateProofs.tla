--------------------------- MODULE SleepStateProofs ---------------------------
(***************************************************************************)
(* Theorems about SleepState.tla, for every number of threads and CPUs and *)
(* every bound of the clock: no wakeup is lost, and every step is one that *)
(* WakeToken.tla allows.                                                   *)
(***************************************************************************)
EXTENDS SleepState, TLAPS

\* From the decision to sleep until the timeout is set the sleeper has its lock, so
\* that Cancel falls before or after, and never in between.
LockedWhileDeciding == \A th \in Threads : pc[th] \in {"decide", "set", "unlock"} => th \in lock

\* A sleeper's deadline is that of its sleep until somebody clears it, and the
\* scheduler resumes it only when the deadline is over.
DeadlineIsAlarm ==
  \A th \in Threads :
    /\ th \in Asleep => deadline[th] \in {0, until[th]} /\ until[th] # 0
    /\ th \in running /\ pc[th] = "asleep" => deadline[th] <= clock

IInv == TypeOK /\ OnePlaceForWakeup /\ LockedWhileDeciding /\ DeadlineIsAlarm

-----------------------------------------------------------------------------

\* The invariant holds before any thread has slept.
LEMMA InitInv == Init => IInv
BY TimeoutsAssumption DEF Init, TimeoutsInit, IInv, TypeOK, TimeoutsType, Times, Infinite,
   OnePlaceForWakeup, LockedWhileDeciding, DeadlineIsAlarm, Asleep

\* Each step of Sleep, of Cancel and of the scheduler preserves it.
LEMMA InSleepInv ==
  ASSUME IInv, NEW th \in Threads, InSleep(th) \/ WakeUp(th)
  PROVE  IInv'
<1> USE TimeoutsAssumption DEF IInv, At, Goto, timeoutVars
<1>1. CASE SkipSleep(th)
  BY <1>1 DEF SkipSleep, ClearCancelled, TypeOK, TimeoutsType, OnePlaceForWakeup, LockedWhileDeciding, DeadlineIsAlarm, Asleep
<1>2. CASE DecideToSleep(th)
  BY <1>2 DEF DecideToSleep, MustSkip, TypeOK, TimeoutsType, OnePlaceForWakeup, LockedWhileDeciding, DeadlineIsAlarm, Asleep
<1>3. CASE SetDeadline(th)
  <2>1. PICK d : /\ d \in IF until[th] = Infinite THEN {Infinite} ELSE NanosFromNow
                 /\ SetTimeout(th, d) /\ until' = [until EXCEPT ![th] = d]
    BY <1>3, Zenon DEF SetDeadline
  <2>2. d \in 1..Infinite
    BY <2>1 DEF NanosFromNow, TypeOK, TimeoutsType, Times, Infinite
  <2> QED
    BY <1>3, <2>1, <2>2 DEF SetDeadline, SetTimeout, TypeOK, TimeoutsType, Times, Infinite, OnePlaceForWakeup, LockedWhileDeciding, DeadlineIsAlarm, Asleep
<1>4. CASE Unlock(th)
  BY <1>4 DEF Unlock, TypeOK, TimeoutsType, OnePlaceForWakeup, LockedWhileDeciding, DeadlineIsAlarm, Asleep
<1>5. CASE Yield(th)
  BY <1>5 DEF Yield, Suspend, TypeOK, TimeoutsType, OnePlaceForWakeup, LockedWhileDeciding, DeadlineIsAlarm, Asleep
<1>6. CASE WakeUp(th)
  BY <1>6 DEF WakeUp, ClearCancelled, TypeOK, TimeoutsType, OnePlaceForWakeup, LockedWhileDeciding, DeadlineIsAlarm, Asleep
<1> QED BY <1>1, <1>2, <1>3, <1>4, <1>5, <1>6 DEF InSleep

\* A call of Sleep keeps the invariant.
LEMMA EnterSleepInv ==
  ASSUME IInv, NEW th \in Threads, NEW kind \in Kinds, EnterSleep(th, kind)
  PROVE  IInv'
<1>1. until' \in [Threads -> 0..Infinite]
  BY TimeoutsAssumption DEF IInv, EnterSleep, Kinds, TypeOK, Infinite
<1> QED
  BY <1>1 DEF IInv, EnterSleep, At, Goto, timeoutVars, TypeOK, TimeoutsType, OnePlaceForWakeup, LockedWhileDeciding, DeadlineIsAlarm, Asleep

\* So does Cancel, which has the sleeper's lock.
LEMMA CancelInv ==
  ASSUME IInv, NEW w \in Threads, NEW th \in Threads, Cancel(w, th)
  PROVE  IInv'
<1> USE TimeoutsAssumption DEF IInv, Cancel, At, Goto, timeoutVars, IsAwake, LockFree, TypeOK, TimeoutsType, Times, Infinite
<1>1. CASE IsAwake(th)
  BY <1>1 DEF OnePlaceForWakeup, LockedWhileDeciding, DeadlineIsAlarm, Asleep
<1>2. CASE ~IsAwake(th)
  BY <1>2 DEF ClearTimeout, OnePlaceForWakeup, LockedWhileDeciding, DeadlineIsAlarm, Asleep
<1> QED BY <1>1, <1>2

\* And so do the scheduler and the clock.
LEMMA SchedulerInv ==
  ASSUME IInv, Time \/ \E th \in Threads : Preempt(th) \/ Schedule(th)
  PROVE  IInv'
<1> USE TimeoutsAssumption DEF IInv, sleepVars, TypeOK, TimeoutsType, Times, Infinite, OnePlaceForWakeup, LockedWhileDeciding, DeadlineIsAlarm, Asleep
<1>1. CASE Time BY <1>1 DEF Time, Tick
<1>2. ASSUME NEW th \in Threads, Preempt(th) PROVE IInv' BY <1>2 DEF Preempt, At, Suspend
<1>3. ASSUME NEW th \in Threads, Schedule(th) PROVE IInv' BY <1>3 DEF Schedule, Resume
<1> QED BY <1>1, <1>2, <1>3

\* A step that changes nothing keeps the invariant.
LEMMA StutterInv == IInv /\ UNCHANGED vars => IInv'
BY DEF IInv, vars, timeoutVars, sleepVars, TypeOK, TimeoutsType, Times, Infinite, OnePlaceForWakeup, LockedWhileDeciding, DeadlineIsAlarm, Asleep

\* The invariant holds in every reachable state.
LEMMA Inductive == Spec => []IInv
<1>1. IInv /\ [Next]_vars => IInv'
  BY StutterInv, InSleepInv, EnterSleepInv, CancelInv, SchedulerInv DEF Next
<1> QED BY InitInv, <1>1, PTL DEF Spec

-----------------------------------------------------------------------------

\* SleepState's flags keep their types.
THEOREM TypeCorrect == Spec => []TypeOK
<1>1. IInv => TypeOK BY DEF IInv
<1> QED BY Inductive, <1>1, PTL

\* The cancelled flag is set only while the thread does not sleep.
THEOREM OnePlace == Spec => []OnePlaceForWakeup
<1>1. IInv => OnePlaceForWakeup BY DEF IInv
<1> QED BY Inductive, <1>1, PTL

\* When Cancel returns the wakeup is on record, wherever the sleeper is.
LEMMA CancelGivesToken ==
  ASSUME IInv, NEW w \in Threads, NEW th \in Threads, Cancel(w, th)
  PROVE  th \in Token'
<1> USE DEF IInv, Cancel, LockFree, IsAwake, OnePlaceForWakeup, LockedWhileDeciding, Asleep, Token, TypeOK, TimeoutsType
<1>1. CASE th \in sleeping
  <2>1. th \in Asleep BY <1>1
  <2>2. deadline'[th] = 0 BY <1>1 DEF ClearTimeout
  <2> QED BY <2>1, <2>2
<1>2. CASE th \notin sleeping BY <1>2
<1> QED BY <1>1, <1>2

\* WakeupSyscall loses no wakeup.
THEOREM NoWakeupLost == Spec => WakeupRecorded
<1>1. IInv => \A w, th \in Threads : Cancel(w, th) => th \in Token'
  BY CancelGivesToken
<1> QED BY Inductive, <1>1, PTL DEF WakeupRecorded

-----------------------------------------------------------------------------
(* The steps of Sleep, Cancel and the scheduler are steps of WakeToken, or   *)
(* invisible there.                                                          *)

promiseVars == <<clock, Asleep, Alarm, Token>>

\* A sleeper leaves a token behind by nothing but its flags and its deadline.
LEMMA SleeperPromise ==
  ASSUME IInv, NEW th \in Threads, InSleep(th) \/ WakeUp(th)
  PROVE  [Promise!Next]_promiseVars
<1> USE DEF IInv, At, Goto, timeoutVars, TypeOK, TimeoutsType, OnePlaceForWakeup, Asleep, Token, Alarm, promiseVars
<1>1. CASE SkipSleep(th)
  <2>1. Promise!StayAwake(th) BY <1>1 DEF SkipSleep, ClearCancelled, Promise!StayAwake
  <2> QED BY <2>1 DEF Promise!Next
<1>2. CASE DecideToSleep(th)
  <2>1. UNCHANGED promiseVars BY <1>2 DEF DecideToSleep
  <2> QED BY <2>1
<1>3. CASE SetDeadline(th)
  <2>1. PICK d : /\ d \in IF until[th] = Infinite THEN {Infinite} ELSE NanosFromNow
                 /\ SetTimeout(th, d) /\ until' = [until EXCEPT ![th] = d]
    BY <1>3, Zenon DEF SetDeadline
  <2>2. d \in clock..Infinite
    <3>1. clock \in 1..MaxTime BY DEF Times
    <3>2. d = Infinite \/ d \in clock..MaxTime BY <2>1 DEF NanosFromNow
    <3> HIDE DEF IInv, TypeOK, TimeoutsType
    <3> QED BY <3>1, <3>2, TimeoutsAssumption DEF Infinite
  <2>3. Promise!FallAsleep(th, d)
    <3>1. th \notin Asleep \cup Token BY <1>3 DEF SetDeadline
    <3>2. Asleep' = Asleep \cup {th} BY <1>3 DEF SetDeadline
    <3>3. Alarm' = [Alarm EXCEPT ![th] = d] BY <1>3, <2>1 DEF SetDeadline
    <3>4. d # 0 BY <2>2 DEF Times
    <3>5. UNCHANGED <<clock, Token>> BY <1>3, <2>1, <3>1, <3>4 DEF SetDeadline, SetTimeout
    <3> QED BY <3>1, <3>2, <3>3, <3>5 DEF Promise!FallAsleep
  <2> QED BY <2>2, <2>3 DEF Promise!Next
<1>4. CASE Unlock(th)
  <2>1. UNCHANGED promiseVars BY <1>4 DEF Unlock
  <2> QED BY <2>1
<1>5. CASE Yield(th)
  <2>1. UNCHANGED promiseVars BY <1>5 DEF Yield, Suspend
  <2> QED BY <2>1
<1>6. CASE WakeUp(th)
  <2>1. Promise!Return(th) BY <1>6 DEF WakeUp, ClearCancelled, DeadlineIsAlarm, Promise!Return
  <2> QED BY <2>1 DEF Promise!Next
<1> QED BY <1>1, <1>2, <1>3, <1>4, <1>5, <1>6 DEF InSleep

\* Cancel leaves a token; entering Sleep does not show yet.
LEMMA CallerPromise ==
  ASSUME IInv, NEW w \in Threads, NEW th \in Threads,
         Cancel(w, th) \/ \E kind \in Kinds : EnterSleep(th, kind)
  PROVE  [Promise!Next]_promiseVars
<1> USE DEF IInv, At, Goto, timeoutVars, TypeOK, TimeoutsType, OnePlaceForWakeup, Asleep, Token, Alarm, promiseVars
<1>1. CASE Cancel(w, th)
  <2>1. th \in Token' BY <1>1, CancelGivesToken
  <2>2. Promise!Wake(th)
    <3>1. UNCHANGED <<clock, Asleep, Alarm>> BY <1>1 DEF Cancel, ClearTimeout
    <3>2. \A o \in Threads \ {th} : o \in Token' <=> o \in Token
      BY <1>1 DEF Cancel, ClearTimeout
    <3>3. Token' = Token \cup {th}
      BY <2>1, <3>2
    <3> QED BY <3>1, <3>3 DEF Promise!Wake
  <2> QED BY <2>2 DEF Promise!Next
<1>2. CASE \E kind \in Kinds : EnterSleep(th, kind)
  <2>1. UNCHANGED promiseVars BY <1>2 DEF EnterSleep
  <2> QED BY <2>1
<1> QED BY <1>1, <1>2

\* The scheduler and the clock take only steps that WakeToken allows.
LEMMA SchedulerPromise ==
  ASSUME IInv, Time \/ \E th \in Threads : Preempt(th) \/ Schedule(th)
  PROVE  [Promise!Next]_promiseVars
<1> USE DEF sleepVars, Asleep, Token, Alarm, promiseVars
<1>1. CASE Time
  <2>1. Promise!Tick BY <1>1 DEF Time, Tick, Promise!Tick
  <2> QED BY <2>1 DEF Promise!Next
<1>2. CASE \E th \in Threads : Preempt(th) \/ Schedule(th)
  <2>1. UNCHANGED promiseVars BY <1>2 DEF Preempt, Schedule, Suspend, Resume
  <2> QED BY <2>1
<1> QED BY <1>1, <1>2

\* Sleep and Wakeup keep the promise of WakeToken, but for its fairness: a wakeup is
\* recorded once, a sleep ends only by a wakeup or its alarm.
THEOREM ImplementsWakeToken == Spec => Promise!Init /\ [][Promise!Next]_promiseVars
<1>1. Init => Promise!Init
  BY DEF Init, TimeoutsInit, Promise!Init, Asleep, Token, Alarm
<1>2. IInv /\ [Next]_vars => [Promise!Next]_promiseVars
  <2> SUFFICES ASSUME IInv, [Next]_vars PROVE [Promise!Next]_promiseVars OBVIOUS
  <2>1. CASE UNCHANGED vars
    BY <2>1 DEF vars, timeoutVars, sleepVars, Asleep, Token, Alarm, promiseVars
  <2> QED BY <2>1, SleeperPromise, CallerPromise, SchedulerPromise DEF Next
<1> QED BY Inductive, <1>1, <1>2, PTL DEF Spec

=============================================================================
