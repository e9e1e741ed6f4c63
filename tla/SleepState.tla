----------------------------- MODULE SleepState -----------------------------
(***************************************************************************)
(* SleepState: how a user thread sleeps, for a time or until it is woken,  *)
(* and how WakeupSyscall wakes it.  It runs on the scheduler that          *)
(* Timeouts.tla describes.  The thread's state lock is held over the steps *)
(* that decide to sleep and set the timeout, and given up by the scheduler *)
(* (SetTimeout with a lock) before the thread yields.                      *)
(***************************************************************************)
EXTENDS Timeouts

VARIABLES
  lock,       \* the threads whose SleepState::lock is held by themselves
  sleeping,   \* the threads whose sleeping flag is set
  cancelled,  \* the threads whose cancelled flag is set
  pc,         \* where each thread is in SleepState::Sleep
  until       \* what the thread sleeps for, then the deadline of its sleep

sleepVars == <<lock, sleeping, cancelled, pc, until>>
vars == <<timeoutVars, sleepVars>>

\* Sleep(0), Sleep(nanos) with a deadline yet to be computed, SleepInfinite.
Kinds == {"zero", "timed", "infinite"}

Init ==
  /\ TimeoutsInit
  /\ lock = {} /\ sleeping = {} /\ cancelled = {}
  /\ pc = [th \in Threads |-> "user"] /\ until = [th \in Threads |-> 0]

At(th, l) == th \in running /\ pc[th] = l
Goto(th, l) == pc' = [pc EXCEPT ![th] = l]

Unguarded(th) == TRUE                              \* mutant of LockFree
LockFree(th) == th \notin lock

EnterSleep(th, kind) ==
  /\ At(th, "user") /\ LockFree(th)
  /\ lock' = lock \cup {th}
  /\ until' = [until EXCEPT ![th] = CASE kind = "zero" -> 0
                                      [] kind = "timed" -> 1
                                      [] kind = "infinite" -> Infinite]
  /\ Goto(th, "decide")
  /\ UNCHANGED <<timeoutVars, sleeping, cancelled>>

ClearCancelled(th) == cancelled' = cancelled \ {th}

\* It was woken before it slept, or asked for no time at all.
ForgetsWakeup(th) == until[th] = 0                 \* mutant of MustSkip
MustSkip(th) == th \in cancelled \/ until[th] = 0

SkipSleep(th) ==
  /\ At(th, "decide") /\ MustSkip(th)
  /\ ClearCancelled(th)
  /\ lock' = lock \ {th}
  /\ Goto(th, "user")
  /\ UNCHANGED <<timeoutVars, sleeping, until>>

DecideToSleep(th) ==
  /\ At(th, "decide") /\ ~MustSkip(th)
  /\ sleeping' = sleeping \cup {th}
  /\ Goto(th, "set")
  /\ UNCHANGED <<timeoutVars, lock, cancelled, until>>

\* Any time from the present on: a sleep shorter than a microsecond is already over.
NanosFromNow == clock..MaxTime

SetDeadline(th) ==
  /\ At(th, "set")
  /\ \E d \in IF until[th] = Infinite THEN {Infinite} ELSE NanosFromNow :
       SetTimeout(th, d) /\ until' = [until EXCEPT ![th] = d]
  /\ Goto(th, "unlock")
  /\ UNCHANGED <<lock, sleeping, cancelled>>

Unlock(th) ==
  /\ At(th, "unlock")
  /\ lock' = lock \ {th}
  /\ Goto(th, "yield")
  /\ UNCHANGED <<timeoutVars, sleeping, cancelled, until>>

Yield(th) ==
  /\ At(th, "yield")
  /\ Suspend(th)
  /\ Goto(th, "asleep")
  /\ UNCHANGED <<lock, sleeping, cancelled, until>>

\* The rest of Sleep, under the lock again.
WakeUp(th) ==
  /\ At(th, "asleep") /\ LockFree(th)
  /\ sleeping' = sleeping \ {th}
  /\ ClearCancelled(th)
  /\ Goto(th, "user")
  /\ UNCHANGED <<timeoutVars, lock, until>>

IsAwake(th) == th \notin sleeping

\* Thread w wakes thread th: SleepState::Cancel.
Cancel(w, th) ==
  /\ At(w, "user") /\ LockFree(th)
  /\ \/ /\ IsAwake(th)
        /\ cancelled' = cancelled \cup {th} /\ UNCHANGED timeoutVars
     \/ /\ ~IsAwake(th)
        /\ ClearTimeout(th) /\ UNCHANGED cancelled
  /\ UNCHANGED <<lock, sleeping, pc, until>>

\* The scheduler.  Sleep is critical: the timer suspends only user code.
Preempt(th) == At(th, "user") /\ Suspend(th) /\ UNCHANGED sleepVars
Schedule(th) == Resume(th) /\ UNCHANGED sleepVars
Time == Tick /\ UNCHANGED sleepVars

InSleep(th) ==
  SkipSleep(th) \/ DecideToSleep(th) \/ SetDeadline(th) \/ Unlock(th) \/ Yield(th)

Next ==
  \/ Time
  \/ \E th \in Threads :
       \/ InSleep(th) \/ WakeUp(th) \/ Preempt(th) \/ Schedule(th)
       \/ \E kind \in Kinds : EnterSleep(th, kind)
       \/ \E w \in Threads : Cancel(w, th)

Spec == Init /\ [][Next]_vars

\* Time passes, kernel code goes on, user code is preempted, and whoever may be
\* resumed is (RRScheduler's BoundedOvertaking).  Nobody has to sleep or to wake anyone.
Fairness ==
  /\ WF_vars(Time)
  /\ \A th \in Threads : /\ WF_vars(InSleep(th)) /\ SF_vars(WakeUp(th))
                         /\ WF_vars(Preempt(th)) /\ SF_vars(Schedule(th))

FairSpec == Spec /\ Fairness

-----------------------------------------------------------------------------

TypeOK ==
  /\ TimeoutsType
  /\ lock \subseteq Threads /\ sleeping \subseteq Threads /\ cancelled \subseteq Threads
  /\ pc \in [Threads -> {"user", "decide", "set", "unlock", "yield", "asleep"}]
  /\ until \in [Threads -> 0..Infinite]

\* The threads that are asleep as far as a caller of Wakeup can tell, and those
\* with a wakeup that has yet to be answered.
Asleep == {th \in Threads : pc[th] \in {"unlock", "yield", "asleep"}}
Token == {th \in Threads : IF th \in Asleep THEN deadline[th] = 0 ELSE th \in cancelled}

\* A wakeup is pending in one place only: the cancelled flag is never set while
\* the thread sleeps, and a thread that has not slept cannot have been woken by
\* its timeout.
OnePlaceForWakeup ==
  /\ sleeping \cap cancelled = {}
  /\ \A th \in Threads : th \in sleeping <=> pc[th] \in {"set", "unlock", "yield", "asleep"}

\* No wakeup is lost: when Cancel returns the thread has its token, however the
\* call fell between the steps of the sleeper.
WakeupRecorded == [][\A w, th \in Threads : Cancel(w, th) => th \in Token']_vars

\* Sleep and Wakeup do what WakeToken.tla promises, the end of a sleep included.
Alarm == [th \in Threads |-> IF th \in Asleep THEN until[th] ELSE 0]
Promise == INSTANCE WakeToken WITH asleep <- Asleep, token <- Token, alarm <- Alarm
KeepsPromise == Promise!Spec
=============================================================================
