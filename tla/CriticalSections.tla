--------------------------- MODULE CriticalSections ---------------------------
(***************************************************************************)
(* Criticality and locks: what every system call, page fault, context      *)
(* switch and turn of the collector seizes, and in which critical section. *)
(*                                                                         *)
(* A path through the kernel is a sequence of steps, of which an "either"  *)
(* leaves open how the code goes on.  What a path does to the counters,    *)
(* lists and deadlines is in the other modules; here any branch is taken.  *)
(* A thread that is critical keeps its CPU; any other may lose it.         *)
(***************************************************************************)
EXTENDS Naturals, Sequences, FiniteSets, SequencesExt

CONSTANTS Threads, Cpus, None

ASSUME CriticalSectionsAssumption == Threads \cap Cpus = {} /\ None \notin Threads \cup Cpus

VARIABLES
  kind,     \* "user", or "collector" for the collector's thread
  todo,     \* the rest of the path that each thread, and each CPU in Switch, is on
  crit,     \* which of them are in a critical section
  saved,    \* the criticality that each of their open scopes will restore
  holder,   \* who holds each lock
  on,       \* the thread on each CPU, or None
  running   \* the threads whose ThreadObj::running is set

vars == <<kind, todo, crit, saved, holder, on, running>>

Actors == Threads \cup Cpus

-----------------------------------------------------------------------------
(* Steps and locks.                                                        *)

SetCritical(b) == <<<<"set", b>>>>
AssertCritical == <<<<"assert", TRUE>>>>
AssertNoncritical == <<<<"assert", FALSE>>>>

\* A scope sets the criticality and restores it at its end.
Scope(b, body) == <<<<"scope", b>>>> \o body \o <<<<"leave">>>>
Scoped(body) == Scope(TRUE, body)

Seize(l) == <<<<"seize", l>>>>
Unlock(l) == <<<<"release", l>>>>
Locked(l, body) == Seize(l) \o body \o Unlock(l)

Either(paths) == <<<<"either", paths>>>>
Maybe(path) == Either({<<>>, path})

Scheduler == <<"scheduler", None>>
Objects == <<"objects", None>>
TaskLife == <<"task life", None>>
Life(t) == <<"life", t>>
Sleeping(t) == <<"sleep", t>>
Port(t) == <<"port", t>>
Polling(t) == <<"poll", t>>
ThreadList == <<"thread list", None>>
TaskList == <<"task list", None>>
PortList(t) == <<"port list", t>>
MapLock == <<"executable map", None>>
Queue(l) == <<"queue", l>>

NoncriticalLocks == {ThreadList, TaskList, MapLock} \cup {PortList(t) : t \in Threads}
SpinLocks == {Scheduler, Objects, TaskLife} \cup {Queue(l) : l \in NoncriticalLocks}
               \cup UNION {{Life(t), Sleeping(t), Port(t), Polling(t)} : t \in Threads}
Locks == SpinLocks \cup NoncriticalLocks

-----------------------------------------------------------------------------
(* Tasks, threads and the scheduler's calls.                               *)

ThrowAwayAndLock == Scoped(Locked(Objects, Locked(Scheduler, <<>>)))  \* mutant of ThrowAway
ThrowAway == Scoped(Locked(Objects, <<>>))

TaskRetain == Scoped(Locked(TaskLife, <<>>))
TaskRelease == Scoped(Locked(TaskLife, Maybe(ThrowAway)))
TaskHold == TaskRetain
TaskUnhold == TaskRelease
TaskKill == TaskRetain

Kill(t) == Scoped(Locked(Life(t), <<>>))
Retain(t) == Scoped(Locked(Life(t), Maybe(TaskRetain)))
Release(t) == Scoped(Locked(Life(t), Either({ThrowAway, TaskRelease})))

SchedulerList == Scoped(Locked(Scheduler, <<>>))

Yield == Scoped(<<<<"yield">>>>)
Exit == Scoped(<<<<"exit">>>>)

YieldLocked(l) == Scoped(Yield \o Unlock(l))       \* mutant of SetTimeout
SetTimeout(l) == Scoped(Unlock(l) \o Yield)

\* NoncriticalLock: Seize, what it protects, and Release.
Noncritical(t, l, body) ==
  AssertNoncritical \o Seize(Queue(l))
    \o <<<<"take", l, Unlock(Queue(l)),
           Retain(t) \o SetTimeout(Queue(l)) \o Seize(l) \o Release(t)>>>>
    \o body
    \o AssertNoncritical \o Locked(Queue(l), Unlock(l))

-----------------------------------------------------------------------------
(* System calls and page faults.                                           *)

NoScope(body) == body                              \* mutants of NestedHoldScope
NoDestructor(body) == SetCritical(FALSE) \o body
NestedHoldScope(body) == Scope(FALSE, body)

HoldScope(t, body) ==
  Either({TaskHold \o NestedHoldScope(body) \o TaskUnhold,
          TaskHold \o Kill(t) \o Exit})

ExitThread(t) == SetCritical(TRUE) \o Kill(t) \o TaskUnhold \o Exit
ExitTask(t) == SetCritical(TRUE) \o Kill(t) \o TaskKill \o TaskUnhold \o Exit

\* SwitchToWritable allocates, which is not critical.
HandlePageFault(t) == AssertNoncritical \o Noncritical(t, MapLock, Maybe(AssertNoncritical))

\* A copy from or to the program's memory may fault; the fault is critical at first.
Copy(t) == Maybe(Scoped(NestedHoldScope(HandlePageFault(t))))

\* What the calls do inside their HoldScope.
PrintSyscall(t) == Copy(t)
VMRead(t) == Maybe(Copy(t) \o Copy(t))

Launch(t, u) ==
  TaskRetain \o AssertNoncritical \o Noncritical(t, ThreadList, <<>>)
    \o AssertNoncritical \o SchedulerList \o Release(u)

Wakeup(t, u) ==
  Noncritical(t, ThreadList, Maybe(Retain(u)))
    \o Maybe(Scoped(Locked(Sleeping(u), <<>>)) \o Release(u))

Sever(t) == Locked(Port(t), <<>>)

\* A port that finds no identifier is deleted again; one that is destroyed must be found.
CreatePort(t) ==
  AssertNoncritical \o Noncritical(t, PortList(t), <<>>) \o Maybe(AssertNoncritical)
DestroyPort(t) ==
  Noncritical(t, PortList(t), <<>>)
    \o Maybe(Sever(t) \o Noncritical(t, PortList(t), <<>>) \o Locked(Polling(t), <<>>)
              \o AssertNoncritical)

\* The empty path is for the calls that only hand their arguments to anarch, which
\* allocates memory or changes the memory map: of these the scope alone is modelled.
Bodies(t) ==
  {<<>>, PrintSyscall(t), VMRead(t), CreatePort(t), DestroyPort(t), ExitThread(t),
   ExitTask(t)}
    \cup UNION {{Launch(t, u), Wakeup(t, u)} : u \in Threads \ {t}}

Sleep(t) ==
  AssertCritical \o Seize(Sleeping(t))
    \o Either({Unlock(Sleeping(t)), SetTimeout(Sleeping(t)) \o Locked(Sleeping(t), <<>>)})

GetPid == AssertCritical

\* The empty path is for the calls that only turn to anarch: for the time, the sizes of
\* pages, the console's color.
SyscallHandler(t) ==
  AssertCritical \o Either({<<>>, GetPid, Sleep(t), HoldScope(t, Either(Bodies(t)))})

-----------------------------------------------------------------------------
(* The collector and the context switch.                                   *)

Dealloc(t, u) ==
  AssertNoncritical \o Maybe(Sever(u) \o AssertNoncritical)
    \o Maybe(SchedulerList \o AssertNoncritical)
    \o Maybe(Maybe(Noncritical(t, ThreadList, <<>>)) \o TaskRelease) \o AssertNoncritical

\* A task that is deleted has threads left only if they were never killed.
DeallocTask(t) ==
  Either({<<>>} \cup {Dealloc(t, u) : u \in Threads \ {t}})
    \o Maybe(Noncritical(t, TaskList, <<>>)) \o AssertNoncritical

Collect(t) ==
  SetCritical(TRUE) \o Seize(Objects)
    \o Either({SetTimeout(Objects) \o SetCritical(FALSE)}
         \cup {Unlock(Objects) \o SetCritical(FALSE) \o d :
                 d \in {DeallocTask(t)} \cup {Dealloc(t, u) : u \in Threads \ {t}}})

\* Switch up to its loop; t is the thread that is resigned.
Switch(t) ==
  AssertCritical \o Seize(Scheduler)
    \o (IF t = None THEN <<>> ELSE <<<<"resign", t>>>> \o Release(t))
    \o <<<<"scan">>>>

-----------------------------------------------------------------------------

Init ==
  /\ kind \in {k \in [Threads -> {"user", "collector"}] :
                 Cardinality({t \in Threads : k[t] = "collector"}) <= 1}
  /\ todo = [a \in Actors |-> IF a \in Cpus THEN Switch(None) ELSE <<>>]
  /\ crit = Cpus /\ saved = [a \in Actors |-> <<>>]
  /\ holder = [l \in Locks |-> None]
  /\ on = [c \in Cpus |-> None] /\ running = {}

\* Who has CPU c: a thread, or Switch.
Current(c) == IF on[c] = None THEN c ELSE on[c]

GoOn(a, path) == todo' = [todo EXCEPT ![a] = path \o Tail(todo[a])]

\* The next step of actor a is s; "at" names its kind.
At(a, at) == todo[a] # <<>> /\ Head(todo[a])[1] = at
Arg(a) == Head(todo[a])[2]

SetStep(a) ==
  /\ At(a, "set") /\ GoOn(a, <<>>)
  /\ crit' = IF Arg(a) THEN crit \cup {a} ELSE crit \ {a}
  /\ UNCHANGED <<kind, saved, holder, on, running>>

ScopeStep(a) ==
  /\ At(a, "scope") /\ GoOn(a, <<>>)
  /\ saved' = [saved EXCEPT ![a] = Append(@, a \in crit)]
  /\ crit' = IF Arg(a) THEN crit \cup {a} ELSE crit \ {a}
  /\ UNCHANGED <<kind, holder, on, running>>

LeaveStep(a) ==
  /\ At(a, "leave") /\ GoOn(a, <<>>)
  /\ saved' = [saved EXCEPT ![a] = Front(@)]
  /\ crit' = IF Last(saved[a]) THEN crit \cup {a} ELSE crit \ {a}
  /\ UNCHANGED <<kind, holder, on, running>>

AssertStep(a) ==
  /\ At(a, "assert") /\ GoOn(a, <<>>)
  /\ UNCHANGED <<kind, crit, saved, holder, on, running>>

EitherStep(a) ==
  /\ At(a, "either") /\ \E path \in Arg(a) : GoOn(a, path)
  /\ UNCHANGED <<kind, crit, saved, holder, on, running>>

SeizeStep(a) ==
  /\ At(a, "seize") /\ holder[Arg(a)] = None /\ GoOn(a, <<>>)
  /\ holder' = [holder EXCEPT ![Arg(a)] = a]
  /\ UNCHANGED <<kind, crit, saved, on, running>>

\* NoncriticalLock::Seize: the lock if it is free, or else a place in its queue.
TakeStep(a) ==
  /\ At(a, "take")
  /\ \/ /\ holder[Arg(a)] = None /\ GoOn(a, Head(todo[a])[3])
        /\ holder' = [holder EXCEPT ![Arg(a)] = a]
     \/ /\ holder[Arg(a)] # None /\ GoOn(a, Head(todo[a])[4])
        /\ UNCHANGED holder
  /\ UNCHANGED <<kind, crit, saved, on, running>>

ReleaseStep(a) ==
  /\ At(a, "release") /\ GoOn(a, <<>>)
  /\ holder' = [holder EXCEPT ![Arg(a)] = None]
  /\ UNCHANGED <<kind, crit, saved, on, running>>

\* A thread that yields is suspended, and its CPU switches.
YieldStep(c) ==
  /\ on[c] # None /\ At(on[c], "yield")
  /\ todo' = [todo EXCEPT ![c] = Switch(on[c]), ![on[c]] = Tail(@)]
  /\ on' = [on EXCEPT ![c] = None]
  /\ UNCHANGED <<kind, crit, saved, holder, running>>

\* A killed thread is not resumed; another takes its place.
ExitStep(c) ==
  /\ on[c] # None /\ At(on[c], "exit")
  /\ todo' = [todo EXCEPT ![c] = Switch(on[c]), ![on[c]] = <<>>]
  /\ crit' = crit \ {on[c]} /\ saved' = [saved EXCEPT ![on[c]] = <<>>]
  /\ on' = [on EXCEPT ![c] = None]
  /\ UNCHANGED <<kind, holder, running>>

\* The timer, or the end of WaitTimeout.
Interrupt(c) ==
  /\ \/ on[c] # None /\ on[c] \notin crit
     \/ on[c] = None /\ todo[c] = <<>>
  /\ todo' = [todo EXCEPT ![c] = Switch(on[c])] /\ on' = [on EXCEPT ![c] = None]
  /\ UNCHANGED <<kind, crit, saved, holder, running>>

ResignStep(c) ==
  /\ At(c, "resign") /\ GoOn(c, <<>>) /\ running' = running \ {Arg(c)}
  /\ UNCHANGED <<kind, crit, saved, holder, on>>

RunningToo(t) == TRUE                              \* mutant of MayTake
MayTake(t) == t \notin running

\* One turn of the loop: a thread that is passed over has been retained or not; one
\* that is taken is resumed when the lock is released.
ScanStep(c) ==
  /\ At(c, "scan")
  /\ \/ /\ \E t \in Threads : todo' = [todo EXCEPT ![c] = Maybe(Retain(t) \o Release(t)) \o @]
        /\ UNCHANGED running
     \/ \E t \in Threads :
          /\ MayTake(t)
          /\ GoOn(c, Retain(t) \o Unlock(Scheduler) \o <<<<"resume", t>>>>)
          /\ running' = running \cup {t}
     \/ GoOn(c, Unlock(Scheduler)) /\ UNCHANGED running
  /\ UNCHANGED <<kind, crit, saved, holder, on>>

ResumeStep(c) ==
  /\ At(c, "resume") /\ GoOn(c, <<>>) /\ on' = [on EXCEPT ![c] = Arg(c)]
  /\ UNCHANGED <<kind, crit, saved, holder, running>>

\* The program calls the kernel or faults; the collector begins a turn.
Enter(c, t) ==
  /\ on[c] = t /\ todo[t] = <<>>
  /\ \/ /\ kind[t] = "user" /\ crit' = crit \cup {t}
        /\ \E path \in {SyscallHandler(t), HoldScope(t, HandlePageFault(t))} :
             todo' = [todo EXCEPT ![t] = path \o <<<<"return">>>>]
     \/ /\ kind[t] = "collector" /\ UNCHANGED crit
        /\ todo' = [todo EXCEPT ![t] = Collect(t)]
  /\ UNCHANGED <<kind, saved, holder, on, running>>

Return(a) ==
  /\ At(a, "return") /\ GoOn(a, <<>>) /\ crit' = crit \ {a}
  /\ UNCHANGED <<kind, saved, holder, on, running>>

Step(a) ==
  \/ SetStep(a) \/ ScopeStep(a) \/ LeaveStep(a) \/ AssertStep(a) \/ EitherStep(a)
  \/ SeizeStep(a) \/ TakeStep(a) \/ ReleaseStep(a) \/ Return(a)

Next ==
  \E c \in Cpus :
    \/ Step(Current(c))
    \/ YieldStep(c) \/ ExitStep(c) \/ Interrupt(c)
    \/ ResignStep(c) \/ ScanStep(c) \/ ResumeStep(c)
    \/ \E t \in Threads : Enter(c, t)

Spec == Init /\ [][Next]_vars

-----------------------------------------------------------------------------

OnCpu(a) == a \in Cpus \/ \E c \in Cpus : on[c] = a
WaitsFor(a, b) == At(a, "seize") /\ holder[Arg(a)] = b

TypeOK ==
  /\ kind \in [Threads -> {"user", "collector"}]
  /\ crit \subseteq Actors /\ holder \in [Locks -> Actors \cup {None}]
  /\ saved \in [Actors -> Seq(BOOLEAN)]
  /\ on \in [Cpus -> Threads \cup {None}] /\ running \subseteq Threads
  /\ \A c, d \in Cpus : on[c] = on[d] /\ c # d => on[c] = None

\* Every AssertCritical and AssertNoncritical of the kernel holds.
AssertionsHold ==
  \A c \in Cpus : At(Current(c), "assert") => (Current(c) \in crit <=> Arg(Current(c)))

\* A CPU that cannot be interrupted never spins for a lock whose holder has lost its
\* CPU.
HoldersRun ==
  \A a, b \in Actors : a \in crit /\ OnCpu(a) /\ WaitsFor(a, b) => b # a /\ OnCpu(b)

\* No group of threads and CPUs waits for locks in a circle.
NoCircle ==
  \A S \in (SUBSET Actors) \ {{}} : \E a \in S : \A b \in S : ~WaitsFor(a, b)

\* Whoever leaves the kernel, holds no lock, is as critical as it came, and has no
\* scope open.
LeavesAsItCame ==
  \A t \in Threads :
    At(t, "return") \/ todo[t] = <<>> =>
      /\ saved[t] = <<>> /\ \A l \in Locks : holder[l] # t
      /\ t \in crit <=> todo[t] # <<>>
=============================================================================
