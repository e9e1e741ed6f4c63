------------------------------ MODULE Lifecycle ------------------------------
(***************************************************************************)
(* The lifetimes of tasks and threads: Task, Thread, HoldScope, the        *)
(* system calls that create, find and end threads, the part of             *)
(* RRScheduler::Switch that retains and releases them, and the garbage     *)
(* collector that deletes them.                                            *)
(*                                                                         *)
(* A region of code that runs under one CriticalLock is one step; what the *)
(* code does after it gave the lock up is another.  The scheduler's lock   *)
(* is held across several steps (schedLock).  Which waiting thread runs    *)
(* next, and when, is left open here: RRScheduler.tla decides it.          *)
(***************************************************************************)
EXTENDS Integers, FiniteSets

CONSTANTS
  Tasks,      \* the user tasks
  Threads,    \* the thread objects that can ever be allocated
  Cpus,       \* the hardware threads
  None,       \* the null pointer
  Boot,       \* Boot[t]: the thread main() starts for task t
  IdLimits    \* how many thread identifiers a task's ThreadList may have

ASSUME ConstantsAssumption ==
  /\ Boot \in [Tasks -> Threads]
  /\ \A s, t \in Tasks : Boot[s] = Boot[t] => s = t
  /\ IsFiniteSet(Tasks) /\ IsFiniteSet(Threads) /\ IsFiniteSet(Cpus)
  /\ Tasks \cap Threads = {} /\ Threads \cap Cpus = {} /\ Tasks \cap Cpus = {}
  /\ None \notin Tasks \cup Threads \cup Cpus
  /\ IdLimits \subseteq Nat

Objects == Tasks \cup Threads     \* what a GarbageObject can be
Holders == Cpus \cup Threads      \* what can own a reference to a thread

VARIABLES
  retainCount,  \* of every task and thread
  holdCount,    \* of every task
  killed,       \* the tasks with a kill reason and the threads marked killed
  taskOf,       \* Thread::task, None while the object is not allocated
  inTask,       \* the threads whose inTask flag is set
  threadList,   \* the threads some task's ThreadList contains
  idLimit,      \* how many each task's ThreadList can contain
  queue,        \* the threads the scheduler's list contains
  running,      \* the threads whose ThreadObj::running is set
  holdingTask,  \* the threads whose holdingTask flag is set
  pc,           \* where each thread is in the kernel
  ref,          \* the thread that each CPU or thread holds a reference to
  stale,        \* the thread each of them still touches after releasing it
  schedLock,    \* the CPU inside the scheduler's lock, or None
  todo,         \* the threads that CPU has still to look at
  activeMap,    \* the task whose memory map each CPU uses, None for the global map
  objects,      \* how often each object is in the collector's list
  gcPc, gcThread, gcTask, gcTodo,   \* the collector thread's control
  freed,        \* the objects that have been deleted
  assertFailed  \* the calls whose assert(inTask) has been false

threadVars == <<taskOf, inTask, threadList, idLimit>>
schedVars  == <<queue, running, schedLock, todo, activeMap>>
gcVars     == <<gcPc, gcThread, gcTask, gcTodo, freed>>
vars == <<retainCount, holdCount, killed, threadVars, holdingTask, pc, ref,
          stale, schedVars, objects, gcVars, assertFailed>>

\* Kernel code outside critical sections: the timer may preempt it.
Noncritical == {"user", "held", "fault", "launch", "listed", "unlisted",
                "launched", "ident", "found"}
\* Code inside a HoldScope whose hold has not been given back.
Holding == {"held", "fault", "launch", "listed", "unlisted", "launched",
            "ident", "found", "unlock", "exitTask", "exiting"}
\* Code that owns a reference to the thread it launches or wakes.
Referring == {"launch", "listed", "unlisted", "launched", "found"}
Pcs == Noncritical \cup Holding \cup {"yield", "none"}

\* The state main() hands to Scheduler::Run: a thread of every task is in the
\* scheduler, and nothing holds a reference any more.
Init ==
  /\ retainCount = [o \in Objects |-> 0]
  /\ holdCount = [t \in Tasks |-> 0]
  /\ killed = {}
  /\ taskOf = [th \in Threads |-> IF \E t \in Tasks : Boot[t] = th
                                  THEN CHOOSE t \in Tasks : Boot[t] = th
                                  ELSE None]
  /\ inTask = {Boot[t] : t \in Tasks}
  /\ threadList = inTask /\ queue = inTask
  /\ idLimit \in [Tasks -> IdLimits]
  /\ running = {} /\ holdingTask = {}
  /\ pc = [th \in Threads |-> IF th \in inTask THEN "user" ELSE "none"]
  /\ ref = [h \in Holders |-> None] /\ stale = ref
  /\ schedLock = None /\ todo = {} /\ activeMap = [c \in Cpus |-> None]
  /\ objects = retainCount
  /\ gcPc = "idle" /\ gcThread = None /\ gcTask = None /\ gcTodo = {}
  /\ freed = {} /\ assertFailed = {}

-----------------------------------------------------------------------------
(* Task::Retain, Hold, Release, Unhold and Thread::Retain, Release.        *)

HoldAlways(t) == TRUE                              \* mutant of CanHold
CanHold(t) == t \notin killed

RetainUnlessKilled(t) == t \notin killed            \* mutants of CanRetainTask
RetainTaskAlways(t) == TRUE
CanRetainTask(t) == t \notin killed \/ holdCount[t] # 0

CanRetain(th) == th \notin killed /\ CanRetainTask(taskOf[th])

\* f with n added at every element of S.
Plus(f, S, n) == [o \in DOMAIN f |-> IF o \in S THEN f[o] + n ELSE f[o]]

ThrowOut(S) == objects' = Plus(objects, S, -1)     \* mutant of ThrowAway
ThrowAway(S) == objects' = Plus(objects, S, 1)

\* A task that this last reference or hold kept alive, given what is left.
SpentWhileHeld(t, retains, holds) ==               \* mutant of Spent
  {o \in {t} : retains = 0 /\ o \in killed}
Spent(t, retains, holds) == {o \in {t} : retains = 0 /\ holds = 0 /\ o \in killed}

Retain(th) == retainCount' = Plus(retainCount, {th, taskOf[th]}, 1)

CountedTooEarly(th) == retainCount[th] = 0 /\ th \in killed   \* mutant of
LastOfKilled(th) == retainCount[th] = 1 /\ th \in killed      \* LastOfKilled

\* The last release of a killed thread keeps its task's reference: the
\* collector gives it back in Thread::Dealloc.
Release(th) ==
  LET t == taskOf[th]
  IN \/ /\ LastOfKilled(th)
        /\ retainCount' = Plus(retainCount, {th}, -1)
        /\ ThrowAway({th})
     \/ /\ ~LastOfKilled(th)
        /\ retainCount' = Plus(retainCount, {th, t}, -1)
        /\ ThrowAway(Spent(t, retainCount[t] - 1, holdCount[t]))

Unhold(t) ==
  /\ holdCount' = Plus(holdCount, {t}, -1)
  /\ ThrowAway(Spent(t, retainCount[t], holdCount[t] - 1))

-----------------------------------------------------------------------------
(* What a thread does while it runs on a CPU.                              *)

IgnoreLock == TRUE                                 \* mutant of ListFree
ListFree == schedLock = None

StillListed(th) == queue                           \* mutant of Unlisted
Unlisted(th) == queue \ {th}

OnCpu(x) == \E c \in Cpus : ref[c] = x /\ x \in running /\ schedLock # c
At(x, l) == pc[x] = l /\ OnCpu(x)
Goto(x, l) == pc' = [pc EXCEPT ![x] = l]

HoldAgain(x) == TRUE                               \* mutant of DidHold
DidHold(x) == x \notin holdingTask

\* HoldScope::HoldScope at a system call or a page fault, of user code or inside a
\* system call.  Unless the thread holds its task already, hold it, or kill the
\* thread and yield when the task has been killed.
EnterHoldScope(x) ==
  LET inside == IF pc[x] = "user" THEN "held" ELSE "fault"
  IN /\ At(x, "user") \/ At(x, "held")
     /\ \/ /\ ~DidHold(x)
           /\ Goto(x, inside)
           /\ UNCHANGED <<holdCount, killed, holdingTask>>
        \/ /\ DidHold(x) /\ CanHold(taskOf[x])
           /\ holdCount' = Plus(holdCount, {taskOf[x]}, 1)
           /\ holdingTask' = holdingTask \cup {x}
           /\ Goto(x, inside)
           /\ UNCHANGED killed
        \/ /\ DidHold(x) /\ ~CanHold(taskOf[x])
           /\ killed' = killed \cup {x}
           /\ Goto(x, "yield")
           /\ UNCHANGED <<holdCount, holdingTask>>
     /\ UNCHANGED <<retainCount, threadVars, ref, stale, schedVars, objects,
                    gcVars, assertFailed>>

\* ~HoldScope of a scope whose didHold is false, and of one whose didHold is true.
LeaveNestedScope(x) ==
  /\ At(x, "fault")
  /\ Goto(x, "held")
  /\ UNCHANGED <<retainCount, holdCount, killed, threadVars, holdingTask, ref,
                 stale, schedVars, objects, gcVars, assertFailed>>

LeaveHoldScope(x) ==
  /\ At(x, "held")
  /\ holdingTask' = holdingTask \ {x}
  /\ Unhold(taskOf[x])
  /\ Goto(x, "user")
  /\ UNCHANGED <<retainCount, killed, threadVars, ref, stale, schedVars,
                 gcVars, assertFailed>>

\* HoldScope::ExitThread and ::ExitTask: kill the thread, kill the task, give
\* the hold back, yield.  They enter a critical section first.
ExitKill(x) ==
  /\ \/ /\ At(x, "held")
        /\ killed' = killed \cup {x}
        /\ \/ Goto(x, "exiting")
           \/ Goto(x, "exitTask")
     \/ /\ At(x, "exitTask")
        /\ killed' = killed \cup {taskOf[x]}
        /\ Goto(x, "exiting")
  /\ UNCHANGED <<retainCount, holdCount, threadVars, holdingTask, ref, stale,
                 schedVars, objects, gcVars, assertFailed>>

ExitUnhold(x) ==
  /\ At(x, "exiting")
  /\ Unhold(taskOf[x])
  /\ Goto(x, "yield")
  /\ UNCHANGED <<retainCount, killed, threadVars, holdingTask, ref, stale,
                 schedVars, gcVars, assertFailed>>

\* LaunchThreadSyscall, first part: retain the task for the new thread, which
\* starts with one reference, the launcher's.
LaunchThread(x, th) ==
  /\ At(x, "held")
  /\ taskOf[th] = None
  /\ LET t == taskOf[x] IN
       /\ taskOf' = [taskOf EXCEPT ![th] = t]
       /\ retainCount' = Plus(retainCount, {th} \cup {u \in {t} : CanRetainTask(u)}, 1)
  /\ ref' = [ref EXCEPT ![x] = th]
  /\ pc' = [pc EXCEPT ![x] = "launch", ![th] = "user"]
  /\ UNCHANGED <<holdCount, killed, inTask, threadList, idLimit, holdingTask, stale,
                 schedVars, objects, gcVars, assertFailed>>

\* Thread::AddToTask up to the return of ThreadList::Add.
AddToTask(x) ==
  /\ At(x, "launch")
  /\ LET used == {th \in threadList : taskOf[th] = taskOf[x]} IN
       \/ /\ Cardinality(used) < idLimit[taskOf[x]]
          /\ threadList' = threadList \cup {ref[x]}
          /\ Goto(x, "listed")
       \/ /\ Cardinality(used) >= idLimit[taskOf[x]]
          /\ Goto(x, "unlisted")
          /\ UNCHANGED threadList
  /\ UNCHANGED <<retainCount, holdCount, killed, taskOf, inTask, idLimit,
                 holdingTask, ref, stale, schedVars, objects, gcVars, assertFailed>>

\* inTask = true in Thread::AddToTask, then Thread::AddToScheduler.
AddToScheduler(x) ==
  /\ At(x, "listed")
  /\ ListFree
  /\ inTask' = inTask \cup {ref[x]}
  /\ queue' = queue \cup {ref[x]}
  /\ Goto(x, "launched")
  /\ UNCHANGED <<retainCount, holdCount, killed, taskOf, threadList, idLimit,
                 holdingTask, ref, stale, running, schedLock, todo, activeMap,
                 objects, gcVars, assertFailed>>

DeallocOnly(th) == UNCHANGED <<retainCount, objects>>   \* mutant of GiveUp
GiveUp(th) == Release(th)

\* No identifier was left: th.Release() evaluates assert(inTask), then
\* th.Dealloc() deletes the thread, which is neither killed nor scheduled.
LaunchFailed(x) ==
  /\ At(x, "unlisted")
  /\ GiveUp(ref[x])
  /\ assertFailed' = assertFailed \cup (IF ref[x] \in inTask THEN {} ELSE {"Release"})
  /\ freed' = freed \cup {ref[x]}
  /\ ref' = [ref EXCEPT ![x] = None]
  /\ Goto(x, "held")
  /\ UNCHANGED <<holdCount, killed, threadVars, holdingTask, stale, schedVars,
                 gcPc, gcThread, gcTask, gcTodo>>

\* WakeupSyscall, first part: RetainHashMap::Find retains the thread it finds.
\* Thread::Retain reads the task through GetTask(), which asserts inTask.
Find(x, th) ==
  /\ At(x, "held")
  /\ th \in threadList /\ taskOf[th] = taskOf[x]
  /\ assertFailed' = assertFailed \cup
                     (IF th \in killed \cup inTask THEN {} ELSE {"Find"})
  /\ \/ /\ CanRetain(th)
        /\ Retain(th)
        /\ ref' = [ref EXCEPT ![x] = th]
        /\ Goto(x, "found")
     \/ /\ ~CanRetain(th)
        /\ UNCHANGED <<retainCount, ref, pc>>
  /\ UNCHANGED <<holdCount, killed, threadVars, holdingTask, stale, schedVars,
                 objects, gcVars>>

\* th->Release() at the end of WakeupSyscall and th.Release() at the end of
\* LaunchThreadSyscall.  The thread is still touched afterwards: Release unlocks
\* lifeLock when it returns, and LaunchThreadSyscall reads the identifier.
ReleaseFound(x) ==
  /\ \/ At(x, "found") /\ Goto(x, "unlock")
     \/ At(x, "launched") /\ Goto(x, "ident")
  /\ Release(ref[x])
  /\ ref' = [ref EXCEPT ![x] = None]
  /\ stale' = [stale EXCEPT ![x] = ref[x]]
  /\ UNCHANGED <<holdCount, killed, threadVars, holdingTask, schedVars, gcVars,
                 assertFailed>>

FinishRelease(x) ==
  /\ At(x, "unlock") \/ At(x, "ident")
  /\ stale' = [stale EXCEPT ![x] = None]
  /\ Goto(x, "held")
  /\ UNCHANGED <<retainCount, holdCount, killed, threadVars, holdingTask, ref,
                 schedVars, objects, gcVars, assertFailed>>

-----------------------------------------------------------------------------
(* RRScheduler::Switch, on a CPU whose timer fired or whose thread yielded. *)

KeepMap(c) == activeMap                            \* mutant of GlobalMap
GlobalMap(c) == [activeMap EXCEPT ![c] = None]

\* Load the global map, seize the lock and ResignCurrent.
SwitchEnter(c) ==
  /\ ListFree
  /\ schedLock' = c /\ todo' = queue
  /\ activeMap' = GlobalMap(c)
  /\ \/ /\ ref[c] = None
        /\ UNCHANGED <<retainCount, running, ref, stale, objects>>
     \/ /\ ref[c] # None
        /\ pc[ref[c]] \in Noncritical \cup {"yield"}
        /\ running' = running \ {ref[c]}
        /\ Release(ref[c])
        /\ ref' = [ref EXCEPT ![c] = None]
        /\ stale' = [stale EXCEPT ![c] = ref[c]]
  /\ UNCHANGED <<holdCount, killed, threadVars, holdingTask, pc, queue, gcVars,
                 assertFailed>>

\* The next thread of the list: a thread that cannot be retained is passed over.
SwitchRetain(c) ==
  /\ schedLock = c /\ ref[c] = None
  /\ \E th \in todo :
       /\ todo' = todo \ {th}
       /\ \/ /\ CanRetain(th)
             /\ Retain(th)
             /\ ref' = [ref EXCEPT ![c] = th]
          \/ ~CanRetain(th) /\ UNCHANGED <<retainCount, ref>>
  /\ UNCHANGED <<holdCount, killed, threadVars, holdingTask, pc, stale, queue,
                 running, schedLock, activeMap, objects, gcVars, assertFailed>>

\* The thread sleeps (its deadline is not modelled here) or runs elsewhere.
SwitchSkip(c) ==
  /\ schedLock = c /\ ref[c] # None
  /\ Release(ref[c])
  /\ ref' = [ref EXCEPT ![c] = None]
  /\ stale' = [stale EXCEPT ![c] = ref[c]]
  /\ UNCHANGED <<holdCount, killed, threadVars, holdingTask, pc, schedVars,
                 gcVars, assertFailed>>

MayTake(th) == th \notin running

SwitchTake(c) ==
  /\ schedLock = c /\ ref[c] # None
  /\ MayTake(ref[c])
  /\ running' = running \cup {ref[c]}
  /\ activeMap' = [activeMap EXCEPT ![c] = taskOf[ref[c]]]
  /\ schedLock' = None /\ todo' = {}
  /\ stale' = [stale EXCEPT ![c] = None]
  /\ UNCHANGED <<retainCount, holdCount, killed, threadVars, holdingTask, pc,
                 ref, queue, objects, gcVars, assertFailed>>

SwitchIdle(c) ==
  /\ schedLock = c /\ ref[c] = None /\ todo = {}
  /\ schedLock' = None
  /\ stale' = [stale EXCEPT ![c] = None]
  /\ UNCHANGED <<retainCount, holdCount, killed, threadVars, holdingTask, pc,
                 ref, queue, running, todo, activeMap, objects, gcVars,
                 assertFailed>>

-----------------------------------------------------------------------------
(* GarbageCollector::Main with Thread::Dealloc and Task::Dealloc.          *)

GcShift(o) ==
  /\ gcPc = "idle" /\ objects[o] > 0
  /\ objects' = Plus(objects, {o}, -1)
  /\ \/ /\ o \in Threads
        /\ gcThread' = o /\ gcPc' = "dealloc"
        /\ UNCHANGED <<gcTask, gcTodo>>
     \/ /\ o \in Tasks
        /\ gcTask' = o /\ gcPc' = "threads"
        /\ gcTodo' = {th \in threadList : taskOf[th] = o}
        /\ UNCHANGED gcThread
  /\ UNCHANGED <<retainCount, holdCount, killed, threadVars, holdingTask, pc,
                 ref, stale, schedVars, freed, assertFailed>>

\* Task::Dealloc calls Thread::Dealloc for each thread in its list.
GcNextThread ==
  /\ gcPc = "threads"
  /\ \E th \in gcTodo : gcThread' = th /\ gcTodo' = gcTodo \ {th}
  /\ gcPc' = "dealloc"
  /\ UNCHANGED <<retainCount, holdCount, killed, threadVars, holdingTask, pc,
                 ref, stale, schedVars, objects, gcTask, freed, assertFailed>>

\* Thread::Dealloc: leave the scheduler, under its lock.
GcRemove ==
  /\ gcPc = "dealloc" /\ ListFree
  /\ queue' = Unlisted(gcThread)
  /\ gcPc' = IF gcThread \in killed THEN "release" ELSE "delete"
  /\ UNCHANGED <<retainCount, holdCount, killed, threadVars, holdingTask, pc,
                 ref, stale, running, schedLock, todo, activeMap, objects, gcThread,
                 gcTask, gcTodo, freed, assertFailed>>

\* Thread::Dealloc of a killed thread: leave the task's list and give the
\* task's reference back.
GcReleaseTask ==
  /\ gcPc = "release"
  /\ LET t == taskOf[gcThread] IN
       /\ threadList' = threadList \ {gcThread}
       /\ retainCount' = Plus(retainCount, {t}, -1)
       /\ ThrowAway(Spent(t, retainCount[t] - 1, holdCount[t]))
  /\ gcPc' = "delete"
  /\ UNCHANGED <<holdCount, killed, taskOf, inTask, idLimit, holdingTask, pc, ref,
                 stale, schedVars, gcThread, gcTask, gcTodo, freed,
                 assertFailed>>

GcDelete ==
  /\ \/ /\ gcPc = "delete"
        /\ freed' = freed \cup {gcThread}
        /\ gcThread' = None
        /\ gcPc' = IF gcTask = None THEN "idle" ELSE "threads"
        /\ UNCHANGED gcTask
     \/ /\ gcPc = "threads" /\ gcTodo = {}
        /\ freed' = freed \cup {gcTask}
        /\ gcTask' = None /\ gcPc' = "idle"
        /\ UNCHANGED gcThread
  /\ UNCHANGED <<retainCount, holdCount, killed, threadVars, holdingTask, pc,
                 ref, stale, schedVars, objects, gcTodo, assertFailed>>

-----------------------------------------------------------------------------

ThreadStep(x) ==
  \/ EnterHoldScope(x) \/ LeaveNestedScope(x) \/ LeaveHoldScope(x)
  \/ ExitKill(x) \/ ExitUnhold(x)
  \/ \E th \in Threads : LaunchThread(x, th) \/ Find(x, th)
  \/ AddToTask(x) \/ AddToScheduler(x) \/ LaunchFailed(x)
  \/ ReleaseFound(x) \/ FinishRelease(x)

SwitchStep(c) ==
  SwitchEnter(c) \/ SwitchRetain(c) \/ SwitchSkip(c) \/ SwitchTake(c)
    \/ SwitchIdle(c)

GcStep ==
  (\E o \in Objects : GcShift(o)) \/ GcNextThread \/ GcRemove \/ GcReleaseTask
    \/ GcDelete

Next ==
  \/ \E x \in Threads : ThreadStep(x)
  \/ \E c \in Cpus : SwitchStep(c)
  \/ GcStep

Spec == Init /\ [][Next]_vars

-----------------------------------------------------------------------------
(* Fairness.  A CPU keeps switching: the jiffy timer is always armed.  A     *)
(* thread in kernel code gets on whenever it is on a CPU, and the scheduler  *)
(* gets round to every thread that is inside a HoldScope: such a thread does *)
(* not sleep (RRScheduler.tla).  The collector thread runs.  Nothing forces  *)
(* user code to make a system call or to be resumed, nor kernel code to end  *)
(* the thread, the task, or to launch or wake anything.                      *)

GetOn(x) ==
  \/ (pc[x] = "exitTask" /\ ExitKill(x)) \/ ExitUnhold(x)
  \/ LeaveNestedScope(x)
  \/ AddToTask(x) \/ AddToScheduler(x) \/ LaunchFailed(x)
  \/ ReleaseFound(x) \/ FinishRelease(x)

InSwitch == schedLock # None /\ SwitchStep(schedLock)
RetainHeld(x) == pc[x] \in Holding /\ \E c \in Cpus : SwitchRetain(c) /\ ref'[c] = x
TakeHeld(x)   == pc[x] \in Holding /\ \E c \in Cpus : SwitchTake(c) /\ ref[c] = x

Fairness ==
  /\ (\A c \in Cpus : SF_vars(SwitchEnter(c))) /\ WF_vars(InSwitch)
  /\ \A x \in Threads : /\ SF_vars(GetOn(x)) /\ SF_vars(LeaveHoldScope(x))
                        /\ SF_vars(RetainHeld(x)) /\ SF_vars(TakeHeld(x))
  /\ SF_vars(GcRemove) /\ WF_vars(GcStep)

FairSpec == Spec /\ Fairness

-----------------------------------------------------------------------------
(* Properties.                                                             *)

\* Every variable has its type, and a pointer that some code is about to follow
\* is not null.
TypeOK ==
  /\ retainCount \in [Objects -> Int] /\ holdCount \in [Tasks -> Int]
  /\ killed \subseteq Objects /\ freed \subseteq Objects
  /\ taskOf \in [Threads -> Tasks \cup {None}]
  /\ inTask \subseteq Threads /\ threadList \subseteq Threads
  /\ idLimit \in [Tasks -> Nat]
  /\ queue \subseteq Threads /\ running \subseteq Threads
  /\ holdingTask \subseteq Threads
  /\ pc \in [Threads -> Pcs]
  /\ ref \in [Holders -> Threads \cup {None}]
  /\ stale \in [Holders -> Threads \cup {None}]
  /\ schedLock \in Cpus \cup {None} /\ todo \subseteq Threads
  /\ activeMap \in [Cpus -> Tasks \cup {None}]
  /\ objects \in [Objects -> Nat]
  /\ gcPc \in {"idle", "threads", "dealloc", "release", "delete"}
  /\ gcThread \in Threads \cup {None} /\ gcTask \in Tasks \cup {None}
  /\ gcTodo \subseteq Threads
  /\ assertFailed \subseteq {"Find", "Release"}
  /\ \A x \in Threads : /\ pc[x] \in Referring <=> ref[x] # None
                        /\ pc[x] = "none" <=> taskOf[x] = None
                        /\ pc[x] # "yield" => (x \in holdingTask <=> pc[x] \in Holding)
  /\ \A h \in Holders : ref[h] # None => taskOf[ref[h]] # None
  /\ \A th \in queue \cup todo : taskOf[th] # None
  /\ gcPc \in {"dealloc", "release", "delete"} => gcThread # None
  /\ gcPc = "threads" => gcTask # None

ThreadRefs(th) == {h \in Holders : ref[h] = th}
TaskRefs(t) == {h \in Holders : ref[h] # None /\ taskOf[ref[h]] = t}
Holds(t) == {x \in Threads : taskOf[x] = t /\ pc[x] \in Holding}
\* The killed threads of t whose reference to t the collector has yet to return.
Unreturned(t) ==
  {th \in killed \cap Threads :
     /\ taskOf[th] = t /\ retainCount[th] = 0
     /\ th \notin freed /\ ~(gcThread = th /\ gcPc = "delete")}

\* Every counter equals what it counts: a thread's count the references to it;
\* a task's count the references to its threads and the killed threads that
\* still owe it one; the hold count the threads inside a HoldScope.  A lost or
\* doubled Retain, Release, Hold or Unhold on any path breaks it.
CountsExact ==
  /\ \A th \in Threads : retainCount[th] = Cardinality(ThreadRefs(th))
  /\ \A t \in Tasks :
       /\ retainCount[t] = Cardinality(TaskRefs(t)) + Cardinality(Unreturned(t))
       /\ holdCount[t] = Cardinality(Holds(t))

\* No pointer the kernel can still follow leads to deleted memory: references,
\* the tasks of those threads, tasks held, the scheduler's list, the memory map
\* a CPU uses, and the task that Thread::Dealloc is about to release.
NoDangling ==
  /\ \A h \in Holders : ref[h] # None => {ref[h], taskOf[ref[h]]} \cap freed = {}
  /\ \A x \in Threads : pc[x] \in Holding => {x, taskOf[x]} \cap freed = {}
  /\ \A th \in queue : {th, taskOf[th]} \cap freed = {}
  /\ \A c \in Cpus : activeMap[c] \notin freed
  /\ gcPc = "release" => taskOf[gcThread] \notin freed

\* RRScheduler::Switch releases the thread it took off the CPU (and those it
\* skips) and their tasks before it gives the scheduler's lock up; the object it
\* threw away is not deleted while Release still has its lifeLock to unlock.
SwitchTouchesLive ==
  \A c \in Cpus : stale[c] # None => {stale[c], taskOf[stale[c]]} \cap freed = {}

\* An object enters the collector's list once in its life.
ThrownOnce ==
  \A o \in Objects :
    /\ objects[o] <= 1
    /\ objects[o] = 1 => o \notin freed \cup {gcThread, gcTask}

\* What the comment in Task::Release relies on: a task that was thrown away has
\* no reference, no hold, no running thread, and no killed thread that has still
\* to be deleted (but for the one whose Dealloc threw it away).
QuiescentWhenThrown ==
  \A t \in Tasks : objects[t] > 0 \/ gcTask = t =>
    /\ t \in killed /\ TaskRefs(t) = {} /\ Holds(t) = {}
    /\ \A th \in Threads : taskOf[th] = t =>
         /\ th \notin running
         /\ th \in killed => th \in freed \/ (gcThread = th /\ gcPc = "delete")

\* A thread that is inside a HoldScope and has not killed itself can always be
\* scheduled again, also after its task was killed: the hold keeps it alive.
HeldCanBeResumed ==
  \A x \in Threads : pc[x] \in Holding /\ x \notin killed =>
    x \in queue /\ x \notin freed /\ CanRetain(x)

\* A thread runs on at most one CPU, and only while its running flag is set.
OneCpuPerThread ==
  \A c, d \in Cpus :
    /\ ref[c] # None /\ schedLock # c => ref[c] \in running
    /\ ref[c] # None /\ ref[c] = ref[d] => c = d \/ c = schedLock \/ d = schedLock

\* Once a task has been killed and its last hold is gone no step retains or holds
\* it again; once a thread has been killed no step retains it again.
StaysDead ==
  /\ \A t \in Tasks \cap killed : holdCount[t] = 0 =>
       holdCount'[t] = 0 /\ retainCount'[t] <= retainCount[t]
  /\ \A th \in Threads \cap killed : retainCount'[th] <= retainCount[th]

\* What was killed is never brought back: no thread that looks for it, and no CPU
\* that schedules, can retain it after it may have been thrown away.
NoResurrection == [][StaysDead]_vars

\* Every task and every thread that was killed is deleted in the end, whatever
\* the other threads do: again and again there is no garbage.  (Nothing is ever
\* killed twice, so each of them is deleted.)
GarbageDeleted == []<>(killed \subseteq freed)

-----------------------------------------------------------------------------
(* Claims of the source that the code does not keep.                       *)

\* Thread::GetTask asserts inTask: neither the search of WakeupSyscall nor the
\* Release on the error path of LaunchThreadSyscall reaches a thread that has not
\* been added to its task.
GetTaskAfterAddToTask == assertFailed = {}

\* A thread is not deleted while code that has released it still touches it:
\* Thread::Release unlocks lifeLock after it threw the thread away, and
\* LaunchThreadSyscall reads the identifier after its Release.
ReleasedThreadIsLive ==
  \A x \in Threads : stale[x] # None => stale[x] \notin freed

=============================================================================
