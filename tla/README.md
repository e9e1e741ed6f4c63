# Alux: models and proofs of its kernel

Alux is a small multiprocessor kernel for x64 written in C++ (`kernel/src`). It has
tasks and threads with reference counts, a round-robin scheduler that runs on every
CPU, a garbage-collector thread, spin locks and sleeping locks, page faults that load
a program lazily, and the beginnings of message passing. The repository has no tests:
what it says of itself is in header comments and in `assert`s. This directory holds
TLA+ models of the kernel, the TLC runs that check them and TLAPS proofs about them.
Paths below are relative to `kernel/src`.

To check: `tlc -config X.cfg M` for each run of `PROJECT.json`, `tlapm MProofs.tla`
for each proof module.

## 1. Inventory

### 1.1 Components

**Tasks, threads, hold scopes** (`tasks/`, `threads/thread.*`, `syscall/thread.cpp`).
A `Task` has `retainCount`, `holdCount`, `killReason`, a `lifeLock` and a list of its
threads; a `Thread` has `retainCount`, `killed`, `inTask`, `holdingTask` and a
`lifeLock`. Whoever touches a thread retains it, which retains its task; a
`HoldScope` holds the task while one of its threads is in the kernel. A killed thread
whose last reference goes, and a killed task whose last reference *and* last hold
go, are handed to the collector; the last release of a killed thread leaves the
task's reference to be given back by `Thread::Dealloc`. Operations: `Retain`,
`Release`, `Hold`, `Unhold`, `Kill`, `AddToTask`, `AddToScheduler`, `Dealloc`,
`ExitThread`, `ExitTask`, the launch and wakeup system calls. *Correct when* every count
equals what it counts, nothing deleted is reachable, each object is thrown away once,
only when nothing runs in it, everything killed is deleted in the end, and nothing
dead can be retained again.

**Scheduler** (`scheduler/rr-scheduler.*`, `scheduler.hpp`). A linked list of
`ThreadObj` (deadline, running flag) under one lock that every CPU takes in `Switch`;
deadlines are written without it. `Add`, `Remove`, `SetTimeout`,
`SetInfiniteTimeout`, `ClearTimeout`, `Yield`, `Switch`. *Correct when* a thread runs
on one CPU at a time, is never lost from the list or twice in it, is not resumed
before its deadline, and is not starved.

**Sleeping and waking** (`threads/sleep-state.*`). `sleeping` and `cancelled` under a
lock that the scheduler releases for the sleeper. *Correct when* no wakeup is lost, no
sleep ends without a wakeup or its alarm, and each sleep that may end does.

**Garbage collector** (`scheduler/garbage-*`). A list under a lock, and a thread that
sleeps for ever when the list is empty; `Add` clears its timeout. *Correct when* it
never sleeps past an object and deallocates each once.

**Noncritical lock** (`util/noncritical-lock.*`). A flag and a queue of
`WaitingThread` records on the waiters' stacks under a spin lock; `Release` hands the
lock over. *Correct when* it excludes, is first come first served, never touches a
frame that is gone, and serves everybody.

**Executable map** (`arch/x64/executable-map.*`, `memory/page-fault.cpp`). Per 2 MB
sector a mode (unmapped, one large read-only page, small pages) and the frames of the
pages that have been written. *Correct when* the image all tasks share is never
writable, writes are kept, faults are resolved, and frames are freed.

**Criticality and locks** (all of the above, `syscall/*`). Each CPU's code is critical
(not preemptible) or not; spin locks are meant for critical code. *Correct when* each
assertion about criticality holds, no CPU spins for a lock whose holder cannot run, and
no circle of waiting closes.

**IPC** (`ipc/`, `threads/thread-port.*`, `poll-state.*`, `syscall/port.cpp`). A port
has one terminal, a terminal a `port`, a `retainCount` and a `connection`, a connection
two terminals; each has a lock. `terminal.hpp` likens a terminal to a telephone that is
thrown away after one call. `SendToRemote`, `Sever`, `Retain`, `Release`, `Deliver`,
`Connect`, `Close`; a thread keeps its ports in a list and those with news in a poll
state. *Correct when* a terminal is thrown away once and only when nobody refers to it, its
connection goes when both ends have closed, each owner hears opened, data, closed in
this order and nothing after he severed, and the poll state lists just the ports
with news.

**Memory system calls** (`syscall/memory.cpp`),
**containers and identifiers**, **start of the kernel**, **allocation**, **kinds of
task**, **clock**: partly modelled, see `PROJECT.json` and section 7.
**anarch, ansa, anidmap** are submodules that are not in the repository: page tables, timers,
spin locks, heap, lists, identifier maps. They are the environment of the models.

### 1.2 How they interact

System calls and page faults open a `HoldScope`, look threads up in the task's list
(under a `NoncriticalLock`), retain and release them, and set or clear timeouts.
`Switch` releases the thread it resigns and retains the one it takes, under the
scheduler's lock; a release may call `GarbageCollector::Add`, which clears the
collector's timeout. The collector calls `Dealloc`, which takes the scheduler's lock
and the lists' locks. So locks nest as: scheduler → thread `lifeLock` → task
`lifeLock` → the collector's list lock.

A thread sends through its port to the terminal, the connection, the other terminal and
its port, which queues the message with the receiver. The last release of a severed terminal hands it
to the collector, whose `Terminal::Dealloc` closes the connection; `Thread::Dealloc` severs
the ports a thread has left. Locks nest as: connection → terminal → poll state, and
port → terminal.

### 1.3 What is hard

Two CPUs in `Switch`, and threads that are killed, waking, or released meanwhile;
a terminal severed, used, connected and closed at once; objects handed to
the collector while their own lock is still held; a wakeup between any two
steps of a sleeper; hand-over of a lock to a record on another stack; an infinite
timeout that somebody else clears; two faults on one page; a scope nested in a scope
by a page fault; a launch that fails halfway; a time read before a lock is taken.
`hazards` in `PROJECT.json` lists them at their lines, with the properties that
would catch each, or why none does: some of them the code does not survive (section 5).

## 2. Modules

| module | models | composed with |
|---|---|---|
| `Lifecycle` | tasks, threads, hold scopes, launch/wakeup/exit system calls, retain/release in `Switch`, `Dealloc` | — |
| `RRScheduler` | the list, the lock, the loop of `Switch`, timeouts | implements `Timeouts` |
| `Timeouts` | what the scheduler promises its clients (abstract) | extended by the next three |
| `SleepState` | `Sleep`, `SleepInfinite`, `Cancel` | on `Timeouts`; implements `WakeToken` |
| `WakeToken` | what sleeping and waking promise (abstract) | |
| `GarbageCollector` | `Main`, `Add` | on `Timeouts` |
| `NoncriticalLock` | `Seize`, `Release` | on `Timeouts`; implements `FifoLock` |
| `FifoLock` | a first-come-first-served lock (abstract) | |
| `ExecutableMap` | the page-fault handler, its threads, the destructor | — |
| `Ipc` | ports, terminals, connections, thread ports, poll states | implements `Calls` |
| `Calls` | what a terminal promises, as telephones (abstract) | |
| `CriticalSections` | the order of locks and criticality on every path | — |
| `MC*` | instances, histories and symmetry for TLC | |
| `*Proofs` | theorems | each extends its module |

The composition is by promise: `RRScheduler` is shown to implement `Timeouts`, and the
three modules that sleep are built on `Timeouts` rather than on the scheduler's list, so each
stays small enough to check and to prove about.

### 2.1 Lifecycle

A region under one `CriticalLock` is one step, what follows the unlock another: the code between is
critical, but the other CPUs run. `pc[x]` says where a thread is in
the kernel, `ref[x]` is the one reference it (or a CPU: `Thread::GetCurrent`, or the
candidate of `Switch`) owns, `stale[x]` the thread that `Release` or a later statement
still touches after giving the reference up. `schedLock` is kept over
several steps, as `Switch` does. `CanHold`, `CanRetainTask`, `CanRetain`, `Retain`,
`Release`, `Unhold`, `ThrowAway` translate the methods of `Task` and `Thread`; the
actions are `HoldScope`'s constructor (also that of a page fault inside a system call, which
finds `holdingTask` set), destructor and exits, the parts of the launch
and wakeup system calls between which another CPU can act (list the thread, mark it
`inTask` and schedule it, or fail; release; read the identifier), `Switch`
(`SwitchEnter` = load the global map, seize, `ResignCurrent`; `SwitchRetain`,
`SwitchSkip`, `SwitchTake`, `SwitchIdle`) and the collector's `Dealloc`s.

Abstractions. Which ready thread runs is left open (any order that `RRScheduler` could give),
and so are deadlines: any thread may be skipped. The collector is
a process of its own; its thread's references and sleeps are in
`GarbageCollector`. A `killReason` is only set or not. `NoncriticalLock`s retain and release
the waiter itself, which `HeldCanBeResumed` covers: such a waiter holds its task
and is on a CPU. The ports that `Thread::Dealloc` severs appear in `CriticalSections`.
`Init` is the state in which `main.cpp` calls `Scheduler::Run`: a
thread of every task is listed and scheduled and its creator's reference was given back.
`IdLimits` (2 or 3) stands for the 0x10000 identifiers of a thread list,
small enough to run out.

### 2.2 RRScheduler and Timeouts

Every CPU is in user or kernel code (`run`), waiting in `WaitTimeout` (`idle`), about
to switch after it gave up a lock (`yield`), waiting for the scheduler's lock with the
time it read before (`switch`, `now`), or in the loop (`scan`, `next`). The list is a
sequence; `ResignCurrent` moves the thread to its end. Threads call what the interface
allows: set their own timeout, clear anybody's, end, be added, be removed. `Timeouts`
keeps only deadlines, the clock and who runs.

### 2.3 SleepState, GarbageCollector, NoncriticalLock

One action per stretch between two points where another CPU, or the timer, can come
in: decide, set the deadline, unlock (inside the scheduler's `SetTimeout(lock)`),
yield, resume, take notice. `ClearTimeout` writes the deadline with no lock in common
with `SetTimeout`. `NoncriticalLock` has threads that sleep and pollers that spin (code
with no current thread, before the scheduler runs); the code serves both from one
queue, so the model mixes them. `NanosFromNow` is any time from the present on:
Ratio's rounding makes a short sleep's deadline already past.

### 2.4 ExecutableMap

Threads access pages at any time; an access that is not allowed becomes a pending
fault, which may be old by the time the lock is got. `writables`, `mode` and the
mappings change in the order of the code, and `MapWritable` and `Memcpy` are separate
steps, since other threads use the page between them. `raced` is a history: the pages
somebody accessed while another thread's fault on them was pending. Out of the model:
the TLB, a program of zero sectors, and how anarch's `MapAt` replaces a mapping (it is
taken to). The map is deleted only with nobody in the kernel, which
`QuiescentWhenThrown` of `Lifecycle` shows.

### 2.5 Ipc and Calls

Threads, an operator and the collector each have a sequence of steps still to do in the kernel
(`work`): a call such as `Port::Sever` puts `cut t` and `release t` in front. A step is
what one lock covers, or what lies between two locks. So a reference to a terminal
needs no variable of its own: it is a `release` that is still to come, and `CountsExact`
says that `retainCount` counts them. `portLock` is held over several steps in `Deliver`,
which calls the port's `SendToThis` under it, and the connection's lock in `Connect`,
which delivers `Opened` under it. `Port::lock` and the poll state's lock are held within one step.

`src/` has no code that makes terminals or connects them. `Dial` (`Terminal::New`, then
`SetTerminal`, then the terminal is handed on) and the operator (`Connect`, or give the
terminal up) use the classes as their headers say one may. `SetTerminal` is
read both ways (`reading`):
as `port.cpp` has it, under which the port gets no terminal and the new one stays for
ever, as only its port may sever it; and as `port.hpp` describes it, under which the
rest of the classes can be used at all. Callers of a port's methods see to it that the
port lives (`Senders`), and only its owner severs it, through `DestroyPort` or, when it
has exited, the collector. Not in the model: ports that are not thread ports, whose `SendToThis`
could call back into the terminal; and preemption of a holder of these locks, which is
the subject of `CriticalSections`.

`Calls` speaks of what a phone's owner hears. `Heard` derives that from the port's last
message and from what became of the terminal, `Pairs` the calls from `connection`.

### 2.6 CriticalSections

A path is a sequence of steps: set or scope the criticality, assert it, seize and
release a lock, yield, or choose between continuations. Each system call, page fault, turn of the
collector and `Switch` is such a path, put together from the paths of
the methods it calls; data is left out, so every branch may be taken and any thread
be resumed. A thread that is not critical can lose its CPU at any step; one that
exits is replaced by a fresh one. The calls that only hand their arguments to anarch (memory
map, allocation, console, time) take no lock of the kernel's own modules: of them the
`HoldScope` alone is modelled, as the empty path inside it or, for those without one,
beside it. The locks of the thread list, the task list and the lists of ports are there.
The heap's is not: it is anarch's (`include/anarch/noncritical-lock` lends it
`NoncriticalLock`). It is assumed that anarch, while it holds it, calls nothing of the kernel but
that lock, so that no circle can pass through it. The error path of `LaunchThreadSyscall` is left to `Lifecycle`.

`MCCriticalSections` reduces interleavings: steps that change only what belongs to one
actor (its own criticality, scope or path, or a lock that nobody else ever takes: that of
the thread's own list of ports) go first. They commute with every step of
the others, and the states before and after each of them are still reached, with every
assertion about them; only orders in which two such steps are interleaved are left out.

## 3. What TLC checks

States are distinct states; deadlock is checked except where noted.

| run | instance | states | shows |
|---|---|---|---|
| `lifecycle` | 1 task, 3 threads, 2 CPUs, 2 or 3 identifiers; symmetry of CPUs and of the threads not yet launched | 453,141 | counts, pointers, the collector's list, no resurrection |
| `lifecycle_live` | 1 task, 2 threads, 2 CPUs | 12,061 | everything killed is deleted in the end |
| `rr` | 3 threads, 2 CPUs, clock to 2; symmetric | 239,538 | the list, bounded overtaking, refinement of `Timeouts` |
| `sleep` | 2 threads, 2 CPUs, clock to 3 | 29,630 | no wakeup lost, refinement of `WakeToken` with its liveness |
| `collector` | the collector, 2 adders, 3 objects | 628 | order, no missed object, all deallocated |
| `nclock` | 2 threads, 1 poller, 2 CPUs | 17,526 | exclusion, hand-over, FIFO refinement, `Seize` returns |
| `execmap` | 2 threads, 2 sectors, 3 pages, 2 frames | 226,522 | sharing, writes, frames, faults resolved |
| `ipc` | 2 threads, 2 ports (of one thread or of both), 2 terminals, 1 connection | 243,603 | references, pointers, pending ports, refinement of `Calls` with its liveness |
| `critical` | 2 threads, 2 CPUs; symmetric | 2,088,479 | assertions on criticality, spinning, circles |
| `lifecycle_find`, `lifecycle_touch`, `nclock_collector` | as above or smaller | | counterexamples, section 5 |

**Why the bounds suffice.** *lifecycle*: each hazard needs at most two actors beside
the collector (a killer and a holder, a launcher and its child, a waker and one that
exits); three threads let a launched thread launch another while it is itself waited for, two CPUs
let `Switch` run beside a system call and beside another `Switch`, and two identifiers
for three threads reach the error path. A second task shares no counter with the first:
they meet in the scheduler's list, the collector's list and the CPUs only, so one task
suffices for the invariants here; the theorems are for any number of tasks.
*rr*: two CPUs and three threads give a thread that is passed over while another is
resigned and taken; an overtaking needs three. The clock needs `before` and `after`
a deadline. *sleep*: one sleeper and one waker race; both are both; the clock has room
for an alarm before, at and after a wakeup. *collector*: two adders beside the
collector's own `Add` inside `Dealloc`, and three objects: one in hand, one in the list, one
being added. *nclock*: holder, waiter and a third that comes in the hand-over, of both kinds.
*execmap*: the second sector shows that the first is not disturbed, the two pages of the
first that a split keeps the other page; three pages with two frames run out of
memory. *ipc*: a connection has two ends, and only its own
ends meet in it; one port has two senders, so that one can send while the other severs,
and both ports may belong to one thread, which then fills one poll state.
*critical*: a holder and a spinner on two CPUs, and `Switch` on each of them.

Deadlock: `sleep`, `collector`, `execmap` and `ipc` may stop (the clock is at its bound and all
sleep for ever; no object is left; the map is deleted or the kernel has panicked; all
threads have exited) and say so.
The clock's bound only removes later times: deadlines are compared, never added to.

**The properties** are commented where they stand. The ones that matter most:
`CountsExact` ties all counters to what they count, with the killed threads that still
owe their task a reference; `QuiescentWhenThrown` is what the comment in
`Task::Release` relies on; `HeldCanBeResumed` says the scheduler can always bring back a
thread that is inside a system call of a killed task; `SwitchTouchesLive` says that the object whose
`lifeLock` `Release` has still to unlock is not deleted under it, *because* `Dealloc` must
get the scheduler's lock; `BoundedOvertaking` is the scheduler's fairness;
`HoldersRun` justifies spin locks taken in non-critical code by the fact that no critical
code takes the same ones; `KeepsPromise` of `Ipc` says that a message in flight while the
other end hangs up still arrives before `Closed`, or not at all.

Every property of a passing run has a mutant of the modelled code that TLC finds to
break it (`mutants` in `PROJECT.json`; the mutated operator is next to the original).

**Fairness.** `Lifecycle`: CPUs keep switching (the jiffy timer is always armed); a
thread in kernel code goes on when it has a CPU, and comes back to one, which is
`BoundedOvertaking` of `RRScheduler` (it is not asleep for ever inside a `HoldScope`:
the locks it waits for there are `NoncriticalLock`s, and `SeizeReturns` holds of those);
the collector runs (`AllDeallocated`). User code need not call the kernel, and
nothing forces a thread to end. `SleepState`, `GarbageCollector`, `NoncriticalLock`: the
scheduler resumes whoever may be resumed, again and again, and the spin locks are fair:
`anarch::CriticalLock` is not in the repository, `ansa::OrderedLock` by its name and use
hands out tickets; this is assumed. Strong fairness stands where a step can be disabled by a
preemption and enabled again. `ExecutableMap`: the same, and a thread that faulted
repeats its access. `Ipc`: a call into the kernel goes on, its locks are fair, the collector runs,
and the operator does not keep a terminal; no thread has to call anything.

## 4. What TLAPS proves

All for every number of tasks, threads, CPUs, objects, pages and so on, from the named
assumptions on the constants (distinct kinds, finite sets, at least one CPU).

| module | theorems | inductive invariant |
|---|---|---|
| `LifecycleProofs` | `TypeCorrect`, `DeadStayDead` (`NoResurrection`), `OneCpu`, `CountsAreExact` (`CountsExact`), `NothingDangles` (`NoDangling`), `SwitchTouches` (`SwitchTouchesLive`), `ThrownAwayOnce` (`ThrownOnce`), `QuiescentThrown` (`QuiescentWhenThrown`), `HeldResumes` (`HeldCanBeResumed`) | `TypeOK`, `HoldsExact`, `KilledLaunched`, `OneCpuPerThread`, `ThreadCounts`, `TaskCounts`, `ListExact`, `Scheduled`, `Launches`, `Places`, `Gone`, `Collecting` |
| `RRSchedulerProofs` | `TypeCorrect`, `NoThreadTwice` (`RunningExact`), `ImplementsTimeouts`, `OvertakingBounded` (`BoundedOvertaking`) | `TypeOK`, `RunningExact`, `LoopLocked`; `HistoryInv` |
| `SleepStateProofs` | `TypeCorrect`, `OnePlace`, `NoWakeupLost`, `ImplementsWakeToken` | `TypeOK`, `OnePlaceForWakeup`, `LockedWhileDeciding`, `DeadlineIsAlarm` |
| `GarbageCollectorProofs` | `TypeCorrect`, `NoMissedGarbage`, `OrderKept` | `LockedInMain`, `AwakeInLoop`, `NeverSleepsPastGarbage`, `ListsAgree` |
| `NoncriticalLockProofs` | `TypeCorrect`, `Exclusion`, `FrameLive`, `AssertionHolds`, `ImplementsFifoLock` | `OneToken`, `QueueWaits`, `NextWaits`, `SleepersWait`, `PlacesExist`, `OwnerWhenResumed` |
| `ExecutableMapProofs` | `TypeCorrect`, `ImageProtected`, `MappingsFit`, `WritesKept` (`WritesKeptUnlessRaced`), `AllFreed` (`FreedUnlessRaced`) | `ImageReadOnly`, `MappingFitsMode`, `HandlerKnows`; `Alone`, `Owned`, `Recorded`, `AllListed` |
| `IpcProofs` | `TypeCorrect`, `RetainsAreCounted` (`CountsExact`), `NothingDangles` (`NoDangling`), `PendingIsExact`, `NothingAsserts` (`AssertionsHold`), `ImplementsCalls` | `Form`, `Counted`, `ThrownDead`, `ThrownOnce`, `Fresh`, `Connected`, `Owned`, `Attached`, `Delivered`, `PendingExact`; for `ImplementsCalls` also `Paired`, `DeliverFirst`, `OpenedFirst`, `InOrder`, `ClosedLast`, `Unheard` |
| `CriticalSectionsProofs` | `TypeCorrect`, `AssertionsAreRight` (`AssertionsHold`), `HoldersKeepRunning` (`HoldersRun`), `NobodyWaitsInACircle` (`NoCircle`), `LeavesTheKernelAsItCame` (`LeavesAsItCame`) | `Shape`, `Ends` of every path, `CpusRight` |

* **Lifecycle.** `TypeOK` includes that no pointer about to be followed is null: a
  thread that runs has a task, which only an argument about all of `ref`, `todo`, `queue` and
  `pc` shows. `NoResurrection` is about steps; what breaks induction is `Unhold`: if a
  hold were given back that was not counted, a dead task's `holdCount` would leave zero.
  So `holdCount` must be exact, for which the proof carries `HoldsExact`: the count is the
  cardinality of the set of threads inside a scope, and the entry to and end of a scope
  add and remove one element. `OneCpu` rests on the scheduler's lock.
* **Lifecycle, the counts.** The other properties are proved together, because they need one another:
  a count stays exact only if nobody retains what was thrown away, and nobody can
  because it is thrown away only when its count says that nobody refers to it. Each
  count is the cardinality of a set (`ThreadCounts`, `TaskCounts`), of which a step adds or
  removes one element. `Places` says where a thread that was killed is on its way
  to the collector, so that it is handed over once; `Launches` and `Scheduled` what
  a launch has done so far; `Gone` and `Collecting` what is left of what is deleted.
* **RRScheduler.** `RunningExact` needs that a CPU in the loop has resigned its thread
  and owns the lock (`LoopLocked`), and two facts about lists: removing one link
  from a list without duplicates removes one thread, and moving a thread to the back keeps the
  set. The refinement maps `current`, the list and the loop away; the one
  arithmetic fact is that a CPU decides by a time not later than the present (`now <= clock`).
* **Round robin.** `OvertakingBounded` is about `MCRRScheduler`'s history variable. What
  `passed` may still grow by is counted: one for each CPU that decides by a time at which
  the thread was not ready yet or has gone past it in the list (`MayPassOver`), and one
  for a CPU that is none of these, if the other thread comes first in the list (`Ahead`).
  With what has been counted this never exceeds the number of CPUs (`HistoryInv`). TLC checked it before it was proved.
* **SleepState.** The lock is held from the decision until the deadline is set, so a
  wakeup falls before or after; a sleeper's deadline is its alarm or has been cleared;
  it is resumed only when over. The safety part of the refinement is proved; WakeToken
  would let a wakeup be a stutter, so `NoWakeupLost` is a theorem of its own.
* **GarbageCollector.** `ListsAgree`: what was thrown is what was freed, what is in
  hand, and what is listed, in this order.
* **NoncriticalLock.** The lock is a token that passes from the releaser (`grant`) to a
  waiter with its `owner` field set. The last step of the releaser clears the waiter's
  timeout, and only then can the waiter run, so its stack frame is still there. Not for the collector
  thread, whose timeout others clear: `CollectorSpec` is refuted (section 5).
* **ExecutableMap.** From the split of the sector on the handler's page is small, its
  frame in `writables`, then in the map. `MappingsFit` states `MappingsSound`, both halves.
  That writes are kept needs that a frame belongs to one page and to nobody else's
  handler (`Alone`, `Owned`) and that what a page holds is on record (`Recorded`); that
  all frames are freed, that each is in a list or in a handler's hand (`AllListed`). Both
  are stated of pages that did not race, as section 5 says they must be.
* **Ipc.** The actors' calls are sequences, and the proof is about their form: what is
  not next is of a few kinds, and whoever uses a terminal releases it afterwards
  (`Form`). So a terminal that is used is counted, and one that is counted has not been thrown
  away (`Counted`, `ThrownDead`, `ThrownOnce`). A count and its type are proved
  together: what is released is not zero. A connection stays while one of its ends has not
  hung up (`Connected`), a port until it is severed (`Owned`, `Attached`); from this
  `NoDangling` and `AssertionsHold` follow.
* **Ipc implements Calls**, as far as `Calls` says what may happen. What the owner hears depends
  on the messages under way: "opened" only under the connection's lock, before anything
  else (`OpenedFirst`); data while its sender still has a reference to his own end, which has
  therefore not hung up; "closed" from the collector alone, one call at a time (`InOrder`).
  So no data can be under way when "closed" is delivered, and none comes after it
  (`ClosedLast`). A port hears nothing of a terminal it had before (`Unheard`), and a call
  delivers to each end once (`DeliverFirst`).

* **CriticalSections.** Paths are nested data, so the proof has one rule for each way a
  path is built (a step, one path after another, one of several, a scope, a lock), as a
  program logic has: `Ends(p, s, R)` says that path `p`, begun in state `s` of its actor,
  does only what is safe, and ends in one of the states `R`. A recursive definition
  would need induction over paths; `Ends` is coinductive instead: there is a
  set of paths and states, this one among them, that all steps stay in (`Sound`). Applied to
  every system call, page fault, turn of the collector and `Switch`, the rules show that
  each path, whole, is safe; the invariant says that what is left of it always is, and that
  no step of another actor matters to it. What is safe includes the order of locks
  (`Rank`, six of them), and that locks for critical sections are seized there and no
  others: `NoCircle` and `HoldersRun` follow, the first because a rank from 1 to 6 that
  someone in a circle always exceeds is nobody's (`NoClimb`). The theorems are about `Spec`, with
  all interleavings; `MCCriticalSections` checks fewer. The invariant speaks of sets of
  paths and cannot be evaluated by TLC, which checks what follows from it.

**Only model-checked**: liveness (`GarbageDeleted`, `AllDeallocated`, `SeizeReturns`,
`FaultResolved`, and the liveness in the `KeepsPromise` of `SleepState` and `Ipc`), which is
out of TLAPS's reach here, as are `ENABLED` and induction over recursive data. Every other
property of the passing runs is stated by a theorem.

Whoever changes a proof should keep its leaves small: all are found with every prover's time cut
to a fifth (`tlapm --stretch 0.2 --cleanfp`), so that a slow or busy machine proves them too.

## 5. Where the code and its own claims part

Each of the first three is a run in which TLC refutes what a comment or an assertion says.

1. `threads/thread.cpp:50`: `AddToTask` lists the thread before it sets `inTask`; a wakeup
   that finds it in between calls `GetTask`, whose assertion fails; so does
   the error path of `LaunchThreadSyscall` (`lifecycle_find`).
2. `syscall/thread.cpp:38`: `LaunchThreadSyscall` reads the identifier of a thread it has
   released, which may be deleted by then; `thread.cpp:76` likewise unlocks the
   `lifeLock` of an object already with the collector, safe only inside `Switch` (`lifecycle_touch`).
3. `util/noncritical-lock.cpp:40`: the collector sleeps in `Seize` on the same deadline
   that `GarbageCollector::Add` clears, and returns without the lock (`nclock_collector`).

Also met, with no run of their own:

* `arch/x64/executable-map.cpp:140`: a second write fault on a page allocates it again, and
  a frame is lost. `FreedUnlessRaced` says that frames are lost in no other way; without its
  exception TLC finds the loss. So with `WritesKeptUnlessRaced`: what one thread wrote is
  lost in the second frame, or when the contents are copied (`:143`) into a page that is
  mapped writable already.
* `ipc/port.cpp:7`: `SetTerminal` refuses a port that has no terminal, so no port ever gets
  one; `ipc/port.hpp:26` says it sets one "if the port does not already have one". The run `ipc`
  begins with either reading; a `SetTerminal` that replaced a
  terminal would break `NoDangling` and `KeepsPromise`.
* `threads/thread.cpp:97`: `Thread::Dealloc` deletes ports (`Dealloc(false)`) that the
  poll state of the thread still lists. If the thread has two ports, a message to the
  second, between the deletion of the first and of the second, is queued behind a freed link
  (`threads/poll-state.cpp:20`). TLC shows it when `PendingExact` is asked of exited threads too.
* `Terminal::Sever` is private and only its port calls it: a terminal that was refused by
  `SetTerminal`, or was never attached, keeps its `port` and is never thrown away.
* `ipc/connection.cpp:52`: `Close` deletes the connection whose lock a scope will unlock.
* `ipc/connection.cpp:11`: `Connect` holds a `CriticalLock` while not critical, and calls
  `Deliver`, which wants a critical section.
* `Task::Dealloc` and `Thread::Dealloc` follow links of list elements they have deleted.
* `Port::Sever`, documented critical, is called from non-critical code (`syscall/port.cpp:24`,
  `threads/thread.cpp:96`). It does no harm as long as nothing sends: with one critical
  path more that takes a port's lock, such as `SendToRemote`, TLC finds `HoldersRun`
  violated in `CriticalSections`.
* A task whose threads all exit is never killed, so never deleted.

## 6. Plan

Done: `Lifecycle`, `RRScheduler` on `Timeouts`, `SleepState`, `GarbageCollector`,
`NoncriticalLock`, `ExecutableMap`, `CriticalSections`, `Ipc`, with the theorems above.
Order: what every other part stands on first (lifetimes), then the scheduler's promise,
then its clients, then paths through all of them, then messages between them.

Next, to extend: `Poll`, once the code has it, on `SleepState`; `Lifecycle` with ports; the
permission checks and attribute encoding of the memory system calls; the rounding of the
program's image and of times.

Next, to prove: every safety property of the runs has its theorem. What is left is
liveness, and what extensions will bring.

## 7. What is not modelled

| part | why |
|---|---|
| `Poll`, `PollTimeout` | their bodies are empty (a TODO): no thread waits for a message, `polling` is never set, nobody is woken |
| what makes terminals and connects them | not in `src/`; the models use the classes as their headers allow |
| subclasses of `Port` other than `ThreadPort` | none in `src/` |
| memory system calls' permission checks, error returns and encodings | they pass arguments to anarch's `UserMap` and `Domain`; checks planned |
| identifiers' values | the pool is anidmap's; its size is modelled |
| `NanosFromNow` arithmetic | the ratio is anarch's; short sleeps are covered, the wrap after 2^64 ticks is not |
| program image, entry, boot | run once, on one CPU, before anything else |
| heap, `new` returning NULL | anarch's; callers only assert |
| the locks of the heap and of physical memory | taken inside anarch, last; whose they are is in section 2.6 |
| console, `GetPid`, time calls' results | no state; their criticality is in `CriticalSections` |
| libraries, build scripts | not in the repository, or not part of the running kernel |
