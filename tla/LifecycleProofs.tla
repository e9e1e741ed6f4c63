--------------------------- MODULE LifecycleProofs ---------------------------
(***************************************************************************)
(* Theorems about Lifecycle.tla, for every number of tasks, threads and    *)
(* CPUs: counts are exact, nothing deleted is reachable, each object is    *)
(* thrown away once, when nothing runs in it any more, and what a task is  *)
(* held for can be resumed.                                                *)
(*                                                                         *)
(* These are proved together, from one inductive invariant, Inv: whether a *)
(* count is right depends on nothing being retained again after it was     *)
(* thrown away, and that depends on the counts.                            *)
(***************************************************************************)
EXTENDS Lifecycle, FiniteSetTheorems, TLAPS

\* The initial state is well typed.
LEMMA InitType == Init => TypeOK
BY ConstantsAssumption DEF Init, TypeOK, Pcs, Noncritical, Holding, Referring, Objects, Holders

\* Each helper that writes counters or the collector's list keeps their types.
LEMMA PlusType ==
  ASSUME NEW D, NEW f \in [D -> Int], NEW S, NEW n \in Int
  PROVE  Plus(f, S, n) \in [D -> Int]
BY DEF Plus

\* The collector's list keeps its type when objects are thrown away.
LEMMA ThrowAwayType ==
  ASSUME TypeOK, NEW S, ThrowAway(S)
  PROVE  objects' \in [Objects -> Nat]
BY DEF TypeOK, ThrowAway, Plus

\* Retain keeps the type of the counts.
LEMMA RetainType ==
  ASSUME TypeOK, NEW th \in Threads, Retain(th)
  PROVE  retainCount' \in [Objects -> Int]
BY PlusType DEF TypeOK, Retain

\* So does Release, and that of the list.
LEMMA ReleaseType ==
  ASSUME TypeOK, NEW th \in Threads, Release(th)
  PROVE  retainCount' \in [Objects -> Int] /\ objects' \in [Objects -> Nat]
BY ThrowAwayType, PlusType DEF TypeOK, Release

\* And Unhold.
LEMMA UnholdType ==
  ASSUME TypeOK, NEW t, Unhold(t)
  PROVE  holdCount' \in [Tasks -> Int] /\ objects' \in [Objects -> Nat]
BY ThrowAwayType, PlusType DEF TypeOK, Unhold

\* A jump to a known place keeps pc typed.
LEMMA GotoType ==
  ASSUME TypeOK, NEW x, NEW l \in Pcs, Goto(x, l)
  PROVE  pc' \in [Threads -> Pcs]
BY DEF TypeOK, Goto

\* A thread on a CPU has been launched: its task is set.
LEMMA OnCpuTask ==
  ASSUME TypeOK, NEW x \in Threads, NEW l, At(x, l)
  PROVE  pc[x] = l /\ taskOf[x] \in Tasks
BY ConstantsAssumption DEF TypeOK, At, OnCpu, Holders

\* Every step of a thread keeps the types, and no null pointer is left to follow.
LEMMA ThreadStepType ==
  ASSUME TypeOK, NEW x \in Threads, ThreadStep(x)
  PROVE  TypeOK'
<1> USE DEF Pcs, Noncritical, Holding, Referring
<1>1. CASE EnterHoldScope(x)
  BY <1>1, OnCpuTask, PlusType
     DEF TypeOK, EnterHoldScope, DidHold, Goto, Objects, threadVars, schedVars, gcVars
<1>2. CASE LeaveNestedScope(x)
  BY <1>2, OnCpuTask DEF TypeOK, LeaveNestedScope, Goto, threadVars, schedVars, gcVars
<1>3. CASE LeaveHoldScope(x)
  <2>1. At(x, "held") /\ Unhold(taskOf[x]) BY <1>3 DEF LeaveHoldScope
  <2> QED BY <1>3, <2>1, OnCpuTask, UnholdType DEF TypeOK, LeaveHoldScope, Goto, threadVars, schedVars, gcVars
<1>4. CASE ExitKill(x)
  BY <1>4, OnCpuTask DEF TypeOK, ExitKill, Goto, Objects, threadVars, schedVars, gcVars
<1>5. CASE ExitUnhold(x)
  <2>1. At(x, "exiting") /\ Unhold(taskOf[x]) BY <1>5 DEF ExitUnhold
  <2> QED BY <1>5, <2>1, OnCpuTask, UnholdType DEF TypeOK, ExitUnhold, Goto, threadVars, schedVars, gcVars
<1>6. ASSUME NEW th \in Threads, LaunchThread(x, th) PROVE TypeOK'
  <2>1. /\ At(x, "held") /\ taskOf[th] = None
        /\ taskOf' = [taskOf EXCEPT ![th] = taskOf[x]] /\ ref' = [ref EXCEPT ![x] = th]
        /\ pc' = [pc EXCEPT ![x] = "launch", ![th] = "user"]
        /\ UNCHANGED <<holdCount, killed, inTask, threadList, idLimit, holdingTask, stale,
                       objects, assertFailed>>
        /\ UNCHANGED schedVars /\ UNCHANGED gcVars
    BY <1>6 DEF LaunchThread
  <2>2. retainCount' \in [Objects -> Int] BY <1>6, PlusType DEF TypeOK, LaunchThread
  <2>3. pc[x] = "held" /\ taskOf[x] \in Tasks BY <2>1, OnCpuTask
  <2>4. taskOf' \in [Threads -> Tasks \cup {None}] /\ ref' \in [Holders -> Threads \cup {None}]
        /\ pc' \in [Threads -> Pcs]
    BY <2>1, <2>3 DEF TypeOK, Holders
  <2>5. \A y \in Threads : /\ pc'[y] \in Referring <=> ref'[y] # None
                           /\ pc'[y] = "none" <=> taskOf'[y] = None
                           /\ pc'[y] # "yield" =>
                                (y \in holdingTask' <=> pc'[y] \in Holding)
    BY <2>1, <2>3, ConstantsAssumption DEF TypeOK, Holders
  <2>6. \A h \in Holders : ref'[h] # None => taskOf'[ref'[h]] # None
    BY <2>1, <2>3, ConstantsAssumption DEF TypeOK, Holders
  <2>7. \A y \in queue \cup todo : taskOf'[y] # None
    BY <2>1, <2>3, ConstantsAssumption DEF TypeOK
  <2> QED BY <2>1, <2>2, <2>4, <2>5, <2>6, <2>7 DEF TypeOK, schedVars, gcVars
<1>7. ASSUME NEW th \in Threads, Find(x, th) PROVE TypeOK'
  BY <1>7, OnCpuTask, RetainType, ConstantsAssumption DEF TypeOK, Find, Goto, Holders, threadVars, schedVars, gcVars
<1>8. CASE AddToTask(x)
  BY <1>8, OnCpuTask DEF TypeOK, AddToTask, Goto, Holders, schedVars, gcVars
<1>9. CASE AddToScheduler(x)
  BY <1>9, OnCpuTask DEF TypeOK, AddToScheduler, Goto, Holders, gcVars
<1>10. CASE LaunchFailed(x)
  BY <1>10, OnCpuTask, ReleaseType DEF TypeOK, LaunchFailed, GiveUp, Goto, Holders, Objects, threadVars, schedVars
<1>11. CASE ReleaseFound(x)
  BY <1>11, OnCpuTask, ReleaseType DEF TypeOK, ReleaseFound, Goto, Holders, threadVars, schedVars, gcVars
<1>12. CASE FinishRelease(x)
  BY <1>12, OnCpuTask DEF TypeOK, FinishRelease, Goto, Holders, threadVars, schedVars, gcVars
<1> QED
  BY <1>1, <1>2, <1>3, <1>4, <1>5, <1>6, <1>7, <1>8, <1>9, <1>10, <1>11, <1>12
     DEF ThreadStep

\* So does every step of Switch.
LEMMA SwitchStepType ==
  ASSUME TypeOK, NEW c \in Cpus, SwitchStep(c)
  PROVE  TypeOK'
<1> USE ConstantsAssumption DEF Holders
<1>1. CASE SwitchEnter(c)
  BY <1>1, ReleaseType DEF TypeOK, SwitchEnter, GlobalMap, threadVars, gcVars
<1>2. CASE SwitchRetain(c)
  BY <1>2, RetainType DEF TypeOK, SwitchRetain, threadVars, gcVars
<1>3. CASE SwitchSkip(c)
  BY <1>3, ReleaseType DEF TypeOK, SwitchSkip, threadVars, schedVars, gcVars
<1>4. CASE SwitchTake(c)
  BY <1>4 DEF TypeOK, SwitchTake, threadVars, gcVars
<1>5. CASE SwitchIdle(c)
  BY <1>5 DEF TypeOK, SwitchIdle, threadVars, gcVars
<1> QED
  BY <1>1, <1>2, <1>3, <1>4, <1>5 DEF SwitchStep

\* And every step of the collector.
LEMMA GcStepType ==
  ASSUME TypeOK, GcStep
  PROVE  TypeOK'
<1>1. ASSUME NEW o \in Objects, GcShift(o) PROVE TypeOK'
  BY <1>1, ConstantsAssumption DEF TypeOK, GcShift, Plus, threadVars, schedVars
<1>2. CASE GcNextThread
  BY <1>2, ConstantsAssumption DEF TypeOK, GcNextThread, threadVars, schedVars
<1>3. CASE GcRemove
  BY <1>3 DEF TypeOK, GcRemove, Unlisted, threadVars
<1>4. CASE GcReleaseTask
  BY <1>4, ThrowAwayType, PlusType DEF TypeOK, GcReleaseTask, schedVars
<1>5. CASE GcDelete
  BY <1>5 DEF TypeOK, GcDelete, Objects, threadVars, schedVars
<1> QED
  BY <1>1, <1>2, <1>3, <1>4, <1>5 DEF GcStep

\* Every variable keeps its type: the counters are numbers, the collector's list
\* holds no object a negative number of times, and no null pointer is followed.
THEOREM TypeCorrect == Spec => []TypeOK
<1>1. TypeOK /\ [Next]_vars => TypeOK'
  <2> SUFFICES ASSUME TypeOK, [Next]_vars PROVE TypeOK' OBVIOUS
  <2>1. CASE UNCHANGED vars
    BY <2>1 DEF TypeOK, vars, threadVars, schedVars, gcVars
  <2> QED
    BY <2>1, ThreadStepType, SwitchStepType, GcStepType DEF Next
<1> QED
  BY InitType, <1>1, PTL DEF Spec

-----------------------------------------------------------------------------
(* The hold count is exact, and nothing comes back to life.                *)

\* The hold count of a task is the number of its threads inside a HoldScope (part of
\* CountsExact); only a thread that was launched can have been killed.
HoldsExact == \A t \in Tasks : holdCount[t] = Cardinality(Holds(t))
KilledLaunched == \A th \in Threads \cap killed : taskOf[th] # None

HInv == TypeOK /\ HoldsExact /\ KilledLaunched

\* The threads inside a HoldScope can be counted.
LEMMA HoldsFinite ==
  ASSUME NEW t
  PROVE  IsFiniteSet(Holds(t)) /\ Cardinality(Holds(t)) \in Nat
         /\ (Cardinality(Holds(t)) = 0 => Holds(t) = {})
<1>1. IsFiniteSet(Holds(t)) BY ConstantsAssumption, FS_Subset DEF Holds
<1> QED BY <1>1, FS_CardinalityType, FS_EmptySet

\* A thread inside a HoldScope keeps its task's hold count above zero.
LEMMA HeldTask ==
  ASSUME HInv, NEW x \in Threads, NEW l \in Holding, At(x, l)
  PROVE  taskOf[x] \in Tasks /\ x \in Holds(taskOf[x]) /\ holdCount[taskOf[x]] # 0
<1>1. taskOf[x] \in Tasks /\ pc[x] = l BY OnCpuTask DEF HInv
<1>2. x \in Holds(taskOf[x]) BY <1>1 DEF Holds
<1> QED BY <1>1, <1>2, HoldsFinite DEF HInv, HoldsExact

\* Of the threads' places only the entry to and the end of a HoldScope change who
\* holds what.
LEMMA HoldsSame ==
  ASSUME HoldsExact, holdCount' = holdCount,
         \A x \in Threads : \A t \in Tasks :
           taskOf'[x] = t /\ pc'[x] \in Holding <=> taskOf[x] = t /\ pc[x] \in Holding
  PROVE  HoldsExact'
<1>1. \A t \in Tasks : Holds(t)' = Holds(t) BY DEF Holds
<1> QED BY <1>1 DEF HoldsExact

\* The end of a HoldScope gives back exactly the hold it took.
LEMMA UnholdExact ==
  ASSUME HInv, NEW x \in Threads, LeaveHoldScope(x) \/ ExitUnhold(x)
  PROVE  HoldsExact'
<1>1. PICK l \in {"held", "exiting"} : At(x, l)
  BY DEF LeaveHoldScope, ExitUnhold
<1>2. taskOf[x] \in Tasks /\ x \in Holds(taskOf[x]) /\ holdCount[taskOf[x]] # 0
  BY <1>1, HeldTask DEF Holding
<1>3. PICK t \in Tasks : t = taskOf[x] BY <1>2
<1>4. UNCHANGED taskOf /\ \E m \in {"user", "yield"} : pc' = [pc EXCEPT ![x] = m]
  BY DEF LeaveHoldScope, ExitUnhold, Goto, threadVars
<1>5. holdCount' = [holdCount EXCEPT ![t] = @ - 1]
  BY <1>3 DEF HInv, TypeOK, LeaveHoldScope, ExitUnhold, Unhold, Plus
<1>6. Holds(t)' = Holds(t) \ {x}
  BY <1>3, <1>4 DEF HInv, TypeOK, Holds, Holding
<1>7. \A u \in Tasks \ {t} : Holds(u)' = Holds(u)
  BY <1>3, <1>4 DEF HInv, TypeOK, Holds, Holding
<1>8. Cardinality(Holds(t) \ {x}) = Cardinality(Holds(t)) - 1
  BY <1>2, <1>3, HoldsFinite, FS_RemoveElement
<1>9. holdCount'[t] = Cardinality(Holds(t)')
  <2>1. holdCount'[t] = holdCount[t] - 1 BY <1>5 DEF HInv, TypeOK
  <2>2. holdCount[t] = Cardinality(Holds(t)) BY DEF HInv, HoldsExact
  <2> QED BY ONLY <1>6, <1>8, <2>1, <2>2
<1>10. ASSUME NEW u \in Tasks, u # t PROVE holdCount'[u] = Cardinality(Holds(u)')
  <2>1. holdCount'[u] = holdCount[u] BY <1>5, <1>10 DEF HInv, TypeOK
  <2>2. holdCount[u] = Cardinality(Holds(u)) BY DEF HInv, HoldsExact
  <2> QED BY <1>7, <1>10, <2>1, <2>2
<1> QED BY <1>9, <1>10 DEF HoldsExact

\* A thread that is about to enter a HoldScope is in user code, and the scope holds
\* the task if it can, or in a system call, and the scope is a nested one.
LEMMA EnterHoldScopeIs ==
  ASSUME TypeOK, NEW x \in Threads, EnterHoldScope(x)
  PROVE  /\ taskOf[x] \in Tasks /\ UNCHANGED taskOf
         /\ \/ /\ pc[x] = "user" /\ CanHold(taskOf[x]) /\ Goto(x, "held")
               /\ holdCount' = Plus(holdCount, {taskOf[x]}, 1)
            \/ /\ pc[x] = "user" /\ ~CanHold(taskOf[x]) /\ Goto(x, "yield")
               /\ UNCHANGED holdCount
            \/ /\ pc[x] = "held" /\ Goto(x, "fault") /\ UNCHANGED holdCount
<1>1. pc[x] \in {"user", "held"} /\ taskOf[x] \in Tasks /\ UNCHANGED taskOf
  BY OnCpuTask DEF EnterHoldScope, threadVars
<1>2. DidHold(x) <=> pc[x] = "user" BY <1>1 DEF TypeOK, DidHold, Holding
<1> QED BY <1>1, <1>2 DEF EnterHoldScope

\* The start of one takes exactly one hold, or none.
LEMMA HoldExact ==
  ASSUME HInv, NEW x \in Threads, EnterHoldScope(x)
  PROVE  HoldsExact'
<1>1. taskOf[x] \in Tasks /\ UNCHANGED taskOf BY EnterHoldScopeIs DEF HInv
<1>2. PICK t \in Tasks : t = taskOf[x] BY <1>1
<1>3. CASE /\ pc[x] = "user" /\ Goto(x, "held")
           /\ holdCount' = Plus(holdCount, {t}, 1)
  <2>1. pc' = [pc EXCEPT ![x] = "held"] BY <1>3 DEF Goto
  <2>2. holdCount' = [holdCount EXCEPT ![t] = @ + 1] BY <1>3 DEF HInv, TypeOK, Plus
  <2>3. \A u \in Tasks \ {t} : Holds(u)' = Holds(u)
    BY <1>1, <1>2, <1>3, <2>1 DEF HInv, TypeOK, Holds, Holding
  <2>4. Holds(t)' = Holds(t) \cup {x} /\ x \notin Holds(t)
    BY <1>1, <1>2, <1>3, <2>1 DEF HInv, TypeOK, Holds, Holding
  <2>5. Cardinality(Holds(t) \cup {x}) = Cardinality(Holds(t)) + 1
    BY <2>4, HoldsFinite, FS_AddElement
  <2>6. holdCount'[t] = Cardinality(Holds(t)')
    <3>1. holdCount'[t] = holdCount[t] + 1 BY <2>2 DEF HInv, TypeOK
    <3>2. holdCount[t] = Cardinality(Holds(t)) BY DEF HInv, HoldsExact
    <3>3. Cardinality(Holds(t)') = Cardinality(Holds(t)) + 1 BY <2>4, <2>5
    <3> QED BY ONLY <3>1, <3>2, <3>3
  <2>7. ASSUME NEW u \in Tasks, u # t PROVE holdCount'[u] = Cardinality(Holds(u)')
    <3>1. holdCount'[u] = holdCount[u] BY <2>2, <2>7 DEF HInv, TypeOK
    <3>2. holdCount[u] = Cardinality(Holds(u)) BY DEF HInv, HoldsExact
    <3>3. Holds(u)' = Holds(u) BY <2>3, <2>7
    <3> QED BY <3>1, <3>2, <3>3
  <2> QED BY <2>6, <2>7 DEF HoldsExact
<1>4. CASE /\ UNCHANGED holdCount
           /\ \/ pc[x] = "user" /\ Goto(x, "yield")
              \/ pc[x] = "held" /\ Goto(x, "fault")
  BY <1>1, <1>4, HoldsSame DEF HInv, TypeOK, Goto, Holding
<1> QED BY <1>2, <1>3, <1>4, EnterHoldScopeIs DEF HInv

\* Every step keeps the hold counts exact and kills only threads that run.
LEMMA ThreadStepHolds ==
  ASSUME HInv, NEW x \in Threads, ThreadStep(x)
  PROVE  HoldsExact' /\ KilledLaunched'
<1> USE DEF HInv
<1>1. CASE EnterHoldScope(x)
  <2>1. taskOf[x] \in Tasks BY <1>1, OnCpuTask DEF EnterHoldScope
  <2>2. KilledLaunched'
    BY <1>1, <2>1, ConstantsAssumption DEF EnterHoldScope, KilledLaunched, threadVars
  <2> QED BY <1>1, <2>2, HoldExact
<1>2. CASE LeaveHoldScope(x) \/ ExitUnhold(x)
  <2>1. KilledLaunched' BY <1>2 DEF LeaveHoldScope, ExitUnhold, KilledLaunched, threadVars
  <2> QED BY <1>2, <2>1, UnholdExact
<1>3. CASE ExitKill(x)
  <2>1. taskOf[x] \in Tasks /\ pc[x] \in {"held", "exitTask"}
    BY <1>3, OnCpuTask DEF ExitKill
  <2>2. KilledLaunched'
    BY <1>3, <2>1, ConstantsAssumption DEF ExitKill, KilledLaunched, threadVars
  <2>3. UNCHANGED <<holdCount, taskOf>> /\ \E l \in Holding : pc' = [pc EXCEPT ![x] = l]
    BY <1>3 DEF ExitKill, Goto, Holding, threadVars
  <2>4. HoldsExact' BY <2>1, <2>3, HoldsSame DEF TypeOK, Holding
  <2> QED BY <2>2, <2>4
<1>4. ASSUME NEW th \in Threads, LaunchThread(x, th) PROVE HoldsExact' /\ KilledLaunched'
  <2>1. /\ pc[x] = "held" /\ pc[th] = "none" /\ taskOf[x] \in Tasks /\ taskOf[th] = None
        /\ pc' = [pc EXCEPT ![x] = "launch", ![th] = "user"]
        /\ taskOf' = [taskOf EXCEPT ![th] = taskOf[x]] /\ UNCHANGED <<holdCount, killed>>
    BY <1>4, OnCpuTask DEF LaunchThread, TypeOK
  <2>2. HoldsExact' BY <2>1, HoldsSame DEF TypeOK, Holding
  <2>3. KilledLaunched' BY <2>1, ConstantsAssumption DEF TypeOK, KilledLaunched
  <2> QED BY <2>2, <2>3
<1>5. ASSUME NEW th \in Threads,
             \/ Find(x, th) \/ LeaveNestedScope(x) \/ AddToTask(x) \/ AddToScheduler(x)
             \/ LaunchFailed(x) \/ ReleaseFound(x) \/ FinishRelease(x)
      PROVE  HoldsExact' /\ KilledLaunched'
  <2>1. pc[x] \in Holding /\ (UNCHANGED pc \/ \E l \in Holding : pc' = [pc EXCEPT ![x] = l])
    BY <1>5 DEF Find, LeaveNestedScope, AddToTask, AddToScheduler, LaunchFailed,
                ReleaseFound, FinishRelease, At, Goto, Holding
  <2>2. UNCHANGED <<holdCount, killed, taskOf>>
    BY <1>5 DEF Find, LeaveNestedScope, AddToTask, AddToScheduler, LaunchFailed,
                ReleaseFound, FinishRelease, threadVars
  <2>3. HoldsExact' BY <2>1, <2>2, HoldsSame DEF TypeOK
  <2> QED BY <2>2, <2>3 DEF KilledLaunched
<1> QED BY <1>1, <1>2, <1>3, <1>4, <1>5 DEF ThreadStep

\* Neither Switch nor the collector holds a task.
LEMMA OtherStepHolds ==
  ASSUME HInv, GcStep \/ UNCHANGED vars \/ \E c \in Cpus : SwitchStep(c)
  PROVE  HoldsExact' /\ KilledLaunched'
<1>1. UNCHANGED <<holdCount, killed, taskOf, pc>>
  BY DEF GcStep, GcShift, GcNextThread, GcRemove, GcReleaseTask, GcDelete, SwitchStep,
         SwitchEnter, SwitchRetain, SwitchSkip, SwitchTake, SwitchIdle, threadVars, vars
<1>2. HoldsExact' BY <1>1, HoldsSame DEF HInv
<1> QED BY <1>1, <1>2 DEF HInv, KilledLaunched

\* So the hold counts are exact in every reachable state.
LEMMA HoldsInductive == Spec => []HInv
<1>1. Init => HInv
  <2> SUFFICES ASSUME Init PROVE HInv OBVIOUS
  <2>1. \A t \in Tasks : Holds(t) = {} BY DEF Init, Holds, Holding
  <2>2. HoldsExact BY <2>1, FS_EmptySet DEF Init, HoldsExact
  <2> QED BY <2>2, InitType DEF Init, HInv, KilledLaunched
<1>2. HInv /\ [Next]_vars => (HoldsExact /\ KilledLaunched)'
  BY ThreadStepHolds, OtherStepHolds DEF Next
<1> QED BY <1>1, <1>2, TypeCorrect, PTL DEF Spec, HInv

\* Release and Unhold only lower counts.
LEMMA ReleaseLowers ==
  ASSUME TypeOK, NEW th \in Threads, taskOf[th] \in Tasks, Release(th)
  PROVE  \A o \in Objects : retainCount'[o] <= retainCount[o]
BY DEF TypeOK, Release, Plus, Objects

\* A thread that can be retained is not killed, nor dead with its task.
LEMMA RetainSparesDead ==
  ASSUME TypeOK, NEW th \in Threads, taskOf[th] \in Tasks, CanRetain(th), Retain(th)
  PROVE  \A o \in Objects \cap killed :
           o \in Threads \/ holdCount[o] = 0 => retainCount'[o] = retainCount[o]
<1>1. \A o \in Objects : o \notin {th, taskOf[th]} => retainCount'[o] = retainCount[o]
  BY DEF TypeOK, Retain, Plus
<1>2. th \notin killed BY DEF CanRetain
<1>3. taskOf[th] \in killed => holdCount[taskOf[th]] # 0 /\ taskOf[th] \notin Threads
  BY ConstantsAssumption DEF CanRetain, CanRetainTask
<1> QED BY <1>1, <1>2, <1>3

\* A step that leaves the hold counts alone and raises no count of the dead.
LEMMA DeadByCounts ==
  ASSUME TypeOK, UNCHANGED holdCount,
         \A o \in Objects \cap killed :
           o \in Threads \/ holdCount[o] = 0 => retainCount'[o] <= retainCount[o]
  PROVE  StaysDead
BY DEF StaysDead, Objects, TypeOK

\* A thread's step revives nothing: a hold it gives back was counted, and what it retains is alive.
LEMMA ThreadStepDead ==
  ASSUME HInv, NEW x \in Threads, ThreadStep(x)
  PROVE  StaysDead
<1> USE DEF HInv
<1>1. CASE EnterHoldScope(x)
  BY <1>1 DEF EnterHoldScope, CanHold, Plus, StaysDead, TypeOK, Objects
<1>2. CASE LeaveHoldScope(x) \/ ExitUnhold(x)
  <2>1. PICK l \in {"held", "exiting"} : At(x, l)
    BY <1>2 DEF LeaveHoldScope, ExitUnhold
  <2>2. holdCount[taskOf[x]] # 0 BY <2>1, HeldTask DEF Holding
  <2>3. UNCHANGED retainCount /\ \A t \in Tasks : t # taskOf[x] => holdCount'[t] = holdCount[t]
    BY <1>2 DEF LeaveHoldScope, ExitUnhold, Unhold, Plus, TypeOK
  <2> QED BY <2>2, <2>3 DEF StaysDead, TypeOK, Objects
<1>3. ASSUME NEW th \in Threads, LaunchThread(x, th) PROVE StaysDead
  <2>1. taskOf[x] \in Tasks /\ taskOf[th] = None BY <1>3, OnCpuTask DEF LaunchThread
  <2>2. th \notin killed BY <2>1 DEF KilledLaunched
  <2>3. UNCHANGED holdCount
        /\ \A o \in Objects :
             o = th \/ (o = taskOf[x] /\ CanRetainTask(o)) \/ retainCount'[o] = retainCount[o]
    BY <1>3 DEF LaunchThread, Plus, TypeOK
  <2> QED
    BY <2>1, <2>2, <2>3, DeadByCounts, ConstantsAssumption DEF CanRetainTask, TypeOK, Objects
<1>4. ASSUME NEW th \in Threads, Find(x, th) PROVE StaysDead
  <2>1. taskOf[th] \in Tasks BY <1>4, OnCpuTask DEF Find
  <2>2. UNCHANGED holdCount BY <1>4 DEF Find
  <2>3. CASE CanRetain(th) /\ Retain(th)
    BY <2>1, <2>2, <2>3, RetainSparesDead, DeadByCounts DEF TypeOK, Objects
  <2>4. CASE UNCHANGED retainCount BY <2>2, <2>4, DeadByCounts DEF TypeOK, Objects
  <2> QED BY <1>4, <2>3, <2>4 DEF Find
<1>5. CASE LaunchFailed(x) \/ ReleaseFound(x)
  <2>1. pc[x] \in Referring BY <1>5 DEF LaunchFailed, ReleaseFound, At, Referring
  <2>2. ref[x] \in Threads /\ taskOf[ref[x]] \in Tasks
    BY <2>1, ConstantsAssumption DEF TypeOK, Holders
  <2>3. Release(ref[x]) /\ UNCHANGED holdCount
    BY <1>5 DEF LaunchFailed, ReleaseFound, GiveUp
  <2> QED BY <2>2, <2>3, ReleaseLowers, DeadByCounts DEF TypeOK, Objects
<1>6. CASE ExitKill(x) \/ LeaveNestedScope(x) \/ AddToTask(x) \/ AddToScheduler(x) \/ FinishRelease(x)
  <2>1. UNCHANGED <<holdCount, retainCount>>
    BY <1>6 DEF ExitKill, LeaveNestedScope, AddToTask, AddToScheduler, FinishRelease
  <2> QED BY <2>1, DeadByCounts DEF TypeOK, Objects
<1> QED BY <1>1, <1>2, <1>3, <1>4, <1>5, <1>6 DEF ThreadStep

\* Nor does Switch: it passes over the threads it cannot retain.
LEMMA SwitchStepDead ==
  ASSUME HInv, NEW c \in Cpus, SwitchStep(c)
  PROVE  StaysDead
<1> USE DEF HInv
<1>1. CASE SwitchEnter(c) \/ SwitchSkip(c)
  <2>1. UNCHANGED holdCount /\ (UNCHANGED retainCount \/ (ref[c] # None /\ Release(ref[c])))
    BY <1>1 DEF SwitchEnter, SwitchSkip
  <2>2. ref[c] # None => ref[c] \in Threads /\ taskOf[ref[c]] \in Tasks
    BY ConstantsAssumption DEF TypeOK, Holders
  <2> QED BY <2>1, <2>2, ReleaseLowers, DeadByCounts DEF TypeOK, Objects
<1>2. CASE SwitchRetain(c)
  <2>1. PICK th \in todo : (CanRetain(th) /\ Retain(th)) \/ UNCHANGED retainCount
    BY <1>2 DEF SwitchRetain
  <2>2. th \in Threads /\ taskOf[th] \in Tasks BY ConstantsAssumption DEF TypeOK
  <2>3. UNCHANGED holdCount BY <1>2 DEF SwitchRetain
  <2>4. CASE CanRetain(th) /\ Retain(th)
    BY <2>2, <2>3, <2>4, RetainSparesDead, DeadByCounts DEF TypeOK, Objects
  <2>5. CASE UNCHANGED retainCount BY <2>3, <2>5, DeadByCounts DEF TypeOK, Objects
  <2> QED BY <2>1, <2>4, <2>5
<1>3. CASE SwitchTake(c) \/ SwitchIdle(c)
  <2>1. UNCHANGED <<holdCount, retainCount>> BY <1>3 DEF SwitchTake, SwitchIdle
  <2> QED BY <2>1, DeadByCounts DEF TypeOK, Objects
<1> QED BY <1>1, <1>2, <1>3 DEF SwitchStep

\* Nor does the collector, which only gives references back.
LEMMA GcStepDead ==
  ASSUME HInv, GcStep
  PROVE  StaysDead
<1>1. UNCHANGED holdCount
  BY DEF GcStep, GcShift, GcNextThread, GcRemove, GcReleaseTask, GcDelete
<1>2. \A o \in Objects : retainCount'[o] <= retainCount[o]
  BY DEF HInv, TypeOK, GcStep, GcShift, GcNextThread, GcRemove, GcReleaseTask, GcDelete, Plus
<1> QED BY <1>1, <1>2, DeadByCounts DEF HInv

\* Whatever the threads, the scheduler and the collector do, a task that was killed
\* and is not held, and a thread that was killed, is never retained or held again.
THEOREM DeadStayDead == Spec => NoResurrection
<1>1. HInv /\ [Next]_vars => [StaysDead]_vars
  BY ThreadStepDead, SwitchStepDead, GcStepDead DEF Next
<1> QED BY HoldsInductive, <1>1, PTL DEF Spec, NoResurrection

-----------------------------------------------------------------------------
(* One CPU per thread.                                                     *)

\* A CPU that takes a thread has the scheduler's lock and found the running flag clear.
LEMMA OneCpuStep ==
  ASSUME TypeOK, OneCpuPerThread, [Next]_vars
  PROVE  OneCpuPerThread'
<1> USE ConstantsAssumption DEF TypeOK, OneCpuPerThread, Holders
<1>1. ASSUME NEW x \in Threads, ThreadStep(x) PROVE OneCpuPerThread'
  <2>1. UNCHANGED ref \/ \E y : ref' = [ref EXCEPT ![x] = y]
    <3>1. CASE \E th \in Threads : LaunchThread(x, th) \/ Find(x, th)
      BY <3>1 DEF LaunchThread, Find
    <3>2. CASE LaunchFailed(x) \/ ReleaseFound(x)
      BY <3>2 DEF LaunchFailed, ReleaseFound
    <3>3. CASE \/ EnterHoldScope(x) \/ LeaveNestedScope(x) \/ LeaveHoldScope(x)
               \/ ExitKill(x) \/ ExitUnhold(x)
      BY <3>3 DEF EnterHoldScope, LeaveNestedScope, LeaveHoldScope, ExitKill, ExitUnhold
    <3>4. CASE AddToTask(x) \/ AddToScheduler(x) \/ FinishRelease(x)
      BY <3>4 DEF AddToTask, AddToScheduler, FinishRelease
    <3> QED BY <1>1, <3>1, <3>2, <3>3, <3>4 DEF ThreadStep
  <2>2. UNCHANGED <<running, schedLock>>
    BY <1>1 DEF ThreadStep, EnterHoldScope, LeaveNestedScope, LeaveHoldScope, ExitKill,
        ExitUnhold, LaunchThread, Find, AddToTask, AddToScheduler, LaunchFailed,
        ReleaseFound, FinishRelease, schedVars
  <2>3. \A c \in Cpus : c # x /\ ref'[c] = ref[c] BY <1>1, <2>1
  <2> QED BY <2>2, <2>3
<1>2. ASSUME NEW c \in Cpus, SwitchStep(c) PROVE OneCpuPerThread'
  <2>1. CASE SwitchEnter(c) BY <2>1 DEF SwitchEnter, ListFree
  <2>2. CASE SwitchRetain(c) BY <2>2 DEF SwitchRetain
  <2>3. CASE SwitchSkip(c) BY <2>3 DEF SwitchSkip, schedVars
  <2>4. CASE SwitchTake(c) BY <2>4 DEF SwitchTake, MayTake
  <2>5. CASE SwitchIdle(c) BY <2>5 DEF SwitchIdle
  <2> QED BY <1>2, <2>1, <2>2, <2>3, <2>4, <2>5 DEF SwitchStep
<1>3. CASE GcStep \/ UNCHANGED vars
  <2>1. UNCHANGED <<ref, running, schedLock>>
    BY <1>3 DEF GcStep, GcShift, GcNextThread, GcRemove, GcReleaseTask, GcDelete,
        schedVars, vars
  <2> QED BY <2>1
<1> QED BY <1>1, <1>2, <1>3 DEF Next

\* Switch gives no thread to two CPUs, on any number of them.
THEOREM OneCpu == Spec => []OneCpuPerThread
<1>1. Init => OneCpuPerThread BY DEF Init, OneCpuPerThread, Holders
<1> QED BY <1>1, OneCpuStep, TypeCorrect, PTL DEF Spec

-----------------------------------------------------------------------------
(* The inductive invariant.                                                *)

\* The counts of threads, and of tasks; the hold counts are HoldsExact.
ThreadCounts == \A th \in Threads : retainCount[th] = Cardinality(ThreadRefs(th))
TaskCounts ==
  \A t \in Tasks : retainCount[t] = Cardinality(TaskRefs(t)) + Cardinality(Unreturned(t))

\* An object is in the collector's list once, from when its last reference (and
\* hold) goes until the collector takes it out.
ThreadListed(th) == th \in killed /\ retainCount[th] = 0 /\ th \notin freed /\ gcThread # th
Dead(t) == t \in killed /\ retainCount[t] = 0 /\ holdCount[t] = 0
TaskListed(t) == Dead(t) /\ t \notin freed /\ gcTask # t
ListExact ==
  /\ \A th \in Threads : objects[th] = IF ThreadListed(th) THEN 1 ELSE 0
  /\ \A t \in Tasks : objects[t] = IF TaskListed(t) THEN 1 ELSE 0

\* The scheduler's list contains whatever a CPU runs, considers or has just
\* released, and only threads that are in their task's list.
Scheduled ==
  /\ queue \subseteq threadList
  /\ todo \subseteq queue /\ (schedLock = None => todo = {})
  /\ \A c \in Cpus : ref[c] # None => ref[c] \in queue
  /\ \A c \in Cpus : stale[c] # None => schedLock = c /\ stale[c] \in queue
  /\ \A th \in running : \E c \in Cpus : ref[c] = th /\ schedLock # c
  /\ \A c \in Cpus : activeMap[c] # None =>
       schedLock # c /\ ref[c] # None /\ activeMap[c] = taskOf[ref[c]]

\* A thread that is being launched is known to its launcher only.
Launching == {"launch", "listed", "unlisted"}
Launches ==
  /\ \A x \in Threads : pc[x] \in Launching => ref[x] \notin queue /\ pc[ref[x]] = "user"
  /\ \A x \in Threads : pc[x] \in {"listed", "launched", "found"} => ref[x] \in threadList
  /\ \A x \in Threads : pc[x] \in {"launch", "unlisted"} => ref[x] \notin threadList
  /\ \A x, y \in Threads :
       pc[x] \in Launching /\ pc[y] \in Launching /\ ref[x] = ref[y] => x = y

\* A thread kills itself only, and then does not leave the kernel; critical code keeps its
\* CPU; a thread that holds its task is in the scheduler's list.
Places ==
  /\ \A th \in Threads \cap killed : pc[th] \in {"exitTask", "exiting", "yield"}
  /\ \A x \in Threads : pc[x] \in {"unlock", "exitTask", "exiting"} =>
       \E c \in Cpus : ref[c] = x /\ schedLock # c
  /\ \A x \in Threads : pc[x] \in Holding /\ x \notin killed => x \in queue

\* What has been deleted, or is about to be, is out of reach for good.
Gone ==
  /\ \A t \in Tasks : t \in freed \/ gcTask = t => Dead(t)
  /\ \A th \in Threads : th \in freed \/ gcThread = th =>
       /\ retainCount[th] = 0 /\ taskOf[th] \in Tasks
       /\ \/ th \in killed \/ Dead(taskOf[th])
          \/ th \notin threadList /\ pc[th] = "user"
  /\ \A th \in Threads \cap freed : th \in threadList => taskOf[th] \in freed \cup {gcTask}
  /\ \A th \in threadList : taskOf[th] \in Tasks
  /\ \A th \in queue :
       /\ th \notin freed /\ taskOf[th] \notin freed
       /\ taskOf[th] = gcTask => th \in gcTodo \/ gcThread = th

\* The collector's control.
Collecting ==
  /\ gcPc = "idle" => gcThread = None /\ gcTask = None
  /\ gcPc = "threads" => gcThread = None
  /\ gcTask = None => gcTodo = {}
  /\ gcTask \notin freed /\ gcThread \notin freed
  /\ \A th \in gcTodo : taskOf[th] = gcTask /\ th \notin freed \cup killed \cup {gcThread}
  /\ gcThread # None =>
       IF gcTask = None THEN gcThread \in killed
                        ELSE taskOf[gcThread] = gcTask /\ gcThread \notin killed
  /\ gcPc = "release" => gcThread \in killed
  /\ gcPc \in {"release", "delete"} => gcThread \notin queue
  /\ gcPc = "delete" /\ gcTask = None => gcThread \notin threadList

Counts == ThreadCounts /\ TaskCounts /\ HoldsExact
Shape == ListExact /\ Scheduled /\ Launches /\ Places /\ Gone /\ Collecting
Inv == TypeOK /\ KilledLaunched /\ OneCpuPerThread /\ Counts /\ Shape

-----------------------------------------------------------------------------
(* What the counts say.                                                    *)

\* All that is counted is finite.
LEMMA CountedFinite ==
  ASSUME NEW o
  PROVE  /\ IsFiniteSet(ThreadRefs(o)) /\ IsFiniteSet(TaskRefs(o)) /\ IsFiniteSet(Unreturned(o))
         /\ Cardinality(ThreadRefs(o)) \in Nat /\ Cardinality(TaskRefs(o)) \in Nat
         /\ Cardinality(Unreturned(o)) \in Nat
<1>1. IsFiniteSet(Holders) BY ConstantsAssumption, FS_Union DEF Holders
<1>2. IsFiniteSet(ThreadRefs(o)) /\ IsFiniteSet(TaskRefs(o)) /\ IsFiniteSet(Unreturned(o))
  BY <1>1, ConstantsAssumption, FS_Subset DEF ThreadRefs, TaskRefs, Unreturned
<1> QED BY <1>2, FS_CardinalityType

\* A set that contains something has a positive cardinality.
LEMMA Counted ==
  ASSUME NEW S, IsFiniteSet(S)
  PROVE  S = {} <=> Cardinality(S) = 0
BY FS_EmptySet

\* A count that is zero counts nothing; what is referred to, or held, has a count.
LEMMA CountFacts ==
  ASSUME TypeOK, Counts
  PROVE  /\ \A o \in Objects : retainCount[o] >= 0
         /\ \A th \in Threads : retainCount[th] = 0 <=> ThreadRefs(th) = {}
         /\ \A t \in Tasks : retainCount[t] = 0 <=> TaskRefs(t) = {} /\ Unreturned(t) = {}
         /\ \A t \in Tasks : holdCount[t] >= 0 /\ (holdCount[t] = 0 <=> Holds(t) = {})
<1>1. \A th \in Threads : retainCount[th] >= 0 /\ (retainCount[th] = 0 <=> ThreadRefs(th) = {})
  BY CountedFinite, Counted DEF Counts, ThreadCounts
<1>2. ASSUME NEW t \in Tasks
      PROVE  /\ retainCount[t] >= 0
             /\ retainCount[t] = 0 <=> TaskRefs(t) = {} /\ Unreturned(t) = {}
  <2>1. retainCount[t] = Cardinality(TaskRefs(t)) + Cardinality(Unreturned(t))
    BY DEF Counts, TaskCounts
  <2>2. TaskRefs(t) = {} <=> Cardinality(TaskRefs(t)) = 0 BY CountedFinite, Counted
  <2>3. Unreturned(t) = {} <=> Cardinality(Unreturned(t)) = 0 BY CountedFinite, Counted
  <2> QED BY <2>1, <2>2, <2>3, CountedFinite
<1>3. \A t \in Tasks : holdCount[t] >= 0 /\ (holdCount[t] = 0 <=> Holds(t) = {})
  BY HoldsFinite, Counted DEF Counts, HoldsExact
<1> QED BY <1>1, <1>2, <1>3 DEF Objects

\* Whatever is referred to is alive, and so is its task.
LEMMA Referred ==
  ASSUME Inv, NEW h \in Holders, ref[h] # None
  PROVE  /\ ref[h] \in Threads /\ taskOf[ref[h]] \in Tasks
         /\ retainCount[ref[h]] >= 1 /\ retainCount[taskOf[ref[h]]] >= 1
         /\ ref[h] \notin freed \cup {gcThread}
         /\ taskOf[ref[h]] \notin freed \cup {gcTask}
<1>1. ref[h] \in Threads /\ taskOf[ref[h]] \in Tasks
  BY ConstantsAssumption DEF Inv, TypeOK
<1>2. h \in ThreadRefs(ref[h]) /\ h \in TaskRefs(taskOf[ref[h]])
  BY DEF ThreadRefs, TaskRefs
<1>3. retainCount[ref[h]] >= 1 /\ retainCount[taskOf[ref[h]]] >= 1
  BY <1>1, <1>2, CountFacts DEF Inv, TypeOK, Objects
<1> QED BY <1>1, <1>3 DEF Inv, Shape, Gone, Dead

\* A thread inside a HoldScope is alive, and so is its task.
LEMMA Held ==
  ASSUME Inv, NEW x \in Threads, pc[x] \in Holding
  PROVE  /\ taskOf[x] \in Tasks /\ holdCount[taskOf[x]] >= 1
         /\ x \notin freed \cup {gcThread} /\ taskOf[x] \notin freed \cup {gcTask}
<1>1. taskOf[x] \in Tasks BY DEF Inv, TypeOK, Holding
<1>2. x \in Holds(taskOf[x]) BY DEF Holds
<1>3. holdCount[taskOf[x]] >= 1 BY <1>1, <1>2, CountFacts DEF Inv, TypeOK
<1>4. taskOf[x] \notin freed \cup {gcTask} BY <1>1, <1>3 DEF Inv, Shape, Gone, Dead
<1>5. x \in killed => \E c \in Cpus : ref[c] = x
  BY DEF Inv, Shape, Places, Holding
<1>6. x \in killed => x \notin freed \cup {gcThread}
  BY <1>5, Referred, ConstantsAssumption DEF Holders
<1>7. x \notin killed => x \notin freed \cup {gcThread}
  BY <1>1, <1>3 DEF Inv, Shape, Gone, Dead, Holding
<1> QED BY <1>1, <1>3, <1>4, <1>6, <1>7

-----------------------------------------------------------------------------
(* The counts of threads and tasks, kept by every way to change them.      *)

RefCounts == ThreadCounts /\ TaskCounts
Owing(th) == th \in killed /\ th \notin freed /\ ~(gcThread = th /\ gcPc = "delete")

\* A count with one element more, or less.
LEMMA OneMore ==
  ASSUME NEW S, NEW T, NEW e, IsFiniteSet(S), e \notin S, T = S \cup {e}
  PROVE  Cardinality(T) = Cardinality(S) + 1
BY FS_AddElement

\* And less.
LEMMA OneLess ==
  ASSUME NEW S, NEW T, NEW e, IsFiniteSet(S), e \in S, T = S \ {e}
  PROVE  Cardinality(T) = Cardinality(S) - 1
BY FS_RemoveElement

\* A step that changes no reference, nor who owes one.
LEMMA CountsKept ==
  ASSUME RefCounts, UNCHANGED <<retainCount, ref, taskOf>>,
         \A th \in Threads : retainCount[th] = 0 => (Owing(th)' <=> Owing(th))
  PROVE  RefCounts'
<1>1. \A o : ThreadRefs(o)' = ThreadRefs(o) /\ TaskRefs(o)' = TaskRefs(o)
  BY DEF ThreadRefs, TaskRefs
<1>2. \A t : Unreturned(t)' = Unreturned(t) BY DEF Unreturned, Owing
<1> QED BY <1>1, <1>2 DEF RefCounts, ThreadCounts, TaskCounts

\* A thread or CPU retains a thread and refers to it.
LEMMA CountsRetained ==
  ASSUME Inv, NEW h \in Holders, NEW th \in Threads, taskOf[th] \in Tasks, th \notin killed,
         ref[h] = None, ref' = [ref EXCEPT ![h] = th], Retain(th),
         UNCHANGED <<taskOf, killed, freed, gcThread, gcPc>>
  PROVE  RefCounts'
<1> USE DEF Inv, TypeOK, Counts
<1>1. /\ \A o \in Objects : retainCount'[o] = IF o \in {th, taskOf[th]} THEN retainCount[o] + 1
                                              ELSE retainCount[o]
      /\ Threads \cap Tasks = {} /\ Threads \subseteq Objects /\ Tasks \subseteq Objects
      /\ th # None
  BY ConstantsAssumption DEF Retain, Plus, Objects
<1>2. ThreadCounts'
  <2>1. ThreadRefs(th)' = ThreadRefs(th) \cup {h} /\ h \notin ThreadRefs(th)
    BY <1>1 DEF ThreadRefs
  <2>2. \A u \in Threads \ {th} : ThreadRefs(u)' = ThreadRefs(u)
    BY <1>1, ConstantsAssumption DEF ThreadRefs
  <2>3. Cardinality(ThreadRefs(th)') = Cardinality(ThreadRefs(th)) + 1
    BY <2>1, CountedFinite, OneMore
  <2>4. \A u \in Threads \ {th} : retainCount'[u] = retainCount[u] BY <1>1
  <2>5. retainCount'[th] = retainCount[th] + 1 BY <1>1
  <2> QED BY <2>2, <2>3, <2>4, <2>5 DEF ThreadCounts
<1>3. \A t \in Tasks : Unreturned(t)' = Unreturned(t)
  BY <1>1 DEF Unreturned
<1>4. TaskCounts'
  <2>1. PICK t \in Tasks : t = taskOf[th] OBVIOUS
  <2>2. TaskRefs(t)' = TaskRefs(t) \cup {h} /\ h \notin TaskRefs(t)
    BY <1>1, <2>1 DEF TaskRefs
  <2>3. \A u \in Tasks \ {t} : TaskRefs(u)' = TaskRefs(u) BY <1>1, <2>1 DEF TaskRefs
  <2>4. Cardinality(TaskRefs(t)') = Cardinality(TaskRefs(t)) + 1
    BY <2>2, CountedFinite, OneMore
  <2>5. /\ \A u \in Tasks \ {t} : retainCount'[u] = retainCount[u]
        /\ retainCount'[t] = retainCount[t] + 1
    BY <1>1, <2>1
  <2> QED BY <1>3, <2>3, <2>4, <2>5, CountedFinite DEF TaskCounts
<1> QED BY <1>2, <1>4 DEF RefCounts

\* It gives the reference back; if it was the last one to a killed thread, that thread
\* owes its task a reference from now on.
LEMMA CountsReleased ==
  ASSUME Inv, NEW h \in Holders, NEW th \in Threads, ref[h] = th,
         ref' = [ref EXCEPT ![h] = None], Release(th),
         freed' = freed \/ (th \notin killed /\ freed' = freed \cup {th}),
         UNCHANGED <<taskOf, killed, gcThread, gcPc>>
  PROVE  RefCounts'
<1> USE DEF Inv, TypeOK, Counts
<1>1. /\ th # None /\ taskOf[th] \in Tasks /\ retainCount[th] >= 1
      /\ th \notin freed \cup {gcThread}
      /\ Threads \cap Tasks = {} /\ Threads \subseteq Objects /\ Tasks \subseteq Objects
  BY Referred, ConstantsAssumption DEF Objects
<1>2. PICK t \in Tasks : t = taskOf[th] BY <1>1
<1>3. /\ \A u \in Threads : retainCount'[u] = IF u = th THEN retainCount[u] - 1 ELSE retainCount[u]
      /\ \A u \in Tasks \ {t} : retainCount'[u] = retainCount[u]
      /\ retainCount'[t] = IF LastOfKilled(th) THEN retainCount[t] ELSE retainCount[t] - 1
  BY <1>1, <1>2 DEF Release, Plus
<1>4. ThreadCounts'
  <2>1. ThreadRefs(th)' = ThreadRefs(th) \ {h} /\ h \in ThreadRefs(th)
    BY <1>1, ConstantsAssumption DEF ThreadRefs
  <2>2. \A u \in Threads \ {th} : ThreadRefs(u)' = ThreadRefs(u)
    BY <1>1, ConstantsAssumption DEF ThreadRefs
  <2>3. Cardinality(ThreadRefs(th)') = Cardinality(ThreadRefs(th)) - 1
    BY <2>1, CountedFinite, OneLess
  <2> QED BY <1>3, <2>2, <2>3 DEF ThreadCounts
<1>5. TaskRefs(t)' = TaskRefs(t) \ {h} /\ h \in TaskRefs(t)
  BY <1>1, <1>2 DEF TaskRefs
<1>6. \A u \in Tasks \ {t} : TaskRefs(u)' = TaskRefs(u) BY <1>1, <1>2 DEF TaskRefs
<1>7. Cardinality(TaskRefs(t)') = Cardinality(TaskRefs(t)) - 1
  BY <1>5, CountedFinite, OneLess
<1>8. \A u \in Tasks \ {t} : Unreturned(u)' = Unreturned(u)
  BY <1>1, <1>2, <1>3 DEF Unreturned
<1>9. CASE LastOfKilled(th)
  <2>1. Unreturned(t)' = Unreturned(t) \cup {th} /\ th \notin Unreturned(t)
    BY <1>1, <1>2, <1>3, <1>9 DEF Unreturned, LastOfKilled
  <2>2. Cardinality(Unreturned(t)') = Cardinality(Unreturned(t)) + 1
    BY <2>1, CountedFinite, OneMore
  <2>3. TaskCounts'
    BY <1>3, <1>6, <1>7, <1>8, <1>9, <2>2, CountedFinite DEF TaskCounts
  <2> QED BY <1>4, <2>3 DEF RefCounts
<1>10. CASE ~LastOfKilled(th)
  <2>1. Unreturned(t)' = Unreturned(t)
    BY <1>1, <1>2, <1>3, <1>10 DEF Unreturned, LastOfKilled
  <2>2. TaskCounts'
    BY <1>3, <1>6, <1>7, <1>8, <1>10, <2>1, CountedFinite DEF TaskCounts
  <2> QED BY <1>4, <2>2 DEF RefCounts
<1> QED BY <1>9, <1>10

\* A new thread starts with its launcher's reference, and its task has one more.
LEMMA CountsLaunched ==
  ASSUME Inv, NEW x \in Threads, NEW th \in Threads, LaunchThread(x, th)
  PROVE  RefCounts'
<1> USE DEF Inv, TypeOK, Counts
<1>1. pc[x] = "held" /\ taskOf[x] \in Tasks BY OnCpuTask DEF LaunchThread
<1>2. holdCount[taskOf[x]] # 0 BY <1>1, Held DEF Holding
<1>3. PICK t \in Tasks : t = taskOf[x] BY <1>1
<1>4. /\ taskOf[th] = None /\ taskOf' = [taskOf EXCEPT ![th] = t]
      /\ ref' = [ref EXCEPT ![x] = th] /\ ref[x] = None /\ th # None /\ x \in Holders
      /\ \A u \in Threads : retainCount'[u] = IF u = th THEN retainCount[u] + 1 ELSE retainCount[u]
      /\ \A u \in Tasks \ {t} : retainCount'[u] = retainCount[u]
      /\ retainCount'[t] = retainCount[t] + 1
  BY <1>1, <1>2, <1>3, ConstantsAssumption
     DEF LaunchThread, Plus, CanRetainTask, Objects, Holders, Referring
<1>5. \A h \in Holders : ref[h] # th BY <1>4
<1>6. th \notin killed BY <1>4 DEF KilledLaunched
<1>7. UNCHANGED <<killed, freed, gcThread, gcPc>> BY DEF LaunchThread, gcVars
<1>8. ThreadCounts'
  <2>1. ThreadRefs(th)' = ThreadRefs(th) \cup {x} /\ x \notin ThreadRefs(th)
    BY <1>4 DEF ThreadRefs
  <2>2. \A u \in Threads \ {th} : ThreadRefs(u)' = ThreadRefs(u)
    BY <1>4, ConstantsAssumption DEF ThreadRefs
  <2>3. Cardinality(ThreadRefs(th)') = Cardinality(ThreadRefs(th)) + 1
    BY <2>1, CountedFinite, OneMore
  <2> QED BY <1>4, <2>2, <2>3 DEF ThreadCounts
<1>9. TaskRefs(t)' = TaskRefs(t) \cup {x} /\ x \notin TaskRefs(t)
  BY <1>4, <1>5, ConstantsAssumption DEF TaskRefs
<1>10. \A u \in Tasks \ {t} : TaskRefs(u)' = TaskRefs(u)
  BY <1>4, <1>5, ConstantsAssumption DEF TaskRefs
<1>11. Cardinality(TaskRefs(t)') = Cardinality(TaskRefs(t)) + 1
  BY <1>9, CountedFinite, OneMore
<1>12. \A u \in Tasks : Unreturned(u)' = Unreturned(u)
  BY <1>4, <1>6, <1>7 DEF Unreturned
<1>13. TaskCounts'
  BY <1>4, <1>10, <1>11, <1>12, CountedFinite DEF TaskCounts
<1> QED BY <1>8, <1>13 DEF RefCounts

\* The collector gives back the reference that a killed thread owes its task.
LEMMA CountsReturned ==
  ASSUME Inv, GcReleaseTask
  PROVE  RefCounts'
<1> USE DEF Inv, TypeOK, Counts
<1>1. /\ gcPc = "release" /\ gcThread \in Threads \cap killed /\ gcThread \notin freed
      /\ retainCount[gcThread] = 0 /\ taskOf[gcThread] \in Tasks
  BY DEF GcReleaseTask, Shape, Collecting, Gone
<1>2. PICK t \in Tasks : t = taskOf[gcThread] BY <1>1
<1>3. /\ \A u \in Threads : retainCount'[u] = retainCount[u]
      /\ \A u \in Tasks \ {t} : retainCount'[u] = retainCount[u]
      /\ retainCount'[t] = retainCount[t] - 1
      /\ UNCHANGED <<killed, freed, taskOf, ref, gcThread>> /\ gcPc' = "delete"
  BY <1>2, ConstantsAssumption DEF GcReleaseTask, Plus, Objects
<1>4. \A o : ThreadRefs(o)' = ThreadRefs(o) /\ TaskRefs(o)' = TaskRefs(o)
  BY <1>3 DEF ThreadRefs, TaskRefs
<1>5. Unreturned(t)' = Unreturned(t) \ {gcThread} /\ gcThread \in Unreturned(t)
  BY <1>1, <1>2, <1>3 DEF Unreturned
<1>6. \A u \in Tasks \ {t} : Unreturned(u)' = Unreturned(u)
  BY <1>1, <1>2, <1>3 DEF Unreturned
<1>7. Cardinality(Unreturned(t)') = Cardinality(Unreturned(t)) - 1
  BY <1>5, CountedFinite, OneLess
<1>8. ThreadCounts' BY <1>3, <1>4 DEF ThreadCounts
<1>9. TaskCounts' BY <1>3, <1>4, <1>6, <1>7, CountedFinite DEF TaskCounts
<1> QED BY <1>8, <1>9 DEF RefCounts

\* Killing changes who owes a reference only where there is none left, and whoever is
\* killed runs, so it is referred to.
LEMMA CountsWhenKilled ==
  ASSUME Inv, NEW x \in Threads, EnterHoldScope(x) \/ ExitKill(x)
  PROVE  RefCounts'
<1>1. taskOf[x] \in Tasks /\ OnCpu(x)
  BY OnCpuTask DEF Inv, EnterHoldScope, ExitKill, At
<1>2. retainCount[x] # 0
  <2>1. PICK c \in Cpus : ref[c] = x BY <1>1 DEF OnCpu
  <2> QED BY <2>1, Referred, ConstantsAssumption DEF Holders
<1>3. /\ UNCHANGED <<retainCount, ref, taskOf, freed, gcThread, gcPc>>
      /\ killed' \in {killed, killed \cup {x}, killed \cup {taskOf[x]}}
  BY DEF EnterHoldScope, ExitKill, threadVars, gcVars
<1>4. \A th \in Threads : retainCount[th] = 0 => (Owing(th)' <=> Owing(th))
  BY <1>1, <1>2, <1>3, ConstantsAssumption DEF Owing
<1> QED BY <1>3, <1>4, CountsKept DEF Inv, Counts, RefCounts

\* What is retained is found in a list, and has been launched.
LEMMA ThreadStepCounts ==
  ASSUME Inv, NEW x \in Threads, ThreadStep(x)
  PROVE  RefCounts'
<1>1. CASE EnterHoldScope(x) \/ ExitKill(x)
  BY <1>1, CountsWhenKilled
<1>2. CASE \/ LeaveNestedScope(x) \/ LeaveHoldScope(x) \/ ExitUnhold(x)
           \/ AddToTask(x) \/ AddToScheduler(x) \/ FinishRelease(x)
  <2>1. UNCHANGED <<retainCount, ref, taskOf, killed, freed, gcThread, gcPc>>
    BY <1>2 DEF LeaveNestedScope, LeaveHoldScope, ExitUnhold, AddToTask, AddToScheduler,
                FinishRelease, threadVars, gcVars
  <2> QED BY <2>1, CountsKept DEF Inv, Counts, RefCounts, Owing
<1>3. ASSUME NEW th \in Threads, LaunchThread(x, th) PROVE RefCounts'
  BY <1>3, CountsLaunched
<1>4. ASSUME NEW th \in Threads, Find(x, th) PROVE RefCounts'
  <2>1. /\ pc[x] = "held" /\ ref[x] = None /\ taskOf[th] \in Tasks
        /\ UNCHANGED <<taskOf, killed, freed, gcThread, gcPc>>
    BY <1>4, OnCpuTask DEF Find, Inv, TypeOK, Referring, threadVars, gcVars
  <2>2. CASE CanRetain(th) /\ Retain(th) /\ ref' = [ref EXCEPT ![x] = th]
    BY <2>1, <2>2, CountsRetained DEF CanRetain, Holders
  <2>3. CASE UNCHANGED <<retainCount, ref>>
    BY <2>1, <2>3, CountsKept DEF Inv, Counts, RefCounts, Owing
  <2> QED BY <1>4, <2>2, <2>3 DEF Find
<1>5. CASE LaunchFailed(x) \/ ReleaseFound(x)
  <2>1. pc[x] \in Referring
    BY <1>5 DEF LaunchFailed, ReleaseFound, At, Referring
  <2>2. ref[x] \in Threads BY <2>1, Referred DEF Inv, TypeOK, Holders
  <2>3. LaunchFailed(x) => ref[x] \notin killed
    BY <2>2 DEF LaunchFailed, At, Inv, Shape, Launches, Places, Launching
  <2>4. /\ Release(ref[x]) /\ ref' = [ref EXCEPT ![x] = None]
        /\ freed' = freed \/ (ref[x] \notin killed /\ freed' = freed \cup {ref[x]})
        /\ UNCHANGED <<taskOf, killed, gcThread, gcPc>>
    BY <1>5, <2>3 DEF LaunchFailed, ReleaseFound, GiveUp, threadVars, gcVars
  <2> QED BY <2>2, <2>4, CountsReleased DEF Holders
<1> QED BY <1>1, <1>2, <1>3, <1>4, <1>5 DEF ThreadStep

\* Switch retains threads of the scheduler's list, and releases those it refers to.
LEMMA SwitchStepCounts ==
  ASSUME Inv, NEW c \in Cpus, SwitchStep(c)
  PROVE  RefCounts'
<1>1. UNCHANGED <<taskOf, killed, freed, gcThread, gcPc>>
  BY DEF SwitchStep, SwitchEnter, SwitchRetain, SwitchSkip, SwitchTake, SwitchIdle,
         threadVars, gcVars
<1>2. CASE UNCHANGED <<retainCount, ref>>
  BY <1>1, <1>2, CountsKept DEF Inv, Counts, RefCounts, Owing
<1>3. CASE ref[c] # None /\ Release(ref[c]) /\ ref' = [ref EXCEPT ![c] = None]
  BY <1>1, <1>3, Referred, CountsReleased DEF Holders
<1>4. ASSUME NEW th \in todo, CanRetain(th), Retain(th), ref[c] = None,
             ref' = [ref EXCEPT ![c] = th]
      PROVE  RefCounts'
  <2>1. th \in Threads /\ taskOf[th] \in Tasks
    BY <1>4, ConstantsAssumption DEF Inv, TypeOK
  <2> QED BY <1>1, <1>4, <2>1, CountsRetained DEF CanRetain, Holders
<1> QED
  BY <1>2, <1>3, <1>4
     DEF SwitchStep, SwitchEnter, SwitchRetain, SwitchSkip, SwitchTake, SwitchIdle

\* The collector takes only what is not referred to.
LEMMA GcStepCounts ==
  ASSUME Inv, GcStep
  PROVE  RefCounts'
<1> USE DEF Inv, TypeOK
<1>1. CASE GcReleaseTask
  BY <1>1, CountsReturned
<1>2. CASE (\E o \in Objects : GcShift(o)) \/ GcNextThread
  <2>1. UNCHANGED <<retainCount, ref, taskOf, killed, freed>> /\ gcPc # "delete" /\ gcPc' # "delete"
    BY <1>2 DEF GcShift, GcNextThread, threadVars
  <2> QED BY <2>1, CountsKept DEF Counts, RefCounts, Owing
<1>3. CASE GcRemove
  <2>1. /\ UNCHANGED <<retainCount, ref, taskOf, killed, freed, gcThread>> /\ gcPc = "dealloc"
        /\ gcPc' = "delete" => gcThread \notin killed
    BY <1>3 DEF GcRemove, threadVars
  <2> QED BY <2>1, CountsKept DEF Counts, RefCounts, Owing
<1>4. CASE GcDelete
  <2>1. /\ UNCHANGED <<retainCount, ref, taskOf, killed>> /\ gcPc' # "delete"
        /\ \/ freed' = freed \cup {gcThread} /\ gcPc = "delete"
           \/ freed' = freed \cup {gcTask} /\ gcPc = "threads"
    BY <1>4 DEF GcDelete, threadVars
  <2> QED BY <2>1, CountsKept, ConstantsAssumption DEF Counts, RefCounts, Owing
<1> QED BY <1>1, <1>2, <1>3, <1>4 DEF GcStep

\* So the counts are exact after every step.
LEMMA CountsStep ==
  ASSUME Inv, [Next]_vars
  PROVE  Counts'
<1>1. CASE UNCHANGED vars
  <2>1. \A o : ThreadRefs(o)' = ThreadRefs(o) /\ TaskRefs(o)' = TaskRefs(o)
               /\ Unreturned(o)' = Unreturned(o) /\ Holds(o)' = Holds(o)
    BY <1>1 DEF vars, threadVars, gcVars, ThreadRefs, TaskRefs, Unreturned, Holds
  <2> QED BY <1>1, <2>1 DEF vars, Inv, Counts, ThreadCounts, TaskCounts, HoldsExact
<1>2. CASE Next
  <2>1. RefCounts' BY <1>2, ThreadStepCounts, SwitchStepCounts, GcStepCounts DEF Next
  <2>2. HoldsExact'
    BY <1>2, ThreadStepHolds, OtherStepHolds DEF Next, Inv, HInv, Counts
  <2> QED BY <2>1, <2>2 DEF Counts, RefCounts
<1> QED BY <1>1, <1>2

-----------------------------------------------------------------------------
(* What is dead stays dead.                                                *)

\* Every step keeps the facts proved in LifecycleProofs.tla.
LEMMA EarlierStep ==
  ASSUME Inv, [Next]_vars
  PROVE  TypeOK' /\ KilledLaunched' /\ OneCpuPerThread' /\ (StaysDead \/ UNCHANGED vars)
<1>1. HInv BY DEF Inv, HInv, Counts
<1>2. TypeOK'
  BY <1>1, ThreadStepType, SwitchStepType, GcStepType
     DEF Next, HInv, TypeOK, vars, threadVars, schedVars, gcVars
<1>3. KilledLaunched' BY <1>1, ThreadStepHolds, OtherStepHolds DEF Next
<1>4. OneCpuPerThread' BY OneCpuStep DEF Inv
<1>5. StaysDead \/ UNCHANGED vars
  BY <1>1, ThreadStepDead, SwitchStepDead, GcStepDead DEF Next
<1> QED BY <1>2, <1>3, <1>4, <1>5

\* Nothing is ever unmarked as killed, and no thread changes its task.
LEMMA Stable ==
  ASSUME TypeOK, [Next]_vars
  PROVE  killed \subseteq killed' /\ \A th \in Threads : taskOf[th] # None => taskOf'[th] = taskOf[th]
<1>1. ASSUME NEW x \in Threads, ThreadStep(x)
      PROVE  killed \subseteq killed' /\ (UNCHANGED taskOf \/ \E th \in Threads : LaunchThread(x, th))
  BY <1>1 DEF ThreadStep, EnterHoldScope, LeaveNestedScope, LeaveHoldScope, ExitKill,
        ExitUnhold, LaunchThread, Find, AddToTask, AddToScheduler, LaunchFailed,
        ReleaseFound, FinishRelease, threadVars
<1>2. ASSUME NEW x, NEW th \in Threads, LaunchThread(x, th)
      PROVE  \A u \in Threads : taskOf[u] # None => taskOf'[u] = taskOf[u]
  BY <1>2 DEF LaunchThread, TypeOK
<1>3. ASSUME GcStep \/ UNCHANGED vars \/ \E c \in Cpus : SwitchStep(c)
      PROVE  UNCHANGED <<killed, taskOf>>
  BY <1>3 DEF GcStep, GcShift, GcNextThread, GcRemove, GcReleaseTask, GcDelete, SwitchStep,
         SwitchEnter, SwitchRetain, SwitchSkip, SwitchTake, SwitchIdle, threadVars, vars
<1> QED BY <1>1, <1>2, <1>3 DEF Next

\* A task that is dead, and a killed thread without references, never gets one again.
LEMMA DeadForever ==
  ASSUME Inv, [Next]_vars
  PROVE  /\ \A t \in Tasks : Dead(t) => Dead(t)'
         /\ \A th \in Threads \cap killed : retainCount[th] = 0 => retainCount'[th] = 0
<1>1. TypeOK' /\ Counts' BY EarlierStep, CountsStep
<1>2. \A o \in Objects : retainCount'[o] >= 0
  <2>1. (\A o \in Objects : retainCount[o] >= 0)' BY <1>1, CountFacts, PTL
  <2> QED BY <2>1
<1>3. StaysDead \/ UNCHANGED vars BY EarlierStep
<1>4. TypeOK BY DEF Inv
<1>5. killed \subseteq killed' BY <1>4, Stable
<1> QED BY <1>1, <1>2, <1>3, <1>4, <1>5 DEF StaysDead, Dead, TypeOK, Objects, vars

-----------------------------------------------------------------------------
(* What each kind of step leaves alone.                                    *)

\* A thread's step touches neither what the CPUs refer to nor the collector's control.
LEMMA ThreadStepFrame ==
  ASSUME Inv, NEW x \in Threads, ThreadStep(x)
  PROVE  /\ UNCHANGED <<running, schedLock, todo, activeMap, gcPc, gcThread, gcTask, gcTodo>>
         /\ \A c \in Cpus : ref'[c] = ref[c] /\ stale'[c] = stale[c]
         /\ queue \subseteq queue' /\ threadList \subseteq threadList'
<1>1. x \notin Cpus BY ConstantsAssumption
<1>2. /\ UNCHANGED <<running, schedLock, todo, activeMap, gcPc, gcThread, gcTask, gcTodo>>
      /\ queue \subseteq queue' /\ threadList \subseteq threadList'
  BY DEF ThreadStep, EnterHoldScope, LeaveNestedScope, LeaveHoldScope, ExitKill,
        ExitUnhold, LaunchThread, Find, AddToTask, AddToScheduler, LaunchFailed,
        ReleaseFound, FinishRelease, threadVars, schedVars, gcVars
<1>3. \A c \in Cpus : stale'[c] = stale[c]
  <2>1. UNCHANGED stale \/ \E y : stale' = [stale EXCEPT ![x] = y]
    <3>1. CASE ReleaseFound(x) \/ FinishRelease(x) BY <3>1 DEF ReleaseFound, FinishRelease
    <3>2. CASE ~(ReleaseFound(x) \/ FinishRelease(x))
      BY <3>2 DEF ThreadStep, EnterHoldScope, LeaveNestedScope, LeaveHoldScope, ExitKill,
        ExitUnhold, LaunchThread, Find, AddToTask, AddToScheduler, LaunchFailed
    <3> QED BY <3>1, <3>2
  <2> QED BY <1>1, <2>1 DEF Inv, TypeOK, Holders
<1>4. \A c \in Cpus : ref'[c] = ref[c]
  <2>1. UNCHANGED ref \/ \E y : ref' = [ref EXCEPT ![x] = y]
    <3>1. CASE \E th \in Threads : LaunchThread(x, th) \/ Find(x, th)
      BY <3>1 DEF LaunchThread, Find
    <3>2. CASE LaunchFailed(x) \/ ReleaseFound(x)
      BY <3>2 DEF LaunchFailed, ReleaseFound
    <3>3. CASE \/ EnterHoldScope(x) \/ LeaveNestedScope(x) \/ LeaveHoldScope(x)
               \/ ExitKill(x) \/ ExitUnhold(x)
      BY <3>3 DEF EnterHoldScope, LeaveNestedScope, LeaveHoldScope, ExitKill, ExitUnhold
    <3>4. CASE AddToTask(x) \/ AddToScheduler(x) \/ FinishRelease(x)
      BY <3>4 DEF AddToTask, AddToScheduler, FinishRelease
    <3> QED BY <3>1, <3>2, <3>3, <3>4 DEF ThreadStep
  <2> QED BY <1>1, <2>1 DEF Inv, TypeOK, Holders
<1> QED BY <1>2, <1>3, <1>4

\* A step of Switch changes references and counts, and what the CPUs run.
LEMMA SwitchStepFrame ==
  ASSUME Inv, NEW c \in Cpus, SwitchStep(c)
  PROVE  /\ UNCHANGED <<holdCount, killed, threadVars, holdingTask, pc, queue, gcVars>>
         /\ \A h \in Holders : h # c => ref'[h] = ref[h] /\ stale'[h] = stale[h]
BY DEF SwitchStep, SwitchEnter, SwitchRetain, SwitchSkip, SwitchTake, SwitchIdle,
       schedVars, Inv, TypeOK

\* A step of the collector leaves the threads and the CPUs where they are.
LEMMA GcStepFrame ==
  ASSUME GcStep
  PROVE  UNCHANGED <<holdCount, killed, taskOf, pc, ref, stale, running, schedLock, todo, activeMap>>
BY DEF GcStep, GcShift, GcNextThread, GcRemove, GcReleaseTask, GcDelete, threadVars, schedVars

-----------------------------------------------------------------------------
(* The scheduler's list.                                                   *)

\* A thread adds itself nowhere, and the thread it adds is in its task's list.
LEMMA ThreadStepScheduled ==
  ASSUME Inv, NEW x \in Threads, ThreadStep(x)
  PROVE  Scheduled'
<1>1. queue' \subseteq threadList'
  <2>1. CASE AddToScheduler(x)
    BY <2>1 DEF AddToScheduler, At, Inv, Shape, Scheduled, Launches
  <2>2. CASE ~AddToScheduler(x)
    <3>1. UNCHANGED queue
      BY <2>2 DEF ThreadStep, EnterHoldScope, LeaveNestedScope, LeaveHoldScope, ExitKill,
        ExitUnhold, LaunchThread, Find, AddToTask, LaunchFailed,
        ReleaseFound, FinishRelease, schedVars
    <3> QED BY <3>1, ThreadStepFrame DEF Inv, Shape, Scheduled
  <2> QED BY <2>1, <2>2
<1>2. \A c \in Cpus : ref[c] # None => taskOf'[ref[c]] = taskOf[ref[c]]
  <2>1. [Next]_vars BY DEF Next
  <2>2. \A c \in Cpus : ref[c] # None => ref[c] \in Threads /\ taskOf[ref[c]] # None
    BY DEF Inv, TypeOK, Holders
  <2> QED BY <2>1, <2>2, Stable DEF Inv
<1>3. /\ UNCHANGED <<running, schedLock, todo, activeMap>>
      /\ \A c \in Cpus : ref'[c] = ref[c] /\ stale'[c] = stale[c]
      /\ queue \subseteq queue'
  BY ThreadStepFrame
<1>4. Scheduled BY DEF Inv, Shape
<1> QED BY <1>1, <1>2, <1>3, <1>4 DEF Scheduled

\* Switch considers only threads of the list, and gives its lock up when it has let go
\* of those it released.
LEMMA SwitchStepScheduled ==
  ASSUME Inv, NEW c \in Cpus, SwitchStep(c)
  PROVE  Scheduled'
<1> USE SwitchStepFrame, ConstantsAssumption DEF Inv, TypeOK, Shape, OneCpuPerThread, Scheduled, Holders, threadVars
<1>1. CASE SwitchEnter(c)
  BY <1>1 DEF SwitchEnter, ListFree, GlobalMap
<1>2. CASE SwitchRetain(c)
  BY <1>2 DEF SwitchRetain
<1>3. CASE SwitchSkip(c)
  BY <1>3 DEF SwitchSkip, schedVars
<1>4. CASE SwitchTake(c)
  BY <1>4 DEF SwitchTake
<1>5. CASE SwitchIdle(c)
  BY <1>5 DEF SwitchIdle
<1> QED BY <1>1, <1>2, <1>3, <1>4, <1>5 DEF SwitchStep

\* The collector takes a thread out when the lock is free and nothing refers to it.
LEMMA GcStepScheduled ==
  ASSUME Inv, GcStep
  PROVE  Scheduled'
<1>1. Scheduled /\ \A c \in Cpus : ref[c] # gcThread \/ ref[c] = None
  BY Referred DEF Inv, Shape, Holders
<1>2. UNCHANGED <<taskOf, ref, stale, running, schedLock, todo, activeMap>>
  BY GcStepFrame
<1>3. CASE GcRemove
  <2>1. queue' = queue \ {gcThread} /\ schedLock = None /\ UNCHANGED threadList
    BY <1>3 DEF GcRemove, Unlisted, ListFree, threadVars
  <2>2. \A c \in Cpus : schedLock # c BY <2>1, ConstantsAssumption
  <2> QED BY <1>1, <1>2, <2>1, <2>2 DEF Scheduled
<1>4. CASE GcReleaseTask
  <2>1. threadList' = threadList \ {gcThread} /\ UNCHANGED queue /\ gcThread \notin queue
    BY <1>4 DEF GcReleaseTask, schedVars, Inv, Shape, Collecting
  <2> QED BY <1>1, <1>2, <2>1 DEF Scheduled
<1>5. CASE ~GcRemove /\ ~GcReleaseTask
  <2>1. UNCHANGED <<queue, threadList>>
    BY <1>5 DEF GcStep, GcShift, GcNextThread, GcDelete, threadVars, schedVars
  <2> QED BY <1>1, <1>2, <2>1 DEF Scheduled
<1> QED BY <1>3, <1>4, <1>5

-----------------------------------------------------------------------------
(* The threads that are being launched.                                    *)

\* A thread that does something runs, so the scheduler's list contains it.
LEMMA OnCpuListed ==
  ASSUME Inv, NEW x \in Threads, OnCpu(x)
  PROVE  /\ x \in queue /\ taskOf[x] \in Tasks /\ retainCount[x] >= 1
         /\ retainCount[taskOf[x]] >= 1
         /\ x \notin freed \cup {gcThread} /\ taskOf[x] \notin freed \cup {gcTask}
<1>1. PICK c \in Cpus : ref[c] = x BY DEF OnCpu
<1>2. ref[c] # None BY <1>1, ConstantsAssumption
<1> QED BY <1>1, <1>2, Referred DEF Inv, Shape, Scheduled, Holders

\* Whoever takes a step is on a CPU.
LEMMA StepOnCpu ==
  ASSUME Inv, NEW x \in Threads, ThreadStep(x)
  PROVE  OnCpu(x) /\ x \in queue /\ pc[x] # "none"
<1>1. \E l : At(x, l)
  BY DEF ThreadStep, EnterHoldScope, LeaveNestedScope, LeaveHoldScope, ExitKill,
        ExitUnhold, LaunchThread, Find, AddToTask, AddToScheduler, LaunchFailed,
        ReleaseFound, FinishRelease
<1>2. OnCpu(x) BY <1>1 DEF At
<1> QED BY <1>2, OnCpuListed, ConstantsAssumption DEF Inv, TypeOK

\* Launching adds a thread nobody else knows, and a thread in a list is not being launched.
LEMMA ThreadStepLaunches ==
  ASSUME Inv, NEW y \in Threads, ThreadStep(y)
  PROVE  Launches'
<1>1. /\ y \in queue /\ pc[y] # "none" /\ Launches
      /\ TypeOK /\ Launching \subseteq Referring /\ y \in Holders
  BY StepOnCpu DEF Inv, Shape, Launching, Referring, Holders
<1>2. \A x \in Threads : pc[x] \in Launching =>
        ref[x] # y /\ ref[x] \in Threads /\ taskOf[ref[x]] # None /\ pc[x] # "none"
  BY <1>1, ConstantsAssumption DEF Launches, TypeOK, Holders, Launching
<1>3. ASSUME NEW th \in Threads, LaunchThread(y, th) PROVE Launches'
  <2>1. /\ taskOf[th] = None /\ pc' = [pc EXCEPT ![y] = "launch", ![th] = "user"]
        /\ ref' = [ref EXCEPT ![y] = th] /\ UNCHANGED <<queue, threadList>>
    BY <1>3 DEF LaunchThread, schedVars
  <2>2. th \notin queue /\ th \notin threadList /\ pc[th] = "none" /\ th # y /\ pc[y] = "held"
    BY <1>1, <1>3, <2>1, ConstantsAssumption DEF Inv, TypeOK, Shape, Gone, LaunchThread, At
  <2>3. \A x \in Threads : pc[x] \in Launching => ref[x] # th /\ x # th /\ x # y BY <1>2, <2>1, <2>2 DEF Launching
  <2>4. /\ pc'[y] = "launch" /\ pc'[th] = "user" /\ ref'[y] = th
        /\ \A x \in Threads \ {y, th} : pc'[x] = pc[x] /\ ref'[x] = ref[x]
    BY <1>1, <2>1, <2>2 DEF TypeOK, Holders
  <2>5. \A x \in Threads : pc'[x] \in Launching =>
          x = y \/ (pc[x] \in Launching /\ ref'[x] = ref[x] /\ pc'[x] = pc[x] /\ pc'[ref[x]] = pc[ref[x]])
    BY <1>2, <2>3, <2>4 DEF Launching
  <2>6. \A x \in Threads : pc'[x] \in Launching => ref'[x] \notin queue' /\ pc'[ref'[x]] = "user"
    <3>1. UNCHANGED queue /\ th \notin queue BY <2>1, <2>2
    <3> QED BY <1>1, <2>4, <2>5, <3>1 DEF Launches
  <2>7. \A x \in Threads : /\ pc'[x] \in {"listed", "launched", "found"} => ref'[x] \in threadList'
                           /\ pc'[x] \in {"launch", "unlisted"} => ref'[x] \notin threadList'
    <3>1. UNCHANGED threadList /\ th \notin threadList BY <2>1, <2>2
    <3>2. \A x \in Threads : pc'[x] \in {"launched", "found"} =>
            pc'[x] = pc[x] /\ ref'[x] = ref[x]
      BY <2>4
    <3> QED BY <1>1, <2>4, <2>5, <3>1, <3>2 DEF Launches, Launching
  <2>8. \A x, z \in Threads :
          pc'[x] \in Launching /\ pc'[z] \in Launching /\ ref'[x] = ref'[z] => x = z
    BY <1>1, <2>3, <2>4, <2>5 DEF Launches
  <2> QED BY <2>6, <2>7, <2>8 DEF Launches
<1>4. ASSUME ~\E th \in Threads : LaunchThread(y, th) PROVE Launches'
  <2>1. /\ \A x \in Threads \ {y} : pc'[x] = pc[x] /\ ref'[x] = ref[x]
        /\ pc[y] \in Launching => pc'[y] \in Launching \cup {"launched", "held"}
        /\ pc'[y] \in Launching => pc[y] = "launch" /\ ref'[y] = ref[y]
    <3>1. CASE \/ EnterHoldScope(y) \/ LeaveNestedScope(y) \/ LeaveHoldScope(y)
               \/ ExitKill(y) \/ ExitUnhold(y)
      BY <1>1, <3>1 DEF EnterHoldScope, LeaveNestedScope, LeaveHoldScope, ExitKill, ExitUnhold, At,
                 Goto, Launching, TypeOK
    <3>2. CASE \/ AddToTask(y) \/ AddToScheduler(y) \/ LaunchFailed(y)
               \/ ReleaseFound(y) \/ FinishRelease(y)
      BY <1>1, <3>2 DEF AddToTask, AddToScheduler, LaunchFailed, ReleaseFound, FinishRelease, At,
                 Goto, Launching, TypeOK, Holders
    <3>3. ASSUME NEW th \in Threads, Find(y, th)
          PROVE  /\ \A x \in Threads \ {y} : pc'[x] = pc[x] /\ ref'[x] = ref[x]
                 /\ pc[y] = "held" /\ pc'[y] \in {"held", "found"}
      BY <1>1, <3>3 DEF Find, At, Goto, TypeOK, Holders
    <3> QED BY <1>4, <3>1, <3>2, <3>3 DEF ThreadStep, Launching
  <2>2. /\ UNCHANGED queue \/ (pc[y] = "listed" /\ queue' = queue \cup {ref[y]})
        /\ \/ UNCHANGED threadList
           \/ pc[y] = "launch" /\ pc'[y] = "listed" /\ threadList' = threadList \cup {ref[y]}
        /\ pc'[y] \in {"launch", "unlisted"} => UNCHANGED threadList
        /\ pc'[y] \in Launching => UNCHANGED queue
        /\ pc'[y] = "listed" => threadList' = threadList \cup {ref[y]}
    <3>1. CASE AddToTask(y) \/ AddToScheduler(y)
      BY <1>1, <3>1 DEF AddToTask, AddToScheduler, At, Goto, Launching, TypeOK, schedVars
    <3>2. CASE ~(AddToTask(y) \/ AddToScheduler(y))
      <4>1. UNCHANGED <<queue, threadList>>
        BY <1>4, <3>2 DEF ThreadStep, EnterHoldScope, LeaveNestedScope, LeaveHoldScope, ExitKill,
          ExitUnhold, Find, LaunchFailed, ReleaseFound, FinishRelease, schedVars, threadVars
      <4>2. pc'[y] # "listed"
        BY <1>1, <1>4, <3>2 DEF ThreadStep, EnterHoldScope, LeaveNestedScope, LeaveHoldScope, ExitKill,
          ExitUnhold, Find, LaunchFailed, ReleaseFound, FinishRelease, At, Goto, TypeOK
      <4> QED BY <4>1, <4>2
    <3> QED BY <3>1, <3>2
  <2>3. \A x \in Threads : pc'[x] \in Launching =>
          pc[x] \in Launching /\ ref'[x] = ref[x] /\ pc'[ref[x]] = pc[ref[x]]
    BY <1>2, <2>1 DEF Launching
  <2>4. \A x \in Threads \ {y} : pc'[x] \in Launching /\ pc[y] \in Launching => ref'[x] # ref[y]
    BY <1>1, <2>1, <2>3 DEF Launches
  <2>5. \A x \in Threads : pc'[x] \in {"launched", "found"} => ref'[x] \in threadList'
    <3>1. pc'[y] = "launched" => pc[y] = "listed" /\ ref'[y] = ref[y] /\ UNCHANGED threadList
      BY <1>1, <1>4 DEF ThreadStep, EnterHoldScope, LeaveNestedScope, LeaveHoldScope, ExitKill,
          ExitUnhold, Find, AddToTask, AddToScheduler, LaunchFailed, ReleaseFound,
          FinishRelease, At, Goto, TypeOK, threadVars
    <3>2. pc'[y] = "found" => ref'[y] \in threadList /\ UNCHANGED threadList
      BY <1>1, <1>4 DEF ThreadStep, EnterHoldScope, LeaveNestedScope, LeaveHoldScope, ExitKill,
          ExitUnhold, Find, AddToTask, AddToScheduler, LaunchFailed, ReleaseFound,
          FinishRelease, At, Goto, TypeOK, Holders, threadVars
    <3> QED BY <1>1, <2>1, <2>2, <3>1, <3>2 DEF Launches
  <2> QED BY <1>1, <2>1, <2>2, <2>3, <2>4, <2>5 DEF Launches, Launching
<1> QED BY <1>3, <1>4

\* The scheduler and the collector do not touch a thread that is being launched: the
\* launcher's reference keeps it.
LEMMA OtherStepLaunches ==
  ASSUME Inv, GcStep \/ \E c \in Cpus : SwitchStep(c)
  PROVE  Launches'
<1>1. Launches /\ TypeOK BY DEF Inv, Shape
<1>2. ASSUME NEW c \in Cpus, SwitchStep(c) PROVE Launches'
  <2>1. UNCHANGED <<pc, queue, threadList>> /\ \A x \in Threads : ref'[x] = ref[x]
    BY <1>2, SwitchStepFrame, ConstantsAssumption DEF threadVars, Holders
  <2> QED BY <1>1, <2>1 DEF Launches
<1>3. CASE GcStep
  <2>1. UNCHANGED <<pc, ref>> BY <1>3, GcStepFrame
  <2>2. /\ queue' \subseteq queue /\ threadList' \subseteq threadList
        /\ \A th \in threadList : th = gcThread \/ th \in threadList'
    BY <1>3 DEF GcStep, GcShift, GcNextThread, GcRemove, GcReleaseTask, GcDelete, Unlisted,
                threadVars, schedVars
  <2>3. \A x \in Threads : pc[x] \in Referring => ref[x] # gcThread
    BY <1>1, Referred DEF TypeOK, Holders
  <2> QED BY <1>1, <2>1, <2>2, <2>3 DEF Launches, Launching, Referring
<1> QED BY <1>2, <1>3

-----------------------------------------------------------------------------
(* Where killed threads, critical code and held threads are.               *)

\* A thread kills itself on its way out; only a thread that runs enters critical code.
LEMMA ThreadStepPlaces ==
  ASSUME Inv, NEW y \in Threads, ThreadStep(y)
  PROVE  Places'
<1>1. PICK c \in Cpus : ref[c] = y /\ schedLock # c BY StepOnCpu DEF OnCpu
<1>2. /\ y \in queue /\ taskOf[y] \in Tasks /\ taskOf[y] \notin Threads /\ Places /\ TypeOK
      /\ KilledLaunched
  BY StepOnCpu, OnCpuListed, ConstantsAssumption DEF Inv, Shape
<1>3. UNCHANGED schedLock /\ queue \subseteq queue' /\ \A d \in Cpus : ref'[d] = ref[d]
  BY ThreadStepFrame
<1> DEFINE Moves ==
      /\ \A x \in Threads \ {y} : pc'[x] = pc[x] \/ (pc'[x] = "user" /\ taskOf[x] = None)
      /\ \/ killed' \in {killed, killed \cup {taskOf[y]}}
         \/ killed' = killed \cup {y} /\ pc'[y] \in {"yield", "exitTask", "exiting"}
      /\ pc[y] \in {"yield", "exitTask", "exiting"} => pc'[y] \in {"yield", "exiting"}
<1>4. Moves
  <2>1. CASE EnterHoldScope(y) \/ LeaveNestedScope(y) \/ LeaveHoldScope(y)
    BY <1>2, <2>1 DEF EnterHoldScope, LeaveNestedScope, LeaveHoldScope, At, Goto, TypeOK
  <2>2. CASE ExitKill(y) \/ ExitUnhold(y)
    BY <1>2, <2>2 DEF ExitKill, ExitUnhold, At, Goto, TypeOK
  <2>3. CASE \/ AddToTask(y) \/ AddToScheduler(y) \/ LaunchFailed(y)
             \/ ReleaseFound(y) \/ FinishRelease(y)
    BY <1>2, <2>3 DEF AddToTask, AddToScheduler, LaunchFailed, ReleaseFound, FinishRelease, At,
               Goto, TypeOK
  <2>4. ASSUME NEW th \in Threads, Find(y, th) \/ LaunchThread(y, th) PROVE Moves
    BY <1>2, <2>4 DEF Find, LaunchThread, At, Goto, TypeOK
  <2> HIDE DEF Moves
  <2> QED BY <2>1, <2>2, <2>3, <2>4 DEF ThreadStep
<1>5. \A th \in Threads \cap killed' : pc'[th] \in {"exitTask", "exiting", "yield"}
  <2>1. \A x \in Threads \ {y} : x \in killed' => x \in killed BY <1>2, <1>4
  <2>2. \A x \in Threads \cap killed : taskOf[x] # None BY <1>2 DEF KilledLaunched
  <2>3. y \in killed' => y \in killed \/ pc'[y] \in {"yield", "exitTask", "exiting"}
    BY <1>2, <1>4
  <2> QED BY <1>2, <1>4, <2>1, <2>2, <2>3 DEF Places
<1>6. \A x \in Threads : pc'[x] \in {"unlock", "exitTask", "exiting"} =>
        \E d \in Cpus : ref'[d] = x /\ schedLock' # d
  BY <1>1, <1>2, <1>3, <1>4 DEF Places
<1>7. \A x \in Threads : pc'[x] \in Holding /\ x \notin killed' => x \in queue'
  <2>1. killed \subseteq killed' BY <1>4
  <2>2. \A x \in Threads \ {y} : pc'[x] \in Holding => pc[x] \in Holding
    BY <1>4 DEF Holding
  <2> QED BY <1>2, <1>3, <2>1, <2>2 DEF Places
<1> QED BY <1>5, <1>6, <1>7 DEF Places

\* Switch takes no thread off its CPU in critical code, and the collector takes no thread
\* out of the scheduler that holds its task.
LEMMA OtherStepPlaces ==
  ASSUME Inv, GcStep \/ \E c \in Cpus : SwitchStep(c)
  PROVE  Places'
<1>1. Places /\ TypeOK BY DEF Inv, Shape
<1>2. ASSUME NEW c \in Cpus, SwitchStep(c) PROVE Places'
  <2>1. UNCHANGED <<pc, queue, killed>> /\ \A d \in Cpus \ {c} : ref'[d] = ref[d]
    BY <1>2, SwitchStepFrame, ConstantsAssumption DEF threadVars, Holders
  <2>2. \/ schedLock = None /\ schedLock' = c /\ (ref[c] = None \/ pc[ref[c]] \in Noncritical \cup {"yield"})
        \/ schedLock = c /\ schedLock' \in {c, None}
    BY <1>2 DEF SwitchStep, SwitchEnter, SwitchRetain, SwitchSkip, SwitchTake, SwitchIdle, ListFree,
                schedVars
  <2>3. ASSUME NEW x \in Threads, pc[x] \in {"unlock", "exitTask", "exiting"}
        PROVE  \E d \in Cpus : ref'[d] = x /\ schedLock' # d
    <3>1. PICK d \in Cpus : ref[d] = x /\ schedLock # d BY <1>1, <2>3 DEF Places
    <3>2. d # c BY <2>2, <2>3, <3>1, ConstantsAssumption DEF Noncritical
    <3> QED BY <2>1, <2>2, <3>1, <3>2, ConstantsAssumption
  <2> QED BY <1>1, <2>1, <2>3 DEF Places
<1>3. CASE GcStep
  <2>1. UNCHANGED <<pc, ref, schedLock, killed>> BY <1>3, GcStepFrame
  <2>2. \A th \in queue : th = gcThread \/ th \in queue'
    BY <1>3 DEF GcStep, GcShift, GcNextThread, GcRemove, GcReleaseTask, GcDelete, Unlisted, schedVars
  <2>3. \A x \in Threads : pc[x] \in Holding => x # gcThread BY Held
  <2> QED BY <1>1, <2>1, <2>2, <2>3 DEF Places
<1> QED BY <1>2, <1>3

-----------------------------------------------------------------------------
(* The collector's list.                                                   *)

\* A step that changes neither the list nor what belongs in it.
LEMMA ListKept ==
  ASSUME ListExact, UNCHANGED objects,
         \A th \in Threads : ThreadListed(th)' <=> ThreadListed(th),
         \A t \in Tasks : TaskListed(t)' <=> TaskListed(t)
  PROVE  ListExact'
BY DEF ListExact

\* What a release throws away was not in the list, and belongs there from now on.
LEMMA ListReleased ==
  ASSUME Inv, NEW h \in Holders, NEW th \in Threads, ref[h] = th, Release(th),
         freed' = freed \/ (th \notin killed /\ freed' = freed \cup {th}),
         UNCHANGED <<holdCount, killed, gcThread, gcTask>>
  PROVE  ListExact'
<1> USE DEF Inv, TypeOK
<1>1. /\ taskOf[th] \in Tasks /\ retainCount[th] >= 1
      /\ th \notin freed \cup {gcThread} /\ retainCount[taskOf[th]] >= 1
      /\ taskOf[th] \notin freed \cup {gcTask}
      /\ Threads \cap Tasks = {} /\ Threads \subseteq Objects /\ Tasks \subseteq Objects
  BY Referred, ConstantsAssumption DEF Objects
<1>2. PICK t \in Tasks : t = taskOf[th] BY <1>1
<1>3. objects[th] = 0 /\ objects[t] = 0
  BY <1>1, <1>2 DEF Shape, ListExact, ThreadListed, TaskListed, Dead
<1>4. CASE LastOfKilled(th)
  <2>1. /\ objects' = Plus(objects, {th}, 1) /\ retainCount' = Plus(retainCount, {th}, -1)
        /\ th \in killed /\ retainCount[th] = 1
    BY <1>4 DEF Release, ThrowAway, LastOfKilled
  <2>2. /\ \A o \in Objects \ {th} : objects'[o] = objects[o] /\ retainCount'[o] = retainCount[o]
        /\ objects'[th] = 1 /\ retainCount'[th] = 0 /\ freed' = freed
    BY <1>1, <1>3, <2>1 DEF Plus
  <2>3. \A u \in Tasks : TaskListed(u)' <=> TaskListed(u) BY <1>1, <2>2 DEF TaskListed, Dead
  <2>4. \A u \in Threads \ {th} : ThreadListed(u)' <=> ThreadListed(u)
    BY <1>1, <2>2 DEF ThreadListed
  <2>5. ThreadListed(th)' BY <1>1, <2>1, <2>2 DEF ThreadListed
  <2> QED BY <1>1, <2>2, <2>3, <2>4, <2>5 DEF Shape, ListExact
<1>5. CASE ~LastOfKilled(th)
  <2>1. /\ objects' = Plus(objects, Spent(t, retainCount[t] - 1, holdCount[t]), 1)
        /\ retainCount' = Plus(retainCount, {th, t}, -1)
        /\ th \notin killed \/ retainCount[th] # 1
    BY <1>2, <1>5 DEF Release, ThrowAway, LastOfKilled
  <2>2. /\ \A o \in Objects \ {th, t} : objects'[o] = objects[o] /\ retainCount'[o] = retainCount[o]
        /\ objects'[th] = 0 /\ retainCount'[th] = retainCount[th] - 1
        /\ retainCount'[t] = retainCount[t] - 1
        /\ objects'[t] = IF retainCount[t] - 1 = 0 /\ holdCount[t] = 0 /\ t \in killed THEN 1 ELSE 0
    BY <1>1, <1>3, <2>1 DEF Plus, Spent
  <2>3. \A u \in Tasks \ {t} : TaskListed(u)' <=> TaskListed(u) BY <1>1, <2>2 DEF TaskListed, Dead
  <2>4. \A u \in Threads \ {th} : ThreadListed(u)' <=> ThreadListed(u)
    BY <1>1, <2>2 DEF ThreadListed
  <2>5. ~ThreadListed(th)' BY <1>1, <2>1, <2>2 DEF ThreadListed
  <2>6. TaskListed(t)' <=> retainCount[t] - 1 = 0 /\ holdCount[t] = 0 /\ t \in killed
    BY <1>1, <1>2, <2>2 DEF TaskListed, Dead
  <2> QED BY <1>1, <2>2, <2>3, <2>4, <2>5, <2>6 DEF Shape, ListExact
<1> QED BY <1>4, <1>5

\* So it is when a hold is given back.
LEMMA ListUnheld ==
  ASSUME Inv, NEW x \in Threads, pc[x] \in Holding, Unhold(taskOf[x]),
         UNCHANGED <<retainCount, killed, freed, gcThread, gcTask>>
  PROVE  ListExact'
<1> USE DEF Inv, TypeOK
<1>1. PICK t \in Tasks : t = taskOf[x] BY Held
<1>2. holdCount[t] >= 1 /\ t \notin freed \cup {gcTask} BY <1>1, Held
<1>3. Threads \cap Tasks = {} /\ Threads \subseteq Objects /\ Tasks \subseteq Objects
  BY ConstantsAssumption DEF Objects
<1>4. objects[t] = 0 BY <1>2 DEF Shape, ListExact, TaskListed, Dead
<1>5. /\ objects' = Plus(objects, Spent(t, retainCount[t], holdCount[t] - 1), 1)
      /\ holdCount' = Plus(holdCount, {t}, -1)
  BY <1>1 DEF Unhold, ThrowAway
<1>6. /\ \A o \in Objects \ {t} : objects'[o] = objects[o]
      /\ \A u \in Tasks \ {t} : holdCount'[u] = holdCount[u]
      /\ holdCount'[t] = holdCount[t] - 1
      /\ objects'[t] = IF retainCount[t] = 0 /\ holdCount[t] - 1 = 0 /\ t \in killed THEN 1 ELSE 0
  BY <1>3, <1>4, <1>5 DEF Plus, Spent
<1>7. \A u \in Tasks \ {t} : TaskListed(u)' <=> TaskListed(u) BY <1>6 DEF TaskListed, Dead
<1>8. \A u \in Threads : ThreadListed(u)' <=> ThreadListed(u) BY DEF ThreadListed
<1>9. TaskListed(t)' <=> retainCount[t] = 0 /\ holdCount[t] - 1 = 0 /\ t \in killed
  BY <1>2, <1>6 DEF TaskListed, Dead
<1> QED BY <1>3, <1>6, <1>7, <1>8, <1>9 DEF Shape, ListExact

\* What can be retained does not belong in the list.
LEMMA ListRetained ==
  ASSUME Inv, NEW th \in Threads, taskOf[th] \in Tasks, CanRetain(th), Retain(th),
         UNCHANGED <<objects, holdCount, killed, freed, gcThread, gcTask>>
  PROVE  ListExact'
<1>1. \A o \in Objects \ {th, taskOf[th]} : retainCount'[o] = retainCount[o]
  BY DEF Inv, TypeOK, Retain, Plus
<1>2. th \notin killed /\ (taskOf[th] \notin killed \/ holdCount[taskOf[th]] # 0)
      /\ th \notin Tasks /\ taskOf[th] \notin Threads
  BY ConstantsAssumption DEF CanRetain, CanRetainTask
<1>3. \A u \in Threads : ThreadListed(u)' <=> ThreadListed(u)
  BY <1>1, <1>2 DEF ThreadListed, Objects
<1>4. \A u \in Tasks : TaskListed(u)' <=> TaskListed(u)
  BY <1>1, <1>2 DEF TaskListed, Dead, Objects
<1> QED BY <1>3, <1>4, ListKept DEF Inv, Shape

\* What kills, retains or releases leaves the list exact.
LEMMA ThreadStepList ==
  ASSUME Inv, NEW x \in Threads, ThreadStep(x)
  PROVE  ListExact'
<1>1. /\ taskOf[x] \in Tasks /\ retainCount[x] >= 1 /\ retainCount[taskOf[x]] >= 1
      /\ x \notin Tasks /\ taskOf[x] \notin Threads
  BY StepOnCpu, OnCpuListed, ConstantsAssumption
<1>2. ListExact /\ TypeOK BY DEF Inv, Shape
<1>3. CASE EnterHoldScope(x)
  <2>1. /\ UNCHANGED <<objects, retainCount, freed, gcThread, gcTask>>
        /\ killed' \in {killed, killed \cup {x}}
        /\ \A t \in Tasks : holdCount'[t] = holdCount[t] \/ t \notin killed
    BY <1>2, <1>3 DEF EnterHoldScope, CanHold, Plus, gcVars, TypeOK
  <2>2. \A u \in Threads : ThreadListed(u)' <=> ThreadListed(u)
    BY <1>1, <2>1 DEF ThreadListed
  <2>3. \A u \in Tasks : TaskListed(u)' <=> TaskListed(u)
    BY <1>1, <2>1 DEF TaskListed, Dead
  <2> QED BY <1>2, <2>1, <2>2, <2>3, ListKept
<1>4. CASE ExitKill(x)
  <2>1. /\ UNCHANGED <<objects, retainCount, holdCount, freed, gcThread, gcTask>>
        /\ killed' \in {killed \cup {taskOf[x]}, killed \cup {x}}
    BY <1>4 DEF ExitKill, gcVars
  <2>2. \A u \in Threads : ThreadListed(u)' <=> ThreadListed(u)
    BY <1>1, <2>1 DEF ThreadListed
  <2>3. \A u \in Tasks : TaskListed(u)' <=> TaskListed(u)
    BY <1>1, <2>1 DEF TaskListed, Dead
  <2> QED BY <1>2, <2>1, <2>2, <2>3, ListKept
<1>5. CASE LeaveHoldScope(x) \/ ExitUnhold(x)
  BY <1>5, ListUnheld DEF LeaveHoldScope, ExitUnhold, At, Holding, gcVars
<1>6. CASE LeaveNestedScope(x) \/ AddToTask(x) \/ AddToScheduler(x) \/ FinishRelease(x)
  <2>1. UNCHANGED <<objects, retainCount, holdCount, killed, freed, gcThread, gcTask>>
    BY <1>6 DEF LeaveNestedScope, AddToTask, AddToScheduler, FinishRelease, gcVars
  <2> QED BY <1>2, <2>1, ListKept DEF ThreadListed, TaskListed, Dead
<1>7. ASSUME NEW th \in Threads, LaunchThread(x, th) PROVE ListExact'
  <2>1. holdCount[taskOf[x]] >= 1 BY <1>7, Held DEF LaunchThread, At, Holding
  <2>2. th \notin killed /\ th \notin Tasks
    BY <1>7, ConstantsAssumption DEF LaunchThread, Inv, KilledLaunched
  <2>3. /\ UNCHANGED <<objects, holdCount, killed, freed, gcThread, gcTask>>
        /\ \A o \in Objects \ {th, taskOf[x]} : retainCount'[o] = retainCount[o]
    BY <1>2, <1>7 DEF LaunchThread, Plus, gcVars, TypeOK
  <2>4. \A u \in Threads : ThreadListed(u)' <=> ThreadListed(u)
    BY <1>1, <2>2, <2>3 DEF ThreadListed, Objects
  <2>5. \A u \in Tasks : TaskListed(u)' <=> TaskListed(u)
    BY <2>1, <2>2, <2>3 DEF TaskListed, Dead, Objects
  <2> QED BY <1>2, <2>3, <2>4, <2>5, ListKept
<1>8. ASSUME NEW th \in Threads, Find(x, th) PROVE ListExact'
  <2>1. UNCHANGED <<objects, holdCount, killed, freed, gcThread, gcTask>> /\ taskOf[th] \in Tasks
    BY <1>1, <1>8 DEF Find, gcVars
  <2>2. CASE CanRetain(th) /\ Retain(th) BY <2>1, <2>2, ListRetained
  <2>3. CASE UNCHANGED retainCount
    BY <1>2, <2>1, <2>3, ListKept DEF ThreadListed, TaskListed, Dead
  <2> QED BY <1>8, <2>2, <2>3 DEF Find
<1>9. CASE LaunchFailed(x) \/ ReleaseFound(x)
  <2>1. pc[x] \in Referring
    BY <1>9 DEF LaunchFailed, ReleaseFound, At, Referring
  <2>2. ref[x] \in Threads BY <2>1, Referred DEF Inv, TypeOK, Holders
  <2>3. LaunchFailed(x) => ref[x] \notin killed
    BY <2>2 DEF LaunchFailed, At, Inv, Shape, Launches, Places, Launching
  <2>4. /\ Release(ref[x])
        /\ freed' = freed \/ (ref[x] \notin killed /\ freed' = freed \cup {ref[x]})
        /\ UNCHANGED <<holdCount, killed, gcThread, gcTask>>
    BY <1>9, <2>3 DEF LaunchFailed, ReleaseFound, GiveUp, gcVars
  <2> QED BY <2>2, <2>4, ListReleased DEF Holders
<1> QED BY <1>3, <1>4, <1>5, <1>6, <1>7, <1>8, <1>9 DEF ThreadStep

\* And what Switch does.
LEMMA SwitchStepList ==
  ASSUME Inv, NEW c \in Cpus, SwitchStep(c)
  PROVE  ListExact'
<1>1. UNCHANGED <<holdCount, killed, freed, gcThread, gcTask>>
  BY SwitchStepFrame DEF gcVars
<1>2. CASE UNCHANGED <<objects, retainCount>>
  BY <1>1, <1>2, ListKept DEF Inv, Shape, ThreadListed, TaskListed, Dead
<1>3. CASE ref[c] # None /\ Release(ref[c])
  BY <1>1, <1>3, Referred, ListReleased DEF Holders
<1>4. ASSUME NEW th \in todo, CanRetain(th), Retain(th), UNCHANGED objects
      PROVE  ListExact'
  <2>1. th \in Threads /\ taskOf[th] \in Tasks
    BY <1>4, ConstantsAssumption DEF Inv, TypeOK
  <2> QED BY <1>1, <1>4, <2>1, ListRetained
<1> QED
  BY <1>2, <1>3, <1>4
     DEF SwitchStep, SwitchEnter, SwitchRetain, SwitchSkip, SwitchTake, SwitchIdle

\* The collector takes an object out of the list for good.
LEMMA GcStepList ==
  ASSUME Inv, GcStep
  PROVE  ListExact'
<1>1. ListExact /\ TypeOK /\ Collecting /\ UNCHANGED <<holdCount, killed>>
  BY GcStepFrame DEF Inv, Shape
<1>2. Threads \cap Tasks = {} /\ None \notin Threads \cup Tasks
      /\ Threads \subseteq Objects /\ Tasks \subseteq Objects
  BY ConstantsAssumption DEF Objects
<1>3. ASSUME NEW o \in Objects, GcShift(o) PROVE ListExact'
  <2>1. /\ gcThread = None /\ gcTask = None /\ UNCHANGED <<retainCount, freed>> /\ objects[o] > 0
        /\ \/ o \in Threads /\ gcThread' = o /\ gcTask' = gcTask
           \/ o \in Tasks /\ gcTask' = o /\ gcThread' = gcThread
        /\ \A u \in Objects : objects'[u] = IF u = o THEN objects[u] - 1 ELSE objects[u]
    BY <1>1, <1>3 DEF GcShift, Collecting, Plus, TypeOK
  <2>2. \A u \in Threads \ {o} : ThreadListed(u)' <=> ThreadListed(u)
    BY <1>1, <1>2, <2>1 DEF ThreadListed
  <2>3. \A u \in Tasks \ {o} : TaskListed(u)' <=> TaskListed(u)
    BY <1>1, <1>2, <2>1 DEF TaskListed, Dead
  <2>4. /\ o \in Threads => ~ThreadListed(o)'
        /\ o \in Tasks => ~TaskListed(o)'
    BY <1>2, <2>1 DEF ThreadListed, TaskListed
  <2>5. objects'[o] = 0 BY <1>1, <2>1 DEF ListExact, TypeOK
  <2>6. \A u \in Objects \ {o} : objects'[u] = objects[u] BY <1>1, <2>1 DEF TypeOK
  <2>7. \A u \in Threads : objects'[u] = IF ThreadListed(u)' THEN 1 ELSE 0
    BY <1>1, <1>2, <2>2, <2>4, <2>5, <2>6 DEF ListExact
  <2>8. \A u \in Tasks : objects'[u] = IF TaskListed(u)' THEN 1 ELSE 0
    BY <1>1, <1>2, <2>3, <2>4, <2>5, <2>6 DEF ListExact
  <2> QED BY <2>7, <2>8 DEF ListExact
<1>4. CASE GcReleaseTask
  <2>1. /\ gcThread \in Threads \cap killed /\ gcThread \notin freed /\ gcPc = "release"
        /\ retainCount[gcThread] = 0 /\ taskOf[gcThread] \in Tasks
    BY <1>1, <1>4 DEF GcReleaseTask, Collecting, TypeOK, Inv, Shape, Gone
  <2>2. PICK t \in Tasks : t = taskOf[gcThread] BY <2>1
  <2>3. gcThread \in Unreturned(t) BY <2>1, <2>2 DEF Unreturned
  <2>4. retainCount[t] >= 1 BY <1>1, <1>2, <2>3, CountFacts DEF Inv, TypeOK
  <2>5. t \notin freed \cup {gcTask} BY <2>4 DEF Inv, Shape, Gone, Dead
  <2>6. objects[t] = 0 BY <1>1, <2>4 DEF ListExact, TaskListed, Dead
  <2>7. /\ objects' = Plus(objects, Spent(t, retainCount[t] - 1, holdCount[t]), 1)
        /\ retainCount' = Plus(retainCount, {t}, -1)
        /\ UNCHANGED <<freed, gcThread, gcTask>>
    BY <1>4, <2>2 DEF GcReleaseTask, ThrowAway
  <2>8. /\ \A o \in Objects \ {t} : objects'[o] = objects[o] /\ retainCount'[o] = retainCount[o]
        /\ retainCount'[t] = retainCount[t] - 1
        /\ objects'[t] = IF retainCount[t] - 1 = 0 /\ holdCount[t] = 0 /\ t \in killed THEN 1 ELSE 0
    BY <1>1, <1>2, <2>6, <2>7 DEF Plus, Spent, TypeOK
  <2>9. \A u \in Tasks \ {t} : TaskListed(u)' <=> TaskListed(u)
    BY <1>1, <1>2, <2>7, <2>8 DEF TaskListed, Dead
  <2>10. \A u \in Threads : ThreadListed(u)' <=> ThreadListed(u)
    BY <1>1, <1>2, <2>7, <2>8 DEF ThreadListed
  <2>11. TaskListed(t)' <=> retainCount[t] - 1 = 0 /\ holdCount[t] = 0 /\ t \in killed
    BY <1>1, <2>5, <2>7, <2>8 DEF TaskListed, Dead
  <2> QED BY <1>1, <1>2, <2>8, <2>9, <2>10, <2>11 DEF ListExact
<1>5. CASE GcNextThread \/ GcRemove \/ GcDelete
  <2>1. UNCHANGED <<objects, retainCount>> BY <1>5 DEF GcNextThread, GcRemove, GcDelete
  <2>2. CASE GcRemove
    BY <1>1, <2>1, <2>2, ListKept DEF GcRemove, ThreadListed, TaskListed, Dead
  <2>3. CASE GcNextThread
    <3>1. /\ gcThread = None /\ gcThread' \notin killed /\ UNCHANGED <<freed, gcTask>>
      BY <1>1, <2>3 DEF GcNextThread, Collecting
    <3> QED BY <1>1, <1>2, <2>1, <3>1, ListKept DEF ThreadListed, TaskListed, Dead
  <2>4. CASE GcDelete
    <3>1. \/ /\ freed' = freed \cup {gcThread} /\ gcThread' = None /\ gcTask' = gcTask
             /\ gcThread \in Threads
          \/ /\ freed' = freed \cup {gcTask} /\ gcTask' = None /\ gcThread' = gcThread
             /\ gcTask \in Tasks
      BY <1>1, <2>4 DEF GcDelete, TypeOK
    <3>2. \A u \in Threads : ThreadListed(u)' <=> ThreadListed(u)
      BY <1>1, <1>2, <2>1, <3>1 DEF ThreadListed
    <3>3. \A u \in Tasks : TaskListed(u)' <=> TaskListed(u)
      BY <1>1, <1>2, <2>1, <3>1 DEF TaskListed, Dead
    <3> QED BY <1>1, <2>1, <3>2, <3>3, ListKept
  <2> QED BY <1>5, <2>2, <2>3, <2>4
<1> QED BY <1>3, <1>4, <1>5 DEF GcStep

-----------------------------------------------------------------------------
(* What is gone.                                                           *)

\* A dead task counts nothing, and a thread that nothing refers to has no count.
Uncounted ==
  /\ \A t \in Tasks : Dead(t) => TaskRefs(t) = {} /\ Unreturned(t) = {} /\ Holds(t) = {}
  /\ \A th \in Threads : ThreadRefs(th) = {} => retainCount[th] = 0

\* The counts say so.
LEMMA CountsUncounted == TypeOK /\ Counts => Uncounted
BY CountFacts DEF Uncounted, Dead

\* What a step of any kind does to what is gone already: nothing refers to a task that
\* is dead, nor to its threads, nor to a thread that died before.
LEMMA StillGone ==
  ASSUME Inv, [Next]_vars, NEW th \in Threads, taskOf[th] \in Tasks, retainCount[th] = 0,
         th \in killed \/ Dead(taskOf[th])
  PROVE  /\ retainCount'[th] = 0 /\ taskOf'[th] = taskOf[th]
         /\ (th \in killed \/ Dead(taskOf[th]))'
<1>1. TypeOK' /\ Counts' BY EarlierStep, CountsStep
<1>2. taskOf'[th] = taskOf[th] /\ killed \subseteq killed'
  BY Stable, ConstantsAssumption DEF Inv
<1>3. CASE th \in killed BY <1>2, <1>3, DeadForever
<1>4. CASE Dead(taskOf[th])
  <2>1. PICK t \in Tasks : t = taskOf[th] OBVIOUS
  <2>2. Dead(t)' BY <1>4, <2>1, DeadForever
  <2>3. Uncounted' BY <1>1, CountsUncounted, PTL
  <2>4. TaskRefs(t)' = {} BY <2>2, <2>3 DEF Uncounted
  <2>5. ThreadRefs(th)' = {} BY <1>2, <2>1, <2>4, ConstantsAssumption DEF ThreadRefs, TaskRefs
  <2>6. retainCount'[th] = 0 BY <2>3, <2>5 DEF Uncounted
  <2> QED BY <1>2, <2>1, <2>2, <2>6 DEF Dead
<1> QED BY <1>3, <1>4

\* A thread that no step can reach has no reference to it.
LEMMA UnreachedNext ==
  ASSUME Inv, [Next]_vars, NEW th \in Threads, ThreadRefs(th)' = {}
  PROVE  retainCount'[th] = 0
<1>1. TypeOK' /\ Counts' BY EarlierStep, CountsStep
<1>2. Uncounted' BY <1>1, CountsUncounted, PTL
<1> QED BY <1>2 DEF Uncounted

\* A thread's step moves no other thread, and a thread that was launched and is in no list
\* is not found.
LEMMA ThreadStepOthers ==
  ASSUME Inv, NEW y \in Threads, ThreadStep(y), NEW th \in Threads \ {y},
         taskOf[th] # None, th \notin threadList, ThreadRefs(th) = {}
  PROVE  pc'[th] = pc[th] /\ ThreadRefs(th)' = {}
<1>1. TypeOK /\ y \in Holders /\ y # th BY DEF Inv, Holders
<1> DEFINE Aside == pc'[th] = pc[th] /\ \A h \in Holders : ref'[h] = ref[h] \/ ref'[h] # th
<1>2. Aside
  <2>1. CASE \/ EnterHoldScope(y) \/ LeaveNestedScope(y) \/ LeaveHoldScope(y)
             \/ ExitKill(y) \/ ExitUnhold(y)
    BY <1>1, <2>1
       DEF EnterHoldScope, LeaveNestedScope, LeaveHoldScope, ExitKill, ExitUnhold, Goto, TypeOK
  <2>2. CASE \/ AddToTask(y) \/ AddToScheduler(y) \/ LaunchFailed(y)
             \/ ReleaseFound(y) \/ FinishRelease(y)
    BY <1>1, <2>2, ConstantsAssumption
       DEF AddToTask, AddToScheduler, LaunchFailed, ReleaseFound, FinishRelease, Goto, TypeOK
  <2>3. ASSUME NEW u \in Threads, LaunchThread(y, u) \/ Find(y, u) PROVE Aside
    BY <1>1, <2>3 DEF LaunchThread, Find, Goto, TypeOK
  <2> QED BY <2>1, <2>2, <2>3 DEF ThreadStep
<1> QED BY <1>2 DEF ThreadRefs

\* A thread that could not be launched is known to its launcher only, who deletes it.
LEMMA FailedAlone ==
  ASSUME Inv, NEW y \in Threads, LaunchFailed(y), NEW th \in Threads, ref[y] = th
  PROVE  /\ freed' = freed \cup {th} /\ retainCount'[th] = 0 /\ pc'[th] = "user"
         /\ th \notin threadList /\ th \notin queue /\ taskOf[th] \in Tasks
<1> USE ConstantsAssumption
<1>1. y \in queue /\ y \in Holders /\ [Next]_vars /\ TypeOK
  BY StepOnCpu DEF Next, ThreadStep, Holders, Inv
<1>2. /\ pc[y] = "unlisted" /\ freed' = freed \cup {th} /\ ref' = [ref EXCEPT ![y] = None]
      /\ pc' = [pc EXCEPT ![y] = "held"]
  BY DEF LaunchFailed, At, Goto
<1>3. th \notin threadList /\ th \notin queue /\ pc[th] = "user" /\ taskOf[th] \in Tasks
  BY <1>1, <1>2, Referred DEF Inv, Shape, Launches, Launching
<1>4. ASSUME NEW h \in Holders, ref[h] = th PROVE h = y
  <2>1. h \notin Cpus BY <1>3, <1>4 DEF Inv, Shape, Scheduled
  <2>2. h \in Threads /\ pc[h] \in Referring BY <1>1, <1>4, <2>1 DEF TypeOK, Holders
  <2>3. pc[h] \in Launching
    BY <1>3, <1>4, <2>2 DEF Inv, Shape, Launches, Referring, Launching
  <2> QED BY <1>2, <1>4, <2>2, <2>3 DEF Inv, Shape, Launches, Launching
<1>5. ThreadRefs(th)' = {} BY <1>1, <1>2, <1>4 DEF ThreadRefs, TypeOK
<1>6. retainCount'[th] = 0 BY <1>1, <1>5, UnreachedNext
<1> QED BY <1>1, <1>2, <1>3, <1>6 DEF TypeOK

\* A thread's step deletes only a thread that it could not launch, which nobody else knows,
\* and lists only threads that are alive.
LEMMA ThreadStepGone ==
  ASSUME Inv, NEW y \in Threads, ThreadStep(y)
  PROVE  Gone'
<1>1. /\ [Next]_vars /\ TypeOK /\ Gone /\ y \in Holders /\ y \in queue
      /\ queue \subseteq threadList
  BY StepOnCpu DEF Next, Inv, Shape, Scheduled, Holders
<1>2. UNCHANGED <<gcThread, gcTask, gcTodo>> BY ThreadStepFrame
<1>3. \A th \in Threads : taskOf[th] \in Tasks => taskOf'[th] = taskOf[th]
  BY <1>1, Stable, ConstantsAssumption
<1>4. pc[y] \in Referring =>
        /\ ref[y] \in Threads /\ taskOf[ref[y]] \in Tasks /\ retainCount[ref[y]] >= 1
        /\ ref[y] \notin freed \cup {gcThread} /\ taskOf[ref[y]] \notin freed \cup {gcTask}
  BY <1>1, Referred DEF TypeOK
<1>5. /\ queue' = queue \/ (AddToScheduler(y) /\ queue' = queue \cup {ref[y]})
      /\ threadList' = threadList \/ (AddToTask(y) /\ threadList' = threadList \cup {ref[y]})
      /\ freed' = freed \/ (LaunchFailed(y) /\ freed' = freed \cup {ref[y]})
  <2>1. CASE AddToTask(y) \/ AddToScheduler(y) \/ LaunchFailed(y)
    BY <2>1 DEF AddToTask, AddToScheduler, LaunchFailed, threadVars, schedVars, gcVars
  <2>2. CASE ~(AddToTask(y) \/ AddToScheduler(y) \/ LaunchFailed(y))
    BY <2>2 DEF ThreadStep, EnterHoldScope, LeaveNestedScope, LeaveHoldScope, ExitKill,
         ExitUnhold, LaunchThread, Find, ReleaseFound, FinishRelease, threadVars, schedVars, gcVars
  <2> QED BY <2>1, <2>2
<1>6. AddToTask(y) \/ AddToScheduler(y) =>
        pc[y] \in Referring /\ freed' = freed
  BY DEF AddToTask, AddToScheduler, At, Referring, gcVars
<1>7. LaunchFailed(y) =>
        /\ ref[y] \in Threads /\ freed' = freed \cup {ref[y]} /\ queue' = queue /\ threadList' = threadList
        /\ retainCount'[ref[y]] = 0 /\ pc'[ref[y]] = "user"
        /\ ref[y] \notin threadList /\ ref[y] \notin queue /\ taskOf[ref[y]] \in Tasks
  BY <1>4, FailedAlone DEF LaunchFailed, At, Referring, threadVars, schedVars
<1>8. ASSUME NEW t \in Tasks, t \in freed' \/ gcTask' = t PROVE Dead(t)'
  BY <1>1, <1>2, <1>5, <1>7, <1>8, DeadForever, ConstantsAssumption DEF Gone
<1>9. ASSUME NEW th \in Threads, th \in freed' \/ gcThread' = th
      PROVE  /\ retainCount'[th] = 0 /\ taskOf'[th] \in Tasks
             /\ \/ (th \in killed \/ Dead(taskOf[th]))'
                \/ th \notin threadList' /\ pc'[th] = "user"
  <2>1. CASE LaunchFailed(y) /\ th = ref[y]
    BY <1>3, <1>7, <2>1
  <2>2. CASE th \in freed \/ gcThread = th
    <3>1. /\ retainCount[th] = 0 /\ taskOf[th] \in Tasks
          /\ \/ th \in killed \/ Dead(taskOf[th])
             \/ th \notin threadList /\ pc[th] = "user"
      BY <1>1, <2>2 DEF Gone
    <3>2. CASE th \in killed \/ Dead(taskOf[th])
      BY <1>1, <1>3, <3>1, <3>2, StillGone
    <3>3. CASE th \notin threadList /\ pc[th] = "user"
      <4>1. th \notin threadList'
        BY <1>4, <1>5, <1>6, <2>2, <3>3
      <4>2. ThreadRefs(th) = {} BY <1>1, <3>1, CountFacts DEF Inv
      <4>3. th # y /\ taskOf[th] # None BY <1>1, <3>1, <3>3, ConstantsAssumption
      <4>4. pc'[th] = "user" /\ ThreadRefs(th)' = {}
        BY <3>3, <4>2, <4>3, ThreadStepOthers
      <4>5. retainCount'[th] = 0 BY <1>1, <4>4, UnreachedNext
      <4> QED BY <1>3, <3>1, <4>1, <4>4, <4>5
    <3> QED BY <3>1, <3>2, <3>3
  <2> QED BY <1>2, <1>5, <1>9, <2>1, <2>2
<1>10. \A th \in Threads \cap freed' : th \in threadList' => taskOf'[th] \in freed' \cup {gcTask'}
  BY <1>1, <1>2, <1>3, <1>4, <1>5, <1>6, <1>7 DEF Gone
<1>11. \A th \in threadList' : taskOf'[th] \in Tasks
  BY <1>1, <1>3, <1>4, <1>5, <1>6 DEF Gone, TypeOK
<1>12. \A th \in queue' :
         /\ th \notin freed' /\ taskOf'[th] \notin freed'
         /\ taskOf'[th] = gcTask' => th \in gcTodo' \/ gcThread' = th
  BY <1>1, <1>2, <1>3, <1>4, <1>5, <1>6, <1>7, ConstantsAssumption DEF Gone, TypeOK
<1> QED BY <1>8, <1>9, <1>10, <1>11, <1>12 DEF Gone

\* Switch refers to threads of the scheduler's list only.
LEMMA SwitchStepGone ==
  ASSUME Inv, NEW c \in Cpus, SwitchStep(c)
  PROVE  Gone'
<1>1. [Next]_vars /\ TypeOK /\ Gone /\ Scheduled /\ Scheduled'
  BY SwitchStepScheduled DEF Next, Inv, Shape
<1>2. /\ UNCHANGED <<killed, threadList, taskOf, queue, freed, gcThread, gcTask, gcTodo, pc>>
      /\ \A h \in Holders : h # c => ref'[h] = ref[h]
  BY SwitchStepFrame DEF threadVars, gcVars
<1>3. \A t \in Tasks : Dead(t) => Dead(t)' BY <1>1, DeadForever
<1>4. ASSUME NEW th \in Threads, th \in freed \/ gcThread = th
      PROVE  /\ retainCount'[th] = 0
             /\ (th \in killed \/ Dead(taskOf[th]))' \/ (th \notin threadList /\ pc[th] = "user")
  <2>1. /\ retainCount[th] = 0 /\ taskOf[th] \in Tasks
        /\ \/ th \in killed \/ Dead(taskOf[th])
           \/ th \notin threadList /\ pc[th] = "user"
    BY <1>1, <1>4 DEF Gone
  <2>2. CASE th \in killed \/ Dead(taskOf[th]) BY <1>1, <2>1, <2>2, StillGone
  <2>3. CASE th \notin threadList /\ pc[th] = "user"
    <3>1. ThreadRefs(th) = {} BY <1>1, <2>1, CountFacts DEF Inv
    <3>2. ref'[c] # th BY <1>1, <1>2, <2>3, ConstantsAssumption DEF Scheduled
    <3>3. ThreadRefs(th)' = {} BY <1>2, <3>1, <3>2 DEF ThreadRefs
    <3> QED BY <1>1, <2>3, <3>3, UnreachedNext
  <2> QED BY <2>1, <2>2, <2>3
<1> QED BY <1>1, <1>2, <1>3, <1>4 DEF Gone

\* The collector deletes what it took out of the list, which is dead, and of a task it
\* first deletes the threads that its list contains.
LEMMA GcStepGone ==
  ASSUME Inv, GcStep
  PROVE  Gone'
<1>1. [Next]_vars /\ TypeOK /\ Gone /\ Collecting /\ ListExact /\ queue \subseteq threadList
  BY DEF Next, Inv, Shape, Scheduled
<1>2. UNCHANGED <<killed, taskOf, pc>> BY GcStepFrame
<1>3. \A t \in Tasks : Dead(t) => Dead(t)' BY <1>1, DeadForever
<1>4. /\ \A th \in Threads : retainCount'[th] = retainCount[th]
      /\ threadList' \subseteq threadList
      /\ queue' \subseteq queue
      /\ GcRemove => queue' = queue \ {gcThread}
      /\ UNCHANGED freed \/ GcDelete
  <2>1. CASE GcReleaseTask
    <3>1. taskOf[gcThread] \in Tasks
      BY <1>1, <2>1, ConstantsAssumption DEF GcReleaseTask, Collecting, Gone, TypeOK
    <3> QED BY <1>1, <2>1, <3>1, ConstantsAssumption
            DEF GcReleaseTask, Plus, TypeOK, schedVars, Objects, GcRemove
  <2>2. CASE ~GcReleaseTask
    BY <2>2 DEF GcStep, GcShift, GcNextThread, GcRemove, GcDelete, Unlisted, threadVars, schedVars
  <2> QED BY <2>1, <2>2
<1>5. None \notin Tasks \cup Threads /\ Tasks \cap Threads = {} BY ConstantsAssumption
<1>6. \A th \in Threads : th \in freed \/ gcThread = th => retainCount[th] = 0 /\ taskOf[th] \in Tasks
  BY <1>1 DEF Gone
<1>7. ASSUME NEW t \in Tasks, t \in freed' \/ gcTask' = t PROVE Dead(t)
  <2>1. CASE t \in freed \/ gcTask = t BY <1>1, <2>1 DEF Gone
  <2>2. CASE ~(t \in freed \/ gcTask = t)
    <3>1. ~(GcNextThread \/ GcRemove \/ GcReleaseTask \/ GcDelete)
      BY <1>1, <1>5, <1>7, <2>2 DEF GcNextThread, GcRemove, GcReleaseTask, GcDelete, TypeOK
    <3>2. PICK o \in Objects : GcShift(o) BY <3>1 DEF GcStep
    <3>3. o = t BY <1>7, <2>2, <3>2 DEF GcShift
    <3> QED BY <1>1, <3>2, <3>3 DEF GcShift, ListExact, TaskListed
  <2> QED BY <2>1, <2>2
<1>8. ASSUME NEW th \in Threads, th \in freed' \/ gcThread' = th,
             ~(th \in freed \/ gcThread = th)
      PROVE  retainCount[th] = 0 /\ taskOf[th] \in Tasks /\ (th \in killed \/ Dead(taskOf[th]))
  <2>1. GcShift(th) \/ (GcNextThread /\ th \in gcTodo)
    <3>1. ~(GcRemove \/ GcReleaseTask \/ GcDelete)
      BY <1>1, <1>5, <1>8 DEF GcRemove, GcReleaseTask, GcDelete, TypeOK
    <3>2. CASE GcNextThread BY <1>8, <3>2 DEF GcNextThread
    <3>3. ASSUME NEW o \in Objects, GcShift(o) PROVE o = th BY <1>8, <3>3 DEF GcShift
    <3> QED BY <3>1, <3>2, <3>3 DEF GcStep
  <2>2. CASE GcShift(th)
    BY <1>1, <1>5, <2>2 DEF GcShift, ListExact, ThreadListed, Inv, KilledLaunched, TypeOK
  <2>3. CASE GcNextThread /\ th \in gcTodo
    <3>1. taskOf[th] = gcTask /\ gcTask \in Tasks
      BY <1>1, <2>3 DEF Collecting, TypeOK, GcNextThread
    <3>2. Dead(gcTask) BY <1>1, <3>1 DEF Gone
    <3>3. TaskRefs(gcTask) = {} BY <1>1, <3>1, <3>2, CountsUncounted DEF Inv, Uncounted
    <3>4. ThreadRefs(th) = {} BY <1>5, <3>1, <3>3 DEF TaskRefs, ThreadRefs
    <3> QED BY <1>1, <3>1, <3>2, <3>4, CountsUncounted DEF Inv, Uncounted
  <2> QED BY <2>1, <2>2, <2>3
<1>9. ASSUME NEW th \in Threads, th \in freed' \/ gcThread' = th
      PROVE  /\ retainCount'[th] = 0 /\ taskOf'[th] \in Tasks
             /\ \/ (th \in killed \/ Dead(taskOf[th]))'
                \/ th \notin threadList' /\ pc'[th] = "user"
  <2>1. /\ retainCount[th] = 0 /\ taskOf[th] \in Tasks
        /\ \/ th \in killed \/ Dead(taskOf[th])
           \/ th \notin threadList /\ pc[th] = "user"
    BY <1>1, <1>8, <1>9 DEF Gone
  <2>2. CASE th \in killed \/ Dead(taskOf[th]) BY <1>1, <1>2, <2>1, <2>2, StillGone
  <2>3. CASE th \notin threadList /\ pc[th] = "user" BY <1>2, <1>4, <2>1, <2>3
  <2> QED BY <2>1, <2>2, <2>3
<1>10. \A th \in Threads \cap freed' : th \in threadList' => taskOf[th] \in freed' \cup {gcTask'}
  <2> SUFFICES ASSUME NEW th \in Threads, th \in freed', th \in threadList'
               PROVE  taskOf[th] \in freed' \cup {gcTask'}
    OBVIOUS
  <2>1. th \in threadList /\ taskOf[th] \in Tasks BY <1>1, <1>4 DEF Gone
  <2>2. CASE th \in freed
    <3>1. taskOf[th] \in freed \cup {gcTask} /\ taskOf[th] # None BY <1>1, <1>5, <2>1, <2>2 DEF Gone
    <3>2. freed \subseteq freed' /\ (gcTask = None \/ gcTask \in freed' \cup {gcTask'})
      <4>1. ASSUME NEW o \in Objects, GcShift(o) PROVE gcTask = None /\ freed' = freed
        BY <1>1, <4>1 DEF GcShift, Collecting
      <4>2. CASE GcNextThread BY <4>2 DEF GcNextThread
      <4>3. CASE GcRemove BY <4>3 DEF GcRemove
      <4>4. CASE GcReleaseTask BY <4>4 DEF GcReleaseTask
      <4>5. CASE GcDelete BY <4>5 DEF GcDelete
      <4> QED BY <4>1, <4>2, <4>3, <4>4, <4>5 DEF GcStep
    <3> QED BY <3>1, <3>2
  <2>3. CASE th \notin freed
    <3>1. GcDelete /\ th = gcThread /\ gcPc = "delete" /\ gcTask' = gcTask
      BY <1>1, <1>4, <1>5, <2>3 DEF GcDelete, TypeOK
    <3> QED BY <1>1, <1>5, <2>1, <3>1 DEF Collecting, TypeOK
  <2> QED BY <2>2, <2>3
<1>11. ASSUME NEW th \in queue'
       PROVE  /\ th \notin freed' /\ taskOf[th] \notin freed'
              /\ taskOf[th] = gcTask' => th \in gcTodo' \/ gcThread' = th
  <2>1. /\ th \in Threads /\ th \in queue /\ th \in threadList /\ taskOf[th] \in Tasks
        /\ th \notin freed /\ taskOf[th] \notin freed
        /\ taskOf[th] = gcTask => th \in gcTodo \/ gcThread = th
    BY <1>1, <1>4 DEF Gone, TypeOK
  <2>2. ASSUME NEW o \in Objects, GcShift(o) PROVE <1>11!2
    BY <1>1, <1>5, <2>1, <2>2 DEF GcShift, Collecting
  <2>3. CASE GcNextThread BY <1>1, <1>5, <2>1, <2>3 DEF GcNextThread, Collecting
  <2>4. CASE GcRemove BY <1>1, <1>4, <2>1, <2>4 DEF GcRemove
  <2>5. CASE GcReleaseTask BY <2>1, <2>5 DEF GcReleaseTask
  <2>6. CASE GcDelete
    <3>1. CASE gcPc = "delete"
      BY <1>1, <1>5, <2>1, <2>6, <3>1 DEF GcDelete, Collecting, TypeOK
    <3>2. CASE gcPc = "threads"
      BY <1>1, <1>5, <2>1, <2>6, <3>2 DEF GcDelete, Collecting, TypeOK
    <3> QED BY <2>6, <3>1, <3>2 DEF GcDelete
  <2> QED BY <2>2, <2>3, <2>4, <2>5, <2>6 DEF GcStep
<1>12. \A th \in threadList' : taskOf'[th] \in Tasks BY <1>1, <1>2, <1>4 DEF Gone
<1> QED BY <1>2, <1>3, <1>7, <1>9, <1>10, <1>11, <1>12 DEF Gone

-----------------------------------------------------------------------------
(* The collector's control.                                                *)

\* No thread reaches what the collector works on.
LEMMA ThreadStepCollecting ==
  ASSUME Inv, NEW y \in Threads, ThreadStep(y)
  PROVE  Collecting'
<1>1. /\ [Next]_vars /\ TypeOK /\ Gone /\ Collecting /\ y \in Holders
      /\ y # gcThread /\ taskOf[y] \in Tasks /\ taskOf[y] # gcTask
  BY StepOnCpu, OnCpuListed DEF Next, Inv, Shape, Holders
<1>2. UNCHANGED <<gcPc, gcThread, gcTask, gcTodo>> BY ThreadStepFrame
<1>3. \A th \in Threads : taskOf[th] \in Tasks => taskOf'[th] = taskOf[th]
  BY <1>1, Stable, ConstantsAssumption
<1>4. pc[y] \in Referring =>
        ref[y] \in Threads /\ ref[y] # gcThread /\ taskOf[ref[y]] \in Tasks /\ taskOf[ref[y]] # gcTask
  BY <1>1, Referred DEF TypeOK
<1>5. /\ queue' = queue \/ (pc[y] \in Referring /\ queue' = queue \cup {ref[y]})
      /\ threadList' = threadList \/ (pc[y] \in Referring /\ threadList' = threadList \cup {ref[y]})
      /\ freed' = freed \/ (pc[y] \in Referring /\ freed' = freed \cup {ref[y]})
  <2>1. CASE AddToTask(y) \/ AddToScheduler(y) \/ LaunchFailed(y)
    BY <2>1 DEF AddToTask, AddToScheduler, LaunchFailed, At, Referring, threadVars, schedVars, gcVars
  <2>2. CASE ~(AddToTask(y) \/ AddToScheduler(y) \/ LaunchFailed(y))
    BY <2>2 DEF ThreadStep, EnterHoldScope, LeaveNestedScope, LeaveHoldScope, ExitKill,
         ExitUnhold, LaunchThread, Find, ReleaseFound, FinishRelease, threadVars, schedVars, gcVars
  <2> QED BY <2>1, <2>2
<1>6. killed' \in {killed, killed \cup {y}, killed \cup {taskOf[y]}}
  BY DEF ThreadStep, EnterHoldScope, LeaveNestedScope, LeaveHoldScope, ExitKill,
         ExitUnhold, LaunchThread, Find, AddToTask, AddToScheduler, LaunchFailed,
         ReleaseFound, FinishRelease
<1>7. None \notin Tasks \cup Threads /\ Tasks \cap Threads = {} BY ConstantsAssumption
<1>8. \A th \in gcTodo : th \in Threads /\ taskOf[th] = gcTask /\ gcTask \in Tasks
  BY <1>1 DEF Collecting, TypeOK
<1>9. gcThread # None => gcThread \in Threads /\ taskOf[gcThread] \in Tasks
  BY <1>1 DEF TypeOK, Gone
<1>10. gcTask \notin freed' /\ gcThread \notin freed'
  BY <1>1, <1>4, <1>5, <1>7 DEF Collecting, TypeOK
<1>11. \A th \in gcTodo : taskOf'[th] = gcTask /\ th \notin freed' \cup killed' \cup {gcThread}
  BY <1>1, <1>3, <1>4, <1>5, <1>6, <1>7, <1>8 DEF Collecting
<1>12. gcThread # None => IF gcTask = None THEN gcThread \in killed'
                          ELSE taskOf'[gcThread] = gcTask /\ gcThread \notin killed'
  BY <1>1, <1>3, <1>6, <1>7, <1>9 DEF Collecting
<1>13. /\ gcPc = "release" => gcThread \in killed'
       /\ gcPc \in {"release", "delete"} => gcThread \notin queue'
       /\ gcPc = "delete" /\ gcTask = None => gcThread \notin threadList'
  BY <1>1, <1>4, <1>5, <1>6 DEF Collecting
<1> QED BY <1>1, <1>2, <1>10, <1>11, <1>12, <1>13 DEF Collecting

\* Switch does not touch it.
LEMMA SwitchStepCollecting ==
  ASSUME Inv, NEW c \in Cpus, SwitchStep(c)
  PROVE  Collecting'
BY SwitchStepFrame DEF Inv, Shape, Collecting, threadVars, gcVars

\* The threads of a dead task that are still in its list are neither killed nor deleted.
LEMMA ListedOfDead ==
  ASSUME Inv, NEW t \in Tasks, Dead(t), t \notin freed, gcPc = "idle",
         NEW th \in threadList, taskOf[th] = t
  PROVE  th \notin killed \cup freed
<1>1. /\ gcThread = None /\ gcTask = None /\ th \in Threads /\ t # None
      /\ TaskRefs(t) = {} /\ Unreturned(t) = {} /\ None \notin Threads
  BY CountsUncounted, ConstantsAssumption DEF Inv, Shape, Collecting, TypeOK, Uncounted
<1>2. th \notin freed BY <1>1 DEF Inv, Shape, Gone
<1>3. ThreadRefs(th) = {} BY <1>1 DEF TaskRefs, ThreadRefs
<1>4. retainCount[th] = 0 BY <1>1, <1>3, CountsUncounted DEF Inv, Uncounted
<1>5. th \notin killed BY <1>1, <1>2, <1>4 DEF Unreturned
<1> QED BY <1>2, <1>5

\* The collector takes one object at a time, and of a task one thread after the other.
LEMMA GcStepCollecting ==
  ASSUME Inv, GcStep
  PROVE  Collecting'
<1>1. TypeOK /\ Gone /\ Collecting /\ ListExact
  BY DEF Inv, Shape
<1>2. UNCHANGED <<killed, taskOf, pc>> BY GcStepFrame
<1>3. None \notin Tasks \cup Threads /\ Tasks \cap Threads = {} BY ConstantsAssumption
<1>4. ASSUME NEW o \in Threads, GcShift(o) PROVE Collecting'
  <2>1. ThreadListed(o) BY <1>1, <1>4 DEF GcShift, ListExact
  <2>2. /\ gcThread' = o /\ gcPc' = "dealloc" /\ UNCHANGED <<gcTask, gcTodo, freed>>
        /\ gcTask = None /\ gcTodo = {}
    BY <1>1, <1>3, <1>4 DEF GcShift, Collecting
  <2> QED BY <1>1, <1>2, <1>3, <2>1, <2>2 DEF Collecting, ThreadListed
<1>5. ASSUME NEW o \in Tasks, GcShift(o) PROVE Collecting'
  <2>1. TaskListed(o) BY <1>1, <1>5 DEF GcShift, ListExact
  <2>2. /\ gcTask' = o /\ gcPc' = "threads" /\ gcTodo' = {th \in threadList : taskOf[th] = o}
        /\ UNCHANGED <<gcThread, freed>> /\ gcThread = None /\ gcPc = "idle"
    BY <1>1, <1>3, <1>5 DEF GcShift, Collecting
  <2>3. \A th \in gcTodo' : taskOf[th] = o /\ th \in Threads /\ th \notin killed \cup freed
    BY <1>1, <2>1, <2>2, ListedOfDead DEF TaskListed, TypeOK
  <2> QED BY <1>1, <1>2, <1>3, <2>1, <2>2, <2>3 DEF Collecting, TaskListed
<1>6. CASE GcNextThread
  BY <1>1, <1>2, <1>3, <1>6 DEF GcNextThread, Collecting, TypeOK
<1>7. CASE GcRemove
  BY <1>1, <1>2, <1>7 DEF GcRemove, Unlisted, Collecting, TypeOK
<1>8. CASE GcReleaseTask
  BY <1>1, <1>2, <1>8 DEF GcReleaseTask, Collecting, TypeOK, schedVars
<1>9. CASE GcDelete
  <2>1. CASE gcPc = "delete"
    <3>1. /\ gcThread \in Threads /\ gcThread' = None /\ freed' = freed \cup {gcThread}
          /\ gcPc' = IF gcTask = None THEN "idle" ELSE "threads"
          /\ UNCHANGED <<gcTask, gcTodo>>
      BY <1>1, <1>9, <2>1 DEF GcDelete, TypeOK
    <3> QED BY <1>1, <1>2, <1>3, <3>1 DEF Collecting, TypeOK, Objects
  <2>2. CASE gcPc = "threads"
    <3>1. /\ gcThread = None /\ freed' = freed \cup {gcTask} /\ gcTask \in Tasks
          /\ gcTask' = None /\ gcPc' = "idle" /\ UNCHANGED <<gcThread, gcTodo>> /\ gcTodo = {}
      BY <1>1, <1>9, <2>2 DEF GcDelete, TypeOK, Collecting
    <3> QED BY <1>1, <1>2, <1>3, <3>1 DEF Collecting, TypeOK, Objects
  <2> QED BY <1>9, <2>1, <2>2 DEF GcDelete
<1> QED BY <1>4, <1>5, <1>6, <1>7, <1>8, <1>9 DEF GcStep, Objects

-----------------------------------------------------------------------------
(* The inductive invariant holds, and what follows from it.                *)

\* In the state main() leaves behind nothing is referred to, held or killed.
LEMMA InitInv == Init => Inv
<1> SUFFICES ASSUME Init PROVE Inv OBVIOUS
<1>1. TypeOK BY InitType
<1>2. \A th \in Threads : ThreadRefs(th) = {} BY ConstantsAssumption DEF Init, ThreadRefs
<1>3. \A t \in Tasks : TaskRefs(t) = {} /\ Unreturned(t) = {} /\ Holds(t) = {}
  BY DEF Init, TaskRefs, Unreturned, Holds, Holding
<1>4. Counts
  <2>1. /\ \A th \in Threads : retainCount[th] = 0
        /\ \A t \in Tasks : retainCount[t] = 0 /\ holdCount[t] = 0
    BY DEF Init, Objects
  <2>2. \A th \in Threads : Cardinality(ThreadRefs(th)) = 0 BY <1>2, CountedFinite, Counted
  <2>3. \A t \in Tasks : Cardinality(TaskRefs(t)) = 0 /\ Cardinality(Unreturned(t)) = 0
    BY <1>3, CountedFinite, Counted
  <2>4. \A t \in Tasks : Cardinality(Holds(t)) = 0 BY <1>3, HoldsFinite, Counted
  <2> QED BY <2>1, <2>2, <2>3, <2>4 DEF Counts, ThreadCounts, TaskCounts, HoldsExact
<1> USE ConstantsAssumption DEF Init
<1>5. KilledLaunched /\ OneCpuPerThread
  BY DEF KilledLaunched, OneCpuPerThread, Holders
<1>6. \A th \in inTask : th \in Threads /\ taskOf[th] \in Tasks OBVIOUS
<1>7. ListExact BY DEF ListExact, ThreadListed, TaskListed, Dead, Objects
<1>8. Scheduled BY DEF Scheduled, Holders
<1>9. Launches BY DEF Launches, Launching
<1>10. Places BY DEF Places, Holding
<1>11. Gone BY <1>6 DEF Gone
<1>12. Collecting BY DEF Collecting
<1> QED BY <1>1, <1>4, <1>5, <1>7, <1>8, <1>9, <1>10, <1>11, <1>12 DEF Inv, Shape

\* Every step keeps every part of it.
LEMMA ShapeStep ==
  ASSUME Inv, [Next]_vars
  PROVE  Shape'
<1>1. CASE UNCHANGED vars
  BY <1>1 DEF vars, threadVars, schedVars, gcVars, Inv, Shape, ListExact, Scheduled, Launches, Places,
              Gone, Collecting, ThreadListed, TaskListed, Dead
<1>2. ASSUME NEW x \in Threads, ThreadStep(x) PROVE Shape'
  BY <1>2, ThreadStepList, ThreadStepScheduled, ThreadStepLaunches, ThreadStepPlaces,
     ThreadStepGone, ThreadStepCollecting DEF Shape
<1>3. ASSUME NEW c \in Cpus, SwitchStep(c) PROVE Shape'
  BY <1>3, SwitchStepList, SwitchStepScheduled, OtherStepLaunches, OtherStepPlaces,
     SwitchStepGone, SwitchStepCollecting DEF Shape
<1>4. CASE GcStep
  BY <1>4, GcStepList, GcStepScheduled, OtherStepLaunches, OtherStepPlaces,
     GcStepGone, GcStepCollecting DEF Shape
<1> QED BY <1>1, <1>2, <1>3, <1>4 DEF Next

\* So it holds in every reachable state.
LEMMA Inductive == Spec => []Inv
<1>1. Inv /\ [Next]_vars => Inv' BY EarlierStep, CountsStep, ShapeStep DEF Inv
<1> QED BY InitInv, <1>1, PTL DEF Spec

\* Every reference count and hold count is exactly the number of references and holds
\* there are: no path of the kernel loses a Retain, Release, Hold or Unhold or does it
\* twice.
THEOREM CountsAreExact == Spec => []CountsExact
<1>1. Inv => CountsExact
  BY DEF Inv, Counts, ThreadCounts, TaskCounts, HoldsExact, CountsExact
<1> QED BY <1>1, Inductive, PTL

\* No pointer that the kernel can still follow leads to a deleted thread or task.
THEOREM NothingDangles == Spec => []NoDangling
<1>1. ASSUME Inv PROVE NoDangling
  <2> USE DEF Inv, TypeOK
  <2>1. \A h \in Holders : ref[h] # None => {ref[h], taskOf[ref[h]]} \cap freed = {}
    BY <1>1, Referred
  <2>2. \A x \in Threads : pc[x] \in Holding => {x, taskOf[x]} \cap freed = {}
    BY <1>1, Held
  <2>3. \A th \in queue : {th, taskOf[th]} \cap freed = {} BY <1>1 DEF Shape, Gone
  <2>4. \A c \in Cpus : activeMap[c] \notin freed
    BY <1>1, <2>1, ConstantsAssumption DEF Shape, Scheduled, Objects, Holders
  <2>5. ASSUME gcPc = "release" PROVE taskOf[gcThread] \notin freed
    <3>1. gcThread \in Threads \cap killed /\ gcThread \notin freed
      BY <1>1, <2>5 DEF Shape, Collecting
    <3>2. PICK t \in Tasks : t = taskOf[gcThread] BY <1>1, <3>1 DEF Shape, Gone
    <3>3. gcThread \in Unreturned(t) BY <1>1, <2>5, <3>1, <3>2 DEF Shape, Gone, Unreturned
    <3>4. ~Dead(t) BY <1>1, <3>3, CountsUncounted DEF Uncounted
    <3> QED BY <1>1, <3>2, <3>4 DEF Shape, Gone
  <2> QED BY <2>1, <2>2, <2>3, <2>4, <2>5 DEF NoDangling
<1> QED BY <1>1, Inductive, PTL

\* RRScheduler::Switch may release the last reference to a thread and touch it afterwards:
\* while it has the scheduler's lock the collector cannot delete that thread or its task.
THEOREM SwitchTouches == Spec => []SwitchTouchesLive
<1>1. Inv => SwitchTouchesLive
  BY DEF Inv, Shape, Scheduled, Gone, SwitchTouchesLive
<1> QED BY <1>1, Inductive, PTL

\* No object enters the collector's list twice, or after it was deleted.
THEOREM ThrownAwayOnce == Spec => []ThrownOnce
<1>1. Inv => ThrownOnce
  BY ConstantsAssumption
     DEF Inv, TypeOK, Shape, ListExact, ThreadListed, TaskListed, ThrownOnce, Objects
<1> QED BY <1>1, Inductive, PTL

\* A task is thrown away only when nothing refers to it, holds it, runs in it or has still
\* to give a reference back: Task::Dealloc may delete it without a lock.
THEOREM QuiescentThrown == Spec => []QuiescentWhenThrown
<1>1. ASSUME Inv PROVE QuiescentWhenThrown
  <2> USE DEF Inv, TypeOK
  <2> SUFFICES ASSUME NEW t \in Tasks, objects[t] > 0 \/ gcTask = t
               PROVE  /\ t \in killed /\ TaskRefs(t) = {} /\ Holds(t) = {}
                      /\ \A th \in Threads : taskOf[th] = t =>
                           /\ th \notin running
                           /\ th \in killed => th \in freed \/ (gcThread = th /\ gcPc = "delete")
    BY DEF QuiescentWhenThrown
  <2>1. Dead(t) BY <1>1 DEF Shape, ListExact, TaskListed, Gone
  <2>2. TaskRefs(t) = {} /\ Unreturned(t) = {} /\ Holds(t) = {} /\ Uncounted
    BY <1>1, <2>1, CountsUncounted DEF Uncounted
  <2>3. ASSUME NEW th \in Threads, taskOf[th] = t
        PROVE  /\ th \notin running
               /\ th \in killed => th \in freed \/ (gcThread = th /\ gcPc = "delete")
    <3>1. ThreadRefs(th) = {} BY <2>2, <2>3, ConstantsAssumption DEF TaskRefs, ThreadRefs
    <3>2. retainCount[th] = 0 BY <2>2, <3>1 DEF Uncounted
    <3>3. th \notin running BY <1>1, <3>1 DEF Shape, Scheduled, ThreadRefs, Holders
    <3> QED BY <2>2, <2>3, <3>2, <3>3 DEF Unreturned
  <2> QED BY <2>1, <2>2, <2>3 DEF Dead
<1> QED BY <1>1, Inductive, PTL

\* A thread that is inside a HoldScope and has not killed itself is in the scheduler's
\* list, alive, and can be retained, also when its task has been killed.
THEOREM HeldResumes == Spec => []HeldCanBeResumed
<1>1. ASSUME Inv PROVE HeldCanBeResumed
  <2>1. \A x \in Threads : pc[x] \in Holding =>
          holdCount[taskOf[x]] # 0 /\ x \notin freed
    BY <1>1, Held DEF Inv, TypeOK
  <2> QED BY <1>1, <2>1 DEF Inv, Shape, Places, HeldCanBeResumed, CanRetain, CanRetainTask
<1> QED BY <1>1, Inductive, PTL

=============================================================================
