-------------------------- MODULE RRSchedulerProofs --------------------------
(***************************************************************************)
(* Theorems about RRScheduler.tla, for every number of threads and CPUs    *)
(* and every bound of the clock: no thread is lost from the list or put on *)
(* two CPUs, the scheduler implements Timeouts.tla, and no thread that may *)
(* run is overtaken by another more often than there are CPUs.             *)
(***************************************************************************)
EXTENDS MCRRScheduler, FiniteSetTheorems, TLAPS

\* The lock is with the CPU in Switch's loop, which has resigned its thread; every
\* other CPU without a thread waits, and nobody decides by a time yet to come.
LoopLocked ==
  /\ \A c \in Cpus : cpc[c] = "scan" <=> lock = c
  /\ lock = None => next = 0
  /\ \A c \in Cpus : cpc[c] \in {"scan", "idle"} => current[c] = None
  /\ \A c \in Cpus : now[c] <= clock

IInv == TypeOK /\ RunningExact /\ LoopLocked

-----------------------------------------------------------------------------
(* The list.                                                               *)

\* Taking one link out of a list without duplicates takes out one thread.
LEMMA RemoveAtOne ==
  ASSUME NEW s \in Seq(Threads), IsInjective(s), NEW i \in 1..Len(s)
  PROVE  /\ RemoveAt(s, i) \in Seq(Threads)
         /\ Len(RemoveAt(s, i)) = Len(s) - 1
         /\ IsInjective(RemoveAt(s, i))
         /\ Range(RemoveAt(s, i)) = Range(s) \ {s[i]}
         /\ \A j \in 1..Len(RemoveAt(s, i)) :
              RemoveAt(s, i)[j] = IF j < i THEN s[j] ELSE s[j + 1]
<1> DEFINE front == SubSeq(s, 1, i - 1)
           back  == SubSeq(s, i + 1, Len(s))
           r     == RemoveAt(s, i)
<1>i. /\ front \in Seq(Threads) /\ Len(front) = i - 1
      /\ \A j \in 1..(i - 1) : front[j] = s[j]
  OBVIOUS
<1>j. /\ back \in Seq(Threads) /\ Len(back) = Len(s) - i
      /\ \A j \in 1..(Len(s) - i) : back[j] = s[j + i]
  OBVIOUS
<1>k. r = front \o back BY DEF RemoveAt
<1> HIDE DEF front, back, r
<1>1. r \in Seq(Threads) /\ Len(r) = Len(s) - 1 BY <1>i, <1>j, <1>k
<1>2. \A j \in 1..Len(r) : r[j] = IF j < i THEN s[j] ELSE s[j + 1]
  <2> SUFFICES ASSUME NEW j \in 1..Len(r)
               PROVE  r[j] = IF j < i THEN s[j] ELSE s[j + 1]
    OBVIOUS
  <2>1. CASE j < i BY <2>1, <1>i, <1>j, <1>k
  <2>2. CASE j >= i
    <3>1. j - (i - 1) \in 1..Len(back) BY <2>2, <1>1, <1>j
    <3>2. r[j] = back[j - (i - 1)] BY <2>2, <3>1, <1>1, <1>i, <1>j, <1>k
    <3>3. back[j - (i - 1)] = s[j - (i - 1) + i] BY <3>1, <1>j
    <3>4. j - (i - 1) + i = j + 1 BY <1>1
    <3> QED BY <2>2, <3>2, <3>3, <3>4, <1>1
  <2> QED BY <2>1, <2>2, <1>1
<1>3. DOMAIN r = 1..Len(r) /\ DOMAIN s = 1..Len(s) BY <1>1
<1>4. \A j \in 1..Len(r) : (IF j < i THEN j ELSE j + 1) \in 1..Len(s) BY <1>1
<1>5. IsInjective(r)
  <2> SUFFICES ASSUME NEW j \in 1..Len(r), NEW k \in 1..Len(r), r[j] = r[k] PROVE j = k
    BY <1>3 DEF IsInjective
  <2> DEFINE at(l) == IF l < i THEN l ELSE l + 1
  <2>1. at(j) \in 1..Len(s) /\ at(k) \in 1..Len(s) BY <1>4
  <2>2. s[at(j)] = s[at(k)] BY <1>2
  <2>3. at(j) = at(k) BY <2>1, <2>2, <1>3 DEF IsInjective
  <2> QED BY <2>3, <1>1
<1>6. Range(r) \subseteq Range(s) \ {s[i]}
  <2> SUFFICES ASSUME NEW j \in 1..Len(r) PROVE r[j] \in Range(s) /\ r[j] # s[i]
    BY <1>3 DEF Range
  <2> DEFINE at == IF j < i THEN j ELSE j + 1
  <2>1. at \in 1..Len(s) /\ at # i BY <1>1
  <2>2. r[j] = s[at] BY <1>2
  <2> HIDE DEF at
  <2>3. s[at] # s[i] BY <1>3, <2>1 DEF IsInjective
  <2> QED BY <1>3, <2>1, <2>2, <2>3 DEF Range
<1>7. Range(s) \ {s[i]} \subseteq Range(r)
  <2> SUFFICES ASSUME NEW j \in 1..Len(s), s[j] # s[i] PROVE s[j] \in Range(r)
    BY <1>3 DEF Range
  <2>1. CASE j < i BY <2>1, <1>1, <1>2, <1>3 DEF Range
  <2>2. CASE j > i
    <3>1. j - 1 \in 1..Len(r) /\ r[j - 1] = s[j] BY <2>2, <1>1, <1>2
    <3> QED BY <3>1, <1>3 DEF Range
  <2> QED BY <2>1, <2>2
<1> QED BY <1>1, <1>2, <1>5, <1>6, <1>7 DEF r

\* Adding a thread that is not in the list adds one.
LEMMA AppendOne ==
  ASSUME NEW s \in Seq(Threads), IsInjective(s), NEW th \in Threads, th \notin Range(s)
  PROVE  /\ Append(s, th) \in Seq(Threads)
         /\ IsInjective(Append(s, th))
         /\ Range(Append(s, th)) = Range(s) \cup {th}
<1> DEFINE r == Append(s, th)
<1>1. r \in Seq(Threads) /\ Len(r) = Len(s) + 1 OBVIOUS
<1>2. \A j \in 1..Len(r) : r[j] = IF j = Len(s) + 1 THEN th ELSE s[j] OBVIOUS
<1> HIDE DEF r
<1>3. DOMAIN r = 1..Len(r) /\ DOMAIN s = 1..Len(s) BY <1>1
<1>4. IsInjective(r) BY <1>1, <1>2, <1>3 DEF IsInjective, Range
<1>5. Range(r) = Range(s) \cup {th} BY <1>1, <1>2, <1>3 DEF Range
<1> QED BY <1>1, <1>4, <1>5 DEF r

\* What RRScheduler::Remove and ResignCurrent make of the list.
LEMMA UnlinkedList ==
  ASSUME IInv, NEW th \in Listed
  PROVE  /\ Unlinked(th) \in Seq(Threads) /\ IsInjective(Unlinked(th))
         /\ Range(Unlinked(th)) = Listed \ {th}
<1>1. PlaceOf(th) \in 1..Len(threads) /\ threads[PlaceOf(th)] = th
  BY DEF IInv, TypeOK, Listed, Range, PlaceOf
<1> QED BY <1>1, RemoveAtOne DEF IInv, TypeOK, RunningExact, Listed, Unlinked

\* Moving a thread to the back of the list keeps the list's threads, each once.
LEMMA ToTheBackList ==
  ASSUME IInv, NEW th \in Listed
  PROVE  /\ ToTheBack(th) \in Seq(Threads) /\ IsInjective(ToTheBack(th))
         /\ Range(ToTheBack(th)) = Listed
<1>1. th \in Threads BY DEF IInv, TypeOK, Listed, Range
<1>2. th \notin Range(Unlinked(th)) BY UnlinkedList
<1>3. Unlinked(th) \in Seq(Threads) /\ IsInjective(Unlinked(th)) BY UnlinkedList
<1>4. Range(Append(Unlinked(th), th)) = Range(Unlinked(th)) \cup {th}
  BY <1>1, <1>2, <1>3, AppendOne
<1> QED BY <1>1, <1>2, <1>3, <1>4, UnlinkedList, AppendOne DEF ToTheBack

-----------------------------------------------------------------------------
(* The invariant.                                                          *)

\* It holds when Run() calls Switch on every CPU.
LEMMA InitInv == Init => IInv
<1> SUFFICES ASSUME Init PROVE IInv OBVIOUS
<1>1. Cardinality(Threads) \in Nat BY RRSchedulerAssumption, FS_CardinalityType
<1>2. threads \in Seq(Threads) /\ IsInjective(threads) BY <1>1 DEF Init
<1>3. TypeOK BY <1>2, RRSchedulerAssumption DEF Init, TypeOK, Infinite
<1>4. RunningExact BY <1>2 DEF Init, RunningExact
<1>5. LoopLocked BY RRSchedulerAssumption DEF Init, LoopLocked
<1> QED BY <1>3, <1>4, <1>5 DEF IInv

\* The calls of threads and of the collector preserve it.
LEMMA CallInv ==
  ASSUME IInv, NEW c \in Cpus, NEW d \in clock..Infinite, NEW S \in SUBSET Threads,
         SetTimeout(c, d) \/ End(c, S) \/ EnterSwitch(c) \/ Tick
  PROVE  IInv'
<1> USE RRSchedulerAssumption
    DEF IInv, TypeOK, RunningExact, LoopLocked, Listed, Infinite, Calls
<1>1. CASE SetTimeout(c, d) BY <1>1 DEF SetTimeout
<1>2. CASE End(c, S) BY <1>2 DEF End
<1>3. CASE EnterSwitch(c) BY <1>3 DEF EnterSwitch
<1>4. CASE Tick
  <2>1. /\ clock < MaxTime /\ clock' = clock + 1
        /\ UNCHANGED <<threads, deadline, running, gone, current, lock, cpc, now, next>>
    BY <1>4 DEF Tick
  <2>2. TypeOK' BY <2>1 DEF TypeOK
  <2>3. RunningExact' BY <2>1 DEF RunningExact
  <2>4. LoopLocked'
    <3>1. \A e \in Cpus : now'[e] <= clock' BY <2>1
    <3> QED BY <2>1, <3>1 DEF LoopLocked
  <2> QED BY <2>2, <2>3, <2>4
<1> QED BY <1>1, <1>2, <1>3, <1>4

\* The calls that change the list keep the invariant.
LEMMA ListInv ==
  ASSUME IInv, NEW th \in Threads, ClearTimeout(th) \/ Add(th) \/ RemoveThread(th)
  PROVE  IInv'
<1> USE RRSchedulerAssumption DEF IInv, TypeOK, LoopLocked, Infinite
<1>1. CASE ClearTimeout(th) BY <1>1 DEF ClearTimeout, RunningExact, Listed
<1>2. CASE Add(th)
  <2>1. threads' \in Seq(Threads) /\ IsInjective(threads') /\ Listed' = Listed \cup {th}
    BY <1>2, AppendOne DEF Add, RunningExact, Listed
  <2>2. next' \in 0..Len(threads') BY <1>2, <2>1 DEF Add, ListFree
  <2> QED BY <1>2, <2>1, <2>2 DEF Add, ListFree, RunningExact
<1>3. CASE RemoveThread(th)
  <2>1. threads' \in Seq(Threads) /\ IsInjective(threads') /\ Listed' = Listed \ {th}
    BY <1>3, UnlinkedList DEF RemoveThread, Listed
  <2>2. next' \in 0..Len(threads') BY <1>3, <2>1 DEF RemoveThread, ListFree
  <2> QED BY <1>3, <2>1, <2>2 DEF RemoveThread, ListFree, RunningExact
<1> QED BY <1>1, <1>2, <1>3

\* Each part of Switch preserves it.
LEMMA SwitchInv ==
  ASSUME IInv, NEW c \in Cpus, Seize(c) \/ Scan(c)
  PROVE  IInv'
<1> USE RRSchedulerAssumption DEF IInv, TypeOK, LoopLocked, Infinite
<1>1. CASE Seize(c)
  <2>1. threads' \in Seq(Threads) /\ IsInjective(threads') /\ Listed' = Listed
    BY <1>1, ToTheBackList DEF Seize, RunningExact, Listed
  <2>2. next' \in 0..Len(threads') BY <1>1, <2>1 DEF Seize
  <2>3. RunningExact' BY <1>1, <2>1 DEF Seize, RunningExact
  <2>4. LoopLocked' BY <1>1 DEF Seize, ListFree
  <2>5. TypeOK' BY <1>1, <2>1, <2>2 DEF Seize
  <2> QED BY <2>3, <2>4, <2>5
<1>2. CASE Pass(c)
  <2>1. /\ cpc[c] = "scan" /\ next' = next + 1 /\ next < Len(threads)
        /\ UNCHANGED <<clock, threads, deadline, running, gone, current, lock, cpc, now>>
    BY <1>2 DEF Pass
  <2>2. RunningExact' BY <2>1 DEF RunningExact, Listed
  <2>3. LoopLocked' BY <2>1 DEF LoopLocked
  <2>4. next' \in 0..Len(threads') BY <2>1
  <2> QED BY <2>1, <2>2, <2>3, <2>4
<1>3. CASE Take(c)
  <2>1. PICK th \in Listed : /\ th \in Threads /\ th \notin running
                            /\ running' = running \cup {th}
                            /\ current' = [current EXCEPT ![c] = th]
    <3>1. next + 1 \in DOMAIN threads BY <1>3 DEF Take
    <3>2. threads[next + 1] \in Threads /\ threads[next + 1] \in Listed
      BY <3>1 DEF Listed, Range
    <3> QED BY <1>3, <3>2 DEF Take, Runnable
  <2>2. current[c] = None BY <1>3 DEF Take
  <2>3. RunningExact' BY <1>3, <2>1, <2>2 DEF Take, RunningExact, Listed
  <2>4. /\ cpc[c] = "scan" /\ cpc' = [cpc EXCEPT ![c] = "run"]
        /\ lock' = None /\ next' = 0 /\ UNCHANGED <<clock, threads, deadline, gone, now>>
    BY <1>3 DEF Take
  <2>5. LoopLocked'
    <3>1. \A d \in Cpus : cpc'[d] = "scan" <=> lock' = d BY <2>4
    <3>2. \A d \in Cpus : cpc'[d] \in {"scan", "idle"} => current'[d] = None BY <2>1, <2>4
    <3> QED BY <2>4, <3>1, <3>2
  <2>6. TypeOK' BY <2>1, <2>4
  <2> QED BY <2>3, <2>5, <2>6
<1>4. CASE WaitTimeout(c) BY <1>4 DEF WaitTimeout, RunningExact, Listed
<1> QED BY <1>1, <1>2, <1>3, <1>4 DEF Scan

\* A step that changes nothing keeps the invariant.
LEMMA StutterInv == IInv /\ UNCHANGED vars => IInv'
BY DEF IInv, vars, TypeOK, RunningExact, LoopLocked, Listed

\* Every step keeps the invariant.
LEMMA StepInv == ASSUME IInv, [Next]_vars PROVE IInv'
<1>1. clock \in clock..Infinite /\ Cpus # {}
  BY RRSchedulerAssumption DEF IInv, TypeOK, Infinite
<1> QED BY <1>1, StutterInv, CallInv, ListInv, SwitchInv DEF Next

\* The invariant holds in every reachable state.
LEMMA Inductive == Spec => []IInv
BY InitInv, StepInv, PTL DEF Spec

-----------------------------------------------------------------------------

\* The scheduler's variables keep their types; in particular the place of the loop
\* is always one of the list.
THEOREM TypeCorrect == Spec => []TypeOK
<1>1. IInv => TypeOK BY DEF IInv
<1> QED BY Inductive, <1>1, PTL

\* RRScheduler::Switch takes a thread on one CPU only, and keeps every running thread
\* in its list.
THEOREM NoThreadTwice == Spec => []RunningExact
<1>1. IInv => RunningExact BY DEF IInv
<1> QED BY Inductive, <1>1, PTL

-----------------------------------------------------------------------------
(* The scheduler implements Timeouts.                                      *)

promiseVars == <<clock, deadline, running>>

\* Fewer threads run than there are CPUs as long as one CPU has none.
LEMMA FewRun ==
  ASSUME IInv, NEW c \in Cpus, current[c] = None
  PROVE  Cardinality(running) < Cardinality(Cpus)
<1> DEFINE cpuOf == [th \in running |-> CHOOSE d \in Cpus : current[d] = th]
           others == Cpus \ {c}
<1>1. \A th \in running : cpuOf[th] \in others /\ current[cpuOf[th]] = th
  BY RRSchedulerAssumption DEF IInv, TypeOK, RunningExact
<1>2. cpuOf \in Injection(running, others)
  <2> HIDE DEF others
  <2>1. cpuOf \in [running -> others] BY <1>1
  <2> HIDE DEF cpuOf
  <2> QED BY <1>1, <2>1 DEF Injection, IsInjective
<1> HIDE DEF cpuOf
<1>3. IsFiniteSet(others) /\ Cardinality(others) = Cardinality(Cpus) - 1
  BY RRSchedulerAssumption, FS_RemoveElement
<1>4. Cardinality(running) <= Cardinality(others)
  BY <1>2, <1>3, FS_Injection
<1>5. Cardinality(Cpus) \in Nat /\ Cardinality(running) \in Nat
  <2>1. IsFiniteSet(running)
    BY RRSchedulerAssumption, FS_Subset DEF IInv, TypeOK
  <2> QED BY <2>1, RRSchedulerAssumption, FS_CardinalityType
<1> QED BY <1>3, <1>4, <1>5

\* Every step is one that Timeouts.tla allows, or changes nothing it speaks of.
LEMMA StepKeepsPromise ==
  ASSUME IInv, [Next]_vars
  PROVE  [Promise!TimeoutsNext]_promiseVars
<1> USE DEF promiseVars, Promise!TimeoutsNext
<1>1. CASE Tick BY <1>1 DEF Tick, Promise!Tick
<1>2. ASSUME NEW c \in Cpus, Take(c) PROVE Promise!TimeoutsNext
  <2> DEFINE th == threads[next + 1]
  <2>1. th \in Threads
    <3>1. next + 1 \in DOMAIN threads BY <1>2 DEF Take, IInv, TypeOK
    <3> QED BY <3>1 DEF IInv, TypeOK
  <2>2. current[c] = None BY <1>2 DEF Take, IInv, LoopLocked
  <2>3. Runnable(c, th) /\ running' = running \cup {th} /\ UNCHANGED <<clock, deadline>>
    BY <1>2 DEF Take
  <2> HIDE DEF th
  <2>4. deadline[th] <= clock
    BY <2>1, <2>3, RRSchedulerAssumption DEF Runnable, Due, IInv, TypeOK, LoopLocked, Infinite
  <2>5. Cardinality(running) < Cardinality(Cpus) BY <1>2, <2>2, FewRun
  <2>6. Promise!Resume(th)
    <3>1. Promise!Cardinality(running) = Cardinality(running)
      BY DEF Promise!Cardinality, Cardinality
    <3> QED BY <2>3, <2>4, <2>5, <3>1 DEF Runnable, Promise!Resume
  <2> QED BY <2>1, <2>6
<1>3. ASSUME NEW c \in Cpus, Seize(c) PROVE [Promise!TimeoutsNext]_promiseVars
  <2>1. CASE current[c] = None
    BY <1>3, <2>1, RRSchedulerAssumption DEF Seize, IInv, TypeOK
  <2>2. CASE current[c] # None
    <3>1. current[c] \in Threads /\ current[c] \in running
      BY <1>3, <2>2 DEF IInv, TypeOK, RunningExact
    <3>2. Promise!Suspend(current[c]) BY <1>3, <3>1 DEF Seize, Promise!Suspend
    <3> QED BY <3>1, <3>2
  <2> QED BY <2>1, <2>2
<1>4. ASSUME NEW c \in Cpus, NEW d \in clock..Infinite, SetTimeout(c, d)
      PROVE  Promise!TimeoutsNext
  <2>1. PICK th \in Threads : Calls(c, th) /\ deadline' = [deadline EXCEPT ![th] = d]
    BY <1>4 DEF SetTimeout
  <2>2. th \in running
    BY <2>1, <1>4, RRSchedulerAssumption DEF Calls, IInv, TypeOK, RunningExact
  <2>3. d \in Promise!Times \cup {Promise!Infinite}
    BY <1>4, RRSchedulerAssumption DEF IInv, TypeOK, Infinite, Promise!Times, Promise!Infinite
  <2>4. Promise!SetTimeout(th, d)
    BY <1>4, <2>1, <2>2 DEF SetTimeout, Promise!SetTimeout
  <2> QED BY <2>1, <2>3, <2>4
<1>5. ASSUME NEW th \in Threads, ClearTimeout(th) \/ Add(th) PROVE Promise!TimeoutsNext
  <2>1. Promise!ClearTimeout(th) BY <1>5 DEF ClearTimeout, Add, Promise!ClearTimeout
  <2> QED BY <2>1
<1>6. ASSUME NEW c \in Cpus, Pass(c) \/ WaitTimeout(c) \/ EnterSwitch(c)
      PROVE  UNCHANGED promiseVars
  BY <1>6 DEF Pass, WaitTimeout, EnterSwitch
<1>7. ASSUME NEW c \in Cpus, NEW S \in SUBSET Threads, End(c, S)
      PROVE  UNCHANGED promiseVars
  BY <1>7 DEF End
<1>8. ASSUME NEW th \in Threads, RemoveThread(th) PROVE UNCHANGED promiseVars
  BY <1>8 DEF RemoveThread
<1>9. CASE UNCHANGED vars BY <1>9 DEF vars
<1> HIDE DEF promiseVars, Promise!TimeoutsNext
<1> QED
  BY <1>1, <1>2, <1>3, <1>4, <1>5, <1>6, <1>7, <1>8, <1>9 DEF Next, Scan

\* RRScheduler resumes no thread before its deadline, unless its timeout was cleared,
\* none on two CPUs, and no more threads than there are CPUs.
THEOREM ImplementsTimeouts == Spec => KeepsPromise
<1>1. Init => Promise!TimeoutsInit BY DEF Init, Promise!TimeoutsInit
<1>2. IInv /\ [Next]_vars => [Promise!TimeoutsNext]_promiseVars
  BY StepKeepsPromise
<1> QED BY Inductive, <1>1, <1>2, PTL
    DEF Spec, KeepsPromise, Promise!TimeoutsSpec, Promise!timeoutVars, promiseVars

-----------------------------------------------------------------------------
(* Who overtakes whom: the history that MCRRScheduler.tla keeps.           *)

\* y comes before x in the list.
Precedes(s, y, x) == \E i, j \in DOMAIN s : i < j /\ s[i] = y /\ s[j] = x

\* y is one that a CPU scanning the list can meet before x.
Ahead(y, x) == Precedes(threads, y, x) /\ y \notin running

\* The CPUs that can pass over x although it is ready: they decide by a time at which
\* it was not yet due, or have gone by its place in the list.
MayPassOver(x) ==
  {c \in Cpus : \/ cpc[c] \in {"switch", "scan"} /\ now[c] < deadline[x]
                \/ cpc[c] = "scan" /\ \E i \in 1..next : threads[i] = x}

\* How often y can still be resumed before x: once by each CPU that may pass over x,
\* and once by another, which meets y first; the last of them a CPU that is not one of
\* the former.
ToCome(x, y) ==
  Cardinality(MayPassOver(x))
    + (IF Ahead(y, x) /\ MayPassOver(x) # Cpus THEN 1 ELSE 0)

\* What was passed and what is to come are together at most the number of CPUs.
HistoryInv ==
  /\ passed \in [Threads -> [Threads -> Nat]]
  /\ \A x, y \in Threads :
       IF Ready(x) THEN passed[x][y] + ToCome(x, y) <= Cardinality(Cpus)
                   ELSE passed[x][y] = 0

-----------------------------------------------------------------------------

\* Taking a link out of a list keeps the order of the others.
LEMMA RemoveAtOrder ==
  ASSUME NEW s \in Seq(Threads), IsInjective(s), NEW k \in 1..Len(s),
         NEW x, NEW y, Precedes(RemoveAt(s, k), y, x)
  PROVE  Precedes(s, y, x)
<1> DEFINE r == RemoveAt(s, k)
           at(l) == IF l < k THEN l ELSE l + 1
<1>1. /\ r \in Seq(Threads) /\ Len(r) = Len(s) - 1
      /\ \A l \in 1..Len(r) : r[l] = s[at(l)]
  BY RemoveAtOne
<1> HIDE DEF r
<1>2. PICK i, j \in DOMAIN r : i < j /\ r[i] = y /\ r[j] = x
  BY DEF Precedes, r
<1>3. i \in 1..Len(r) /\ j \in 1..Len(r) BY <1>1, <1>2
<1>4. at(i) \in DOMAIN s /\ at(j) \in DOMAIN s /\ at(i) < at(j)
  BY <1>1, <1>2, <1>3
<1> QED BY <1>1, <1>2, <1>3, <1>4 DEF Precedes

\* What is put at the back of a list precedes none of the others.
LEMMA AppendOrder ==
  ASSUME NEW s \in Seq(Threads), NEW z \in Threads, NEW x, NEW y,
         x # z, Precedes(Append(s, z), y, x)
  PROVE  Precedes(s, y, x)
<1> DEFINE r == Append(s, z)
<1>1. r \in Seq(Threads) /\ Len(r) = Len(s) + 1 OBVIOUS
<1>2. \A l \in 1..Len(r) : r[l] = IF l = Len(s) + 1 THEN z ELSE s[l] OBVIOUS
<1> HIDE DEF r
<1>3. PICK i, j \in DOMAIN r : i < j /\ r[i] = y /\ r[j] = x
  BY DEF Precedes, r
<1>4. i \in 1..Len(r) /\ j \in 1..Len(r) BY <1>1, <1>3
<1>5. j # Len(s) + 1 BY <1>2, <1>3, <1>4
<1>6. i \in DOMAIN s /\ j \in DOMAIN s /\ s[i] = y /\ s[j] = x
  BY <1>1, <1>2, <1>3, <1>4, <1>5
<1> QED BY <1>3, <1>6 DEF Precedes

\* Unlinking a thread keeps the order of the others, and takes it out of the order.
LEMMA UnlinkedOrder ==
  ASSUME IInv, NEW z \in Listed, NEW x, NEW y, Precedes(Unlinked(z), y, x)
  PROVE  Precedes(threads, y, x) /\ y # z
<1>1. PlaceOf(z) \in 1..Len(threads) /\ threads[PlaceOf(z)] = z
  BY DEF IInv, TypeOK, Listed, Range, PlaceOf
<1>2. Precedes(threads, y, x)
  BY <1>1, RemoveAtOrder DEF IInv, TypeOK, RunningExact, Unlinked
<1>3. y \in Range(Unlinked(z)) BY DEF Precedes, Range
<1> QED BY <1>2, <1>3, UnlinkedList

\* No step lets a thread get ahead of one that stays ready.
LEMMA AheadStep ==
  ASSUME IInv, [Next]_vars, NEW x \in Threads, NEW y \in Threads,
         Ready(x), Ready(x)', Ahead(y, x)'
  PROVE  Ahead(y, x)
<1>1. ASSUME NEW c \in Cpus, Seize(c) PROVE Ahead(y, x)
  <2>1. CASE current[c] = None
    <3>1. threads' = threads /\ running' = running
      BY <1>1, <2>1, RRSchedulerAssumption DEF Seize, IInv, TypeOK
    <3> QED BY <3>1 DEF Ahead
  <2>2. CASE current[c] # None
    <3> DEFINE z == current[c]
    <3>1. z \in running /\ z \in Listed /\ z \in Threads
      BY <1>1, <2>2 DEF IInv, TypeOK, RunningExact
    <3>2. running' = running \ {z} /\ threads' = Append(Unlinked(z), z)
      BY <1>1, <2>2 DEF Seize, ToTheBack
    <3> HIDE DEF z
    <3>3. x # z BY <3>1 DEF Ready
    <3>4. Unlinked(z) \in Seq(Threads) BY <3>1, UnlinkedList
    <3>5. Precedes(Append(Unlinked(z), z), y, x) /\ y \notin running'
      BY <3>2 DEF Ahead
    <3>6. Precedes(Unlinked(z), y, x) BY <3>1, <3>3, <3>4, <3>5, AppendOrder
    <3>7. Precedes(threads, y, x) /\ y # z BY <3>1, <3>6, UnlinkedOrder
    <3> QED BY <3>2, <3>5, <3>7 DEF Ahead
  <2> QED BY <2>1, <2>2
<1>2. ASSUME NEW th \in Threads, Add(th) PROVE Ahead(y, x)
  <2>1. threads' = Append(threads, th) /\ running' = running /\ x # th
    BY <1>2 DEF Add, Ready
  <2>2. Precedes(Append(threads, th), y, x) BY <2>1 DEF Ahead
  <2>3. Precedes(threads, y, x) BY <2>1, <2>2, AppendOrder DEF IInv, TypeOK
  <2> QED BY <2>1, <2>3 DEF Ahead
<1>3. ASSUME NEW th \in Threads, RemoveThread(th) PROVE Ahead(y, x)
  <2>1. threads' = Unlinked(th) /\ running' = running /\ th \in Listed
    BY <1>3 DEF RemoveThread
  <2>2. Precedes(Unlinked(th), y, x) BY <2>1 DEF Ahead
  <2> QED BY <2>1, <2>2, UnlinkedOrder DEF Ahead
<1>4. CASE threads' = threads /\ running \subseteq running'
  BY <1>4 DEF Ahead
<1>5. \/ threads' = threads /\ running \subseteq running'
      \/ \E c \in Cpus : Seize(c)
      \/ \E th \in Threads : Add(th) \/ RemoveThread(th)
  <2>1. CASE UNCHANGED vars BY <2>1 DEF vars
  <2>2. CASE Next
    BY <2>2 DEF Next, Tick, EnterSwitch, Scan, Pass, Take, WaitTimeout, SetTimeout, End,
                ClearTimeout
  <2> QED BY <2>1, <2>2
<1> QED BY <1>1, <1>2, <1>3, <1>4, <1>5

\* A ready thread's deadline only becomes less.
LEMMA DeadlineStep ==
  ASSUME IInv, [Next]_vars, NEW x \in Threads, Ready(x)
  PROVE  deadline'[x] <= deadline[x]
<1> USE RRSchedulerAssumption DEF IInv, TypeOK, Infinite
<1>1. ASSUME NEW c \in Cpus, NEW d \in clock..Infinite, SetTimeout(c, d)
      PROVE  deadline'[x] <= deadline[x]
  <2>1. PICK th \in Threads : Calls(c, th) /\ deadline' = [deadline EXCEPT ![th] = d]
    BY <1>1 DEF SetTimeout
  <2>2. th \in running BY <2>1 DEF Calls, RunningExact
  <2>3. th # x BY <2>2 DEF Ready
  <2> QED BY <2>1, <2>3
<1>2. ASSUME NEW th \in Threads, ClearTimeout(th) \/ Add(th)
      PROVE  deadline'[x] <= deadline[x]
  <2>1. deadline' = [deadline EXCEPT ![th] = 0] BY <1>2 DEF ClearTimeout, Add
  <2> QED BY <2>1
<1>3. CASE deadline' = deadline BY <1>3
<1>4. \/ deadline' = deadline
      \/ \E c \in Cpus : \E d \in clock..Infinite : SetTimeout(c, d)
      \/ \E th \in Threads : ClearTimeout(th) \/ Add(th)
  BY DEF Next, vars, Tick, EnterSwitch, Seize, Scan, Pass, Take, WaitTimeout, End,
         RemoveThread
<1> QED BY <1>1, <1>2, <1>3, <1>4

\* No CPU that would not pass over a thread comes to do so while it stays ready: a
\* CPU that enters Switch reads a time at which the thread is due, and the loop stops
\* at it.
LEMMA MayPassOverStep ==
  ASSUME IInv, [Next]_vars, NEW x \in Threads, Ready(x), Ready(x)'
  PROVE  MayPassOver(x)' \subseteq MayPassOver(x)
<1> USE RRSchedulerAssumption DEF IInv, TypeOK, LoopLocked, Infinite
<1> SUFFICES ASSUME NEW e \in Cpus, e \in MayPassOver(x)'
             PROVE  e \in MayPassOver(x)
  BY DEF MayPassOver
<1>1. deadline'[x] <= deadline[x] /\ deadline'[x] \in Int /\ deadline[x] \in Int
  <2>1. deadline' \in [Threads -> 0..Infinite] BY StepInv
  <2> QED BY <2>1, DeadlineStep
<1>2. \/ cpc'[e] \in {"switch", "scan"} /\ now'[e] < deadline'[x]
      \/ cpc'[e] = "scan" /\ \E i \in 1..next' : threads'[i] = x
  BY DEF MayPassOver
<1>3. CASE /\ cpc'[e] = cpc[e] /\ now'[e] = now[e]
           /\ cpc[e] = "scan" => next' = next /\ threads' = threads
  BY <1>1, <1>2, <1>3 DEF MayPassOver
<1>4. ASSUME NEW c \in Cpus, EnterSwitch(c) PROVE e \in MayPassOver(x)
  <2>1. CASE e = c
    BY <1>1, <1>2, <1>4, <2>1 DEF EnterSwitch, Ready
  <2>2. CASE e # c BY <1>3, <1>4, <2>2 DEF EnterSwitch
  <2> QED BY <2>1, <2>2
<1>5. ASSUME NEW c \in Cpus, Seize(c) PROVE e \in MayPassOver(x)
  <2>1. CASE e = c BY <1>1, <1>2, <1>5, <2>1 DEF Seize, MayPassOver
  <2>2. CASE e # c BY <1>3, <1>5, <2>2 DEF Seize, ListFree
  <2> QED BY <2>1, <2>2
<1>6. ASSUME NEW c \in Cpus, Pass(c) PROVE e \in MayPassOver(x)
  <2>1. CASE e = c
    <3>1. ~Runnable(c, threads[next + 1]) /\ next + 1 \in 1..Len(threads)
      BY <1>6 DEF Pass
    <3>2. threads[next + 1] = x => now[c] < deadline[x]
      BY <3>1 DEF Runnable, Due, Ready
    <3>3. CASE now'[e] < deadline'[x]
      BY <1>1, <1>6, <2>1, <3>3 DEF Pass, MayPassOver
    <3>4. CASE \E i \in 1..next' : threads'[i] = x
      BY <1>6, <2>1, <3>2, <3>4 DEF Pass, MayPassOver
    <3> QED BY <1>2, <3>3, <3>4
  <2>2. CASE e # c BY <1>3, <1>6, <2>2 DEF Pass
  <2> QED BY <2>1, <2>2
<1>7. ASSUME NEW c \in Cpus, Take(c) \/ WaitTimeout(c) PROVE e \in MayPassOver(x)
  <2>1. CASE e = c BY <1>2, <1>7, <2>1 DEF Take, WaitTimeout
  <2>2. CASE e # c BY <1>3, <1>7, <2>2 DEF Take, WaitTimeout
  <2> QED BY <2>1, <2>2
<1>8. ASSUME NEW c \in Cpus, (\E d \in clock..Infinite : SetTimeout(c, d))
                             \/ (\E S \in SUBSET Threads : End(c, S))
      PROVE  e \in MayPassOver(x)
  <2>1. CASE e = c BY <1>2, <1>8, <2>1 DEF SetTimeout, End
  <2>2. CASE e # c BY <1>3, <1>8, <2>2 DEF SetTimeout, End
  <2> QED BY <2>1, <2>2
<1>9. ASSUME NEW th \in Threads, ClearTimeout(th) \/ Add(th) \/ RemoveThread(th)
      PROVE  e \in MayPassOver(x)
  BY <1>3, <1>9 DEF ClearTimeout, Add, RemoveThread, ListFree
<1>10. CASE Tick \/ UNCHANGED vars BY <1>3, <1>10 DEF Tick, vars
<1> QED BY <1>4, <1>5, <1>6, <1>7, <1>8, <1>9, <1>10 DEF Next, Scan

\* Who is resumed while x stays ready is resumed by a CPU that may pass over x and
\* then is none of those any more, or is ahead of x.
LEMMA ResumedStep ==
  ASSUME IInv, [Next]_vars, NEW x \in Threads, NEW y \in Threads,
         Ready(x), Ready(x)', y \in running' \ running
  PROVE  \/ MayPassOver(x)' # MayPassOver(x)
         \/ Ahead(y, x) /\ MayPassOver(x) # Cpus
<1> USE RRSchedulerAssumption DEF IInv, TypeOK, LoopLocked, Infinite
<1>1. PICK c \in Cpus : Take(c)
  BY DEF Next, vars, Tick, EnterSwitch, Seize, Scan, Pass, WaitTimeout, End, SetTimeout,
         RemoveThread, ClearTimeout, Add
<1>2. /\ cpc[c] = "scan" /\ next + 1 \in 1..Len(threads) /\ cpc'[c] = "run"
      /\ threads[next + 1] = y /\ Runnable(c, y)
  BY <1>1 DEF Take
<1>3. c \notin MayPassOver(x)' BY <1>2 DEF MayPassOver
<1>4. CASE c \in MayPassOver(x) BY <1>3, <1>4
<1>5. CASE c \notin MayPassOver(x)
  <2>1. x # y BY DEF Ready
  <2>2. PICK j \in 1..Len(threads) : threads[j] = x BY DEF Ready, Listed, Range
  <2>3. j \notin 1..next BY <1>2, <1>5, <2>2 DEF MayPassOver
  <2>4. j > next + 1 BY <1>2, <2>1, <2>2, <2>3
  <2>5. Precedes(threads, y, x)
    <3>1. /\ next + 1 \in DOMAIN threads /\ j \in DOMAIN threads /\ next + 1 < j
          /\ threads[next + 1] = y /\ threads[j] = x
      <4>1. DOMAIN threads = 1..Len(threads) OBVIOUS
      <4> QED BY ONLY <1>2, <2>2, <2>4, <4>1, j \in 1..Len(threads), next \in Nat
    <3> QED BY ONLY <3>1 DEF Precedes
  <2> QED BY <1>5, <2>5 DEF Ahead
<1> QED BY <1>4, <1>5

\* What the cardinalities of the sets of CPUs have to do with each other.
LEMMA MayPassOverCount ==
  ASSUME NEW x
  PROVE  /\ Cardinality(Cpus) \in Nat /\ Cardinality(MayPassOver(x)) \in Nat
         /\ Cardinality(MayPassOver(x)) <= Cardinality(Cpus)
         /\ Cardinality(MayPassOver(x)) = Cardinality(Cpus) => MayPassOver(x) = Cpus
<1>1. MayPassOver(x) \in SUBSET Cpus BY DEF MayPassOver
<1> HIDE DEF MayPassOver
<1> QED BY <1>1, RRSchedulerAssumption, FS_Subset, FS_CardinalityType

\* There is never more to come than there are CPUs.
LEMMA ToComeBound ==
  ASSUME NEW x, NEW y
  PROVE  ToCome(x, y) \in Nat /\ ToCome(x, y) <= Cardinality(Cpus)
BY MayPassOverCount DEF ToCome

\* And so in the next state.
LEMMA ToComeBoundNext ==
  ASSUME NEW x, NEW y
  PROVE  ToCome(x, y)' \in Nat /\ ToCome(x, y)' <= Cardinality(Cpus)
<1>1. ToCome(x, y) \in Nat /\ ToCome(x, y) <= Cardinality(Cpus) BY ToComeBound
<1>2. (ToCome(x, y) \in Nat /\ ToCome(x, y) <= Cardinality(Cpus))' BY <1>1, PTL
<1> QED BY <1>2

\* While x stays ready no more comes to come, and less once y is resumed.
LEMMA ToComeStep ==
  ASSUME IInv, [Next]_vars, NEW x \in Threads, NEW y \in Threads, Ready(x), Ready(x)'
  PROVE  /\ ToCome(x, y)' <= ToCome(x, y)
         /\ y \in running' \ running => ToCome(x, y)' < ToCome(x, y)
<1> DEFINE M == Cardinality(MayPassOver(x))
           N == Cardinality(Cpus)
<1>1. MayPassOver(x)' \subseteq MayPassOver(x) BY MayPassOverStep
<1>2. MayPassOver(x) \in SUBSET Cpus /\ MayPassOver(x)' \in SUBSET Cpus
  BY DEF MayPassOver
<1>3. M \in Nat /\ N \in Nat /\ M <= N /\ (M = N => MayPassOver(x) = Cpus)
  BY MayPassOverCount
<1>4. M' \in Nat /\ M' <= M /\ (M' = M => MayPassOver(x)' = MayPassOver(x))
  <2> DEFINE P == MayPassOver(x)
  <2>1. IsFiniteSet(P) /\ P' \in SUBSET P
    BY <1>1, <1>2, RRSchedulerAssumption, FS_Subset
  <2> HIDE DEF P
  <2>2. IsFiniteSet(P') /\ Cardinality(P') <= Cardinality(P)
        /\ (Cardinality(P) = Cardinality(P') => P = P')
    BY <2>1, FS_Subset
  <2>3. Cardinality(P') \in Nat BY <2>2, FS_CardinalityType
  <2> QED BY <2>2, <2>3 DEF P
<1>5. Ahead(y, x)' => Ahead(y, x) BY AheadStep
<1>6. y \in running' \ running => M' # M \/ (Ahead(y, x) /\ MayPassOver(x) # Cpus)
  <2>1. y \in running' \ running =>
          MayPassOver(x)' # MayPassOver(x) \/ (Ahead(y, x) /\ MayPassOver(x) # Cpus)
    BY ResumedStep
  <2> QED BY <1>4, <2>1
<1>7. y \in running' => ~Ahead(y, x)' BY DEF Ahead
<1> DEFINE extra == IF Ahead(y, x) /\ MayPassOver(x) # Cpus THEN 1 ELSE 0
<1>8. ToCome(x, y) = M + extra /\ ToCome(x, y)' = M' + extra' BY DEF ToCome
<1>9. extra \in {0, 1} /\ extra' \in {0, 1} OBVIOUS
<1>10. extra' = 1 /\ extra = 0 => M' # M BY <1>3, <1>4, <1>5
<1>11. y \in running' \ running => extra' = 0 /\ (M' # M \/ extra = 1)
  BY <1>6, <1>7
<1>12. M \in Nat /\ M' \in Nat /\ M' <= M BY <1>3, <1>4
<1>13. M' + extra' <= M + extra BY <1>9, <1>10, <1>12
<1>14. y \in running' \ running => M' + extra' < M + extra
  <2> SUFFICES ASSUME y \in running' \ running PROVE M' + extra' < M + extra OBVIOUS
  <2>1. extra' = 0 /\ (M' # M \/ extra = 1) BY <1>11
  <2> QED BY <1>9, <1>12, <2>1
<1> QED BY <1>8, <1>13, <1>14

\* The history and what is to come keep within the bound.
LEMMA HistoryStep ==
  ASSUME IInv, HistoryInv, [HistoryNext]_<<vars, passed>>
  PROVE  HistoryInv'
<1>1. CASE HistoryNext
  <2>1. passed' = [x \in Threads |-> [y \in Threads |->
                     IF Ready(x) /\ Ready(x)'
                     THEN passed[x][y] + (IF y \in running' \ running THEN 1 ELSE 0)
                     ELSE 0]]
    BY <1>1 DEF HistoryNext
  <2>2. passed \in [Threads -> [Threads -> Nat]] BY DEF HistoryInv
  <2>3. passed' \in [Threads -> [Threads -> Nat]] BY <2>1, <2>2
  <2>4. ASSUME NEW x \in Threads, NEW y \in Threads
        PROVE  IF Ready(x)' THEN passed'[x][y] + ToCome(x, y)' <= Cardinality(Cpus)
                            ELSE passed'[x][y] = 0
    <3>1. ToCome(x, y) \in Nat /\ passed[x][y] \in Nat /\ Cardinality(Cpus) \in Nat
      BY <2>2, ToComeBound, MayPassOverCount
    <3>2. ToCome(x, y)' \in Nat /\ ToCome(x, y)' <= Cardinality(Cpus)
      BY ToComeBoundNext
    <3>3. CASE Ready(x) /\ Ready(x)'
      <4>1. passed[x][y] + ToCome(x, y) <= Cardinality(Cpus) BY <3>3 DEF HistoryInv
      <4>2. passed'[x][y] = passed[x][y] + (IF y \in running' \ running THEN 1 ELSE 0)
        BY <2>1, <3>3
      <4>3. /\ ToCome(x, y)' <= ToCome(x, y)
            /\ y \in running' \ running => ToCome(x, y)' < ToCome(x, y)
        BY <1>1, <3>3, ToComeStep DEF HistoryNext
      <4> QED BY <3>1, <3>2, <3>3, <4>1, <4>2, <4>3
    <3>4. CASE ~(Ready(x) /\ Ready(x)')
      <4>1. passed'[x][y] = 0 BY <2>1, <3>4
      <4> QED BY <3>2, <4>1
    <3> QED BY <3>3, <3>4
  <2> QED BY <2>3, <2>4 DEF HistoryInv
<1>2. CASE UNCHANGED <<vars, passed>>
  BY <1>2 DEF vars, HistoryInv, Ready, ToCome, MayPassOver, Ahead, Precedes, Listed
<1> QED BY <1>1, <1>2

\* RRScheduler::Switch is round robin: however the CPUs interleave, and however long
\* one of them waits for the lock with the time it read, no thread is resumed more
\* often than there are CPUs while another one that may run is not.
THEOREM OvertakingBounded == HistorySpec => []BoundedOvertaking
<1>1. HistorySpec => Spec
  <2>1. HistoryInit => Init BY DEF HistoryInit
  <2>2. [HistoryNext]_<<vars, passed>> => [Next]_vars BY DEF HistoryNext
  <2> QED BY <2>1, <2>2, PTL DEF HistorySpec, Spec
<1>2. HistoryInit => HistoryInv
  <2> SUFFICES ASSUME HistoryInit PROVE HistoryInv OBVIOUS
  <2> QED BY ToComeBound DEF HistoryInit, HistoryInv
<1>3. HistoryInv => BoundedOvertaking
  <2> SUFFICES ASSUME HistoryInv, NEW x \in Threads, NEW y \in Threads
               PROVE  passed[x][y] <= Cardinality(Cpus)
    BY DEF BoundedOvertaking
  <2>1. ToCome(x, y) \in Nat /\ Cardinality(Cpus) \in Nat /\ passed[x][y] \in Nat
    BY ToComeBound, MayPassOverCount DEF HistoryInv
  <2> QED BY <2>1 DEF HistoryInv
<1> QED BY <1>1, <1>2, <1>3, Inductive, HistoryStep, PTL DEF HistorySpec
=============================================================================
