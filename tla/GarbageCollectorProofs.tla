------------------------ MODULE GarbageCollectorProofs ------------------------
(***************************************************************************)
(* Theorems about GarbageCollector.tla, for every number of objects and of *)
(* those who throw them away.                                              *)
(***************************************************************************)
EXTENDS GarbageCollector, SequenceTheorems, TLAPS

\* Only who is inside Main's critical section, or throws garbage away in Dealloc,
\* has the collector's name on the lock; while it prepares to sleep its list is empty.
LockedInMain ==
  /\ objectsLock = Collector => pc \in {"shift", "set", "unlock", "dealloc"}
  /\ pc \in {"set", "unlock"} => objects = <<>>

\* The infinite timeout is set only from SetInfiniteTimeout until the sleep is over.
AwakeInLoop ==
  Collector \in running /\ pc \notin {"unlock", "yield"} => deadline[Collector] # Infinite

\* What Add has listed is what Dealloc has had, what Main has in hand, and what is
\* still in the list, in this order.
InHand == IF pc = "dealloc" THEN <<obj>> ELSE <<>>
ListsAgree ==
  /\ pc = "dealloc" => obj \in Objects
  /\ thrown = (freed \o InHand) \o objects

IInv == TypeOK /\ LockedInMain /\ AwakeInLoop /\ NeverSleepsPastGarbage

-----------------------------------------------------------------------------

\* The invariant holds before the scheduler runs.
LEMMA InitInv == Init => IInv /\ ListsAgree
<1> SUFFICES ASSUME Init PROVE IInv /\ ListsAgree OBVIOUS
<1> USE TimeoutsAssumption, GarbageCollectorAssumption DEF Init, TimeoutsInit
<1>1. TypeOK BY DEF TypeOK, TimeoutsType, Times, Infinite
<1>2. LockedInMain /\ AwakeInLoop /\ NeverSleepsPastGarbage
  BY DEF LockedInMain, AwakeInLoop, NeverSleepsPastGarbage, Infinite
<1>3. ListsAgree BY DEF ListsAgree, InHand
<1> QED BY <1>1, <1>2, <1>3 DEF IInv

\* Each step of Main preserves it.
LEMMA MainInv ==
  ASSUME IInv, Seize \/ Main
  PROVE  IInv'
<1> USE TimeoutsAssumption, GarbageCollectorAssumption
    DEF IInv, At, timeoutVars, TypeOK, TimeoutsType, Times, Infinite, LockedInMain,
        AwakeInLoop, NeverSleepsPastGarbage, LockFree
<1>1. CASE Seize BY <1>1 DEF Seize
<1>2. CASE FoundObject
  <2>1. Head(objects) \in Objects /\ Tail(objects) \in Seq(Objects) BY <1>2 DEF FoundObject
  <2> QED BY <1>2, <2>1 DEF FoundObject, Shift
<1>3. CASE FoundNone BY <1>3 DEF FoundNone
<1>4. CASE SetDeadline BY <1>4 DEF SetDeadline, SetTimeout
<1>5. CASE Unlock BY <1>5 DEF Unlock
<1>6. CASE Yield BY <1>6 DEF Yield, Suspend
<1> QED BY <1>1, <1>2, <1>3, <1>4, <1>5, <1>6 DEF Main

\* So do Dealloc, whoever throws garbage away, and the scheduler.
LEMMA OthersInv ==
  ASSUME ListsAgree, IInv, Dealloc \/ Schedule \/ Preempt \/ ClearGarbageTimeout
  PROVE  IInv'
<1> USE TimeoutsAssumption, GarbageCollectorAssumption
    DEF IInv, At, timeoutVars, gcVars, TypeOK, TimeoutsType, Times, Infinite, LockedInMain,
        AwakeInLoop, NeverSleepsPastGarbage, LockFree
<1>1. CASE Dealloc
  <2>1. obj \in Objects BY <1>1 DEF Dealloc, ListsAgree
  <2> QED BY <1>1, <2>1 DEF Dealloc
<1>2. CASE Schedule BY <1>2 DEF Schedule, Resume
<1>3. CASE Preempt BY <1>3 DEF Preempt, Suspend
<1>4. CASE ClearGarbageTimeout BY <1>4 DEF ClearGarbageTimeout, ClearTimeout
<1> QED BY <1>1, <1>2, <1>3, <1>4

\* Add keeps the invariant, by the lock it holds until it clears the timeout.
LEMMA AddObjectInv ==
  ASSUME IInv, NEW a \in Adders \cup {Collector}, NEW o \in Objects, AddObject(a, o)
  PROVE  IInv'
BY TimeoutsAssumption, GarbageCollectorAssumption
   DEF AddObject, IInv, At, timeoutVars, TypeOK, TimeoutsType, Times, Infinite, LockedInMain,
       AwakeInLoop, NeverSleepsPastGarbage, LockFree

\* Appending to the second of two sequences appends to both.
LEMMA AppendAfterConcat ==
  ASSUME NEW s \in Seq(Objects), NEW t \in Seq(Objects), NEW o \in Objects
  PROVE  Append(s \o t, o) = s \o Append(t, o)
OBVIOUS

\* Only three steps touch the lists, and each moves one object by one place.
LEMMA ListsStep ==
  ASSUME IInv, ListsAgree, [Next]_vars
  PROVE  ListsAgree'
<1> USE DEF IInv, TypeOK, ListsAgree
<1>1. CASE FoundObject
  <2>1. Head(objects) \in Objects /\ <<Head(objects)>> \o Tail(objects) = objects
    BY <1>1 DEF FoundObject
  <2>2. thrown' = (freed \o <<>>) \o (<<Head(objects)>> \o Tail(objects))
    BY <1>1, <2>1 DEF FoundObject, At, InHand
  <2>3. thrown' = (freed \o <<Head(objects)>>) \o Tail(objects)
    <3>1. <<Head(objects)>> \in Seq(Objects) /\ Tail(objects) \in Seq(Objects)
      BY <1>1, <2>1 DEF FoundObject
    <3>2. freed \o <<>> = freed OBVIOUS
    <3>3. (freed \o <<Head(objects)>>) \o Tail(objects)
            = freed \o (<<Head(objects)>> \o Tail(objects))
      BY <3>1, ConcatAssociative
    <3> QED BY <2>2, <3>2, <3>3
  <2> QED BY <1>1, <2>1, <2>3 DEF FoundObject, Shift, InHand
<1>2. CASE Dealloc
  <2>1. freed' = freed \o <<obj>> BY <1>2 DEF Dealloc, At, InHand
  <2>2. freed' \o <<>> = freed \o <<obj>> BY <1>2, <2>1 DEF Dealloc, At, InHand
  <2> QED BY <1>2, <2>2 DEF Dealloc, At, InHand
<1>3. ASSUME NEW a \in Adders \cup {Collector}, NEW o \in Objects, AddObject(a, o)
      PROVE  ListsAgree'
  <2>1. freed \o InHand \in Seq(Objects) BY DEF InHand
  <2>2. thrown' = (freed \o InHand) \o Append(objects, o)
    <3>1. objects \in Seq(Objects) /\ thrown' = Append((freed \o InHand) \o objects, o)
      BY <1>3 DEF AddObject
    <3> QED BY <2>1, <3>1, AppendAfterConcat
  <2> QED BY <1>3, <2>2 DEF AddObject, timeoutVars, InHand
<1>4. CASE Seize \/ FoundNone \/ SetDeadline \/ Unlock \/ Yield
  BY <1>4 DEF Seize, FoundNone, SetDeadline, Unlock, Yield, At, timeoutVars, InHand
<1>5. CASE Schedule \/ Preempt \/ ClearGarbageTimeout \/ UNCHANGED vars
  BY <1>5 DEF Schedule, Preempt, ClearGarbageTimeout, vars, gcVars, InHand
<1> QED BY <1>1, <1>2, <1>3, <1>4, <1>5 DEF Next, Main

\* Both hold in every reachable state.
LEMMA Inductive == Spec => [](IInv /\ ListsAgree)
<1>1. IInv /\ UNCHANGED vars => IInv'
  BY DEF IInv, vars, timeoutVars, gcVars, At, TypeOK, TimeoutsType, Times, Infinite,
     LockedInMain, AwakeInLoop, NeverSleepsPastGarbage, LockFree
<1>2. IInv /\ ListsAgree /\ [Next]_vars => (IInv /\ ListsAgree)'
  BY <1>1, MainInv, OthersInv, AddObjectInv, ListsStep DEF Next
<1> QED BY InitInv, <1>2, PTL DEF Spec

-----------------------------------------------------------------------------

\* GarbageCollector's variables keep their types, and Main holds the lock from Seize
\* until it unlocks.
THEOREM TypeCorrect == Spec => []TypeOK
<1>1. IInv => TypeOK BY DEF IInv
<1> QED BY Inductive, <1>1, PTL

\* GarbageCollector::Main never sleeps with something in its list: Add cannot fall
\* between the look at the list and the setting of the timeout, and clears the latter.
THEOREM NoMissedGarbage == Spec => []NeverSleepsPastGarbage
<1>1. IInv => NeverSleepsPastGarbage BY DEF IInv
<1> QED BY Inductive, <1>1, PTL

\* Dealloc is called for the objects in the order of Add, once for each Add.
THEOREM OrderKept == Spec => []DeallocInOrder
<1>1. IInv /\ ListsAgree => DeallocInOrder
  <2> SUFFICES ASSUME IInv, ListsAgree PROVE DeallocInOrder OBVIOUS
  <2>1. freed \in Seq(Objects) /\ InHand \in Seq(Objects) /\ objects \in Seq(Objects)
    BY DEF IInv, TypeOK, ListsAgree, InHand
  <2>2. thrown = (freed \o InHand) \o objects BY DEF ListsAgree
  <2>3. Len(freed) <= Len(thrown) /\ \A i \in 1..Len(freed) : freed[i] = thrown[i]
    BY <2>1, <2>2
  <2>4. SubSeq(freed, 1, Len(freed)) = SubSeq(thrown, 1, Len(freed))
    BY <2>1, <2>2, <2>3
  <2> QED BY <2>3, <2>4 DEF DeallocInOrder, IsPrefix
<1> QED BY Inductive, <1>1, PTL

=============================================================================
