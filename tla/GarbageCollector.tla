-------------------------- MODULE GarbageCollector --------------------------
(***************************************************************************)
(* GarbageCollector: the collector thread waits for objects without losing *)
(* a wakeup, and deallocates each object once, in the order in which they  *)
(* were thrown away.  It runs on the scheduler that Timeouts.tla           *)
(* describes; what Dealloc does is in Lifecycle.tla.                       *)
(***************************************************************************)
EXTENDS Timeouts, Sequences, SequencesExt

CONSTANTS
  Collector,  \* the collector thread
  Adders,     \* other threads and CPUs that throw objects away
  Objects,    \* the garbage
  None

ASSUME GarbageCollectorAssumption ==
  /\ Threads = {Collector} /\ Collector \notin Adders
  /\ None \notin Objects \cup Adders \cup Threads

VARIABLES
  objectsLock,   \* who holds it, or None
  objects,       \* the list
  pc,            \* where the collector is in Main
  obj,           \* the object Main has shifted off the list
  thrown, freed  \* history: the objects in the order of Add and of Dealloc

gcVars == <<objectsLock, objects, pc, obj, thrown, freed>>
vars == <<timeoutVars, gcVars>>

Init ==
  /\ TimeoutsInit
  /\ objectsLock = None /\ objects = <<>> /\ pc = "loop" /\ obj = None
  /\ thrown = <<>> /\ freed = <<>>

At(l) == Collector \in running /\ pc = l

AnyTime == TRUE                                    \* mutant of LockFree
LockFree == objectsLock = None

-----------------------------------------------------------------------------
(* Main.  It is critical from Seize until it unlocks or is resumed.        *)

Seize ==
  /\ At("loop") /\ LockFree
  /\ objectsLock' = Collector /\ pc' = "shift"
  /\ UNCHANGED <<timeoutVars, objects, obj, thrown, freed>>

Pop(s) == Front(s)                                 \* mutant of Shift
Shift(s) == Tail(s)

FoundObject ==
  /\ At("shift") /\ objects # <<>>
  /\ obj' = Head(objects) /\ objects' = Shift(objects)
  /\ objectsLock' = None /\ pc' = "dealloc"
  /\ UNCHANGED <<timeoutVars, thrown, freed>>

FoundNone ==
  /\ At("shift") /\ objects = <<>>
  /\ pc' = "set"
  /\ UNCHANGED <<timeoutVars, objectsLock, objects, obj, thrown, freed>>

\* SetInfiniteTimeout(objectsLock), then Yield.
SetDeadline ==
  /\ At("set")
  /\ SetTimeout(Collector, Infinite)
  /\ pc' = "unlock"
  /\ UNCHANGED <<objectsLock, objects, obj, thrown, freed>>

Unlock ==
  /\ At("unlock")
  /\ objectsLock' = None /\ pc' = "yield"
  /\ UNCHANGED <<timeoutVars, objects, obj, thrown, freed>>

Yield ==
  /\ At("yield")
  /\ Suspend(Collector)
  /\ pc' = "loop"
  /\ UNCHANGED <<objectsLock, objects, obj, thrown, freed>>

Dealloc ==
  /\ At("dealloc") /\ objectsLock # Collector
  /\ freed' = Append(freed, obj) /\ obj' = None /\ pc' = "loop"
  /\ UNCHANGED <<timeoutVars, objectsLock, objects, thrown>>

-----------------------------------------------------------------------------
(* Add, called through ThrowAway by whoever gives the last reference up,   *)
(* the collector inside Dealloc included.                                  *)

AddObject(a, o) ==
  /\ a = Collector => At("dealloc")
  /\ o \notin Range(thrown) /\ LockFree
  /\ objectsLock' = a
  /\ objects' = Append(objects, o) /\ thrown' = Append(thrown, o)
  /\ UNCHANGED <<timeoutVars, pc, obj, freed>>

ClearGarbageTimeout ==
  /\ objectsLock \in Adders \/ (objectsLock = Collector /\ At("dealloc"))
  /\ ClearTimeout(Collector)
  /\ objectsLock' = None
  /\ UNCHANGED <<objects, pc, obj, thrown, freed>>

-----------------------------------------------------------------------------

Schedule == Resume(Collector) /\ UNCHANGED gcVars
Preempt ==
  /\ At("loop") \/ (At("dealloc") /\ objectsLock # Collector)
  /\ Suspend(Collector) /\ UNCHANGED gcVars

Main == FoundObject \/ FoundNone \/ SetDeadline \/ Unlock \/ Yield

Next ==
  \/ Seize \/ Main \/ Dealloc \/ Schedule \/ Preempt
  \/ ClearGarbageTimeout
  \/ \E a \in Adders \cup {Collector}, o \in Objects : AddObject(a, o)

Spec == Init /\ [][Next]_vars

\* Kernel code goes on; the scheduler resumes the collector again and again, and
\* the lock is fair.  Nobody has to throw anything away.
Fairness ==
  /\ WF_vars(Main) /\ WF_vars(ClearGarbageTimeout)
  /\ SF_vars(Seize) /\ SF_vars(Dealloc) /\ SF_vars(Schedule)

FairSpec == Spec /\ Fairness

-----------------------------------------------------------------------------

TypeOK ==
  /\ TimeoutsType
  /\ objectsLock \in Adders \cup {Collector, None}
  /\ objects \in Seq(Objects) /\ thrown \in Seq(Objects) /\ freed \in Seq(Objects)
  /\ pc \in {"loop", "shift", "set", "unlock", "yield", "dealloc"}
  /\ obj \in Objects \cup {None}
  /\ pc \in {"shift", "set", "unlock"} => objectsLock = Collector

\* The collector never sleeps past an object: once the lock that Add takes is
\* free again, a non-empty list means that the infinite timeout has been cleared.
NeverSleepsPastGarbage ==
  objects # <<>> /\ LockFree => deadline[Collector] # Infinite

\* Objects are deallocated in the order they were thrown away, each of them once.
DeallocInOrder == IsPrefix(freed, thrown)

\* Every object thrown away is deallocated.
AllDeallocated == \A o \in Objects : o \in Range(thrown) ~> o \in Range(freed)
=============================================================================
