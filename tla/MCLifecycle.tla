---------------------------- MODULE MCLifecycle ----------------------------
(* Lifecycle.tla on small instances.                                       *)
EXTENDS Lifecycle, TLC

CONSTANTS t1, a, b, d  \* a task, the thread it boots with, two others

MCBoot == [t \in Tasks |-> a]

\* The CPUs are alike, and so are the threads that have yet to be launched.
Alike == Permutations(Cpus) \cup Permutations(Threads \ {a})
=============================================================================
