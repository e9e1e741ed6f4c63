-------------------------- MODULE MCCriticalSections --------------------------
(* CriticalSections.tla on two CPUs, with fewer interleavings: a step that no  *)
(* other thread or CPU can see, or be kept from, is taken first.               *)
EXTENDS CriticalSections, TLC

\* The locks that nobody but thread a ever takes.
Own(a) == {PortList(a), Queue(PortList(a))}

Unseen(a) ==
  \/ \E at \in {"set", "scope", "leave", "assert", "either", "return", "resign"} : At(a, at)
  \/ \E at \in {"seize", "take", "release"} : At(a, at) /\ Arg(a) \in Own(a)

Hasty == {c \in Cpus : Unseen(Current(c))}

HastyNext ==
  IF Hasty = {} THEN Next
  ELSE \E c \in Hasty : Step(Current(c)) \/ ResignStep(c)

HastySpec == Init /\ [][HastyNext]_vars

Alike == Permutations(Cpus) \cup Permutations(Threads)
=============================================================================
