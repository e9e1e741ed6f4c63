--------------------------- MODULE MCRRScheduler ---------------------------
(* RRScheduler.tla on small instances, with a history of who overtook whom. *)
EXTENDS RRScheduler, TLC

\* passed[x][y]: how often y was resumed while x has been ready all the time.
VARIABLE passed

Ready(x) == x \in Listed \ (gone \cup running) /\ deadline[x] <= clock

HistoryInit == Init /\ passed = [x \in Threads |-> [y \in Threads |-> 0]]

HistoryNext ==
  /\ Next
  /\ passed' = [x \in Threads |-> [y \in Threads |->
                  IF Ready(x) /\ Ready(x)'
                  THEN passed[x][y] + (IF y \in running' \ running THEN 1 ELSE 0)
                  ELSE 0]]

HistorySpec == HistoryInit /\ [][HistoryNext]_<<vars, passed>>

\* Round robin: while a thread is ready no other thread is resumed more often than
\* there are CPUs, although a CPU may decide by a time it read long before it got
\* the lock, and by then pass over a thread that has become ready meanwhile.
BoundedOvertaking == \A x, y \in Threads : passed[x][y] <= Cardinality(Cpus)

Alike == Permutations(Cpus) \cup Permutations(Threads)
=============================================================================
