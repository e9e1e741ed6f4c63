------------------------------ MODULE FifoLock ------------------------------
(***************************************************************************)
(* What NoncriticalLock promises: those who want the lock form a line, the *)
(* first of the line has the lock, and only it can leave.                  *)
(***************************************************************************)
EXTENDS Sequences, SequencesExt

CONSTANT Procs

VARIABLE line

Init == line = <<>>
Arrive(p) == p \notin Range(line) /\ line' = Append(line, p)
Leave == line # <<>> /\ line' = Tail(line)
Next == Leave \/ \E p \in Procs : Arrive(p)

Spec == Init /\ [][Next]_line
=============================================================================
