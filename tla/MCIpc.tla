-------------------------------- MODULE MCIpc --------------------------------
(* Ipc.tla on a small instance: each thread has a port, or one thread has both. *)
EXTENDS Ipc, TLC

CONSTANTS a, b, p1, p2

\* Both threads send through the first port, so that one may while the other severs it.
TwoSenders == p1 :> {a, b} @@ p2 :> {b}
SmallOwners == {p1 :> a @@ p2 :> b, p1 :> a @@ p2 :> a}
=============================================================================
