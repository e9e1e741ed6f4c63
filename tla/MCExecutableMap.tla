--------------------------- MODULE MCExecutableMap ---------------------------
(* ExecutableMap.tla on a small instance: a program of two sectors, the first *)
(* of which has two pages.                                                    *)
EXTENDS ExecutableMap

CONSTANTS first, second, one, two, three
TwoSectors == [p \in Pages |-> IF p = three THEN second ELSE first]
=============================================================================
