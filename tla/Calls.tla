-------------------------------- MODULE Calls --------------------------------
(***************************************************************************)
(* What terminals promise the owners of their ports, in the words of       *)
(* terminal.hpp: a terminal is a phone that is used for one call.  Its     *)
(* owner hears that the call was opened, then what the other side says,    *)
(* then that the other side is gone, and nothing after he threw the phone  *)
(* on the ground.                                                          *)
(***************************************************************************)
EXTENDS FiniteSets

CONSTANT Phones

VARIABLES
  heard,  \* what the owner of each phone heard last, or what became of the phone
  calls   \* the pairs of phones that have been connected

vars == <<heard, calls>>

Messages == {"opened", "data", "closed"}

Init == heard = [t \in Phones |-> "nothing"] /\ calls = {}

Others(t) == (UNION {c \in calls : t \in c}) \ {t}
Hear(t, m) == heard' = [heard EXCEPT ![t] = m] /\ UNCHANGED calls

Connect(t, u) ==
  /\ t # u /\ Others(t) = {} /\ Others(u) = {}
  /\ "gone" \notin {heard[t], heard[u]}
  /\ calls' = calls \cup {{t, u}} /\ UNCHANGED heard

HearOpened(t) == Others(t) # {} /\ heard[t] = "nothing" /\ Hear(t, "opened")

\* Both sides talk at any time; a phone that is gone does not.
HearData(t) ==
  /\ heard[t] \in {"opened", "data"}
  /\ \E u \in Others(t) : heard[u] # "gone"
  /\ Hear(t, "data")

HearClosed(t) ==
  /\ heard[t] \in {"opened", "data"}
  /\ \E u \in Others(t) : heard[u] = "gone"
  /\ Hear(t, "closed")

Sever(t) == heard[t] \notin {"severed", "gone"} /\ Hear(t, "severed")
HangUp(t) == heard[t] = "severed" /\ Hear(t, "gone")

\* What a phone's owner is owed: both are told when the call opens, whoever is left is
\* told when it closes, and a severed phone is hung up.
Owed(t) == HearOpened(t) \/ HearClosed(t) \/ HangUp(t)

Next ==
  \E t \in Phones :
    \/ Owed(t) \/ HearData(t) \/ Sever(t)
    \/ \E u \in Phones : Connect(t, u)

Spec == Init /\ [][Next]_vars /\ \A t \in Phones : WF_vars(Owed(t))
=============================================================================
