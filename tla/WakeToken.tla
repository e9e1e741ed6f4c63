------------------------------ MODULE WakeToken ------------------------------
(***************************************************************************)
(* What sleeping and waking promise to user threads.  A wakeup leaves a    *)
(* token: the next sleep returns at once and takes the token, and a sleep  *)
(* that is under way ends.  Tokens do not add up.  A sleep ends for no     *)
(* other reason than a token or its alarm.                                 *)
(***************************************************************************)
EXTENDS Integers

CONSTANTS Threads, Infinite

VARIABLES clock, asleep, alarm, token

vars == <<clock, asleep, alarm, token>>

Init ==
  /\ clock = 1 /\ asleep = {} /\ token = {}
  /\ alarm = [th \in Threads |-> 0]

Tick == clock' = clock + 1 /\ UNCHANGED <<asleep, alarm, token>>

Wake(th) == token' = token \cup {th} /\ UNCHANGED <<clock, asleep, alarm>>

FallAsleep(th, d) ==
  /\ th \notin asleep \cup token
  /\ asleep' = asleep \cup {th} /\ alarm' = [alarm EXCEPT ![th] = d]
  /\ UNCHANGED <<clock, token>>

StayAwake(th) ==
  /\ th \notin asleep /\ token' = token \ {th}
  /\ UNCHANGED <<clock, asleep, alarm>>

Return(th) ==
  /\ th \in asleep /\ (th \in token \/ alarm[th] <= clock)
  /\ asleep' = asleep \ {th} /\ token' = token \ {th}
  /\ alarm' = [alarm EXCEPT ![th] = 0]
  /\ UNCHANGED clock

Next ==
  \/ Tick
  \/ \E th \in Threads : \/ Wake(th) \/ StayAwake(th) \/ Return(th)
                         \/ \E d \in clock..Infinite : FallAsleep(th, d)

\* A sleep that may end does end.
Spec == Init /\ [][Next]_vars /\ \A th \in Threads : WF_vars(Return(th))
=============================================================================
