--------------------------------- MODULE Ipc ---------------------------------
(***************************************************************************)
(* Message passing: Port, Terminal, Connection, and the ThreadPort and     *)
(* PollState of a thread that receives.                                    *)
(*                                                                         *)
(* Threads create and destroy ports and send through them; an operator     *)
(* stands for the code that connects terminals; the collector deallocates  *)
(* the terminals and the threads that were thrown away.  What each of them *)
(* has still to do in the kernel is a sequence of steps (work), the head   *)
(* first.  A step is a region of code under one lock, or what a call does  *)
(* between two of them.  portLock and the connection's lock are held over  *)
(* several steps where the code calls out under them; Port::lock and       *)
(* PollState::lock are held within one step only.                          *)
(*                                                                         *)
(* A step <<"release", t>> that is still to come is a reference to t.      *)
(***************************************************************************)
EXTENDS Integers, Sequences, SequencesExt, FiniteSets

CONSTANTS
  Threads,      \* the threads that own ports
  Operator,     \* who connects terminals
  Collector,    \* the collector thread
  Ports, Terminals, Connections,   \* the objects that can ever be allocated
  Owners,       \* the ways in which threads may own ports
  Senders,      \* Senders[p]: the threads that send through p, while there is such a port
  None          \* the null pointer

Actors == Threads \cup {Operator, Collector}
Objects == Ports \cup Terminals \cup Connections

ASSUME IpcAssumption ==
  /\ Owners \subseteq [Ports -> Threads]
  /\ Senders \in [Ports -> SUBSET Threads]
  /\ Operator \notin Threads /\ Collector \notin Threads /\ Operator # Collector
  /\ Ports \cap Terminals = {} /\ Connections \cap (Ports \cup Terminals) = {}
  /\ Threads \cap Objects = {}
  /\ None \notin Actors \cup Objects

VARIABLES
  owner,          \* ThreadPort::thread
  terminal,       \* Port::terminal
  lastMessage,    \* ThreadPort::lastMessage
  isQueued,       \* the ports whose isQueued flag is set
  portList,       \* the ports that each thread's list contains
  pendingPorts,   \* PollState::pendingPorts of each thread
  port,           \* Terminal::port
  retainCount,    \* Terminal::retainCount
  connection,     \* Terminal::connection
  portLock,       \* who holds each terminal's portLock, or None
  ends,           \* what terminal1 and terminal2 of a connection point to
  lock,           \* who holds each connection's lock, or None
  garbage,        \* the terminals and threads thrown away
  work,           \* what each actor has still to do
  handed,         \* the terminals whose first reference the operator has
  freed, made,    \* the objects that have been deleted, and allocated
  exited,         \* the threads that have exited
  buried,         \* the threads that have been deleted
  reading         \* which SetTerminal there is: of port.cpp or of port.hpp

portVars == <<terminal, lastMessage, isQueued, pendingPorts>>
terminalVars == <<port, retainCount, connection, portLock>>
connectionVars == <<ends, lock>>
objectVars == <<portVars, terminalVars, connectionVars, freed, made, handed>>
threadVars == <<owner, portList, exited, buried, reading>>
vars == <<objectVars, threadVars, garbage, work>>

Init ==
  /\ owner \in Owners /\ reading \in {"port.cpp", "port.hpp"}
  /\ terminal = [p \in Ports |-> None] /\ lastMessage = [p \in Ports |-> "nothing"]
  /\ isQueued = {} /\ portList = [th \in Threads |-> {}]
  /\ pendingPorts = [th \in Threads |-> <<>>]
  /\ port = [t \in Terminals |-> None] /\ retainCount = [t \in Terminals |-> 0]
  /\ connection = [t \in Terminals |-> None] /\ portLock = [t \in Terminals |-> None]
  /\ ends = [c \in Connections |-> {}] /\ lock = [c \in Connections |-> None]
  /\ garbage = <<>> /\ work = [x \in Actors |-> <<>>] /\ handed = {}
  /\ freed = {} /\ made = {} /\ exited = {} /\ buried = {}

Messages == {"opened", "data", "closed"}
Live == made \ freed

-----------------------------------------------------------------------------
(* Steps.                                                                  *)

Idle(x) == work[x] = <<>>
Doing(x, step) == ~Idle(x) /\ Head(work[x]) = step

\* The head of the work is done, and replaced by the steps s.
Then(x, s) == work' = [work EXCEPT ![x] = s \o Tail(@)]
Start(x, s) == work' = [work EXCEPT ![x] = s]

Free(t) == portLock[t] = None
Retains(t) == port[t] # None                       \* Retain() returns true
NoCount(t) == UNCHANGED retainCount                \* mutant of CountUp
CountUp(t) == retainCount' = [retainCount EXCEPT ![t] = @ + 1]

-----------------------------------------------------------------------------
(* Terminal.                                                               *)

AnyZero(t) == retainCount[t] = 1                   \* mutant of Closes
Closes(t) == retainCount[t] = 1 /\ port[t] = None

Release(x, t) ==
  /\ Doing(x, <<"release", t>>) /\ Free(t)
  /\ retainCount' = [retainCount EXCEPT ![t] = @ - 1]
  /\ Then(x, IF Closes(t) THEN <<<<"throw", t>>>> ELSE <<>>)
  /\ UNCHANGED <<portVars, port, portLock, garbage>>

ThrowAway(x, t) ==
  /\ Doing(x, <<"throw", t>>) /\ Then(x, <<>>)
  /\ garbage' = Append(garbage, t)
  /\ UNCHANGED <<portVars, port, retainCount, portLock>>

\* Deliver seizes portLock and looks for a port; SendToThis runs under the lock.
Deliver(x, t, m) ==
  /\ Doing(x, <<"deliver", t, m>>) /\ Free(t)
  /\ IF port[t] = None
     THEN Then(x, <<>>) /\ UNCHANGED portLock
     ELSE Then(x, <<<<"hand", t, m>>>>) /\ portLock' = [portLock EXCEPT ![t] = x]
  /\ UNCHANGED <<portVars, port, retainCount, garbage>>

AddToPending(p) ==
  /\ isQueued' = isQueued \cup {p}
  /\ pendingPorts' = IF p \in isQueued THEN pendingPorts
                     ELSE [pendingPorts EXCEPT ![owner[p]] = Append(@, p)]

\* ThreadPort::SendToThis.  Nobody is woken: Poll is empty, so no thread polls.
SendToThis(x, t, m) ==
  /\ Doing(x, <<"hand", t, m>>) /\ Then(x, <<>>)
  /\ lastMessage' = [lastMessage EXCEPT ![port[t]] = m]
  /\ AddToPending(port[t])
  /\ portLock' = [portLock EXCEPT ![t] = None]
  /\ UNCHANGED <<terminal, port, retainCount, garbage>>

\* Terminal::Sever.
Cut(x, t) ==
  /\ Doing(x, <<"cut", t>>) /\ Free(t) /\ Then(x, <<>>)
  /\ port' = [port EXCEPT ![t] = None]
  /\ UNCHANGED <<portVars, retainCount, portLock, garbage>>

\* Port::SendToRemote, once it has the terminal: read its connection.
ReadConnection(x, t) ==
  /\ Doing(x, <<"read", t>>)
  /\ Then(x, IF connection[t] = None THEN <<>> ELSE <<<<"send", connection[t], t>>>>)
  /\ UNCHANGED <<portVars, port, retainCount, portLock, garbage>>

TerminalStep(x, t) ==
  /\ \/ Release(x, t) \/ ThrowAway(x, t) \/ Cut(x, t) \/ ReadConnection(x, t)
     \/ \E m \in Messages : Deliver(x, t, m) \/ SendToThis(x, t, m)
  /\ UNCHANGED <<connection, connectionVars, freed, made, handed, threadVars>>

-----------------------------------------------------------------------------
(* Connection.                                                             *)

ReleaseTwice(o, m) ==                              \* mutant of Pass
  <<<<"deliver", o, m>>, <<"release", o>>, <<"release", o>>>>
Pass(o, m) == <<<<"deliver", o, m>>, <<"release", o>>>>

\* What SendToRemote and Close have in common: retain the other end, if there is one that
\* has not been severed, and deliver to it.
Forward(x, others, m) ==
  /\ \A o \in others : Free(o)
  /\ \/ \E o \in others : Retains(o) /\ CountUp(o) /\ Then(x, Pass(o, m))
     \/ (\A o \in others : ~Retains(o)) /\ Then(x, <<>>) /\ UNCHANGED retainCount

SendToRemote(x, c, t) ==
  /\ Doing(x, <<"send", c, t>>) /\ lock[c] = None
  /\ Forward(x, ends[c] \ {t}, "data")
  /\ UNCHANGED <<connectionVars, freed>>

Unlock(x, c) ==
  /\ Doing(x, <<"unlock", c>>) /\ Then(x, <<>>)
  /\ lock' = [lock EXCEPT ![c] = None]
  /\ UNCHANGED <<ends, retainCount, freed>>

\* The last one to close deletes the connection.
Close(x, c, t) ==
  /\ Doing(x, <<"hangup", t>>) /\ connection[t] = c /\ lock[c] = None
  /\ ends' = [ends EXCEPT ![c] = @ \ {t}]
  /\ freed' = IF ends[c] \subseteq {t} THEN freed \cup {c} ELSE freed
  /\ Forward(x, ends[c] \ {t}, "closed")
  /\ UNCHANGED lock

ConnectionStep(x, c) ==
  /\ \/ Unlock(x, c)
     \/ \E t \in Terminals : SendToRemote(x, c, t) \/ Close(x, c, t)
  /\ UNCHANGED <<portVars, port, connection, portLock, made, handed, threadVars, garbage>>

OpenedLate(t, u, c) ==                             \* mutant of Opening
  <<<<"unlock", c>>, <<"deliver", t, "opened">>, <<"deliver", u, "opened">>>>
Opening(t, u, c) ==
  <<<<"deliver", t, "opened">>, <<"deliver", u, "opened">>, <<"unlock", c>>>>

\* The operator connects two terminals that are waiting, and then gives its
\* references to them up.
Connect(t, u, c) ==
  /\ Idle(Operator) /\ {t, u} \subseteq handed /\ t # u /\ c \notin made
  /\ connection' = [connection EXCEPT ![t] = c, ![u] = c]
  /\ ends' = [ends EXCEPT ![c] = {t, u}] /\ lock' = [lock EXCEPT ![c] = Operator]
  /\ made' = made \cup {c} /\ handed' = handed \ {t, u}
  /\ Start(Operator, Opening(t, u, c) \o <<<<"release", t>>, <<"release", u>>>>)
  /\ UNCHANGED <<portVars, port, retainCount, portLock, freed>>

\* It may give a terminal up without connecting it.
GiveUp(t) ==
  /\ Idle(Operator) /\ t \in handed
  /\ handed' = handed \ {t} /\ Start(Operator, <<<<"release", t>>>>)
  /\ UNCHANGED <<portVars, terminalVars, connectionVars, freed, made>>

OperatorStep ==
  /\ \E t \in Terminals :
       GiveUp(t) \/ \E u \in Terminals, c \in Connections : Connect(t, u, c)
  /\ UNCHANGED <<threadVars, garbage>>

-----------------------------------------------------------------------------
(* Port and ThreadPort.                                                    *)

\* GetTerminal retains the terminal under Port::lock.
GetTerminal(p) == terminal[p] # None /\ Free(terminal[p]) /\ CountUp(terminal[p])

StayAttached(p) == terminal                        \* mutant of Detach
Detach(p) == [terminal EXCEPT ![p] = None]

\* Port::Sever: GetTerminal(true), and what is done with the terminal.
Sever(x, p) ==
  /\ Doing(x, <<"sever", p>>)
  /\ \/ terminal[p] = None /\ Then(x, <<>>) /\ UNCHANGED <<terminal, retainCount>>
     \/ /\ GetTerminal(p) /\ terminal' = Detach(p)
        /\ Then(x, <<<<"cut", terminal[p]>>, <<"release", terminal[p]>>>>)
  /\ UNCHANGED <<lastMessage, isQueued, pendingPorts, portList, freed>>

\* The list without the link of p.
Unlinked(list, p) == RemoveAt(list, CHOOSE i \in DOMAIN list : list[i] = p)

ClearFlag(p) == isQueued' = isQueued \ {p} /\ UNCHANGED pendingPorts   \* mutant of RemovePending
RemovePending(p) ==
  /\ isQueued' = isQueued \ {p}
  /\ pendingPorts' = IF p \notin isQueued THEN pendingPorts
                     ELSE [pendingPorts EXCEPT ![owner[p]] = Unlinked(@, p)]

\* ThreadPort::Dealloc: the owner removes the port from its list and its poll state,
\* the collector, which is about to delete the thread, does not.
Dealloc(x, p) ==
  /\ Doing(x, <<"dealloc", p>>) /\ Then(x, <<>>)
  /\ freed' = freed \cup {p}
  /\ IF x = Collector THEN UNCHANGED <<portList, isQueued, pendingPorts>>
     ELSE portList' = [portList EXCEPT ![x] = @ \ {p}] /\ RemovePending(p)
  /\ UNCHANGED <<terminal, lastMessage, retainCount>>

PortStep(x, p) ==
  /\ Sever(x, p) \/ Dealloc(x, p)
  /\ UNCHANGED <<owner, port, connection, portLock, connectionVars, made, handed,
                 exited, buried, reading, garbage>>

\* port.cpp:7 refuses when there is no terminal, port.hpp:26 when there is one.
SetTerminal(p) == IF reading = "port.cpp" THEN terminal[p] # None ELSE terminal[p] = None

\* A thread makes a terminal for its port, attaches it and hands it to the operator,
\* or gives it up if SetTerminal refuses it.
Dial(th, p, t) ==
  /\ p \in portList[th] /\ t \notin made
  /\ made' = made \cup {t} /\ port' = [port EXCEPT ![t] = p] /\ CountUp(t)
  /\ IF SetTerminal(p)
     THEN /\ terminal' = [terminal EXCEPT ![p] = t] /\ handed' = handed \cup {t}
          /\ UNCHANGED work
     ELSE Start(th, <<<<"release", t>>>>) /\ UNCHANGED <<terminal, handed>>
  /\ UNCHANGED <<lastMessage, isQueued, pendingPorts, portList, connection, portLock,
                 freed, exited, garbage>>

\* CreatePortSyscall.  The thread may have used up its identifiers for other ports; then
\* the new one is deallocated again.
CreatePort(th, p) ==
  /\ owner[p] = th /\ p \notin made
  /\ made' = made \cup {p}
  /\ \/ portList' = [portList EXCEPT ![th] = @ \cup {p}] /\ UNCHANGED freed
     \/ freed' = freed \cup {p} /\ UNCHANGED portList
  /\ UNCHANGED <<portVars, terminalVars, handed, exited, garbage, work>>

\* Port::SendToRemote.
Send(th, p) ==
  /\ th \in Senders[p] /\ p \in Live /\ GetTerminal(p)
  /\ Start(th, <<<<"read", terminal[p]>>, <<"release", terminal[p]>>>>)
  /\ UNCHANGED <<portVars, port, connection, portLock, portList, freed, made, handed,
                 exited, garbage>>

DestroyPort(th, p) ==
  /\ p \in portList[th]
  /\ Start(th, <<<<"sever", p>>, <<"dealloc", p>>>>)
  /\ UNCHANGED <<portVars, terminalVars, portList, freed, made, handed, exited, garbage>>

Exit(th) ==
  /\ exited' = exited \cup {th} /\ garbage' = Append(garbage, th)
  /\ UNCHANGED <<portVars, terminalVars, portList, freed, made, handed, work>>

ThreadStep(th) ==
  /\ Idle(th) /\ th \notin exited
  /\ \/ Exit(th)
     \/ \E p \in Ports :
          \/ CreatePort(th, p) \/ Send(th, p) \/ DestroyPort(th, p)
          \/ \E t \in Terminals : Dial(th, p, t)
  /\ UNCHANGED <<owner, connectionVars, buried, reading>>

-----------------------------------------------------------------------------
(* The collector.                                                          *)

Collect ==
  /\ Idle(Collector) /\ garbage # <<>>
  /\ garbage' = Tail(garbage)
  /\ LET o == Head(garbage) IN
     Start(Collector, IF o \in Threads THEN <<<<"bury", o>>>>
                                       ELSE <<<<"hangup", o>>, <<"delete", o>>>>)
  /\ UNCHANGED <<freed, buried>>

\* Thread::Dealloc: sever and deallocate one port after the other.
Bury(th) ==
  /\ Doing(Collector, <<"bury", th>>)
  /\ \/ \E p \in portList[th] \ freed :
          /\ Start(Collector, <<<<"sever", p>>, <<"dealloc", p>>>> \o work[Collector])
          /\ UNCHANGED buried
     \/ /\ portList[th] \subseteq freed
        /\ buried' = buried \cup {th} /\ Then(Collector, <<>>)
  /\ UNCHANGED <<freed, garbage>>

\* Terminal::Dealloc: Hangup calls Close, if there is a connection; then delete.
NotConnected(t) ==
  /\ Doing(Collector, <<"hangup", t>>) /\ connection[t] = None /\ Then(Collector, <<>>)
  /\ UNCHANGED <<freed, buried, garbage>>

Delete(t) ==
  /\ Doing(Collector, <<"delete", t>>) /\ Then(Collector, <<>>)
  /\ freed' = freed \cup {t} /\ UNCHANGED <<buried, garbage>>

CollectorStep ==
  /\ \/ Collect
     \/ \E th \in Threads : Bury(th)
     \/ \E t \in Terminals : NotConnected(t) \/ Delete(t)
  /\ UNCHANGED <<portVars, terminalVars, connectionVars, made, handed, owner, portList,
                 exited, reading>>

-----------------------------------------------------------------------------

Step(x) ==
  \/ \E t \in Terminals : TerminalStep(x, t)
  \/ \E c \in Connections : ConnectionStep(x, c)
  \/ \E p \in Ports : PortStep(x, p)
  \/ x = Collector /\ CollectorStep
  \/ x = Operator /\ OperatorStep

Next == (\E x \in Actors : Step(x)) \/ \E th \in Threads : ThreadStep(th)

Spec == Init /\ [][Next]_vars

\* A call into the kernel goes on, the locks are fair, the collector runs, and the
\* operator does not keep a terminal.  No thread has to do anything.
FairSpec == Spec /\ \A x \in Actors : SF_vars(Step(x))

-----------------------------------------------------------------------------

Steps ==
  ({"release", "throw", "cut", "read", "hangup", "delete"} \X Terminals)
  \cup ({"deliver", "hand"} \X Terminals \X Messages)
  \cup ({"send"} \X Connections \X Terminals) \cup ({"unlock"} \X Connections)
  \cup ({"sever", "dealloc"} \X Ports) \cup ({"bury"} \X Threads)

TypeOK ==
  /\ owner \in [Ports -> Threads]
  /\ terminal \in [Ports -> Terminals \cup {None}]
  /\ lastMessage \in [Ports -> Messages \cup {"nothing"}]
  /\ isQueued \subseteq Ports /\ portList \in [Threads -> SUBSET Ports]
  /\ pendingPorts \in [Threads -> Seq(Ports)]
  /\ port \in [Terminals -> Ports \cup {None}] /\ retainCount \in [Terminals -> Nat]
  /\ connection \in [Terminals -> Connections \cup {None}]
  /\ portLock \in [Terminals -> Actors \cup {None}]
  /\ ends \in [Connections -> SUBSET Terminals]
  /\ lock \in [Connections -> Actors \cup {None}]
  /\ garbage \in Seq(Terminals \cup Threads) /\ work \in [Actors -> Seq(Steps)]
  /\ handed \subseteq Terminals /\ freed \subseteq made /\ made \subseteq Objects
  /\ buried \subseteq exited /\ exited \subseteq Threads
  /\ reading \in {"port.cpp", "port.hpp"}

\* Who has a reference to t: every call that will release it, and the operator.
InCalls(t) == UNION {{x} \X {i \in DOMAIN work[x] : work[x][i] = <<"release", t>>} : x \in Actors}
References(t) == InCalls(t) \cup (IF t \in handed THEN {<<Operator, 0>>} ELSE {})

\* The retain count of a terminal is the number of references to it, while threads
\* send, sever and connect it all at once; so the last one to release it is the one
\* that throws it away.
CountsExact == \A t \in Terminals : retainCount[t] = Cardinality(References(t))

\* What the next step of a call follows a pointer to.
Touched(step) ==
  CASE step[1] \in {"unlock", "dealloc"} -> {step[2]}
    [] step[1] = "bury" -> {}
    [] step[1] = "sever" -> {step[2], terminal[step[2]]} \ {None}
    [] step[1] = "hand" -> {step[2], port[step[2]]}
    [] step[1] = "send" -> {step[2], step[3]} \cup ends[step[2]]
    [] step[1] = "hangup" /\ connection[step[2]] # None ->
         {step[2], connection[step[2]]} \cup ends[connection[step[2]]]
    [] OTHER -> {step[2]}

\* Nobody touches a port, a terminal, a connection or a thread that has been deleted: a
\* port and its thread are not deleted under a delivery, nor a terminal under one that
\* sends to it, nor a connection before both its terminals are done with it.
NoDangling ==
  /\ \A x \in Actors : ~Idle(x) => Touched(Head(work[x])) \subseteq Live
  /\ \A x \in Actors, t \in Terminals, m \in Messages :
       Doing(x, <<"hand", t, m>>) => owner[port[t]] \notin buried
  /\ \A p \in Live \cap Ports : terminal[p] \in Live \cup {None}

\* The ports in a poll state's list are its thread's ports that are flagged as queued,
\* once each, and none of them has been deleted.  (Not once the thread has exited:
\* Thread::Dealloc deletes ports that are still in the list.)
PendingExact ==
  \A th \in Threads \ exited :
    /\ Range(pendingPorts[th]) = {p \in isQueued : owner[p] = th}
    /\ Range(pendingPorts[th]) \subseteq Live /\ IsInjective(pendingPorts[th])

\* The assertions hold where they stand: a port's terminal has not been severed
\* (port.cpp:33), who severs a terminal has retained it (terminal.cpp:54), and who
\* sends or closes is one of the two ends (connection.cpp:26 and 46).
AssertionsHold ==
  /\ \A p \in Live \cap Ports : terminal[p] # None => port[terminal[p]] # None
  /\ \A x \in Actors, t \in Terminals :
       /\ Doing(x, <<"cut", t>>) => retainCount[t] > 0
       /\ Doing(x, <<"hangup", t>>) /\ connection[t] # None => t \in ends[connection[t]]
       /\ \A c \in Connections : Doing(x, <<"send", c, t>>) => t \in ends[c]

\* The terminals are phones in the sense of Calls.tla: the owner of a port hears the
\* call open first, and that it closed last, when the other side is really gone; he
\* hears nothing once he has severed; both are told that the call opened, whoever is left
\* is told that it closed, and a severed terminal is hung up.
HungUp(t) == t \in freed \/ (connection[t] # None /\ t \notin ends[connection[t]])
Heard(t) ==
  CASE HungUp(t) -> "gone"
    [] ~HungUp(t) /\ t \in made /\ port[t] = None -> "severed"
    [] ~HungUp(t) /\ port[t] # None /\ connection[t] # None -> lastMessage[port[t]]
    [] OTHER -> "nothing"
Pairs == {{u \in Terminals : connection[u] = c} : c \in Connections \cap made}
Promise == INSTANCE Calls
  WITH Phones <- Terminals, heard <- [t \in Terminals |-> Heard(t)], calls <- Pairs
KeepsPromise == Promise!Spec
=============================================================================
