------------------------------ MODULE IpcProofs ------------------------------
(***************************************************************************)
(* Theorems about Ipc.tla, for every number of threads, ports, terminals   *)
(* and connections: the retain counts are exact, nothing that was deleted  *)
(* is touched, the assertions of the code hold, the poll states list the   *)
(* ports that have news, and no owner of a port hears what Calls.tla rules *)
(* out.                                                                    *)
(***************************************************************************)
EXTENDS Ipc, FunctionTheorems, FiniteSetTheorems, TLAPS

-----------------------------------------------------------------------------
(* The inductive invariant.                                                *)

\* The step s is among what x has still to do; and it is not the next one.
Has(x, s) == \E i \in DOMAIN work[x] : work[x][i] = s
Later(x, s) == \E i \in DOMAIN work[x] : i > 1 /\ work[x][i] = s

\* The form of a call: the steps that are not next are of a few kinds, only releases and
\* deliveries occur twice, and whatever uses a terminal releases it afterwards.
LaterKinds == {"release", "deliver", "unlock", "dealloc", "delete", "bury"}
Uses == {"deliver", "hand", "cut", "read"}
FormAt(x, i) ==
  LET s == work[x][i]
      Follows(r) == \E j \in DOMAIN work[x] : j > i /\ work[x][j] = r
  IN /\ i > 1 => s[1] \in LaterKinds
     /\ s[1] \in {"delete", "bury"} => i = Len(work[x])
     /\ \A j \in DOMAIN work[x] : j > i /\ work[x][j][1] = s[1] => s[1] \in {"release", "deliver"}
     /\ s[1] \in Uses => Follows(<<"release", s[2]>>)
     /\ s[1] = "send" => Follows(<<"release", s[3]>>)
     /\ s[1] = "sever" => Follows(<<"dealloc", s[2]>>)
     /\ s[1] = "hangup" => Follows(<<"delete", s[2]>>)
     /\ s[1] = "unlock" => x = Operator
     /\ s[1] \in {"delete", "hangup", "bury"} => x = Collector
Form == \A x \in Actors : \A i \in DOMAIN work[x] : FormAt(x, i)

\* References are counted.
Counted == \A t \in Terminals :
  IsFiniteSet(References(t)) /\ retainCount[t] = Cardinality(References(t))

\* A terminal is thrown away once, when it has neither a port nor a reference.
Thrown(t) ==
  \/ t \in freed \cup Range(garbage) \/ Has(Collector, <<"delete", t>>)
  \/ \E x \in Actors : Has(x, <<"throw", t>>)
ThrownDead ==
  \A t \in Terminals : Thrown(t) => t \in made /\ port[t] = None /\ retainCount[t] = 0
ThrownOnce ==
  \A t \in Terminals :
    /\ t \in freed => t \notin Range(garbage) /\ ~Has(Collector, <<"delete", t>>)
    /\ t \in Range(garbage) => ~Has(Collector, <<"delete", t>>)
    /\ \A x \in Actors : Has(x, <<"throw", t>>) =>
         /\ t \notin freed \cup Range(garbage) /\ ~Has(Collector, <<"delete", t>>)
         /\ \A y \in Actors : Has(y, <<"throw", t>>) => y = x
    /\ \A i, j \in DOMAIN garbage : garbage[i] = t /\ garbage[j] = t => i = j
Fresh ==
  \A t \in Terminals : t \notin made =>
    port[t] = None /\ retainCount[t] = 0 /\ connection[t] = None

\* A terminal is an end of its connection until it hangs up; who still uses the
\* connection keeps it.
Connected ==
  /\ \A c \in Connections : \A u \in ends[c] :
       /\ connection[u] = c /\ u \in Live
       /\ Has(Collector, <<"delete", u>>) => Has(Collector, <<"hangup", u>>)
  /\ \A u \in Terminals : connection[u] # None =>
       /\ connection[u] \in made /\ u \in made
       /\ \/ u \in ends[connection[u]] \/ u \in freed
          \/ Has(Collector, <<"delete", u>>) /\ ~Has(Collector, <<"hangup", u>>)
  /\ \A c \in Connections : c \in freed => ends[c] = {}
  /\ \A x \in Actors, c \in Connections : Has(x, <<"unlock", c>>) => lock[c] = Operator /\ c \in Live
  /\ \A x \in Actors, c \in Connections, t \in Terminals :
       Has(x, <<"send", c, t>>) => connection[t] = c

\* A port is deallocated by its thread, or for it when it has exited.
Owned ==
  /\ \A x \in Actors, p \in Ports : Has(x, <<"dealloc", p>>) =>
       /\ p \in Live /\ p \in portList[owner[p]]
       /\ x = owner[p] \/ (x = Collector /\ owner[p] \in exited)
  /\ \A th \in exited : Idle(th)
  /\ \A th \in Threads : th \in Range(garbage) \/ Has(Collector, <<"bury", th>>) => th \in exited
  /\ \A th \in Threads : \A p \in portList[th] :
       owner[p] = th /\ p \in made /\ (th \notin exited => p \notin freed)
  /\ \A p \in Ports \cap made : p \in freed \/ p \in portList[owner[p]]
  /\ \A th \in buried : \A p \in Ports \cap made : owner[p] = th => p \in freed

\* A terminal stays with its port until it is severed, which is before the port goes.
Attached ==
  /\ \A p \in Ports : terminal[p] # None =>
       port[terminal[p]] = p /\ p \in Live /\ terminal[p] \in made
  /\ \A x \in Actors, p \in Ports : Has(x, <<"dealloc", p>>) =>
       terminal[p] = None \/ Has(x, <<"sever", p>>)
  /\ reading = "port.cpp" => \A p \in Ports : terminal[p] = None
  /\ \A x \in Actors, t \in Terminals, p \in Ports :
       Has(x, <<"cut", t>>) /\ port[t] = p => Has(x, <<"dealloc", p>>)
  /\ \A t \in handed : connection[t] = None
  /\ \A t \in Terminals : t \in handed \/ connection[t] # None =>
       \/ port[t] = None \/ terminal[port[t]] = t
       \/ \E x \in Actors : Has(x, <<"cut", t>>)

\* Messages are delivered to connected terminals, and handed over under portLock.
Delivered ==
  \A x \in Actors, t \in Terminals, m \in Messages :
    /\ Has(x, <<"deliver", t, m>>) \/ Has(x, <<"hand", t, m>>) => connection[t] # None
    /\ Has(x, <<"hand", t, m>>) => portLock[t] = x /\ port[t] # None

-----------------------------------------------------------------------------

(* What a step does to the work of an actor: its first step, if it has any, is replaced. *)

Rest(x) == IF Idle(x) THEN <<>> ELSE Tail(work[x])
Becomes(x, s) == work' = [work EXCEPT ![x] = s \o Rest(x)]

\* The positions of the new work.
Replaced(x, s) ==
  /\ work' \in [Actors -> Seq(Steps)]
  /\ \A y \in Actors \ {x} : work'[y] = work[y]
  /\ \A i \in DOMAIN s : i \in DOMAIN work'[x] /\ work'[x][i] = s[i]
  /\ \A i \in DOMAIN work[x] : i > 1 =>
       i - 1 + Len(s) \in DOMAIN work'[x] /\ work'[x][i - 1 + Len(s)] = work[x][i]
  /\ \A j \in DOMAIN work'[x] : j > Len(s) =>
       /\ j - Len(s) + 1 \in DOMAIN work[x] /\ j - Len(s) + 1 > 1
       /\ work'[x][j] = work[x][j - Len(s) + 1]
  /\ \A j \in DOMAIN work'[x] : j <= Len(s) => j \in DOMAIN s
  /\ ~Idle(x) => Len(work'[x]) = Len(s) + Len(work[x]) - 1
  /\ Idle(x) => Len(work'[x]) = Len(s)

LEMMA BecomesAt ==
  ASSUME TypeOK, NEW x \in Actors, NEW s \in Seq(Steps), Becomes(x, s)
  PROVE  Replaced(x, s)
<1> DEFINE r == Rest(x)
<1>1. work[x] \in Seq(Steps) BY DEF TypeOK
<1>2. /\ r \in Seq(Steps)
      /\ Idle(x) => Len(r) = 0 /\ Len(work[x]) = 0
      /\ ~Idle(x) => Len(r) = Len(work[x]) - 1 /\ \A i \in 1..Len(r) : r[i] = work[x][i + 1]
  BY <1>1 DEF Rest, Idle
<1>3. work' = [work EXCEPT ![x] = s \o r] BY DEF Becomes
<1> HIDE DEF r
<1>4. /\ s \o r \in Seq(Steps) /\ Len(s \o r) = Len(s) + Len(r)
      /\ \A i \in 1..Len(s) : (s \o r)[i] = s[i]
      /\ \A i \in 1..Len(r) : (s \o r)[Len(s) + i] = r[i]
  BY <1>2
<1>5. /\ work' \in [Actors -> Seq(Steps)] /\ work'[x] = s \o r
      /\ \A y \in Actors \ {x} : work'[y] = work[y]
  BY <1>3, <1>4 DEF TypeOK
<1>6. /\ DOMAIN s = 1..Len(s) /\ DOMAIN work[x] = 1..Len(work[x])
      /\ DOMAIN work'[x] = 1..(Len(s) + Len(r)) /\ Len(s) \in Nat /\ Len(r) \in Nat
  BY <1>1, <1>2, <1>4, <1>5
<1>7. \A i \in DOMAIN work[x] : i > 1 =>
        i - 1 + Len(s) \in DOMAIN work'[x] /\ work'[x][i - 1 + Len(s)] = work[x][i]
  <2> SUFFICES ASSUME NEW i \in DOMAIN work[x], i > 1
               PROVE  i - 1 + Len(s) \in DOMAIN work'[x] /\ work'[x][i - 1 + Len(s)] = work[x][i]
    OBVIOUS
  <2>1. ~Idle(x) /\ i - 1 \in 1..Len(r) BY <1>2, <1>6
  <2>2. (s \o r)[Len(s) + (i - 1)] = work[x][i - 1 + 1] BY <1>2, <1>4, <2>1
  <2>3. Len(s) + (i - 1) = i - 1 + Len(s) /\ i - 1 + 1 = i BY <1>6
  <2> QED BY <1>5, <1>6, <2>1, <2>2, <2>3
<1>8. \A j \in DOMAIN work'[x] : j > Len(s) =>
        /\ j - Len(s) + 1 \in DOMAIN work[x] /\ j - Len(s) + 1 > 1
        /\ work'[x][j] = work[x][j - Len(s) + 1]
  <2> SUFFICES ASSUME NEW j \in DOMAIN work'[x], j > Len(s)
               PROVE  /\ j - Len(s) + 1 \in DOMAIN work[x] /\ j - Len(s) + 1 > 1
                      /\ work'[x][j] = work[x][j - Len(s) + 1]
    OBVIOUS
  <2>1. j - Len(s) \in 1..Len(r) BY <1>6
  <2>2. ~Idle(x) BY <1>2, <2>1
  <2>3. (s \o r)[Len(s) + (j - Len(s))] = work[x][j - Len(s) + 1] BY <1>2, <1>4, <2>1, <2>2
  <2>4. Len(s) + (j - Len(s)) = j BY <1>6
  <2> QED BY <1>2, <1>5, <1>6, <2>1, <2>2, <2>3, <2>4
<1>9. \A i \in DOMAIN s : i \in DOMAIN work'[x] /\ work'[x][i] = s[i] BY <1>4, <1>5, <1>6
<1>10. \A j \in DOMAIN work'[x] : j <= Len(s) => j \in DOMAIN s BY <1>6
<1>11. Len(work'[x]) = Len(s) + Len(r) BY <1>4, <1>5
<1>12. ~Idle(x) => Len(work'[x]) = Len(s) + Len(work[x]) - 1 BY <1>1, <1>2, <1>6, <1>11
<1>13. Idle(x) => Len(work'[x]) = Len(s) BY <1>2, <1>6, <1>11
<1> QED BY <1>5, <1>7, <1>8, <1>9, <1>10, <1>12, <1>13 DEF Replaced

\* What x has to do after such a step.
LEMMA BecomesHas ==
  ASSUME TypeOK, NEW x \in Actors, NEW s \in Seq(Steps), Becomes(x, s)
  PROVE  /\ \A y \in Actors \ {x} : \A r : Has(y, r)' <=> Has(y, r)
         /\ \A r : Has(x, r)' <=> Later(x, r) \/ \E i \in DOMAIN s : s[i] = r
         /\ \A r : Has(x, r) <=> Later(x, r) \/ (~Idle(x) /\ Head(work[x]) = r)
<1>0. Replaced(x, s) BY BecomesAt
<1>1. \A y \in Actors \ {x} : \A r : Has(y, r)' <=> Has(y, r) BY <1>0 DEF Has, Replaced
<1>2. ASSUME NEW r PROVE Has(x, r)' <=> Later(x, r) \/ \E i \in DOMAIN s : s[i] = r
  <2>1. ASSUME NEW j \in DOMAIN work'[x], work'[x][j] = r
        PROVE  Later(x, r) \/ \E i \in DOMAIN s : s[i] = r
    <3>1. CASE j > Len(s) BY <2>1, <3>1, <1>0 DEF Later, Replaced
    <3>2. CASE j <= Len(s) BY <2>1, <3>2, <1>0 DEF Replaced
    <3>3. j \in Int /\ Len(s) \in Int BY <1>0 DEF Replaced
    <3> QED BY <3>1, <3>2, <3>3
  <2>2. ASSUME NEW i \in DOMAIN work[x], i > 1, work[x][i] = r PROVE Has(x, r)'
    BY <2>2, <1>0 DEF Has, Replaced
  <2>3. ASSUME NEW i \in DOMAIN s, s[i] = r PROVE Has(x, r)' BY <2>3, <1>0 DEF Has, Replaced
  <2> QED BY <2>1, <2>2, <2>3 DEF Has, Later
<1>3. ASSUME NEW r PROVE Has(x, r) <=> Later(x, r) \/ (~Idle(x) /\ Head(work[x]) = r)
  <2>1. work[x] \in Seq(Steps) BY DEF TypeOK
  <2>2. \A i \in DOMAIN work[x] : i = 1 \/ i > 1 BY <2>1
  <2>3. ~Idle(x) => 1 \in DOMAIN work[x] /\ Head(work[x]) = work[x][1] BY <2>1 DEF Idle
  <2>4. Idle(x) => DOMAIN work[x] = {} BY <2>1 DEF Idle
  <2> QED BY <2>2, <2>3, <2>4 DEF Has, Later
<1> QED BY <1>1, <1>2, <1>3

\* The form of a call is kept by steps s that are in order themselves and fit what
\* remains of the work.
StepFits(x, s, i) ==
  LET r == s[i]
      Follows(q) == (\E j \in DOMAIN s : j > i /\ s[j] = q) \/ Later(x, q)
  IN /\ i > 1 => r[1] \in LaterKinds
     /\ r[1] \in {"delete", "bury"} => i = Len(s) /\ Len(work[x]) <= 1
     /\ \A j \in DOMAIN s : j > i /\ s[j][1] = r[1] => r[1] \in {"release", "deliver"}
     /\ \A j \in DOMAIN work[x] : j > 1 /\ work[x][j][1] = r[1] => r[1] \in {"release", "deliver"}
     /\ r[1] \in Uses => Follows(<<"release", r[2]>>)
     /\ r[1] = "send" => Follows(<<"release", r[3]>>)
     /\ r[1] = "sever" => Follows(<<"dealloc", r[2]>>)
     /\ r[1] = "hangup" => Follows(<<"delete", r[2]>>)
     /\ r[1] = "unlock" => x = Operator
     /\ r[1] \in {"delete", "hangup", "bury"} => x = Collector

LEMMA FormBecomes ==
  ASSUME TypeOK, Form, NEW x \in Actors, NEW s \in Seq(Steps), Becomes(x, s),
         \A i \in DOMAIN s : StepFits(x, s, i)
  PROVE  Form'
<1>0. Replaced(x, s) BY BecomesAt
<1>1. ASSUME NEW y \in Actors \ {x}, NEW i \in DOMAIN work'[y] PROVE FormAt(y, i)'
  <2>1. work'[y] = work[y] BY <1>0 DEF Replaced
  <2>2. FormAt(y, i) BY <2>1 DEF Form
  <2> QED BY <2>1, <2>2 DEF FormAt
<1>2. ASSUME NEW i \in DOMAIN work'[x] PROVE FormAt(x, i)'
  <2>0. i \in Int /\ Len(s) \in Nat /\ Len(work[x]) \in Nat /\ DOMAIN s = 1..Len(s)
        /\ DOMAIN work[x] = 1..Len(work[x]) /\ DOMAIN work'[x] = 1..Len(work'[x])
        /\ Len(work'[x]) \in Nat
    BY <1>0 DEF TypeOK, Replaced
  <2>1. CASE i <= Len(s)
    <3>1. i \in DOMAIN s /\ work'[x][i] = s[i] BY <2>1, <1>0 DEF Replaced
    <3>2. StepFits(x, s, i) BY <3>1
    <3>3. ASSUME NEW q, (\E j \in DOMAIN s : j > i /\ s[j] = q) \/ Later(x, q)
          PROVE  \E j \in DOMAIN work'[x] : j > i /\ work'[x][j] = q
      <4>1. CASE \E j \in DOMAIN s : j > i /\ s[j] = q BY <4>1, <1>0 DEF Replaced
      <4>2. CASE Later(x, q)
        <5>1. PICK j \in DOMAIN work[x] : j > 1 /\ work[x][j] = q BY <4>2 DEF Later
        <5>2. j - 1 + Len(s) \in DOMAIN work'[x] /\ work'[x][j - 1 + Len(s)] = q BY <5>1, <1>0 DEF Replaced
        <5>3. j - 1 + Len(s) > i BY <2>0, <2>1, <5>1
        <5> QED BY <5>2, <5>3
      <4> QED BY <3>3, <4>1, <4>2
    <3>4. \A j \in DOMAIN work'[x] : j > i /\ work'[x][j][1] = s[i][1] =>
            s[i][1] \in {"release", "deliver"}
      <4> SUFFICES ASSUME NEW j \in DOMAIN work'[x], j > i, work'[x][j][1] = s[i][1]
                   PROVE  s[i][1] \in {"release", "deliver"}
        OBVIOUS
      <4>1. CASE j <= Len(s) BY <3>2, <4>1, <1>0 DEF StepFits, Replaced
      <4>2. CASE j > Len(s)
        <5>1. \E k \in DOMAIN work[x] : k > 1 /\ work[x][k][1] = s[i][1]
          BY <4>2, <1>0 DEF Replaced
        <5> QED BY <3>2, <5>1 DEF StepFits
      <4> QED BY <2>0, <4>1, <4>2
    <3>5. s[i][1] \in {"delete", "bury"} => i = Len(work'[x])
      <4> SUFFICES ASSUME s[i][1] \in {"delete", "bury"} PROVE i = Len(work'[x]) OBVIOUS
      <4>1. i = Len(s) /\ Len(work[x]) <= 1 BY <3>2 DEF StepFits
      <4>2. ~Idle(x) => Len(work[x]) = 1 BY <2>0, <4>1 DEF Idle, TypeOK
      <4>3. IF Idle(x) THEN Len(work'[x]) = Len(s) ELSE Len(work'[x]) = Len(s) + Len(work[x]) - 1
        BY <1>0 DEF Replaced
      <4> QED BY <2>0, <4>1, <4>2, <4>3
    <3>6. /\ i > 1 => s[i][1] \in LaterKinds
          /\ s[i][1] = "unlock" => x = Operator
          /\ s[i][1] \in {"delete", "hangup", "bury"} => x = Collector
      BY <3>2 DEF StepFits
    <3>7. /\ s[i][1] \in Uses => \E j \in DOMAIN work'[x] : j > i /\ work'[x][j] = <<"release", s[i][2]>>
          /\ s[i][1] = "send" => \E j \in DOMAIN work'[x] : j > i /\ work'[x][j] = <<"release", s[i][3]>>
          /\ s[i][1] = "sever" => \E j \in DOMAIN work'[x] : j > i /\ work'[x][j] = <<"dealloc", s[i][2]>>
          /\ s[i][1] = "hangup" => \E j \in DOMAIN work'[x] : j > i /\ work'[x][j] = <<"delete", s[i][2]>>
      BY <3>2, <3>3 DEF StepFits
    <3> QED BY ONLY <3>1, <3>4, <3>5, <3>6, <3>7 DEF FormAt
  <2>2. CASE i > Len(s)
    <3> DEFINE k == i - Len(s) + 1
    <3>1. k \in DOMAIN work[x] /\ k > 1 /\ work'[x][i] = work[x][k] BY <2>2, <1>0 DEF Replaced
    <3>2. FormAt(x, k) BY <3>1 DEF Form
    <3>3. ASSUME NEW q, \E j \in DOMAIN work[x] : j > k /\ work[x][j] = q
          PROVE  \E j \in DOMAIN work'[x] : j > i /\ work'[x][j] = q
      <4>1. PICK j \in DOMAIN work[x] : j > k /\ work[x][j] = q BY <3>3
      <4>2. j > 1 BY <2>0, <3>1, <4>1
      <4>3. j - 1 + Len(s) \in DOMAIN work'[x] /\ work'[x][j - 1 + Len(s)] = q
        BY <4>1, <4>2, <1>0 DEF Replaced
      <4>4. j - 1 + Len(s) > i BY <2>0, <4>1
      <4> QED BY <4>3, <4>4
    <3>4. \A j \in DOMAIN work'[x] : j > i /\ work'[x][j][1] = work[x][k][1] =>
            work[x][k][1] \in {"release", "deliver"}
      <4> SUFFICES ASSUME NEW j \in DOMAIN work'[x], j > i, work'[x][j][1] = work[x][k][1]
                   PROVE  work[x][k][1] \in {"release", "deliver"}
        OBVIOUS
      <4>0. j > Len(s) BY <2>0, <2>2
      <4>1. /\ j - Len(s) + 1 \in DOMAIN work[x]
            /\ work'[x][j] = work[x][j - Len(s) + 1]
        BY <4>0, <1>0 DEF Replaced
      <4>2. j - Len(s) + 1 > k BY <2>0
      <4> QED BY <3>2, <4>1, <4>2 DEF FormAt
    <3>5. k = Len(work[x]) => i = Len(work'[x])
      <4>1. ~Idle(x) BY <2>0, <3>1 DEF Idle, TypeOK
      <4>2. Len(work'[x]) = Len(s) + Len(work[x]) - 1 BY <4>1, <1>0 DEF Replaced
      <4> QED BY <2>0, <4>2
    <3> HIDE DEF k
    <3>6. /\ work[x][k][1] \in LaterKinds
          /\ work[x][k][1] = "unlock" => x = Operator
          /\ work[x][k][1] \in {"delete", "hangup", "bury"} => x = Collector
          /\ work[x][k][1] \in {"delete", "bury"} => k = Len(work[x])
      BY <3>1, <3>2 DEF FormAt
    <3>7. /\ work[x][k][1] \in Uses =>
               \E j \in DOMAIN work'[x] : j > i /\ work'[x][j] = <<"release", work[x][k][2]>>
          /\ work[x][k][1] = "send" =>
               \E j \in DOMAIN work'[x] : j > i /\ work'[x][j] = <<"release", work[x][k][3]>>
          /\ work[x][k][1] = "sever" =>
               \E j \in DOMAIN work'[x] : j > i /\ work'[x][j] = <<"dealloc", work[x][k][2]>>
          /\ work[x][k][1] = "hangup" =>
               \E j \in DOMAIN work'[x] : j > i /\ work'[x][j] = <<"delete", work[x][k][2]>>
      BY <3>2, <3>3 DEF FormAt
    <3> QED BY ONLY <3>1, <3>4, <3>5, <3>6, <3>7 DEF FormAt
  <2> QED BY <2>0, <2>1, <2>2
<1> QED BY <1>1, <1>2 DEF Form

-----------------------------------------------------------------------------
(* References.                                                             *)

\* Those that calls will release, and the operator's.
Held(t) == IF t \in handed THEN 1 ELSE 0

CountedBy ==
  \A t \in Terminals :
    /\ IsFiniteSet(References(t)) <=> IsFiniteSet(InCalls(t))
    /\ IsFiniteSet(InCalls(t)) => Cardinality(References(t)) = Cardinality(InCalls(t)) + Held(t)

LEMMA CountedAs == TypeOK => CountedBy
<1> SUFFICES ASSUME TypeOK, NEW t \in Terminals
             PROVE  /\ IsFiniteSet(References(t)) <=> IsFiniteSet(InCalls(t))
                    /\ IsFiniteSet(InCalls(t)) =>
                         Cardinality(References(t)) = Cardinality(InCalls(t)) + Held(t)
  BY DEF CountedBy
<1>1. CASE t \in handed
  <2>1. References(t) = InCalls(t) \cup {<<Operator, 0>>} BY <1>1 DEF References
  <2>2. <<Operator, 0>> \notin InCalls(t)
    <3>1. \A x \in Actors : work[x] \in Seq(Steps) BY DEF TypeOK
    <3>2. \A x \in Actors : 0 \notin DOMAIN work[x] BY <3>1
    <3> QED BY <3>2 DEF InCalls
  <2>3. InCalls(t) = References(t) \ {<<Operator, 0>>} BY <2>1, <2>2
  <2>4. IsFiniteSet(InCalls(t)) => /\ IsFiniteSet(References(t))
                                   /\ Cardinality(References(t)) = Cardinality(InCalls(t)) + 1
    BY <2>1, <2>2, FS_AddElement
  <2>5. IsFiniteSet(References(t)) => IsFiniteSet(InCalls(t))
    <3> DEFINE R == References(t)
               C == InCalls(t)
    <3>1. C = R \ {<<Operator, 0>>} BY <2>3
    <3> HIDE DEF R, C
    <3>2. IsFiniteSet(R) => IsFiniteSet(C) BY <3>1, FS_RemoveElement
    <3> QED BY <3>2 DEF R, C
  <2> QED BY <1>1, <2>4, <2>5 DEF Held
<1>2. CASE t \notin handed
  <2>1. References(t) = InCalls(t) BY <1>2 DEF References
  <2>2. IsFiniteSet(InCalls(t)) => Cardinality(InCalls(t)) \in Nat BY FS_CardinalityType
  <2> QED BY <1>2, <2>1, <2>2 DEF Held
<1> QED BY <1>1, <1>2

\* One step drops the reference that it releases, and adds those it will release later.
Lost(x, t) == IF ~Idle(x) /\ Head(work[x]) = <<"release", t>> THEN 1 ELSE 0

LEMMA Recount ==
  ASSUME TypeOK, NEW x \in Actors, NEW s \in Seq(Steps), Becomes(x, s), NEW t \in Terminals,
         IsFiniteSet(InCalls(t)), NEW g \in {0, 1},
         g = 0 => \A i \in DOMAIN s : s[i] # <<"release", t>>,
         g = 1 => \E k \in DOMAIN s : \A i \in DOMAIN s : s[i] = <<"release", t>> <=> i = k
  PROVE  /\ IsFiniteSet(InCalls(t)') /\ Cardinality(InCalls(t)') \in Nat
         /\ Cardinality(InCalls(t)') = Cardinality(InCalls(t)) - Lost(x, t) + g
<1> DEFINE kept  == InCalls(t) \ {<<x, 1>>}
           moved == InCalls(t)' \ {<<x, i>> : i \in DOMAIN s}
           f     == [r \in kept |-> IF r[1] = x THEN <<x, r[2] - 1 + Len(s)>> ELSE r]
<1>0. Replaced(x, s) BY BecomesAt
<1>t. /\ work[x] \in Seq(Steps) /\ work'[x] \in Seq(Steps)
      /\ DOMAIN s = 1..Len(s) /\ Len(s) \in Nat
      /\ DOMAIN work[x] = 1..Len(work[x]) /\ DOMAIN work'[x] = 1..Len(work'[x])
      /\ Len(work[x]) \in Nat /\ Len(work'[x]) \in Nat
  BY <1>0 DEF TypeOK, Replaced
<1>1. \A r : r \in InCalls(t) <=>
        \E y \in Actors : \E i \in DOMAIN work[y] : r = <<y, i>> /\ work[y][i] = <<"release", t>>
  BY DEF InCalls
<1>2. \A r : r \in InCalls(t)' <=>
        \E y \in Actors : \E i \in DOMAIN work'[y] : r = <<y, i>> /\ work'[y][i] = <<"release", t>>
  BY DEF InCalls
<1>3. \A y \in Actors : \A i : <<y, i>> \in InCalls(t) <=>
        i \in DOMAIN work[y] /\ work[y][i] = <<"release", t>>
  BY <1>1
<1>4. \A y \in Actors : \A i : <<y, i>> \in InCalls(t)' <=>
        i \in DOMAIN work'[y] /\ work'[y][i] = <<"release", t>>
  BY <1>2
<1>5. \A y \in Actors \ {x} : \A i : /\ <<y, i>> \in kept <=> <<y, i>> \in InCalls(t)
                                     /\ <<y, i>> \in moved <=> <<y, i>> \in InCalls(t)'
                                     /\ <<y, i>> \in InCalls(t)' <=> <<y, i>> \in InCalls(t)
  <2>1. \A y \in Actors \ {x} : work'[y] = work[y] BY <1>0 DEF Replaced
  <2> SUFFICES ASSUME NEW y \in Actors, y # x, NEW i
               PROVE  /\ <<y, i>> \in kept <=> <<y, i>> \in InCalls(t)
                      /\ <<y, i>> \in moved <=> <<y, i>> \in InCalls(t)'
                      /\ <<y, i>> \in InCalls(t)' <=> <<y, i>> \in InCalls(t)
    OBVIOUS
  <2>2. <<y, i>> # <<x, 1>> /\ <<y, i>> \notin {<<x, j>> : j \in DOMAIN s} OBVIOUS
  <2>3. <<y, i>> \in InCalls(t)' <=> <<y, i>> \in InCalls(t) BY <1>3, <1>4, <2>1
  <2> QED BY <2>2, <2>3
<1>6. \A i : /\ <<x, i>> \in kept <=> <<x, i>> \in InCalls(t) /\ i # 1
             /\ <<x, i>> \in moved <=> <<x, i>> \in InCalls(t)' /\ i \notin DOMAIN s
  OBVIOUS
<1>7. \A i : <<x, i>> \in kept => i - 1 + Len(s) \in Nat /\ <<x, i - 1 + Len(s)>> \in moved
  <2> SUFFICES ASSUME NEW i, <<x, i>> \in kept
               PROVE  i - 1 + Len(s) \in Nat /\ <<x, i - 1 + Len(s)>> \in moved
    OBVIOUS
  <2>1. i \in DOMAIN work[x] /\ i > 1 /\ work[x][i] = <<"release", t>> BY <1>3, <1>6, <1>t
  <2>2. /\ i - 1 + Len(s) \in DOMAIN work'[x]
        /\ work'[x][i - 1 + Len(s)] = <<"release", t>>
    BY <1>0, <2>1 DEF Replaced
  <2>3. i - 1 + Len(s) \notin DOMAIN s BY <2>1, <1>t
  <2> QED BY <1>4, <1>6, <1>t, <2>2, <2>3
<1>8. \A j : <<x, j>> \in moved => \E i : <<x, i>> \in kept /\ j = i - 1 + Len(s)
  <2> SUFFICES ASSUME NEW j, <<x, j>> \in moved
               PROVE  \E i : <<x, i>> \in kept /\ j = i - 1 + Len(s)
    OBVIOUS
  <2>1. j \in DOMAIN work'[x] /\ j > Len(s) /\ work'[x][j] = <<"release", t>> BY <1>4, <1>6, <1>t
  <2>2. /\ j - Len(s) + 1 \in DOMAIN work[x] /\ j - Len(s) + 1 > 1
        /\ work[x][j - Len(s) + 1] = <<"release", t>>
    BY <1>0, <2>1 DEF Replaced
  <2>3. <<x, j - Len(s) + 1>> \in kept BY <1>3, <1>6, <1>t, <2>2
  <2>4. j \in Int BY <1>t, <2>1
  <2>5. j = (j - Len(s) + 1) - 1 + Len(s) BY <1>t, <2>4
  <2> QED BY <2>3, <2>5
<1>9. /\ \A r \in kept : \E y \in Actors : \E i : r = <<y, i>>
      /\ \A r \in moved : \E y \in Actors : \E i : r = <<y, i>>
  BY <1>1, <1>2
<1>10. \A i : <<x, i>> \in kept => i \in Nat BY <1>3, <1>6, <1>t
<1> HIDE DEF kept, moved
<1>11. f \in [kept -> moved]
  <2> SUFFICES ASSUME NEW r \in kept
               PROVE  (IF r[1] = x THEN <<x, r[2] - 1 + Len(s)>> ELSE r) \in moved
    OBVIOUS
  <2>1. PICK y, i : y \in Actors /\ r = <<y, i>> BY <1>9
  <2> QED BY <2>1, <1>5, <1>7
<1>12. \A r, q \in kept : f[r] = f[q] => r = q
  <2> SUFFICES ASSUME NEW r \in kept, NEW q \in kept, f[r] = f[q] PROVE r = q OBVIOUS
  <2>1. PICK y, i : y \in Actors /\ r = <<y, i>> BY <1>9
  <2>2. PICK z, j : z \in Actors /\ q = <<z, j>> BY <1>9
  <2>3. f[r] = (IF y = x THEN <<x, i - 1 + Len(s)>> ELSE <<y, i>>) BY <2>1
  <2>4. f[q] = (IF z = x THEN <<x, j - 1 + Len(s)>> ELSE <<z, j>>) BY <2>2
  <2>5. y = z BY <2>3, <2>4
  <2>6. CASE y = x
    <3>1. i - 1 + Len(s) = j - 1 + Len(s) BY <2>3, <2>4, <2>5, <2>6
    <3>2. i \in Nat /\ j \in Nat BY <1>10, <2>1, <2>2, <2>5, <2>6
    <3> QED BY <1>t, <2>1, <2>2, <2>5, <3>1, <3>2
  <2>7. CASE y # x BY <2>1, <2>2, <2>3, <2>4, <2>5, <2>7
  <2> QED BY <2>6, <2>7
<1>13. \A q \in moved : \E r \in kept : f[r] = q
  <2> SUFFICES ASSUME NEW q \in moved PROVE \E r \in kept : f[r] = q OBVIOUS
  <2>1. PICK y, j : y \in Actors /\ q = <<y, j>> BY <1>9
  <2>2. CASE y = x
    <3>1. PICK i : <<x, i>> \in kept /\ j = i - 1 + Len(s) BY <1>8, <2>1, <2>2
    <3>2. f[<<x, i>>] = q BY <2>1, <2>2, <3>1
    <3> QED BY <3>1, <3>2
  <2>3. CASE y # x
    <3>1. q \in kept BY <1>5, <2>1, <2>3
    <3>2. f[q] = q BY <2>1, <2>3, <3>1
    <3> QED BY <3>1, <3>2
  <2> QED BY <2>2, <2>3
<1> HIDE DEF f
<1>14. ExistsBijection(kept, moved)
  <2>1. f \in Bijection(kept, moved) BY <1>11, <1>12, <1>13, Fun_IsBij
  <2> QED BY <2>1 DEF ExistsBijection
<1>15. IsFiniteSet(kept) /\ Cardinality(kept) = Cardinality(InCalls(t)) - Lost(x, t)
  <2>1. <<x, 1>> \in InCalls(t) <=> ~Idle(x) /\ Head(work[x]) = <<"release", t>>
    <3>1. 1 \in DOMAIN work[x] <=> ~Idle(x) BY <1>t DEF Idle
    <3>2. ~Idle(x) => Head(work[x]) = work[x][1] BY <1>t DEF Idle
    <3> QED BY <1>3, <3>1, <3>2
  <2>2. /\ IsFiniteSet(kept)
        /\ Cardinality(kept) = IF <<x, 1>> \in InCalls(t) THEN Cardinality(InCalls(t)) - 1
                               ELSE Cardinality(InCalls(t))
    BY FS_RemoveElement DEF kept
  <2>3. Cardinality(InCalls(t)) \in Nat BY FS_CardinalityType
  <2> QED BY <2>1, <2>2, <2>3 DEF Lost
<1>16. IsFiniteSet(moved) /\ Cardinality(moved) = Cardinality(kept) /\ Cardinality(kept) \in Nat
  BY <1>14, <1>15, FS_Bijection, FS_CardinalityType
<1>17. \A i \in DOMAIN s : <<x, i>> \in InCalls(t)' <=> s[i] = <<"release", t>>
  <2>1. \A i \in DOMAIN s : i \in DOMAIN work'[x] /\ work'[x][i] = s[i] BY <1>0 DEF Replaced
  <2> QED BY <1>4, <2>1
<1>18. CASE g = 0
  <2>1. InCalls(t)' = moved BY <1>17, <1>18 DEF moved
  <2> QED BY <1>15, <1>16, <1>18, <2>1
<1>19. CASE g = 1
  <2>1. PICK k \in DOMAIN s : \A i \in DOMAIN s : s[i] = <<"release", t>> <=> i = k BY <1>19
  <2>2. InCalls(t)' = moved \cup {<<x, k>>} /\ <<x, k>> \notin moved BY <1>17, <2>1 DEF moved
  <2>3. IsFiniteSet(InCalls(t)') /\ Cardinality(InCalls(t)') = Cardinality(moved) + 1
    BY <1>16, <2>2, FS_AddElement
  <2> QED BY <1>15, <1>16, <1>19, <2>3
<1> QED BY <1>18, <1>19

\* So a count stays exact if it changes by as much.
LEMMA CountedBecomes ==
  ASSUME TypeOK, TypeOK', Counted, NEW x \in Actors, NEW s \in Seq(Steps), Becomes(x, s),
         NEW t \in Terminals, NEW g \in {0, 1},
         g = 0 => \A i \in DOMAIN s : s[i] # <<"release", t>>,
         g = 1 => \E k \in DOMAIN s : \A i \in DOMAIN s : s[i] = <<"release", t>> <=> i = k,
         retainCount'[t] = retainCount[t] - Lost(x, t) + g - Held(t) + Held(t)'
  PROVE  IsFiniteSet(References(t)') /\ retainCount'[t] = Cardinality(References(t)')
<1>1. CountedBy /\ CountedBy' BY CountedAs, PTL
<1>2. /\ IsFiniteSet(InCalls(t))
      /\ retainCount[t] = Cardinality(InCalls(t)) + Held(t)
  BY <1>1 DEF Counted, CountedBy
<1>3. /\ IsFiniteSet(InCalls(t)') /\ Cardinality(InCalls(t)') \in Nat
      /\ Cardinality(InCalls(t)') = Cardinality(InCalls(t)) - Lost(x, t) + g
  BY <1>2, Recount
<1>4. /\ IsFiniteSet(References(t)')
      /\ Cardinality(References(t)') = Cardinality(InCalls(t)') + Held(t)'
  BY <1>1, <1>3 DEF CountedBy
<1>5. Lost(x, t) \in Int /\ Held(t) \in Int /\ Held(t)' \in Int /\ Cardinality(InCalls(t)) \in Int
  BY <1>2, FS_CardinalityType DEF Lost, Held
<1> QED BY <1>2, <1>3, <1>4, <1>5

\* In the two cases: a step adds one reference, the k-th of its new steps, or none.
LEMMA CountedMore ==
  ASSUME TypeOK, TypeOK', Counted, NEW x \in Actors, NEW s \in Seq(Steps), Becomes(x, s),
         NEW t \in Terminals,
         NEW k \in DOMAIN s, \A i \in DOMAIN s : s[i] = <<"release", t>> <=> i = k,
         retainCount'[t] = retainCount[t] - Lost(x, t) + 1 - Held(t) + Held(t)'
  PROVE  IsFiniteSet(References(t)') /\ retainCount'[t] = Cardinality(References(t)')
<1>1. \E j \in DOMAIN s : \A i \in DOMAIN s : s[i] = <<"release", t>> <=> i = j OBVIOUS
<1>2. 1 \in {0, 1} /\ 1 # 0 OBVIOUS
<1> QED BY <1>1, <1>2, CountedBecomes
LEMMA CountedLess ==
  ASSUME TypeOK, TypeOK', Counted, NEW x \in Actors, NEW s \in Seq(Steps), Becomes(x, s),
         NEW t \in Terminals, \A i \in DOMAIN s : s[i] # <<"release", t>>,
         retainCount'[t] = retainCount[t] - Lost(x, t) - Held(t) + Held(t)'
  PROVE  IsFiniteSet(References(t)') /\ retainCount'[t] = Cardinality(References(t)')
<1>1. Lost(x, t) \in Int /\ Held(t) \in Int /\ Held(t)' \in Int /\ retainCount[t] \in Int
  BY DEF Lost, Held, TypeOK
<1>2. retainCount'[t] = retainCount[t] - Lost(x, t) + 0 - Held(t) + Held(t)' BY <1>1
<1>3. 0 \in {0, 1} /\ 0 # 1 OBVIOUS
<1> QED BY <1>2, <1>3, CountedBecomes

-----------------------------------------------------------------------------
(* The steps, one by one.                                                  *)

IInv ==
  /\ TypeOK /\ Form /\ Counted /\ ThrownDead /\ ThrownOnce /\ Fresh /\ Connected
  /\ Owned /\ Attached /\ Delivered /\ PendingExact

\* What is still used has been allocated and not thrown away: a terminal that somebody
\* will release, that the operator has, or that has a port.
Alive(t) == t \in Live /\ ~Thrown(t)
LEMMA UsedAlive ==
  ASSUME IInv
  PROVE  /\ \A x \in Actors, t \in Terminals : Has(x, <<"release", t>>) => Alive(t) /\ retainCount[t] > 0
         /\ \A t \in handed : Alive(t) /\ retainCount[t] > 0
         /\ \A t \in Terminals : port[t] # None => Alive(t)
<1> USE DEF IInv
<1>1. ASSUME NEW t \in Terminals, References(t) # {} PROVE Alive(t) /\ retainCount[t] > 0
  <2>1. retainCount[t] # 0 BY <1>1, FS_EmptySet DEF Counted
  <2>2. retainCount[t] \in Nat BY DEF TypeOK
  <2>3. t \in made BY <2>1 DEF Fresh
  <2>4. ~Thrown(t) BY <2>1 DEF ThrownDead
  <2> QED BY <2>1, <2>2, <2>3, <2>4 DEF Alive, Live, Thrown
<1>2. ASSUME NEW x \in Actors, NEW t \in Terminals, Has(x, <<"release", t>>) PROVE References(t) # {}
  <2>1. PICK i \in DOMAIN work[x] : work[x][i] = <<"release", t>> BY <1>2 DEF Has
  <2>2. <<x, i>> \in {x} \X {j \in DOMAIN work[x] : work[x][j] = <<"release", t>>} BY <2>1
  <2>3. <<x, i>> \in InCalls(t) BY <2>2 DEF InCalls
  <2> QED BY <2>3 DEF References
<1>3. \A t \in handed : t \in Terminals /\ References(t) # {} BY DEF References, TypeOK
<1>4. ASSUME NEW t \in Terminals, port[t] # None PROVE Alive(t)
  <2>1. t \in made BY <1>4 DEF Fresh
  <2>2. ~Thrown(t) BY <1>4 DEF ThrownDead
  <2> QED BY <2>1, <2>2 DEF Alive, Live, Thrown
<1> QED BY <1>1, <1>2, <1>3, <1>4

\* Whoever uses a terminal releases it afterwards.
LEMMA UserAlive ==
  ASSUME IInv, NEW x \in Actors, NEW t \in Terminals
  PROVE  /\ \A m : Has(x, <<"deliver", t, m>>) \/ Has(x, <<"hand", t, m>>) => Has(x, <<"release", t>>)
         /\ Has(x, <<"cut", t>>) \/ Has(x, <<"read", t>>) => Has(x, <<"release", t>>)
         /\ \A c : Has(x, <<"send", c, t>>) => Has(x, <<"release", t>>)
<1> USE DEF IInv, Form, FormAt, Uses
<1>1. ASSUME NEW m, NEW i \in DOMAIN work[x],
             work[x][i] = <<"deliver", t, m>> \/ work[x][i] = <<"hand", t, m>>
      PROVE  Has(x, <<"release", t>>)
  <2>1. work[x][i][1] \in Uses /\ work[x][i][2] = t BY <1>1
  <2> QED BY <2>1 DEF Has
<1>2. ASSUME NEW i \in DOMAIN work[x], work[x][i] = <<"cut", t>> \/ work[x][i] = <<"read", t>>
      PROVE  Has(x, <<"release", t>>)
  <2>1. work[x][i][1] \in Uses /\ work[x][i][2] = t BY <1>2
  <2> QED BY <2>1 DEF Has
<1>3. ASSUME NEW c, NEW i \in DOMAIN work[x], work[x][i] = <<"send", c, t>>
      PROVE  Has(x, <<"release", t>>)
  <2>1. work[x][i][1] = "send" /\ work[x][i][3] = t BY <1>3
  <2> QED BY <2>1 DEF Has
<1> QED BY <1>1, <1>2, <1>3 DEF Has

\* What x does next is not what it does later, but for deliveries and releases.
LEMMA Next1 ==
  ASSUME TypeOK, Form, NEW x \in Actors, NEW r, Doing(x, r)
  PROVE  /\ ~Idle(x) /\ Head(work[x]) = r /\ Has(x, r) /\ r \in Steps
         /\ \A q : Later(x, q) => Has(x, q) /\ q[1] \in LaterKinds
         /\ \A q : Later(x, q) /\ q[1] = r[1] => r[1] \in {"release", "deliver"}
         /\ r[1] \in {"delete", "bury"} => Len(work[x]) = 1 /\ \A q : ~Later(x, q)
         /\ r[1] \in Uses => Later(x, <<"release", r[2]>>)
         /\ r[1] = "send" => Later(x, <<"release", r[3]>>)
         /\ r[1] = "sever" => Later(x, <<"dealloc", r[2]>>)
         /\ r[1] = "hangup" => Later(x, <<"delete", r[2]>>)
         /\ r[1] = "unlock" => x = Operator
         /\ r[1] \in {"delete", "hangup", "bury"} => x = Collector
<1>1. work[x] \in Seq(Steps) /\ ~Idle(x) /\ Head(work[x]) = r BY DEF TypeOK, Doing
<1>2. 1 \in DOMAIN work[x] /\ work[x][1] = r /\ DOMAIN work[x] = 1..Len(work[x]) /\ Len(work[x]) \in Nat
  BY <1>1 DEF Idle
<1>3. FormAt(x, 1) BY <1>2 DEF Form
<1>4. \A q : Later(x, q) => Has(x, q) /\ q[1] \in LaterKinds BY DEF Later, Has, Form, FormAt
<1>5. \A q : Later(x, q) /\ q[1] = r[1] => r[1] \in {"release", "deliver"}
  <2>1. \A j \in DOMAIN work[x] : j > 1 /\ work[x][j][1] = r[1] => r[1] \in {"release", "deliver"}
    BY <1>2, <1>3 DEF FormAt
  <2> QED BY <2>1 DEF Later
<1>6. r[1] \in {"delete", "bury"} => Len(work[x]) = 1 /\ \A q : ~Later(x, q)
  <2>1. r[1] \in {"delete", "bury"} => Len(work[x]) = 1 BY <1>2, <1>3 DEF FormAt
  <2>2. Len(work[x]) = 1 => \A q : ~Later(x, q) BY <1>2 DEF Later
  <2> QED BY <2>1, <2>2
<1>7. \A q : (\E j \in DOMAIN work[x] : j > 1 /\ work[x][j] = q) <=> Later(x, q) BY DEF Later
<1>8. /\ r[1] \in Uses => Later(x, <<"release", r[2]>>)
      /\ r[1] = "send" => Later(x, <<"release", r[3]>>)
      /\ r[1] = "sever" => Later(x, <<"dealloc", r[2]>>)
      /\ r[1] = "hangup" => Later(x, <<"delete", r[2]>>)
      /\ r[1] = "unlock" => x = Operator
      /\ r[1] \in {"delete", "hangup", "bury"} => x = Collector
  BY <1>2, <1>3, <1>7 DEF FormAt
<1>9. r \in Steps /\ Has(x, r) BY <1>1, <1>2 DEF Has
<1> QED BY <1>1, <1>4, <1>5, <1>6, <1>8, <1>9

\* Both ways to change the work are of the kind above.
LEMMA ThenBecomes == ASSUME NEW x \in Actors, NEW s, ~Idle(x), Then(x, s) PROVE Becomes(x, s)
BY DEF Then, Becomes, Rest
LEMMA StartBecomes ==
  ASSUME NEW x \in Actors, NEW s \in Seq(Steps), Idle(x), Start(x, s) PROVE Becomes(x, s)
<1>1. s \o <<>> = s OBVIOUS
<1> QED BY <1>1 DEF Start, Becomes, Rest

\* In short: what everybody has to do after a step of x that replaces the steps R (the
\* next one, or none if x was idle) by s.
Effect(x, R, s) ==
  /\ work' \in [Actors -> Seq(Steps)] /\ Becomes(x, s) /\ x \notin exited
  /\ \A y \in Actors \ {x} : (Idle(y)' <=> Idle(y)) /\ \A q : Has(y, q)' <=> Has(y, q)
  /\ \A q : Has(x, q)' <=> Later(x, q) \/ \E i \in DOMAIN s : s[i] = q
  /\ \A q : Has(x, q) <=> Later(x, q) \/ q \in R
LEMMA ThenEffect ==
  ASSUME IInv, NEW x \in Actors, NEW r, Doing(x, r), NEW s \in Seq(Steps), Then(x, s)
  PROVE  Effect(x, {r}, s)
<1> USE DEF IInv
<1>1. ~Idle(x) /\ Head(work[x]) = r BY Next1
<1>2. Becomes(x, s) BY <1>1, ThenBecomes
<1>3. Replaced(x, s) BY <1>2, BecomesAt
<1>4. \A y \in Actors \ {x} : Idle(y)' <=> Idle(y) BY <1>3 DEF Replaced, Idle
<1>5. x \notin exited BY <1>1 DEF Owned
<1>6. work' \in [Actors -> Seq(Steps)] BY <1>3 DEF Replaced
<1>7. /\ \A y \in Actors \ {x} : \A q : Has(y, q)' <=> Has(y, q)
      /\ \A q : Has(x, q)' <=> Later(x, q) \/ \E i \in DOMAIN s : s[i] = q
      /\ \A q : Has(x, q) <=> Later(x, q) \/ q = r
  BY <1>1, <1>2, BecomesHas
<1> QED BY <1>2, <1>4, <1>5, <1>6, <1>7 DEF Effect
LEMMA StartEffect ==
  ASSUME IInv, NEW x \in Actors, Idle(x), x \notin exited, NEW s \in Seq(Steps), Start(x, s)
  PROVE  /\ Effect(x, {}, s)
         /\ \A q : ~Has(x, q) /\ ~Later(x, q)
<1> USE DEF IInv
<1>2. Becomes(x, s) BY StartBecomes
<1>3. Replaced(x, s) BY <1>2, BecomesAt
<1>4. \A y \in Actors \ {x} : Idle(y)' <=> Idle(y) BY <1>3 DEF Replaced, Idle
<1>6. work' \in [Actors -> Seq(Steps)] BY <1>3 DEF Replaced
<1>7. /\ \A y \in Actors \ {x} : \A q : Has(y, q)' <=> Has(y, q)
      /\ \A q : Has(x, q)' <=> Later(x, q) \/ \E i \in DOMAIN s : s[i] = q
  BY <1>2, BecomesHas
<1>8. \A q : ~Has(x, q) /\ ~Later(x, q)
  <2>1. DOMAIN work[x] = {} BY DEF Idle
  <2> QED BY <2>1 DEF Has, Later
<1> QED BY <1>2, <1>4, <1>6, <1>7, <1>8 DEF Effect

\* The steps of these kinds are the same as before; there are no new ones.
Keeps(kinds) ==
  \A y \in Actors, k \in kinds :
    /\ \A o : Has(y, <<k, o>>)' <=> Has(y, <<k, o>>)
    /\ \A o, m : Has(y, <<k, o, m>>)' <=> Has(y, <<k, o, m>>)
Adds(kinds) ==
  \A y \in Actors, k \in kinds :
    /\ \A o : Has(y, <<k, o>>)' => Has(y, <<k, o>>)
    /\ \A o, m : Has(y, <<k, o, m>>)' => Has(y, <<k, o, m>>)
LEMMA EffectKeeps ==
  ASSUME NEW x \in Actors, NEW R, NEW s, Effect(x, R, s), NEW kinds,
         \A i \in DOMAIN s : s[i][1] \notin kinds
  PROVE  /\ Adds(kinds)
         /\ (\A r \in R : r[1] \notin kinds) => Keeps(kinds)
         /\ \A th \in exited : th \in Actors /\ Idle(th) => Idle(th)'
<1>1. ASSUME NEW y \in Actors, NEW q, q[1] \in kinds
      PROVE  /\ Has(y, q)' => Has(y, q)
             /\ (\A r \in R : r[1] \notin kinds) => (Has(y, q)' <=> Has(y, q))
  <2>1. \A i \in DOMAIN s : s[i] # q BY <1>1
  <2>2. CASE y # x BY <2>2 DEF Effect
  <2>3. CASE y = x
    <3>1. Has(x, q)' <=> Later(x, q) BY <2>1 DEF Effect
    <3>2. Has(x, q) <=> Later(x, q) \/ q \in R BY DEF Effect
    <3> QED BY <1>1, <2>3, <3>1, <3>2
  <2> QED BY <2>2, <2>3
<1>2. \A k, o, m : <<k, o>>[1] = k /\ <<k, o, m>>[1] = k OBVIOUS
<1>3. Adds(kinds) BY <1>1, <1>2 DEF Adds
<1>4. (\A r \in R : r[1] \notin kinds) => Keeps(kinds) BY <1>1, <1>2 DEF Keeps
<1>5. \A th \in exited : th \in Actors /\ Idle(th) => Idle(th)' BY DEF Effect
<1> QED BY <1>3, <1>4, <1>5

\* What the parts of the invariant depend on.
Same(S) == \A o \in S : (o \in freed' <=> o \in freed) /\ (o \in made' <=> o \in made)
LEMMA KeptThrown ==
  ASSUME IInv, Adds({"delete", "throw"}), Same(Terminals), UNCHANGED <<port, retainCount, garbage>>
  PROVE  ThrownDead' /\ ThrownOnce'
<1> USE IpcAssumption DEF IInv
<1>0. Collector \in Actors /\ Threads \subseteq Actors BY DEF Actors
<1>1. ThrownDead' BY <1>0 DEF Adds, ThrownDead, Thrown, Same
<1>2. ThrownOnce' BY <1>0 DEF Adds, ThrownOnce, Same
<1> QED BY <1>1, <1>2

LEMMA KeptFresh ==
  ASSUME IInv, Same(Terminals), UNCHANGED <<port, retainCount, connection>> PROVE Fresh'
BY DEF IInv, Fresh, Same

LEMMA KeptConnected ==
  ASSUME IInv, Keeps({"delete", "hangup"}), Adds({"unlock", "send"}),
         Same(Terminals \cup Connections), UNCHANGED <<ends, lock, connection>>
  PROVE  Connected'
<1> USE IpcAssumption DEF IInv
<1>0. Collector \in Actors BY DEF Actors
<1>1. \A u : /\ Has(Collector, <<"delete", u>>)' <=> Has(Collector, <<"delete", u>>)
             /\ Has(Collector, <<"hangup", u>>)' <=> Has(Collector, <<"hangup", u>>)
  BY <1>0 DEF Keeps
<1>2. \A x \in Actors, c \in Connections : Has(x, <<"unlock", c>>)' => Has(x, <<"unlock", c>>)
  BY DEF Adds
<1>3. \A x \in Actors, c \in Connections, t \in Terminals :
        Has(x, <<"send", c, t>>)' => Has(x, <<"send", c, t>>)
  BY DEF Adds
<1>4. \A x \in Actors, c \in Connections : Has(x, <<"unlock", c>>)' => lock'[c] = Operator /\ c \in Live'
  BY <1>2 DEF Connected, Live, Same
<1>5. \A x \in Actors, c \in Connections, t \in Terminals :
        Has(x, <<"send", c, t>>)' => connection'[t] = c
  BY <1>3 DEF Connected
<1>6. ASSUME NEW c \in Connections, NEW u \in ends'[c]
      PROVE  /\ connection'[u] = c /\ u \in Live'
             /\ Has(Collector, <<"delete", u>>)' => Has(Collector, <<"hangup", u>>)'
  <2>1. /\ u \in ends[c] /\ connection[u] = c /\ u \in Live
        /\ Has(Collector, <<"delete", u>>) => Has(Collector, <<"hangup", u>>)
    BY DEF Connected
  <2>2. u \in Terminals BY <2>1 DEF TypeOK
  <2> QED BY <1>1, <2>1, <2>2 DEF Live, Same
<1>7. \A u \in Terminals : connection'[u] # None =>
        /\ connection'[u] \in made' /\ u \in made'
        /\ \/ u \in ends'[connection'[u]] \/ u \in freed'
           \/ Has(Collector, <<"delete", u>>)' /\ ~Has(Collector, <<"hangup", u>>)'
  BY <1>1 DEF Connected, Same, TypeOK
<1>8. \A c \in Connections : c \in freed' => ends'[c] = {} BY DEF Connected, Same
<1> QED BY <1>4, <1>5, <1>6, <1>7, <1>8 DEF Connected

LEMMA KeptOwned ==
  ASSUME IInv, Adds({"dealloc", "bury"}), \A th \in exited : th \in Actors /\ Idle(th) => Idle(th)',
         Same(Ports), UNCHANGED <<owner, portList, exited, buried, garbage>>
  PROVE  Owned'
<1> USE IpcAssumption DEF IInv, Same
<1>0. Collector \in Actors /\ Threads \subseteq Actors BY DEF Actors
<1>1. \A th \in exited : Idle(th)' BY <1>0 DEF Owned, TypeOK
<1>2. \A x \in Actors, p \in Ports : Has(x, <<"dealloc", p>>)' =>
        /\ p \in Live' /\ p \in portList'[owner'[p]]
        /\ x = owner'[p] \/ (x = Collector /\ owner'[p] \in exited')
  BY DEF Adds, Owned, Live
<1>3. \A th \in Threads : th \in Range(garbage)' \/ Has(Collector, <<"bury", th>>)' => th \in exited'
  BY <1>0 DEF Adds, Owned
<1>4. \A th \in Threads : \A p \in portList'[th] :
        owner'[p] = th /\ p \in made' /\ (th \notin exited' => p \notin freed')
  BY DEF Owned, TypeOK
<1>5. \A p \in Ports \cap made' : p \in freed' \/ p \in portList'[owner'[p]] BY DEF Owned
<1>6. \A th \in buried' : \A p \in Ports \cap made' : owner'[p] = th => p \in freed' BY DEF Owned
<1> QED BY <1>1, <1>2, <1>3, <1>4, <1>5, <1>6 DEF Owned

LEMMA KeptAttached ==
  ASSUME IInv, Keeps({"dealloc", "sever", "cut"}),
         Same(Ports \cup Terminals), handed' \subseteq handed,
         UNCHANGED <<terminal, port, connection, reading>>
  PROVE  Attached'
<1> USE IpcAssumption DEF IInv
<1>1. \A x \in Actors : \A o : /\ Has(x, <<"dealloc", o>>)' <=> Has(x, <<"dealloc", o>>)
                               /\ Has(x, <<"sever", o>>)' <=> Has(x, <<"sever", o>>)
                               /\ Has(x, <<"cut", o>>)' <=> Has(x, <<"cut", o>>)
  BY DEF Keeps
<1>2. \A x \in Actors, p \in Ports : Has(x, <<"dealloc", p>>)' =>
        terminal'[p] = None \/ Has(x, <<"sever", p>>)'
  BY <1>1 DEF Attached
<1>3. \A x \in Actors, t \in Terminals, p \in Ports :
        Has(x, <<"cut", t>>)' /\ port'[t] = p => Has(x, <<"dealloc", p>>)'
  BY <1>1 DEF Attached
<1>4. \A t \in Terminals : t \in handed' \/ connection'[t] # None =>
        \/ port'[t] = None \/ terminal'[port'[t]] = t
        \/ \E x \in Actors : Has(x, <<"cut", t>>)'
  BY <1>1 DEF Attached
<1>5. \A p \in Ports : terminal'[p] # None =>
        port'[terminal'[p]] = p /\ p \in Live' /\ terminal'[p] \in made'
  BY DEF Attached, Live, Same, TypeOK
<1> QED BY <1>2, <1>3, <1>4, <1>5 DEF Attached

LEMMA KeptDelivered ==
  ASSUME IInv, Adds({"deliver", "hand"}), UNCHANGED <<connection, port, portLock>>
  PROVE  Delivered'
BY DEF IInv, Adds, Delivered

LEMMA KeptPending ==
  ASSUME IInv, Same(Ports), UNCHANGED <<owner, isQueued, pendingPorts, exited>>
  PROVE  PendingExact'
BY DEF IInv, PendingExact, Live, Same, TypeOK

\* The same for the counts and the form of the calls: a step that takes no reference, and
\* one that only drops the head of the work.
LEMMA KeptCounted ==
  ASSUME IInv, TypeOK', NEW x \in Actors, NEW s \in Seq(Steps), NEW R, Effect(x, R, s),
         \A t \in Terminals : Lost(x, t) = 0, \A i \in DOMAIN s : s[i][1] # "release",
         UNCHANGED <<retainCount, handed>>
  PROVE  Counted'
<1> USE DEF IInv
<1> SUFFICES ASSUME NEW u \in Terminals
             PROVE  IsFiniteSet(References(u)') /\ retainCount'[u] = Cardinality(References(u)')
  BY DEF Counted
<1>1. \A i \in DOMAIN s : s[i] # <<"release", u>> OBVIOUS
<1>2. retainCount'[u] = retainCount[u] - Lost(x, u) - Held(u) + Held(u)'
  BY DEF TypeOK, Held
<1>3. Becomes(x, s) BY DEF Effect
<1>4. TypeOK /\ TypeOK' /\ Counted OBVIOUS
<1> QED BY ONLY <1>1, <1>2, <1>3, <1>4, CountedLess, s \in Seq(Steps), x \in Actors, u \in Terminals

LEMMA KeptForm ==
  ASSUME IInv, NEW x \in Actors, NEW R, Effect(x, R, <<>>) PROVE Form'
<1>1. <<>> \in Seq(Steps) /\ DOMAIN <<>> = {} OBVIOUS
<1>2. \A i \in DOMAIN <<>> : StepFits(x, <<>>, i) OBVIOUS
<1> QED BY <1>1, <1>2, FormBecomes DEF IInv, Effect

\* Sequences: an element is appended, or one is removed from where it is.
LEMMA AppendRange ==
  ASSUME NEW S, NEW q \in Seq(S), NEW e \in S
  PROVE  /\ Append(q, e) \in Seq(S) /\ Range(Append(q, e)) = Range(q) \cup {e}
         /\ \A i \in DOMAIN Append(q, e) :
              \/ i \in DOMAIN q /\ Append(q, e)[i] = q[i]
              \/ i = Len(q) + 1 /\ Append(q, e)[i] = e
         /\ IsInjective(q) /\ e \notin Range(q) => IsInjective(Append(q, e))
<1>1. /\ Append(q, e) \in Seq(S) /\ DOMAIN q = 1..Len(q) /\ Len(q) \in Nat
      /\ DOMAIN Append(q, e) = 1..(Len(q) + 1) /\ Append(q, e)[Len(q) + 1] = e
      /\ \A i \in DOMAIN q : Append(q, e)[i] = q[i]
  OBVIOUS
<1>2. \A i \in DOMAIN Append(q, e) : i \in DOMAIN q \/ i = Len(q) + 1 BY <1>1
<1>3. DOMAIN q \subseteq DOMAIN Append(q, e) /\ Len(q) + 1 \in DOMAIN Append(q, e) BY <1>1
<1>4. Range(Append(q, e)) = Range(q) \cup {e} BY <1>1, <1>2, <1>3 DEF Range
<1>5. IsInjective(q) /\ e \notin Range(q) => IsInjective(Append(q, e))
  BY <1>1, <1>2 DEF IsInjective, Range
<1> QED BY <1>1, <1>2, <1>4, <1>5

LEMMA RemoveAtOne ==
  ASSUME NEW S, NEW q \in Seq(S), IsInjective(q), NEW i \in 1..Len(q)
  PROVE  /\ RemoveAt(q, i) \in Seq(S) /\ IsInjective(RemoveAt(q, i))
         /\ Range(RemoveAt(q, i)) = Range(q) \ {q[i]}
<1> DEFINE front == SubSeq(q, 1, i - 1)
           back  == SubSeq(q, i + 1, Len(q))
           r     == RemoveAt(q, i)
<1>f. front \in Seq(S) /\ Len(front) = i - 1 /\ \A j \in 1..(i - 1) : front[j] = q[j] OBVIOUS
<1>b. back \in Seq(S) /\ Len(back) = Len(q) - i /\ \A j \in 1..(Len(q) - i) : back[j] = q[j + i]
  OBVIOUS
<1>r. r = front \o back BY DEF RemoveAt
<1> HIDE DEF front, back, r
<1>1. r \in Seq(S) /\ Len(r) = Len(q) - 1 BY <1>f, <1>b, <1>r
<1>2. \A j \in 1..Len(r) : r[j] = IF j < i THEN q[j] ELSE q[j + 1]
  <2> SUFFICES ASSUME NEW j \in 1..Len(r) PROVE r[j] = IF j < i THEN q[j] ELSE q[j + 1]
    OBVIOUS
  <2>1. CASE j < i BY <2>1, <1>f, <1>b, <1>r
  <2>2. CASE j >= i
    <3>1. j - (i - 1) \in 1..Len(back) BY <2>2, <1>1, <1>b
    <3>2. r[j] = back[j - (i - 1)] BY <2>2, <3>1, <1>1, <1>f, <1>b, <1>r
    <3>3. back[j - (i - 1)] = q[j - (i - 1) + i] BY <3>1, <1>b
    <3>4. j - (i - 1) + i = j + 1 BY <1>1
    <3> QED BY <2>2, <3>2, <3>3, <3>4, <1>1
  <2> QED BY <2>1, <2>2, <1>1
<1>3. DOMAIN r = 1..Len(r) /\ DOMAIN q = 1..Len(q) BY <1>1
<1>4. IsInjective(r)
  <2> SUFFICES ASSUME NEW j \in 1..Len(r), NEW k \in 1..Len(r), r[j] = r[k] PROVE j = k
    BY <1>3 DEF IsInjective
  <2> DEFINE at(l) == IF l < i THEN l ELSE l + 1
  <2>1. at(j) \in 1..Len(q) /\ at(k) \in 1..Len(q) BY <1>1
  <2>2. q[at(j)] = q[at(k)] BY <1>2
  <2>3. at(j) = at(k) BY <2>1, <2>2, <1>3 DEF IsInjective
  <2> QED BY <2>3, <1>1
<1>5. \A j \in DOMAIN r : r[j] \in Range(q) /\ r[j] # q[i]
  <2> SUFFICES ASSUME NEW j \in 1..Len(r) PROVE r[j] \in Range(q) /\ r[j] # q[i]
    BY <1>3
  <2> DEFINE at == IF j < i THEN j ELSE j + 1
  <2>1. at \in 1..Len(q) /\ at # i BY <1>1
  <2>2. r[j] = q[at] BY <1>2
  <2> HIDE DEF at
  <2>3. q[at] # q[i] BY <1>3, <2>1 DEF IsInjective
  <2> QED BY <1>3, <2>1, <2>2, <2>3 DEF Range
<1>6. ASSUME NEW k \in DOMAIN q, k # i PROVE q[k] \in Range(r)
  <2>1. CASE k < i
    <3>1. k \in DOMAIN r /\ r[k] = q[k] BY <2>1, <1>1, <1>2, <1>3
    <3> QED BY <3>1 DEF Range
  <2>2. CASE k > i
    <3>1. k - 1 \in DOMAIN r /\ ~(k - 1 < i) /\ k - 1 + 1 = k BY <2>2, <1>1, <1>3
    <3>2. r[k - 1] = q[k] BY <3>1, <1>2, <1>3
    <3> QED BY <3>1, <3>2 DEF Range
  <2> QED BY <1>3, <1>6, <2>1, <2>2
<1>7. Range(r) = Range(q) \ {q[i]} BY <1>5, <1>6 DEF Range
<1> QED BY <1>1, <1>4, <1>7 DEF r

LEMMA UnlinkedOne ==
  ASSUME NEW S, NEW q \in Seq(S), IsInjective(q), NEW e \in Range(q)
  PROVE  /\ Unlinked(q, e) \in Seq(S) /\ IsInjective(Unlinked(q, e))
         /\ Range(Unlinked(q, e)) = Range(q) \ {e}
<1> DEFINE k == CHOOSE i \in DOMAIN q : q[i] = e
<1>1. k \in 1..Len(q) /\ q[k] = e BY DEF Range
<1> HIDE DEF k
<1>2. /\ RemoveAt(q, k) \in Seq(S) /\ IsInjective(RemoveAt(q, k))
      /\ Range(RemoveAt(q, k)) = Range(q) \ {e}
  BY <1>1, RemoveAtOne
<1> QED BY <1>2 DEF Unlinked, k

\* Release drops a reference; the last one of a severed terminal goes on to throw it away.
LEMMA ReleaseInv ==
  ASSUME IInv, NEW x \in Actors, NEW t \in Terminals, Release(x, t),
         UNCHANGED <<connection, connectionVars, freed, made, handed, threadVars>>
  PROVE  IInv'
<1> USE IpcAssumption DEF IInv
<1> DEFINE r == <<"release", t>>
           s == IF Closes(t) THEN <<<<"throw", t>>>> ELSE <<>>
<1>1. /\ Doing(x, r) /\ Then(x, s)
      /\ retainCount' = [retainCount EXCEPT ![t] = @ - 1]
      /\ UNCHANGED <<portVars, port, portLock, garbage>>
      /\ UNCHANGED <<connection, connectionVars, freed, made, handed, threadVars>>
  BY DEF Release
<1>2. <<"throw", t>> \in Steps BY DEF Steps
<1>3. s \in Seq(Steps) /\ DOMAIN s = (IF Closes(t) THEN {1} ELSE {}) /\ (Closes(t) => s[1] = <<"throw", t>>)
  BY <1>2
<1>4. Effect(x, {r}, s) BY <1>1, <1>3, ThenEffect
<1> HIDE DEF s
<1>5. Has(x, r) /\ Alive(t) /\ retainCount[t] > 0 /\ retainCount[t] \in Nat
  BY <1>1, Next1, UsedAlive DEF TypeOK
<1>7. TypeOK' BY <1>1, <1>4, <1>5 DEF TypeOK, portVars, connectionVars, threadVars, Effect
<1>8. Form'
  <2>1. \A i \in DOMAIN s : StepFits(x, s, i)
    <3>1. ASSUME NEW q, Later(x, q) PROVE q[1] # "throw" BY <3>1, <1>1, Next1 DEF LaterKinds
    <3> QED BY <1>3, <3>1 DEF StepFits, Uses, Later
  <2> QED BY <1>3, <1>4, <2>1, FormBecomes DEF Effect
<1>9. Counted'
  <2> SUFFICES ASSUME NEW u \in Terminals
               PROVE  IsFiniteSet(References(u)') /\ retainCount'[u] = Cardinality(References(u)')
    BY DEF Counted
  <2>1. \A i \in DOMAIN s : s[i] # <<"release", u>> BY <1>3
  <2>2. Lost(x, u) = IF u = t THEN 1 ELSE 0 BY <1>1 DEF Lost, Doing
  <2>3. retainCount'[u] = retainCount[u] - Lost(x, u) - Held(u) + Held(u)'
    BY <1>1, <2>2 DEF TypeOK, Held
  <2> QED BY <1>3, <1>4, <1>7, <2>1, <2>3, CountedLess DEF Effect
<1>0. Collector \in Actors /\ Threads \subseteq Actors BY DEF Actors
<1>c. /\ Keeps({"delete", "hangup", "unlock", "send", "dealloc", "sever", "cut", "bury", "deliver", "hand"})
      /\ \A th \in exited : th \in Actors /\ Idle(th) => Idle(th)'
  BY <1>3, <1>4, EffectKeeps
<1>d. \A y \in Actors, u \in Terminals : Has(y, <<"throw", u>>)' => Has(y, <<"throw", u>>) \/ (y = x /\ Closes(t) /\ u = t)
  BY <1>3, <1>4 DEF Effect
<1>10. ThrownDead' BY <1>0, <1>1, <1>5, <1>c, <1>d DEF Keeps, ThrownDead, Thrown, Closes, TypeOK, Alive, Live, portVars
<1>11. ThrownOnce'
  <2>1. ASSUME NEW u \in Terminals, NEW y \in Actors, Has(y, <<"throw", u>>)'
        PROVE  /\ u \notin freed \cup Range(garbage) /\ ~Has(Collector, <<"delete", u>>)
               /\ \A z \in Actors : Has(z, <<"throw", u>>)' => z = y
    <3>1. CASE u = t BY <1>5, <1>d, <2>1, <3>1 DEF Alive, Thrown
    <3>2. CASE u # t BY <1>d, <2>1, <3>2 DEF ThrownOnce
    <3> QED BY <3>1, <3>2
  <2> QED BY <1>0, <1>1, <1>c, <2>1 DEF Keeps, ThrownOnce
<1>12. Fresh' BY <1>1, <1>5 DEF Fresh, Alive, Live, TypeOK
<1>13. UNCHANGED <<terminal, isQueued, pendingPorts, owner, portList, exited, buried, reading, ends, lock>>
  BY <1>1 DEF portVars, connectionVars, threadVars
<1>14. /\ Adds({"unlock", "send"}) /\ Adds({"dealloc", "bury"}) /\ Adds({"deliver", "hand"})
       /\ Keeps({"delete", "hangup"}) /\ Keeps({"dealloc", "sever", "cut"})
  BY <1>c DEF Keeps, Adds
<1> QED BY <1>1, <1>7, <1>8, <1>9, <1>c, <1>10, <1>11, <1>12, <1>13, <1>14, KeptConnected, KeptOwned,
         KeptAttached, KeptDelivered, KeptPending DEF Same

\* The last reference is gone, so the terminal is thrown away once.
LEMMA ThrowAwayInv ==
  ASSUME IInv, NEW x \in Actors, NEW t \in Terminals, ThrowAway(x, t),
         UNCHANGED <<connection, connectionVars, freed, made, handed, threadVars>>
  PROVE  IInv'
<1> USE IpcAssumption DEF IInv
<1> DEFINE r == <<"throw", t>>
<1>0. Collector \in Actors /\ Threads \subseteq Actors BY DEF Actors
<1>1. /\ Doing(x, r) /\ Then(x, <<>>) /\ garbage' = Append(garbage, t)
      /\ UNCHANGED <<terminal, lastMessage, isQueued, pendingPorts, port, retainCount, portLock>>
      /\ UNCHANGED <<connection, ends, lock, freed, made, handed>>
      /\ UNCHANGED <<owner, portList, exited, buried, reading>>
  BY DEF ThrowAway, portVars, connectionVars, threadVars
<1>2. <<>> \in Seq(Steps) /\ DOMAIN <<>> = {} OBVIOUS
<1>3. Effect(x, {r}, <<>>) BY <1>1, <1>2, ThenEffect
<1>4. /\ garbage' \in Seq(Terminals \cup Threads) /\ Range(garbage)' = Range(garbage) \cup {t}
      /\ \A i \in DOMAIN garbage' :
           \/ i \in DOMAIN garbage /\ garbage'[i] = garbage[i]
           \/ i = Len(garbage) + 1 /\ garbage'[i] = t
  <2>1. garbage \in Seq(Terminals \cup Threads) /\ t \in Terminals \cup Threads BY DEF TypeOK
  <2>2. Range(garbage)' = Range(garbage') BY DEF Range
  <2> HIDE DEF IInv
  <2> QED BY <1>1, <2>1, <2>2, AppendRange
<1>5. TypeOK' BY <1>1, <1>3, <1>4 DEF TypeOK, Effect
<1>6. Form' BY <1>3, KeptForm
<1>7. Counted'
  <2>1. \A u \in Terminals : Lost(x, u) = 0 BY <1>1 DEF Lost, Doing
  <2> QED BY <1>1, <1>2, <1>3, <1>5, <2>1, KeptCounted
<1>8. Has(x, r) /\ ~Later(x, r)
  <2>1. r[1] = "throw" OBVIOUS
  <2> QED BY <1>1, <2>1, Next1 DEF LaterKinds
<1>9. /\ Keeps({"delete", "hangup", "unlock", "send", "dealloc", "sever", "cut", "bury", "deliver", "hand"})
      /\ Adds({"throw"}) /\ \A th \in exited : th \in Actors /\ Idle(th) => Idle(th)'
  BY <1>3, EffectKeeps
<1>10. \A y \in Actors, u \in Terminals : Has(y, <<"throw", u>>)' => Has(y, <<"throw", u>>) /\ u # t
  <2>1. \A y \in Actors, u \in Terminals : Has(y, <<"throw", u>>)' => Has(y, <<"throw", u>>)
    BY <1>9 DEF Adds
  <2>2. ~Has(x, r)' BY <1>2, <1>3, <1>8 DEF Effect
  <2>3. \A y \in Actors \ {x} : ~Has(y, r)' BY <1>8, <2>1 DEF ThrownOnce
  <2> QED BY <2>1, <2>2, <2>3
<1>11. ThrownDead' BY <1>0, <1>1, <1>4, <1>8, <1>9, <1>10 DEF Keeps, ThrownDead, Thrown
<1>12. ThrownOnce'
  <2>1. t \notin freed \cup Range(garbage) /\ ~Has(Collector, <<"delete", t>>)
    BY <1>8 DEF ThrownOnce
  <2>2. ASSUME NEW u \in Terminals, NEW i \in DOMAIN garbage', NEW j \in DOMAIN garbage',
               garbage'[i] = u, garbage'[j] = u
        PROVE  i = j
    <3>1. \A k \in DOMAIN garbage : garbage[k] # t BY <2>1 DEF Range
    <3>2. CASE u = t BY <1>4, <2>2, <3>1, <3>2
    <3>3. CASE u # t BY <1>4, <2>2, <3>3 DEF ThrownOnce
    <3> QED BY <3>2, <3>3
  <2>3. \A u \in Terminals : Has(Collector, <<"delete", u>>)' <=> Has(Collector, <<"delete", u>>)
    BY ONLY <1>0, <1>9 DEF Keeps
  <2>4. ThrownOnce OBVIOUS
  <2> QED BY ONLY <1>1, <1>4, <1>10, <2>1, <2>2, <2>3, <2>4 DEF ThrownOnce
<1>13. Owned'
  <2>1. \A th \in exited : Idle(th)' BY <1>0, <1>9 DEF Owned, TypeOK
  <2>2. \A th \in Threads : th \in Range(garbage)' => th \in Range(garbage)
    BY <1>4 DEF Objects
  <2>3. \A th \in Threads : th \in Range(garbage)' \/ Has(Collector, <<"bury", th>>)' => th \in exited'
    BY <1>0, <1>1, <1>9, <2>2 DEF Keeps, Owned
  <2>4. \A y \in Actors, p \in Ports : Has(y, <<"dealloc", p>>)' => Has(y, <<"dealloc", p>>)
    BY <1>9 DEF Keeps
  <2> QED BY <1>1, <2>1, <2>3, <2>4 DEF Owned, Live
<1>14. /\ Adds({"unlock", "send"}) /\ Adds({"deliver", "hand"})
       /\ Keeps({"delete", "hangup"}) /\ Keeps({"dealloc", "sever", "cut"})
  BY <1>9 DEF Keeps, Adds
<1> QED BY <1>1, <1>5, <1>6, <1>7, <1>11, <1>12, <1>13, <1>14, KeptFresh, KeptConnected,
         KeptAttached, KeptDelivered, KeptPending DEF Same

\* A delivery to a port goes on under portLock.
LEMMA DeliverInv ==
  ASSUME IInv, NEW x \in Actors, NEW t \in Terminals, NEW m \in Messages, Deliver(x, t, m),
         UNCHANGED <<connection, connectionVars, freed, made, handed, threadVars>>
  PROVE  IInv'
<1> USE IpcAssumption DEF IInv
<1> DEFINE r == <<"deliver", t, m>>
           s == IF port[t] = None THEN <<>> ELSE <<<<"hand", t, m>>>>
<1>0. Collector \in Actors /\ Threads \subseteq Actors BY DEF Actors
<1>1. /\ Doing(x, r) /\ Then(x, s) /\ portLock[t] = None
      /\ portLock' = IF port[t] = None THEN portLock ELSE [portLock EXCEPT ![t] = x]
      /\ UNCHANGED <<terminal, lastMessage, isQueued, pendingPorts, port, retainCount, garbage>>
      /\ UNCHANGED <<connection, ends, lock, freed, made, handed>>
      /\ UNCHANGED <<owner, portList, exited, buried, reading>>
  BY DEF Deliver, Free, portVars, connectionVars, threadVars
<1>2. <<"hand", t, m>> \in Steps BY DEF Steps
<1>3. /\ s \in Seq(Steps) /\ DOMAIN s = (IF port[t] = None THEN {} ELSE {1})
      /\ port[t] # None => s[1] = <<"hand", t, m>>
  BY <1>2
<1>4. Effect(x, {r}, s) BY <1>1, <1>3, ThenEffect
<1> HIDE DEF s
<1>5. TypeOK' BY <1>1, <1>4 DEF TypeOK, Effect
<1>6. /\ Has(x, r) /\ Later(x, <<"release", t>>)
      /\ \A q : Later(x, q) => q[1] # "hand"
  <2>1. r[1] \in Uses /\ r[2] = t BY DEF Uses
  <2> QED BY <1>1, <2>1, Next1 DEF LaterKinds
<1>7. Form'
  <2>1. \A i \in DOMAIN s : StepFits(x, s, i) BY <1>3, <1>6 DEF StepFits, Uses, Later
  <2> QED BY <1>3, <1>4, <2>1, FormBecomes DEF Effect
<1>8. Counted'
  <2>1. \A u \in Terminals : Lost(x, u) = 0 BY <1>1 DEF Lost, Doing
  <2>2. \A i \in DOMAIN s : s[i][1] # "release" BY <1>3
  <2> QED BY <1>1, <1>3, <1>4, <1>5, <2>1, <2>2, KeptCounted
<1>9. /\ Keeps({"delete", "throw", "hangup", "unlock", "send", "dealloc", "sever", "cut", "bury"})
      /\ Adds({"deliver"}) /\ \A th \in exited : th \in Actors /\ Idle(th) => Idle(th)'
  <2>1. \A i \in DOMAIN s : s[i][1] = "hand" BY <1>3
  <2> QED BY <1>4, <2>1, EffectKeeps
<1>10. Delivered'
  <2>1. connection[t] # None BY <1>6 DEF Delivered
  <2>2. \A y \in Actors, n \in Messages : ~Has(y, <<"hand", t, n>>)
    BY <1>1 DEF Delivered, Objects
  <2>3. \A y \in Actors, u \in Terminals, n \in Messages :
          Has(y, <<"hand", u, n>>)' => \/ u # t /\ Has(y, <<"hand", u, n>>)
                                       \/ u = t /\ y = x /\ port[t] # None
    BY <1>3, <1>4, <2>2 DEF Effect
  <2>4. \A y \in Actors, u \in Terminals, n \in Messages :
          Has(y, <<"deliver", u, n>>)' => Has(y, <<"deliver", u, n>>)
    BY <1>9 DEF Adds
  <2>5. \A u \in Terminals : portLock'[u] = IF u = t /\ port[t] # None THEN x ELSE portLock[u]
    BY <1>1 DEF TypeOK
  <2>6. \A y \in Actors, u \in Terminals, n \in Messages :
          Has(y, <<"hand", u, n>>)' => /\ portLock'[u] = y /\ port'[u] # None
                                       /\ connection'[u] # None
    BY <1>1, <2>1, <2>3, <2>5 DEF Delivered
  <2>7. \A y \in Actors, u \in Terminals, n \in Messages :
          Has(y, <<"deliver", u, n>>)' => connection'[u] # None
    BY <1>1, <2>4 DEF Delivered
  <2> QED BY <2>6, <2>7 DEF Delivered
<1>11. /\ Adds({"delete", "throw"}) /\ Adds({"unlock", "send"}) /\ Adds({"dealloc", "bury"})
       /\ Keeps({"delete", "hangup"}) /\ Keeps({"dealloc", "sever", "cut"})
  BY <1>9 DEF Keeps, Adds
<1> QED BY <1>1, <1>5, <1>7, <1>8, <1>9, <1>10, <1>11, KeptThrown, KeptFresh, KeptConnected,
         KeptOwned, KeptAttached, KeptPending DEF Same

\* Whoever sends through a terminal reads its connection first.
LEMMA ReadConnectionInv ==
  ASSUME IInv, NEW x \in Actors, NEW t \in Terminals, ReadConnection(x, t),
         UNCHANGED <<connection, connectionVars, freed, made, handed, threadVars>>
  PROVE  IInv'
<1> USE IpcAssumption DEF IInv
<1> DEFINE c == connection[t]
           r == <<"read", t>>
           s == IF c = None THEN <<>> ELSE <<<<"send", c, t>>>>
<1>0. Collector \in Actors BY DEF Actors
<1>1. /\ Doing(x, r) /\ Then(x, s)
      /\ UNCHANGED <<terminal, lastMessage, isQueued, pendingPorts, port, retainCount, portLock, garbage>>
      /\ UNCHANGED <<connection, ends, lock, freed, made, handed>>
      /\ UNCHANGED <<owner, portList, exited, buried, reading>>
  BY DEF ReadConnection, portVars, connectionVars, threadVars
<1>2. c # None => c \in Connections /\ <<"send", c, t>> \in Steps BY DEF Steps, TypeOK
<1>3. /\ s \in Seq(Steps) /\ DOMAIN s = (IF c = None THEN {} ELSE {1})
      /\ c # None => s[1] = <<"send", c, t>>
  BY <1>2
<1>4. Effect(x, {r}, s) BY <1>1, <1>3, ThenEffect
<1> HIDE DEF s
<1>5. TypeOK' BY <1>1, <1>4 DEF TypeOK, Effect
<1>6. Later(x, <<"release", t>>) /\ \A q : Later(x, q) => q[1] # "send"
  <2>1. r[1] \in Uses /\ r[2] = t BY DEF Uses
  <2> QED BY <1>1, <2>1, Next1 DEF LaterKinds
<1>7. Form'
  <2>1. \A i \in DOMAIN s : StepFits(x, s, i) BY <1>3, <1>6 DEF StepFits, Uses, Later
  <2> QED BY <1>3, <1>4, <2>1, FormBecomes DEF Effect
<1>8. Counted'
  <2>1. \A u \in Terminals : Lost(x, u) = 0 BY <1>1 DEF Lost, Doing
  <2>2. \A i \in DOMAIN s : s[i][1] # "release" BY <1>3
  <2> QED BY <1>1, <1>3, <1>4, <1>5, <2>1, <2>2, KeptCounted
<1>9. /\ Keeps({"delete", "throw", "hangup", "unlock", "dealloc", "sever", "cut", "bury", "deliver", "hand"})
      /\ \A th \in exited : th \in Actors /\ Idle(th) => Idle(th)'
  <2>1. \A i \in DOMAIN s : s[i][1] = "send" BY <1>3
  <2> QED BY <1>4, <2>1, EffectKeeps
<1>10. \A y \in Actors, d \in Connections, u \in Terminals :
         Has(y, <<"send", d, u>>)' => Has(y, <<"send", d, u>>) \/ (u = t /\ d = connection[u])
  <2>1. \A d, u : <<"send", d, u>>[2] = d /\ <<"send", d, u>>[3] = u OBVIOUS
  <2>2. \A i \in DOMAIN s : s[i][2] = connection[t] /\ s[i][3] = t BY <1>3
  <2>3. \A i \in DOMAIN s : \A d, u : s[i] = <<"send", d, u>> => u = t /\ d = connection[u]
    BY <2>1, <2>2
  <2> QED BY <1>4, <2>3 DEF Effect
<1>11. Connected'
  <2>1. \A u : /\ Has(Collector, <<"delete", u>>)' <=> Has(Collector, <<"delete", u>>)
               /\ Has(Collector, <<"hangup", u>>)' <=> Has(Collector, <<"hangup", u>>)
    BY <1>9, <1>0 DEF Keeps
  <2>2. \A y \in Actors, d \in Connections : Has(y, <<"unlock", d>>)' => Has(y, <<"unlock", d>>)
    BY <1>9 DEF Keeps
  <2> QED BY <1>1, <1>10, <2>1, <2>2 DEF Connected, Live
<1>12. /\ Adds({"delete", "throw"}) /\ Adds({"dealloc", "bury"}) /\ Adds({"deliver", "hand"})
       /\ Keeps({"dealloc", "sever", "cut"})
  BY <1>9 DEF Keeps, Adds
<1> QED BY <1>1, <1>5, <1>7, <1>8, <1>9, <1>11, <1>12, KeptThrown, KeptFresh, KeptOwned,
         KeptAttached, KeptDelivered, KeptPending DEF Same

\* A terminal is cut off from its port after the port has let go of it.
LEMMA CutInv ==
  ASSUME IInv, NEW x \in Actors, NEW t \in Terminals, Cut(x, t),
         UNCHANGED <<connection, connectionVars, freed, made, handed, threadVars>>
  PROVE  IInv'
<1> USE IpcAssumption DEF IInv
<1> DEFINE r == <<"cut", t>>
<1>0. Collector \in Actors /\ Threads \subseteq Actors BY DEF Actors
<1>1. /\ Doing(x, r) /\ Then(x, <<>>) /\ portLock[t] = None
      /\ port' = [port EXCEPT ![t] = None]
      /\ UNCHANGED <<terminal, lastMessage, isQueued, pendingPorts, retainCount, portLock, garbage>>
      /\ UNCHANGED <<connection, ends, lock, freed, made, handed>>
      /\ UNCHANGED <<owner, portList, exited, buried, reading>>
  BY DEF Cut, Free, portVars, connectionVars, threadVars
<1>2. <<>> \in Seq(Steps) /\ DOMAIN <<>> = {} OBVIOUS
<1>3. Effect(x, {r}, <<>>) BY <1>1, <1>2, ThenEffect
<1>4. TypeOK' BY <1>1, <1>3 DEF TypeOK, Effect
<1>5. /\ \A u \in Terminals : u # t => port'[u] = port[u]
      /\ port'[t] = None
  BY <1>1 DEF TypeOK
<1>6. Form' BY <1>3, KeptForm
<1>7. Counted'
  <2>1. \A u \in Terminals : Lost(x, u) = 0 BY <1>1 DEF Lost, Doing
  <2> QED BY <1>1, <1>2, <1>3, <1>4, <2>1, KeptCounted
<1>8. Has(x, r) /\ (\A q : Has(x, q) => q = r \/ q[1] \in LaterKinds)
  <2>1. Has(x, r) /\ \A q : Later(x, q) => q[1] \in LaterKinds BY <1>1, Next1
  <2>2. \A q : Has(x, q) <=> Later(x, q) \/ q = r BY <1>3 DEF Effect
  <2> QED BY <2>1, <2>2
<1>9. /\ Keeps({"delete", "throw", "hangup", "unlock", "send", "dealloc", "sever", "bury", "deliver", "hand"})
      /\ Adds({"cut"}) /\ \A th \in exited : th \in Actors /\ Idle(th) => Idle(th)'
  BY <1>3, EffectKeeps
<1>10. \A p \in Ports : terminal[p] # t
  <2> SUFFICES ASSUME NEW p \in Ports, terminal[p] = t PROVE FALSE OBVIOUS
  <2>1. port[t] = p BY DEF Attached, Objects
  <2>2. Has(x, <<"dealloc", p>>) BY <1>8, <2>1 DEF Attached
  <2>3. Has(x, <<"sever", p>>) BY <2>2 DEF Attached, Objects
  <2>4. <<"sever", p>> # r /\ <<"sever", p>>[1] \notin LaterKinds BY DEF LaterKinds
  <2> QED BY <1>8, <2>3, <2>4
<1>11. Attached'
  <2>1. \A y \in Actors : \A o : /\ Has(y, <<"dealloc", o>>)' <=> Has(y, <<"dealloc", o>>)
                                 /\ Has(y, <<"sever", o>>)' <=> Has(y, <<"sever", o>>)
                                 /\ Has(y, <<"cut", o>>)' => Has(y, <<"cut", o>>)
    BY <1>9 DEF Keeps, Adds
  <2>2. \A y \in Actors, u \in Terminals : u # t /\ Has(y, <<"cut", u>>) => Has(y, <<"cut", u>>)'
    BY <1>3 DEF Effect
  <2>3. \A p \in Ports : terminal'[p] # None =>
          port'[terminal'[p]] = p /\ p \in Live' /\ terminal'[p] \in made'
    BY <1>1, <1>5, <1>10 DEF Attached, Live, TypeOK
  <2>4. \A y \in Actors, p \in Ports : Has(y, <<"dealloc", p>>)' =>
          terminal'[p] = None \/ Has(y, <<"sever", p>>)'
    BY <1>1, <2>1 DEF Attached
  <2>5. \A y \in Actors, u \in Terminals, p \in Ports :
          Has(y, <<"cut", u>>)' /\ port'[u] = p => Has(y, <<"dealloc", p>>)'
    BY <1>5, <2>1 DEF Attached, Objects
  <2>6. \A u \in Terminals : u \in handed' \/ connection'[u] # None =>
          \/ port'[u] = None \/ terminal'[port'[u]] = u
          \/ \E y \in Actors : Has(y, <<"cut", u>>)'
    BY <1>1, <1>5, <2>2 DEF Attached
  <2> QED BY <1>1, <2>3, <2>4, <2>5, <2>6 DEF Attached
<1>12. Delivered'
  <2>1. \A y \in Actors, n \in Messages : ~Has(y, <<"hand", t, n>>) BY <1>1 DEF Delivered, Objects
  <2>2. \A y \in Actors, u \in Terminals, n \in Messages :
          /\ Has(y, <<"hand", u, n>>)' <=> Has(y, <<"hand", u, n>>)
          /\ Has(y, <<"deliver", u, n>>)' <=> Has(y, <<"deliver", u, n>>)
    BY <1>9 DEF Keeps
  <2>3. ASSUME NEW y \in Actors, NEW u \in Terminals, NEW n \in Messages
        PROVE  /\ Has(y, <<"deliver", u, n>>) \/ Has(y, <<"hand", u, n>>) => connection[u] # None
               /\ Has(y, <<"hand", u, n>>) => portLock[u] = y /\ port'[u] # None
    BY <1>5, <2>1 DEF Delivered
  <2>4. UNCHANGED <<connection, portLock>> BY <1>1
  <2> QED BY ONLY <2>2, <2>3, <2>4 DEF Delivered
<1>13. ThrownDead'
  <2>1. \A u \in Terminals : Thrown(u)' => Thrown(u) BY <1>0, <1>1, <1>9 DEF Keeps, Thrown
  <2> QED BY <1>1, <1>5, <2>1 DEF ThrownDead
<1>14. ThrownOnce' BY <1>0, <1>1, <1>9 DEF Keeps, ThrownOnce
<1>15. Fresh' BY <1>1, <1>5 DEF Fresh
<1>16. /\ Adds({"unlock", "send"}) /\ Adds({"dealloc", "bury"}) /\ Keeps({"delete", "hangup"})
  BY <1>9 DEF Keeps, Adds
<1> QED BY <1>1, <1>4, <1>6, <1>7, <1>9, <1>11, <1>12, <1>13, <1>14, <1>15, <1>16,
         KeptConnected, KeptOwned, KeptPending DEF Same

\* The port's thread finds the port in its poll state.
LEMMA SendToThisInv ==
  ASSUME IInv, NEW x \in Actors, NEW t \in Terminals, NEW m \in Messages, SendToThis(x, t, m),
         UNCHANGED <<connection, connectionVars, freed, made, handed, threadVars>>
  PROVE  IInv'
<1> USE IpcAssumption DEF IInv
<1> DEFINE r == <<"hand", t, m>>
           p == port[t]
<1>0. Collector \in Actors /\ Threads \subseteq Actors BY DEF Actors
<1>1. /\ Doing(x, r) /\ Then(x, <<>>)
      /\ lastMessage' = [lastMessage EXCEPT ![p] = m] /\ AddToPending(p)
      /\ portLock' = [portLock EXCEPT ![t] = None]
      /\ UNCHANGED <<terminal, port, retainCount, garbage>>
      /\ UNCHANGED <<connection, ends, lock, freed, made, handed>>
      /\ UNCHANGED <<owner, portList, exited, buried, reading>>
  BY DEF SendToThis, connectionVars, threadVars
<1>2. <<>> \in Seq(Steps) /\ DOMAIN <<>> = {} OBVIOUS
<1>3. Effect(x, {r}, <<>>) BY <1>1, <1>2, ThenEffect
<1>4. Has(x, r) /\ \A q : Later(x, q) => q[1] # "hand" BY <1>1, Next1 DEF LaterKinds
<1>5. portLock[t] = x /\ p \in Ports /\ connection[t] # None
  <2>1. portLock[t] = x /\ port[t] # None /\ connection[t] # None BY <1>4 DEF Delivered
  <2> QED BY <2>1 DEF TypeOK
<1>6. p \in Live
  <2>1. CASE terminal[p] = t BY <1>5, <2>1 DEF Attached, Objects
  <2>2. CASE \E y \in Actors : Has(y, <<"cut", t>>)
    <3>1. PICK y \in Actors : Has(y, <<"cut", t>>) BY <2>2
    <3>2. Has(y, <<"dealloc", p>>) BY <1>5, <3>1 DEF Attached
    <3> QED BY <1>5, <3>2 DEF Owned
  <2> QED BY <1>5, <2>1, <2>2 DEF Attached, Objects
<1>7. /\ isQueued' = isQueued \cup {p} /\ owner[p] \in Threads
      /\ pendingPorts' = IF p \in isQueued THEN pendingPorts
                         ELSE [pendingPorts EXCEPT ![owner[p]] = Append(pendingPorts[owner[p]], p)]
  BY <1>1, <1>5 DEF AddToPending, TypeOK
<1> HIDE DEF p
<1>8. /\ Append(pendingPorts[owner[p]], p) \in Seq(Ports)
      /\ Range(Append(pendingPorts[owner[p]], p)) = Range(pendingPorts[owner[p]]) \cup {p}
      /\ IsInjective(pendingPorts[owner[p]]) /\ p \notin Range(pendingPorts[owner[p]]) =>
           IsInjective(Append(pendingPorts[owner[p]], p))
  <2>1. pendingPorts[owner[p]] \in Seq(Ports) BY <1>7 DEF TypeOK
  <2> QED BY <1>5, <2>1, AppendRange
<1>9. pendingPorts' \in [Threads -> Seq(Ports)] BY <1>7, <1>8 DEF TypeOK
<1>10. TypeOK' BY <1>1, <1>3, <1>5, <1>7, <1>9 DEF TypeOK, Effect
<1>11. PendingExact'
  <2> SUFFICES ASSUME NEW th \in Threads \ exited
               PROVE  /\ Range(pendingPorts'[th]) = {q \in isQueued' : owner[q] = th}
                      /\ Range(pendingPorts'[th]) \subseteq Live /\ IsInjective(pendingPorts'[th])
    BY <1>1 DEF PendingExact, Live, Range, IsInjective
  <2>1. /\ Range(pendingPorts[th]) = {q \in isQueued : owner[q] = th}
        /\ Range(pendingPorts[th]) \subseteq Live /\ IsInjective(pendingPorts[th])
    BY DEF PendingExact
  <2>2. CASE th # owner[p] \/ p \in isQueued
    <3>1. pendingPorts'[th] = pendingPorts[th] BY <1>7, <2>2 DEF TypeOK
    <3>2. {q \in isQueued' : owner[q] = th} = {q \in isQueued : owner[q] = th} BY <1>7, <2>2
    <3> QED BY <2>1, <3>1, <3>2
  <2>3. CASE th = owner[p] /\ p \notin isQueued
    <3>1. pendingPorts'[th] = Append(pendingPorts[owner[p]], p) BY <1>7, <2>3 DEF TypeOK
    <3>2. {q \in isQueued' : owner[q] = th} = {q \in isQueued : owner[q] = th} \cup {p}
      BY <1>7, <2>3
    <3>3. p \notin Range(pendingPorts[owner[p]]) BY <2>1, <2>3
    <3> QED BY <1>6, <1>8, <2>1, <2>3, <3>1, <3>2, <3>3
  <2> QED BY <2>2, <2>3
<1>12. Form' BY <1>3, KeptForm
<1>13. Counted'
  <2>1. \A u \in Terminals : Lost(x, u) = 0 BY <1>1 DEF Lost, Doing
  <2> QED BY <1>1, <1>2, <1>3, <1>10, <2>1, KeptCounted
<1>14. /\ Keeps({"delete", "throw", "hangup", "unlock", "send", "dealloc", "sever", "cut", "bury", "deliver"})
       /\ Adds({"hand"}) /\ \A th \in exited : th \in Actors /\ Idle(th) => Idle(th)'
  BY <1>3, EffectKeeps
<1>15. Delivered'
  <2>1. \A y \in Actors, n \in Messages : ~Has(y, <<"hand", t, n>>)'
    <3> SUFFICES ASSUME NEW y \in Actors, NEW n \in Messages, Has(y, <<"hand", t, n>>)' PROVE FALSE
      OBVIOUS
    <3>1. Has(y, <<"hand", t, n>>) BY <1>14 DEF Adds
    <3>2. y = x BY <1>5, <3>1 DEF Delivered
    <3>3. Later(x, <<"hand", t, n>>) BY <1>3, <3>2 DEF Effect
    <3> QED BY <1>4, <3>3
  <2>2. \A u \in Terminals : u # t => portLock'[u] = portLock[u] BY <1>1 DEF TypeOK
  <2>3. \A y \in Actors, u \in Terminals, n \in Messages :
          /\ Has(y, <<"hand", u, n>>)' => Has(y, <<"hand", u, n>>)
          /\ Has(y, <<"deliver", u, n>>)' => Has(y, <<"deliver", u, n>>)
    BY <1>14 DEF Adds, Keeps
  <2>4. ASSUME NEW y \in Actors, NEW u \in Terminals, NEW n \in Messages
        PROVE  /\ Has(y, <<"deliver", u, n>>)' \/ Has(y, <<"hand", u, n>>)' => connection[u] # None
               /\ Has(y, <<"hand", u, n>>)' => portLock'[u] = y /\ port[u] # None
    BY <2>1, <2>2, <2>3 DEF Delivered
  <2> QED BY <1>1, <2>4 DEF Delivered
<1>16. /\ Adds({"delete", "throw"}) /\ Adds({"unlock", "send"}) /\ Adds({"dealloc", "bury"})
       /\ Keeps({"delete", "hangup"}) /\ Keeps({"dealloc", "sever", "cut"})
  BY <1>14 DEF Keeps, Adds
<1> QED BY <1>1, <1>10, <1>11, <1>12, <1>13, <1>14, <1>15, <1>16, KeptThrown, KeptFresh,
         KeptConnected, KeptOwned, KeptAttached DEF Same

LEMMA TerminalStepInv ==
  ASSUME IInv, NEW x \in Actors, NEW t \in Terminals, TerminalStep(x, t) PROVE IInv'
<1>1. UNCHANGED <<connection, connectionVars, freed, made, handed, threadVars>> BY DEF TerminalStep
<1>2. CASE Release(x, t) BY <1>1, <1>2, ReleaseInv
<1>3. CASE ThrowAway(x, t) BY <1>1, <1>3, ThrowAwayInv
<1>4. CASE Cut(x, t) BY <1>1, <1>4, CutInv
<1>5. CASE ReadConnection(x, t) BY <1>1, <1>5, ReadConnectionInv
<1>6. ASSUME NEW m \in Messages, Deliver(x, t, m) PROVE IInv' BY <1>1, <1>6, DeliverInv
<1>7. ASSUME NEW m \in Messages, SendToThis(x, t, m) PROVE IInv' BY <1>1, <1>7, SendToThisInv
<1> QED BY <1>2, <1>3, <1>4, <1>5, <1>6, <1>7 DEF TerminalStep

-----------------------------------------------------------------------------
(* Connections.                                                            *)

\* What Forward does: it passes the message to the other end s[2], which it retains, or
\* does nothing.
Passes(others, m, s) ==
  /\ s \in Seq(Steps)
  /\ \/ \E o \in others :
          /\ port[o] # None /\ retainCount' = [retainCount EXCEPT ![o] = @ + 1]
          /\ DOMAIN s = {1, 2} /\ Len(s) = 2
          /\ s[1] = <<"deliver", o, m>> /\ s[2] = <<"release", o>>
     \/ DOMAIN s = {} /\ retainCount' = retainCount
LEMMA ForwardPasses ==
  ASSUME IInv, NEW x \in Actors, NEW r, Doing(x, r), NEW others \in SUBSET Terminals,
         NEW m \in Messages, Forward(x, others, m)
  PROVE  \E s : Passes(others, m, s) /\ Effect(x, {r}, s)
<1>1. ASSUME NEW o \in others, Retains(o), CountUp(o), Then(x, Pass(o, m))
      PROVE  Passes(others, m, Pass(o, m)) /\ Effect(x, {r}, Pass(o, m))
  <2>1. <<"deliver", o, m>> \in Steps /\ <<"release", o>> \in Steps BY DEF Steps
  <2>2. Pass(o, m) \in Seq(Steps) BY <2>1 DEF Pass
  <2>3. /\ DOMAIN Pass(o, m) = {1, 2} /\ Len(Pass(o, m)) = 2
        /\ Pass(o, m)[1] = <<"deliver", o, m>> /\ Pass(o, m)[2] = <<"release", o>>
    BY DEF Pass
  <2> QED BY <1>1, <2>2, <2>3, ThenEffect DEF Passes, CountUp, Retains
<1>2. ASSUME Then(x, <<>>), UNCHANGED retainCount
      PROVE  Passes(others, m, <<>>) /\ Effect(x, {r}, <<>>)
  <2>1. <<>> \in Seq(Steps) /\ DOMAIN <<>> = {} OBVIOUS
  <2> QED BY <1>2, <2>1, ThenEffect DEF Passes
<1> QED BY <1>1, <1>2 DEF Forward

LEMMA PassesTyped ==
  ASSUME IInv, NEW others \in SUBSET Terminals, NEW m, NEW s, Passes(others, m, s)
  PROVE  retainCount' \in [Terminals -> Nat]
<1>1. retainCount \in [Terminals -> Nat] BY DEF IInv, TypeOK
<1>2. ASSUME NEW o \in others, retainCount' = [retainCount EXCEPT ![o] = @ + 1]
      PROVE  retainCount' \in [Terminals -> Nat]
  BY <1>1, <1>2
<1>3. CASE retainCount' = retainCount BY <1>1, <1>3
<1> QED BY <1>2, <1>3 DEF Passes

\* What it keeps, whatever it is called for.
LEMMA Forwarded ==
  ASSUME IInv, TypeOK', NEW x \in Actors, NEW r, Doing(x, r), r[1] \in {"send", "hangup"},
         NEW others \in SUBSET Terminals, \A o \in others : connection[o] # None,
         NEW m \in Messages, NEW s, Passes(others, m, s), Effect(x, {r}, s),
         Same(Ports \cup Terminals),
         UNCHANGED <<portVars, port, connection, portLock, handed, threadVars, garbage>>
  PROVE  /\ Form' /\ Counted' /\ ThrownDead' /\ ThrownOnce' /\ Fresh'
         /\ Owned' /\ Attached' /\ Delivered' /\ PendingExact'
<1> USE IpcAssumption DEF IInv
<1>1. s \in Seq(Steps) BY DEF Passes
<1>2. UNCHANGED <<terminal, isQueued, pendingPorts, owner, portList, exited, buried, reading>>
  BY DEF portVars, threadVars
<1>3. \A i \in DOMAIN s : \E o \in others :
        /\ i \in {1, 2} /\ DOMAIN s = {1, 2} /\ Len(s) = 2
        /\ s[1] = <<"deliver", o, m>> /\ s[2] = <<"release", o>>
  BY DEF Passes
<1>4. \A i \in DOMAIN s : s[i][1] \in {"deliver", "release"} BY <1>3
<1>5. Form'
  <2>1. \A i \in DOMAIN s : StepFits(x, s, i) BY <1>3 DEF StepFits, Uses, LaterKinds
  <2> QED BY <1>1, <2>1, FormBecomes DEF Effect
<1>6. Counted'
  <2> SUFFICES ASSUME NEW u \in Terminals
               PROVE  IsFiniteSet(References(u)') /\ retainCount'[u] = Cardinality(References(u)')
    BY DEF Counted
  <2>1. Lost(x, u) = 0
    <3>1. <<"release", u>>[1] \notin {"send", "hangup"} OBVIOUS
    <3> QED BY <3>1 DEF Lost, Doing
  <2>2. retainCount[u] \in Nat /\ Held(u)' = Held(u) /\ Held(u) \in Nat BY DEF TypeOK, Held
  <2>3. Becomes(x, s) BY DEF Effect
  <2>4. CASE \E o \in others :
               /\ port[o] # None /\ retainCount' = [retainCount EXCEPT ![o] = @ + 1]
               /\ DOMAIN s = {1, 2} /\ Len(s) = 2
               /\ s[1] = <<"deliver", o, m>> /\ s[2] = <<"release", o>>
    <3>1. PICK o \in others :
            /\ port[o] # None /\ retainCount' = [retainCount EXCEPT ![o] = @ + 1]
            /\ DOMAIN s = {1, 2} /\ Len(s) = 2
            /\ s[1] = <<"deliver", o, m>> /\ s[2] = <<"release", o>>
      BY <2>4
    <3>2. s[1][1] # "release" /\ s[2] = <<"release", o>> BY <3>1
    <3>3. CASE u = o
      <4>1. \A i \in DOMAIN s : s[i] = <<"release", u>> <=> i = 2 BY <3>1, <3>2, <3>3
      <4>2. retainCount'[u] = retainCount[u] - Lost(x, u) + 1 - Held(u) + Held(u)'
        BY <2>1, <2>2, <3>1, <3>3 DEF TypeOK
      <4>3. 2 \in DOMAIN s BY <3>1
      <4> QED BY <1>1, <2>3, <4>1, <4>2, <4>3, CountedMore
    <3>4. CASE u # o
      <4>1. \A i \in DOMAIN s : s[i] # <<"release", u>> BY <3>1, <3>2, <3>4
      <4>2. retainCount'[u] = retainCount[u] - Lost(x, u) - Held(u) + Held(u)'
        BY <2>1, <2>2, <3>1, <3>4 DEF TypeOK
      <4> QED BY <1>1, <2>3, <4>1, <4>2, CountedLess
    <3> QED BY <3>3, <3>4
  <2>5. CASE DOMAIN s = {} /\ retainCount' = retainCount
    <3>1. \A i \in DOMAIN s : s[i] # <<"release", u>> BY <2>5
    <3>2. retainCount'[u] = retainCount[u] - Lost(x, u) - Held(u) + Held(u)'
      BY <2>1, <2>2, <2>5
    <3> QED BY <1>1, <2>3, <3>1, <3>2, CountedLess
  <2> QED BY <2>4, <2>5 DEF Passes
<1>7. /\ Keeps({"delete", "throw", "unlock", "dealloc", "sever", "cut", "bury", "hand"})
      /\ \A th \in exited : th \in Actors /\ Idle(th) => Idle(th)'
  BY <1>4, EffectKeeps
<1>8. \A u \in Terminals : retainCount'[u] # retainCount[u] => u \in others /\ port[u] # None
  BY DEF Passes, TypeOK
<1>0. Collector \in Actors BY DEF Actors
<1>9. \A u \in Terminals : Thrown(u)' <=> Thrown(u) BY <1>0, <1>7 DEF Thrown, Keeps, Same
<1>10. ThrownDead' BY <1>8, <1>9 DEF ThrownDead, Same
<1>11. ThrownOnce'
  <2>1. \A u : Has(Collector, <<"delete", u>>)' <=> Has(Collector, <<"delete", u>>)
    BY <1>0, <1>7 DEF Keeps
  <2>2. \A y \in Actors : \A u : Has(y, <<"throw", u>>)' <=> Has(y, <<"throw", u>>)
    BY <1>7 DEF Keeps
  <2> QED BY <2>1, <2>2 DEF ThrownOnce, Same
<1>12. Fresh' BY <1>8 DEF Fresh, Same
<1>13. Delivered'
  <2>1. \A y \in Actors, u \in Terminals, n \in Messages :
          Has(y, <<"deliver", u, n>>)' => Has(y, <<"deliver", u, n>>) \/ u \in others
    <3> SUFFICES ASSUME NEW y \in Actors, NEW u \in Terminals, NEW n \in Messages,
                        Has(y, <<"deliver", u, n>>)', ~Has(y, <<"deliver", u, n>>)
                 PROVE  u \in others
      OBVIOUS
    <3>1. PICK i \in DOMAIN s : s[i] = <<"deliver", u, n>> BY DEF Effect
    <3>2. PICK o \in others : /\ i \in {1, 2} /\ s[1] = <<"deliver", o, m>>
                              /\ s[2] = <<"release", o>>
      BY <1>3
    <3>3. s[i][1] = "deliver" /\ s[2][1] = "release" BY <3>1, <3>2
    <3>4. i = 1 BY <3>2, <3>3
    <3> QED BY <3>1, <3>2, <3>4
  <2>2. \A y \in Actors, u \in Terminals, n \in Messages :
          Has(y, <<"hand", u, n>>)' => Has(y, <<"hand", u, n>>)
    BY <1>7 DEF Keeps
  <2>3. ASSUME NEW y \in Actors, NEW u \in Terminals, NEW n \in Messages
        PROVE  /\ Has(y, <<"deliver", u, n>>)' => connection[u] # None
               /\ Has(y, <<"hand", u, n>>)' => connection[u] # None /\ portLock[u] = y /\ port[u] # None
    BY <2>1, <2>2 DEF Delivered
  <2> QED BY <2>3 DEF Delivered
<1>14. Adds({"dealloc", "bury"}) /\ Keeps({"dealloc", "sever", "cut"}) BY <1>7 DEF Keeps, Adds
<1>15. Owned' /\ PendingExact'
  BY <1>2, <1>7, <1>14, KeptOwned, KeptPending DEF Same
<1>16. Attached' BY <1>2, <1>14, KeptAttached
<1> QED BY <1>5, <1>6, <1>10, <1>11, <1>12, <1>13, <1>15, <1>16

LEMMA SendToRemoteInv ==
  ASSUME IInv, NEW x \in Actors, NEW c \in Connections, NEW t \in Terminals, SendToRemote(x, c, t),
         UNCHANGED <<portVars, port, connection, portLock, made, handed, threadVars, garbage>>
  PROVE  IInv'
<1> USE IpcAssumption DEF IInv
<1> DEFINE r == <<"send", c, t>>
           others == ends[c] \ {t}
<1>1. /\ Doing(x, r) /\ Forward(x, others, "data")
      /\ UNCHANGED <<ends, lock, freed, terminal, lastMessage, isQueued, pendingPorts,
                     owner, portList, exited, buried, reading>>
  BY DEF SendToRemote, connectionVars, portVars, threadVars
<1>2. others \in SUBSET Terminals /\ \A o \in others : connection[o] # None
  <2>1. ends[c] \in SUBSET Terminals /\ c # None BY DEF TypeOK, Objects
  <2>2. \A o \in ends[c] : connection[o] = c BY DEF Connected
  <2> QED BY <2>1, <2>2
<1> HIDE DEF others
<1>3. PICK s : Passes(others, "data", s) /\ Effect(x, {r}, s)
  BY <1>1, <1>2, ForwardPasses DEF Messages
<1>4. TypeOK'
  <2>1. retainCount' \in [Terminals -> Nat] BY <1>2, <1>3, PassesTyped
  <2>2. work' \in [Actors -> Seq(Steps)] BY <1>3 DEF Effect
  <2> QED BY <1>1, <2>1, <2>2 DEF TypeOK
<1>5. Same(Ports \cup Terminals) /\ Same(Terminals \cup Connections) BY <1>1 DEF Same
<1>6. /\ Form' /\ Counted' /\ ThrownDead' /\ ThrownOnce' /\ Fresh'
      /\ Owned' /\ Attached' /\ Delivered' /\ PendingExact'
  <2>1. r[1] \in {"send", "hangup"} OBVIOUS
  <2> QED BY <1>1, <1>2, <1>3, <1>4, <1>5, <2>1, Forwarded DEF Messages
<1>7. Connected'
  <2>1. \A i \in DOMAIN s : s[i][1] \in {"deliver", "release"} BY <1>3 DEF Passes
  <2>2. Keeps({"delete", "hangup", "unlock"}) /\ Adds({"send"}) BY <1>3, <2>1, EffectKeeps
  <2>3. Keeps({"delete", "hangup"}) /\ Adds({"unlock", "send"}) BY <2>2 DEF Keeps, Adds
  <2> QED BY <1>1, <1>5, <2>3, KeptConnected
<1> QED BY <1>4, <1>6, <1>7

\* The operator has the connection's lock until it has said that the call is open.
LEMMA UnlockInv ==
  ASSUME IInv, NEW x \in Actors, NEW c \in Connections, Unlock(x, c),
         UNCHANGED <<portVars, port, connection, portLock, made, handed, threadVars, garbage>>
  PROVE  IInv'
<1> USE IpcAssumption DEF IInv
<1> DEFINE r == <<"unlock", c>>
<1>0. Collector \in Actors /\ Threads \subseteq Actors BY DEF Actors
<1>1. /\ Doing(x, r) /\ Then(x, <<>>) /\ lock' = [lock EXCEPT ![c] = None]
      /\ UNCHANGED <<port, retainCount, connection, portLock, ends, freed, made, handed, garbage>>
      /\ UNCHANGED <<terminal, lastMessage, isQueued, pendingPorts,
                     owner, portList, exited, buried, reading>>
  BY DEF Unlock, connectionVars, portVars, threadVars
<1>2. <<>> \in Seq(Steps) /\ DOMAIN <<>> = {} OBVIOUS
<1>3. Effect(x, {r}, <<>>) BY <1>1, <1>2, ThenEffect
<1>4. TypeOK' BY <1>1, <1>3 DEF TypeOK, Effect
<1>5. Form' BY <1>3, KeptForm
<1>6. Counted'
  <2>1. \A u \in Terminals : Lost(x, u) = 0 BY <1>1 DEF Lost, Doing
  <2> QED BY <1>1, <1>2, <1>3, <1>4, <2>1, KeptCounted
<1>7. /\ Keeps({"delete", "throw", "hangup", "send", "dealloc", "sever", "cut", "bury", "deliver", "hand"})
      /\ Adds({"unlock"}) /\ \A th \in exited : th \in Actors /\ Idle(th) => Idle(th)'
  BY <1>3, EffectKeeps
<1>8. \A y \in Actors : \A d : ~Has(y, <<"unlock", d>>)'
  <2> SUFFICES ASSUME NEW y \in Actors, NEW d, Has(y, <<"unlock", d>>)' PROVE FALSE OBVIOUS
  <2>1. PICK i \in DOMAIN work[y] : work[y][i] = <<"unlock", d>> BY <1>7 DEF Adds, Has
  <2>2. FormAt(y, i) BY DEF Form
  <2>3. work[y][i][1] = "unlock" BY <2>1
  <2>4. y = Operator BY <2>2, <2>3 DEF FormAt
  <2>5. r[1] = "unlock" /\ <<"unlock", d>>[1] = "unlock" OBVIOUS
  <2>6. x = Operator BY <1>1, <2>5, Next1
  <2>7. Later(x, <<"unlock", d>>) BY <1>2, <1>3, <2>4, <2>6 DEF Effect
  <2> QED BY <1>1, <2>5, <2>7, Next1
<1>9. Connected'
  <2>1. \A u : /\ Has(Collector, <<"delete", u>>)' <=> Has(Collector, <<"delete", u>>)
               /\ Has(Collector, <<"hangup", u>>)' <=> Has(Collector, <<"hangup", u>>)
    BY <1>0, <1>7 DEF Keeps
  <2>2. \A y \in Actors, d \in Connections, u \in Terminals :
          Has(y, <<"send", d, u>>)' => Has(y, <<"send", d, u>>)
    BY <1>7 DEF Keeps
  <2> QED BY <1>1, <1>8, <2>1, <2>2 DEF Connected, Live
<1>10. /\ Adds({"delete", "throw"}) /\ Adds({"dealloc", "bury"}) /\ Adds({"deliver", "hand"})
       /\ Keeps({"dealloc", "sever", "cut"})
  BY <1>7 DEF Keeps, Adds
<1> QED BY <1>1, <1>4, <1>5, <1>6, <1>7, <1>9, <1>10, KeptThrown, KeptFresh, KeptOwned,
         KeptAttached, KeptDelivered, KeptPending DEF Same

\* The second terminal to hang up deletes the connection.
LEMMA CloseInv ==
  ASSUME IInv, NEW x \in Actors, NEW c \in Connections, NEW t \in Terminals, Close(x, c, t),
         UNCHANGED <<portVars, port, connection, portLock, made, handed, threadVars, garbage>>
  PROVE  IInv'
<1> USE IpcAssumption DEF IInv
<1> DEFINE r == <<"hangup", t>>
           others == ends[c] \ {t}
<1>1. /\ Doing(x, r) /\ Forward(x, others, "closed") /\ connection[t] = c /\ lock[c] = None
      /\ ends' = [ends EXCEPT ![c] = @ \ {t}]
      /\ freed' = IF ends[c] \subseteq {t} THEN freed \cup {c} ELSE freed
      /\ UNCHANGED <<lock, terminal, lastMessage, isQueued, pendingPorts,
                     owner, portList, exited, buried, reading>>
  BY DEF Close, portVars, threadVars
<1>2. others \in SUBSET Terminals /\ \A o \in others : connection[o] # None
  <2>1. ends[c] \in SUBSET Terminals /\ c # None BY DEF TypeOK, Objects
  <2>2. \A o \in ends[c] : connection[o] = c BY DEF Connected
  <2> QED BY <2>1, <2>2
<1>3. PICK s : Passes(others, "closed", s) /\ Effect(x, {r}, s)
  <2> HIDE DEF others
  <2> QED BY <1>1, <1>2, ForwardPasses DEF Messages
<1>4. /\ x = Collector /\ Has(x, r) /\ Later(x, <<"delete", t>>)
      /\ \A q : Later(x, q) => q[1] # "hangup"
  <2>1. r[1] = "hangup" /\ r[2] = t OBVIOUS
  <2> QED BY <1>1, <2>1, Next1 DEF LaterKinds
<1>5. \A o : o # c => (o \in freed' <=> o \in freed) BY <1>1
<1>6. c \in made BY <1>1 DEF Connected, Objects
<1>7. Same(Ports \cup Terminals) BY <1>5 DEF Same
<1>8. TypeOK'
  <2>1. retainCount' \in [Terminals -> Nat]
    <3> HIDE DEF others
    <3> QED BY <1>2, <1>3, PassesTyped
  <2>2. work' \in [Actors -> Seq(Steps)] BY <1>3 DEF Effect
  <2>3. ends' \in [Connections -> SUBSET Terminals] /\ freed' \subseteq made BY <1>1, <1>6 DEF TypeOK
  <2> QED BY <1>1, <2>1, <2>2, <2>3 DEF TypeOK
<1>9. /\ Form' /\ Counted' /\ ThrownDead' /\ ThrownOnce' /\ Fresh'
      /\ Owned' /\ Attached' /\ Delivered' /\ PendingExact'
  <2>1. r[1] \in {"send", "hangup"} OBVIOUS
  <2> HIDE DEF others
  <2> QED BY <1>1, <1>2, <1>3, <1>7, <1>8, <2>1, Forwarded DEF Messages
<1>10. \A i \in DOMAIN s : s[i][1] \in {"deliver", "release"}
  <2> HIDE DEF others
  <2> QED BY <1>3 DEF Passes
<1>11. Keeps({"delete", "unlock", "send"}) /\ Adds({"hangup"}) BY <1>3, <1>10, EffectKeeps
<1>12. /\ \A u : u # t => (Has(Collector, <<"hangup", u>>)' <=> Has(Collector, <<"hangup", u>>))
       /\ ~Has(Collector, <<"hangup", t>>)'
       /\ \A u : Has(Collector, <<"delete", u>>)' <=> Has(Collector, <<"delete", u>>)
       /\ Has(Collector, <<"delete", t>>)
  <2>1. \A u : <<"hangup", u>>[1] = "hangup" OBVIOUS
  <2>2. \A i \in DOMAIN s : \A u : s[i] # <<"hangup", u>> BY <1>10, <2>1
  <2>3. \A u : Has(x, <<"hangup", u>>)' => Later(x, <<"hangup", u>>) BY <1>3, <2>2 DEF Effect
  <2>4. \A u : ~Has(x, <<"hangup", u>>)' BY <1>4, <2>1, <2>3
  <2>5. \A u : Has(x, <<"hangup", u>>) => u = t BY <1>3, <1>4, <2>1 DEF Effect
  <2>6. Has(x, <<"delete", t>>) BY <1>4 DEF Later, Has
  <2> QED BY <1>4, <1>11, <2>4, <2>5, <2>6 DEF Keeps
<1>13. \A d \in Connections : /\ d # c => ends'[d] = ends[d]
                              /\ ends'[c] = ends[c] \ {t}
  BY <1>1 DEF TypeOK
<1>14. Connected'
  <2>1. ASSUME NEW d \in Connections, NEW u \in ends'[d]
        PROVE  /\ connection[u] = d /\ u \in Live'
               /\ Has(Collector, <<"delete", u>>)' => Has(Collector, <<"hangup", u>>)'
    <3>1. u \in ends[d] /\ (d = c => u # t) BY <1>13, <2>1
    <3>2. connection[u] = d /\ u \in Live BY <3>1 DEF Connected
    <3>3. u # t BY <1>1, <3>1, <3>2
    <3>4. u \in Terminals /\ u # c BY <3>1 DEF TypeOK
    <3> QED BY <1>5, <1>12, <3>1, <3>2, <3>3, <3>4 DEF Connected, Live
  <2>2. ASSUME NEW u \in Terminals, connection[u] # None
        PROVE  /\ connection[u] \in made /\ u \in made
               /\ \/ u \in ends'[connection[u]] \/ u \in freed'
                  \/ Has(Collector, <<"delete", u>>)' /\ ~Has(Collector, <<"hangup", u>>)'
    <3>1. CASE u = t BY <1>12, <2>2, <3>1 DEF Connected
    <3>2. CASE u # t
      <4>1. connection[u] \in Connections BY <2>2 DEF TypeOK
      <4>2. u \in ends[connection[u]] => u \in ends'[connection[u]] BY <1>13, <3>2, <4>1
      <4>3. u \in freed => u \in freed' BY <1>1
      <4> QED BY <1>12, <2>2, <3>2, <4>2, <4>3 DEF Connected
    <3> QED BY <3>1, <3>2
  <2>3. ASSUME NEW d \in Connections, d \in freed' PROVE ends'[d] = {}
    <3>1. CASE d = c
      <4>1. c \in freed \/ ends[c] \subseteq {t} BY <1>1, <2>3, <3>1
      <4> QED BY <1>13, <3>1, <4>1 DEF Connected
    <3>2. CASE d # c BY <1>5, <1>13, <2>3, <3>2 DEF Connected
    <3> QED BY <3>1, <3>2
  <2>4. ASSUME NEW y \in Actors, NEW d \in Connections, Has(y, <<"unlock", d>>)'
        PROVE  lock[d] = Operator /\ d \in Live'
    <3>1. lock[d] = Operator /\ d \in Live BY <1>11, <2>4 DEF Keeps, Connected
    <3>2. Operator # None BY DEF Actors
    <3> QED BY <1>1, <1>5, <3>1, <3>2 DEF Live
  <2>5. ASSUME NEW y \in Actors, NEW d \in Connections, NEW u \in Terminals, Has(y, <<"send", d, u>>)'
        PROVE  connection[u] = d
    BY <1>11, <2>5 DEF Keeps, Connected
  <2> QED BY <1>1, <2>1, <2>2, <2>3, <2>4, <2>5 DEF Connected
<1> QED BY <1>8, <1>9, <1>14

LEMMA ConnectionStepInv ==
  ASSUME IInv, NEW x \in Actors, NEW c \in Connections, ConnectionStep(x, c) PROVE IInv'
<1>1. UNCHANGED <<portVars, port, connection, portLock, made, handed, threadVars, garbage>>
  BY DEF ConnectionStep
<1>2. CASE Unlock(x, c) BY <1>1, <1>2, UnlockInv
<1>3. ASSUME NEW t \in Terminals, SendToRemote(x, c, t) PROVE IInv' BY <1>1, <1>3, SendToRemoteInv
<1>4. ASSUME NEW t \in Terminals, Close(x, c, t) PROVE IInv' BY <1>1, <1>4, CloseInv
<1> QED BY <1>2, <1>3, <1>4 DEF ConnectionStep

\* The operator's reference becomes that of its call.
LEMMA GiveUpInv ==
  ASSUME IInv, NEW t \in Terminals, GiveUp(t), UNCHANGED <<threadVars, garbage>>
  PROVE  IInv'
<1> USE IpcAssumption DEF IInv
<1> DEFINE x == Operator
           s == <<<<"release", t>>>>
<1>0. x \in Actors /\ Collector \in Actors /\ Threads \subseteq Actors /\ x \notin exited
  BY DEF Actors, TypeOK
<1>1. /\ Idle(x) /\ Start(x, s) /\ t \in handed /\ handed' = handed \ {t}
      /\ UNCHANGED <<port, retainCount, connection, portLock, ends, lock, freed, made, garbage>>
      /\ UNCHANGED <<terminal, lastMessage, isQueued, pendingPorts,
                     owner, portList, exited, buried, reading>>
  BY DEF GiveUp, terminalVars, connectionVars, portVars, threadVars
<1> HIDE DEF x
<1>2. <<"release", t>> \in Steps BY DEF Steps
<1>3. s \in Seq(Steps) /\ DOMAIN s = {1} /\ s[1] = <<"release", t>> /\ Len(s) = 1 BY <1>2
<1> HIDE DEF s
<1>4. Effect(x, {}, s) /\ \A q : ~Has(x, q) /\ ~Later(x, q) BY <1>0, <1>1, <1>3, StartEffect
<1>5. TypeOK' BY <1>1, <1>4 DEF TypeOK, Effect
<1>6. Form'
  <2>1. \A i \in DOMAIN s : StepFits(x, s, i) BY <1>3, <1>4 DEF StepFits, Uses, Later
  <2> QED BY <1>0, <1>3, <1>4, <2>1, FormBecomes DEF Effect
<1>7. Counted'
  <2> SUFFICES ASSUME NEW u \in Terminals
               PROVE  IsFiniteSet(References(u)') /\ retainCount'[u] = Cardinality(References(u)')
    BY DEF Counted
  <2>1. Lost(x, u) = 0 BY <1>1 DEF Lost
  <2>2. retainCount[u] \in Nat /\ Becomes(x, s) BY <1>4 DEF TypeOK, Effect
  <2>3. CASE u = t
    <3>1. \A i \in DOMAIN s : s[i] = <<"release", u>> <=> i = 1 BY <1>3, <2>3
    <3>2. retainCount'[u] = retainCount[u] - Lost(x, u) + 1 - Held(u) + Held(u)'
      BY <1>1, <2>1, <2>2, <2>3 DEF Held
    <3>3. 1 \in DOMAIN s BY <1>3
    <3>4. TypeOK /\ TypeOK' /\ Counted /\ x \in Actors /\ s \in Seq(Steps) BY <1>0, <1>3, <1>5
    <3> QED BY ONLY <2>2, <3>1, <3>2, <3>3, <3>4, CountedMore, u \in Terminals
  <2>4. CASE u # t
    <3>1. \A i \in DOMAIN s : s[i] # <<"release", u>> BY <1>3, <2>4
    <3>2. retainCount'[u] = retainCount[u] - Lost(x, u) - Held(u) + Held(u)'
      BY <1>1, <2>1, <2>2, <2>4 DEF Held
    <3> QED BY <1>0, <1>3, <1>5, <2>2, <3>1, <3>2, CountedLess
  <2> QED BY <2>3, <2>4
<1>8. /\ Keeps({"delete", "throw", "hangup", "unlock", "send", "dealloc", "sever", "cut", "bury", "deliver", "hand"})
      /\ \A th \in exited : th \in Actors /\ Idle(th) => Idle(th)'
  <2>1. \A i \in DOMAIN s : s[i][1] = "release" BY <1>3
  <2> QED BY ONLY <1>0, <1>4, <2>1, EffectKeeps
<1>9. /\ Adds({"delete", "throw"}) /\ Adds({"unlock", "send"}) /\ Adds({"dealloc", "bury"})
      /\ Adds({"deliver", "hand"}) /\ Keeps({"delete", "hangup"}) /\ Keeps({"dealloc", "sever", "cut"})
  BY <1>8 DEF Keeps, Adds
<1>10. handed' \subseteq handed BY <1>1
<1> QED BY <1>1, <1>5, <1>6, <1>7, <1>8, <1>9, <1>10, KeptThrown, KeptFresh, KeptConnected,
         KeptOwned, KeptAttached, KeptDelivered, KeptPending DEF Same

\* Two terminals that the operator has become the ends of a new connection.
LEMMA ConnectInv ==
  ASSUME IInv, NEW t \in Terminals, NEW u \in Terminals, NEW c \in Connections, Connect(t, u, c),
         UNCHANGED <<threadVars, garbage>>
  PROVE  IInv'
<1> USE IpcAssumption DEF IInv
<1> DEFINE x == Operator
           s == Opening(t, u, c) \o <<<<"release", t>>, <<"release", u>>>>
<1>0. x \in Actors /\ Collector \in Actors /\ Threads \subseteq Actors /\ x \notin exited
  BY DEF Actors, TypeOK
<1>1. /\ Idle(x) /\ {t, u} \subseteq handed /\ t # u /\ c \notin made
      /\ connection' = [connection EXCEPT ![t] = c, ![u] = c]
      /\ ends' = [ends EXCEPT ![c] = {t, u}] /\ lock' = [lock EXCEPT ![c] = x]
      /\ made' = made \cup {c} /\ handed' = handed \ {t, u}
      /\ UNCHANGED <<port, retainCount, portLock, freed, garbage>>
      /\ UNCHANGED <<terminal, lastMessage, isQueued, pendingPorts,
                     owner, portList, exited, buried, reading>>
  BY DEF Connect, portVars, threadVars
<1>2. Start(x, s) BY DEF Connect
<1> HIDE DEF x
<1>3. /\ s \in Seq(Steps) /\ DOMAIN s = 1..5 /\ Len(s) = 5
      /\ s[1] = <<"deliver", t, "opened">> /\ s[2] = <<"deliver", u, "opened">>
      /\ s[3] = <<"unlock", c>> /\ s[4] = <<"release", t>> /\ s[5] = <<"release", u>>
  <2>1. /\ <<"release", t>> \in Steps /\ <<"release", u>> \in Steps /\ <<"unlock", c>> \in Steps
        /\ <<"deliver", t, "opened">> \in Steps /\ <<"deliver", u, "opened">> \in Steps
    BY DEF Steps, Messages
  <2>2. Opening(t, u, c) \in Seq(Steps) /\ <<<<"release", t>>, <<"release", u>>>> \in Seq(Steps)
    BY <2>1 DEF Opening
  <2> QED BY <2>2 DEF Opening
<1> HIDE DEF s
<1>4. Effect(x, {}, s) /\ \A q : ~Has(x, q) /\ ~Later(x, q)
  BY <1>0, <1>1, <1>2, <1>3, StartEffect
<1>5. /\ \A v \in Terminals : connection'[v] = IF v \in {t, u} THEN c ELSE connection[v]
      /\ \A d \in Connections : /\ ends'[d] = IF d = c THEN {t, u} ELSE ends[d]
                                /\ lock'[d] = IF d = c THEN x ELSE lock[d]
  BY <1>1 DEF TypeOK
<1>6. Alive(t) /\ Alive(u) /\ connection[t] = None /\ connection[u] = None
  BY <1>1, UsedAlive DEF Attached
<1>7. TypeOK'
  <2>1. /\ connection' \in [Terminals -> Connections \cup {None}]
        /\ ends' \in [Connections -> SUBSET Terminals]
        /\ lock' \in [Connections -> Actors \cup {None}]
    <3>1. {t, u} \in SUBSET Terminals OBVIOUS
    <3>2. ends' \in [Connections -> SUBSET Terminals] BY <1>1, <3>1 DEF TypeOK
    <3>3. lock' \in [Connections -> Actors \cup {None}] BY <1>0, <1>1 DEF TypeOK
    <3>4. connection' \in [Terminals -> Connections \cup {None}] BY <1>1 DEF TypeOK
    <3> QED BY <3>2, <3>3, <3>4
  <2>2. made' \subseteq Objects /\ freed' \subseteq made' /\ handed' \subseteq Terminals
    BY <1>1 DEF TypeOK, Objects
  <2>3. TypeOK OBVIOUS
  <2> QED BY ONLY <1>1, <1>4, <2>1, <2>2, <2>3 DEF TypeOK, Effect
<1>8. Form'
  <2>1. \A i \in DOMAIN s : i = 1 \/ i = 2 \/ i = 3 \/ i = 4 \/ i = 5 BY <1>3
  <2>2. ASSUME NEW i \in DOMAIN s PROVE StepFits(x, s, i)
    <3>1. 4 \in DOMAIN s /\ 5 \in DOMAIN s BY <1>3
    <3>2. CASE i = 1 BY <1>3, <1>4, <3>1, <3>2 DEF StepFits, Uses, LaterKinds, Later
    <3>3. CASE i = 2 BY <1>3, <1>4, <3>1, <3>3 DEF StepFits, Uses, LaterKinds, Later
    <3>4. CASE i = 3
      <4>1. \A j \in DOMAIN s : j > 3 => s[j][1] = "release" BY <1>3, <2>1
      <4>2. x = Operator BY DEF x
      <4>3. s[3][1] = "unlock" BY <1>3
      <4>4. \A j \in DOMAIN work[x] : ~(j > 1)  BY <1>4 DEF Later
      <4> QED BY <3>4, <4>1, <4>2, <4>3, <4>4 DEF StepFits, Uses, LaterKinds
    <3>5. CASE i = 4 BY <1>3, <1>4, <3>5 DEF StepFits, Uses, LaterKinds, Later
    <3>6. CASE i = 5 BY <1>3, <1>4, <3>6 DEF StepFits, Uses, LaterKinds, Later
    <3> QED BY <2>1, <3>2, <3>3, <3>4, <3>5, <3>6
  <2> QED BY <1>0, <1>3, <1>4, <2>2, FormBecomes DEF Effect
<1>9. Counted'
  <2> SUFFICES ASSUME NEW v \in Terminals
               PROVE  IsFiniteSet(References(v)') /\ retainCount'[v] = Cardinality(References(v)')
    BY DEF Counted
  <2>1. Lost(x, v) = 0 BY <1>1 DEF Lost
  <2>2. retainCount[v] \in Nat /\ Becomes(x, s) BY <1>4 DEF TypeOK, Effect
  <2>3. \A i \in DOMAIN s : s[i] = <<"release", v>> <=> (i = 4 /\ v = t) \/ (i = 5 /\ v = u)
    <3>1. \A i \in DOMAIN s : i = 1 \/ i = 2 \/ i = 3 \/ i = 4 \/ i = 5 BY <1>3
    <3>2. s[1][1] # "release" /\ s[2][1] # "release" /\ s[3][1] # "release" BY <1>3
    <3>3. <<"release", v>>[1] = "release" OBVIOUS
    <3>4. ASSUME NEW i \in {1, 2, 3} PROVE s[i] # <<"release", v>> BY <3>2, <3>3
    <3>5. (s[4] = <<"release", v>> <=> v = t) /\ (s[5] = <<"release", v>> <=> v = u) BY <1>3
    <3> QED BY <3>1, <3>4, <3>5
  <2>4. CASE v \in {t, u}
    <3>1. PICK k \in DOMAIN s : \A i \in DOMAIN s : s[i] = <<"release", v>> <=> i = k
      <4>1. 4 \in DOMAIN s /\ 5 \in DOMAIN s BY <1>3
      <4>2. CASE v = t BY <1>1, <2>3, <4>1, <4>2
      <4>3. CASE v = u BY <1>1, <2>3, <4>1, <4>3
      <4> QED BY <2>4, <4>2, <4>3
    <3>2. retainCount'[v] = retainCount[v] - Lost(x, v) + 1 - Held(v) + Held(v)'
      BY <1>1, <2>1, <2>2, <2>4 DEF Held
    <3>3. TypeOK /\ TypeOK' /\ Counted /\ x \in Actors /\ s \in Seq(Steps) BY <1>0, <1>3, <1>7
    <3> QED BY ONLY <2>2, <3>1, <3>2, <3>3, CountedMore, v \in Terminals
  <2>5. CASE v \notin {t, u}
    <3>1. \A i \in DOMAIN s : s[i] # <<"release", v>> BY <2>3, <2>5
    <3>2. retainCount'[v] = retainCount[v] - Lost(x, v) - Held(v) + Held(v)'
      BY <1>1, <2>1, <2>2, <2>5 DEF Held
    <3>3. TypeOK /\ TypeOK' /\ Counted /\ x \in Actors /\ s \in Seq(Steps) BY <1>0, <1>3, <1>7
    <3> QED BY ONLY <2>2, <3>1, <3>2, <3>3, CountedLess, v \in Terminals
  <2> QED BY <2>4, <2>5
<1>10. /\ Keeps({"delete", "throw", "hangup", "send", "dealloc", "sever", "cut", "bury", "hand"})
       /\ \A th \in exited : th \in Actors /\ Idle(th) => Idle(th)'
  <2> DEFINE kinds == {"delete", "throw", "hangup", "send", "dealloc", "sever", "cut", "bury",
                       "hand"}
  <2>1. \A i \in DOMAIN s : s[i][1] \in {"deliver", "unlock", "release"} BY <1>3
  <2>2. \A i \in DOMAIN s : s[i][1] \notin kinds BY ONLY <2>1
  <2> HIDE DEF kinds
  <2>3. /\ Keeps(kinds)
        /\ \A th \in exited : th \in Actors /\ Idle(th) => Idle(th)'
    BY ONLY <1>0, <1>4, <2>2, EffectKeeps
  <2> QED BY <2>3 DEF kinds
<1>11. \A y \in Actors :
         /\ \A d : Has(y, <<"unlock", d>>)' => Has(y, <<"unlock", d>>) \/ d = c
         /\ \A v, m : Has(y, <<"deliver", v, m>>)' => Has(y, <<"deliver", v, m>>) \/ v \in {t, u}
  <2>1. \A q : Has(x, q)' => \E i \in 1..5 : s[i] = q BY <1>3, <1>4 DEF Effect
  <2>2. ASSUME NEW d, Has(x, <<"unlock", d>>)' PROVE d = c
    <3>1. PICK i \in 1..5 : s[i] = <<"unlock", d>> BY <2>1, <2>2
    <3>2. s[i][1] = "unlock" BY <3>1
    <3>3. i = 3 BY <1>3, <3>2
    <3> QED BY <1>3, <3>1, <3>3
  <2>3. ASSUME NEW v, NEW m, Has(x, <<"deliver", v, m>>)' PROVE v \in {t, u}
    <3>1. PICK i \in 1..5 : s[i] = <<"deliver", v, m>> BY <2>1, <2>3
    <3>2. s[i][1] = "deliver" /\ s[i][2] = v BY <3>1
    <3>3. i \in {1, 2} BY <1>3, <3>2
    <3> QED BY <1>3, <3>2, <3>3
  <2> QED BY <1>4, <2>2, <2>3 DEF Effect
<1>12. Connected'
  <2>1. \A v : /\ Has(Collector, <<"delete", v>>)' <=> Has(Collector, <<"delete", v>>)
               /\ Has(Collector, <<"hangup", v>>)' <=> Has(Collector, <<"hangup", v>>)
    BY <1>0, <1>10 DEF Keeps
  <2>2. ~Has(Collector, <<"delete", t>>) /\ ~Has(Collector, <<"delete", u>>) BY <1>6 DEF Alive, Thrown
  <2>3. ASSUME NEW d \in Connections, NEW v \in ends'[d]
        PROVE  /\ connection'[v] = d /\ v \in Live'
               /\ Has(Collector, <<"delete", v>>)' => Has(Collector, <<"hangup", v>>)'
    <3>1. CASE d = c
      <4>1. v \in {t, u} /\ connection'[v] = c BY <1>5, <2>3, <3>1
      <4>2. v \in Live' BY <1>1, <1>6, <4>1 DEF Alive, Live
      <4> QED BY <2>1, <2>2, <3>1, <4>1, <4>2
    <3>2. CASE d # c
      <4>1. v \in ends[d] BY <1>5, <2>3, <3>2
      <4>2. connection[v] = d /\ v \in Live /\ v \in Terminals BY <4>1 DEF Connected, TypeOK
      <4>3. d # None BY DEF Objects
      <4>4. connection'[v] = d /\ v \in Live' BY <1>1, <1>5, <1>6, <4>2, <4>3 DEF Live
      <4> QED BY <2>1, <4>1, <4>4 DEF Connected
    <3> QED BY <3>1, <3>2
  <2>4. ASSUME NEW v \in Terminals, connection'[v] # None
        PROVE  /\ connection'[v] \in made' /\ v \in made'
               /\ \/ v \in ends'[connection'[v]] \/ v \in freed'
                  \/ Has(Collector, <<"delete", v>>)' /\ ~Has(Collector, <<"hangup", v>>)'
    <3>1. CASE v \in {t, u}
      <4>1. connection'[v] = c /\ c \in made' /\ v \in made' BY <1>1, <1>5, <1>6, <3>1 DEF Alive, Live
      <4>2. v \in ends'[c] BY <1>5, <3>1
      <4> QED BY <4>1, <4>2
    <3>2. CASE v \notin {t, u}
      <4>1. connection'[v] = connection[v] BY <1>5, <3>2
      <4>2. connection[v] \in Connections /\ connection[v] \in made BY <2>4, <4>1 DEF TypeOK, Connected
      <4>3. ends'[connection[v]] = ends[connection[v]] BY <1>1, <1>5, <4>2
      <4> QED BY <1>1, <2>1, <2>4, <4>1, <4>3 DEF Connected
    <3> QED BY <3>1, <3>2
  <2>5. \A d \in Connections : d \in freed' => ends'[d] = {} BY <1>1, <1>5 DEF Connected, TypeOK
  <2>6. ASSUME NEW y \in Actors, NEW d \in Connections, Has(y, <<"unlock", d>>)'
        PROVE  lock'[d] = Operator /\ d \in Live'
    <3>1. CASE d = c BY <1>1, <1>5, <3>1 DEF Live, TypeOK, x
    <3>2. CASE d # c BY <1>1, <1>5, <1>11, <2>6, <3>2 DEF Connected, Live
    <3> QED BY <3>1, <3>2
  <2>7. ASSUME NEW y \in Actors, NEW d \in Connections, NEW v \in Terminals, Has(y, <<"send", d, v>>)'
        PROVE  connection'[v] = d
    <3>1. Has(y, <<"send", d, v>>) BY <1>10, <2>7 DEF Keeps
    <3>2. connection[v] = d /\ d # None BY <3>1 DEF Connected, Objects
    <3> QED BY <1>5, <1>6, <3>2
  <2> QED BY <2>3, <2>4, <2>5, <2>6, <2>7 DEF Connected
<1>13. Attached'
  <2>1. \A y \in Actors : \A o : /\ Has(y, <<"dealloc", o>>)' <=> Has(y, <<"dealloc", o>>)
                                 /\ Has(y, <<"sever", o>>)' <=> Has(y, <<"sever", o>>)
                                 /\ Has(y, <<"cut", o>>)' <=> Has(y, <<"cut", o>>)
    BY <1>10 DEF Keeps
  <2>2. \A p \in Ports : terminal[p] # None => port[terminal[p]] = p /\ p \in Live' /\ terminal[p] \in made'
    BY <1>1 DEF Attached, Live
  <2>3. \A v \in handed' : connection'[v] = None BY <1>1, <1>5 DEF Attached, TypeOK
  <2>4. ASSUME NEW v \in Terminals, v \in handed' \/ connection'[v] # None
        PROVE  port[v] = None \/ terminal[port[v]] = v \/ \E y \in Actors : Has(y, <<"cut", v>>)'
    <3>1. v \in handed \/ connection[v] # None BY <1>1, <1>5, <2>4
    <3> QED BY <2>1, <3>1 DEF Attached
  <2>5. \A y \in Actors, p \in Ports : Has(y, <<"dealloc", p>>)' =>
          terminal[p] = None \/ Has(y, <<"sever", p>>)'
    BY <2>1 DEF Attached
  <2>6. \A y \in Actors, v \in Terminals, p \in Ports :
          Has(y, <<"cut", v>>)' /\ port[v] = p => Has(y, <<"dealloc", p>>)'
    BY <2>1 DEF Attached
  <2>7. reading = "port.cpp" => \A p \in Ports : terminal[p] = None BY DEF Attached
  <2> QED BY <1>1, <2>2, <2>3, <2>4, <2>5, <2>6, <2>7 DEF Attached
<1>14. Delivered'
  <2>1. \A y \in Actors : \A v, m : Has(y, <<"hand", v, m>>)' => Has(y, <<"hand", v, m>>)
    BY <1>10 DEF Keeps
  <2>2. \A v \in Terminals : v \in {t, u} \/ connection[v] # None => connection'[v] # None
    <3>1. c # None BY DEF Objects
    <3> QED BY <1>5, <3>1
  <2>3. ASSUME NEW y \in Actors, NEW v \in Terminals, NEW m \in Messages
        PROVE  /\ Has(y, <<"deliver", v, m>>)' => connection'[v] # None
               /\ Has(y, <<"hand", v, m>>)' => connection'[v] # None /\ portLock[v] = y /\ port[v] # None
    BY <1>11, <2>1, <2>2 DEF Delivered
  <2> QED BY <1>1, <2>3 DEF Delivered
<1>15. Fresh' BY <1>1, <1>5, <1>6 DEF Fresh, Alive, Live
<1>16. Same(Ports \cup Terminals) /\ Same(Terminals) /\ Same(Ports) BY <1>1 DEF Same
<1>17. Adds({"delete", "throw"}) /\ Adds({"dealloc", "bury"}) BY <1>10 DEF Keeps, Adds
<1> QED BY <1>1, <1>7, <1>8, <1>9, <1>10, <1>12, <1>13, <1>14, <1>15, <1>16, <1>17,
         KeptThrown, KeptOwned, KeptPending

LEMMA OperatorStepInv == ASSUME IInv, OperatorStep PROVE IInv'
<1>1. UNCHANGED <<threadVars, garbage>> BY DEF OperatorStep
<1> QED BY <1>1, GiveUpInv, ConnectInv DEF OperatorStep

-----------------------------------------------------------------------------
(* Ports.                                                                  *)

\* A port that has no terminal has nothing to sever.
LEMMA SeverNothingInv ==
  ASSUME IInv, NEW x \in Actors, NEW p \in Ports, Doing(x, <<"sever", p>>), Then(x, <<>>),
         terminal[p] = None, UNCHANGED <<terminal, retainCount>>,
         UNCHANGED <<lastMessage, isQueued, pendingPorts, portList, freed>>,
         UNCHANGED <<owner, port, connection, portLock, connectionVars, made, handed,
                     exited, buried, reading, garbage>>
  PROVE  IInv'
<1> USE IpcAssumption DEF IInv, connectionVars
<1> DEFINE r == <<"sever", p>>
<1>1. <<>> \in Seq(Steps) /\ DOMAIN <<>> = {} OBVIOUS
<1>2. Effect(x, {r}, <<>>) BY <1>1, ThenEffect
<1>3. TypeOK' BY <1>2 DEF TypeOK, Effect
<1>4. Form' BY <1>2, KeptForm
<1>5. Counted'
  <2>1. \A u \in Terminals : Lost(x, u) = 0 BY DEF Lost, Doing
  <2> QED BY <1>1, <1>2, <1>3, <2>1, KeptCounted
<1>6. /\ Keeps({"delete", "throw", "hangup", "unlock", "send", "dealloc", "cut", "bury", "deliver", "hand"})
      /\ \A th \in exited : th \in Actors /\ Idle(th) => Idle(th)'
  BY <1>2, EffectKeeps
<1>7. Attached'
  <2>1. \A y \in Actors : \A o : /\ Has(y, <<"dealloc", o>>)' <=> Has(y, <<"dealloc", o>>)
                                 /\ Has(y, <<"cut", o>>)' <=> Has(y, <<"cut", o>>)
    BY <1>6 DEF Keeps
  <2>2. \A y \in Actors, q \in Ports : q # p /\ Has(y, <<"sever", q>>) => Has(y, <<"sever", q>>)'
    BY <1>2 DEF Effect
  <2>3. \A y \in Actors, q \in Ports : Has(y, <<"dealloc", q>>)' =>
          terminal[q] = None \/ Has(y, <<"sever", q>>)'
    BY <2>1, <2>2 DEF Attached
  <2>4. \A y \in Actors, u \in Terminals, q \in Ports :
          Has(y, <<"cut", u>>)' /\ port[u] = q => Has(y, <<"dealloc", q>>)'
    BY <2>1 DEF Attached
  <2>5. \A u \in Terminals : u \in handed \/ connection[u] # None =>
          \/ port[u] = None \/ terminal[port[u]] = u
          \/ \E y \in Actors : Has(y, <<"cut", u>>)'
    BY <2>1 DEF Attached
  <2> QED BY <2>3, <2>4, <2>5 DEF Attached, Live
<1>8. /\ Adds({"delete", "throw"}) /\ Adds({"unlock", "send"}) /\ Adds({"dealloc", "bury"})
      /\ Adds({"deliver", "hand"}) /\ Keeps({"delete", "hangup"})
  BY <1>6 DEF Keeps, Adds
<1> QED BY <1>3, <1>4, <1>5, <1>6, <1>7, <1>8, KeptThrown, KeptFresh, KeptConnected,
         KeptOwned, KeptDelivered, KeptPending DEF Same

\* A port that has one takes its terminal's reference with it and cuts it off.
LEMMA SeverInv ==
  ASSUME IInv, NEW x \in Actors, NEW p \in Ports, Doing(x, <<"sever", p>>),
         GetTerminal(p), terminal' = Detach(p),
         Then(x, <<<<"cut", terminal[p]>>, <<"release", terminal[p]>>>>),
         UNCHANGED <<lastMessage, isQueued, pendingPorts, portList, freed>>,
         UNCHANGED <<owner, port, connection, portLock, connectionVars, made, handed,
                     exited, buried, reading, garbage>>
  PROVE  IInv'
<1> USE IpcAssumption DEF IInv, connectionVars
<1> DEFINE r == <<"sever", p>>
           t == terminal[p]
           s == <<<<"cut", t>>, <<"release", t>>>>
<1>0. Collector \in Actors /\ Threads \subseteq Actors BY DEF Actors
<1>1. /\ t \in Terminals /\ port[t] = p /\ p \in Live /\ Alive(t)
      /\ retainCount' = [retainCount EXCEPT ![t] = @ + 1]
      /\ terminal' = [terminal EXCEPT ![p] = None]
  <2>1. t # None BY DEF GetTerminal
  <2>2. t \in Terminals /\ port[t] = p /\ p \in Live BY <2>1 DEF TypeOK, Attached
  <2>3. Alive(t) BY <2>2, UsedAlive DEF Objects
  <2> QED BY <2>2, <2>3 DEF GetTerminal, CountUp, Detach
<1>2. /\ s \in Seq(Steps) /\ DOMAIN s = {1, 2} /\ Len(s) = 2
      /\ s[1] = <<"cut", t>> /\ s[2] = <<"release", t>>
  <2>1. <<"cut", t>> \in Steps /\ <<"release", t>> \in Steps BY <1>1 DEF Steps
  <2> QED BY <2>1
<1>3. Effect(x, {r}, s) BY <1>2, ThenEffect
<1> HIDE DEF t, s
<1>4. /\ Later(x, <<"dealloc", p>>) /\ \A q : Later(x, q) => q[1] \in LaterKinds
  <2>1. r[1] = "sever" /\ r[2] = p OBVIOUS
  <2> QED BY <2>1, Next1
<1>5. TypeOK' BY <1>1, <1>3 DEF TypeOK, Effect
<1>6. Form'
  <2>1. \A j \in DOMAIN work[x] : j > 1 => work[x][j][1] \in LaterKinds BY <1>4 DEF Later
  <2>2. StepFits(x, s, 1)
    <3>1. s[1][1] = "cut" /\ s[1][2] = t /\ s[2][1] = "release" BY <1>2
    <3>2. \A j \in DOMAIN work[x] : j > 1 => work[x][j][1] # "cut" BY <2>1 DEF LaterKinds
    <3>3. \A j \in DOMAIN s : j > 1 => s[j][1] # "cut" BY <1>2, <3>1
    <3>4. \E j \in DOMAIN s : j > 1 /\ s[j] = <<"release", t>> BY <1>2
    <3> QED BY <3>1, <3>2, <3>3, <3>4 DEF StepFits
  <2>3. StepFits(x, s, 2) BY <1>2 DEF StepFits, Uses, LaterKinds
  <2>4. \A i \in DOMAIN s : StepFits(x, s, i) BY <1>2, <2>2, <2>3
  <2> QED BY <1>2, <1>3, <2>4, FormBecomes DEF Effect
<1>7. Counted'
  <2> SUFFICES ASSUME NEW u \in Terminals
               PROVE  IsFiniteSet(References(u)') /\ retainCount'[u] = Cardinality(References(u)')
    BY DEF Counted
  <2>1. Lost(x, u) = 0 BY DEF Lost, Doing
  <2>2. retainCount[u] \in Nat /\ Becomes(x, s) BY <1>3 DEF TypeOK, Effect
  <2>3. s[1] # <<"release", u>>
    <3>1. <<"cut", t>>[1] # "release" /\ <<"release", u>>[1] = "release" OBVIOUS
    <3> QED BY <1>2, <3>1
  <2>4. CASE u = t
    <3>1. \A i \in DOMAIN s : s[i] = <<"release", u>> <=> i = 2 BY <1>2, <2>3, <2>4
    <3>2. retainCount'[u] = retainCount[u] - Lost(x, u) + 1 - Held(u) + Held(u)'
      BY <1>1, <2>1, <2>2, <2>4 DEF Held, TypeOK
    <3>3. TypeOK /\ TypeOK' /\ Counted /\ s \in Seq(Steps) /\ 2 \in DOMAIN s BY <1>2, <1>5
    <3> QED BY ONLY <2>2, <3>1, <3>2, <3>3, CountedMore, u \in Terminals, x \in Actors
  <2>5. CASE u # t
    <3>1. \A i \in DOMAIN s : s[i] # <<"release", u>> BY <1>2, <2>3, <2>5
    <3>2. retainCount'[u] = retainCount[u] - Lost(x, u) - Held(u) + Held(u)'
      BY <1>1, <2>1, <2>2, <2>5 DEF Held, TypeOK
    <3> QED BY <1>2, <1>5, <2>2, <3>1, <3>2, CountedLess
  <2> QED BY <2>4, <2>5
<1>8. /\ Keeps({"delete", "throw", "hangup", "unlock", "send", "dealloc", "bury", "deliver", "hand"})
      /\ \A th \in exited : th \in Actors /\ Idle(th) => Idle(th)'
  <2>1. \A i \in DOMAIN s : s[i][1] \in {"cut", "release"} BY <1>2
  <2> QED BY <1>3, <2>1, EffectKeeps
<1>9. ThrownDead' /\ ThrownOnce'
  <2>1. /\ \A y \in Actors : \A u : Has(y, <<"throw", u>>)' <=> Has(y, <<"throw", u>>)
        /\ \A u : Has(Collector, <<"delete", u>>)' <=> Has(Collector, <<"delete", u>>)
    BY <1>0, <1>8 DEF Keeps
  <2>2. \A u \in Terminals : Thrown(u)' <=> Thrown(u) BY <2>1 DEF Thrown
  <2>3. \A u \in Terminals : Thrown(u) => u # t BY <1>1 DEF Alive
  <2>4. \A u \in Terminals : u # t => retainCount'[u] = retainCount[u] BY <1>1 DEF TypeOK
  <2>5. ThrownDead' BY <2>2, <2>3, <2>4 DEF ThrownDead
  <2>6. ThrownOnce' BY <2>1 DEF ThrownOnce
  <2> QED BY <2>5, <2>6
<1>10. Fresh'
  <2>1. t \in made BY <1>1 DEF Alive, Live
  <2> QED BY <1>1, <2>1 DEF Fresh, TypeOK
<1>11. Attached'
  <2>1. \A y \in Actors : \A o : Has(y, <<"dealloc", o>>)' <=> Has(y, <<"dealloc", o>>)
    BY <1>8 DEF Keeps
  <2>2. \A y \in Actors, q \in Ports : q # p /\ Has(y, <<"sever", q>>) => Has(y, <<"sever", q>>)'
    BY <1>3 DEF Effect
  <2>3. \A y \in Actors : \A u : Has(y, <<"cut", u>>) => Has(y, <<"cut", u>>)'
    BY <1>3 DEF Effect
  <2>4. \A y \in Actors : \A u : Has(y, <<"cut", u>>)' => Has(y, <<"cut", u>>) \/ (y = x /\ u = t)
    <3>1. \A i \in DOMAIN s : \A u : s[i] = <<"cut", u>> => u = t
      <4>1. \A u : <<"cut", u>>[1] = "cut" /\ <<"cut", u>>[2] = u OBVIOUS
      <4>2. s[2][1] # "cut" /\ s[1][2] = t BY <1>2
      <4> QED BY <1>2, <4>1, <4>2
    <3> QED BY <1>3, <3>1 DEF Effect
  <2>5. \A q \in Ports : terminal'[q] = IF q = p THEN None ELSE terminal[q] BY <1>1 DEF TypeOK
  <2>6. \A y \in Actors, q \in Ports : Has(y, <<"dealloc", q>>)' =>
          terminal'[q] = None \/ Has(y, <<"sever", q>>)'
    BY <2>1, <2>2, <2>5 DEF Attached
  <2>7. \A y \in Actors, u \in Terminals, q \in Ports :
          Has(y, <<"cut", u>>)' /\ port[u] = q => Has(y, <<"dealloc", q>>)'
    <3>1. Has(x, <<"dealloc", p>>) BY <1>4 DEF Later, Has
    <3> QED BY <1>1, <2>1, <2>4, <3>1 DEF Attached
  <2>8. ASSUME NEW u \in Terminals, u \in handed \/ connection[u] # None
        PROVE  port[u] = None \/ terminal'[port[u]] = u \/ \E y \in Actors : Has(y, <<"cut", u>>)'
    <3>1. CASE port[u] = None BY <3>1
    <3>2. CASE \E y \in Actors : Has(y, <<"cut", u>>) BY <2>3, <3>2
    <3>3. CASE port[u] # None /\ terminal[port[u]] = u
      <4>1. CASE port[u] = p
        <5>1. u = t BY <3>3, <4>1 DEF t
        <5>2. Has(x, <<"cut", u>>)' BY <1>2, <1>3, <5>1 DEF Effect
        <5> QED BY <5>2
      <4>2. CASE port[u] # p
        <5>1. port[u] \in Ports BY <3>3 DEF TypeOK
        <5> QED BY <2>5, <3>3, <4>2, <5>1
      <4> QED BY <4>1, <4>2
    <3> QED BY <2>8, <3>1, <3>2, <3>3 DEF Attached
  <2>9. \A q \in Ports : terminal'[q] # None =>
          port[terminal'[q]] = q /\ q \in Live /\ terminal'[q] \in made
    BY <2>5 DEF Attached
  <2>10. reading = "port.cpp" => \A q \in Ports : terminal'[q] = None BY <2>5 DEF Attached
  <2> QED BY <2>6, <2>7, <2>8, <2>9, <2>10 DEF Attached, Live
<1>12. /\ Adds({"unlock", "send"}) /\ Adds({"dealloc", "bury"})
       /\ Adds({"deliver", "hand"}) /\ Keeps({"delete", "hangup"})
  BY <1>8 DEF Keeps, Adds
<1> QED BY <1>5, <1>6, <1>7, <1>8, <1>9, <1>10, <1>11, <1>12, KeptConnected,
         KeptOwned, KeptDelivered, KeptPending DEF Same

\* The port is deleted by its thread, which unlinks it, or by the collector for a thread
\* that has exited.
LEMMA DeallocInv ==
  ASSUME IInv, NEW x \in Actors, NEW p \in Ports, Dealloc(x, p),
         UNCHANGED <<owner, port, connection, portLock, connectionVars, made, handed,
                     exited, buried, reading, garbage>>
  PROVE  IInv'
<1> USE IpcAssumption DEF IInv, connectionVars
<1> DEFINE r == <<"dealloc", p>>
           th == owner[p]
<1>0. Collector \in Actors /\ Threads \subseteq Actors BY DEF Actors
<1>1. /\ Doing(x, r) /\ Then(x, <<>>) /\ freed' = freed \cup {p}
      /\ UNCHANGED <<terminal, lastMessage, retainCount>>
      /\ x = Collector => UNCHANGED <<portList, isQueued, pendingPorts>>
      /\ x # Collector => portList' = [portList EXCEPT ![x] = @ \ {p}] /\ RemovePending(p)
  BY DEF Dealloc
<1>2. <<>> \in Seq(Steps) /\ DOMAIN <<>> = {} OBVIOUS
<1>3. Effect(x, {r}, <<>>) BY <1>1, <1>2, ThenEffect
<1>4. /\ Has(x, r) /\ ~Idle(x) /\ \A q : Later(x, q) => q[1] \in LaterKinds /\ q[1] # "dealloc"
  <2>1. r[1] = "dealloc" /\ r[1] \notin {"release", "deliver"} OBVIOUS
  <2> QED BY <1>1, <2>1, Next1
<1>5. /\ p \in Live /\ p \in portList[th] /\ th \in Threads
      /\ \/ x = th /\ th \notin exited /\ x # Collector
         \/ x = Collector /\ th \in exited
  <2>1. /\ p \in Live /\ p \in portList[th]
        /\ x = th \/ (x = Collector /\ th \in exited)
    BY <1>4 DEF Owned
  <2>2. th \in Threads BY DEF TypeOK
  <2>3. x = th => th \notin exited /\ x # Collector BY <1>4, <2>2 DEF Owned
  <2> QED BY <2>1, <2>2, <2>3
<1> HIDE DEF th
<1>6. terminal[p] = None
  <2>1. <<"sever", p>> # r /\ <<"sever", p>>[1] \notin LaterKinds BY DEF LaterKinds
  <2>2. ~Has(x, <<"sever", p>>) BY <1>3, <1>4, <2>1 DEF Effect
  <2> QED BY <1>4, <2>2 DEF Attached
<1>7. /\ Keeps({"delete", "throw", "hangup", "unlock", "send", "sever", "cut", "bury", "deliver", "hand"})
      /\ Adds({"dealloc"}) /\ \A v \in exited : v \in Actors /\ Idle(v) => Idle(v)'
  BY <1>3, EffectKeeps
<1>8. \A y \in Actors, q \in Ports : Has(y, <<"dealloc", q>>)' => q # p /\ Has(y, <<"dealloc", q>>)
  <2>1. \A y \in Actors, q \in Ports : Has(y, <<"dealloc", q>>)' => Has(y, <<"dealloc", q>>)
    BY <1>7 DEF Adds
  <2>2. ASSUME NEW y \in Actors, Has(y, r)' PROVE FALSE
    <3>0. Has(y, r) BY <2>1, <2>2
    <3>1. Has(y, r) /\ ~Idle(y)
      <4>1. PICK i \in DOMAIN work[y] : work[y][i] = r BY <3>0 DEF Has
      <4>2. DOMAIN work[y] # {} BY <4>1
      <4> QED BY <3>0, <4>2 DEF Idle
    <3>2. y = th \/ (y = Collector /\ th \in exited) BY <3>1 DEF Owned, th
    <3>3. th \in exited => Idle(th) BY DEF Owned
    <3>4. y = x BY <1>5, <3>1, <3>2, <3>3
    <3>5. Later(x, r) BY <1>2, <1>3, <2>2, <3>4 DEF Effect
    <3>6. r[1] = "dealloc" OBVIOUS
    <3> QED BY <1>4, <3>5, <3>6
  <2> QED BY <2>1, <2>2
<1>9. \A o : o \notin Ports => (o \in freed' <=> o \in freed) BY <1>1
<1>10. Same(Terminals) /\ Same(Terminals \cup Connections) BY <1>9 DEF Same
<1>11. \A v \in Threads : portList'[v] = IF v = x THEN portList[v] \ {p} ELSE portList[v]
  <2>1. CASE x = Collector BY <1>1, <2>1
  <2>2. CASE x # Collector BY <1>1, <2>2 DEF TypeOK
  <2> QED BY <2>1, <2>2
<1>12. portList' \in [Threads -> SUBSET Ports]
  <2>1. CASE x = Collector BY <1>1, <2>1 DEF TypeOK
  <2>2. CASE x # Collector
    <3>1. x \in Threads /\ portList \in [Threads -> SUBSET Ports] BY <1>5, <2>2 DEF TypeOK
    <3>2. portList[x] \ {p} \in SUBSET Ports BY <3>1
    <3>3. portList' = [portList EXCEPT ![x] = portList[x] \ {p}] BY <1>1, <2>2
    <3> QED BY ONLY <3>1, <3>2, <3>3
  <2> QED BY <2>1, <2>2
\* The poll state.
<1>13. /\ pendingPorts' \in [Threads -> Seq(Ports)] /\ isQueued' \subseteq Ports
       /\ \A v \in Threads \ exited :
            /\ Range(pendingPorts'[v]) = {q \in isQueued' : owner[q] = v}
            /\ Range(pendingPorts'[v]) \subseteq Live \ {p} /\ IsInjective(pendingPorts'[v])
  <2>0. /\ pendingPorts \in [Threads -> Seq(Ports)] /\ isQueued \subseteq Ports
        /\ \A v \in Threads \ exited :
             /\ Range(pendingPorts[v]) = {q \in isQueued : owner[q] = v}
             /\ Range(pendingPorts[v]) \subseteq Live /\ IsInjective(pendingPorts[v])
    BY DEF TypeOK, PendingExact
  <2>1. CASE x = Collector
    <3>1. \A v \in Threads \ exited : p \notin Range(pendingPorts[v])
      BY <1>5, <2>0, <2>1 DEF th
    <3> QED BY <1>1, <2>0, <2>1, <3>1
  <2>2. CASE x # Collector
    <3>1. x = th /\ x \in Threads \ exited BY <1>5, <2>2
    <3>2. /\ isQueued' = isQueued \ {p}
          /\ pendingPorts' = IF p \notin isQueued THEN pendingPorts
                             ELSE [pendingPorts EXCEPT ![x] = Unlinked(pendingPorts[x], p)]
      BY <1>1, <2>2, <3>1 DEF RemovePending, th
    <3>3. \A v \in Threads \ exited : v # x => p \notin Range(pendingPorts[v])
      BY <2>0, <3>1 DEF th
    <3>4. \A v \in Threads \ exited : v # x =>
            {q \in isQueued' : owner[q] = v} = {q \in isQueued : owner[q] = v}
      BY <3>1, <3>2 DEF th
    <3>5. {q \in isQueued' : owner[q] = x} = {q \in isQueued : owner[q] = x} \ {p} BY <3>2
    <3>6. CASE p \notin isQueued
      <4>1. \A v \in Threads \ exited : p \notin Range(pendingPorts[v]) BY <2>0, <3>6
      <4>2. isQueued' = isQueued BY <3>2, <3>6
      <4> QED BY <2>0, <3>2, <3>6, <4>1, <4>2
    <3>7. CASE p \in isQueued
      <4>1. p \in Range(pendingPorts[x]) BY <2>0, <3>1, <3>7 DEF th
      <4>2. /\ Unlinked(pendingPorts[x], p) \in Seq(Ports) /\ IsInjective(Unlinked(pendingPorts[x], p))
            /\ Range(Unlinked(pendingPorts[x], p)) = Range(pendingPorts[x]) \ {p}
        <5>1. pendingPorts[x] \in Seq(Ports) /\ IsInjective(pendingPorts[x]) BY <2>0, <3>1
        <5> QED BY <4>1, <5>1, UnlinkedOne
      <4> DEFINE l == Unlinked(pendingPorts[x], p)
      <4> HIDE DEF l
      <4>3. pendingPorts' = [pendingPorts EXCEPT ![x] = l] BY <3>2, <3>7 DEF l
      <4>4. l \in Seq(Ports) /\ IsInjective(l) /\ Range(l) = Range(pendingPorts[x]) \ {p}
        BY <4>2 DEF l
      <4>5. \A v \in Threads : pendingPorts'[v] = IF v = x THEN l ELSE pendingPorts[v]
        BY <2>0, <4>3
      <4>6. pendingPorts' \in [Threads -> Seq(Ports)] BY <2>0, <4>3, <4>4
      <4>7. ASSUME NEW v \in Threads \ exited
            PROVE  /\ Range(pendingPorts'[v]) = {q \in isQueued' : owner[q] = v}
                   /\ Range(pendingPorts'[v]) \subseteq Live \ {p} /\ IsInjective(pendingPorts'[v])
        <5>1. CASE v = x BY <2>0, <3>1, <3>5, <4>4, <4>5, <5>1
        <5>2. CASE v # x BY <2>0, <3>3, <3>4, <4>5, <5>2
        <5> QED BY <5>1, <5>2
      <4> QED BY <2>0, <3>2, <4>6, <4>7
    <3> QED BY <3>6, <3>7
  <2> QED BY <2>1, <2>2
<1>14. PendingExact'
  <2>1. Live' = Live \ {p} BY <1>1 DEF Live
  <2> QED BY <1>13, <2>1 DEF PendingExact, Range, IsInjective
<1>15. TypeOK'
  <2>1. freed' \subseteq made BY <1>1, <1>5 DEF TypeOK, Live
  <2> QED BY <1>1, <1>3, <1>12, <1>13, <2>1 DEF TypeOK, Effect
<1>16. Form' BY <1>3, KeptForm
<1>17. Counted'
  <2>1. \A u \in Terminals : Lost(x, u) = 0 BY <1>1 DEF Lost, Doing
  <2> QED BY <1>1, <1>2, <1>3, <1>15, <2>1, KeptCounted
<1>18. Owned'
  <2>1. ASSUME NEW y \in Actors, NEW q \in Ports, Has(y, <<"dealloc", q>>)'
        PROVE  /\ q \in Live' /\ q \in portList'[owner[q]]
               /\ y = owner[q] \/ (y = Collector /\ owner[q] \in exited)
    <3>1. q # p /\ Has(y, <<"dealloc", q>>) BY <1>8, <2>1
    <3>2. /\ q \in Live /\ q \in portList[owner[q]] /\ owner[q] \in Threads
          /\ y = owner[q] \/ (y = Collector /\ owner[q] \in exited)
      BY <3>1 DEF Owned, TypeOK
    <3> QED BY <1>1, <1>11, <3>1, <3>2 DEF Live
  <2>2. \A v \in exited : Idle(v)' BY <1>0, <1>7 DEF Owned, TypeOK
  <2>3. \A v \in Threads : v \in Range(garbage) \/ Has(Collector, <<"bury", v>>)' => v \in exited
    BY <1>0, <1>7 DEF Keeps, Owned
  <2>4. ASSUME NEW v \in Threads, NEW q \in portList'[v]
        PROVE  owner[q] = v /\ q \in made /\ (v \notin exited => q \notin freed')
    <3>1. q \in portList[v] /\ (v = x => q # p) BY <1>11, <2>4
    <3>2. owner[q] = v /\ q \in made /\ (v \notin exited => q \notin freed) BY <3>1 DEF Owned
    <3>3. v \notin exited => q # p BY <1>5, <3>1, <3>2 DEF th
    <3> QED BY <1>1, <3>2, <3>3
  <2>5. ASSUME NEW q \in Ports \cap made PROVE q \in freed' \/ q \in portList'[owner[q]]
    <3>1. owner[q] \in Threads BY DEF TypeOK
    <3>2. q \in freed \/ q \in portList[owner[q]] BY DEF Owned
    <3>3. q # p => (q \in portList[owner[q]] => q \in portList'[owner[q]]) BY <1>11, <3>1
    <3> QED BY <1>1, <3>2, <3>3
  <2>6. \A v \in buried : \A q \in Ports \cap made : owner[q] = v => q \in freed'
    BY <1>1 DEF Owned
  <2> QED BY <2>1, <2>2, <2>3, <2>4, <2>5, <2>6 DEF Owned
<1>19. Attached'
  <2>1. \A y \in Actors : \A o : /\ Has(y, <<"sever", o>>)' <=> Has(y, <<"sever", o>>)
                                 /\ Has(y, <<"cut", o>>)' <=> Has(y, <<"cut", o>>)
    BY <1>7 DEF Keeps
  <2>2. \A q \in Ports : terminal[q] # None =>
          port[terminal[q]] = q /\ q \in Live' /\ terminal[q] \in made
    BY <1>1, <1>6 DEF Attached, Live
  <2>3. \A y \in Actors, q \in Ports : Has(y, <<"dealloc", q>>)' =>
          terminal[q] = None \/ Has(y, <<"sever", q>>)'
    BY <1>8, <2>1 DEF Attached
  <2>4. ASSUME NEW y \in Actors, NEW u \in Terminals, NEW q \in Ports,
               Has(y, <<"cut", u>>)', port[u] = q
        PROVE  Has(y, <<"dealloc", q>>)'
    <3>1. Has(y, <<"cut", u>>) /\ Has(y, <<"dealloc", q>>) BY <2>1, <2>4 DEF Attached
    <3>2. y # x
      <4>1. <<"cut", u>>[1] = "cut" /\ <<"cut", u>> # r /\ "cut" \notin LaterKinds BY DEF LaterKinds
      <4> QED BY <1>3, <1>4, <3>1, <4>1 DEF Effect
    <3> QED BY <1>3, <3>1, <3>2 DEF Effect
  <2>5. \A u \in Terminals : u \in handed \/ connection[u] # None =>
          \/ port[u] = None \/ terminal[port[u]] = u
          \/ \E y \in Actors : Has(y, <<"cut", u>>)'
    BY <2>1 DEF Attached
  <2> QED BY <1>1, <2>2, <2>3, <2>4, <2>5 DEF Attached
<1>20. /\ Adds({"delete", "throw"}) /\ Adds({"unlock", "send"})
       /\ Adds({"deliver", "hand"}) /\ Keeps({"delete", "hangup"})
  BY <1>7 DEF Keeps, Adds
<1> QED BY <1>1, <1>10, <1>14, <1>15, <1>16, <1>17, <1>18, <1>19, <1>20, KeptThrown, KeptFresh,
         KeptConnected, KeptDelivered

LEMMA PortStepInv == ASSUME IInv, NEW x \in Actors, NEW p \in Ports, PortStep(x, p) PROVE IInv'
<1>1. UNCHANGED <<owner, port, connection, portLock, connectionVars, made, handed,
                  exited, buried, reading, garbage>>
  BY DEF PortStep
<1>2. CASE Dealloc(x, p) BY <1>1, <1>2, DeallocInv
<1>3. CASE Sever(x, p)
  <2>1. /\ Doing(x, <<"sever", p>>)
        /\ UNCHANGED <<lastMessage, isQueued, pendingPorts, portList, freed>>
        /\ \/ terminal[p] = None /\ Then(x, <<>>) /\ UNCHANGED <<terminal, retainCount>>
           \/ /\ GetTerminal(p) /\ terminal' = Detach(p)
              /\ Then(x, <<<<"cut", terminal[p]>>, <<"release", terminal[p]>>>>)
    BY <1>3 DEF Sever
  <2>2. CASE terminal[p] = None /\ Then(x, <<>>) /\ UNCHANGED <<terminal, retainCount>>
    BY <1>1, <2>1, <2>2, SeverNothingInv
  <2>3. CASE /\ GetTerminal(p) /\ terminal' = Detach(p)
             /\ Then(x, <<<<"cut", terminal[p]>>, <<"release", terminal[p]>>>>)
    BY <1>1, <2>1, <2>3, SeverInv
  <2> QED BY <2>1, <2>2, <2>3
<1> QED BY <1>2, <1>3 DEF PortStep

-----------------------------------------------------------------------------
(* Threads.                                                                *)

\* A step that leaves everybody's work alone.
LEMMA WorkStays ==
  ASSUME IInv, UNCHANGED work
  PROVE  /\ Form' /\ \A kinds : Keeps(kinds) /\ Adds(kinds)
         /\ \A y \in Actors : Idle(y)' <=> Idle(y)
         /\ \A y \in Actors : \A q : Has(y, q)' <=> Has(y, q)
<1>1. \A y \in Actors : \A q : Has(y, q)' <=> Has(y, q) BY DEF Has
<1>2. \A y \in Actors : Idle(y)' <=> Idle(y) BY DEF Idle
<1>3. ASSUME NEW x \in Actors, NEW i \in DOMAIN work'[x] PROVE FormAt(x, i)'
  <2>1. FormAt(x, i) BY DEF IInv, Form
  <2> QED BY <2>1 DEF FormAt
<1> QED BY <1>1, <1>2, <1>3 DEF Keeps, Adds, Form
LEMMA CountedStays ==
  ASSUME IInv, TypeOK', UNCHANGED work, NEW t \in Terminals,
         retainCount'[t] = retainCount[t] - Held(t) + Held(t)'
  PROVE  IsFiniteSet(References(t)') /\ retainCount'[t] = Cardinality(References(t)')
<1> USE DEF IInv
<1>1. CountedBy /\ CountedBy' BY CountedAs, PTL
<1>2. InCalls(t)' = InCalls(t) BY DEF InCalls
<1>3. /\ IsFiniteSet(InCalls(t)) /\ retainCount[t] = Cardinality(InCalls(t)) + Held(t)
  BY <1>1 DEF Counted, CountedBy
<1>4. IsFiniteSet(References(t)') /\ Cardinality(References(t)') = Cardinality(InCalls(t)) + Held(t)'
  BY <1>1, <1>2, <1>3 DEF CountedBy
<1>5. Held(t) \in Int /\ Held(t)' \in Int /\ Cardinality(InCalls(t)) \in Int
  BY <1>3, FS_CardinalityType DEF Held
<1> QED BY <1>3, <1>4, <1>5

\* A new port belongs to its thread, or has been deleted at once.
LEMMA CreatePortInv ==
  ASSUME IInv, NEW th \in Threads, Idle(th), th \notin exited, NEW p \in Ports, CreatePort(th, p),
         UNCHANGED <<owner, connectionVars, buried, reading>>
  PROVE  IInv'
<1> USE IpcAssumption DEF IInv, connectionVars
<1>0. Collector \in Actors /\ Threads \subseteq Actors BY DEF Actors
<1>1. /\ owner[p] = th /\ p \notin made /\ made' = made \cup {p}
      /\ \/ portList' = [portList EXCEPT ![th] = @ \cup {p}] /\ freed' = freed
         \/ freed' = freed \cup {p} /\ portList' = portList
      /\ UNCHANGED <<terminal, lastMessage, isQueued, pendingPorts, port, retainCount, connection,
                     portLock, handed, exited, garbage, work>>
  BY DEF CreatePort, portVars, terminalVars
<1>2. /\ Form' /\ \A kinds : Keeps(kinds) /\ Adds(kinds)
      /\ \A y \in Actors : Idle(y)' <=> Idle(y)
      /\ \A y \in Actors : \A q : Has(y, q)' <=> Has(y, q)
  BY <1>1, WorkStays
<1>3. /\ \A v \in Threads : portList[v] \subseteq portList'[v] /\ portList'[v] \subseteq portList[v] \cup {p}
      /\ \A v \in Threads : p \in portList'[v] => v = th \/ p \in portList[v]
      /\ p \in freed' \/ p \in portList'[th]
  <2>1. portList \in [Threads -> SUBSET Ports] BY DEF TypeOK
  <2>2. CASE portList' = [portList EXCEPT ![th] = @ \cup {p}]
    <3>1. \A v \in Threads : portList'[v] = IF v = th THEN portList[v] \cup {p} ELSE portList[v]
      BY <2>1, <2>2
    <3> QED BY <3>1
  <2>3. CASE freed' = freed \cup {p} /\ portList' = portList BY <2>3
  <2> QED BY <1>1, <2>2, <2>3
<1>4. p \notin freed /\ \A o : o # p => (o \in freed' <=> o \in freed) /\ (o \in made' <=> o \in made)
  BY <1>1 DEF TypeOK
<1>5. TypeOK'
  <2>1. portList' \in [Threads -> SUBSET Ports]
    <3>1. portList \in [Threads -> SUBSET Ports] BY DEF TypeOK
    <3>2. portList[th] \cup {p} \in SUBSET Ports BY <3>1
    <3>3. [portList EXCEPT ![th] = @ \cup {p}] \in [Threads -> SUBSET Ports] BY <3>1, <3>2
    <3> QED BY <1>1, <3>1, <3>3
  <2>2. made' \subseteq Objects /\ freed' \subseteq made' BY <1>1 DEF TypeOK, Objects
  <2> QED BY <1>1, <2>1, <2>2 DEF TypeOK
<1>6. Counted'
  <2>1. \A u \in Terminals : retainCount'[u] = retainCount[u] - Held(u) + Held(u)'
    BY <1>1 DEF Held, TypeOK
  <2> QED BY <1>1, <1>5, <2>1, CountedStays DEF Counted
<1>7. Same(Terminals) /\ Same(Terminals \cup Connections) BY <1>4 DEF Same
<1>8. \A o : o \in Live => o \in Live' BY <1>1, <1>4 DEF Live
<1>9. Owned'
  <2>1. \A y \in Actors, q \in Ports : Has(y, <<"dealloc", q>>)' =>
          /\ q \in Live' /\ q \in portList'[owner[q]]
          /\ y = owner[q] \/ (y = Collector /\ owner[q] \in exited)
    <3>1. \A q \in Ports : owner[q] \in Threads BY DEF TypeOK
    <3> QED BY <1>2, <1>3, <1>8, <3>1 DEF Owned
  <2>2. \A v \in exited : Idle(v)' BY <1>0, <1>2 DEF Owned, TypeOK
  <2>3. \A v \in Threads : v \in Range(garbage) \/ Has(Collector, <<"bury", v>>)' => v \in exited
    BY <1>0, <1>2 DEF Owned
  <2>4. ASSUME NEW v \in Threads, NEW q \in portList'[v]
        PROVE  owner[q] = v /\ q \in made' /\ (v \notin exited => q \notin freed')
    <3>1. CASE q \in portList[v]
      <4>1. owner[q] = v /\ q \in made /\ (v \notin exited => q \notin freed) BY <3>1 DEF Owned
      <4> QED BY <1>1, <1>4, <4>1
    <3>2. CASE q \notin portList[v]
      <4>1. q = p /\ v = th BY <1>3, <2>4, <3>2
      <4>2. portList' # portList BY <2>4, <3>2
      <4> QED BY <1>1, <1>4, <4>1, <4>2
    <3> QED BY <3>1, <3>2
  <2>5. ASSUME NEW q \in Ports \cap made' PROVE q \in freed' \/ q \in portList'[owner[q]]
    <3>1. CASE q = p BY <1>1, <1>3, <3>1
    <3>2. CASE q # p
      <4>1. owner[q] \in Threads /\ (q \in freed \/ q \in portList[owner[q]])
        BY <1>4, <3>2 DEF Owned, TypeOK
      <4> QED BY <1>3, <1>4, <3>2, <4>1
    <3> QED BY <3>1, <3>2
  <2>6. \A v \in buried : \A q \in Ports \cap made' : owner[q] = v => q \in freed'
    BY <1>1 DEF Owned, TypeOK
  <2> QED BY <1>1, <2>1, <2>2, <2>3, <2>4, <2>5, <2>6 DEF Owned
<1>10. Attached'
  <2>1. \A q \in Ports : terminal[q] # None =>
          port[terminal[q]] = q /\ q \in Live' /\ terminal[q] \in made'
    BY <1>1, <1>8 DEF Attached
  <2> QED BY <1>1, <1>2, <2>1 DEF Attached
<1>11. PendingExact' BY <1>1, <1>8 DEF PendingExact
<1> QED BY <1>1, <1>2, <1>5, <1>6, <1>7, <1>9, <1>10, <1>11, KeptThrown, KeptFresh,
         KeptConnected, KeptDelivered

\* Who sends through a port retains its terminal under the port's lock.
LEMMA SendInv ==
  ASSUME IInv, NEW th \in Threads, Idle(th), th \notin exited, NEW p \in Ports, Send(th, p),
         UNCHANGED <<owner, connectionVars, buried, reading>>
  PROVE  IInv'
<1> USE IpcAssumption DEF IInv, connectionVars
<1> DEFINE t == terminal[p]
           s == <<<<"read", t>>, <<"release", t>>>>
<1>0. Collector \in Actors /\ th \in Actors BY DEF Actors
<1>1. /\ t \in Terminals /\ port[t] = p /\ Alive(t) /\ Start(th, s)
      /\ retainCount' = [retainCount EXCEPT ![t] = @ + 1]
      /\ UNCHANGED <<terminal, lastMessage, isQueued, pendingPorts, port, connection,
                     portLock, portList, freed, made, handed, exited, garbage>>
  <2>1. t # None BY DEF Send, GetTerminal
  <2>2. t \in Terminals /\ port[t] = p BY <2>1 DEF TypeOK, Attached
  <2>3. Alive(t) BY <2>2, UsedAlive DEF Objects
  <2> QED BY <2>2, <2>3 DEF Send, GetTerminal, CountUp, portVars
<1>2. /\ s \in Seq(Steps) /\ DOMAIN s = {1, 2} /\ Len(s) = 2
      /\ s[1] = <<"read", t>> /\ s[2] = <<"release", t>>
  <2>1. <<"read", t>> \in Steps /\ <<"release", t>> \in Steps BY <1>1 DEF Steps
  <2> QED BY <2>1
<1> HIDE DEF s, t
<1>3. Effect(th, {}, s) /\ \A q : ~Has(th, q) /\ ~Later(th, q) BY <1>0, <1>1, <1>2, StartEffect
<1>5. TypeOK' BY <1>1, <1>3 DEF TypeOK, Effect
<1>6. Form'
  <2>1. \A j \in DOMAIN work[th] : ~(j > 1) BY <1>3 DEF Later
  <2>2. StepFits(th, s, 1)
    <3>1. s[1][1] = "read" /\ s[1][2] = t /\ s[2][1] = "release" BY <1>2
    <3>3. \A j \in DOMAIN s : j > 1 => s[j][1] # "read" BY <1>2, <3>1
    <3>4. \E j \in DOMAIN s : j > 1 /\ s[j] = <<"release", t>> BY <1>2
    <3> QED BY <2>1, <3>1, <3>3, <3>4 DEF StepFits
  <2>3. StepFits(th, s, 2) BY <1>2 DEF StepFits, Uses, LaterKinds
  <2>4. \A i \in DOMAIN s : StepFits(th, s, i) BY <1>2, <2>2, <2>3
  <2> QED BY <1>0, <1>2, <1>3, <2>4, FormBecomes DEF Effect
<1>7. Counted'
  <2> SUFFICES ASSUME NEW u \in Terminals
               PROVE  IsFiniteSet(References(u)') /\ retainCount'[u] = Cardinality(References(u)')
    BY DEF Counted
  <2>1. Lost(th, u) = 0 BY DEF Lost
  <2>2. retainCount[u] \in Nat /\ Becomes(th, s) BY <1>3 DEF TypeOK, Effect
  <2>3. s[1] # <<"release", u>>
    <3>1. <<"read", t>>[1] # "release" /\ <<"release", u>>[1] = "release" OBVIOUS
    <3> QED BY <1>2, <3>1
  <2>4. CASE u = t
    <3>1. \A i \in DOMAIN s : s[i] = <<"release", u>> <=> i = 2 BY <1>2, <2>3, <2>4
    <3>2. retainCount'[u] = retainCount[u] - Lost(th, u) + 1 - Held(u) + Held(u)'
      BY <1>1, <2>1, <2>2, <2>4 DEF Held, TypeOK
    <3>3. TypeOK /\ TypeOK' /\ Counted /\ s \in Seq(Steps) /\ 2 \in DOMAIN s /\ th \in Actors
      BY <1>0, <1>2, <1>5
    <3> QED BY ONLY <2>2, <3>1, <3>2, <3>3, CountedMore, u \in Terminals
  <2>5. CASE u # t
    <3>1. \A i \in DOMAIN s : s[i] # <<"release", u>> BY <1>2, <2>3, <2>5
    <3>2. retainCount'[u] = retainCount[u] - Lost(th, u) - Held(u) + Held(u)'
      BY <1>1, <2>1, <2>2, <2>5 DEF Held, TypeOK
    <3> QED BY <1>0, <1>2, <1>5, <2>2, <3>1, <3>2, CountedLess
  <2> QED BY <2>4, <2>5
<1>8. /\ Keeps({"delete", "throw", "hangup", "unlock", "send", "sever", "cut", "dealloc", "bury", "deliver", "hand"})
      /\ \A v \in exited : v \in Actors /\ Idle(v) => Idle(v)'
  <2>1. \A i \in DOMAIN s : s[i][1] \in {"read", "release"} BY <1>2
  <2> HIDE DEF IInv
  <2> QED BY ONLY <1>0, <1>3, <2>1, EffectKeeps
<1>9. ThrownDead' /\ ThrownOnce'
  <2>1. /\ \A y \in Actors : \A u : Has(y, <<"throw", u>>)' <=> Has(y, <<"throw", u>>)
        /\ \A u : Has(Collector, <<"delete", u>>)' <=> Has(Collector, <<"delete", u>>)
    BY <1>0, <1>8 DEF Keeps
  <2>2. \A u \in Terminals : Thrown(u)' <=> Thrown(u) BY <1>1, <2>1 DEF Thrown
  <2>3. \A u \in Terminals : Thrown(u) => u # t BY <1>1 DEF Alive
  <2>4. \A u \in Terminals : u # t => retainCount'[u] = retainCount[u] BY <1>1 DEF TypeOK
  <2>5. ThrownDead' BY <1>1, <2>2, <2>3, <2>4 DEF ThrownDead
  <2>6. ThrownOnce' BY <1>1, <2>1 DEF ThrownOnce
  <2> QED BY <2>5, <2>6
<1>10. Fresh'
  <2>1. t \in made BY <1>1 DEF Alive, Live
  <2> QED BY <1>1, <2>1 DEF Fresh, TypeOK
<1>12. /\ Adds({"unlock", "send"}) /\ Adds({"dealloc", "bury"}) /\ Adds({"deliver", "hand"})
       /\ Keeps({"delete", "hangup"}) /\ Keeps({"dealloc", "sever", "cut"})
  BY <1>8 DEF Keeps, Adds
<1> QED BY <1>1, <1>5, <1>6, <1>7, <1>8, <1>9, <1>10, <1>12, KeptConnected, KeptAttached,
         KeptOwned, KeptDelivered, KeptPending DEF Same

\* A thread destroys a port of its own.
LEMMA DestroyPortInv ==
  ASSUME IInv, NEW th \in Threads, Idle(th), th \notin exited, NEW p \in Ports, DestroyPort(th, p),
         UNCHANGED <<owner, connectionVars, buried, reading>>
  PROVE  IInv'
<1> USE IpcAssumption DEF IInv, connectionVars
<1> DEFINE s == <<<<"sever", p>>, <<"dealloc", p>>>>
<1>0. Collector \in Actors /\ th \in Actors BY DEF Actors
<1>1. /\ p \in portList[th] /\ Start(th, s)
      /\ UNCHANGED <<terminal, lastMessage, isQueued, pendingPorts, port, retainCount, connection,
                     portLock, portList, freed, made, handed, exited, garbage>>
  BY DEF DestroyPort, portVars, terminalVars
<1>2. /\ s \in Seq(Steps) /\ DOMAIN s = {1, 2} /\ Len(s) = 2
      /\ s[1] = <<"sever", p>> /\ s[2] = <<"dealloc", p>>
  <2>1. <<"sever", p>> \in Steps /\ <<"dealloc", p>> \in Steps BY DEF Steps
  <2> QED BY <2>1
<1> HIDE DEF s
<1>3. Effect(th, {}, s) /\ \A q : ~Has(th, q) /\ ~Later(th, q) BY <1>0, <1>1, <1>2, StartEffect
<1>4. owner[p] = th /\ p \in Live BY <1>1 DEF Owned, Live
<1>5. TypeOK' BY <1>1, <1>3 DEF TypeOK, Effect
<1>6. Form'
  <2>1. \A j \in DOMAIN work[th] : ~(j > 1) BY <1>3 DEF Later
  <2>2. StepFits(th, s, 1)
    <3>1. s[1][1] = "sever" /\ s[1][2] = p /\ s[2][1] = "dealloc" BY <1>2
    <3>3. \A j \in DOMAIN s : j > 1 => s[j][1] # "sever" BY <1>2, <3>1
    <3>4. \E j \in DOMAIN s : j > 1 /\ s[j] = <<"dealloc", p>> BY <1>2
    <3> QED BY <2>1, <3>1, <3>3, <3>4 DEF StepFits, Uses
  <2>3. StepFits(th, s, 2) BY <1>2, <2>1 DEF StepFits, Uses, LaterKinds
  <2>4. \A i \in DOMAIN s : StepFits(th, s, i) BY <1>2, <2>2, <2>3
  <2> QED BY <1>0, <1>2, <1>3, <2>4, FormBecomes DEF Effect
<1>7. Counted'
  <2>1. \A u \in Terminals : Lost(th, u) = 0 BY DEF Lost
  <2>2. \A i \in DOMAIN s : s[i][1] # "release" BY <1>2
  <2> QED BY <1>0, <1>1, <1>2, <1>3, <1>5, <2>1, <2>2, KeptCounted
<1>8. /\ Keeps({"delete", "throw", "hangup", "unlock", "send", "cut", "bury", "deliver", "hand"})
      /\ \A v \in exited : v \in Actors /\ Idle(v) => Idle(v)'
  <2>1. \A i \in DOMAIN s : s[i][1] \in {"sever", "dealloc"} BY <1>2
  <2> QED BY ONLY <1>0, <1>3, <2>1, EffectKeeps
<1>9. \A y \in Actors : \A q : Has(y, <<"dealloc", q>>)' => Has(y, <<"dealloc", q>>) \/ (y = th /\ q = p)
  <2>1. \A i \in DOMAIN s : \A q : s[i] = <<"dealloc", q>> => q = p
    <3>1. \A q : <<"dealloc", q>>[1] = "dealloc" /\ <<"dealloc", q>>[2] = q OBVIOUS
    <3>2. s[1][1] # "dealloc" /\ s[2][2] = p BY <1>2
    <3> QED BY <1>2, <3>1, <3>2
  <2> QED BY <1>3, <2>1 DEF Effect
<1>10. \A y \in Actors : \A q : Has(y, q) => Has(y, q)' BY <1>3 DEF Effect
<1>11. Owned'
  <2>1. \A y \in Actors, q \in Ports : Has(y, <<"dealloc", q>>)' =>
          /\ q \in Live /\ q \in portList[owner[q]]
          /\ y = owner[q] \/ (y = Collector /\ owner[q] \in exited)
    BY <1>1, <1>4, <1>9 DEF Owned
  <2>2. \A v \in exited : Idle(v)'
    <3>1. \A v \in exited : v \in Actors BY DEF TypeOK, Actors
    <3> QED BY <1>8, <3>1 DEF Owned
  <2>3. \A v \in Threads : v \in Range(garbage) \/ Has(Collector, <<"bury", v>>)' => v \in exited
    BY <1>0, <1>8 DEF Keeps, Owned
  <2> QED BY <1>1, <2>1, <2>2, <2>3 DEF Owned, Live
<1>12. Attached'
  <2>1. \A y \in Actors : \A o : Has(y, <<"cut", o>>)' <=> Has(y, <<"cut", o>>) BY <1>8 DEF Keeps
  <2>2. Has(th, <<"sever", p>>)' BY <1>2, <1>3 DEF Effect
  <2>3. \A y \in Actors, q \in Ports : Has(y, <<"dealloc", q>>)' =>
          terminal[q] = None \/ Has(y, <<"sever", q>>)'
    BY <1>9, <1>10, <2>2 DEF Attached
  <2>4. \A y \in Actors, u \in Terminals, q \in Ports :
          Has(y, <<"cut", u>>)' /\ port[u] = q => Has(y, <<"dealloc", q>>)'
    BY <1>10, <2>1 DEF Attached
  <2>5. \A u \in Terminals : u \in handed \/ connection[u] # None =>
          \/ port[u] = None \/ terminal[port[u]] = u
          \/ \E y \in Actors : Has(y, <<"cut", u>>)'
    BY <2>1 DEF Attached
  <2> QED BY <1>1, <2>3, <2>4, <2>5 DEF Attached, Live
<1>13. /\ Adds({"delete", "throw"}) /\ Adds({"unlock", "send"})
       /\ Adds({"deliver", "hand"}) /\ Keeps({"delete", "hangup"})
  BY <1>8 DEF Keeps, Adds
<1> QED BY <1>1, <1>5, <1>6, <1>7, <1>11, <1>12, <1>13, KeptThrown, KeptFresh, KeptConnected,
         KeptDelivered, KeptPending DEF Same

\* SetTerminal accepts a new terminal only for a port that is alive and has none.
LEMMA DialInv ==
  ASSUME IInv, NEW th \in Threads, Idle(th), th \notin exited, NEW p \in Ports,
         NEW t \in Terminals, Dial(th, p, t), UNCHANGED <<owner, connectionVars, buried, reading>>
  PROVE  IInv'
<1> USE IpcAssumption DEF IInv, connectionVars
<1> DEFINE s == <<<<"release", t>>>>
           Refused == Start(th, s) /\ UNCHANGED <<terminal, handed>>
           Accepted == /\ terminal[p] = None /\ reading = "port.hpp"
                       /\ terminal' = [terminal EXCEPT ![p] = t] /\ handed' = handed \cup {t}
                       /\ UNCHANGED work
<1>0. Collector \in Actors /\ Threads \subseteq Actors BY DEF Actors
<1>1. /\ p \in portList[th] /\ t \notin made /\ made' = made \cup {t}
      /\ port' = [port EXCEPT ![t] = p] /\ retainCount' = [retainCount EXCEPT ![t] = @ + 1]
      /\ UNCHANGED <<lastMessage, isQueued, pendingPorts, portList, connection, portLock,
                     freed, exited, garbage>>
  BY DEF Dial, CountUp
<1>2. Refused \/ Accepted
  <2>1. SetTerminal(p) => reading = "port.hpp" /\ terminal[p] = None
    BY DEF SetTerminal, Attached, TypeOK
  <2> QED BY <2>1 DEF Dial
<1> HIDE DEF Refused, Accepted
<1>3. /\ s \in Seq(Steps) /\ DOMAIN s = {1} /\ s[1] = <<"release", t>> /\ Len(s) = 1
  <2>1. <<"release", t>> \in Steps BY DEF Steps
  <2> QED BY <2>1
<1> HIDE DEF s
<1>4. /\ port[t] = None /\ retainCount[t] = 0 /\ connection[t] = None
      /\ t \notin freed /\ t \notin handed /\ ~Thrown(t)
      /\ \A y \in Actors : ~Has(y, <<"release", t>>)
      /\ \A q \in Ports : terminal[q] # t
  <2>1. port[t] = None /\ retainCount[t] = 0 /\ connection[t] = None BY <1>1 DEF Fresh
  <2>2. t \notin freed /\ ~Thrown(t) BY <1>1 DEF ThrownDead, TypeOK
  <2>3. ~Alive(t) BY <1>1 DEF Alive, Live
  <2>4. t \notin handed /\ \A y \in Actors : ~Has(y, <<"release", t>>) BY <2>3, UsedAlive
  <2>5. \A q \in Ports : terminal[q] # t BY <1>1 DEF Attached, Objects
  <2> QED BY <2>1, <2>2, <2>4, <2>5
<1>5. \A y \in Actors : /\ ~Has(y, <<"cut", t>>)
                        /\ \A m : ~Has(y, <<"hand", t, m>>) /\ ~Has(y, <<"deliver", t, m>>)
  BY <1>4, UserAlive
<1>6. owner[p] = th /\ p \in Live /\ \A y \in Actors : ~Has(y, <<"dealloc", p>>)
  <2>1. owner[p] = th /\ p \in Live BY <1>1 DEF Owned, Live
  <2>2. ASSUME NEW y \in Actors, Has(y, <<"dealloc", p>>) PROVE FALSE
    <3>1. y = th BY <2>1, <2>2 DEF Owned
    <3>2. PICK i \in DOMAIN work[th] : TRUE BY <2>2, <3>1 DEF Has
    <3>3. work[th] # <<>> BY <3>2
    <3> QED BY <3>3 DEF Idle
  <2> QED BY <2>1, <2>2
<1>7. /\ \A u \in Terminals : port'[u] = IF u = t THEN p ELSE port[u]
      /\ \A u \in Terminals : retainCount'[u] = IF u = t THEN 1 ELSE retainCount[u]
  BY <1>1, <1>4 DEF TypeOK
<1>8. ASSUME Refused PROVE Effect(th, {}, s) /\ \A q : ~Has(th, q) /\ ~Later(th, q)
  BY <1>0, <1>3, <1>8, StartEffect DEF Refused
<1>9. /\ Keeps({"delete", "throw", "hangup", "unlock", "send", "dealloc", "sever", "cut", "bury", "deliver", "hand"})
      /\ \A v \in exited : v \in Actors /\ Idle(v) => Idle(v)'
  <2>1. CASE Refused
    <3>1. \A i \in DOMAIN s : s[i][1] = "release" BY <1>3
    <3> QED BY <1>0, <1>8, <2>1, <3>1, EffectKeeps
  <2>2. CASE Accepted BY <2>2, WorkStays DEF Accepted
  <2> QED BY <1>2, <2>1, <2>2
<1>10. TypeOK'
  <2>1. made' \subseteq Objects /\ freed' \subseteq made' BY <1>1 DEF TypeOK, Objects
  <2>2. port' \in [Terminals -> Ports \cup {None}] /\ retainCount' \in [Terminals -> Nat]
    BY <1>1 DEF TypeOK
  <2>3. CASE Refused BY <1>1, <1>8, <2>1, <2>2, <2>3 DEF TypeOK, Effect, Refused
  <2>4. CASE Accepted BY <1>1, <2>1, <2>2, <2>4 DEF TypeOK, Accepted
  <2> QED BY <1>2, <2>3, <2>4
<1>11. Form'
  <2>1. CASE Refused
    <3>1. \A i \in DOMAIN s : StepFits(th, s, i) BY <1>3, <1>8, <2>1 DEF StepFits, Uses, Later
    <3> QED BY <1>0, <1>3, <1>8, <2>1, <3>1, FormBecomes DEF Effect
  <2>2. CASE Accepted BY <2>2, WorkStays DEF Accepted
  <2> QED BY <1>2, <2>1, <2>2
<1>12. Counted'
  <2> SUFFICES ASSUME NEW u \in Terminals
               PROVE  IsFiniteSet(References(u)') /\ retainCount'[u] = Cardinality(References(u)')
    BY DEF Counted
  <2>1. retainCount[u] \in Nat BY DEF TypeOK
  <2>2. CASE Refused
    <3>1. Lost(th, u) = 0 /\ Becomes(th, s) /\ Held(u)' = Held(u) /\ Held(u) \in Nat
      BY <1>8, <2>2 DEF Lost, Effect, Held, Refused
    <3>2. CASE u = t
      <4>1. \A i \in DOMAIN s : s[i] = <<"release", u>> <=> i = 1 BY <1>3, <3>2
      <4>2. retainCount'[u] = retainCount[u] - Lost(th, u) + 1 - Held(u) + Held(u)'
        BY <1>4, <1>7, <3>1, <3>2
      <4>3. TypeOK /\ TypeOK' /\ Counted /\ s \in Seq(Steps) /\ 1 \in DOMAIN s /\ th \in Actors
        BY <1>0, <1>3, <1>10
      <4> QED BY ONLY <3>1, <4>1, <4>2, <4>3, CountedMore, u \in Terminals
    <3>3. CASE u # t
      <4>1. \A i \in DOMAIN s : s[i] # <<"release", u>> BY <1>3, <3>3
      <4>2. retainCount'[u] = retainCount[u] - Lost(th, u) - Held(u) + Held(u)'
        BY <1>7, <2>1, <3>1, <3>3
      <4> QED BY <1>0, <1>3, <1>10, <3>1, <4>1, <4>2, CountedLess
    <3> QED BY <3>2, <3>3
  <2>3. CASE Accepted
    <3>1. retainCount'[u] = retainCount[u] - Held(u) + Held(u)'
      <4>1. CASE u = t BY <1>4, <1>7, <2>3, <4>1 DEF Held, Accepted
      <4>2. CASE u # t BY <1>7, <2>1, <2>3, <4>2 DEF Held, Accepted
      <4> QED BY <4>1, <4>2
    <3> QED BY <1>10, <2>3, <3>1, CountedStays DEF Accepted
  <2> QED BY <1>2, <2>2, <2>3
<1>13. /\ \A y \in Actors : \A o : /\ Has(y, <<"throw", o>>)' <=> Has(y, <<"throw", o>>)
                                   /\ Has(y, <<"delete", o>>)' <=> Has(y, <<"delete", o>>)
                                   /\ Has(y, <<"hangup", o>>)' <=> Has(y, <<"hangup", o>>)
                                   /\ Has(y, <<"cut", o>>)' <=> Has(y, <<"cut", o>>)
                                   /\ Has(y, <<"sever", o>>)' <=> Has(y, <<"sever", o>>)
                                   /\ Has(y, <<"dealloc", o>>)' <=> Has(y, <<"dealloc", o>>)
                                   /\ Has(y, <<"unlock", o>>)' <=> Has(y, <<"unlock", o>>)
       /\ \A y \in Actors : \A o, m : /\ Has(y, <<"send", o, m>>)' <=> Has(y, <<"send", o, m>>)
                                      /\ Has(y, <<"hand", o, m>>)' <=> Has(y, <<"hand", o, m>>)
                                      /\ Has(y, <<"deliver", o, m>>)' <=> Has(y, <<"deliver", o, m>>)
  BY <1>9 DEF Keeps
<1>14. ThrownDead' /\ ThrownOnce'
  <2>1. \A u \in Terminals : Thrown(u)' <=> Thrown(u) BY <1>0, <1>1, <1>13 DEF Thrown
  <2>2. ThrownDead' BY <1>1, <1>4, <1>7, <2>1 DEF ThrownDead
  <2>3. ThrownOnce'
    <3>1. ThrownOnce /\ UNCHANGED <<freed, garbage>> BY <1>1
    <3> QED BY ONLY <1>0, <1>13, <3>1 DEF ThrownOnce
  <2> QED BY <2>2, <2>3
<1>15. Fresh' BY <1>1, <1>7 DEF Fresh
<1>16. Connected'
  <2>1. \A o : o \in Live => o \in Live' BY <1>1 DEF Live
  <2>2. \A c \in Connections : \A u \in ends[c] :
          /\ connection[u] = c /\ u \in Live'
          /\ Has(Collector, <<"delete", u>>)' => Has(Collector, <<"hangup", u>>)'
    BY <1>0, <1>13, <2>1 DEF Connected
  <2>3. \A u \in Terminals : connection[u] # None =>
          /\ connection[u] \in made' /\ u \in made'
          /\ \/ u \in ends[connection[u]] \/ u \in freed
             \/ Has(Collector, <<"delete", u>>)' /\ ~Has(Collector, <<"hangup", u>>)'
    BY <1>0, <1>1, <1>13 DEF Connected
  <2>4. \A y \in Actors, c \in Connections : Has(y, <<"unlock", c>>)' => lock[c] = Operator /\ c \in Live'
    BY <1>13, <2>1 DEF Connected
  <2>5. ASSUME NEW y \in Actors, NEW c \in Connections, NEW u \in Terminals, Has(y, <<"send", c, u>>)'
        PROVE  connection[u] = c
    <3>1. Has(y, <<"send", c, u>>) BY <1>13, <2>5
    <3> QED BY <3>1 DEF Connected
  <2>6. \A c \in Connections : c \in freed => ends[c] = {} BY DEF Connected
  <2> QED BY <1>1, <2>2, <2>3, <2>4, <2>5, <2>6 DEF Connected
<1>17. Delivered'
  <2>1. ASSUME NEW y \in Actors, NEW u \in Terminals, NEW m \in Messages
        PROVE  /\ Has(y, <<"deliver", u, m>>)' => connection[u] # None
               /\ Has(y, <<"hand", u, m>>)' => connection[u] # None /\ portLock[u] = y /\ port'[u] # None
    <3>1. /\ Has(y, <<"deliver", u, m>>)' => Has(y, <<"deliver", u, m>>)
          /\ Has(y, <<"hand", u, m>>)' => Has(y, <<"hand", u, m>>) /\ u # t
      BY <1>5, <1>13
    <3> QED BY <1>7, <3>1 DEF Delivered
  <2> QED BY <1>1, <2>1 DEF Delivered
<1>18. Same(Ports)
  <2>1. t \notin Ports OBVIOUS
  <2> QED BY <1>1, <2>1 DEF Same
<1>19. Attached'
  <2>1. ASSUME NEW y \in Actors, NEW u \in Terminals, NEW q \in Ports,
               Has(y, <<"cut", u>>)', port'[u] = q
        PROVE  Has(y, <<"dealloc", q>>)'
    <3>1. Has(y, <<"cut", u>>) /\ u # t BY <1>5, <1>13, <2>1
    <3>2. Has(y, <<"dealloc", q>>) BY <1>7, <2>1, <3>1 DEF Attached
    <3> QED BY <1>13, <3>2
  <2>2. CASE Refused
    <3>1. terminal' = terminal /\ handed' = handed BY <2>2 DEF Refused
    <3>2. \A q \in Ports : terminal[q] # None =>
            port'[terminal[q]] = q /\ q \in Live' /\ terminal[q] \in made'
      BY <1>1, <1>4, <1>7 DEF Attached, Live, TypeOK
    <3>3. \A y \in Actors, q \in Ports : Has(y, <<"dealloc", q>>)' =>
            terminal[q] = None \/ Has(y, <<"sever", q>>)'
      BY <1>13 DEF Attached
    <3>4. \A u \in Terminals : u \in handed \/ connection[u] # None =>
            \/ port'[u] = None \/ terminal[port'[u]] = u
            \/ \E y \in Actors : Has(y, <<"cut", u>>)'
      BY <1>4, <1>7, <1>13 DEF Attached
    <3> QED BY <1>1, <2>1, <3>1, <3>2, <3>3, <3>4 DEF Attached
  <2>3. CASE Accepted
    <3>1. /\ terminal[p] = None /\ reading = "port.hpp" /\ handed' = handed \cup {t}
          /\ \A q \in Ports : terminal'[q] = IF q = p THEN t ELSE terminal[q]
      BY <2>3 DEF Accepted, TypeOK
    <3>2. \A q \in Ports : terminal'[q] # None =>
            port'[terminal'[q]] = q /\ q \in Live' /\ terminal'[q] \in made'
      BY <1>1, <1>4, <1>6, <1>7, <3>1 DEF Attached, Live, TypeOK
    <3>3. \A y \in Actors, q \in Ports : Has(y, <<"dealloc", q>>)' =>
            terminal'[q] = None \/ Has(y, <<"sever", q>>)'
      <4> SUFFICES ASSUME NEW y \in Actors, NEW q \in Ports, Has(y, <<"dealloc", q>>)'
                   PROVE  terminal'[q] = None \/ Has(y, <<"sever", q>>)'
        OBVIOUS
      <4>1. Has(y, <<"dealloc", q>>) /\ q # p BY <1>6, <1>13
      <4>2. terminal[q] = None \/ Has(y, <<"sever", q>>) BY <4>1 DEF Attached
      <4>3. terminal'[q] = terminal[q] BY <3>1, <4>1
      <4>4. Has(y, <<"sever", q>>)' <=> Has(y, <<"sever", q>>) BY <1>13
      <4> QED BY <4>2, <4>3, <4>4
    <3>4. ASSUME NEW u \in Terminals, u \in handed' \/ connection[u] # None
          PROVE  \/ port'[u] = None \/ terminal'[port'[u]] = u
                 \/ \E y \in Actors : Has(y, <<"cut", u>>)'
      <4>1. CASE u = t BY <1>7, <3>1, <4>1
      <4>2. CASE u # t
        <5>1. u \in handed \/ connection[u] # None BY <3>1, <3>4, <4>2
        <5>2. port[u] = None \/ port[u] \in Ports BY DEF TypeOK
        <5>3. port[u] \in Ports /\ terminal[port[u]] = u => terminal'[port[u]] = u
          BY <3>1 DEF Objects
        <5>4. \/ port[u] = None \/ terminal[port[u]] = u
              \/ \E y \in Actors : Has(y, <<"cut", u>>)
          BY <5>1 DEF Attached
        <5> QED BY <1>7, <1>13, <4>2, <5>2, <5>3, <5>4
      <4> QED BY <4>1, <4>2
    <3>5. \A u \in handed' : connection[u] = None BY <1>4, <3>1 DEF Attached
    <3> QED BY <1>1, <2>1, <3>1, <3>2, <3>3, <3>4, <3>5 DEF Attached
  <2> QED BY <1>2, <2>2, <2>3
<1>20. Adds({"dealloc", "bury"}) BY <1>9 DEF Keeps, Adds
<1> QED BY <1>1, <1>9, <1>10, <1>11, <1>12, <1>14, <1>15, <1>16, <1>17, <1>18, <1>19, <1>20,
         KeptOwned, KeptPending

\* A thread that exits has nothing left to do, and is thrown away once.
LEMMA ExitInv ==
  ASSUME IInv, NEW th \in Threads, Idle(th), th \notin exited, Exit(th),
         UNCHANGED <<owner, connectionVars, buried, reading>>
  PROVE  IInv'
<1> USE IpcAssumption DEF IInv, connectionVars
<1>0. Collector \in Actors /\ Threads \subseteq Actors BY DEF Actors
<1>1. /\ exited' = exited \cup {th} /\ garbage' = Append(garbage, th)
      /\ UNCHANGED <<terminal, lastMessage, isQueued, pendingPorts, port, retainCount, connection,
                     portLock, portList, freed, made, handed, work>>
  BY DEF Exit, portVars, terminalVars
<1>2. /\ Form' /\ \A kinds : Keeps(kinds) /\ Adds(kinds)
      /\ \A y \in Actors : Idle(y)' <=> Idle(y)
      /\ \A y \in Actors : \A q : Has(y, q)' <=> Has(y, q)
  BY <1>1, WorkStays
<1>3. /\ garbage' \in Seq(Terminals \cup Threads) /\ Range(garbage)' = Range(garbage) \cup {th}
      /\ \A i \in DOMAIN garbage' :
           \/ i \in DOMAIN garbage /\ garbage'[i] = garbage[i]
           \/ i = Len(garbage) + 1 /\ garbage'[i] = th
  <2>1. garbage \in Seq(Terminals \cup Threads) /\ th \in Terminals \cup Threads BY DEF TypeOK
  <2>2. Range(garbage)' = Range(garbage') BY DEF Range
  <2> HIDE DEF IInv
  <2> QED BY <1>1, <2>1, <2>2, AppendRange
<1>4. th \notin Terminals BY DEF Objects
<1>5. TypeOK'
  <2>1. exited' \subseteq Threads /\ buried' \subseteq exited' BY <1>1 DEF TypeOK
  <2> QED BY <1>1, <1>3, <2>1 DEF TypeOK
<1>6. Counted'
  <2>1. \A u \in Terminals : retainCount'[u] = retainCount[u] - Held(u) + Held(u)'
    BY <1>1 DEF Held, TypeOK
  <2> QED BY <1>1, <1>5, <2>1, CountedStays DEF Counted
<1>7. \A u \in Terminals : u \in Range(garbage)' <=> u \in Range(garbage) BY <1>3, <1>4
<1>8. ThrownDead'
  <2>1. \A u \in Terminals : Thrown(u)' <=> Thrown(u) BY <1>0, <1>1, <1>2, <1>7 DEF Thrown
  <2> QED BY <1>1, <2>1 DEF ThrownDead
<1>9. ThrownOnce'
  <2>1. ASSUME NEW u \in Terminals, NEW i \in DOMAIN garbage', NEW j \in DOMAIN garbage',
               garbage'[i] = u, garbage'[j] = u
        PROVE  i = j
    <3>1. i \in DOMAIN garbage /\ garbage[i] = u /\ j \in DOMAIN garbage /\ garbage[j] = u
      BY <1>3, <1>4, <2>1
    <3> QED BY <3>1 DEF ThrownOnce
  <2> QED BY <1>0, <1>1, <1>2, <1>7, <2>1 DEF ThrownOnce
<1>10. Owned'
  <2>1. \A v \in exited' : Idle(v)' BY <1>0, <1>1, <1>2 DEF Owned, TypeOK
  <2>2. \A v \in Threads : v \in Range(garbage)' \/ Has(Collector, <<"bury", v>>)' => v \in exited'
    BY <1>0, <1>1, <1>2, <1>3 DEF Owned
  <2>3. \A y \in Actors, q \in Ports : Has(y, <<"dealloc", q>>)' =>
          /\ q \in Live /\ q \in portList[owner[q]]
          /\ y = owner[q] \/ (y = Collector /\ owner[q] \in exited')
    BY <1>1, <1>2 DEF Owned
  <2>4. \A v \in Threads : \A q \in portList[v] :
          owner[q] = v /\ q \in made /\ (v \notin exited' => q \notin freed)
    BY <1>1 DEF Owned
  <2>5. /\ \A q \in Ports \cap made : q \in freed \/ q \in portList[owner[q]]
        /\ \A v \in buried : \A q \in Ports \cap made : owner[q] = v => q \in freed
    BY DEF Owned
  <2> QED BY <1>1, <2>1, <2>2, <2>3, <2>4, <2>5 DEF Owned, Live
<1>11. PendingExact' BY <1>1 DEF PendingExact, Live
<1>12. handed' \subseteq handed BY <1>1
<1> QED BY <1>1, <1>2, <1>5, <1>6, <1>8, <1>9, <1>10, <1>11, <1>12, KeptFresh, KeptConnected,
         KeptAttached, KeptDelivered DEF Same

LEMMA ThreadStepInv == ASSUME IInv, NEW th \in Threads, ThreadStep(th) PROVE IInv'
<1>1. Idle(th) /\ th \notin exited /\ UNCHANGED <<owner, connectionVars, buried, reading>>
  BY DEF ThreadStep
<1> QED BY <1>1, ExitInv, CreatePortInv, SendInv, DestroyPortInv, DialInv DEF ThreadStep

-----------------------------------------------------------------------------
(* The collector.                                                          *)

LEMMA TailRange ==
  ASSUME NEW S, NEW q \in Seq(S), q # <<>>
  PROVE  /\ Tail(q) \in Seq(S) /\ Head(q) \in S /\ Head(q) \in Range(q)
         /\ Range(q) = Range(Tail(q)) \cup {Head(q)}
         /\ 1 \in DOMAIN q /\ Head(q) = q[1]
         /\ \A i \in DOMAIN Tail(q) : /\ i + 1 \in DOMAIN q /\ i + 1 # 1
                                      /\ Tail(q)[i] = q[i + 1] /\ i \in Int
<1>1. /\ Tail(q) \in Seq(S) /\ Len(q) \in Nat /\ Len(q) > 0 /\ Len(Tail(q)) = Len(q) - 1
      /\ \A i \in 1..(Len(q) - 1) : Tail(q)[i] = q[i + 1]
      /\ Head(q) = q[1]
  OBVIOUS
<1>2. DOMAIN q = 1..Len(q) /\ DOMAIN Tail(q) = 1..(Len(q) - 1) BY <1>1
<1>3. \A i \in DOMAIN Tail(q) : /\ i + 1 \in DOMAIN q /\ i + 1 # 1
                                /\ Tail(q)[i] = q[i + 1] /\ i \in Int
  BY <1>1, <1>2
<1>4. 1 \in DOMAIN q /\ Head(q) = q[1] /\ Head(q) \in S BY <1>1, <1>2
<1>5. ASSUME NEW i \in DOMAIN q, i # 1 PROVE q[i] \in Range(Tail(q))
  <2>1. i - 1 \in DOMAIN Tail(q) /\ i - 1 + 1 = i BY <1>1, <1>2, <1>5
  <2>2. Tail(q)[i - 1] = q[i] BY <1>3, <2>1
  <2> QED BY <2>1, <2>2 DEF Range
<1>6. Range(q) = Range(Tail(q)) \cup {Head(q)} BY <1>3, <1>4, <1>5 DEF Range
<1> QED BY <1>1, <1>3, <1>4, <1>6 DEF Range

\* The first of what was thrown away is a thread that has exited, which is buried.
LEMMA CollectThreadInv ==
  ASSUME IInv, NEW o \in Threads, Idle(Collector), garbage # <<>>, o = Head(garbage),
         garbage' = Tail(garbage), Start(Collector, <<<<"bury", o>>>>),
         UNCHANGED <<portVars, terminalVars, connectionVars, made, handed, owner, portList,
                     exited, reading, freed, buried>>
  PROVE  IInv'
<1> USE IpcAssumption DEF IInv
<1> DEFINE x == Collector
           s == <<<<"bury", o>>>>
<1>0. x \in Actors /\ Threads \subseteq Actors /\ x \notin exited /\ o \notin Terminals
  BY DEF Actors, Objects, TypeOK
<1>1. /\ Idle(x) /\ Start(x, s)
      /\ UNCHANGED <<terminal, lastMessage, isQueued, pendingPorts, port, retainCount, connection,
                     portLock, ends, lock>>
      /\ UNCHANGED <<made, handed, owner, portList, exited, reading, freed, buried>>
  BY DEF portVars, terminalVars, connectionVars
<1>2. s \in Seq(Steps) /\ DOMAIN s = {1} /\ s[1] = <<"bury", o>> /\ Len(s) = 1
  <2>1. <<"bury", o>> \in Steps BY DEF Steps
  <2> QED BY <2>1
<1>3. /\ garbage' \in Seq(Terminals \cup Threads) /\ o \in Range(garbage)
      /\ Range(garbage) = Range(garbage)' \cup {o}
      /\ \A i \in DOMAIN garbage' : /\ i + 1 \in DOMAIN garbage
                                    /\ garbage'[i] = garbage[i + 1] /\ i \in Int
  <2>1. garbage \in Seq(Terminals \cup Threads) BY DEF TypeOK
  <2>2. Range(garbage)' = Range(garbage') BY DEF Range
  <2> HIDE DEF IInv
  <2> QED BY <2>1, <2>2, TailRange
<1> HIDE DEF s, x
<1>4. Effect(x, {}, s) /\ \A q : ~Has(x, q) /\ ~Later(x, q) BY <1>0, <1>1, <1>2, StartEffect
<1>5. TypeOK' BY <1>1, <1>3, <1>4 DEF TypeOK, Effect
<1>6. Form'
  <2>1. \A j \in DOMAIN work[x] : ~(j > 1) BY <1>4 DEF Later
  <2>2. s[1][1] = "bury" /\ Len(work[x]) <= 1
    <3>1. work[x] = <<>> /\ Len(<<>>) = 0 BY <1>1 DEF Idle
    <3> QED BY <1>2, <3>1
  <2>3. \A i \in DOMAIN s : StepFits(x, s, i) BY <1>2, <2>1, <2>2 DEF StepFits, Uses, x
  <2> QED BY <1>0, <1>2, <1>4, <2>3, FormBecomes DEF Effect
<1>7. Counted'
  <2>1. \A u \in Terminals : Lost(x, u) = 0 BY <1>1 DEF Lost
  <2>2. \A i \in DOMAIN s : s[i][1] # "release" BY <1>2
  <2> QED BY <1>0, <1>1, <1>2, <1>4, <1>5, <2>1, <2>2, KeptCounted
<1>8. /\ Keeps({"delete", "throw", "hangup", "unlock", "send", "dealloc", "sever", "cut", "deliver", "hand"})
      /\ \A th \in exited : th \in Actors /\ Idle(th) => Idle(th)'
  <2>1. \A i \in DOMAIN s : s[i][1] = "bury" BY <1>2
  <2> QED BY ONLY <1>0, <1>4, <2>1, EffectKeeps
<1>9. \A v : Has(x, <<"bury", v>>)' => v = o
  <2>1. \A v : <<"bury", v>> = <<"bury", o>> => v = o OBVIOUS
  <2> QED BY <1>2, <1>4, <2>1 DEF Effect
<1>10. \A u \in Terminals : u \in Range(garbage)' <=> u \in Range(garbage) BY <1>0, <1>3
<1>11. \A y \in Actors : \A u : /\ Has(y, <<"throw", u>>)' <=> Has(y, <<"throw", u>>)
                                /\ Has(y, <<"delete", u>>)' <=> Has(y, <<"delete", u>>)
                                /\ Has(y, <<"dealloc", u>>)' <=> Has(y, <<"dealloc", u>>)
  BY <1>8 DEF Keeps
<1>12. ThrownDead'
  <2>1. \A u \in Terminals : Thrown(u)' <=> Thrown(u) BY <1>0, <1>1, <1>10, <1>11 DEF Thrown, x
  <2> QED BY <1>1, <2>1 DEF ThrownDead
<1>13. ThrownOnce'
  <2>1. ASSUME NEW u \in Terminals, NEW i \in DOMAIN garbage', NEW j \in DOMAIN garbage',
               garbage'[i] = u, garbage'[j] = u
        PROVE  i = j
    <3>1. i + 1 = j + 1 BY <1>3, <2>1 DEF ThrownOnce
    <3> QED BY <1>3, <3>1
  <2> QED BY <1>0, <1>1, <1>10, <1>11, <2>1 DEF ThrownOnce, x
<1>14. Owned'
  <2>1. \A y \in Actors, p \in Ports : Has(y, <<"dealloc", p>>)' =>
          /\ p \in Live /\ p \in portList[owner[p]]
          /\ y = owner[p] \/ (y = Collector /\ owner[p] \in exited)
    BY <1>11 DEF Owned
  <2>2. \A th \in exited : Idle(th)' BY <1>0, <1>8 DEF Owned, TypeOK
  <2>3. \A th \in Threads : th \in Range(garbage)' \/ Has(Collector, <<"bury", th>>)' => th \in exited
    BY <1>3, <1>9 DEF Owned, x
  <2> QED BY <1>1, <2>1, <2>2, <2>3 DEF Owned, Live
<1>15. /\ Adds({"unlock", "send"}) /\ Adds({"deliver", "hand"})
       /\ Keeps({"delete", "hangup"}) /\ Keeps({"dealloc", "sever", "cut"})
  BY <1>8 DEF Keeps, Adds
<1>16. handed' \subseteq handed BY <1>1
<1> QED BY <1>1, <1>5, <1>6, <1>7, <1>12, <1>13, <1>14, <1>15, <1>16, KeptFresh, KeptConnected,
         KeptAttached, KeptDelivered, KeptPending DEF Same

\* Or it is a terminal, which will hang up and be deleted, and was thrown away only once.
LEMMA CollectTerminalInv ==
  ASSUME IInv, NEW o \in Terminals, Idle(Collector), garbage # <<>>, o = Head(garbage),
         garbage' = Tail(garbage), Start(Collector, <<<<"hangup", o>>, <<"delete", o>>>>),
         UNCHANGED <<portVars, terminalVars, connectionVars, made, handed, owner, portList,
                     exited, reading, freed, buried>>
  PROVE  IInv'
<1> USE IpcAssumption DEF IInv
<1> DEFINE x == Collector
           s == <<<<"hangup", o>>, <<"delete", o>>>>
<1>0. x \in Actors /\ Threads \subseteq Actors /\ x \notin exited /\ o \notin Threads
  BY DEF Actors, Objects, TypeOK
<1>1. /\ Idle(x) /\ Start(x, s)
      /\ UNCHANGED <<terminal, lastMessage, isQueued, pendingPorts, port, retainCount, connection,
                     portLock, ends, lock>>
      /\ UNCHANGED <<made, handed, owner, portList, exited, reading, freed, buried>>
  BY DEF portVars, terminalVars, connectionVars
<1>2. /\ s \in Seq(Steps) /\ DOMAIN s = {1, 2} /\ Len(s) = 2
      /\ s[1] = <<"hangup", o>> /\ s[2] = <<"delete", o>>
  <2>1. <<"hangup", o>> \in Steps /\ <<"delete", o>> \in Steps BY DEF Steps
  <2> QED BY <2>1
<1>3. /\ garbage' \in Seq(Terminals \cup Threads) /\ o \in Range(garbage)
      /\ Range(garbage) = Range(garbage)' \cup {o}
      /\ 1 \in DOMAIN garbage /\ garbage[1] = o
      /\ \A i \in DOMAIN garbage' : /\ i + 1 \in DOMAIN garbage /\ i + 1 # 1
                                    /\ garbage'[i] = garbage[i + 1] /\ i \in Int
  <2>1. garbage \in Seq(Terminals \cup Threads) BY DEF TypeOK
  <2>2. Range(garbage)' = Range(garbage') BY DEF Range
  <2> HIDE DEF IInv
  <2> QED BY <2>1, <2>2, TailRange
<1> HIDE DEF s, x
<1>4. Effect(x, {}, s) /\ \A q : ~Has(x, q) /\ ~Later(x, q) BY <1>0, <1>1, <1>2, StartEffect
<1>5. TypeOK' BY <1>1, <1>3, <1>4 DEF TypeOK, Effect
<1>6. Form'
  <2>1. \A j \in DOMAIN work[x] : ~(j > 1) BY <1>4 DEF Later
  <2>2. Len(work[x]) <= 1
    <3>1. work[x] = <<>> /\ Len(<<>>) = 0 BY <1>1 DEF Idle
    <3> QED BY <3>1
  <2>3. StepFits(x, s, 1)
    <3>1. s[1][1] = "hangup" /\ s[1][2] = o /\ s[2][1] = "delete" BY <1>2
    <3>2. \A j \in DOMAIN s : j > 1 => s[j][1] # "hangup" BY <1>2, <3>1
    <3>3. \E j \in DOMAIN s : j > 1 /\ s[j] = <<"delete", o>> BY <1>2
    <3> QED BY <2>1, <3>1, <3>2, <3>3 DEF StepFits, Uses, x
  <2>4. StepFits(x, s, 2) BY <1>2, <2>1, <2>2 DEF StepFits, Uses, LaterKinds, x
  <2>5. \A i \in DOMAIN s : StepFits(x, s, i) BY <1>2, <2>3, <2>4
  <2> QED BY <1>0, <1>2, <1>4, <2>5, FormBecomes DEF Effect
<1>7. Counted'
  <2>1. \A u \in Terminals : Lost(x, u) = 0 BY <1>1 DEF Lost
  <2>2. \A i \in DOMAIN s : s[i][1] # "release" BY <1>2
  <2> QED BY <1>0, <1>1, <1>2, <1>4, <1>5, <2>1, <2>2, KeptCounted
<1>8. /\ Keeps({"throw", "unlock", "send", "dealloc", "sever", "cut", "bury", "deliver", "hand"})
      /\ \A th \in exited : th \in Actors /\ Idle(th) => Idle(th)'
  <2>1. \A i \in DOMAIN s : s[i][1] \in {"hangup", "delete"} BY <1>2
  <2> QED BY ONLY <1>0, <1>4, <2>1, EffectKeeps
<1>9. /\ \A u : Has(x, <<"delete", u>>)' <=> u = o
      /\ Has(x, <<"hangup", o>>)' /\ \A u : ~Has(x, <<"delete", u>>)
  <2>1. \A u : /\ <<"delete", u>> = <<"delete", o>> => u = o
               /\ <<"delete", u>>[1] = "delete" /\ <<"hangup", o>>[1] = "hangup"
    OBVIOUS
  <2>2. \A i \in DOMAIN s : \A u : s[i] = <<"delete", u>> => u = o BY <1>2, <2>1
  <2>3. Has(x, <<"delete", o>>)' /\ Has(x, <<"hangup", o>>)' BY <1>2, <1>4 DEF Effect
  <2>4. ASSUME NEW u, Has(x, <<"delete", u>>)' PROVE u = o
    <3>1. \E i \in DOMAIN s : s[i] = <<"delete", u>> BY <1>4, <2>4 DEF Effect
    <3> QED BY <2>2, <3>1
  <2>5. \A u : ~Has(x, <<"delete", u>>) BY <1>4
  <2> QED BY ONLY <2>3, <2>4, <2>5
<1>10. \A y \in Actors : \A u : Has(y, <<"throw", u>>)' <=> Has(y, <<"throw", u>>) BY <1>8 DEF Keeps
<1>11. o \notin Range(garbage)'
  <2> SUFFICES ASSUME NEW i \in DOMAIN garbage', garbage'[i] = o PROVE FALSE BY DEF Range
  <2>1. i + 1 \in DOMAIN garbage /\ i + 1 # 1 /\ garbage[i + 1] = o BY <1>3
  <2>2. i + 1 = 1 BY <1>3, <2>1 DEF ThrownOnce
  <2> QED BY <2>1, <2>2
<1>12. ThrownDead'
  <2>1. \A u \in Terminals : Thrown(u)' => Thrown(u) BY <1>0, <1>1, <1>3, <1>9, <1>10 DEF Thrown, x
  <2> QED BY <1>1, <2>1 DEF ThrownDead
<1>13. ThrownOnce'
  <2>1. ASSUME NEW u \in Terminals, NEW i \in DOMAIN garbage', NEW j \in DOMAIN garbage',
               garbage'[i] = u, garbage'[j] = u
        PROVE  i = j
    <3>1. /\ i + 1 \in DOMAIN garbage /\ garbage[i + 1] = u
          /\ j + 1 \in DOMAIN garbage /\ garbage[j + 1] = u
      BY <1>3, <2>1
    <3>2. i + 1 = j + 1 BY <3>1 DEF ThrownOnce
    <3> QED BY <1>3, <3>2
  <2>2. o \notin freed /\ \A y \in Actors : ~Has(y, <<"throw", o>>) BY <1>3 DEF ThrownOnce
  <2>3. ASSUME NEW u \in Terminals
        PROVE  /\ u \in freed => u \notin Range(garbage)' /\ ~Has(x, <<"delete", u>>)'
               /\ u \in Range(garbage)' => ~Has(x, <<"delete", u>>)'
    <3>1. u \in freed => u \notin Range(garbage) BY DEF ThrownOnce
    <3> QED BY <1>3, <1>9, <1>11, <2>2, <3>1
  <2>4. ASSUME NEW u \in Terminals, NEW y \in Actors, Has(y, <<"throw", u>>)'
        PROVE  /\ u \notin freed \cup Range(garbage)' /\ ~Has(x, <<"delete", u>>)'
               /\ \A z \in Actors : Has(z, <<"throw", u>>)' => z = y
    <3>1. Has(y, <<"throw", u>>) BY <1>10, <2>4
    <3> QED BY <1>3, <1>9, <1>10, <2>2, <3>1 DEF ThrownOnce
  <2> QED BY <1>1, <2>1, <2>3, <2>4 DEF ThrownOnce, x
<1>14. Connected'
  <2>1. \A c \in Connections : \A u \in ends[c] :
          /\ connection[u] = c /\ u \in Live
          /\ Has(Collector, <<"delete", u>>)' => Has(Collector, <<"hangup", u>>)'
    BY <1>9 DEF Connected, x
  <2>2. \A u \in Terminals : connection[u] # None =>
          /\ connection[u] \in made /\ u \in made /\ (u \in ends[connection[u]] \/ u \in freed)
    BY <1>9 DEF Connected, x
  <2>3. \A y \in Actors, c \in Connections : Has(y, <<"unlock", c>>)' => lock[c] = Operator /\ c \in Live
    BY <1>8 DEF Keeps, Connected
  <2>4. ASSUME NEW y \in Actors, NEW c \in Connections, NEW u \in Terminals, Has(y, <<"send", c, u>>)'
        PROVE  connection[u] = c
    BY <1>8, <2>4 DEF Keeps, Connected
  <2>5. \A c \in Connections : c \in freed => ends[c] = {} BY DEF Connected
  <2> QED BY <1>1, <2>1, <2>2, <2>3, <2>4, <2>5 DEF Connected, Live
<1>15. Owned'
  <2>1. \A y \in Actors, p \in Ports : Has(y, <<"dealloc", p>>)' => Has(y, <<"dealloc", p>>)
    BY <1>8 DEF Keeps
  <2>2. \A th \in exited : Idle(th)' BY <1>0, <1>8 DEF Owned, TypeOK
  <2>3. \A th \in Threads : th \in Range(garbage)' \/ Has(Collector, <<"bury", th>>)' => th \in exited
    BY <1>0, <1>3, <1>8 DEF Keeps, Owned, x
  <2> QED BY <1>1, <2>1, <2>2, <2>3 DEF Owned, Live
<1>16. Adds({"deliver", "hand"}) /\ Keeps({"dealloc", "sever", "cut"})
  BY <1>8 DEF Keeps, Adds
<1>17. handed' \subseteq handed BY <1>1
<1> QED BY <1>1, <1>5, <1>6, <1>7, <1>12, <1>13, <1>14, <1>15, <1>16, <1>17, KeptFresh,
         KeptAttached, KeptDelivered, KeptPending DEF Same

LEMMA CollectInv ==
  ASSUME IInv, Collect,
         UNCHANGED <<portVars, terminalVars, connectionVars, made, handed, owner, portList,
                     exited, reading>>
  PROVE  IInv'
<1> DEFINE o == Head(garbage)
<1>1. /\ Idle(Collector) /\ garbage # <<>> /\ garbage' = Tail(garbage)
      /\ Start(Collector, IF o \in Threads THEN <<<<"bury", o>>>>
                                           ELSE <<<<"hangup", o>>, <<"delete", o>>>>)
      /\ UNCHANGED <<freed, buried>>
  BY DEF Collect
<1>2. o \in Terminals \cup Threads BY <1>1, TailRange DEF IInv, TypeOK
<1> HIDE DEF o
<1>3. o = Head(garbage) BY DEF o
<1>4. CASE o \in Threads BY <1>1, <1>3, <1>4, CollectThreadInv
<1>5. CASE o \notin Threads BY <1>1, <1>2, <1>3, <1>5, CollectTerminalInv
<1> QED BY <1>4, <1>5

\* A sequence of one element.
LEMMA OneElement ==
  ASSUME NEW S, NEW w \in Seq(S), Len(w) = 1 PROVE w = <<Head(w)>> /\ Tail(w) = <<>>
<1>1. DOMAIN w = 1..1 /\ Head(w) = w[1] OBVIOUS
<1>2. w = [i \in 1..1 |-> w[i]] BY <1>1
<1>3. <<w[1]>> = [i \in 1..1 |-> <<w[1]>>[i]] OBVIOUS
<1>4. \A i \in 1..1 : w[i] = <<w[1]>>[i] OBVIOUS
<1>5. w = <<w[1]>> BY <1>2, <1>3, <1>4
<1>6. Tail(w) = <<>> BY SMTT(30)
<1> QED BY <1>1, <1>5, <1>6

\* What Bury puts in front of the work.
LEMMA BuryWork ==
  ASSUME IInv, NEW th \in Threads, Doing(Collector, <<"bury", th>>), NEW p \in Ports,
         Start(Collector, <<<<"sever", p>>, <<"dealloc", p>>>> \o work[Collector])
  PROVE  Then(Collector, <<<<"sever", p>>, <<"dealloc", p>>, <<"bury", th>>>>)
<1> USE IpcAssumption DEF IInv
<1> DEFINE x == Collector
           r == <<"bury", th>>
           s == <<<<"sever", p>>, <<"dealloc", p>>, r>>
<1>0. x \in Actors BY DEF Actors
<1>1. /\ Has(x, r) /\ Len(work[x]) = 1 /\ \A q : ~Later(x, q)
      /\ ~Idle(x) /\ work[x] \in Seq(Steps) /\ Head(work[x]) = r
  <2>1. r[1] = "bury" OBVIOUS
  <2>2. work[x] \in Seq(Steps) BY <1>0 DEF TypeOK
  <2> QED BY <1>0, <2>1, <2>2, Next1
<1>2. /\ s \in Seq(Steps) /\ DOMAIN s = {1, 2, 3} /\ Len(s) = 3
      /\ s[1] = <<"sever", p>> /\ s[2] = <<"dealloc", p>> /\ s[3] = r
  <2>1. <<"sever", p>> \in Steps /\ <<"dealloc", p>> \in Steps /\ r \in Steps BY <1>0 DEF Steps
  <2> QED BY <2>1
<1>3. work[x] = <<r>> /\ Tail(work[x]) = <<>> BY <1>1, OneElement
<1>4. s = <<<<"sever", p>>, <<"dealloc", p>>>> \o <<r>> OBVIOUS
<1>5. s \o <<>> = s BY <1>2
<1>6. work' = [work EXCEPT ![x] = s] BY <1>3, <1>4 DEF Start
<1> QED
  <2> HIDE DEF s, x
  <2>1. Then(x, s) BY <1>3, <1>5, <1>6 DEF Then
  <2> QED BY <2>1 DEF s, x

\* The collector buries a thread: a port that is left is severed and deallocated first.
LEMMA BuryPortInv ==
  ASSUME IInv, NEW th \in Threads, Doing(Collector, <<"bury", th>>),
         NEW p \in portList[th] \ freed,
         Start(Collector, <<<<"sever", p>>, <<"dealloc", p>>>> \o work[Collector]),
         UNCHANGED <<portVars, terminalVars, connectionVars, made, handed, owner, portList,
                     exited, reading, freed, buried, garbage>>
  PROVE  IInv'
<1> USE IpcAssumption DEF IInv
<1> DEFINE x == Collector
           r == <<"bury", th>>
           s == <<<<"sever", p>>, <<"dealloc", p>>, r>>
<1>0. x \in Actors /\ Threads \subseteq Actors /\ p \in Ports BY DEF Actors, TypeOK
<1>1. /\ Doing(x, r)
      /\ UNCHANGED <<terminal, lastMessage, isQueued, pendingPorts, port, retainCount, connection,
                     portLock, ends, lock>>
      /\ UNCHANGED <<made, handed, owner, portList, exited, reading, freed, buried, garbage>>
  BY DEF portVars, terminalVars, connectionVars
<1>2. /\ s \in Seq(Steps) /\ DOMAIN s = {1, 2, 3} /\ Len(s) = 3
      /\ s[1] = <<"sever", p>> /\ s[2] = <<"dealloc", p>> /\ s[3] = r
  <2>1. <<"sever", p>> \in Steps /\ <<"dealloc", p>> \in Steps /\ r \in Steps BY <1>0 DEF Steps
  <2> QED BY <2>1
<1>3. /\ Has(x, r) /\ Len(work[x]) = 1 /\ \A q : ~Later(x, q)
      /\ ~Idle(x) /\ work[x] \in Seq(Steps) /\ Head(work[x]) = r
  <2>1. r[1] = "bury" OBVIOUS
  <2>2. work[x] \in Seq(Steps) BY <1>0 DEF TypeOK
  <2> QED BY <1>0, <1>1, <2>1, <2>2, Next1
<1>4. Then(x, s) BY <1>0, <1>1, BuryWork
<1> HIDE DEF s, x
<1>5. Effect(x, {r}, s) BY <1>0, <1>1, <1>2, <1>4, ThenEffect
<1>6. TypeOK' BY <1>1, <1>5 DEF TypeOK, Effect
<1>7. Form'
  <2>1. Len(work[x]) <= 1 /\ \A j \in DOMAIN work[x] : ~(j > 1) BY <1>3 DEF Later
  <2>2. /\ s[1][1] = "sever" /\ s[2][1] = "dealloc" /\ s[3][1] = "bury" /\ s[1][2] = p
    BY <1>2
  <2>3. StepFits(x, s, 1)
    <3>1. \A j \in DOMAIN s : j > 1 => s[j][1] # "sever" BY <1>2, <2>2
    <3>2. \E j \in DOMAIN s : j > 1 /\ s[j] = <<"dealloc", p>> BY <1>2
    <3> QED BY <2>1, <2>2, <3>1, <3>2 DEF StepFits, Uses
  <2>4. StepFits(x, s, 2)
    <3>1. \A j \in DOMAIN s : j > 2 => s[j][1] # "dealloc" BY <1>2, <2>2
    <3> QED BY <2>1, <2>2, <3>1 DEF StepFits, Uses, LaterKinds
  <2>5. StepFits(x, s, 3) BY <1>2, <2>1, <2>2 DEF StepFits, Uses, LaterKinds, x
  <2>6. \A i \in DOMAIN s : StepFits(x, s, i) BY <1>2, <2>3, <2>4, <2>5
  <2> QED BY <1>0, <1>2, <1>5, <2>6, FormBecomes DEF Effect
<1>8. Counted'
  <2>1. \A u \in Terminals : Lost(x, u) = 0 BY <1>3 DEF Lost
  <2>2. \A i \in DOMAIN s : s[i][1] # "release" BY <1>2
  <2> QED BY <1>0, <1>1, <1>2, <1>5, <1>6, <2>1, <2>2, KeptCounted
<1>9. /\ Keeps({"delete", "throw", "hangup", "unlock", "send", "cut", "deliver", "hand"})
      /\ \A v \in exited : v \in Actors /\ Idle(v) => Idle(v)'
  <2>1. \A i \in DOMAIN s : s[i][1] \in {"sever", "dealloc", "bury"} BY <1>2
  <2> QED BY ONLY <1>0, <1>5, <2>1, EffectKeeps
<1>10. \A y \in Actors : \A q : Has(y, <<"dealloc", q>>)' => Has(y, <<"dealloc", q>>) \/ (y = x /\ q = p)
  <2>1. \A i \in DOMAIN s : \A q : s[i] = <<"dealloc", q>> => q = p
    <3>1. \A q : <<"dealloc", q>>[1] = "dealloc" /\ <<"dealloc", q>>[2] = q OBVIOUS
    <3>2. s[1][1] # "dealloc" /\ s[2][2] = p /\ s[3][1] # "dealloc" BY <1>2
    <3> QED BY <1>2, <3>1, <3>2
  <2> QED BY <1>5, <2>1 DEF Effect
<1>11. \A y \in Actors : \A q : Has(y, q) => Has(y, q)'
  <2>1. Has(x, r)' BY <1>2, <1>5 DEF Effect
  <2>2. \A q : Has(x, q) => q = r BY <1>3, <1>5 DEF Effect
  <2>3. ASSUME NEW q, Has(x, q) PROVE Has(x, q)'
    <3>1. q = r BY <2>2, <2>3
    <3> HIDE DEF r
    <3> QED BY <2>1, <3>1
  <2>4. \A y \in Actors \ {x} : \A q : Has(y, q) => Has(y, q)' BY <1>5 DEF Effect
  <2> QED BY <2>3, <2>4
<1>12. owner[p] = th /\ th \in exited /\ p \in Live BY <1>1, <1>3 DEF Owned, Live, x
<1>13. \A v : Has(x, <<"bury", v>>)' => v = th
  <2>1. \A v : <<"bury", v>>[1] = "bury" /\ <<"bury", v>>[2] = v OBVIOUS
  <2>2. s[1][1] # "bury" /\ s[2][1] # "bury" /\ s[3][2] = th BY <1>2
  <2>3. ASSUME NEW v, Has(x, <<"bury", v>>)' PROVE v = th
    <3>1. PICK i \in DOMAIN s : s[i] = <<"bury", v>> BY <1>3, <1>5, <2>3 DEF Effect
    <3>2. i = 3 BY <1>2, <2>1, <2>2, <3>1
    <3> QED BY <2>1, <2>2, <3>1, <3>2
  <2> QED BY <2>3
<1>14. Owned'
  <2>1. \A y \in Actors, q \in Ports : Has(y, <<"dealloc", q>>)' =>
          /\ q \in Live /\ q \in portList[owner[q]]
          /\ y = owner[q] \/ (y = Collector /\ owner[q] \in exited)
    BY <1>10, <1>12 DEF Owned, x
  <2>2. \A v \in exited : Idle(v)'
    <3>1. \A v \in exited : v \in Actors BY DEF TypeOK, Actors
    <3> QED BY <1>9, <3>1 DEF Owned
  <2>3. \A v \in Threads : v \in Range(garbage) \/ Has(Collector, <<"bury", v>>)' => v \in exited
    BY <1>12, <1>13 DEF Owned, x
  <2> QED BY <1>1, <2>1, <2>2, <2>3 DEF Owned, Live
<1>15. Attached'
  <2>1. \A y \in Actors : \A o : Has(y, <<"cut", o>>)' <=> Has(y, <<"cut", o>>) BY <1>9 DEF Keeps
  <2>2. Has(x, <<"sever", p>>)' BY <1>2, <1>5 DEF Effect
  <2>3. \A y \in Actors, q \in Ports : Has(y, <<"dealloc", q>>)' =>
          terminal[q] = None \/ Has(y, <<"sever", q>>)'
    BY <1>10, <1>11, <2>2 DEF Attached
  <2>4. \A y \in Actors, u \in Terminals, q \in Ports :
          Has(y, <<"cut", u>>)' /\ port[u] = q => Has(y, <<"dealloc", q>>)'
    BY <1>11, <2>1 DEF Attached
  <2>5. \A u \in Terminals : u \in handed \/ connection[u] # None =>
          \/ port[u] = None \/ terminal[port[u]] = u
          \/ \E y \in Actors : Has(y, <<"cut", u>>)'
    BY <2>1 DEF Attached
  <2> QED BY <1>1, <2>3, <2>4, <2>5 DEF Attached, Live
<1>16. /\ Adds({"delete", "throw"}) /\ Adds({"unlock", "send"})
       /\ Adds({"deliver", "hand"}) /\ Keeps({"delete", "hangup"})
  BY <1>9 DEF Keeps, Adds
<1> QED BY <1>1, <1>6, <1>7, <1>8, <1>14, <1>15, <1>16, KeptThrown, KeptFresh, KeptConnected,
         KeptDelivered, KeptPending DEF Same

\* When none is left, the thread is deleted.
LEMMA BuriedInv ==
  ASSUME IInv, NEW th \in Threads, Doing(Collector, <<"bury", th>>),
         portList[th] \subseteq freed, buried' = buried \cup {th}, Then(Collector, <<>>),
         UNCHANGED <<portVars, terminalVars, connectionVars, made, handed, owner, portList,
                     exited, reading, freed, garbage>>
  PROVE  IInv'
<1> USE IpcAssumption DEF IInv
<1> DEFINE x == Collector
           r == <<"bury", th>>
<1>0. x \in Actors /\ Threads \subseteq Actors BY DEF Actors
<1>1. /\ Doing(x, r) /\ Then(x, <<>>) /\ buried' = buried \cup {th}
      /\ UNCHANGED <<terminal, lastMessage, isQueued, pendingPorts, port, retainCount, connection,
                     portLock, ends, lock>>
      /\ UNCHANGED <<made, handed, owner, portList, exited, reading, freed, garbage>>
  BY DEF portVars, terminalVars, connectionVars
<1> HIDE DEF x
<1>2. <<>> \in Seq(Steps) /\ DOMAIN <<>> = {} OBVIOUS
<1>3. Effect(x, {r}, <<>>) BY <1>0, <1>1, <1>2, ThenEffect
<1>4. Has(x, r) /\ th \in exited
  <2>1. Has(x, r) BY <1>0, <1>1, Next1
  <2> QED BY <2>1 DEF Owned, x
<1>5. TypeOK' BY <1>1, <1>3, <1>4 DEF TypeOK, Effect
<1>6. Form' BY <1>0, <1>3, KeptForm
<1>7. Counted'
  <2>1. \A u \in Terminals : Lost(x, u) = 0 BY <1>1 DEF Lost, Doing
  <2> QED BY <1>0, <1>1, <1>2, <1>3, <1>5, <2>1, KeptCounted
<1>8. /\ Keeps({"delete", "throw", "hangup", "unlock", "send", "dealloc", "sever", "cut", "deliver", "hand"})
      /\ Adds({"bury"}) /\ \A v \in exited : v \in Actors /\ Idle(v) => Idle(v)'
  BY <1>0, <1>3, EffectKeeps
<1>9. Owned'
  <2>1. \A y \in Actors, p \in Ports : Has(y, <<"dealloc", p>>)' => Has(y, <<"dealloc", p>>)
    BY <1>8 DEF Keeps
  <2>2. \A v \in exited : Idle(v)' BY <1>0, <1>8 DEF Owned, TypeOK
  <2>3. \A v \in Threads : v \in Range(garbage) \/ Has(Collector, <<"bury", v>>)' => v \in exited
    BY <1>0, <1>8 DEF Adds, Owned, x
  <2>4. \A v \in buried' : \A p \in Ports \cap made : owner[p] = v => p \in freed
    BY <1>1 DEF Owned
  <2> QED BY <1>1, <2>1, <2>2, <2>3, <2>4 DEF Owned, Live
<1>10. /\ Adds({"delete", "throw"}) /\ Adds({"unlock", "send"}) /\ Adds({"deliver", "hand"})
       /\ Keeps({"delete", "hangup"}) /\ Keeps({"dealloc", "sever", "cut"})
  BY <1>8 DEF Keeps, Adds
<1>11. handed' \subseteq handed BY <1>1
<1> QED BY <1>1, <1>5, <1>6, <1>7, <1>9, <1>10, <1>11, KeptThrown, KeptFresh, KeptConnected,
         KeptAttached, KeptDelivered, KeptPending DEF Same

\* A terminal that was never connected hangs up without a word.
LEMMA NotConnectedInv ==
  ASSUME IInv, NEW t \in Terminals, NotConnected(t),
         UNCHANGED <<portVars, terminalVars, connectionVars, made, handed, owner, portList,
                     exited, reading>>
  PROVE  IInv'
<1> USE IpcAssumption DEF IInv
<1> DEFINE x == Collector
           r == <<"hangup", t>>
<1>0. x \in Actors /\ Threads \subseteq Actors BY DEF Actors
<1>1. /\ Doing(x, r) /\ Then(x, <<>>) /\ connection[t] = None
      /\ UNCHANGED <<terminal, lastMessage, isQueued, pendingPorts, port, retainCount, connection,
                     portLock, ends, lock>>
      /\ UNCHANGED <<made, handed, owner, portList, exited, reading, freed, buried, garbage>>
  BY DEF NotConnected, portVars, terminalVars, connectionVars
<1> HIDE DEF x
<1>2. <<>> \in Seq(Steps) /\ DOMAIN <<>> = {} OBVIOUS
<1>3. Effect(x, {r}, <<>>) BY <1>0, <1>1, <1>2, ThenEffect
<1>4. TypeOK' BY <1>1, <1>3 DEF TypeOK, Effect
<1>5. Form' BY <1>0, <1>3, KeptForm
<1>6. Counted'
  <2>1. \A u \in Terminals : Lost(x, u) = 0 BY <1>1 DEF Lost, Doing
  <2> QED BY <1>0, <1>1, <1>2, <1>3, <1>4, <2>1, KeptCounted
<1>7. /\ Keeps({"delete", "throw", "unlock", "send", "dealloc", "sever", "cut", "bury", "deliver", "hand"})
      /\ Adds({"hangup"}) /\ \A v \in exited : v \in Actors /\ Idle(v) => Idle(v)'
  BY <1>0, <1>3, EffectKeeps
<1>8. /\ \A u : Has(x, <<"delete", u>>)' <=> Has(x, <<"delete", u>>)
      /\ \A u : Has(x, <<"hangup", u>>)' => Has(x, <<"hangup", u>>)
      /\ \A u : u # t => (Has(x, <<"hangup", u>>) => Has(x, <<"hangup", u>>)')
  <2>1. \A u : u # t => <<"hangup", u>> # r OBVIOUS
  <2>2. \A u : u # t => (Has(x, <<"hangup", u>>) => Has(x, <<"hangup", u>>)')
    BY <1>3, <2>1 DEF Effect
  <2> QED BY <1>0, <1>7, <2>2 DEF Keeps, Adds
<1>9. Connected'
  <2>1. ASSUME NEW c \in Connections, NEW u \in ends[c]
        PROVE  /\ connection[u] = c /\ u \in Live
               /\ Has(Collector, <<"delete", u>>)' => Has(Collector, <<"hangup", u>>)'
    <3>1. connection[u] = c /\ u \in Live BY DEF Connected
    <3>2. u # t BY <1>1, <3>1 DEF Objects
    <3> QED BY <1>8, <3>1, <3>2 DEF Connected, x
  <2>2. \A u \in Terminals : connection[u] # None =>
          /\ connection[u] \in made /\ u \in made
          /\ \/ u \in ends[connection[u]] \/ u \in freed
             \/ Has(Collector, <<"delete", u>>)' /\ ~Has(Collector, <<"hangup", u>>)'
    BY <1>8 DEF Connected, x
  <2>3. \A y \in Actors, c \in Connections : Has(y, <<"unlock", c>>)' => lock[c] = Operator /\ c \in Live
    BY <1>7 DEF Keeps, Connected
  <2>4. ASSUME NEW y \in Actors, NEW c \in Connections, NEW u \in Terminals, Has(y, <<"send", c, u>>)'
        PROVE  connection[u] = c
    BY <1>7, <2>4 DEF Keeps, Connected
  <2>5. \A c \in Connections : c \in freed => ends[c] = {} BY DEF Connected
  <2> QED BY <1>1, <2>1, <2>2, <2>3, <2>4, <2>5 DEF Connected, Live
<1>10. /\ Adds({"delete", "throw"}) /\ Adds({"dealloc", "bury"}) /\ Adds({"deliver", "hand"})
       /\ Keeps({"dealloc", "sever", "cut"})
  BY <1>7 DEF Keeps, Adds
<1>11. handed' \subseteq handed BY <1>1
<1> QED BY <1>1, <1>4, <1>5, <1>6, <1>7, <1>9, <1>10, <1>11, KeptThrown, KeptFresh,
         KeptOwned, KeptAttached, KeptDelivered, KeptPending DEF Same

\* A terminal that has hung up is deleted: it is no longer an end of its connection.
LEMMA DeleteInv ==
  ASSUME IInv, NEW t \in Terminals, Delete(t),
         UNCHANGED <<portVars, terminalVars, connectionVars, made, handed, owner, portList,
                     exited, reading>>
  PROVE  IInv'
<1> USE IpcAssumption DEF IInv
<1> DEFINE x == Collector
           r == <<"delete", t>>
<1>0. x \in Actors /\ Threads \subseteq Actors BY DEF Actors
<1>1. /\ Doing(x, r) /\ Then(x, <<>>) /\ freed' = freed \cup {t}
      /\ UNCHANGED <<terminal, lastMessage, isQueued, pendingPorts, port, retainCount, connection,
                     portLock, ends, lock>>
      /\ UNCHANGED <<made, handed, owner, portList, exited, reading, buried, garbage>>
  BY DEF Delete, portVars, terminalVars, connectionVars
<1> HIDE DEF x
<1>2. <<>> \in Seq(Steps) /\ DOMAIN <<>> = {} OBVIOUS
<1>3. Effect(x, {r}, <<>>) BY <1>0, <1>1, <1>2, ThenEffect
<1>4. Has(x, r) /\ \A q : ~Later(x, q)
  <2>1. r[1] = "delete" OBVIOUS
  <2> QED BY <1>0, <1>1, <2>1, Next1
<1>5. \A q : ~Has(x, q)' BY <1>2, <1>3, <1>4 DEF Effect
<1>6. \A q : Has(x, q) => q = r BY <1>3, <1>4 DEF Effect
<1>7. /\ t \in made /\ port[t] = None /\ retainCount[t] = 0
      /\ t \notin freed /\ t \notin Range(garbage) /\ \A y \in Actors : ~Has(y, <<"throw", t>>)
  BY <1>4 DEF ThrownDead, Thrown, ThrownOnce, x
<1>8. \A c \in Connections : t \notin ends[c]
  <2>1. <<"hangup", t>> # r OBVIOUS
  <2>2. ASSUME NEW c \in Connections, t \in ends[c] PROVE FALSE
    <3>1. Has(x, <<"hangup", t>>) BY <1>4, <2>2 DEF Connected, x
    <3> QED BY <1>6, <2>1, <3>1
  <2> QED BY <2>2
<1>9. Same(Ports) /\ \A o : o # t => (o \in freed' <=> o \in freed) BY <1>1 DEF Same
<1>10. TypeOK'
  <2>1. freed' \subseteq made BY <1>1, <1>7 DEF TypeOK
  <2> QED BY <1>1, <1>3, <2>1 DEF TypeOK, Effect
<1>11. Form' BY <1>0, <1>3, KeptForm
<1>12. Counted'
  <2>1. \A u \in Terminals : Lost(x, u) = 0 BY <1>1 DEF Lost, Doing
  <2> QED BY <1>0, <1>1, <1>2, <1>3, <1>10, <2>1, KeptCounted
<1>13. /\ Keeps({"throw", "hangup", "unlock", "send", "dealloc", "sever", "cut", "bury", "deliver", "hand"})
       /\ Adds({"delete"}) /\ \A v \in exited : v \in Actors /\ Idle(v) => Idle(v)'
  BY <1>0, <1>3, EffectKeeps
<1>14. \A y \in Actors : \A u : Has(y, <<"throw", u>>)' <=> Has(y, <<"throw", u>>) BY <1>13 DEF Keeps
<1>15. ThrownDead'
  <2>1. \A u \in Terminals : Thrown(u)' => Thrown(u)
    BY <1>0, <1>1, <1>4, <1>5, <1>14 DEF Thrown, x
  <2> QED BY <1>1, <2>1 DEF ThrownDead
<1>16. ThrownOnce' BY <1>0, <1>1, <1>5, <1>7, <1>14 DEF ThrownOnce, x
<1>17. Fresh' BY <1>1 DEF Fresh
<1>18. Connected'
  <2>1. ASSUME NEW c \in Connections, NEW u \in ends[c]
        PROVE  /\ connection[u] = c /\ u \in Live'
               /\ Has(Collector, <<"delete", u>>)' => Has(Collector, <<"hangup", u>>)'
    <3>1. connection[u] = c /\ u \in Live BY DEF Connected
    <3>2. u # t BY <1>8
    <3> QED BY <1>1, <1>5, <1>9, <3>1, <3>2 DEF Live, x
  <2>2. ASSUME NEW u \in Terminals, connection[u] # None
        PROVE  /\ connection[u] \in made /\ u \in made
               /\ u \in ends[connection[u]] \/ u \in freed'
    <3>1. Has(x, <<"delete", u>>) => u = t
      <4>1. <<"delete", u>>[2] = u /\ r[2] = t OBVIOUS
      <4> QED BY <1>6, <4>1
    <3> QED BY <1>1, <2>2, <3>1 DEF Connected, x
  <2>3. \A y \in Actors, c \in Connections : Has(y, <<"unlock", c>>)' => lock[c] = Operator /\ c \in Live'
    BY <1>1, <1>9, <1>13 DEF Keeps, Connected, Live
  <2>4. ASSUME NEW y \in Actors, NEW c \in Connections, NEW u \in Terminals, Has(y, <<"send", c, u>>)'
        PROVE  connection[u] = c
    BY <1>13, <2>4 DEF Keeps, Connected
  <2>5. \A c \in Connections : c \in freed' => ends[c] = {} BY <1>9 DEF Connected
  <2> QED BY <1>1, <2>1, <2>2, <2>3, <2>4, <2>5 DEF Connected
<1>19. Attached'
  <2>1. \A y \in Actors : \A o : /\ Has(y, <<"dealloc", o>>)' <=> Has(y, <<"dealloc", o>>)
                                 /\ Has(y, <<"sever", o>>)' <=> Has(y, <<"sever", o>>)
                                 /\ Has(y, <<"cut", o>>)' <=> Has(y, <<"cut", o>>)
    BY <1>13 DEF Keeps
  <2>2. \A p \in Ports : terminal[p] # None =>
          port[terminal[p]] = p /\ p \in Live' /\ terminal[p] \in made
    BY <1>1, <1>9 DEF Attached, Live
  <2>3. \A y \in Actors, p \in Ports : Has(y, <<"dealloc", p>>)' =>
          terminal[p] = None \/ Has(y, <<"sever", p>>)'
    BY <2>1 DEF Attached
  <2>4. \A y \in Actors, u \in Terminals, p \in Ports :
          Has(y, <<"cut", u>>)' /\ port[u] = p => Has(y, <<"dealloc", p>>)'
    BY <2>1 DEF Attached
  <2>5. \A u \in Terminals : u \in handed \/ connection[u] # None =>
          \/ port[u] = None \/ terminal[port[u]] = u
          \/ \E y \in Actors : Has(y, <<"cut", u>>)'
    BY <2>1 DEF Attached
  <2> QED BY <1>1, <2>2, <2>3, <2>4, <2>5 DEF Attached
<1>20. Adds({"dealloc", "bury"}) /\ Adds({"deliver", "hand"}) BY <1>13 DEF Keeps, Adds
<1> QED BY <1>1, <1>9, <1>10, <1>11, <1>12, <1>13, <1>15, <1>16, <1>17, <1>18, <1>19, <1>20,
         KeptOwned, KeptDelivered, KeptPending

LEMMA CollectorStepInv == ASSUME IInv, CollectorStep PROVE IInv'
<1>1. UNCHANGED <<portVars, terminalVars, connectionVars, made, handed, owner, portList,
                  exited, reading>>
  BY DEF CollectorStep
<1>2. CASE Collect BY <1>1, <1>2, CollectInv
<1>3. ASSUME NEW th \in Threads, Bury(th) PROVE IInv'
  <2>1. Doing(Collector, <<"bury", th>>) /\ UNCHANGED <<freed, garbage>> BY <1>3 DEF Bury
  <2>2. ASSUME NEW p \in portList[th] \ freed,
               Start(Collector, <<<<"sever", p>>, <<"dealloc", p>>>> \o work[Collector]),
               UNCHANGED buried
        PROVE  IInv'
    BY <1>1, <2>1, <2>2, BuryPortInv
  <2>3. CASE portList[th] \subseteq freed /\ buried' = buried \cup {th} /\ Then(Collector, <<>>)
    BY <1>1, <2>1, <2>3, BuriedInv
  <2> QED BY <1>3, <2>2, <2>3 DEF Bury
<1>4. ASSUME NEW t \in Terminals, NotConnected(t) PROVE IInv' BY <1>1, <1>4, NotConnectedInv
<1>5. ASSUME NEW t \in Terminals, Delete(t) PROVE IInv' BY <1>1, <1>5, DeleteInv
<1> QED BY <1>2, <1>3, <1>4, <1>5 DEF CollectorStep

-----------------------------------------------------------------------------
(* The whole system.                                                       *)

LEMMA InitInv == Init => IInv
<1> SUFFICES ASSUME Init PROVE IInv OBVIOUS
<1> USE IpcAssumption
<1>0. Collector \in Actors /\ Threads \subseteq Actors BY DEF Actors
<1>1. TypeOK
  <2>1. <<>> \in Seq(Ports) /\ <<>> \in Seq(Terminals \cup Threads) /\ <<>> \in Seq(Steps) OBVIOUS
  <2> QED BY <2>1 DEF Init, TypeOK, Messages
<1>2. /\ \A x \in Actors : Idle(x) /\ DOMAIN work[x] = {}
      /\ \A x \in Actors : \A q : ~Has(x, q)
      /\ DOMAIN garbage = {} /\ Range(garbage) = {}
  <2>1. \A x \in Actors : work[x] = <<>> BY DEF Init
  <2>2. DOMAIN <<>> = {} /\ garbage = <<>> BY DEF Init
  <2> QED BY <2>1, <2>2 DEF Idle, Has, Range
<1>3. Form BY <1>2 DEF Form
<1>4. Counted
  <2> SUFFICES ASSUME NEW t \in Terminals
               PROVE  IsFiniteSet(References(t)) /\ retainCount[t] = Cardinality(References(t))
    BY DEF Counted
  <2>1. References(t) = {} BY <1>2 DEF References, InCalls, Init
  <2>2. retainCount[t] = 0 BY DEF Init
  <2> QED BY <2>1, <2>2, FS_EmptySet
<1>5. ThrownDead /\ ThrownOnce BY <1>0, <1>2 DEF Init, ThrownDead, Thrown, ThrownOnce
<1>6. Fresh BY DEF Init, Fresh
<1>7. Connected BY <1>0, <1>2 DEF Init, Connected
<1>8. Owned BY <1>0, <1>2 DEF Init, Owned
<1>9. Attached BY <1>2 DEF Init, Attached
<1>10. Delivered BY <1>2 DEF Delivered
<1>11. PendingExact
  <2>1. DOMAIN <<>> = {} OBVIOUS
  <2> QED BY <2>1 DEF Init, PendingExact, Range, IsInjective
<1> QED BY <1>1, <1>3, <1>4, <1>5, <1>6, <1>7, <1>8, <1>9, <1>10, <1>11 DEF IInv

LEMMA StutterInv == ASSUME IInv, UNCHANGED vars PROVE IInv'
<1> USE DEF IInv
<1>1. /\ UNCHANGED <<owner, terminal, lastMessage, isQueued, portList, pendingPorts, reading>>
      /\ UNCHANGED <<port, retainCount, connection, portLock, ends, lock, garbage, work>>
      /\ UNCHANGED <<handed, freed, made, exited, buried>>
  BY DEF vars, objectVars, threadVars, portVars, terminalVars, connectionVars
<1>2. TypeOK' BY <1>1 DEF TypeOK
<1>3. /\ Form' /\ \A kinds : Keeps(kinds) /\ Adds(kinds)
      /\ \A y \in Actors : Idle(y)' <=> Idle(y)
  BY <1>1, WorkStays
<1>4. Counted'
  <2>1. \A u \in Terminals : retainCount'[u] = retainCount[u] - Held(u) + Held(u)'
    BY <1>1 DEF Held, TypeOK
  <2> QED BY <1>1, <1>2, <2>1, CountedStays DEF Counted
<1>5. \A th \in exited : th \in Actors /\ Idle(th) => Idle(th)' BY <1>3
<1>6. handed' \subseteq handed BY <1>1
<1> QED BY <1>1, <1>2, <1>3, <1>4, <1>5, <1>6, KeptThrown, KeptFresh, KeptConnected,
         KeptOwned, KeptAttached, KeptDelivered, KeptPending DEF Same

LEMMA Inductive == Spec => []IInv
<1>1. ASSUME IInv, [Next]_vars PROVE IInv'
  <2>1. CASE UNCHANGED vars BY <1>1, <2>1, StutterInv
  <2>2. ASSUME NEW th \in Threads, ThreadStep(th) PROVE IInv' BY <1>1, <2>2, ThreadStepInv
  <2>3. ASSUME NEW x \in Actors, Step(x) PROVE IInv'
    <3>1. ASSUME NEW t \in Terminals, TerminalStep(x, t) PROVE IInv'
      BY <1>1, <3>1, TerminalStepInv
    <3>2. ASSUME NEW c \in Connections, ConnectionStep(x, c) PROVE IInv'
      BY <1>1, <3>2, ConnectionStepInv
    <3>3. ASSUME NEW p \in Ports, PortStep(x, p) PROVE IInv' BY <1>1, <3>3, PortStepInv
    <3>4. CASE CollectorStep BY <1>1, <3>4, CollectorStepInv
    <3>5. CASE OperatorStep BY <1>1, <3>5, OperatorStepInv
    <3> QED BY <2>3, <3>1, <3>2, <3>3, <3>4, <3>5 DEF Step
  <2> QED BY <1>1, <2>1, <2>2, <2>3 DEF Next
<1> QED BY InitInv, <1>1, PTL DEF Spec

-----------------------------------------------------------------------------
(* What follows for the code.                                              *)

\* Every variable keeps its type; above all, no retain count falls below zero, and only
\* allocated objects are deleted.
THEOREM TypeCorrect == Spec => []TypeOK
<1>1. IInv => TypeOK BY DEF IInv
<1> QED BY <1>1, Inductive, PTL

\* The retain count of a terminal is the number of references to it, however threads send,
\* sever, connect and give up at once.
THEOREM RetainsAreCounted == Spec => []CountsExact
<1>1. IInv => CountsExact BY DEF IInv, Counted, CountsExact
<1> QED BY <1>1, Inductive, PTL

\* The poll state of a thread lists its queued ports, once each, and none that is gone.
THEOREM PendingIsExact == Spec => []PendingExact
<1>1. IInv => PendingExact BY DEF IInv
<1> QED BY <1>1, Inductive, PTL

\* A connected terminal that is not deleted and still has to hang up, if it has to be
\* deleted, is an end of its connection; so both ends and the connection are there.
LEMMA EndAlive ==
  ASSUME IInv, NEW t \in Terminals, connection[t] # None, t \notin freed,
         Has(Collector, <<"delete", t>>) => Has(Collector, <<"hangup", t>>)
  PROVE  /\ t \in ends[connection[t]] /\ connection[t] \in Connections \cap Live
         /\ ends[connection[t]] \subseteq Live
<1> USE DEF IInv
<1>1. connection[t] \in Connections BY DEF TypeOK
<1>2. t \in ends[connection[t]] /\ connection[t] \in made BY DEF Connected
<1>3. connection[t] \notin freed /\ ends[connection[t]] \subseteq Live BY <1>1, <1>2 DEF Connected
<1> QED BY <1>1, <1>2, <1>3 DEF Live

\* The port that a message is handed to is there, and so is its thread.
LEMMA HandedAlive ==
  ASSUME IInv, NEW x \in Actors, NEW t \in Terminals, NEW m \in Messages, Has(x, <<"hand", t, m>>)
  PROVE  port[t] \in Ports \cap Live /\ owner[port[t]] \notin buried
<1> USE DEF IInv
<1>1. connection[t] # None /\ port[t] # None /\ port[t] \in Ports BY DEF Delivered, TypeOK
<1>2. port[t] \in Live
  <2>1. terminal[port[t]] = t \/ \E y \in Actors : Has(y, <<"cut", t>>) BY <1>1 DEF Attached
  <2>2. CASE terminal[port[t]] = t
    <3>1. t # None BY IpcAssumption DEF Objects
    <3> QED BY <1>1, <2>2, <3>1 DEF Attached
  <2>3. ASSUME NEW y \in Actors, Has(y, <<"cut", t>>) PROVE port[t] \in Live
    <3>1. Has(y, <<"dealloc", port[t]>>) BY <1>1, <2>3 DEF Attached
    <3> QED BY <1>1, <3>1 DEF Owned
  <2> QED BY <2>1, <2>2, <2>3
<1>3. owner[port[t]] \notin buried BY <1>1, <1>2 DEF Owned, Live
<1> QED BY <1>1, <1>2, <1>3

\* What has to be deleted, or thrown away, is still there.
LEMMA DoomedAlive ==
  ASSUME IInv, NEW t \in Terminals
  PROVE  /\ Has(Collector, <<"delete", t>>) => t \in Live
         /\ \A x \in Actors : Has(x, <<"throw", t>>) => t \in Live
BY DEF IInv, ThrownDead, ThrownOnce, Thrown, Live

\* What the first step of a call touches, kind by kind.
LEMMA TouchedAlive ==
  ASSUME IInv, NEW x \in Actors, NEW r \in Steps, Doing(x, r) PROVE Touched(r) \subseteq Live
<1> USE IpcAssumption DEF IInv
<1>0. /\ Has(x, r)
      /\ \A q : Later(x, q) => Has(x, q)
      /\ r[1] = "sever" => Later(x, <<"dealloc", r[2]>>)
      /\ r[1] = "hangup" => x = Collector /\ Later(x, <<"delete", r[2]>>)
      /\ r[1] = "delete" => x = Collector
  BY Next1
<1>1. ASSUME NEW t \in Terminals, r \in {<<"release", t>>, <<"cut", t>>, <<"read", t>>}
      PROVE  Touched(r) \subseteq Live
  <2>1. Has(x, <<"release", t>>) BY <1>0, <1>1, UserAlive
  <2>2. t \in Live BY <2>1, UsedAlive DEF Alive
  <2> QED BY <1>1, <2>2 DEF Touched
<1>2. ASSUME NEW t \in Terminals, r = <<"throw", t>> PROVE Touched(r) \subseteq Live
  BY <1>0, <1>2, DoomedAlive DEF Touched
<1>3. ASSUME NEW t \in Terminals, r = <<"delete", t>> PROVE Touched(r) \subseteq Live
  <2>1. x = Collector BY <1>0, <1>3
  <2> QED BY <1>0, <1>3, <2>1, DoomedAlive DEF Touched
<1>4. ASSUME NEW t \in Terminals, r = <<"hangup", t>> PROVE Touched(r) \subseteq Live
  <2>1. r[1] = "hangup" /\ r[2] = t BY <1>4
  <2>2. Has(Collector, <<"delete", t>>) /\ Has(Collector, <<"hangup", t>>) BY <1>0, <1>4, <2>1
  <2>3. t \in Live BY <2>2, DoomedAlive
  <2>4. CASE connection[t] = None BY <2>1, <2>3, <2>4 DEF Touched
  <2>5. CASE connection[t] # None
    <3>1. {t, connection[t]} \cup ends[connection[t]] \subseteq Live
      BY <2>2, <2>3, <2>5, EndAlive DEF Live
    <3> QED BY <2>1, <2>5, <3>1 DEF Touched
  <2> QED BY <2>4, <2>5
<1>5. ASSUME NEW t \in Terminals, NEW m \in Messages, r \in {<<"deliver", t, m>>, <<"hand", t, m>>}
      PROVE  Touched(r) \subseteq Live
  <2>1. Has(x, <<"release", t>>) BY <1>0, <1>5, UserAlive
  <2>2. t \in Live BY <2>1, UsedAlive DEF Alive
  <2>3. CASE r = <<"deliver", t, m>> BY <2>2, <2>3 DEF Touched
  <2>4. CASE r = <<"hand", t, m>>
    <3>1. port[t] \in Live BY <1>0, <2>4, HandedAlive
    <3> QED BY <2>2, <2>4, <3>1 DEF Touched
  <2> QED BY <1>5, <2>3, <2>4
<1>6. ASSUME NEW c \in Connections, NEW t \in Terminals, r = <<"send", c, t>>
      PROVE  Touched(r) \subseteq Live /\ t \in ends[c]
  <2>1. Has(x, <<"release", t>>) /\ connection[t] = c
    <3>1. Has(x, <<"send", c, t>>) BY <1>0, <1>6
    <3> QED BY <3>1, UserAlive DEF Connected
  <2>2. t \in Live /\ ~Has(Collector, <<"delete", t>>) BY <2>1, UsedAlive DEF Alive, Thrown
  <2>3. c # None BY DEF Objects
  <2>4. t \in ends[c] /\ c \in Live /\ ends[c] \subseteq Live BY <2>1, <2>2, <2>3, EndAlive DEF Live
  <2> QED BY <1>6, <2>2, <2>4 DEF Touched
<1>7. ASSUME NEW c \in Connections, r = <<"unlock", c>> PROVE Touched(r) \subseteq Live
  BY <1>0, <1>7 DEF Touched, Connected
<1>8. ASSUME NEW p \in Ports, r = <<"sever", p>> PROVE Touched(r) \subseteq Live
  <2>1. r[1] = "sever" /\ r[2] = p BY <1>8
  <2>2. p \in Live BY <1>0, <2>1 DEF Owned
  <2>3. terminal[p] # None => terminal[p] \in Live
    <3>1. terminal[p] # None => terminal[p] \in Terminals /\ port[terminal[p]] # None
      BY DEF Attached, TypeOK, Objects
    <3> QED BY <3>1, UsedAlive DEF Alive
  <2> QED BY <2>1, <2>2, <2>3 DEF Touched
<1>9. ASSUME NEW p \in Ports, r = <<"dealloc", p>> PROVE Touched(r) \subseteq Live
  BY <1>0, <1>9 DEF Touched, Owned
<1>10. ASSUME NEW th \in Threads, r = <<"bury", th>> PROVE Touched(r) \subseteq Live
  BY <1>10 DEF Touched
<1>11. \/ \E t \in Terminals : \/ r \in {<<"release", t>>, <<"cut", t>>, <<"read", t>>}
                               \/ r = <<"throw", t>> \/ r = <<"delete", t>> \/ r = <<"hangup", t>>
       \/ \E t \in Terminals, m \in Messages : r \in {<<"deliver", t, m>>, <<"hand", t, m>>}
       \/ \E c \in Connections, t \in Terminals : r = <<"send", c, t>>
       \/ \E c \in Connections : r = <<"unlock", c>>
       \/ \E p \in Ports : r = <<"sever", p>> \/ r = <<"dealloc", p>>
       \/ \E th \in Threads : r = <<"bury", th>>
  <2> HIDE DEF IInv
  <2> QED BY DEF Steps
<1> HIDE DEF IInv
<1> QED BY <1>1, <1>2, <1>3, <1>4, <1>5, <1>6, <1>7, <1>8, <1>9, <1>10, <1>11

\* Nobody in the kernel follows a pointer to a port, a terminal, a connection or a thread
\* that has been deleted.
THEOREM NothingDangles == Spec => []NoDangling
<1>1. ASSUME IInv PROVE NoDangling
  <2> USE IpcAssumption, <1>1 DEF IInv
  <2>1. ASSUME NEW x \in Actors, ~Idle(x) PROVE Touched(Head(work[x])) \subseteq Live
    <3>1. work[x] \in Seq(Steps) /\ work[x] # <<>> BY <2>1 DEF TypeOK, Idle
    <3>2. Head(work[x]) \in Steps BY <3>1
    <3>3. Doing(x, Head(work[x])) BY <2>1 DEF Doing
    <3> HIDE DEF IInv
    <3> QED BY <3>2, <3>3, TouchedAlive
  <2>2. ASSUME NEW x \in Actors, NEW t \in Terminals, NEW m \in Messages, Doing(x, <<"hand", t, m>>)
        PROVE  owner[port[t]] \notin buried
    <3>1. Has(x, <<"hand", t, m>>) BY <2>2, Next1
    <3> QED BY <3>1, HandedAlive
  <2>3. ASSUME NEW p \in Live \cap Ports PROVE terminal[p] \in Live \cup {None}
    <3>1. terminal[p] # None => terminal[p] \in Terminals /\ port[terminal[p]] # None
      BY DEF Attached, TypeOK, Objects
    <3> QED BY <3>1, UsedAlive DEF Alive
  <2> QED BY <2>1, <2>2, <2>3 DEF NoDangling
<1> QED BY <1>1, Inductive, PTL

\* The assertions of port.cpp, terminal.cpp and connection.cpp never fail.
THEOREM NothingAsserts == Spec => []AssertionsHold
<1>1. ASSUME IInv PROVE AssertionsHold
  <2> USE IpcAssumption, <1>1 DEF IInv
  <2>1. ASSUME NEW p \in Live \cap Ports, terminal[p] # None PROVE port[terminal[p]] # None
    BY <2>1 DEF Attached, Objects
  <2>2. ASSUME NEW x \in Actors, NEW t \in Terminals, Doing(x, <<"cut", t>>)
        PROVE  retainCount[t] > 0
    <3>1. Has(x, <<"cut", t>>) BY <2>2, Next1
    <3> QED BY <3>1, UserAlive, UsedAlive
  <2>3. ASSUME NEW x \in Actors, NEW t \in Terminals, Doing(x, <<"hangup", t>>), connection[t] # None
        PROVE  t \in ends[connection[t]]
    <3> DEFINE r == <<"hangup", t>>
    <3>1. r[1] = "hangup" /\ r[2] = t OBVIOUS
    <3>2. Has(Collector, <<"hangup", t>>) /\ Has(Collector, <<"delete", t>>)
      <4>1. Doing(x, r) BY <2>3
      <4> HIDE DEF r, IInv
      <4>2. TypeOK /\ Form BY <1>1 DEF IInv
      <4>3. Has(x, r) /\ x = Collector /\ Later(x, <<"delete", t>>) /\ \A q : Later(x, q) => Has(x, q)
        BY <3>1, <4>1, <4>2, Next1
      <4> QED BY <4>3 DEF r
    <3>3. t \notin freed BY <3>2, DoomedAlive DEF Live
    <3> QED BY <2>3, <3>2, <3>3, EndAlive
  <2>4. ASSUME NEW x \in Actors, NEW t \in Terminals, NEW c \in Connections, Doing(x, <<"send", c, t>>)
        PROVE  t \in ends[c]
    <3>1. Has(x, <<"send", c, t>>) BY <2>4, Next1
    <3>2. Has(x, <<"release", t>>) /\ connection[t] = c BY <3>1, UserAlive DEF Connected
    <3>3. t \in Live /\ ~Has(Collector, <<"delete", t>>) BY <3>2, UsedAlive DEF Alive, Thrown
    <3>4. c # None BY DEF Objects
    <3> QED BY <3>2, <3>3, <3>4, EndAlive DEF Live
  <2> QED BY <2>1, <2>2, <2>3, <2>4 DEF AssertionsHold
<1> QED BY <1>1, Inductive, PTL

-----------------------------------------------------------------------------
(* Ipc implements Calls.  What is heard depends on more than what the      *)
(* classes keep: on which messages are under way, and in which order.      *)

\* x is about to deliver m to t.
News(x, t, m) == Has(x, <<"deliver", t, m>>) \/ Has(x, <<"hand", t, m>>)
Partner(t, u) == u # t /\ connection[t] # None /\ connection[u] = connection[t]

\* A connection has two terminals.
Paired ==
  /\ \A t \in Terminals : connection[t] # None => \E u \in Terminals : Partner(t, u)
  /\ \A t, u, v \in Terminals : Partner(t, u) /\ Partner(t, v) => u = v

\* A call delivers first, to each terminal once, and does the rest of its work then.
DeliverFirst ==
  \A x \in Actors : \A i, j \in DOMAIN work[x] : i < j /\ work[x][j][1] = "deliver" =>
    work[x][i][1] \in {"deliver", "hand"} /\ work[x][i][2] # work[x][j][2]

\* Both ends are told that the call opened before the connection is unlocked; until then
\* nothing has been said.
OpenedFirst ==
  /\ \A x \in Actors, t \in Terminals : News(x, t, "opened") =>
       /\ x = Operator /\ Has(Operator, <<"unlock", connection[t]>>)
       /\ port[t] # None => lastMessage[port[t]] = "nothing"
  /\ \A t \in Terminals :
       connection[t] # None /\ port[t] # None /\ lastMessage[port[t]] = "nothing" =>
         News(Operator, t, "opened")

\* Data is under way only while its sender has a reference to his own end, and
\* "closed" only when the other end has hung up; both only after "opened".
InOrder ==
  \A x \in Actors, t \in Terminals :
    /\ \A m \in {"data", "closed"} : News(x, t, m) /\ port[t] # None =>
         lastMessage[port[t]] \in {"opened", "data"}
    /\ News(x, t, "data") => \E u \in Terminals : Partner(t, u) /\ Has(x, <<"release", u>>)
    /\ News(x, t, "closed") =>
         x = Collector /\ \E u \in Terminals : Partner(t, u) /\ HungUp(u)

\* Who has heard that the call closed is alone.
ClosedLast ==
  \A t, u \in Terminals :
    Partner(t, u) /\ port[t] # None /\ lastMessage[port[t]] = "closed" => HungUp(u)

\* A port has heard nothing before its terminal is connected.
Unheard ==
  /\ \A t \in handed : port[t] # None => lastMessage[port[t]] = "nothing"
  /\ \A p \in Ports \ freed : lastMessage[p] # "nothing" =>
       terminal[p] # None \/ \E x \in Actors : Has(x, <<"dealloc", p>>)

RInv == Paired /\ DeliverFirst /\ OpenedFirst /\ InOrder /\ ClosedLast /\ Unheard

\* A terminal that is not thrown away has not hung up.
LEMMA AliveEnd ==
  ASSUME IInv, NEW t \in Terminals PROVE (Alive(t) \/ port[t] # None) => ~HungUp(t)
<1> SUFFICES ASSUME Alive(t) PROVE ~HungUp(t) BY UsedAlive
<1>1. t \notin freed /\ ~Has(Collector, <<"delete", t>>) BY DEF Alive, Live, Thrown
<1> QED BY <1>1 DEF HungUp, IInv, Connected

\* At most one terminal of a port has been handed to the operator or connected.
LEMMA OnePort ==
  ASSUME IInv, NEW t \in Terminals, NEW u \in Terminals, port[t] # None, port[t] = port[u],
         t \in handed \/ connection[t] # None, u \in handed \/ connection[u] # None
  PROVE  t = u
<1> USE IpcAssumption DEF IInv
<1> DEFINE p == port[t]
<1>0. p \in Ports BY DEF TypeOK
<1>1. ASSUME NEW v \in Terminals, NEW x \in Actors, Has(x, <<"cut", v>>), port[v] = p
      PROVE  /\ terminal[p] = None /\ Has(x, <<"dealloc", p>>)
             /\ \A w \in Terminals : Has(x, <<"cut", w>>) => w = v
  <2>1. Has(x, <<"dealloc", p>>) BY <1>0, <1>1 DEF Attached
  <2>2. PICK i \in DOMAIN work[x] : work[x][i] = <<"cut", v>> BY <1>1 DEF Has
  <2>3. ASSUME NEW j \in DOMAIN work[x], work[x][j][1] \notin LaterKinds PROVE j = 1
    <3>1. j \in Nat /\ j >= 1 BY DEF TypeOK
    <3>2. FormAt(x, j) BY DEF Form
    <3> QED BY <2>3, <3>1, <3>2 DEF FormAt
  <2>4. work[x][1] = <<"cut", v>>
    <3>1. work[x][i][1] = "cut" BY <2>2
    <3>2. i = 1 BY <2>3, <3>1 DEF LaterKinds
    <3> QED BY <2>2, <3>2
  <2>5. ~Has(x, <<"sever", p>>)
    <3> SUFFICES ASSUME NEW j \in DOMAIN work[x], work[x][j] = <<"sever", p>> PROVE FALSE BY DEF Has
    <3>1. work[x][j][1] = "sever" OBVIOUS
    <3>2. j = 1 BY <2>3, <3>1 DEF LaterKinds
    <3>3. work[x][1][1] = "cut" BY <2>4
    <3> QED BY <3>1, <3>2, <3>3
  <2>6. ASSUME NEW w \in Terminals, Has(x, <<"cut", w>>) PROVE w = v
    <3>1. PICK j \in DOMAIN work[x] : work[x][j] = <<"cut", w>> BY <2>6 DEF Has
    <3>2. work[x][j][1] = "cut" BY <3>1
    <3>3. j = 1 BY <2>3, <3>2 DEF LaterKinds
    <3> QED BY <2>4, <3>1, <3>3
  <2> QED BY <1>0, <2>1, <2>5, <2>6 DEF Attached
<1>2. ASSUME NEW x \in Actors, NEW y \in Actors, Has(x, <<"dealloc", p>>), Has(y, <<"dealloc", p>>)
      PROVE  x = y
  <2>1. ASSUME NEW z \in Actors, Has(z, <<"dealloc", p>>) PROVE ~Idle(z)
    <3>1. DOMAIN work[z] # {} BY <2>1 DEF Has
    <3> QED BY <3>1 DEF Idle
  <2>2. owner[p] \in exited => Idle(owner[p]) BY <1>0 DEF Owned
  <2>3. /\ x = owner[p] \/ (x = Collector /\ owner[p] \in exited)
        /\ y = owner[p] \/ (y = Collector /\ owner[p] \in exited)
    BY <1>0, <1>2 DEF Owned
  <2> QED BY <1>2, <2>1, <2>2, <2>3
<1>3. /\ terminal[p] = t \/ \E x \in Actors : Has(x, <<"cut", t>>)
      /\ terminal[p] = u \/ \E x \in Actors : Has(x, <<"cut", u>>)
  BY DEF Attached
<1>4. t # None /\ u # None BY DEF Objects
<1>5. CASE terminal[p] = t /\ terminal[p] = u BY <1>5
<1>6. ASSUME NEW x \in Actors, Has(x, <<"cut", t>>) PROVE t = u
  <2>1. terminal[p] = None /\ Has(x, <<"dealloc", p>>) BY <1>1, <1>6
  <2>2. PICK y \in Actors : Has(y, <<"cut", u>>) BY <1>3, <1>4, <2>1
  <2>3. Has(y, <<"dealloc", p>>) BY <1>1, <2>2
  <2>4. x = y BY <1>2, <2>1, <2>3
  <2> QED BY <1>1, <1>6, <2>2, <2>4
<1>7. ASSUME NEW x \in Actors, Has(x, <<"cut", u>>) PROVE t = u
  <2>1. terminal[p] = None BY <1>1, <1>7
  <2> QED BY <1>3, <1>4, <1>6, <2>1
<1> QED BY <1>3, <1>5, <1>6, <1>7

\* x neither delivers nor begins to.
Silent(x) == \A q : Has(x, q) => q[1] \notin {"deliver", "hand"}
Quietly(x) == Silent(x) /\ Silent(x)' /\ \A y \in Actors \ {x} : work'[y] = work[y]

LEMMA SilentDoing ==
  ASSUME IInv, DeliverFirst, NEW x \in Actors, NEW r, Doing(x, r), r[1] \notin {"deliver", "hand"}
  PROVE  Silent(x)
<1> USE DEF IInv
<1> SUFFICES ASSUME NEW i \in DOMAIN work[x], work[x][i][1] \in {"deliver", "hand"} PROVE FALSE
  BY DEF Silent, Has
<1>1. /\ work[x] \in Seq(Steps) /\ ~Idle(x) /\ Head(work[x]) = r BY DEF TypeOK, Doing
<1>2. 1 \in DOMAIN work[x] /\ work[x][1] = r /\ i \in Nat /\ i >= 1 BY <1>1 DEF Idle
<1>3. 1 < i BY <1>2
<1>4. work[x][i][1] \in LaterKinds BY <1>3 DEF Form, FormAt
<1>5. work[x][i][1] = "deliver" BY <1>4 DEF LaterKinds
<1> QED BY <1>2, <1>3, <1>5 DEF DeliverFirst
LEMMA SilentIdle == ASSUME NEW x \in Actors, Idle(x) PROVE Silent(x)
<1>1. DOMAIN work[x] = {} BY DEF Idle
<1> QED BY <1>1 DEF Silent, Has
LEMMA QuietEffect ==
  ASSUME IInv, NEW x \in Actors, Silent(x), NEW R, NEW s \in Seq(Steps), Effect(x, R, s),
         \A i \in DOMAIN s : s[i][1] \notin {"deliver", "hand"}
  PROVE  Quietly(x)
<1>1. Replaced(x, s) BY BecomesAt DEF IInv, Effect
<1>2. \A q : Later(x, q) => Has(x, q) BY DEF Later, Has
<1>3. Silent(x)'
  <2> SUFFICES ASSUME NEW q, Has(x, q)' PROVE q[1] \notin {"deliver", "hand"} BY DEF Silent
  <2>1. Later(x, q) \/ \E i \in DOMAIN s : s[i] = q BY DEF Effect
  <2> QED BY <1>2, <2>1 DEF Silent
<1> QED BY <1>1, <1>3 DEF Replaced, Quietly
LEMMA QuietThen ==
  ASSUME IInv, DeliverFirst, NEW x \in Actors, NEW r, Doing(x, r), NEW s \in Seq(Steps), Then(x, s),
         r[1] \notin {"deliver", "hand"}, \A i \in DOMAIN s : s[i][1] \notin {"deliver", "hand"}
  PROVE  Effect(x, {r}, s) /\ Quietly(x)
BY SilentDoing, ThenEffect, QuietEffect
LEMMA QuietStart ==
  ASSUME IInv, NEW x \in Actors, Idle(x), x \notin exited, NEW s \in Seq(Steps), Start(x, s),
         \A i \in DOMAIN s : s[i][1] \notin {"deliver", "hand"}
  PROVE  Effect(x, {}, s) /\ Quietly(x)
BY SilentIdle, StartEffect, QuietEffect
LEMMA QuietStays ==
  ASSUME NEW x \in Actors, Silent(x), UNCHANGED work PROVE Quietly(x)
BY DEF Quietly, Silent, Has

\* A step of an actor that does not deliver keeps what is said of the deliveries.
LEMMA QuietKeeps ==
  ASSUME IInv, RInv, NEW x \in Actors, Quietly(x), UNCHANGED <<connection, lastMessage>>,
         \A t \in Terminals : connection[t] # None => port'[t] \in {port[t], None},
         \A t \in Terminals : HungUp(t) => HungUp(t)'
  PROVE  Paired' /\ DeliverFirst' /\ OpenedFirst' /\ InOrder' /\ ClosedLast'
<1> USE DEF RInv
<1>1. \A y \in Actors \ {x} : \A q : Has(y, q)' <=> Has(y, q) BY DEF Quietly, Has
<1>2. \A t, m : ~News(x, t, m) /\ ~News(x, t, m)'
  <2>1. \A t, m : <<"deliver", t, m>>[1] = "deliver" /\ <<"hand", t, m>>[1] = "hand" OBVIOUS
  <2> QED BY <2>1 DEF Quietly, Silent, News
<1>3. \A y \in Actors : \A t, m : News(y, t, m)' <=> News(y, t, m) BY <1>1, <1>2 DEF News
<1>4. \A t, u \in Terminals : Partner(t, u)' <=> Partner(t, u) BY DEF Partner
<1>5. Paired' BY <1>4 DEF Paired
<1>6. DeliverFirst'
  <2> SUFFICES ASSUME NEW y \in Actors, NEW i \in DOMAIN work'[y], NEW j \in DOMAIN work'[y],
                      i < j, work'[y][j][1] = "deliver"
               PROVE  work'[y][i][1] \in {"deliver", "hand"} /\ work'[y][i][2] # work'[y][j][2]
    BY DEF DeliverFirst
  <2>1. y # x
    <3> DEFINE q == work'[y][j]
    <3>1. \E k \in DOMAIN work'[y] : work'[y][k] = q OBVIOUS
    <3> HIDE DEF q
    <3>2. y = x => q[1] # "deliver" BY <3>1 DEF Quietly, Silent, Has
    <3> QED BY <3>2 DEF q
  <2>2. work'[y] = work[y] BY <2>1 DEF Quietly
  <2> QED BY <2>2 DEF DeliverFirst
<1>7. \A y \in Actors, t \in Terminals : News(y, t, "opened") => connection[t] # None
  BY DEF News, IInv, Delivered, Messages
<1>8. \A y \in Actors, t \in Terminals, m \in {"data", "closed"} : News(y, t, m) => connection[t] # None
  BY DEF News, IInv, Delivered, Messages
<1>9. OpenedFirst'
  <2>1. ASSUME NEW y \in Actors, NEW t \in Terminals, News(y, t, "opened")'
        PROVE  /\ y = Operator /\ Has(Operator, <<"unlock", connection[t]>>)'
               /\ port'[t] # None => lastMessage[port'[t]] = "nothing"
    <3>1. News(y, t, "opened") /\ y # x BY <1>2, <1>3, <2>1
    <3>2. /\ y = Operator /\ Has(Operator, <<"unlock", connection[t]>>)
          /\ port[t] # None => lastMessage[port[t]] = "nothing"
      BY <3>1 DEF OpenedFirst
    <3> QED BY <1>1, <1>7, <3>1, <3>2
  <2>2. ASSUME NEW t \in Terminals, connection[t] # None, port'[t] # None,
               lastMessage[port'[t]] = "nothing"
        PROVE  News(Operator, t, "opened")'
    <3>1. News(Operator, t, "opened") BY <2>2 DEF OpenedFirst
    <3>2. Operator \in Actors BY DEF Actors
    <3> QED BY <1>3, <3>1, <3>2
  <2> QED BY <2>1, <2>2 DEF OpenedFirst
<1>10. InOrder'
  <2> SUFFICES ASSUME NEW y \in Actors, NEW t \in Terminals
               PROVE  /\ \A m \in {"data", "closed"} : News(y, t, m)' /\ port'[t] # None =>
                           lastMessage[port'[t]] \in {"opened", "data"}
                      /\ News(y, t, "data")' =>
                           \E u \in Terminals : Partner(t, u)' /\ Has(y, <<"release", u>>)'
                      /\ News(y, t, "closed")' =>
                           y = Collector /\ \E u \in Terminals : Partner(t, u)' /\ HungUp(u)'
    BY DEF InOrder
  <2>1. \A m \in {"data", "closed"} : News(y, t, m)' /\ port'[t] # None =>
          lastMessage[port'[t]] \in {"opened", "data"}
    BY <1>3, <1>8 DEF InOrder
  <2>2. ASSUME News(y, t, "data")'
        PROVE  \E u \in Terminals : Partner(t, u)' /\ Has(y, <<"release", u>>)'
    <3>1. News(y, t, "data") /\ y # x BY <1>2, <1>3, <2>2
    <3>2. PICK u \in Terminals : Partner(t, u) /\ Has(y, <<"release", u>>) BY <3>1 DEF InOrder
    <3> QED BY <1>1, <1>4, <3>1, <3>2
  <2>3. ASSUME News(y, t, "closed")'
        PROVE  y = Collector /\ \E u \in Terminals : Partner(t, u)' /\ HungUp(u)'
    <3>1. News(y, t, "closed") BY <1>3, <2>3
    <3>2. PICK u \in Terminals : Partner(t, u) /\ HungUp(u) BY <3>1 DEF InOrder
    <3> QED BY <1>4, <3>1, <3>2 DEF InOrder
  <2> QED BY <2>1, <2>2, <2>3
<1>11. ClosedLast'
  <2> SUFFICES ASSUME NEW t \in Terminals, NEW u \in Terminals, Partner(t, u)', port'[t] # None,
                      lastMessage[port'[t]] = "closed"
               PROVE  HungUp(u)'
    BY DEF ClosedLast
  <2>1. Partner(t, u) /\ connection[t] # None BY <1>4 DEF Partner
  <2> QED BY <2>1 DEF ClosedLast
<1> QED BY <1>5, <1>6, <1>9, <1>10, <1>11

\* So does what is said of ports that nobody has called.
LEMMA QuietInv ==
  ASSUME IInv, RInv, NEW x \in Actors, Quietly(x), UNCHANGED <<connection, lastMessage>>,
         \A t \in Terminals : port'[t] \in {port[t], None},
         \A t \in Terminals : HungUp(t) => HungUp(t)',
         handed' \subseteq handed, freed \subseteq freed',
         \A p \in Ports \ freed' : terminal[p] # None =>
           terminal'[p] # None \/ \E y \in Actors : Has(y, <<"dealloc", p>>)',
         \A y \in Actors : \A p \in Ports \ freed' :
           Has(y, <<"dealloc", p>>) => Has(y, <<"dealloc", p>>)'
  PROVE  RInv'
<1>1. Paired' /\ DeliverFirst' /\ OpenedFirst' /\ InOrder' /\ ClosedLast' BY QuietKeeps
<1>2. handed \subseteq Terminals BY DEF IInv, TypeOK
<1>3. \A t \in handed' : port'[t] # None => lastMessage'[port'[t]] = "nothing"
  BY <1>2 DEF RInv, Unheard
<1>4. ASSUME NEW p \in Ports \ freed', lastMessage[p] # "nothing"
      PROVE  terminal'[p] # None \/ \E y \in Actors : Has(y, <<"dealloc", p>>)'
  BY <1>4 DEF RInv, Unheard
<1> QED BY <1>1, <1>3, <1>4 DEF RInv, Unheard

\* A step of Calls, or none.
PStep == [Promise!Next]_(Promise!vars)
LEMMA Unnoticed ==
  ASSUME \A t \in Terminals : Heard(t)' = Heard(t), UNCHANGED Pairs PROVE PStep
BY DEF PStep, Promise!vars

\* Steps that nobody hears, and that leave the terminals where they are.
Inert ==
  /\ UNCHANGED <<port, connection, lastMessage, ends, terminal, made, freed>>
  /\ handed' \subseteq handed
LEMMA InertStep ==
  ASSUME IInv, RInv, NEW x \in Actors, Quietly(x), Inert,
         \A y \in Actors : \A p \in Ports : Has(y, <<"dealloc", p>>) => Has(y, <<"dealloc", p>>)'
  PROVE  RInv' /\ PStep
<1>1. \A t \in Terminals : HungUp(t)' <=> HungUp(t) BY DEF HungUp, Inert
<1>2. \A t \in Terminals : Heard(t)' = Heard(t) BY <1>1 DEF Heard, Inert
<1>3. UNCHANGED Pairs BY DEF Pairs, Inert
<1>4. PStep BY <1>2, <1>3, Unnoticed
<1>5. RInv' BY <1>1, QuietInv DEF Inert
<1> QED BY <1>4, <1>5
LEMMA InertThen ==
  ASSUME IInv, RInv, NEW x \in Actors, NEW r, Doing(x, r), NEW s \in Seq(Steps), Then(x, s),
         r[1] \notin {"deliver", "hand", "dealloc"},
         \A i \in DOMAIN s : s[i][1] \notin {"deliver", "hand"}, Inert
  PROVE  RInv' /\ PStep
<1>1. Effect(x, {r}, s) /\ Quietly(x) BY QuietThen DEF RInv
<1>2. ASSUME NEW y \in Actors, NEW p \in Ports, Has(y, <<"dealloc", p>>)
      PROVE  Has(y, <<"dealloc", p>>)'
  <2>1. <<"dealloc", p>> # r
    <3>1. <<"dealloc", p>>[1] = "dealloc" OBVIOUS
    <3> QED BY <3>1
  <2> QED BY <1>1, <1>2, <2>1 DEF Effect
<1> QED BY <1>1, <1>2, InertStep
LEMMA InertStart ==
  ASSUME IInv, RInv, NEW x \in Actors, Idle(x), x \notin exited, NEW s \in Seq(Steps), Start(x, s),
         \A i \in DOMAIN s : s[i][1] \notin {"deliver", "hand"}, Inert
  PROVE  RInv' /\ PStep
<1>1. Effect(x, {}, s) /\ Quietly(x) BY QuietStart
<1>2. \A y \in Actors : \A p \in Ports : Has(y, <<"dealloc", p>>) => Has(y, <<"dealloc", p>>)'
  BY <1>1 DEF Effect
<1> QED BY <1>1, <1>2, InertStep

LEMMA ReleaseMaps ==
  ASSUME IInv, RInv, NEW x \in Actors, NEW t \in Terminals, Release(x, t),
         UNCHANGED <<connection, connectionVars, freed, made, handed, threadVars>>
  PROVE  RInv' /\ PStep
<1> DEFINE r == <<"release", t>>
           s == IF Closes(t) THEN <<<<"throw", t>>>> ELSE <<>>
<1>1. Doing(x, r) /\ Then(x, s) /\ Inert BY DEF Release, Inert, portVars, connectionVars
<1>2. <<"throw", t>> \in Steps BY DEF Steps
<1>3. s \in Seq(Steps) /\ \A i \in DOMAIN s : s[i][1] = "throw" BY <1>2
<1>4. r[1] = "release" OBVIOUS
<1> HIDE DEF r, s
<1> QED BY <1>1, <1>3, <1>4, InertThen
LEMMA ThrowAwayMaps ==
  ASSUME IInv, RInv, NEW x \in Actors, NEW t \in Terminals, ThrowAway(x, t),
         UNCHANGED <<connection, connectionVars, freed, made, handed, threadVars>>
  PROVE  RInv' /\ PStep
<1>1. Doing(x, <<"throw", t>>) /\ Then(x, <<>>) /\ Inert
  BY DEF ThrowAway, Inert, portVars, connectionVars
<1>2. <<>> \in Seq(Steps) /\ DOMAIN <<>> = {} /\ <<"throw", t>>[1] = "throw" OBVIOUS
<1> QED BY <1>1, <1>2, InertThen
LEMMA ReadConnectionMaps ==
  ASSUME IInv, RInv, NEW x \in Actors, NEW t \in Terminals, ReadConnection(x, t),
         UNCHANGED <<connection, connectionVars, freed, made, handed, threadVars>>
  PROVE  RInv' /\ PStep
<1> DEFINE c == connection[t]
           r == <<"read", t>>
           s == IF c = None THEN <<>> ELSE <<<<"send", c, t>>>>
<1>1. Doing(x, r) /\ Then(x, s) /\ Inert BY DEF ReadConnection, Inert, portVars, connectionVars
<1>2. c # None => <<"send", c, t>> \in Steps BY DEF IInv, Steps, TypeOK
<1>3. s \in Seq(Steps) /\ \A i \in DOMAIN s : s[i][1] = "send" BY <1>2
<1>4. r[1] = "read" OBVIOUS
<1> HIDE DEF r, s
<1> QED BY <1>1, <1>3, <1>4, InertThen
LEMMA UnlockMaps ==
  ASSUME IInv, RInv, NEW x \in Actors, NEW c \in Connections, Unlock(x, c),
         UNCHANGED <<portVars, port, connection, portLock, made, handed, threadVars, garbage>>
  PROVE  RInv' /\ PStep
<1>1. Doing(x, <<"unlock", c>>) /\ Then(x, <<>>) /\ Inert BY DEF Unlock, Inert, portVars
<1>2. <<>> \in Seq(Steps) /\ DOMAIN <<>> = {} /\ <<"unlock", c>>[1] = "unlock" OBVIOUS
<1> QED BY <1>1, <1>2, InertThen
LEMMA GiveUpMaps ==
  ASSUME IInv, RInv, NEW t \in Terminals, Idle(Operator), GiveUp(t), UNCHANGED <<threadVars, garbage>>
  PROVE  RInv' /\ PStep
<1> DEFINE s == <<<<"release", t>>>>
<1>1. /\ Start(Operator, s) /\ Inert /\ Operator \in Actors /\ Operator \notin exited
  BY IpcAssumption DEF GiveUp, Inert, portVars, terminalVars, connectionVars, Actors, IInv, TypeOK
<1>2. <<"release", t>> \in Steps BY DEF Steps
<1>3. s \in Seq(Steps) /\ \A i \in DOMAIN s : s[i][1] = "release" BY <1>2
<1> HIDE DEF s
<1> QED BY <1>1, <1>3, InertStart
LEMMA SendMaps ==
  ASSUME IInv, RInv, NEW th \in Threads, Idle(th), th \notin exited, NEW p \in Ports, Send(th, p),
         UNCHANGED <<owner, connectionVars, buried, reading>>
  PROVE  RInv' /\ PStep
<1> DEFINE t == terminal[p]
           s == <<<<"read", t>>, <<"release", t>>>>
<1>1. Start(th, s) /\ Inert /\ th \in Actors /\ t # None
  BY DEF Send, GetTerminal, Inert, portVars, connectionVars, Actors
<1>2. t \in Terminals BY <1>1 DEF IInv, TypeOK
<1> HIDE DEF t
<1>3. <<"read", t>> \in Steps /\ <<"release", t>> \in Steps BY <1>2 DEF Steps
<1>4. s \in Seq(Steps) /\ \A i \in DOMAIN s : s[i][1] \in {"read", "release"} BY <1>3
<1> HIDE DEF s
<1> QED BY <1>1, <1>4, InertStart
LEMMA DestroyPortMaps ==
  ASSUME IInv, RInv, NEW th \in Threads, Idle(th), th \notin exited, NEW p \in Ports,
         DestroyPort(th, p), UNCHANGED <<owner, connectionVars, buried, reading>>
  PROVE  RInv' /\ PStep
<1> DEFINE s == <<<<"sever", p>>, <<"dealloc", p>>>>
<1>1. Start(th, s) /\ Inert /\ th \in Actors
  BY DEF DestroyPort, Inert, portVars, terminalVars, connectionVars, Actors
<1>2. <<"sever", p>> \in Steps /\ <<"dealloc", p>> \in Steps BY DEF Steps
<1>3. s \in Seq(Steps) /\ \A i \in DOMAIN s : s[i][1] \in {"sever", "dealloc"} BY <1>2
<1> HIDE DEF s
<1> QED BY <1>1, <1>3, InertStart
LEMMA ExitMaps ==
  ASSUME IInv, RInv, NEW th \in Threads, Idle(th), Exit(th),
         UNCHANGED <<owner, connectionVars, buried, reading>>
  PROVE  RInv' /\ PStep
<1>1. th \in Actors /\ Inert /\ UNCHANGED work
  BY DEF Exit, Inert, portVars, terminalVars, connectionVars, Actors
<1>2. Quietly(th) BY <1>1, SilentIdle, QuietStays
<1>3. \A y \in Actors : \A p \in Ports : Has(y, <<"dealloc", p>>) => Has(y, <<"dealloc", p>>)'
  BY <1>1 DEF Has
<1> QED BY <1>1, <1>2, <1>3, InertStep
LEMMA SeverMaps ==
  ASSUME IInv, RInv, NEW x \in Actors, NEW p \in Ports, Sever(x, p),
         UNCHANGED <<owner, port, connection, portLock, connectionVars, made, handed,
                     exited, buried, reading, garbage>>
  PROVE  RInv' /\ PStep
<1> DEFINE r == <<"sever", p>>
           t == terminal[p]
           s == <<<<"cut", t>>, <<"release", t>>>>
<1>1. Doing(x, r) /\ UNCHANGED <<port, connection, lastMessage, ends, made, freed, handed>>
  BY DEF Sever, connectionVars
<1>2. r[1] = "sever" /\ r[2] = p OBVIOUS
<1>3. CASE terminal[p] = None /\ Then(x, <<>>) /\ UNCHANGED terminal
  <2>1. <<>> \in Seq(Steps) /\ DOMAIN <<>> = {} /\ Inert BY <1>1, <1>3 DEF Inert
  <2> QED BY <1>1, <1>2, <1>3, <2>1, InertThen
<1>4. CASE GetTerminal(p) /\ terminal' = Detach(p) /\ Then(x, s)
  <2>1. t \in Terminals BY <1>4 DEF GetTerminal, IInv, TypeOK
  <2> HIDE DEF t
  <2>2. <<"cut", t>> \in Steps /\ <<"release", t>> \in Steps BY <2>1 DEF Steps
  <2>3. s \in Seq(Steps) /\ \A i \in DOMAIN s : s[i][1] \in {"cut", "release"} BY <2>2
  <2>4. Then(x, s) /\ terminal' = [terminal EXCEPT ![p] = None] BY <1>4 DEF Detach, t
  <2> HIDE DEF s, r
  <2>5. Effect(x, {r}, s) /\ Quietly(x) BY <1>1, <1>2, <2>3, <2>4, QuietThen DEF RInv
  <2>6. Later(x, <<"dealloc", p>>) BY <1>1, <1>2, Next1 DEF IInv
  <2>7. ASSUME NEW y \in Actors, NEW q \in Ports, Has(y, <<"dealloc", q>>)
        PROVE  Has(y, <<"dealloc", q>>)'
    <3>1. <<"dealloc", q>>[1] = "dealloc" OBVIOUS
    <3> QED BY <1>2, <2>5, <2>7, <3>1 DEF Effect
  <2>8. ASSUME NEW q \in Ports, terminal[q] # None
        PROVE  terminal'[q] # None \/ \E y \in Actors : Has(y, <<"dealloc", q>>)'
    <3>1. CASE q = p BY <2>5, <2>6, <3>1 DEF Effect
    <3>2. CASE q # p BY <2>4, <2>8, <3>2 DEF IInv, TypeOK
    <3> QED BY <3>1, <3>2
  <2>9. \A u \in Terminals : HungUp(u)' <=> HungUp(u) BY <1>1 DEF HungUp
  <2>10. RInv' BY <1>1, <2>5, <2>7, <2>8, <2>9, QuietInv
  <2>11. \A u \in Terminals : Heard(u)' = Heard(u) BY <1>1, <2>9 DEF Heard
  <2>12. UNCHANGED Pairs BY <1>1 DEF Pairs
  <2> QED BY <2>10, <2>11, <2>12, Unnoticed
<1> QED BY <1>3, <1>4 DEF Sever
LEMMA DeallocMaps ==
  ASSUME IInv, RInv, NEW x \in Actors, NEW p \in Ports, Dealloc(x, p),
         UNCHANGED <<owner, port, connection, portLock, connectionVars, made, handed,
                     exited, buried, reading, garbage>>
  PROVE  RInv' /\ PStep
<1> DEFINE r == <<"dealloc", p>>
<1>1. /\ Doing(x, r) /\ Then(x, <<>>) /\ freed' = freed \cup {p}
      /\ UNCHANGED <<port, connection, lastMessage, ends, made, handed, terminal>>
  BY DEF Dealloc, connectionVars
<1>2. <<>> \in Seq(Steps) /\ DOMAIN <<>> = {} /\ r[1] = "dealloc" OBVIOUS
<1>3. Effect(x, {r}, <<>>) /\ Quietly(x) BY <1>1, <1>2, QuietThen DEF RInv
<1>4. ASSUME NEW y \in Actors, NEW q \in Ports \ freed', Has(y, <<"dealloc", q>>)
      PROVE  Has(y, <<"dealloc", q>>)'
  <2>1. q # p BY <1>1
  <2>2. <<"dealloc", q>> # r BY <2>1
  <2> QED BY <1>3, <1>4, <2>2 DEF Effect
<1>5. \A u \in Terminals : u \in freed' <=> u \in freed BY <1>1, IpcAssumption
<1>6. \A u \in Terminals : HungUp(u)' <=> HungUp(u) BY <1>1, <1>5 DEF HungUp
<1>7. RInv' BY <1>1, <1>3, <1>4, <1>6, QuietInv
<1>8. \A u \in Terminals : Heard(u)' = Heard(u) BY <1>1, <1>6 DEF Heard
<1>9. UNCHANGED Pairs BY <1>1 DEF Pairs
<1> QED BY <1>7, <1>8, <1>9, Unnoticed
LEMMA CreatePortMaps ==
  ASSUME IInv, RInv, NEW th \in Threads, Idle(th), NEW p \in Ports, CreatePort(th, p),
         UNCHANGED <<owner, connectionVars, buried, reading>>
  PROVE  RInv' /\ PStep
<1>1. /\ UNCHANGED <<port, connection, lastMessage, ends, handed, terminal, work>>
      /\ made' = made \cup {p} /\ (freed' = freed \/ freed' = freed \cup {p}) /\ th \in Actors
  BY DEF CreatePort, portVars, terminalVars, connectionVars, Actors
<1>2. Quietly(th) BY <1>1, SilentIdle, QuietStays
<1>3. \A y \in Actors : \A q \in Ports : Has(y, <<"dealloc", q>>) => Has(y, <<"dealloc", q>>)'
  BY <1>1 DEF Has
<1>4. /\ \A u \in Terminals : (u \in freed' <=> u \in freed) /\ (u \in made' <=> u \in made)
      /\ Connections \cap made' = Connections \cap made
  BY <1>1, IpcAssumption
<1>5. \A u \in Terminals : HungUp(u)' <=> HungUp(u) BY <1>1, <1>4 DEF HungUp
<1>6. freed \subseteq freed' BY <1>1
<1>7. RInv' BY <1>1, <1>2, <1>3, <1>5, <1>6, QuietInv
<1>8. \A u \in Terminals : Heard(u)' = Heard(u) BY <1>1, <1>4, <1>5 DEF Heard
<1>9. UNCHANGED Pairs BY <1>1, <1>4 DEF Pairs
<1> QED BY <1>7, <1>8, <1>9, Unnoticed
LEMMA CollectMaps ==
  ASSUME IInv, RInv, Collect,
         UNCHANGED <<portVars, terminalVars, connectionVars, made, handed, owner, portList,
                     exited, reading>>
  PROVE  RInv' /\ PStep
<1> DEFINE o == Head(garbage)
           s == IF o \in Threads THEN <<<<"bury", o>>>> ELSE <<<<"hangup", o>>, <<"delete", o>>>>
<1>1. /\ Idle(Collector) /\ garbage # <<>> /\ Start(Collector, s) /\ Inert
      /\ Collector \in Actors /\ Collector \notin exited
  BY IpcAssumption
  DEF Collect, Inert, portVars, terminalVars, connectionVars, Actors, IInv, TypeOK
<1>2. o \in Terminals \cup Threads BY <1>1 DEF IInv, TypeOK
<1> HIDE DEF o
<1>3. /\ o \in Threads => <<"bury", o>> \in Steps
      /\ o \notin Threads => <<"hangup", o>> \in Steps /\ <<"delete", o>> \in Steps
  BY <1>2 DEF Steps
<1>4. s \in Seq(Steps) BY <1>3
<1>5. \A i \in DOMAIN s : s[i][1] \in {"bury", "hangup", "delete"} OBVIOUS
<1> HIDE DEF s
<1> QED BY <1>1, <1>4, <1>5, InertStart

LEMMA BuryMaps ==
  ASSUME IInv, RInv, NEW th \in Threads, Bury(th),
         UNCHANGED <<portVars, terminalVars, connectionVars, made, handed, owner, portList,
                     exited, reading>>
  PROVE  RInv' /\ PStep
<1> DEFINE r == <<"bury", th>>
<1>1. /\ Doing(Collector, r) /\ Inert /\ Collector \in Actors /\ r[1] = "bury" /\ r \in Steps
  BY DEF Bury, Inert, portVars, terminalVars, connectionVars, Actors, Steps
<1>2. ASSUME NEW p \in portList[th],
             Start(Collector, <<<<"sever", p>>, <<"dealloc", p>>>> \o work[Collector])
      PROVE  RInv' /\ PStep
  <2> DEFINE s == <<<<"sever", p>>, <<"dealloc", p>>, r>>
  <2>1. p \in Ports BY DEF IInv, TypeOK
  <2>2. <<"sever", p>> \in Steps /\ <<"dealloc", p>> \in Steps BY <2>1 DEF Steps
  <2>3. s \in Seq(Steps) /\ \A i \in DOMAIN s : s[i][1] \in {"sever", "dealloc", "bury"}
    BY <1>1, <2>2
  <2>4. Then(Collector, s) BY <1>1, <1>2, <2>1, BuryWork
  <2> HIDE DEF s, r
  <2> QED BY <1>1, <2>3, <2>4, InertThen
<1>3. CASE Then(Collector, <<>>)
  <2>1. <<>> \in Seq(Steps) /\ DOMAIN <<>> = {} OBVIOUS
  <2> HIDE DEF r
  <2> QED BY <1>1, <1>3, <2>1, InertThen
<1> QED BY <1>2, <1>3 DEF Bury
LEMMA NotConnectedMaps ==
  ASSUME IInv, RInv, NEW t \in Terminals, NotConnected(t),
         UNCHANGED <<portVars, terminalVars, connectionVars, made, handed, owner, portList,
                     exited, reading>>
  PROVE  RInv' /\ PStep
<1>1. Doing(Collector, <<"hangup", t>>) /\ Then(Collector, <<>>) /\ Inert /\ Collector \in Actors
  BY DEF NotConnected, Inert, portVars, terminalVars, connectionVars, Actors
<1>2. <<>> \in Seq(Steps) /\ DOMAIN <<>> = {} /\ <<"hangup", t>>[1] = "hangup" OBVIOUS
<1> QED BY <1>1, <1>2, InertThen

\* One phone's owner hears something.
LEMMA HearsOne ==
  ASSUME NEW t \in Terminals, NEW m, Heard(t)' = m,
         \A u \in Terminals : u # t => Heard(u)' = Heard(u), UNCHANGED Pairs
  PROVE  Promise!Hear(t, m)
<1>1. [u \in Terminals |-> Heard(u)]' = [[u \in Terminals |-> Heard(u)] EXCEPT ![t] = m] OBVIOUS
<1> QED BY <1>1 DEF Promise!Hear

\* Deleting a severed terminal that was never connected hangs it up; a connected one has
\* hung up before.
LEMMA DeleteMaps ==
  ASSUME IInv, RInv, NEW t \in Terminals, Delete(t),
         UNCHANGED <<portVars, terminalVars, connectionVars, made, handed, owner, portList,
                     exited, reading>>
  PROVE  RInv' /\ PStep
<1> DEFINE x == Collector
           r == <<"delete", t>>
<1>0. x \in Actors BY DEF Actors
<1>1. /\ Doing(x, r) /\ Then(x, <<>>) /\ freed' = freed \cup {t}
      /\ UNCHANGED <<port, connection, lastMessage, ends, made, handed, terminal>>
  BY DEF Delete, portVars, terminalVars, connectionVars
<1>2. <<>> \in Seq(Steps) /\ DOMAIN <<>> = {} /\ r[1] = "delete" /\ r[2] = t OBVIOUS
<1>3. Effect(x, {r}, <<>>) /\ Quietly(x)
  <2> HIDE DEF r, x
  <2> QED BY <1>0, <1>1, <1>2, QuietThen DEF RInv
<1>4. Has(x, r) /\ \A q : ~Later(x, q)
  <2> HIDE DEF r, x
  <2> QED BY <1>0, <1>1, <1>2, Next1 DEF IInv
<1>5. ASSUME NEW y \in Actors, NEW q \in Ports, Has(y, <<"dealloc", q>>)
      PROVE  Has(y, <<"dealloc", q>>)'
  <2>1. <<"dealloc", q>> # r OBVIOUS
  <2> HIDE DEF r
  <2> QED BY <1>3, <1>5, <2>1 DEF Effect
<1>6. /\ \A u \in Terminals : HungUp(u) => HungUp(u)'
      /\ HungUp(t)' /\ \A u \in Terminals : u # t => (HungUp(u)' <=> HungUp(u))
  BY <1>1 DEF HungUp
<1>7. RInv' BY <1>0, <1>1, <1>3, <1>5, <1>6, QuietInv
<1>8. UNCHANGED Pairs BY <1>1 DEF Pairs
<1>9. Heard(t)' = "gone" /\ \A u \in Terminals : u # t => Heard(u)' = Heard(u)
  BY <1>1, <1>6 DEF Heard
<1>10. CASE HungUp(t)
  <2>1. Heard(t) = "gone" BY <1>10 DEF Heard
  <2> QED BY <1>7, <1>8, <1>9, <2>1, Unnoticed
<1>11. CASE ~HungUp(t)
  <2>1. t \in made /\ port[t] = None BY <1>4 DEF IInv, ThrownDead, Thrown
  <2>2. Heard(t) = "severed" BY <1>11, <2>1 DEF Heard
  <2>3. Promise!Hear(t, "gone") BY <1>8, <1>9, HearsOne
  <2>4. Promise!HangUp(t) BY <2>2, <2>3 DEF Promise!HangUp
  <2> QED BY <1>7, <2>4 DEF PStep, Promise!Next, Promise!Owed
<1> QED BY <1>10, <1>11

\* Terminal::Sever severs.
LEMMA CutMaps ==
  ASSUME IInv, RInv, NEW x \in Actors, NEW t \in Terminals, Cut(x, t),
         UNCHANGED <<connection, connectionVars, freed, made, handed, threadVars>>
  PROVE  RInv' /\ PStep
<1> DEFINE r == <<"cut", t>>
<1>1. /\ Doing(x, r) /\ Then(x, <<>>) /\ port' = [port EXCEPT ![t] = None]
      /\ UNCHANGED <<connection, lastMessage, ends, made, freed, handed, terminal>>
  BY DEF Cut, portVars, connectionVars
<1>2. <<>> \in Seq(Steps) /\ DOMAIN <<>> = {} /\ r[1] = "cut" OBVIOUS
<1>3. Effect(x, {r}, <<>>) /\ Quietly(x)
  <2> HIDE DEF r
  <2> QED BY <1>1, <1>2, QuietThen DEF RInv
<1>4. ASSUME NEW y \in Actors, NEW q \in Ports, Has(y, <<"dealloc", q>>)
      PROVE  Has(y, <<"dealloc", q>>)'
  <2>1. <<"dealloc", q>> # r OBVIOUS
  <2> HIDE DEF r
  <2> QED BY <1>3, <1>4, <2>1 DEF Effect
<1>5. \A u \in Terminals : port'[u] = IF u = t THEN None ELSE port[u]
  BY <1>1 DEF IInv, TypeOK
<1>6. \A u \in Terminals : HungUp(u)' <=> HungUp(u) BY <1>1 DEF HungUp
<1>7. RInv' BY <1>1, <1>3, <1>4, <1>5, <1>6, QuietInv
<1>8. UNCHANGED Pairs BY <1>1 DEF Pairs
<1>9. \A u \in Terminals : u # t => Heard(u)' = Heard(u) BY <1>1, <1>5, <1>6 DEF Heard
<1>10. CASE port[t] = None
  <2>1. Heard(t)' = Heard(t) BY <1>1, <1>5, <1>6, <1>10 DEF Heard
  <2> QED BY <1>7, <1>8, <1>9, <2>1, Unnoticed
<1>11. CASE port[t] # None
  <2>1. ~HungUp(t) /\ t \in made BY <1>11, AliveEnd, UsedAlive DEF Alive, Live
  <2>2. Heard(t)' = "severed" BY <1>1, <1>5, <1>6, <2>1 DEF Heard
  <2>3. Heard(t) \notin {"severed", "gone"}
    <3>1. lastMessage[port[t]] \in Messages \cup {"nothing"} BY <1>11 DEF IInv, TypeOK
    <3> QED BY <1>11, <2>1, <3>1 DEF Heard, Messages
  <2>4. Promise!Hear(t, "severed") BY <1>8, <1>9, <2>2, HearsOne
  <2>5. Promise!Sever(t) BY <2>3, <2>4 DEF Promise!Sever
  <2> QED BY <1>7, <2>5 DEF PStep, Promise!Next
<1> QED BY <1>10, <1>11

\* A new terminal belongs to a port that nobody has called yet.
LEMMA DialMaps ==
  ASSUME IInv, RInv, NEW th \in Threads, Idle(th), th \notin exited, NEW p \in Ports,
         NEW t \in Terminals, Dial(th, p, t), UNCHANGED <<owner, connectionVars, buried, reading>>
  PROVE  RInv' /\ PStep
<1> USE IpcAssumption
<1> DEFINE s == <<<<"release", t>>>>
<1>1. /\ p \in portList[th] /\ t \notin made /\ made' = made \cup {t}
      /\ port' = [port EXCEPT ![t] = p] /\ th \in Actors
      /\ UNCHANGED <<connection, lastMessage, ends, freed>>
  BY DEF Dial, connectionVars, Actors
<1>2. \/ Start(th, s) /\ UNCHANGED <<terminal, handed>>
      \/ /\ terminal[p] = None /\ terminal' = [terminal EXCEPT ![p] = t]
         /\ handed' = handed \cup {t} /\ UNCHANGED work
  <2>1. SetTerminal(p) => terminal[p] = None BY DEF SetTerminal, IInv, Attached, TypeOK
  <2> QED BY <2>1 DEF Dial
<1>3. s \in Seq(Steps) /\ \A i \in DOMAIN s : s[i][1] = "release"
  <2>1. <<"release", t>> \in Steps BY DEF Steps
  <2> QED BY <2>1
<1> HIDE DEF s
<1>4. /\ Quietly(th)
      /\ \A y \in Actors : \A q \in Ports : Has(y, <<"dealloc", q>>) => Has(y, <<"dealloc", q>>)'
  <2>1. CASE Start(th, s)
    <3>1. Effect(th, {}, s) /\ Quietly(th) BY <1>1, <1>3, <2>1, QuietStart
    <3> QED BY <3>1 DEF Effect
  <2>2. CASE UNCHANGED work BY <1>1, <2>2, SilentIdle, QuietStays DEF Has
  <2> QED BY <1>2, <2>1, <2>2
<1>5. /\ connection[t] = None /\ port[t] = None /\ t \notin freed /\ t \notin handed
  <2>1. connection[t] = None /\ port[t] = None BY <1>1 DEF IInv, Fresh
  <2>2. ~Alive(t) /\ t \notin freed BY <1>1 DEF Alive, Live, IInv, TypeOK
  <2> QED BY <2>1, <2>2, UsedAlive
<1>6. \A u \in Terminals : port'[u] = IF u = t THEN p ELSE port[u] BY <1>1 DEF IInv, TypeOK
<1>7. \A u \in Terminals : HungUp(u)' <=> HungUp(u) BY <1>1 DEF HungUp
<1>8. Paired' /\ DeliverFirst' /\ OpenedFirst' /\ InOrder' /\ ClosedLast'
  BY <1>1, <1>4, <1>5, <1>6, <1>7, QuietKeeps
<1>9. lastMessage[p] = "nothing" \/ terminal[p] # None
  <2>1. owner[p] = th /\ p \notin freed BY <1>1 DEF IInv, Owned
  <2>2. ASSUME NEW y \in Actors, Has(y, <<"dealloc", p>>) PROVE FALSE
    <3>1. y = th BY <2>1, <2>2 DEF IInv, Owned
    <3>2. DOMAIN work[th] # {} BY <2>2, <3>1 DEF Has
    <3> QED BY <3>2 DEF Idle
  <2> QED BY <2>1, <2>2 DEF RInv, Unheard
<1>10. Unheard'
  <2>1. handed \subseteq Terminals BY DEF IInv, TypeOK
  <2>2. ASSUME NEW u \in handed', port'[u] # None PROVE lastMessage[port'[u]] = "nothing"
    <3>1. CASE u \in handed
      <4>1. port'[u] = port[u] BY <1>5, <1>6, <2>1, <3>1
      <4> QED BY <2>2, <3>1, <4>1 DEF RInv, Unheard
    <3>2. CASE u \notin handed
      <4>1. u = t /\ terminal[p] = None BY <1>2, <2>2, <3>2
      <4> QED BY <1>6, <1>9, <4>1
    <3> QED BY <3>1, <3>2
  <2>3. ASSUME NEW q \in Ports \ freed, lastMessage[q] # "nothing"
        PROVE  terminal'[q] # None \/ \E y \in Actors : Has(y, <<"dealloc", q>>)'
    <3>1. terminal[q] # None => terminal'[q] # None BY <1>2 DEF Objects, IInv, TypeOK
    <3> QED BY <1>4, <2>3, <3>1 DEF RInv, Unheard
  <2> QED BY <1>1, <2>2, <2>3 DEF Unheard
<1>11. \A u \in Terminals : Heard(u)' = Heard(u)
  <2>1. Heard(t) = "nothing" /\ Heard(t)' = "nothing"
    <3>1. ~HungUp(t) /\ p # None BY <1>5 DEF HungUp, Objects
    <3> QED BY <1>1, <1>5, <1>6, <1>7, <3>1 DEF Heard
  <2>2. \A u \in Terminals : u # t => Heard(u)' = Heard(u) BY <1>1, <1>6, <1>7 DEF Heard
  <2> QED BY <2>1, <2>2
<1>12. UNCHANGED Pairs
  <2>1. Connections \cap made' = Connections \cap made BY <1>1
  <2> QED BY <1>1, <2>1 DEF Pairs
<1> QED BY <1>8, <1>10, <1>11, <1>12, Unnoticed DEF RInv

\* Deliveries stay in front when the head is replaced by s.
LEMMA FirstBecomes ==
  ASSUME IInv, DeliverFirst, NEW x \in Actors, NEW s \in Seq(Steps), Becomes(x, s),
         \A i, j \in DOMAIN s : i < j /\ s[j][1] = "deliver" =>
           s[i][1] \in {"deliver", "hand"} /\ s[i][2] # s[j][2],
         \A i \in DOMAIN s : \A j \in DOMAIN work[x] : j > 1 /\ work[x][j][1] = "deliver" =>
           s[i][1] \in {"deliver", "hand"} /\ s[i][2] # work[x][j][2]
  PROVE  DeliverFirst'
<1>0. Replaced(x, s) BY BecomesAt DEF IInv
<1> SUFFICES ASSUME NEW y \in Actors, NEW i \in DOMAIN work'[y], NEW j \in DOMAIN work'[y],
                    i < j, work'[y][j][1] = "deliver"
             PROVE  work'[y][i][1] \in {"deliver", "hand"} /\ work'[y][i][2] # work'[y][j][2]
  BY DEF DeliverFirst
<1>1. CASE y # x
  <2>1. work'[y] = work[y] BY <1>0, <1>1 DEF Replaced
  <2> QED BY <2>1 DEF DeliverFirst
<1>2. CASE y = x
  <2>0. i \in Int /\ j \in Int /\ Len(s) \in Nat BY <1>0, <1>2 DEF Replaced
  <2>1. CASE j <= Len(s)
    <3>1. i \in DOMAIN s /\ j \in DOMAIN s BY <2>0, <2>1, <1>0, <1>2 DEF Replaced
    <3>2. work'[y][i] = s[i] /\ work'[y][j] = s[j] BY <3>1, <1>0, <1>2 DEF Replaced
    <3> QED BY <3>1, <3>2
  <2>2. CASE j > Len(s)
    <3> DEFINE k == j - Len(s) + 1
    <3>1. k \in DOMAIN work[x] /\ k > 1 /\ work'[x][j] = work[x][k] BY <2>2, <1>0, <1>2 DEF Replaced
    <3>2. CASE i <= Len(s)
      <4>1. i \in DOMAIN s BY <3>2, <1>0, <1>2 DEF Replaced
      <4>2. work'[x][i] = s[i] BY <4>1, <1>0 DEF Replaced
      <4> HIDE DEF k
      <4> QED BY <1>2, <3>1, <4>1, <4>2
    <3>3. CASE i > Len(s)
      <4> DEFINE l == i - Len(s) + 1
      <4>1. l \in DOMAIN work[x] /\ work'[x][i] = work[x][l] BY <3>3, <1>0, <1>2 DEF Replaced
      <4>2. l < k BY <2>0
      <4> HIDE DEF k, l
      <4> QED BY <1>2, <3>1, <4>1, <4>2 DEF DeliverFirst
    <3> QED BY <2>0, <3>2, <3>3
  <2> QED BY <2>0, <2>1, <2>2
<1> QED BY <1>1, <1>2

\* What follows a delivery in a call: no other one to the same terminal.
LEMMA FirstNext ==
  ASSUME IInv, DeliverFirst, NEW x \in Actors, NEW r, Doing(x, r)
  PROVE  /\ \A j \in DOMAIN work[x] : j > 1 /\ work[x][j][1] = "deliver" =>
              r[1] \in {"deliver", "hand"} /\ r[2] # work[x][j][2]
         /\ \A t, m : Later(x, <<"deliver", t, m>>) => r[1] \in {"deliver", "hand"} /\ r[2] # t
         /\ \A t, m : ~Later(x, <<"hand", t, m>>)
<1> USE DEF IInv
<1>1. work[x] \in Seq(Steps) /\ ~Idle(x) /\ Head(work[x]) = r BY DEF TypeOK, Doing
<1>2. 1 \in DOMAIN work[x] /\ work[x][1] = r BY <1>1 DEF Idle
<1>3. \A j \in DOMAIN work[x] : j > 1 /\ work[x][j][1] = "deliver" =>
        r[1] \in {"deliver", "hand"} /\ r[2] # work[x][j][2]
  BY <1>2 DEF DeliverFirst
<1>4. ASSUME NEW t, NEW m, Later(x, <<"deliver", t, m>>)
      PROVE  r[1] \in {"deliver", "hand"} /\ r[2] # t
  <2>1. PICK j \in DOMAIN work[x] : j > 1 /\ work[x][j] = <<"deliver", t, m>> BY <1>4 DEF Later
  <2>2. work[x][j][1] = "deliver" /\ work[x][j][2] = t BY <2>1
  <2> QED BY <1>3, <2>1, <2>2
<1>5. ASSUME NEW t, NEW m, Later(x, <<"hand", t, m>>) PROVE FALSE
  <2>1. <<"hand", t, m>>[1] \in LaterKinds BY <1>5, Next1
  <2> QED BY <2>1 DEF LaterKinds
<1> QED BY <1>3, <1>4, <1>5

\* Deliver: what was about to be delivered is handed over, if there is still a port.
LEMMA DeliverMaps ==
  ASSUME IInv, RInv, NEW x \in Actors, NEW t \in Terminals, NEW m \in Messages, Deliver(x, t, m),
         UNCHANGED <<connection, connectionVars, freed, made, handed, threadVars>>
  PROVE  RInv' /\ PStep
<1> USE IpcAssumption DEF RInv
<1> DEFINE r == <<"deliver", t, m>>
           s == IF port[t] = None THEN <<>> ELSE <<<<"hand", t, m>>>>
<1>1. /\ Doing(x, r) /\ Then(x, s)
      /\ UNCHANGED <<port, connection, lastMessage, ends, made, freed, handed, terminal>>
  BY DEF Deliver, portVars, connectionVars
<1>2. <<"hand", t, m>> \in Steps BY DEF Steps
<1>3. /\ s \in Seq(Steps) /\ DOMAIN s = (IF port[t] = None THEN {} ELSE {1})
      /\ port[t] # None => s[1] = <<"hand", t, m>>
  BY <1>2
<1>4. Effect(x, {r}, s) BY <1>1, <1>3, ThenEffect
<1> HIDE DEF s
<1>5. DeliverFirst'
  <2>1. \A j \in DOMAIN work[x] : j > 1 /\ work[x][j][1] = "deliver" => t # work[x][j][2]
    BY <1>1, FirstNext
  <2>2. \A i \in DOMAIN s : s[i][1] = "hand" /\ s[i][2] = t BY <1>3
  <2>3. Becomes(x, s) BY <1>4 DEF Effect
  <2> QED BY <1>3, <2>1, <2>2, <2>3, FirstBecomes
<1>6. \A y \in Actors : \A q : q[1] \notin {"deliver", "hand"} => (Has(y, q)' <=> Has(y, q))
  <2>1. \A i \in DOMAIN s : s[i][1] = "hand" BY <1>3
  <2>2. r[1] = "deliver" OBVIOUS
  <2> HIDE DEF r
  <2> QED BY <1>4, <2>1, <2>2 DEF Effect
<1>7. \A y \in Actors : \A u, n : News(y, u, n)' => News(y, u, n)
  <2> SUFFICES ASSUME NEW u, NEW n PROVE News(x, u, n)' => News(x, u, n) BY <1>4 DEF Effect, News
  <2>1. ASSUME NEW i \in DOMAIN s, s[i] = <<"hand", u, n>> PROVE u = t /\ n = m BY <1>3, <2>1
  <2>2. ASSUME NEW i \in DOMAIN s PROVE s[i] # <<"deliver", u, n>> BY <1>3, <2>2
  <2>3. Has(x, <<"deliver", t, m>>) BY <1>4 DEF Effect
  <2> QED BY <1>4, <2>1, <2>2, <2>3 DEF Effect, News
<1>8. \A y \in Actors : \A u \in Terminals : \A n : News(y, u, n) /\ port[u] # None => News(y, u, n)'
  <2> SUFFICES ASSUME NEW u \in Terminals, NEW n, News(x, u, n), port[u] # None PROVE News(x, u, n)'
    BY <1>4 DEF Effect, News
  <2>1. CASE u = t /\ n = m
    <3>1. 1 \in DOMAIN s /\ s[1] = <<"hand", u, n>> BY <1>3, <2>1
    <3> QED BY <1>4, <3>1 DEF Effect, News
  <2>2. CASE ~(u = t /\ n = m)
    <3>1. <<"deliver", u, n>> # r /\ <<"hand", u, n>> # r BY <2>2
    <3> QED BY <1>4, <3>1 DEF Effect, News
  <2> QED BY <2>1, <2>2
<1>9. /\ \A a, b \in Terminals : Partner(a, b)' <=> Partner(a, b)
      /\ \A a \in Terminals : HungUp(a)' <=> HungUp(a)
  BY <1>1 DEF Partner, HungUp
<1>10. /\ \A c : <<"unlock", c>>[1] = "unlock" /\ <<"release", c>>[1] = "release"
       /\ \A c : <<"dealloc", c>>[1] = "dealloc"
  OBVIOUS
<1>11. /\ \A y \in Actors : \A c : Has(y, <<"unlock", c>>)' <=> Has(y, <<"unlock", c>>)
       /\ \A y \in Actors : \A c : Has(y, <<"release", c>>)' <=> Has(y, <<"release", c>>)
       /\ \A y \in Actors : \A c : Has(y, <<"dealloc", c>>)' <=> Has(y, <<"dealloc", c>>)
  BY <1>6, <1>10
<1>12. Operator \in Actors BY DEF Actors
<1>13. Paired' BY <1>9 DEF Paired
<1>14. OpenedFirst' BY <1>1, <1>7, <1>8, <1>11, <1>12 DEF OpenedFirst
<1>15. InOrder'
  <2> SUFFICES ASSUME NEW y \in Actors, NEW u \in Terminals
               PROVE  /\ \A n \in {"data", "closed"} : News(y, u, n)' /\ port[u] # None =>
                           lastMessage[port[u]] \in {"opened", "data"}
                      /\ News(y, u, "data")' =>
                           \E v \in Terminals : Partner(u, v)' /\ Has(y, <<"release", v>>)'
                      /\ News(y, u, "closed")' =>
                           y = Collector /\ \E v \in Terminals : Partner(u, v)' /\ HungUp(v)'
    BY <1>1 DEF InOrder
  <2> QED BY <1>7, <1>9, <1>11 DEF InOrder
<1>16. ClosedLast' BY <1>1, <1>9 DEF ClosedLast
<1>17. Unheard' BY <1>1, <1>11 DEF Unheard
<1>18. \A u \in Terminals : Heard(u)' = Heard(u) BY <1>1, <1>9 DEF Heard
<1>19. UNCHANGED Pairs BY <1>1 DEF Pairs
<1> QED BY <1>5, <1>13, <1>14, <1>15, <1>16, <1>17, <1>18, <1>19, Unnoticed

\* In the words of Calls: who hung up is gone, and the partner is the other phone of the call.
LEMMA GoneIs ==
  ASSUME IInv, NEW t \in Terminals PROVE Heard(t) = "gone" <=> HungUp(t)
<1>1. CASE HungUp(t) BY <1>1 DEF Heard
<1>2. CASE ~HungUp(t)
  <2>1. port[t] # None => lastMessage[port[t]] # "gone" BY DEF IInv, TypeOK, Messages
  <2> QED BY <1>2, <2>1 DEF Heard
<1> QED BY <1>1, <1>2
LEMMA OthersAre ==
  ASSUME IInv, NEW t \in Terminals, NEW u \in Terminals, Partner(t, u)
  PROVE  u \in Promise!Others(t)
<1> DEFINE pair == {v \in Terminals : connection[v] = connection[t]}
<1>1. connection[t] \in Connections \cap made BY DEF Partner, IInv, Connected, TypeOK
<1>2. pair \in Pairs BY <1>1 DEF Pairs
<1>3. t \in pair /\ u \in pair /\ u # t BY DEF Partner
<1> HIDE DEF pair
<1>4. u \in UNION {c \in Pairs : t \in c} BY <1>2, <1>3
<1> QED BY <1>3, <1>4 DEF Promise!Others

\* SendToThis: the owner of the port hears the message.
LEMMA SendToThisMaps ==
  ASSUME IInv, RInv, NEW x \in Actors, NEW t \in Terminals, NEW m \in Messages, SendToThis(x, t, m),
         UNCHANGED <<connection, connectionVars, freed, made, handed, threadVars>>
  PROVE  RInv' /\ PStep
<1> USE IpcAssumption DEF RInv
<1> DEFINE r == <<"hand", t, m>>
           p == port[t]
<1>1. /\ Doing(x, r) /\ Then(x, <<>>) /\ lastMessage' = [lastMessage EXCEPT ![p] = m]
      /\ UNCHANGED <<port, connection, ends, made, freed, handed, terminal>>
  BY DEF SendToThis, connectionVars
<1>2. <<>> \in Seq(Steps) /\ DOMAIN <<>> = {} /\ r[1] = "hand" /\ r[2] = t OBVIOUS
<1>3. Effect(x, {r}, <<>>) BY <1>1, <1>2, ThenEffect
<1>4. News(x, t, m) BY <1>1, Next1 DEF News, IInv
<1>5. p \in Ports /\ port[t] # None /\ connection[t] # None /\ ~HungUp(t)
  <2>1. Has(x, r) BY <1>1, Next1 DEF IInv
  <2>2. port[t] # None /\ connection[t] # None BY <2>1 DEF IInv, Delivered
  <2> QED BY <2>2, AliveEnd DEF IInv, TypeOK
<1>6. \A u \in Terminals : u # t /\ (u \in handed \/ connection[u] # None) => port[u] # p
  BY <1>5, OnePort
<1>7. \A q \in Ports : lastMessage'[q] = IF q = p THEN m ELSE lastMessage[q]
  BY <1>1 DEF IInv, TypeOK
<1> HIDE DEF p
<1>p. p = port[t] BY DEF p
<1>8. DeliverFirst'
  <2>1. Becomes(x, <<>>) BY <1>3 DEF Effect
  <2> QED BY <1>2, <2>1, FirstBecomes
<1>9. \A y \in Actors : \A q : q[1] \notin {"deliver", "hand"} => (Has(y, q)' <=> Has(y, q))
  <2> HIDE DEF r
  <2> QED BY <1>2, <1>3 DEF Effect
<1>10. \A n : ~News(x, t, n)'
  <2>1. \A n : ~Later(x, <<"hand", t, n>>) /\ ~Later(x, <<"deliver", t, n>>)
    BY <1>1, <1>2, FirstNext
  <2> QED BY <1>2, <1>3, <2>1 DEF Effect, News
<1>11. \A y \in Actors : \A u, n : News(y, u, n)' => News(y, u, n)
  BY <1>2, <1>3 DEF Effect, News
<1>12. \A y \in Actors : \A u, n : u # t /\ News(y, u, n) => News(y, u, n)'
  <2> SUFFICES ASSUME NEW u, NEW n, u # t, News(x, u, n) PROVE News(x, u, n)'
    BY <1>3 DEF Effect, News
  <2>1. <<"deliver", u, n>> # r /\ <<"hand", u, n>> # r OBVIOUS
  <2> QED BY <1>3, <2>1 DEF Effect, News
<1>13. /\ \A a, b \in Terminals : Partner(a, b)' <=> Partner(a, b)
       /\ \A a \in Terminals : HungUp(a)' <=> HungUp(a)
  BY <1>1 DEF Partner, HungUp
<1>14. /\ \A c : <<"unlock", c>>[1] = "unlock" /\ <<"release", c>>[1] = "release"
       /\ \A c : <<"dealloc", c>>[1] = "dealloc"
  OBVIOUS
<1>15. /\ \A y \in Actors : \A c : Has(y, <<"unlock", c>>)' <=> Has(y, <<"unlock", c>>)
       /\ \A y \in Actors : \A c : Has(y, <<"release", c>>)' <=> Has(y, <<"release", c>>)
       /\ \A y \in Actors : \A c : Has(y, <<"dealloc", c>>)' <=> Has(y, <<"dealloc", c>>)
  BY <1>9, <1>14
<1>16. \A y \in Actors, u \in Terminals, n \in Messages : News(y, u, n) => connection[u] # None
  BY DEF News, IInv, Delivered
<1>17. Messages = {"opened", "data", "closed"} BY DEF Messages
\* Before the step: the message comes in its place, and no other one is out of place then.
<1>18. /\ m = "opened" => x = Operator /\ lastMessage[p] = "nothing"
       /\ m # "opened" => lastMessage[p] \in {"opened", "data"}
       /\ m = "closed" => x = Collector
  <2>1. CASE m = "opened"
    <3>1. News(x, t, "opened") BY <1>4, <2>1
    <3>2. x = Operator /\ lastMessage[p] = "nothing" BY <1>5, <1>p, <3>1 DEF OpenedFirst
    <3> QED BY <2>1, <3>2
  <2>2. CASE m = "data"
    <3>1. News(x, t, "data") BY <1>4, <2>2
    <3>2. lastMessage[p] \in {"opened", "data"} BY <1>5, <1>p, <3>1 DEF InOrder
    <3> QED BY <2>2, <3>2
  <2>3. CASE m = "closed"
    <3>1. News(x, t, "closed") BY <1>4, <2>3
    <3>2. x = Collector /\ lastMessage[p] \in {"opened", "data"} BY <1>5, <1>p, <3>1 DEF InOrder
    <3> QED BY <2>3, <3>2
  <2> QED BY <1>17, <2>1, <2>2, <2>3
<1>19. \A y \in Actors : ~News(y, t, "opened")'
  <2> SUFFICES ASSUME NEW y \in Actors, News(y, t, "opened"), y # x PROVE FALSE BY <1>10, <1>11
  <2>1. y = Operator /\ lastMessage[p] = "nothing" BY <1>5, <1>p DEF OpenedFirst
  <2> QED BY <1>18, <2>1
<1>20. \A y \in Actors, n \in {"data", "closed"} : News(y, t, n)' => m = "data"
  <2> SUFFICES ASSUME NEW y \in Actors, NEW n \in {"data", "closed"}, News(y, t, n), y # x
               PROVE  m = "data"
    BY <1>10, <1>11
  <2>1. lastMessage[p] \in {"opened", "data"} BY <1>5, <1>p DEF InOrder
  <2>2. ASSUME m = "closed" PROVE FALSE
    <3>1. n = "data" BY <1>18, <2>2 DEF InOrder
    <3>2. PICK u \in Terminals : Partner(t, u) /\ Has(y, <<"release", u>>) BY <3>1 DEF InOrder
    <3>3. PICK v \in Terminals : Partner(t, v) /\ HungUp(v) BY <1>4, <2>2 DEF InOrder
    <3>4. u = v BY <3>2, <3>3 DEF Paired
    <3>5. ~HungUp(u) BY <3>2, UsedAlive, AliveEnd
    <3> QED BY <3>3, <3>4, <3>5
  <2> QED BY <1>17, <1>18, <2>1, <2>2
<1>21. Paired' BY <1>13 DEF Paired
<1>22. OpenedFirst'
  <2>1. ASSUME NEW y \in Actors, NEW u \in Terminals, News(y, u, "opened")'
        PROVE  /\ y = Operator /\ Has(Operator, <<"unlock", connection[u]>>)'
               /\ port[u] # None => lastMessage'[port[u]] = "nothing"
    <3>1. u # t /\ News(y, u, "opened") BY <1>11, <1>19, <2>1
    <3>2. connection[u] # None /\ port[u] # p BY <1>6, <1>16, <1>17, <3>1
    <3>3. port[u] # None => port[u] \in Ports BY DEF IInv, TypeOK
    <3>4. Operator \in Actors BY DEF Actors
    <3> QED BY <1>7, <1>15, <3>1, <3>2, <3>3, <3>4 DEF OpenedFirst
  <2>2. ASSUME NEW u \in Terminals, connection[u] # None, port[u] # None,
               lastMessage'[port[u]] = "nothing"
        PROVE  News(Operator, u, "opened")'
    <3>1. port[u] \in Ports BY <2>2 DEF IInv, TypeOK
    <3>2. u # t BY <1>7, <1>17, <1>p, <2>2, <3>1
    <3>3. port[u] # p BY <1>6, <2>2, <3>2
    <3>4. News(Operator, u, "opened") BY <1>7, <2>2, <3>1, <3>3 DEF OpenedFirst
    <3>5. Operator \in Actors BY DEF Actors
    <3> QED BY <1>12, <3>2, <3>4, <3>5
  <2> QED BY <1>1, <2>1, <2>2 DEF OpenedFirst
<1>23. InOrder'
  <2> SUFFICES ASSUME NEW y \in Actors, NEW u \in Terminals
               PROVE  /\ \A n \in {"data", "closed"} : News(y, u, n)' /\ port[u] # None =>
                           lastMessage'[port[u]] \in {"opened", "data"}
                      /\ News(y, u, "data")' =>
                           \E v \in Terminals : Partner(u, v)' /\ Has(y, <<"release", v>>)'
                      /\ News(y, u, "closed")' =>
                           y = Collector /\ \E v \in Terminals : Partner(u, v)' /\ HungUp(v)'
    BY <1>1 DEF InOrder
  <2>1. ASSUME NEW n \in {"data", "closed"}, News(y, u, n)', port[u] # None
        PROVE  lastMessage'[port[u]] \in {"opened", "data"}
    <3>1. port[u] \in Ports BY <2>1 DEF IInv, TypeOK
    <3>2. CASE u = t
      <4>1. m = "data" BY <1>20, <2>1, <3>2
      <4> QED BY <1>5, <1>7, <1>p, <3>2, <4>1
    <3>3. CASE u # t
      <4>1. News(y, u, n) BY <1>11, <2>1
      <4>2. connection[u] # None BY <1>16, <1>17, <4>1
      <4>3. port[u] # p BY <1>6, <3>3, <4>2
      <4> QED BY <1>7, <2>1, <3>1, <4>1, <4>3 DEF InOrder
    <3> QED BY <3>2, <3>3
  <2> QED BY <1>11, <1>13, <1>15, <2>1 DEF InOrder
<1>24. ClosedLast'
  <2> SUFFICES ASSUME NEW a \in Terminals, NEW b \in Terminals, Partner(a, b)', port[a] # None,
                      lastMessage'[port[a]] = "closed"
               PROVE  HungUp(b)'
    BY <1>1 DEF ClosedLast
  <2>1. Partner(a, b) /\ connection[a] # None /\ port[a] \in Ports
    BY <1>13 DEF Partner, IInv, TypeOK
  <2>2. CASE a = t
    <3>1. m = "closed" BY <1>5, <1>7, <1>p, <2>2
    <3>2. PICK v \in Terminals : Partner(t, v) /\ HungUp(v) BY <1>4, <3>1 DEF InOrder
    <3>3. v = b BY <2>1, <2>2, <3>2 DEF Paired
    <3> QED BY <1>13, <3>2, <3>3
  <2>3. CASE a # t
    <3>1. port[a] # p BY <1>6, <2>1, <2>3
    <3> QED BY <1>7, <1>13, <2>1, <3>1 DEF ClosedLast
  <2> QED BY <2>2, <2>3
<1>25. Unheard'
  <2>1. ASSUME NEW u \in handed, port[u] # None PROVE lastMessage'[port[u]] = "nothing"
    <3>1. u \in Terminals /\ port[u] \in Ports BY <2>1 DEF IInv, TypeOK
    <3>2. u # t BY <1>5 DEF IInv, Attached
    <3>3. port[u] # p BY <1>6, <3>1, <3>2
    <3> QED BY <1>7, <2>1, <3>1, <3>3 DEF Unheard
  <2>2. ASSUME NEW q \in Ports \ freed, lastMessage'[q] # "nothing"
        PROVE  terminal[q] # None \/ \E y \in Actors : Has(y, <<"dealloc", q>>)'
    <3>1. CASE q = p
      <4>1. terminal[p] = t \/ \E y \in Actors : Has(y, <<"cut", t>>)
        BY <1>5, <1>p DEF IInv, Attached
      <4>2. \A y \in Actors : Has(y, <<"cut", t>>) => Has(y, <<"dealloc", p>>)
        BY <1>5, <1>p DEF IInv, Attached
      <4>3. t # None BY DEF Objects
      <4> QED BY <1>15, <3>1, <4>1, <4>2, <4>3
    <3>2. CASE q # p BY <1>7, <1>15, <2>2, <3>2 DEF Unheard
    <3> QED BY <3>1, <3>2
  <2> QED BY <1>1, <2>1, <2>2 DEF Unheard
<1>26. UNCHANGED Pairs BY <1>1 DEF Pairs
<1>27. Heard(t) = lastMessage[p] /\ Heard(t)' = m
  <2>1. t \in made BY <1>5, UsedAlive DEF Alive, Live
  <2> QED BY <1>1, <1>5, <1>7, <1>13, <1>p DEF Heard
<1>28. ASSUME NEW u \in Terminals, u # t PROVE Heard(u)' = Heard(u)
  <2>1. CASE port[u] # None /\ connection[u] # None
    <3>1. port[u] \in Ports /\ port[u] # p BY <1>6, <1>28, <2>1 DEF IInv, TypeOK
    <3>2. lastMessage'[port[u]] = lastMessage[port[u]] BY <1>7, <3>1
    <3> QED BY <1>1, <1>13, <3>2 DEF Heard
  <2>2. CASE port[u] = None \/ connection[u] = None BY <1>1, <1>13, <2>2 DEF Heard
  <2> QED BY <2>1, <2>2
<1>29. Promise!Hear(t, m) BY <1>26, <1>27, <1>28, HearsOne
<1>30. PStep
  <2> USE DEF PStep, Promise!Next, Promise!Owed
  <2>1. CASE m = "opened"
    <3>1. PICK u \in Terminals : Partner(t, u) BY <1>5 DEF Paired
    <3>2. Promise!Others(t) # {} BY <3>1, OthersAre
    <3>3. Promise!HearOpened(t) BY <1>18, <1>27, <1>29, <2>1, <3>2 DEF Promise!HearOpened
    <3> QED BY <3>3
  <2>2. CASE m = "data"
    <3>1. PICK u \in Terminals : Partner(t, u) /\ Has(x, <<"release", u>>)
      BY <1>4, <2>2 DEF InOrder
    <3>2. u \in Promise!Others(t) BY <3>1, OthersAre
    <3>3. Heard(u) # "gone" BY <3>1, UsedAlive, AliveEnd, GoneIs
    <3>4. Promise!HearData(t) BY <1>18, <1>27, <1>29, <2>2, <3>2, <3>3 DEF Promise!HearData
    <3> QED BY <3>4
  <2>3. CASE m = "closed"
    <3>1. PICK u \in Terminals : Partner(t, u) /\ HungUp(u) BY <1>4, <2>3 DEF InOrder
    <3>2. u \in Promise!Others(t) BY <3>1, OthersAre
    <3>3. Heard(u) = "gone" BY <3>1, GoneIs
    <3>4. Promise!HearClosed(t) BY <1>18, <1>27, <1>29, <2>3, <3>2, <3>3 DEF Promise!HearClosed
    <3> QED BY <3>4
  <2> QED BY <1>17, <2>1, <2>2, <2>3
<1> QED BY <1>8, <1>21, <1>22, <1>23, <1>24, <1>25, <1>30

\* A message is passed on to the other end of a connection: its owner has heard that it
\* opened, since the operator has unlocked it, and not that it closed.
LEMMA PassMaps ==
  ASSUME IInv, RInv, NEW x \in Actors, NEW r, Doing(x, r), r[1] \in {"send", "hangup"},
         NEW o \in Terminals, NEW t \in Terminals, Partner(o, t), ~HungUp(t), port[o] # None,
         lock[connection[o]] = None, NEW m \in {"data", "closed"},
         NEW s \in Seq(Steps), DOMAIN s = {1, 2},
         s[1] = <<"deliver", o, m>>, s[2] = <<"release", o>>, Effect(x, {r}, s),
         m = "data" => Later(x, <<"release", t>>),
         m = "closed" => x = Collector /\ HungUp(t)',
         \A u \in Terminals : HungUp(u) => HungUp(u)', freed \subseteq freed',
         UNCHANGED <<port, connection, lastMessage, handed, terminal>>
  PROVE  RInv'
<1> USE IpcAssumption DEF RInv
<1>1. Silent(x) BY SilentDoing
<1>2. /\ \A c : <<"unlock", c>>[1] = "unlock" /\ <<"dealloc", c>>[1] = "dealloc"
      /\ \A c : <<"release", c>>[1] = "release"
      /\ \A u, n : <<"deliver", u, n>>[1] = "deliver" /\ <<"hand", u, n>>[1] = "hand"
  OBVIOUS
<1>3. \A i \in DOMAIN s : i = 1 \/ i = 2 OBVIOUS
<1>4. ASSUME NEW y \in Actors, NEW q, q[1] \in {"unlock", "dealloc", "release", "hand"}
      PROVE  Has(y, q) => Has(y, q)'
  BY <1>4 DEF Effect
<1>5. ASSUME NEW y \in Actors, NEW q, q[1] \in {"unlock", "dealloc", "hand"}
      PROVE  Has(y, q)' => Has(y, q)
  <2>1. \A i \in DOMAIN s : s[i] # q BY <1>3, <1>5
  <2>2. Effect(x, {r}, s) OBVIOUS
  <2> QED BY ONLY <2>1, <2>2, y \in Actors DEF Effect
<1>6. /\ \A y \in Actors : \A c : Has(y, <<"unlock", c>>) => Has(y, <<"unlock", c>>)'
      /\ \A y \in Actors : \A c : Has(y, <<"dealloc", c>>) => Has(y, <<"dealloc", c>>)'
      /\ \A y \in Actors : \A c : Has(y, <<"release", c>>) => Has(y, <<"release", c>>)'
      /\ \A y \in Actors : \A u, n : Has(y, <<"hand", u, n>>)' <=> Has(y, <<"hand", u, n>>)
  BY <1>2, <1>4, <1>5
<1>7. ASSUME NEW y \in Actors, NEW u, NEW n
      PROVE  News(y, u, n)' <=> News(y, u, n) \/ (y = x /\ u = o /\ n = m)
  <2>1. CASE y # x BY <1>6, <2>1 DEF Effect, News
  <2>2. CASE y = x
    <3>1. ~News(x, u, n) BY <1>1, <1>2 DEF Silent, News
    <3>2. Later(x, <<"deliver", u, n>>) => Has(x, <<"deliver", u, n>>) BY DEF Later, Has
    <3>3. Has(x, <<"deliver", u, n>>)' <=> \E i \in DOMAIN s : s[i] = <<"deliver", u, n>>
      BY <3>1, <3>2 DEF Effect, News
    <3>4. (\E i \in DOMAIN s : s[i] = <<"deliver", u, n>>) <=> u = o /\ n = m
      <4>1. 1 \in DOMAIN s /\ s[2] # <<"deliver", u, n>> BY <1>2
      <4>2. s[1] = <<"deliver", u, n>> <=> u = o /\ n = m OBVIOUS
      <4> QED BY <1>3, <4>1, <4>2
    <3> QED BY <1>6, <2>2, <3>1, <3>3, <3>4 DEF News
  <2> QED BY <2>1, <2>2
<1>8. \A a, b \in Terminals : Partner(a, b)' <=> Partner(a, b) BY DEF Partner
<1>9. Operator \in Actors BY DEF Actors
<1>10. lastMessage[port[o]] \in {"opened", "data"}
  <2>1. connection[o] # None /\ connection[o] \in Connections /\ port[o] \in Ports
    BY DEF Partner, IInv, TypeOK
  <2>2. lastMessage[port[o]] # "nothing"
    <3> SUFFICES ASSUME lastMessage[port[o]] = "nothing" PROVE FALSE OBVIOUS
    <3>1. News(Operator, o, "opened") BY <2>1 DEF OpenedFirst
    <3>2. Has(Operator, <<"unlock", connection[o]>>) BY <1>9, <3>1 DEF OpenedFirst
    <3>3. lock[connection[o]] = Operator BY <1>9, <2>1, <3>2 DEF IInv, Connected
    <3> QED BY <1>9, <3>3
  <2>3. lastMessage[port[o]] # "closed" BY DEF ClosedLast
  <2>4. lastMessage[port[o]] \in Messages \cup {"nothing"} BY <2>1 DEF IInv, TypeOK
  <2> QED BY <2>2, <2>3, <2>4 DEF Messages
<1>11. Paired' BY <1>8 DEF Paired
<1>12. DeliverFirst'
  <2>1. \A i, j \in DOMAIN s : ~(i < j /\ s[j][1] = "deliver") BY <1>2, <1>3
  <2>2. ASSUME NEW j \in DOMAIN work[x] PROVE work[x][j][1] # "deliver"
    <3>1. Has(x, work[x][j]) BY DEF Has
    <3> QED BY <1>1, <3>1 DEF Silent
  <2>3. Becomes(x, s) BY DEF Effect
  <2> QED BY <2>1, <2>2, <2>3, FirstBecomes
<1>13. OpenedFirst' BY <1>6, <1>7, <1>9 DEF OpenedFirst
<1>14. InOrder'
  <2> SUFFICES ASSUME NEW y \in Actors, NEW u \in Terminals
               PROVE  /\ \A n \in {"data", "closed"} : News(y, u, n)' /\ port[u] # None =>
                           lastMessage[port[u]] \in {"opened", "data"}
                      /\ News(y, u, "data")' =>
                           \E v \in Terminals : Partner(u, v)' /\ Has(y, <<"release", v>>)'
                      /\ News(y, u, "closed")' =>
                           y = Collector /\ \E v \in Terminals : Partner(u, v)' /\ HungUp(v)'
    BY DEF InOrder
  <2>1. \A n \in {"data", "closed"} : News(y, u, n)' /\ port[u] # None =>
          lastMessage[port[u]] \in {"opened", "data"}
    BY <1>7, <1>10 DEF InOrder
  <2>2. ASSUME News(y, u, "data")'
        PROVE  \E v \in Terminals : Partner(u, v)' /\ Has(y, <<"release", v>>)'
    <3>1. CASE News(y, u, "data") BY <1>6, <1>8, <3>1 DEF InOrder
    <3>2. CASE y = x /\ u = o /\ m = "data"
      <4>1. Has(x, <<"release", t>>)' BY <3>2 DEF Effect
      <4> QED BY <1>8, <3>2, <4>1
    <3> QED BY <1>7, <2>2, <3>1, <3>2
  <2>3. ASSUME News(y, u, "closed")'
        PROVE  y = Collector /\ \E v \in Terminals : Partner(u, v)' /\ HungUp(v)'
    <3>1. CASE News(y, u, "closed") BY <1>8, <3>1 DEF InOrder
    <3>2. CASE y = x /\ u = o /\ m = "closed" BY <1>8, <3>2
    <3> QED BY <1>7, <2>3, <3>1, <3>2
  <2> QED BY <2>1, <2>2, <2>3
<1>15. ClosedLast' BY <1>8 DEF ClosedLast
<1>16. Unheard' BY <1>6 DEF Unheard
<1> QED BY <1>11, <1>12, <1>13, <1>14, <1>15, <1>16

\* Who sends has a reference to his own end.
LEMMA SendToRemoteMaps ==
  ASSUME IInv, RInv, NEW x \in Actors, NEW c \in Connections, NEW t \in Terminals,
         SendToRemote(x, c, t),
         UNCHANGED <<portVars, port, connection, portLock, made, handed, threadVars, garbage>>
  PROVE  RInv' /\ PStep
<1> DEFINE r == <<"send", c, t>>
           others == ends[c] \ {t}
<1>1. /\ Doing(x, r) /\ Forward(x, others, "data") /\ lock[c] = None
      /\ UNCHANGED <<ends, freed, terminal, lastMessage, port, connection, made, handed>>
  BY DEF SendToRemote, connectionVars, portVars
<1>2. r[1] = "send" /\ r[2] = c /\ r[3] = t OBVIOUS
<1>3. others \in SUBSET Terminals BY DEF IInv, TypeOK
<1>4. PICK s : Passes(others, "data", s) /\ Effect(x, {r}, s)
  <2> HIDE DEF others, r
  <2> QED BY <1>1, <1>3, ForwardPasses DEF Messages
<1>5. s \in Seq(Steps) BY <1>4 DEF Passes
<1>6. Has(x, r) /\ Later(x, <<"release", t>>)
  <2> HIDE DEF r
  <2> QED BY <1>1, <1>2, Next1 DEF IInv
<1>7. connection[t] = c /\ c # None /\ ~HungUp(t)
  <2>1. connection[t] = c BY <1>6 DEF IInv, Connected
  <2>2. Has(x, <<"release", t>>) BY <1>6, UserAlive
  <2> QED BY <2>1, <2>2, UsedAlive, AliveEnd, IpcAssumption DEF Objects
<1>8. \A u \in Terminals : HungUp(u)' <=> HungUp(u) BY <1>1 DEF HungUp
<1>9. RInv'
  <2>1. ASSUME NEW o \in others, port[o] # None, DOMAIN s = {1, 2},
               s[1] = <<"deliver", o, "data">>, s[2] = <<"release", o>>
        PROVE  RInv'
    <3>1. o \in Terminals /\ Partner(o, t) /\ lock[connection[o]] = None
      BY <1>1, <1>3, <1>7 DEF IInv, Connected, Partner
    <3> HIDE DEF others, r
    <3> QED BY <1>1, <1>2, <1>4, <1>5, <1>6, <1>7, <1>8, <2>1, <3>1, PassMaps
  <2>2. CASE DOMAIN s = {}
    <3> HIDE DEF others, r
    <3>1. Quietly(x) BY <1>1, <1>2, <1>4, <1>5, <2>2, SilentDoing, QuietEffect DEF RInv
    <3>2. ASSUME NEW y \in Actors, NEW p \in Ports, Has(y, <<"dealloc", p>>)
          PROVE  Has(y, <<"dealloc", p>>)'
      <4>1. <<"dealloc", p>>[1] = "dealloc" OBVIOUS
      <4> QED BY <1>2, <1>4, <3>2, <4>1 DEF Effect
    <3>3. Inert BY <1>1 DEF Inert
    <3> QED BY <3>1, <3>2, <3>3, InertStep
  <2> HIDE DEF others
  <2> QED BY <1>4, <2>1, <2>2 DEF Passes
<1>10. \A u \in Terminals : Heard(u)' = Heard(u) BY <1>1, <1>8 DEF Heard
<1>11. UNCHANGED Pairs BY <1>1 DEF Pairs
<1> QED BY <1>9, <1>10, <1>11, Unnoticed

\* Close: a severed terminal hangs up, and whoever is left will hear of it.
LEMMA CloseMaps ==
  ASSUME IInv, RInv, NEW x \in Actors, NEW c \in Connections, NEW t \in Terminals, Close(x, c, t),
         UNCHANGED <<portVars, port, connection, portLock, made, handed, threadVars, garbage>>
  PROVE  RInv' /\ PStep
<1> USE IpcAssumption
<1> DEFINE r == <<"hangup", t>>
           others == ends[c] \ {t}
<1>1. /\ Doing(x, r) /\ Forward(x, others, "closed") /\ connection[t] = c /\ lock[c] = None
      /\ ends' = [ends EXCEPT ![c] = @ \ {t}]
      /\ freed' = freed \/ freed' = freed \cup {c}
      /\ UNCHANGED <<terminal, lastMessage, port, connection, made, handed>>
  BY DEF Close, portVars
<1>2. r[1] = "hangup" /\ r[2] = t OBVIOUS
<1>3. others \in SUBSET Terminals /\ c # None BY DEF IInv, TypeOK, Objects
<1>4. PICK s : Passes(others, "closed", s) /\ Effect(x, {r}, s)
  <2> HIDE DEF others, r
  <2> QED BY <1>1, <1>3, ForwardPasses DEF Messages
<1>5. s \in Seq(Steps) BY <1>4 DEF Passes
<1>6. x = Collector /\ Has(x, r) /\ Has(x, <<"delete", t>>)
  <2> HIDE DEF r
  <2> QED BY <1>1, <1>2, Next1 DEF IInv
<1>7. t \in Live /\ port[t] = None /\ ~HungUp(t)
  <2>1. t \in Live BY <1>6, DoomedAlive
  <2>2. t \in ends[c] BY <1>1, <1>3, <1>6, <2>1, EndAlive DEF Live
  <2>3. port[t] = None BY <1>6 DEF IInv, ThrownDead, Thrown
  <2> QED BY <1>1, <2>1, <2>2, <2>3 DEF HungUp, Live
<1>8. /\ \A u \in Terminals : u \in freed' <=> u \in freed
      /\ freed \subseteq freed'
      /\ \A d \in Connections : ends'[d] = IF d = c THEN ends[c] \ {t} ELSE ends[d]
  BY <1>1 DEF IInv, TypeOK
<1>9. HungUp(t)' BY <1>1, <1>3, <1>8 DEF HungUp
<1>10. ASSUME NEW u \in Terminals, u # t PROVE HungUp(u)' <=> HungUp(u)
  <2>1. connection[u] # None => connection[u] \in Connections BY DEF IInv, TypeOK
  <2>2. connection[u] # None => (u \in ends'[connection[u]] <=> u \in ends[connection[u]])
    BY <1>8, <1>10, <2>1
  <2> QED BY <1>1, <1>8, <2>2 DEF HungUp
<1>11. \A u \in Terminals : HungUp(u) => HungUp(u)' BY <1>9, <1>10
<1>12. RInv'
  <2>1. ASSUME NEW o \in others, port[o] # None, DOMAIN s = {1, 2},
               s[1] = <<"deliver", o, "closed">>, s[2] = <<"release", o>>
        PROVE  RInv'
    <3>1. o \in Terminals /\ Partner(o, t) /\ lock[connection[o]] = None
      BY <1>1, <1>3 DEF IInv, Connected, Partner
    <3> HIDE DEF others, r
    <3> QED BY <1>1, <1>2, <1>4, <1>5, <1>6, <1>7, <1>8, <1>9, <1>11, <2>1, <3>1, PassMaps
  <2>2. CASE DOMAIN s = {}
    <3> HIDE DEF others, r
    <3>1. Quietly(x) BY <1>1, <1>2, <1>4, <1>5, <2>2, SilentDoing, QuietEffect DEF RInv
    <3>2. ASSUME NEW y \in Actors, NEW p \in Ports, Has(y, <<"dealloc", p>>)
          PROVE  Has(y, <<"dealloc", p>>)'
      <4>1. PICK q : q = <<"dealloc", p>> OBVIOUS
      <4>2. q[1] = "dealloc" /\ Has(y, q) BY <3>2, <4>1
      <4>3. q # r BY <1>2, <4>2
      <4>4. Has(y, q)' BY ONLY <1>4, <4>2, <4>3, y \in Actors DEF Effect
      <4> QED BY <4>1, <4>4
    <3> QED BY <1>1, <1>8, <1>11, <3>1, <3>2, QuietInv
  <2> HIDE DEF others
  <2> QED BY <1>4, <2>1, <2>2 DEF Passes
<1>13. UNCHANGED Pairs BY <1>1 DEF Pairs
<1>14. Heard(t) = "severed" /\ Heard(t)' = "gone" BY <1>7, <1>9 DEF Heard, Live
<1>15. \A u \in Terminals : u # t => Heard(u)' = Heard(u) BY <1>1, <1>10 DEF Heard
<1>16. Promise!HangUp(t) BY <1>13, <1>14, <1>15, HearsOne DEF Promise!HangUp
<1> QED BY <1>12, <1>16 DEF PStep, Promise!Next, Promise!Owed

\* Connect: the two phones of a new call, which have not been used.
LEMMA ConnectMaps ==
  ASSUME IInv, RInv, NEW t \in Terminals, NEW u \in Terminals, NEW c \in Connections,
         Connect(t, u, c), UNCHANGED <<threadVars, garbage>>
  PROVE  RInv' /\ PStep
<1> USE IpcAssumption DEF RInv
<1> DEFINE x == Operator
           s == Opening(t, u, c) \o <<<<"release", t>>, <<"release", u>>>>
<1>0. x \in Actors /\ x \notin exited /\ c # None BY DEF Actors, Objects, IInv, TypeOK
<1>1. /\ Idle(x) /\ {t, u} \subseteq handed /\ t # u /\ c \notin made
      /\ connection' = [connection EXCEPT ![t] = c, ![u] = c]
      /\ ends' = [ends EXCEPT ![c] = {t, u}]
      /\ made' = made \cup {c} /\ handed' = handed \ {t, u}
      /\ UNCHANGED <<port, freed, terminal, lastMessage>>
  BY DEF Connect, portVars
<1>2. Start(x, s) BY DEF Connect
<1> HIDE DEF x
<1>3. /\ s \in Seq(Steps) /\ DOMAIN s = 1..5
      /\ s[1] = <<"deliver", t, "opened">> /\ s[2] = <<"deliver", u, "opened">>
      /\ s[3] = <<"unlock", c>> /\ s[4] = <<"release", t>> /\ s[5] = <<"release", u>>
  <2>1. /\ <<"release", t>> \in Steps /\ <<"release", u>> \in Steps /\ <<"unlock", c>> \in Steps
        /\ <<"deliver", t, "opened">> \in Steps /\ <<"deliver", u, "opened">> \in Steps
    BY DEF Steps, Messages
  <2>2. Opening(t, u, c) \in Seq(Steps) /\ <<<<"release", t>>, <<"release", u>>>> \in Seq(Steps)
    BY <2>1 DEF Opening
  <2> QED BY <2>2 DEF Opening
<1> HIDE DEF s
<1>4. Effect(x, {}, s) /\ \A q : ~Has(x, q) /\ ~Later(x, q)
  BY <1>0, <1>1, <1>2, <1>3, StartEffect
<1>5. /\ \A v \in Terminals : connection'[v] = IF v \in {t, u} THEN c ELSE connection[v]
      /\ \A d \in Connections : ends'[d] = IF d = c THEN {t, u} ELSE ends[d]
  BY <1>1 DEF IInv, TypeOK
<1>6. Alive(t) /\ Alive(u) /\ connection[t] = None /\ connection[u] = None
  BY <1>1, UsedAlive DEF IInv, Attached
<1>7. \A v \in Terminals :
        /\ connection[v] # c
        /\ connection[v] # None => v \notin {t, u} /\ connection[v] \in Connections
  <2> SUFFICES ASSUME NEW v \in Terminals, connection[v] # None
               PROVE  connection[v] # c /\ v \notin {t, u} /\ connection[v] \in Connections
    BY <1>0
  <2>1. connection[v] \in made BY DEF IInv, Connected
  <2> QED BY <1>1, <1>6, <2>1 DEF IInv, TypeOK
<1>8. /\ ~HungUp(t) /\ ~HungUp(u)
      /\ \A v \in Terminals : HungUp(v)' <=> HungUp(v)
  <2>1. ~HungUp(t) /\ ~HungUp(u) BY <1>6, AliveEnd
  <2>2. t \notin freed /\ u \notin freed BY <1>6 DEF Alive, Live
  <2>3. ~HungUp(t)' /\ ~HungUp(u)' BY <1>1, <1>5, <2>2 DEF HungUp
  <2>4. ASSUME NEW v \in Terminals, v \notin {t, u} PROVE HungUp(v)' <=> HungUp(v)
    <3>1. connection'[v] = connection[v] BY <1>5, <2>4
    <3>2. freed' = freed BY <1>1
    <3>3. ASSUME connection[v] # None PROVE ends'[connection[v]] = ends[connection[v]]
      BY <1>5, <1>7, <3>3
    <3> QED BY ONLY <3>1, <3>2, <3>3 DEF HungUp
  <2> QED BY <2>1, <2>3, <2>4
\* What there is to do afterwards: whatever there was, and the operator's call.
<1>9. \A y \in Actors : \A q : Has(y, q) => Has(y, q)' BY <1>4 DEF Effect
<1>10. /\ \A q : Has(x, q)' => \E i \in 1..5 : s[i] = q
       /\ \A i \in 1..5 : Has(x, s[i])'
  BY <1>3, <1>4 DEF Effect
<1>11. ASSUME NEW y \in Actors, NEW v, NEW n
       PROVE  News(y, v, n)' <=> News(y, v, n) \/ (y = x /\ v \in {t, u} /\ n = "opened")
  <2>1. CASE y # x BY <1>4, <2>1 DEF Effect, News
  <2>2. CASE y = x
    <3>1. ~News(x, v, n) BY <1>4 DEF News
    <3>2. ASSUME News(x, v, n)' PROVE v \in {t, u} /\ n = "opened"
      <4>1. PICK i \in 1..5 : s[i] = <<"deliver", v, n>> \/ s[i] = <<"hand", v, n>>
        BY <1>10, <3>2 DEF News
      <4>2. s[i][1] \in {"deliver", "hand"} /\ s[i][2] = v /\ s[i][3] = n BY <4>1
      <4>3. i = 1 \/ i = 2
        <5>1. s[3][1] = "unlock" /\ s[4][1] = "release" /\ s[5][1] = "release" BY <1>3
        <5>2. i = 1 \/ i = 2 \/ i = 3 \/ i = 4 \/ i = 5 OBVIOUS
        <5> QED BY <4>2, <5>1, <5>2
      <4> QED BY <1>3, <4>2, <4>3
    <3>3. ASSUME v \in {t, u}, n = "opened" PROVE News(x, v, n)'
      <4>1. 1 \in 1..5 /\ 2 \in 1..5 OBVIOUS
      <4>2. Has(x, s[1])' /\ Has(x, s[2])' BY <1>10, <4>1
      <4>3. Has(x, <<"deliver", t, "opened">>)' /\ Has(x, <<"deliver", u, "opened">>)' BY <1>3, <4>2
      <4> QED BY <3>3, <4>3 DEF News
    <3> QED BY <2>2, <3>1, <3>2, <3>3
  <2> QED BY <2>1, <2>2
<1>12. Has(x, <<"unlock", c>>)'
  <2>1. 3 \in 1..5 OBVIOUS
  <2> QED BY <1>3, <1>10, <2>1
<1>13. \A a, b \in Terminals :
         Partner(a, b)' <=> Partner(a, b) \/ (a = t /\ b = u) \/ (a = u /\ b = t)
  <2> SUFFICES ASSUME NEW a \in Terminals, NEW b \in Terminals
               PROVE  Partner(a, b)' <=> Partner(a, b) \/ (a = t /\ b = u) \/ (a = u /\ b = t)
    OBVIOUS
  <2>1. CASE a \in {t, u} BY <1>0, <1>1, <1>5, <1>6, <1>7, <2>1 DEF Partner
  <2>2. CASE a \notin {t, u} BY <1>0, <1>5, <1>6, <1>7, <2>2 DEF Partner
  <2> QED BY <2>1, <2>2
<1>14. \A a, b \in Terminals : Partner(a, b) => a \notin {t, u} /\ b \notin {t, u}
  BY <1>6 DEF Partner
<1>15. Paired'
  <2>1. ASSUME NEW a \in Terminals, connection'[a] # None PROVE \E b \in Terminals : Partner(a, b)'
    <3>1. CASE a \in {t, u} BY <1>13, <3>1
    <3>2. CASE a \notin {t, u} BY <1>5, <1>13, <2>1, <3>2 DEF Paired
    <3> QED BY <3>1, <3>2
  <2>2. ASSUME NEW a \in Terminals, NEW b \in Terminals, NEW d \in Terminals,
               Partner(a, b)', Partner(a, d)'
        PROVE  b = d
    BY <1>1, <1>13, <1>14, <2>2 DEF Paired
  <2> QED BY <2>1, <2>2 DEF Paired
<1>16. DeliverFirst'
  <2>1. DOMAIN work[x] = {} BY <1>4 DEF Has
  <2>2. s[1][1] = "deliver" /\ s[1][2] = t /\ s[2][2] = u BY <1>3
  <2>3. s[3][1] # "deliver" /\ s[4][1] # "deliver" /\ s[5][1] # "deliver" BY <1>3
  <2>4. ASSUME NEW i \in DOMAIN s, NEW j \in DOMAIN s, i < j, s[j][1] = "deliver"
        PROVE  s[i][1] \in {"deliver", "hand"} /\ s[i][2] # s[j][2]
    <3>1. j = 1 \/ j = 2 \/ j = 3 \/ j = 4 \/ j = 5 BY <1>3
    <3>2. i = 1 /\ j = 2 BY <1>3, <2>3, <2>4, <3>1
    <3> QED BY <1>1, <2>2, <3>2
  <2>5. Becomes(x, s) BY <1>4 DEF Effect
  <2> QED BY <1>0, <1>3, <2>1, <2>4, <2>5, FirstBecomes
<1>17. /\ \A v \in {t, u} : port[v] # None => lastMessage[port[v]] = "nothing"
       /\ \A v, n : ~News(x, v, n)
  BY <1>1, <1>4 DEF Unheard, News
<1>18. OpenedFirst'
  <2>1. ASSUME NEW y \in Actors, NEW v \in Terminals, News(y, v, "opened")'
        PROVE  /\ y = Operator /\ Has(Operator, <<"unlock", connection[v]>>)'
               /\ port[v] # None => lastMessage[port[v]] = "nothing"
    <3>1. ~News(y, v, "opened") BY <1>4 DEF OpenedFirst, News, x
    <3>2. y = x /\ v \in {t, u} BY <1>11, <2>1, <3>1
    <3>3. connection'[v] = c BY <1>5, <3>2
    <3> QED BY <1>12, <1>17, <3>2, <3>3 DEF x
  <2>2. ASSUME NEW v \in Terminals, connection'[v] # None, port[v] # None,
               lastMessage[port[v]] = "nothing"
        PROVE  News(Operator, v, "opened")'
    <3>1. CASE v \in {t, u} BY <1>0, <1>11, <3>1 DEF x
    <3>2. CASE v \notin {t, u}
      <4>1. connection[v] # None BY <1>5, <2>2, <3>2
      <4>2. News(x, v, "opened") BY <2>2, <4>1 DEF OpenedFirst, x
      <4> QED BY <1>0, <1>11, <4>2 DEF x
    <3> QED BY <3>1, <3>2
  <2> QED BY <1>1, <2>1, <2>2 DEF OpenedFirst
<1>19. InOrder'
  <2> SUFFICES ASSUME NEW y \in Actors, NEW v \in Terminals
               PROVE  /\ \A n \in {"data", "closed"} : News(y, v, n)' /\ port[v] # None =>
                           lastMessage[port[v]] \in {"opened", "data"}
                      /\ News(y, v, "data")' =>
                           \E w \in Terminals : Partner(v, w)' /\ Has(y, <<"release", w>>)'
                      /\ News(y, v, "closed")' =>
                           y = Collector /\ \E w \in Terminals : Partner(v, w)' /\ HungUp(w)'
    BY <1>1 DEF InOrder
  <2>1. \A n \in {"data", "closed"} : News(y, v, n)' => News(y, v, n) BY <1>11
  <2>2. \A n \in {"data", "closed"} : News(y, v, n)' /\ port[v] # None =>
          lastMessage[port[v]] \in {"opened", "data"}
    BY <2>1 DEF InOrder
  <2>3. News(y, v, "data")' => \E w \in Terminals : Partner(v, w)' /\ Has(y, <<"release", w>>)'
    BY <1>9, <1>13, <2>1 DEF InOrder
  <2>4. News(y, v, "closed")' => y = Collector /\ \E w \in Terminals : Partner(v, w)' /\ HungUp(w)'
    BY <1>8, <1>13, <2>1 DEF InOrder
  <2> QED BY <2>2, <2>3, <2>4
<1>20. ClosedLast'
  <2> SUFFICES ASSUME NEW a \in Terminals, NEW b \in Terminals, Partner(a, b)', port[a] # None,
                      lastMessage[port[a]] = "closed"
               PROVE  HungUp(b)'
    BY <1>1 DEF ClosedLast
  <2>1. a \notin {t, u} BY <1>17
  <2>2. Partner(a, b) BY <1>13, <2>1
  <2> QED BY <1>8, <2>2 DEF ClosedLast
<1>21. Unheard' BY <1>1, <1>9 DEF Unheard
<1>22. \A v \in Terminals : Heard(v)' = Heard(v)
  <2>1. ASSUME NEW v \in {t, u} PROVE Heard(v)' = Heard(v)
    <3>1. v \in made /\ v \in made' /\ ~HungUp(v) /\ ~HungUp(v)' /\ connection[v] = None
      BY <1>1, <1>6, <1>8 DEF Alive, Live
    <3>2. CASE port[v] = None BY <1>1, <3>1, <3>2 DEF Heard
    <3>3. CASE port[v] # None
      <4>1. Heard(v) = "nothing" BY <3>1, <3>3 DEF Heard
      <4>2. connection'[v] # None BY <1>0, <1>5
      <4>3. Heard(v)' = lastMessage[port[v]] BY <1>1, <3>1, <3>3, <4>2 DEF Heard
      <4> QED BY <1>17, <3>3, <4>1, <4>3
    <3> QED BY <3>2, <3>3
  <2>2. ASSUME NEW v \in Terminals, v \notin {t, u} PROVE Heard(v)' = Heard(v)
    <3>1. connection'[v] = connection[v] /\ (v \in made' <=> v \in made) BY <1>1, <1>5, <2>2
    <3> QED BY <1>1, <1>8, <3>1 DEF Heard
  <2> QED BY <2>1, <2>2
<1>23. Pairs' = Pairs \cup {{t, u}}
  <2> DEFINE P(d) == {v \in Terminals : connection[v] = d}
             Q(d) == {v \in Terminals : connection'[v] = d}
  <2>1. Pairs = {P(d) : d \in Connections \cap made} /\ Pairs' = {Q(d) : d \in Connections \cap made'}
    BY DEF Pairs
  <2>2. \A d \in Connections \cap made : Q(d) = P(d)
    <3> SUFFICES ASSUME NEW d \in Connections \cap made, NEW v \in Terminals
                 PROVE  connection'[v] = d <=> connection[v] = d
      OBVIOUS
    <3>1. d # c /\ d # None BY <1>1 DEF Objects
    <3> QED BY <1>5, <1>6, <3>1
  <2>3. Q(c) = {t, u} BY <1>5, <1>7
  <2>4. Connections \cap made' = (Connections \cap made) \cup {c} BY <1>1
  <2> HIDE DEF P, Q
  <2>5. c \in Connections BY <1>0
  <2>6. ASSUME NEW e \in Pairs' PROVE e \in Pairs \cup {{t, u}}
    <3>1. PICK d \in Connections \cap made' : e = Q(d) BY ONLY <2>1, <2>6
    <3>2. CASE d = c BY ONLY <2>3, <3>1, <3>2
    <3>3. CASE d # c BY ONLY <2>1, <2>2, <2>4, <3>1, <3>3
    <3> QED BY ONLY <3>2, <3>3
  <2>7. ASSUME NEW e \in Pairs PROVE e \in Pairs'
    <3>1. PICK d \in Connections \cap made : e = P(d) BY ONLY <2>1, <2>7
    <3> QED BY ONLY <2>1, <2>2, <2>4, <3>1
  <2>8. {t, u} \in Pairs' BY ONLY <2>1, <2>3, <2>4, <2>5
  <2> QED BY ONLY <2>6, <2>7, <2>8
<1>24. \A v \in {t, u} : Promise!Others(v) = {}
  <2> SUFFICES ASSUME NEW v \in {t, u}, NEW pair \in Pairs, v \in pair PROVE FALSE
    BY DEF Promise!Others
  <2>1. connection[v] \in Connections BY DEF Pairs
  <2> QED BY <1>6, <2>1 DEF Objects
<1>25. Heard(t) # "gone" /\ Heard(u) # "gone" BY <1>8, GoneIs
<1>26. Promise!Connect(t, u) BY <1>1, <1>22, <1>23, <1>24, <1>25 DEF Promise!Connect
<1>27. PStep BY <1>26 DEF PStep, Promise!Next
<1> QED BY <1>15, <1>16, <1>18, <1>19, <1>20, <1>21, <1>27

-----------------------------------------------------------------------------
(* The whole system implements Calls.                                      *)

LEMMA TerminalStepMaps ==
  ASSUME IInv, RInv, NEW x \in Actors, NEW t \in Terminals, TerminalStep(x, t)
  PROVE  RInv' /\ PStep
<1>1. UNCHANGED <<connection, connectionVars, freed, made, handed, threadVars>> BY DEF TerminalStep
<1>2. CASE Release(x, t) BY <1>1, <1>2, ReleaseMaps
<1>3. CASE ThrowAway(x, t) BY <1>1, <1>3, ThrowAwayMaps
<1>4. CASE Cut(x, t) BY <1>1, <1>4, CutMaps
<1>5. CASE ReadConnection(x, t) BY <1>1, <1>5, ReadConnectionMaps
<1>6. ASSUME NEW m \in Messages, Deliver(x, t, m) PROVE RInv' /\ PStep BY <1>1, <1>6, DeliverMaps
<1>7. ASSUME NEW m \in Messages, SendToThis(x, t, m) PROVE RInv' /\ PStep
  BY <1>1, <1>7, SendToThisMaps
<1> QED BY <1>2, <1>3, <1>4, <1>5, <1>6, <1>7 DEF TerminalStep

LEMMA ConnectionStepMaps ==
  ASSUME IInv, RInv, NEW x \in Actors, NEW c \in Connections, ConnectionStep(x, c)
  PROVE  RInv' /\ PStep
<1>1. UNCHANGED <<portVars, port, connection, portLock, made, handed, threadVars, garbage>>
  BY DEF ConnectionStep
<1>2. CASE Unlock(x, c) BY <1>1, <1>2, UnlockMaps
<1>3. ASSUME NEW t \in Terminals, SendToRemote(x, c, t) PROVE RInv' /\ PStep
  BY <1>1, <1>3, SendToRemoteMaps
<1>4. ASSUME NEW t \in Terminals, Close(x, c, t) PROVE RInv' /\ PStep BY <1>1, <1>4, CloseMaps
<1> QED BY <1>2, <1>3, <1>4 DEF ConnectionStep

LEMMA PortStepMaps ==
  ASSUME IInv, RInv, NEW x \in Actors, NEW p \in Ports, PortStep(x, p) PROVE RInv' /\ PStep
<1>1. UNCHANGED <<owner, port, connection, portLock, connectionVars, made, handed,
                  exited, buried, reading, garbage>>
  BY DEF PortStep
<1>2. CASE Sever(x, p) BY <1>1, <1>2, SeverMaps
<1>3. CASE Dealloc(x, p) BY <1>1, <1>3, DeallocMaps
<1> QED BY <1>2, <1>3 DEF PortStep

LEMMA OperatorStepMaps == ASSUME IInv, RInv, OperatorStep PROVE RInv' /\ PStep
<1>1. UNCHANGED <<threadVars, garbage>> BY DEF OperatorStep
<1>2. ASSUME NEW t \in Terminals, GiveUp(t) PROVE RInv' /\ PStep
  <2>1. Idle(Operator) BY <1>2 DEF GiveUp
  <2> QED BY <1>1, <1>2, <2>1, GiveUpMaps
<1>3. ASSUME NEW t \in Terminals, NEW u \in Terminals, NEW c \in Connections, Connect(t, u, c)
      PROVE  RInv' /\ PStep
  BY <1>1, <1>3, ConnectMaps
<1> QED BY <1>2, <1>3 DEF OperatorStep

LEMMA ThreadStepMaps ==
  ASSUME IInv, RInv, NEW th \in Threads, ThreadStep(th) PROVE RInv' /\ PStep
<1>1. Idle(th) /\ th \notin exited /\ UNCHANGED <<owner, connectionVars, buried, reading>>
  BY DEF ThreadStep
<1> QED BY <1>1, ExitMaps, CreatePortMaps, SendMaps, DestroyPortMaps, DialMaps DEF ThreadStep

LEMMA CollectorStepMaps == ASSUME IInv, RInv, CollectorStep PROVE RInv' /\ PStep
<1>1. UNCHANGED <<portVars, terminalVars, connectionVars, made, handed, owner, portList,
                  exited, reading>>
  BY DEF CollectorStep
<1> QED BY <1>1, CollectMaps, BuryMaps, NotConnectedMaps, DeleteMaps DEF CollectorStep

LEMMA StepMaps == ASSUME IInv, RInv, [Next]_vars PROVE RInv' /\ PStep
<1>1. CASE UNCHANGED vars
  <2>1. UNCHANGED <<terminal, lastMessage, port, connection, ends, work, handed, freed, made>>
    BY <1>1 DEF vars, objectVars, portVars, terminalVars, connectionVars
  <2>2. RInv'
    <3>1. \A y \in Actors : \A q : Has(y, q)' <=> Has(y, q) BY <2>1 DEF Has
    <3>2. \A y \in Actors : \A t, m : News(y, t, m)' <=> News(y, t, m) BY <3>1 DEF News
    <3>3. /\ \A t, u \in Terminals : Partner(t, u)' <=> Partner(t, u)
          /\ \A t \in Terminals : HungUp(t)' <=> HungUp(t)
      BY <2>1 DEF Partner, HungUp
    <3>4. Operator \in Actors BY DEF Actors
    <3>5. Paired' /\ ClosedLast' BY <2>1, <3>3 DEF RInv, Paired, ClosedLast
    <3>6. DeliverFirst' BY <2>1 DEF RInv, DeliverFirst
    <3>7. OpenedFirst' BY <2>1, <3>1, <3>2, <3>4 DEF RInv, OpenedFirst
    <3>8. InOrder' BY <2>1, <3>1, <3>2, <3>3 DEF RInv, InOrder
    <3>9. Unheard' BY <2>1, <3>1 DEF RInv, Unheard
    <3> QED BY <3>5, <3>6, <3>7, <3>8, <3>9 DEF RInv
  <2>3. UNCHANGED Pairs /\ \A t \in Terminals : Heard(t)' = Heard(t)
    BY <2>1 DEF Pairs, Heard, HungUp
  <2> QED BY <2>2, <2>3, Unnoticed
<1>2. ASSUME NEW th \in Threads, ThreadStep(th) PROVE RInv' /\ PStep BY <1>2, ThreadStepMaps
<1>3. ASSUME NEW x \in Actors, Step(x) PROVE RInv' /\ PStep
  BY <1>3, TerminalStepMaps, ConnectionStepMaps, PortStepMaps, CollectorStepMaps,
     OperatorStepMaps DEF Step
<1> QED BY <1>1, <1>2, <1>3 DEF Next

LEMMA InitMaps == Init => RInv /\ Promise!Init
<1> SUFFICES ASSUME Init PROVE RInv /\ Promise!Init OBVIOUS
<1>1. \A x \in Actors : DOMAIN work[x] = {} /\ \A q : ~Has(x, q)
  <2>1. \A x \in Actors : work[x] = <<>> BY DEF Init
  <2>2. DOMAIN <<>> = {} OBVIOUS
  <2> QED BY <2>1, <2>2 DEF Has
<1>2. \A x \in Actors : \A t, m : ~News(x, t, m) BY <1>1 DEF News
<1>3. \A t \in Terminals : connection[t] = None /\ port[t] = None BY DEF Init
<1>4. RInv
  <2>1. Paired /\ ClosedLast BY <1>3 DEF Paired, ClosedLast, Partner
  <2>2. DeliverFirst BY <1>1 DEF DeliverFirst
  <2>3. OpenedFirst /\ InOrder BY <1>2, <1>3 DEF OpenedFirst, InOrder
  <2>4. Unheard BY DEF Unheard, Init
  <2> QED BY <2>1, <2>2, <2>3, <2>4 DEF RInv
<1>5. \A t \in Terminals : Heard(t) = "nothing" BY <1>3 DEF Init, Heard, HungUp
<1>6. Pairs = {} BY DEF Init, Pairs
<1> QED BY <1>4, <1>5, <1>6 DEF Promise!Init

\* Terminals keep the promises of Calls.tla, as far as they are about what may happen: a
\* port hears that the call opened before anything else, data only while it is open, that
\* it closed only when the other side is gone, and nothing after it was severed.
THEOREM ImplementsCalls == Spec => Promise!Init /\ [][Promise!Next]_(Promise!vars)
<1>1. Init => RInv /\ Promise!Init BY InitMaps
<1>2. IInv /\ RInv /\ [Next]_vars => RInv' /\ [Promise!Next]_(Promise!vars)
  BY StepMaps DEF PStep
<1> QED BY <1>1, <1>2, Inductive, PTL DEF Spec
=============================================================================
