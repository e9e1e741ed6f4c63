------------------------ MODULE CriticalSectionsProofs ------------------------
(***************************************************************************)
(* Theorems about CriticalSections.tla, for all threads and CPUs.           *)
(*                                                                         *)
(* A path is a tree of steps, and what an actor has still to do is some    *)
(* subtree of it.  Ends(p, s, R) says that path p, begun in state s of its *)
(* actor, meets in every step the conditions of that step, and comes to    *)
(* its end, if ever, in a state of R.  It is shown for each path of the    *)
(* kernel by one rule per form of path, and then that it holds, for what   *)
(* is left to do, at all times: that is the inductive invariant.  It is    *)
(* about sets of paths of any length, so TLC cannot evaluate it.           *)
(***************************************************************************)
EXTENDS CriticalSections, TLAPS

IsSeq(p) == \E S : p \in Seq(S)

\* The locks that are seized in critical sections only.
CriticalLocks ==
  {l \in Locks : l[1] \in {"scheduler", "sleep", "life", "task life", "objects"}}

\* The order in which locks are seized.
Rank(l) ==
  CASE l[1] \in {"thread list", "task list", "port list", "executable map", "port",
                 "poll"} -> 1
    [] l[1] = "queue" -> 2
    [] l[1] \in {"scheduler", "sleep"} -> 3
    [] l[1] = "life" -> 4
    [] l[1] = "task life" -> 5
    [] OTHER -> 6

\* What an actor can see of the state: whether it is critical, what its scopes will
\* restore, the locks it holds and, for a CPU in Switch, the thread it has in hand.
States ==
  {s \in [crit : BOOLEAN, saved : Seq(BOOLEAN), held : SUBSET Locks,
          own : SUBSET (Threads \cup {None})] :
     s.held \cap CriticalLocks # {} => s.crit}

\* The loop of Switch, and what comes when it is over: nothing.
Scanning == [crit |-> TRUE, saved |-> <<>>, held |-> {Scheduler}, own |-> {}]
Resuming(t) == [crit |-> TRUE, saved |-> <<>>, held |-> {}, own |-> {t}]
Over == [crit |-> TRUE, saved |-> <<>>, held |-> {}, own |-> {None}]

\* When step x may come next in state s.
Safe(x, s) ==
  /\ s.own \subseteq Threads
  /\ x[1] = "assert" => s.crit = x[2]
  /\ x[1] = "leave" => s.saved # <<>>
  /\ x[1] = "seize" =>
       /\ x[2] \in Locks /\ (x[2] \in CriticalLocks <=> s.crit)
       /\ \A l \in s.held : Rank(l) < Rank(x[2])
  /\ x[1] = "take" => x[2] \in NoncriticalLocks \ s.held
  /\ x[1] = "release" => x[2] \in s.held
  /\ x[1] = "yield" => s.held \cap CriticalLocks = {}
  /\ x[1] = "exit" => s.held = {}
  /\ x[1] = "return" => s.crit /\ s.saved = <<>> /\ s.held = {}
  /\ x[1] = "resign" => s.own = {x[2]}
  /\ x[1] = "scan" => s = Scanning
  /\ x[1] = "resume" => x[2] \in Threads /\ s = Resuming(x[2])

\* How it goes on after step x: the path that is put in its place, and the state.
After(x, s) ==
  CASE x[1] = "set" -> {<<<<>>, [s EXCEPT !.crit = x[2]]>>}
    [] x[1] = "scope" ->
         {<<<<>>, [s EXCEPT !.crit = x[2], !.saved = Append(s.saved, s.crit)]>>}
    [] x[1] = "leave" ->
         {<<<<>>, [s EXCEPT !.crit = Last(s.saved), !.saved = Front(s.saved)]>>}
    [] x[1] = "either" -> {<<path, s>> : path \in x[2]}
    [] x[1] = "seize" -> {<<<<>>, [s EXCEPT !.held = s.held \cup {x[2]}]>>}
    [] x[1] = "take" -> {<<x[3], [s EXCEPT !.held = s.held \cup {x[2]}]>>, <<x[4], s>>}
    [] x[1] = "release" -> {<<<<>>, [s EXCEPT !.held = s.held \ {x[2]}]>>}
    [] x[1] = "exit" -> {}
    [] x[1] = "return" -> {<<<<>>, [s EXCEPT !.crit = FALSE]>>}
    [] x[1] = "resign" -> {<<<<>>, [s EXCEPT !.own = {}]>>}
    [] x[1] \in {"scan", "resume"} -> {<<<<>>, Over>>}
    [] OTHER -> {<<<<>>, s>>}

\* A set of paths, each in a state, that are safe, of which each goes on to another
\* one, and which come to their ends in one of the states R.
Sound(W, R) ==
  \A w \in W :
    /\ IsSeq(w[1]) /\ w[2] \in States
    /\ w[1] = <<>> => w[2] \in R
    /\ w[1] # <<>> =>
         /\ Safe(Head(w[1]), w[2])
         /\ \A n \in After(Head(w[1]), w[2]) :
              IsSeq(n[1]) /\ <<n[1] \o Tail(w[1]), n[2]>> \in W

Ends(p, s, R) == \E W : <<p, s>> \in W /\ Sound(W, R)

-----------------------------------------------------------------------------

\* The empty path, before or after another.
LEMMA EmptyPath ==
  /\ IsSeq(<<>>)
  /\ \A p : IsSeq(p) => <<>> \o p = p /\ p \o <<>> = p
<1>1. <<>> \in Seq({}) OBVIOUS
<1>2. ASSUME NEW p, IsSeq(p) PROVE <<>> \o p = p /\ p \o <<>> = p
  <2>1. PICK S : p \in Seq(S) BY <1>2 DEF IsSeq
  <2> QED BY <2>1
<1> QED BY <1>1, <1>2 DEF IsSeq

\* A path of one step.
LEMMA OneStep ==
  ASSUME NEW x
  PROVE  IsSeq(<<x>>) /\ <<x>> # <<>> /\ Head(<<x>>) = x /\ Tail(<<x>>) = <<>>
<1>1. <<x>> \in Seq({x}) /\ Len(<<x>>) = 1 /\ <<x>>[1] = x OBVIOUS
<1>2. Head(<<x>>) = x BY <1>1
<1>3. Tail(<<x>>) = <<>> BY <1>1
<1> QED BY <1>1, <1>2, <1>3 DEF IsSeq

\* One sequence after another: its first step, and the rest.
LEMMA Concat ==
  ASSUME NEW p, NEW q, IsSeq(p), IsSeq(q)
  PROVE  /\ IsSeq(p \o q)
         /\ p # <<>> => /\ IsSeq(Tail(p)) /\ p \o q # <<>>
                        /\ Head(p \o q) = Head(p) /\ Tail(p \o q) = Tail(p) \o q
<1>1. PICK S : p \in Seq(S) BY DEF IsSeq
<1>2. PICK T : q \in Seq(T) BY DEF IsSeq
<1>3. p \in Seq(S \cup T) /\ q \in Seq(S \cup T) BY <1>1, <1>2
<1>4. p \o q \in Seq(S \cup T) BY <1>3
<1>5. ASSUME p # <<>>
      PROVE  /\ Tail(p) \in Seq(S) /\ p \o q # <<>>
             /\ Head(p \o q) = Head(p) /\ Tail(p \o q) = Tail(p) \o q
  BY <1>1, <1>3, <1>5
<1> QED BY <1>4, <1>5 DEF IsSeq

\* The order in which sequences are put together does not matter.
LEMMA ConcatAssoc ==
  ASSUME NEW p, NEW q, NEW r, IsSeq(p), IsSeq(q), IsSeq(r)
  PROVE  (p \o q) \o r = p \o (q \o r)
<1>1. PICK S : p \in Seq(S) BY DEF IsSeq
<1>2. PICK T : q \in Seq(T) BY DEF IsSeq
<1>3. PICK U : r \in Seq(U) BY DEF IsSeq
<1>4. p \in Seq(S \cup T \cup U) /\ q \in Seq(S \cup T \cup U) /\ r \in Seq(S \cup T \cup U)
  BY <1>1, <1>2, <1>3
<1> QED BY <1>4

\* A path that is done.
LEMMA EndsHere ==
  ASSUME NEW s \in States, NEW R, s \in R
  PROVE  Ends(<<>>, s, R)
<1> DEFINE W == {<<<<>>, s>>}
<1>1. Sound(W, R) BY EmptyPath DEF Sound
<1> QED BY <1>1 DEF Ends

\* What a path may do next, and where it ends.
LEMMA EndsNext ==
  ASSUME NEW p, NEW s, NEW R, Ends(p, s, R)
  PROVE  /\ IsSeq(p) /\ s \in States
         /\ p = <<>> => s \in R
         /\ p # <<>> =>
              /\ Safe(Head(p), s)
              /\ \A n \in After(Head(p), s) : IsSeq(n[1]) /\ Ends(n[1] \o Tail(p), n[2], R)
BY DEF Ends, Sound

\* One path after another.
LEMMA Compose ==
  ASSUME NEW p, NEW q, NEW s, NEW m, NEW R, Ends(p, s, {m}), Ends(q, m, R)
  PROVE  Ends(p \o q, s, R)
<1>1. PICK V : <<p, s>> \in V /\ Sound(V, {m}) BY DEF Ends
<1>2. PICK U : <<q, m>> \in U /\ Sound(U, R) BY DEF Ends
<1> DEFINE W == {<<w[1] \o q, w[2]>> : w \in V} \cup U
<1>3. IsSeq(q) BY EndsNext
<1>4. ASSUME NEW w \in V
      PROVE  /\ IsSeq(w[1] \o q) /\ w[2] \in States
             /\ w[1] \o q = <<>> => w[2] \in R
             /\ w[1] \o q # <<>> =>
                  /\ Safe(Head(w[1] \o q), w[2])
                  /\ \A n \in After(Head(w[1] \o q), w[2]) :
                       IsSeq(n[1]) /\ <<n[1] \o Tail(w[1] \o q), n[2]>> \in W
  <2>1. IsSeq(w[1]) /\ w[2] \in States /\ IsSeq(w[1] \o q)
    BY <1>1, <1>3, Concat DEF Sound
  <2>2. CASE w[1] = <<>>
    <3>1. w[2] = m /\ w[1] \o q = q BY <1>1, <1>3, <2>2, EmptyPath DEF Sound
    <3> QED BY <1>2, <2>1, <3>1 DEF Sound
  <2>3. CASE w[1] # <<>>
    <3>1. /\ w[1] \o q # <<>> /\ Head(w[1] \o q) = Head(w[1]) /\ IsSeq(Tail(w[1]))
          /\ Tail(w[1] \o q) = Tail(w[1]) \o q
      BY <1>3, <2>1, <2>3, Concat
    <3>2. Safe(Head(w[1]), w[2]) BY <1>1, <2>3 DEF Sound
    <3>3. ASSUME NEW n \in After(Head(w[1]), w[2])
          PROVE  IsSeq(n[1]) /\ <<n[1] \o (Tail(w[1]) \o q), n[2]>> \in W
      <4>1. IsSeq(n[1]) /\ <<n[1] \o Tail(w[1]), n[2]>> \in V BY <1>1, <2>3 DEF Sound
      <4>2. (n[1] \o Tail(w[1])) \o q = n[1] \o (Tail(w[1]) \o q)
        <5> DEFINE a == n[1]
                   b == Tail(w[1])
        <5>1. IsSeq(a) /\ IsSeq(b) /\ IsSeq(q) BY <1>3, <3>1, <4>1
        <5> HIDE DEF a, b
        <5>2. (a \o b) \o q = a \o (b \o q) BY ONLY <5>1, ConcatAssoc
        <5> QED BY <5>2 DEF a, b
      <4>3. <<(n[1] \o Tail(w[1])) \o q, n[2]>> \in W
        <5> DEFINE v == <<n[1] \o Tail(w[1]), n[2]>>
        <5>1. v \in V /\ v[1] = n[1] \o Tail(w[1]) /\ v[2] = n[2] BY <4>1
        <5>2. <<v[1] \o q, v[2]>> \in W BY <5>1
        <5> HIDE DEF W, v
        <5> QED BY <5>1, <5>2
      <4> QED BY <4>1, <4>2, <4>3
    <3> HIDE DEF W
    <3> QED BY <2>1, <3>1, <3>2, <3>3
  <2> QED BY <2>2, <2>3
<1>5. ASSUME NEW w \in W
      PROVE  /\ IsSeq(w[1]) /\ w[2] \in States
             /\ w[1] = <<>> => w[2] \in R
             /\ w[1] # <<>> =>
                  /\ Safe(Head(w[1]), w[2])
                  /\ \A n \in After(Head(w[1]), w[2]) :
                       IsSeq(n[1]) /\ <<n[1] \o Tail(w[1]), n[2]>> \in W
  <2>1. CASE w \in U BY <1>2, <2>1 DEF Sound
  <2>2. CASE \E v \in V : w = <<v[1] \o q, v[2]>>
    <3>1. PICK v \in V : w = <<v[1] \o q, v[2]>> BY <2>2
    <3>2. w[1] = v[1] \o q /\ w[2] = v[2] BY <3>1
    <3> HIDE DEF W
    <3> QED BY <3>2, <1>4
  <2> QED BY <2>1, <2>2
<1>6. Sound(W, R)
  <2> HIDE DEF W
  <2> QED BY <1>5 DEF Sound
<1>7. <<p \o q, s>> \in W
  <2>1. <<p, s>>[1] = p /\ <<p, s>>[2] = s OBVIOUS
  <2> QED BY <1>1, <2>1
<1> QED BY <1>6, <1>7 DEF Ends

\* One step, and all that may come of it.
LEMMA FirstStep ==
  ASSUME NEW x, NEW s \in States, NEW R, Safe(x, s),
         \A n \in After(x, s) : Ends(n[1], n[2], R)
  PROVE  Ends(<<x>>, s, R)
<1> DEFINE of(n) == CHOOSE V : <<n[1], n[2]>> \in V /\ Sound(V, R)
           W == {<<<<x>>, s>>} \cup UNION {of(n) : n \in After(x, s)}
<1>1. ASSUME NEW n \in After(x, s)
      PROVE  <<n[1], n[2]>> \in of(n) /\ Sound(of(n), R) /\ IsSeq(n[1])
  BY EndsNext DEF Ends
<1> HIDE DEF of
<1>2. ASSUME NEW n \in After(x, s)
      PROVE  IsSeq(n[1]) /\ <<n[1] \o Tail(<<x>>), n[2]>> \in W
  BY <1>1, OneStep, EmptyPath
<1>3. ASSUME NEW w \in W
      PROVE  /\ IsSeq(w[1]) /\ w[2] \in States
             /\ w[1] = <<>> => w[2] \in R
             /\ w[1] # <<>> =>
                  /\ Safe(Head(w[1]), w[2])
                  /\ \A n \in After(Head(w[1]), w[2]) :
                       IsSeq(n[1]) /\ <<n[1] \o Tail(w[1]), n[2]>> \in W
  <2>1. CASE w = <<<<x>>, s>>
    <3>1. w[1] = <<x>> /\ w[2] = s BY <2>1
    <3> HIDE DEF W
    <3> QED BY <1>2, <3>1, OneStep
  <2>2. CASE \E n \in After(x, s) : w \in of(n)
    <3>1. PICK n \in After(x, s) : w \in of(n) BY <2>2
    <3> QED BY <3>1, <1>1 DEF Sound
  <2> QED BY <2>1, <2>2
<1>4. Sound(W, R)
  <2> HIDE DEF W
  <2> QED BY <1>3 DEF Sound
<1> QED BY <1>4 DEF Ends

-----------------------------------------------------------------------------
(* One rule for each form of step.                                         *)

\* State s with other locks held, and inside a scope.
With(s, h) == [s EXCEPT !.held = h]
Inside(s, b) == [s EXCEPT !.crit = b, !.saved = Append(s.saved, s.crit)]

\* A state with other locks held.
LEMMA WithIs ==
  ASSUME NEW s \in States, NEW h \in SUBSET Locks
  PROVE  /\ With(s, h).crit = s.crit /\ With(s, h).saved = s.saved
         /\ With(s, h).held = h /\ With(s, h).own = s.own
         /\ \A g : With(With(s, g), h) = With(s, h)
         /\ With(s, s.held) = s
         /\ (h \cap CriticalLocks # {} => s.crit) => With(s, h) \in States
BY DEF With, States

\* A state inside a scope.
LEMMA InsideIs ==
  ASSUME NEW s \in States, NEW b \in BOOLEAN
  PROVE  /\ Inside(s, b).crit = b /\ Inside(s, b).saved # <<>>
         /\ Inside(s, b).held = s.held /\ Inside(s, b).own = s.own
         /\ (s.held \cap CriticalLocks # {} => b) => Inside(s, b) \in States
<1>1. s.saved \in Seq(BOOLEAN) /\ s.crit \in BOOLEAN BY DEF States
<1>2. Append(s.saved, s.crit) \in Seq(BOOLEAN) /\ Append(s.saved, s.crit) # <<>> BY <1>1
<1>3. /\ Inside(s, b).crit = b /\ Inside(s, b).saved = Append(s.saved, s.crit)
      /\ Inside(s, b).held = s.held /\ Inside(s, b).own = s.own
  BY DEF Inside, States
<1>4. (s.held \cap CriticalLocks # {} => b) => Inside(s, b) \in States
  BY <1>2 DEF Inside, States
<1> QED BY <1>2, <1>3, <1>4

\* SetCritical(b).
LEMMA SetRule ==
  ASSUME NEW s \in States, s.own \subseteq Threads, NEW b \in BOOLEAN,
         s.held \cap CriticalLocks # {} => b
  PROVE  Ends(SetCritical(b), s, {[s EXCEPT !.crit = b]})
<1> DEFINE x == <<"set", b>>
           r == [s EXCEPT !.crit = b]
<1>1. x[1] = "set" /\ x[2] = b OBVIOUS
<1>2. r \in States BY DEF States
<1> HIDE DEF x, r
<1>3. Safe(x, s) BY <1>1 DEF Safe
<1>4. After(x, s) = {<<<<>>, r>>} BY <1>1 DEF After, r
<1>5. Ends(<<>>, r, {r}) BY <1>2, EndsHere
<1>6. Ends(<<x>>, s, {r}) BY <1>3, <1>4, <1>5, FirstStep
<1> QED BY <1>6 DEF SetCritical, x, r

\* AssertCritical and AssertNoncritical, where they are right.
LEMMA AssertRule ==
  ASSUME NEW s \in States, s.own \subseteq Threads, NEW b, s.crit = b
  PROVE  Ends(<<<<"assert", b>>>>, s, {s})
<1> DEFINE x == <<"assert", b>>
<1>1. x[1] = "assert" /\ x[2] = b OBVIOUS
<1> HIDE DEF x
<1>3. Safe(x, s) BY <1>1 DEF Safe
<1>4. After(x, s) = {<<<<>>, s>>} BY <1>1 DEF After
<1>5. Ends(<<>>, s, {s}) BY EndsHere
<1>6. Ends(<<x>>, s, {s}) BY <1>3, <1>4, <1>5, FirstStep
<1> QED BY <1>6 DEF x

\* The locks held are the same inside a scope.
LEMMA InsideWith ==
  ASSUME NEW s \in States, NEW b \in BOOLEAN, NEW h
  PROVE  With(Inside(s, b), h) = Inside(With(s, h), b)
BY DEF With, Inside, States

\* The constructor of a scope.
LEMMA EnterRule ==
  ASSUME NEW s \in States, s.own \subseteq Threads, NEW b \in BOOLEAN,
         s.held \cap CriticalLocks # {} => b
  PROVE  Ends(<<<<"scope", b>>>>, s, {Inside(s, b)})
<1> DEFINE x == <<"scope", b>>
           i == Inside(s, b)
<1>1. x[1] = "scope" /\ x[2] = b OBVIOUS
<1>2. i \in States BY InsideIs
<1>3. i = [s EXCEPT !.crit = b, !.saved = Append(s.saved, s.crit)] BY DEF Inside
<1> HIDE DEF x, i
<1>4. Safe(x, s) BY <1>1 DEF Safe
<1>5. After(x, s) = {<<<<>>, i>>} BY <1>1, <1>3 DEF After
<1>6. Ends(<<>>, i, {i}) BY <1>2, EndsHere
<1>7. Ends(<<x>>, s, {i}) BY <1>4, <1>5, <1>6, FirstStep
<1> QED BY <1>7 DEF x, i

\* Its destructor puts back what the constructor saw.
LEMMA LeaveRule ==
  ASSUME NEW s \in States, s.own \subseteq Threads, NEW b \in BOOLEAN,
         s.held \cap CriticalLocks # {} => b
  PROVE  Ends(<<<<"leave">>>>, Inside(s, b), {s})
<1> DEFINE x == <<"leave">>
           i == Inside(s, b)
<1>1. x[1] = "leave" OBVIOUS
<1>2. i \in States /\ i.own = s.own /\ i.saved # <<>> BY InsideIs
<1>3. i.saved = Append(s.saved, s.crit) BY DEF Inside, States
<1>4. Last(i.saved) = s.crit /\ Front(i.saved) = s.saved
  <2> DEFINE v == s.saved
             c == s.crit
  <2>1. v \in Seq(BOOLEAN) /\ c \in BOOLEAN BY DEF States
  <2> HIDE DEF v, c
  <2>2. Len(Append(v, c)) = Len(v) + 1 /\ Append(v, c)[Len(v) + 1] = c BY <2>1
  <2>3. Last(Append(v, c)) = c BY <2>1, <2>2 DEF Last
  <2>4. Front(Append(v, c)) = v BY <2>1, <2>2 DEF Front
  <2> QED BY <1>3, <2>3, <2>4 DEF v, c
<1>5. [i EXCEPT !.crit = s.crit, !.saved = s.saved] = s BY DEF Inside, States
<1> HIDE DEF x, i
<1>6. Safe(x, i) BY <1>1, <1>2 DEF Safe
<1>7. After(x, i) = {<<<<>>, s>>} BY <1>1, <1>4, <1>5 DEF After
<1>8. Ends(<<>>, s, {s}) BY EndsHere
<1>9. Ends(<<x>>, i, {s}) BY <1>2, <1>6, <1>7, <1>8, FirstStep
<1> QED BY <1>9 DEF x, i

\* A scope around a path.
LEMMA ScopeRule ==
  ASSUME NEW s \in States, s.own \subseteq Threads, NEW r \in States, r.own \subseteq Threads,
         NEW b \in BOOLEAN, (s.held \cup r.held) \cap CriticalLocks # {} => b,
         NEW body, Ends(body, Inside(s, b), {Inside(r, b)})
  PROVE  Ends(Scope(b, body), s, {r})
<1>1. Ends(<<<<"scope", b>>>>, s, {Inside(s, b)}) BY EnterRule
<1>2. Ends(<<<<"leave">>>>, Inside(r, b), {r}) BY LeaveRule
<1> DEFINE x == <<<<"scope", b>>>>
           y == <<<<"leave">>>>
<1> HIDE DEF x, y
<1>3. Ends(x \o body, s, {Inside(r, b)}) BY <1>1, Compose DEF x
<1>4. Ends((x \o body) \o y, s, {r}) BY <1>2, <1>3, Compose DEF y
<1> QED BY <1>4 DEF Scope, x, y

\* A lock that may be seized.
LEMMA SeizeRule ==
  ASSUME NEW s \in States, s.own \subseteq Threads, NEW l \in Locks,
         l \in CriticalLocks <=> s.crit, \A k \in s.held : Rank(k) < Rank(l)
  PROVE  Ends(Seize(l), s, {With(s, s.held \cup {l})})
<1> DEFINE x == <<"seize", l>>
           r == With(s, s.held \cup {l})
<1>1. x[1] = "seize" /\ x[2] = l OBVIOUS
<1>2. r \in States BY DEF States, With
<1> HIDE DEF x, r
<1>3. Safe(x, s) BY <1>1 DEF Safe
<1>4. After(x, s) = {<<<<>>, r>>} BY <1>1 DEF After, r, With
<1>5. Ends(<<>>, r, {r}) BY <1>2, EndsHere
<1>6. Ends(<<x>>, s, {r}) BY <1>3, <1>4, <1>5, FirstStep
<1> QED BY <1>6 DEF Seize, x, r

\* A lock that is held is released.
LEMMA UnlockRule ==
  ASSUME NEW s \in States, s.own \subseteq Threads, NEW l \in s.held
  PROVE  Ends(Unlock(l), s, {With(s, s.held \ {l})})
<1> DEFINE x == <<"release", l>>
           r == With(s, s.held \ {l})
<1>1. x[1] = "release" /\ x[2] = l OBVIOUS
<1>2. r \in States BY DEF States, With
<1> HIDE DEF x, r
<1>3. Safe(x, s) BY <1>1 DEF Safe
<1>4. After(x, s) = {<<<<>>, r>>} BY <1>1 DEF After, r, With
<1>5. Ends(<<>>, r, {r}) BY <1>2, EndsHere
<1>6. Ends(<<x>>, s, {r}) BY <1>3, <1>4, <1>5, FirstStep
<1> QED BY <1>6 DEF Unlock, x, r

\* Whichever way it goes on.
LEMMA EitherRule ==
  ASSUME NEW s \in States, s.own \subseteq Threads, NEW P, NEW R,
         \A p \in P : Ends(p, s, R)
  PROVE  Ends(Either(P), s, R)
<1> DEFINE x == <<"either", P>>
<1>1. x[1] = "either" /\ x[2] = P OBVIOUS
<1> HIDE DEF x
<1>2. Safe(x, s) BY <1>1 DEF Safe
<1>3. After(x, s) = {<<p, s>> : p \in P} BY <1>1 DEF After
<1>4. Ends(<<x>>, s, R) BY <1>2, <1>3, FirstStep
<1> QED BY <1>4 DEF Either, x

\* A thread that is killed does not come back.
LEMMA ExitRule ==
  ASSUME NEW s \in States, s.own \subseteq Threads, s.held = {}, NEW R
  PROVE  Ends(<<<<"exit">>>>, s, R)
<1> DEFINE x == <<"exit">>
<1>1. x[1] = "exit" OBVIOUS
<1> HIDE DEF x
<1>2. Safe(x, s) BY <1>1 DEF Safe
<1>3. After(x, s) = {} BY <1>1 DEF After
<1>4. Ends(<<x>>, s, R) BY <1>2, <1>3, FirstStep
<1> QED BY <1>4 DEF x

\* A thread that holds no critical lock may lose its CPU.
LEMMA YieldRule ==
  ASSUME NEW s \in States, s.own \subseteq Threads, s.held \cap CriticalLocks = {}
  PROVE  Ends(<<<<"yield">>>>, s, {s})
<1> DEFINE x == <<"yield">>
<1>1. x[1] = "yield" OBVIOUS
<1> HIDE DEF x
<1>2. Safe(x, s) BY <1>1 DEF Safe
<1>3. After(x, s) = {<<<<>>, s>>} BY <1>1 DEF After
<1>4. Ends(<<>>, s, {s}) BY EndsHere
<1>5. Ends(<<x>>, s, {s}) BY <1>2, <1>3, <1>4, FirstStep
<1> QED BY <1>5 DEF x

\* NoncriticalLock::Seize goes on in one of two ways.
LEMMA TakeRule ==
  ASSUME NEW s \in States, s.own \subseteq Threads, NEW l \in NoncriticalLocks \ s.held,
         NEW p, NEW q, NEW R,
         Ends(p, With(s, s.held \cup {l}), R), Ends(q, s, R)
  PROVE  Ends(<<<<"take", l, p, q>>>>, s, R)
<1> DEFINE x == <<"take", l, p, q>>
<1>1. x[1] = "take" /\ x[2] = l /\ x[3] = p /\ x[4] = q OBVIOUS
<1> HIDE DEF x
<1>2. Safe(x, s) BY <1>1 DEF Safe
<1>3. After(x, s) = {<<p, With(s, s.held \cup {l})>>, <<q, s>>}
  BY <1>1 DEF After, With
<1>4. Ends(<<x>>, s, R) BY <1>2, <1>3, FirstStep
<1> QED BY <1>4 DEF x

\* A path under a lock.
LEMMA LockedRule ==
  ASSUME NEW s \in States, s.own \subseteq Threads, NEW l \in Locks,
         l \in CriticalLocks <=> s.crit, \A k \in s.held : Rank(k) < Rank(l),
         NEW body, Ends(body, With(s, s.held \cup {l}), {With(s, s.held \cup {l})}),
         Rank(l) \in Nat
  PROVE  Ends(Locked(l, body), s, {s})
<1> DEFINE m == With(s, s.held \cup {l})
<1>1. l \notin s.held OBVIOUS
<1>2. m \in States /\ m.own \subseteq Threads /\ m.held = s.held \cup {l}
  BY WithIs, EndsNext DEF States
<1>3. With(m, m.held \ {l}) = s
  <2>1. m.held \ {l} = s.held BY <1>1, <1>2
  <2>2. s.held \in SUBSET Locks BY DEF States
  <2>3. With(With(s, s.held \cup {l}), s.held) = s BY <2>2, WithIs
  <2> QED BY <2>1, <2>3
<1>4. Ends(Seize(l), s, {m}) BY SeizeRule
<1> HIDE DEF m
<1>5. Ends(Unlock(l), m, {s}) BY <1>2, <1>3, UnlockRule
<1>6. Ends(Seize(l) \o body, s, {m}) BY <1>4, Compose DEF m
<1>7. Ends((Seize(l) \o body) \o Unlock(l), s, {s}) BY <1>5, <1>6, Compose
<1> QED BY <1>7 DEF Locked

-----------------------------------------------------------------------------
(* The order of locks, and paths that leave the state as it was.           *)

\* The locks: which are for critical sections, and their ranks.
LEMMA LockFacts ==
  /\ Scheduler \in CriticalLocks /\ Rank(Scheduler) = 3
  /\ Objects \in CriticalLocks /\ Rank(Objects) = 6
  /\ TaskLife \in CriticalLocks /\ Rank(TaskLife) = 5
  /\ \A t \in Threads :
       /\ Life(t) \in CriticalLocks /\ Rank(Life(t)) = 4
       /\ Sleeping(t) \in CriticalLocks /\ Rank(Sleeping(t)) = 3
       /\ Port(t) \in Locks \ CriticalLocks /\ Rank(Port(t)) = 1
       /\ Polling(t) \in Locks \ CriticalLocks /\ Rank(Polling(t)) = 1
  /\ \A l \in NoncriticalLocks :
       /\ l \in Locks \ CriticalLocks /\ Rank(l) = 1
       /\ Queue(l) \in Locks \ CriticalLocks /\ Rank(Queue(l)) = 2
<1>1. /\ Scheduler[1] = "scheduler" /\ Objects[1] = "objects" /\ TaskLife[1] = "task life"
      /\ ThreadList[1] = "thread list" /\ TaskList[1] = "task list"
      /\ MapLock[1] = "executable map"
      /\ \A t : /\ Life(t)[1] = "life" /\ Sleeping(t)[1] = "sleep"
                /\ Port(t)[1] = "port" /\ Polling(t)[1] = "poll"
                /\ PortList(t)[1] = "port list"
      /\ \A l : Queue(l)[1] = "queue"
  BY DEF Scheduler, Objects, TaskLife, ThreadList, TaskList, MapLock, Life, Sleeping, Port,
         Polling, PortList, Queue
<1>2. /\ {Scheduler, Objects, TaskLife} \subseteq Locks /\ NoncriticalLocks \subseteq Locks
      /\ \A t \in Threads : {Life(t), Sleeping(t), Port(t), Polling(t)} \subseteq Locks
      /\ \A l \in NoncriticalLocks : Queue(l) \in Locks
  BY DEF Locks, SpinLocks
<1>3. \A l \in NoncriticalLocks :
        l \in {ThreadList, TaskList, MapLock} \/ \E t \in Threads : l = PortList(t)
  BY DEF NoncriticalLocks
<1>4. /\ Scheduler \in CriticalLocks /\ Rank(Scheduler) = 3
      /\ Objects \in CriticalLocks /\ Rank(Objects) = 6
      /\ TaskLife \in CriticalLocks /\ Rank(TaskLife) = 5
  BY <1>1, <1>2 DEF CriticalLocks, Rank
<1>5. ASSUME NEW t \in Threads
      PROVE  /\ Life(t) \in CriticalLocks /\ Rank(Life(t)) = 4
             /\ Sleeping(t) \in CriticalLocks /\ Rank(Sleeping(t)) = 3
             /\ Port(t) \in Locks \ CriticalLocks /\ Rank(Port(t)) = 1
             /\ Polling(t) \in Locks \ CriticalLocks /\ Rank(Polling(t)) = 1
  BY <1>1, <1>2 DEF CriticalLocks, Rank
<1>6. ASSUME NEW l \in NoncriticalLocks
      PROVE  /\ l \in Locks \ CriticalLocks /\ Rank(l) = 1
             /\ Queue(l) \in Locks \ CriticalLocks /\ Rank(Queue(l)) = 2
  <2>1. /\ l[1] \in {"thread list", "task list", "port list", "executable map"}
        /\ Queue(l)[1] = "queue"
    BY <1>1, <1>3
  <2> QED BY <1>2, <2>1 DEF CriticalLocks, Rank
<1> QED BY <1>4, <1>5, <1>6

\* There are six ranks.
LEMMA RankType == \A l : Rank(l) \in 1..6
BY DEF Rank

\* Path p is safe in all states of S, and leaves the state as it was.
Keeps(p, S) == \A s \in S : Ends(p, s, {s})

\* The states in which the locks held come before those of rank n; those of a thread
\* in the kernel that holds no lock, critical or not.
Free(n) == {s \in States : s.own \subseteq Threads /\ \A l \in s.held : Rank(l) < n}
Unlocked == {s \in States : s.own \subseteq Threads /\ s.held = {}}
Open == {s \in Unlocked : s.crit = FALSE}
Closed == {s \in Unlocked : s.crit = TRUE}

\* Who may seize a lock may seize those that come after it.
LEMMA FreeIs ==
  /\ \A n, m \in Nat : n <= m => Free(n) \subseteq Free(m)
  /\ \A n \in Nat :
       Open \subseteq Free(n) /\ Closed \subseteq Free(n) /\ Unlocked \subseteq Free(n)
<1>1. \A n, m \in Nat : n <= m => Free(n) \subseteq Free(m) BY RankType DEF Free
<1> QED BY <1>1 DEF Free, Open, Closed, Unlocked

\* What is kept in some states is kept in fewer.
LEMMA KeepsLess ==
  ASSUME NEW p, NEW S, NEW T \in SUBSET S, Keeps(p, S)
  PROVE  Keeps(p, T)
BY DEF Keeps

\* The empty path changes nothing.
LEMMA KeepsNothing ==
  ASSUME NEW S \in SUBSET States
  PROVE  Keeps(<<>>, S)
BY EndsHere DEF Keeps

\* Two paths that each leave the state as it was.
LEMMA KeepsBoth ==
  ASSUME NEW p, NEW q, NEW S, Keeps(p, S), Keeps(q, S)
  PROVE  Keeps(p \o q, S)
BY Compose DEF Keeps

\* One of several that do.
LEMMA KeepsEither ==
  ASSUME NEW P, NEW S \in SUBSET States, \A s \in S : s.own \subseteq Threads,
         \A p \in P : Keeps(p, S)
  PROVE  Keeps(Either(P), S)
<1> SUFFICES ASSUME NEW s \in S PROVE Ends(Either(P), s, {s}) BY DEF Keeps
<1>1. \A p \in P : Ends(p, s, {s}) BY DEF Keeps
<1> QED BY <1>1, EitherRule

\* One that is or is not taken.
LEMMA KeepsMaybe ==
  ASSUME NEW p, NEW S \in SUBSET States, \A s \in S : s.own \subseteq Threads, Keeps(p, S)
  PROVE  Keeps(Maybe(p), S)
BY KeepsNothing, KeepsEither DEF Maybe

\* A scope around one that does.
LEMMA KeepsScoped ==
  ASSUME NEW body, NEW s \in States, s.own \subseteq Threads, NEW b \in BOOLEAN,
         s.held \cap CriticalLocks # {} => b, Ends(body, Inside(s, b), {Inside(s, b)})
  PROVE  Ends(Scope(b, body), s, {s})
BY ScopeRule

\* A lock that is seized in a critical section of its own.
LEMMA KeepsCritical ==
  ASSUME NEW l \in CriticalLocks, NEW body, Keeps(body, Free(Rank(l) + 1))
  PROVE  Keeps(Scoped(Locked(l, body)), Free(Rank(l)))
<1> SUFFICES ASSUME NEW s \in Free(Rank(l)) PROVE Ends(Scoped(Locked(l, body)), s, {s})
  BY DEF Keeps
<1> DEFINE i == Inside(s, TRUE)
           m == With(i, i.held \cup {l})
<1>1. s \in States /\ s.own \subseteq Threads /\ \A k \in s.held : Rank(k) < Rank(l)
  BY DEF Free
<1>2. i \in States /\ i.own = s.own /\ i.held = s.held /\ i.crit = TRUE
  BY <1>1, InsideIs
<1>3. l \in Locks /\ i.held \in SUBSET Locks BY <1>2 DEF CriticalLocks, States
<1> HIDE DEF i
<1>4. m \in States /\ m.held = i.held \cup {l} /\ m.own = i.own
  BY <1>2, <1>3, WithIs
<1>5. m \in Free(Rank(l) + 1) BY <1>1, <1>2, <1>4, RankType DEF Free
<1>6. Ends(body, m, {m}) BY <1>5 DEF Keeps
<1>7. Ends(Locked(l, body), i, {i})
  BY <1>1, <1>2, <1>3, <1>6, RankType, LockedRule
<1> QED BY <1>1, <1>7, KeepsScoped DEF Scoped, i

-----------------------------------------------------------------------------

\* The scheduler's list, the tasks' counters and the garbage list.
LEMMA Counters ==
  /\ Keeps(ThrowAway, Free(6)) /\ Keeps(TaskRetain, Free(5)) /\ Keeps(TaskRelease, Free(5))
  /\ Keeps(TaskHold, Free(5)) /\ Keeps(TaskUnhold, Free(5)) /\ Keeps(TaskKill, Free(5))
  /\ Keeps(SchedulerList, Free(3))
<1>1. \A n : Free(n) \in SUBSET States /\ \A s \in Free(n) : s.own \subseteq Threads
  BY DEF Free
<1>2. \A n : Keeps(<<>>, Free(n)) BY <1>1, KeepsNothing
<1>3. Keeps(ThrowAway, Free(6)) BY <1>2, LockFacts, KeepsCritical DEF ThrowAway
<1>4. Keeps(TaskRetain, Free(5)) BY <1>2, LockFacts, KeepsCritical DEF TaskRetain
<1>5. Keeps(TaskRelease, Free(5))
  <2>1. Keeps(Maybe(ThrowAway), Free(6)) BY <1>1, <1>3, KeepsMaybe
  <2>2. Keeps(Maybe(ThrowAway), Free(Rank(TaskLife) + 1)) BY <2>1, LockFacts
  <2> QED BY <2>2, LockFacts, KeepsCritical DEF TaskRelease
<1>6. Keeps(SchedulerList, Free(3)) BY <1>2, LockFacts, KeepsCritical DEF SchedulerList
<1> QED BY <1>3, <1>4, <1>5, <1>6 DEF TaskHold, TaskUnhold, TaskKill

\* The threads' counters and deadlines.
LEMMA ThreadCounters ==
  ASSUME NEW t \in Threads
  PROVE  /\ Keeps(Kill(t), Free(4)) /\ Keeps(Retain(t), Free(4)) /\ Keeps(Release(t), Free(4))
         /\ Keeps(Scoped(Locked(Sleeping(t), <<>>)), Free(3))
<1>1. \A n : Free(n) \in SUBSET States /\ \A s \in Free(n) : s.own \subseteq Threads
  BY DEF Free
<1>2. \A n : Keeps(<<>>, Free(n)) BY <1>1, KeepsNothing
<1>3. Keeps(Kill(t), Free(4)) BY <1>2, LockFacts, KeepsCritical DEF Kill
<1>4. Keeps(Scoped(Locked(Sleeping(t), <<>>)), Free(3)) BY <1>2, LockFacts, KeepsCritical
<1>5. Keeps(Retain(t), Free(4))
  <2>1. Keeps(Maybe(TaskRetain), Free(5)) BY <1>1, Counters, KeepsMaybe
  <2>2. Keeps(Maybe(TaskRetain), Free(Rank(Life(t)) + 1)) BY <2>1, LockFacts
  <2> QED BY <2>2, LockFacts, KeepsCritical DEF Retain
<1>6. Keeps(Release(t), Free(4))
  <2>1. Keeps(ThrowAway, Free(5)) BY Counters, FreeIs, KeepsLess
  <2>2. \A p \in {ThrowAway, TaskRelease} : Keeps(p, Free(5)) BY <2>1, Counters
  <2>3. Keeps(Either({ThrowAway, TaskRelease}), Free(5)) BY ONLY <1>1, <2>2, KeepsEither
  <2>4. Keeps(Either({ThrowAway, TaskRelease}), Free(Rank(Life(t)) + 1)) BY <2>3, LockFacts
  <2> QED BY <2>4, LockFacts, KeepsCritical DEF Release
<1> QED BY <1>3, <1>4, <1>5, <1>6

\* Scheduler::Yield.
LEMMA KeepsYield ==
  ASSUME NEW s \in States, s.own \subseteq Threads, s.held \cap CriticalLocks = {}
  PROVE  Ends(Yield, s, {s})
<1> DEFINE i == Inside(s, TRUE)
<1>1. i \in States /\ i.own = s.own /\ i.held = s.held BY InsideIs
<1> HIDE DEF i
<1>2. Ends(<<<<"yield">>>>, i, {i}) BY <1>1, YieldRule
<1> QED BY <1>2, KeepsScoped DEF Yield, Scoped, i

\* Scheduler::Exit does not return, so anything may come after it.
LEMMA ExitAnywhere ==
  ASSUME NEW s \in States, s.own \subseteq Threads, s.held = {},
         NEW r \in States, r.own \subseteq Threads
  PROVE  Ends(Exit, s, {r})
<1>1. Inside(s, TRUE) \in States /\ Inside(s, TRUE).own = s.own /\ Inside(s, TRUE).held = {}
  BY InsideIs
<1>2. Ends(<<<<"exit">>>>, Inside(s, TRUE), {Inside(r, TRUE)}) BY <1>1, ExitRule
<1> QED BY <1>2, ScopeRule DEF Exit, Scoped

\* Scheduler::SetTimeout releases the lock and gives the CPU away.
LEMMA SetTimeoutUnlocks ==
  ASSUME NEW s \in States, s.own \subseteq Threads, NEW l \in s.held,
         (s.held \ {l}) \cap CriticalLocks = {}
  PROVE  Ends(SetTimeout(l), s, {With(s, s.held \ {l})})
<1> DEFINE i == Inside(s, TRUE)
           r == With(s, s.held \ {l})
           j == Inside(r, TRUE)
<1>1. i \in States /\ i.own = s.own /\ i.held = s.held BY InsideIs
<1>2. r \in States /\ r.own = s.own /\ r.held = s.held \ {l} BY WithIs DEF States
<1>3. With(i, s.held \ {l}) = j BY InsideWith
<1> HIDE DEF r
<1>4. j \in States /\ j.own = r.own /\ j.held = r.held BY <1>2, InsideIs
<1> HIDE DEF i, j
<1>5. Ends(Unlock(l), i, {j}) BY <1>1, <1>3, UnlockRule
<1>6. Ends(Yield, j, {j}) BY <1>2, <1>4, KeepsYield
<1>7. Ends(Unlock(l) \o Yield, i, {j}) BY <1>5, <1>6, Compose
<1> QED BY <1>2, <1>7, ScopeRule DEF SetTimeout, Scoped, i, j, r

\* The states of a thread that holds the noncritical lock l and nothing else.
Holding(l) == {s \in States : s.own \subseteq Threads /\ s.crit = FALSE /\ s.held = {l}}

\* NoncriticalLock: a body that is safe under the lock is safe between Seize and Release.
LEMMA KeepsNoncritical ==
  ASSUME NEW t \in Threads, NEW l \in NoncriticalLocks, NEW body, Keeps(body, Holding(l))
  PROVE  Keeps(Noncritical(t, l, body), Open)
<1> SUFFICES ASSUME NEW s \in Open PROVE Ends(Noncritical(t, l, body), s, {s})
  BY DEF Keeps
<1>1. /\ l \in Locks \ CriticalLocks /\ Rank(l) = 1
      /\ Queue(l) \in Locks \ CriticalLocks /\ Rank(Queue(l)) = 2
  BY LockFacts
<1>2. s \in States /\ s.own \subseteq Threads /\ s.crit = FALSE /\ s.held = {}
  BY DEF Open, Unlocked
<1> DEFINE q == Queue(l)
           sq == With(s, {q})
           sl == With(s, {l})
           sb == With(s, {l, q})
<1>3. /\ sq \in States /\ sq.own = s.own /\ sq.crit = FALSE /\ sq.held = {q}
      /\ sl \in States /\ sl.own = s.own /\ sl.crit = FALSE /\ sl.held = {l}
      /\ sb \in States /\ sb.own = s.own /\ sb.crit = FALSE /\ sb.held = {l, q}
  BY <1>1, <1>2, WithIs
<1>4. /\ With(s, s.held \cup {q}) = sq /\ With(s, s.held \cup {l}) = sl
      /\ With(sq, sq.held \cup {l}) = sb /\ With(sl, sl.held \cup {q}) = sb
      /\ With(sb, sb.held \ {q}) = sl /\ With(sb, sb.held \ {l}) = sq
      /\ With(sq, sq.held \ {q}) = s
  <2>1. l # q BY <1>1
  <2>2. /\ s.held \cup {q} = {q} /\ s.held \cup {l} = {l} /\ sq.held \cup {l} = {l, q}
        /\ sl.held \cup {q} = {l, q} /\ sb.held \ {q} = {l} /\ sb.held \ {l} = {q}
        /\ sq.held \ {q} = {}
    BY <1>2, <1>3, <2>1
  <2>3. \A h \in SUBSET Locks : With(sq, h) = With(s, h) /\ With(sl, h) = With(s, h)
                                /\ With(sb, h) = With(s, h)
    BY <1>2, WithIs
  <2>4. With(s, {}) = s BY <1>2, WithIs
  <2>5. {l, q} \in SUBSET Locks /\ {l} \in SUBSET Locks /\ {q} \in SUBSET Locks
    BY <1>1
  <2> HIDE DEF q
  <2> QED BY <2>2, <2>3, <2>4, <2>5
<1> HIDE DEF q, sq, sl, sb
<1>5. Ends(AssertNoncritical, s, {s}) BY <1>2, AssertRule DEF AssertNoncritical
<1>6. Ends(Seize(q), s, {sq}) BY <1>1, <1>2, <1>4, SeizeRule DEF q
<1>7. Ends(Unlock(q), sb, {sl}) BY <1>2, <1>3, <1>4, UnlockRule
<1>8. Ends(Retain(t) \o SetTimeout(q) \o Seize(l) \o Release(t), sq, {sl})
  <2>1. sq \in Free(4) /\ sl \in Free(4) BY <1>1, <1>2, <1>3 DEF Free, q
  <2>2. Ends(Retain(t), sq, {sq}) BY <2>1, ThreadCounters DEF Keeps
  <2>3. Ends(SetTimeout(q), sq, {s}) BY <1>2, <1>3, <1>4, SetTimeoutUnlocks
  <2>4. Ends(Seize(l), s, {sl}) BY <1>1, <1>2, <1>4, SeizeRule
  <2>5. Ends(Release(t), sl, {sl}) BY <2>1, ThreadCounters DEF Keeps
  <2>6. Ends(Retain(t) \o SetTimeout(q), sq, {s}) BY <2>2, <2>3, Compose
  <2>7. Ends(Retain(t) \o SetTimeout(q) \o Seize(l), sq, {sl}) BY <2>4, <2>6, Compose
  <2> QED BY <2>5, <2>7, Compose
<1> DEFINE granted == Unlock(q)
           waits == Retain(t) \o SetTimeout(q) \o Seize(l) \o Release(t)
           take == <<<<"take", l, granted, waits>>>>
           free == Locked(q, Unlock(l))
<1>9. Ends(take, sq, {sl})
  <2> HIDE DEF granted, waits
  <2>1. Ends(granted, With(sq, sq.held \cup {l}), {sl}) BY <1>4, <1>7 DEF granted
  <2>2. Ends(waits, sq, {sl}) BY <1>8 DEF waits
  <2>3. l \in NoncriticalLocks \ sq.held BY <1>1, <1>3 DEF q
  <2> QED BY <1>2, <1>3, <2>1, <2>2, <2>3, TakeRule
<1>10. Ends(body, sl, {sl})
  <2>1. sl \in Holding(l) BY <1>2, <1>3 DEF Holding
  <2> QED BY <2>1 DEF Keeps
<1>11. Ends(AssertNoncritical, sl, {sl}) BY <1>2, <1>3, AssertRule DEF AssertNoncritical
<1>12. Ends(free, sl, {s})
  <2>1. Ends(Seize(q), sl, {sb})
    <3>1. \A k \in sl.held : Rank(k) < Rank(q) BY <1>1, <1>3 DEF q
    <3> QED BY <1>1, <1>2, <1>3, <1>4, <3>1, SeizeRule DEF q
  <2>2. Ends(Unlock(l), sb, {sq}) BY <1>2, <1>3, <1>4, UnlockRule
  <2>3. Ends(Unlock(q), sq, {s}) BY <1>2, <1>3, <1>4, UnlockRule
  <2>4. Ends(Seize(q) \o Unlock(l), sl, {sq}) BY <2>1, <2>2, Compose
  <2>5. Ends(Seize(q) \o Unlock(l) \o Unlock(q), sl, {s}) BY <2>3, <2>4, Compose
  <2> QED BY <2>5 DEF Locked
<1>13. Noncritical(t, l, body) =
         AssertNoncritical \o Seize(q) \o take \o body \o AssertNoncritical \o free
  BY DEF Noncritical, q
<1> HIDE DEF take, free
<1>14. Ends(AssertNoncritical \o Seize(q), s, {sq}) BY <1>5, <1>6, Compose
<1>15. Ends(AssertNoncritical \o Seize(q) \o take, s, {sl}) BY <1>9, <1>14, Compose
<1>16. Ends(AssertNoncritical \o Seize(q) \o take \o body, s, {sl})
  BY <1>10, <1>15, Compose
<1>17. Ends(AssertNoncritical \o Seize(q) \o take \o body \o AssertNoncritical, s, {sl})
  BY <1>11, <1>16, Compose
<1>18. Ends(AssertNoncritical \o Seize(q) \o take \o body \o AssertNoncritical \o free,
            s, {s})
  BY <1>12, <1>17, Compose
<1> QED BY <1>13, <1>18

-----------------------------------------------------------------------------
(* System calls and page faults.                                           *)

\* How these sets of states are related.
LEMMA SetsOfStates ==
  /\ Open \subseteq Unlocked /\ Closed \subseteq Unlocked /\ Unlocked \subseteq States
  /\ \A n \in Nat : Unlocked \subseteq Free(n)
  /\ \A s \in Unlocked : s.own \subseteq Threads
BY FreeIs DEF Open, Closed, Unlocked

\* None of the calls that count needs a lock to be held.
LEMMA KeepsCounters ==
  /\ Keeps(ThrowAway, Unlocked) /\ Keeps(TaskRetain, Unlocked) /\ Keeps(TaskRelease, Unlocked)
  /\ Keeps(TaskHold, Unlocked) /\ Keeps(TaskUnhold, Unlocked) /\ Keeps(TaskKill, Unlocked)
  /\ Keeps(SchedulerList, Unlocked)
  /\ \A t \in Threads :
       /\ Keeps(Kill(t), Unlocked) /\ Keeps(Retain(t), Unlocked) /\ Keeps(Release(t), Unlocked)
       /\ Keeps(Scoped(Locked(Sleeping(t), <<>>)), Unlocked)
<1>1. Unlocked \in SUBSET Free(3) /\ Unlocked \in SUBSET Free(4)
      /\ Unlocked \in SUBSET Free(5) /\ Unlocked \in SUBSET Free(6)
  BY FreeIs
<1> QED BY ONLY <1>1, Counters, ThreadCounters, KeepsLess

\* What is kept without a lock is kept by threads that are critical or not.
LEMMA KeepsUnlocked ==
  ASSUME NEW p, Keeps(p, Unlocked)
  PROVE  Keeps(p, Open) /\ Keeps(p, Closed)
BY SetsOfStates DEF Keeps

\* Inside a scope a thread without locks is as critical as the scope says.
LEMMA InsideUnlocked ==
  ASSUME NEW s \in Unlocked
  PROVE  Inside(s, TRUE) \in Closed /\ Inside(s, FALSE) \in Open
<1>1. s \in States /\ s.held = {} /\ s.own \subseteq Threads BY DEF Unlocked
<1> QED BY <1>1, InsideIs DEF Open, Closed, Unlocked

\* A scope around a path that is safe for threads as critical as the scope says.
LEMMA KeepsScope ==
  ASSUME NEW body, NEW b \in BOOLEAN,
         IF b THEN Keeps(body, Closed) ELSE Keeps(body, Open)
  PROVE  Keeps(Scope(b, body), Unlocked)
<1> SUFFICES ASSUME NEW s \in Unlocked PROVE Ends(Scope(b, body), s, {s}) BY DEF Keeps
<1>1. s \in States /\ s.own \subseteq Threads /\ s.held = {} BY DEF Unlocked
<1>2. Ends(body, Inside(s, b), {Inside(s, b)})
  BY InsideUnlocked DEF Keeps
<1> QED BY <1>1, <1>2, KeepsScoped

\* AssertNoncritical, with and without a noncritical lock.
LEMMA KeepsAssertNoncritical ==
  /\ Keeps(AssertNoncritical, Open)
  /\ \A l \in NoncriticalLocks : Keeps(AssertNoncritical, Holding(l))
BY AssertRule DEF Keeps, AssertNoncritical, Open, Unlocked, Holding

\* HoldScope: the call is made, or the thread is killed.
LEMMA KeepsHoldScope ==
  ASSUME NEW t \in Threads, NEW body, Keeps(body, Open)
  PROVE  Keeps(HoldScope(t, body), Unlocked)
<1>1. Keeps(NestedHoldScope(body), Unlocked) BY KeepsScope DEF NestedHoldScope
<1>2. Keeps(TaskHold \o NestedHoldScope(body) \o TaskUnhold, Unlocked)
  BY <1>1, KeepsCounters, KeepsBoth
<1>3. Keeps(Exit, Unlocked) BY ExitAnywhere DEF Keeps, Unlocked
<1>4. Keeps(TaskHold \o Kill(t) \o Exit, Unlocked) BY <1>3, KeepsCounters, KeepsBoth
<1> DEFINE P == {TaskHold \o NestedHoldScope(body) \o TaskUnhold,
                 TaskHold \o Kill(t) \o Exit}
<1>5. \A p \in P : Keeps(p, Unlocked) BY <1>2, <1>4
<1> HIDE DEF P
<1>6. Keeps(Either(P), Unlocked) BY <1>5, SetsOfStates, KeepsEither
<1> QED BY <1>6 DEF HoldScope, P

\* A page fault, not critical.
LEMMA KeepsPageFault ==
  ASSUME NEW t \in Threads
  PROVE  Keeps(HandlePageFault(t), Open)
<1>1. MapLock \in NoncriticalLocks BY DEF NoncriticalLocks
<1>2. Holding(MapLock) \in SUBSET States /\ \A s \in Holding(MapLock) : s.own \subseteq Threads
  BY DEF Holding
<1>3. Keeps(Maybe(AssertNoncritical), Holding(MapLock))
  BY <1>1, <1>2, KeepsAssertNoncritical, KeepsMaybe
<1>4. Keeps(Noncritical(t, MapLock, Maybe(AssertNoncritical)), Open)
  BY <1>1, <1>3, KeepsNoncritical
<1> QED BY <1>4, KeepsAssertNoncritical, KeepsBoth DEF HandlePageFault

\* What a thread that is not critical may or may not do.
LEMMA KeepsMaybeOpen ==
  ASSUME NEW p, Keeps(p, Open)
  PROVE  Keeps(Maybe(p), Open)
BY SetsOfStates, KeepsMaybe

\* A copy that faults in the middle of a call.
LEMMA KeepsCopy ==
  ASSUME NEW t \in Threads
  PROVE  Keeps(Copy(t), Open)
<1>1. Keeps(NestedHoldScope(HandlePageFault(t)), Closed)
  BY KeepsPageFault, KeepsScope, KeepsUnlocked DEF NestedHoldScope
<1>2. Keeps(Scoped(NestedHoldScope(HandlePageFault(t))), Open)
  BY <1>1, KeepsScope, KeepsUnlocked DEF Scoped
<1> QED BY <1>2, KeepsMaybeOpen DEF Copy

\* A lock that is not for critical sections.
LEMMA KeepsLockedOpen ==
  ASSUME NEW l \in Locks \ CriticalLocks
  PROVE  Keeps(Locked(l, <<>>), Open)
<1> SUFFICES ASSUME NEW s \in Open PROVE Ends(Locked(l, <<>>), s, {s}) BY DEF Keeps
<1>1. s \in States /\ s.own \subseteq Threads /\ s.crit = FALSE /\ s.held = {}
  BY DEF Open, Unlocked
<1>2. With(s, s.held \cup {l}) \in States BY <1>1, WithIs
<1>3. Ends(<<>>, With(s, s.held \cup {l}), {With(s, s.held \cup {l})}) BY <1>2, EndsHere
<1>4. Rank(l) \in Nat BY RankType
<1> QED BY <1>1, <1>3, <1>4, LockedRule

\* The locks of a port and of its owner's poll state.
LEMMA KeepsSever ==
  ASSUME NEW u \in Threads
  PROVE  Keeps(Sever(u), Open) /\ Keeps(Locked(Polling(u), <<>>), Open)
BY LockFacts, KeepsLockedOpen DEF Sever

\* The lock of a list, for as long as it takes to change the list.
LEMMA KeepsList ==
  ASSUME NEW t \in Threads, NEW l \in NoncriticalLocks
  PROVE  Keeps(Noncritical(t, l, <<>>), Open)
<1>1. Keeps(<<>>, Holding(l)) BY KeepsNothing DEF Holding
<1> QED BY <1>1, KeepsNoncritical

\* A port is made, and destroyed.
LEMMA KeepsPorts ==
  ASSUME NEW t \in Threads
  PROVE  Keeps(CreatePort(t), Open) /\ Keeps(DestroyPort(t), Open)
<1>1. PortList(t) \in NoncriticalLocks BY DEF NoncriticalLocks
<1>2. Keeps(Noncritical(t, PortList(t), <<>>), Open) BY <1>1, KeepsList
<1>3. Keeps(CreatePort(t), Open)
  BY <1>2, KeepsAssertNoncritical, KeepsMaybeOpen, KeepsBoth DEF CreatePort
<1>4. Keeps(Sever(t) \o Noncritical(t, PortList(t), <<>>) \o Locked(Polling(t), <<>>)
              \o AssertNoncritical, Open)
  BY <1>2, KeepsSever, KeepsAssertNoncritical, KeepsBoth
<1>5. Keeps(DestroyPort(t), Open)
  BY <1>2, <1>4, KeepsMaybeOpen, KeepsBoth DEF DestroyPort
<1> QED BY <1>3, <1>5

\* A thread is launched.
LEMMA KeepsLaunch ==
  ASSUME NEW t \in Threads, NEW u \in Threads
  PROVE  Keeps(Launch(t, u), Open)
<1>1. ThreadList \in NoncriticalLocks BY DEF NoncriticalLocks
<1>3. Keeps(Noncritical(t, ThreadList, <<>>), Open) BY <1>1, KeepsList
<1>4. Keeps(TaskRetain, Open) /\ Keeps(SchedulerList, Open) /\ Keeps(Release(u), Open)
  BY KeepsCounters, KeepsUnlocked
<1>5. Keeps(TaskRetain \o AssertNoncritical \o Noncritical(t, ThreadList, <<>>), Open)
  BY <1>3, <1>4, KeepsAssertNoncritical, KeepsBoth
<1> QED BY <1>4, <1>5, KeepsAssertNoncritical, KeepsBoth DEF Launch

\* A thread is found, retained and woken.
LEMMA KeepsWakeup ==
  ASSUME NEW t \in Threads, NEW u \in Threads
  PROVE  Keeps(Wakeup(t, u), Open)
<1>1. ThreadList \in NoncriticalLocks BY DEF NoncriticalLocks
<1> DEFINE H == Holding(ThreadList)
<1>2. H \in SUBSET States /\ (\A s \in H : s.own \subseteq Threads) /\ H \in SUBSET Free(4)
  BY <1>1, LockFacts DEF Holding, Free
<1>3. Keeps(Retain(u), H) BY <1>2, ThreadCounters, KeepsLess
<1>4. Keeps(Maybe(Retain(u)), H) BY <1>2, <1>3, KeepsMaybe
<1>5. Keeps(Noncritical(t, ThreadList, Maybe(Retain(u))), Open)
  BY <1>1, <1>4, KeepsNoncritical
<1>6. Keeps(Scoped(Locked(Sleeping(u), <<>>)), Open) /\ Keeps(Release(u), Open)
  BY KeepsCounters, KeepsUnlocked
<1>7. Keeps(Maybe(Scoped(Locked(Sleeping(u), <<>>)) \o Release(u)), Open)
  BY <1>6, KeepsBoth, KeepsMaybeOpen
<1> QED BY <1>5, <1>7, KeepsBoth DEF Wakeup

\* A thread that is not critical and holds no lock, and the same thread when critical.
LEMMA Toggle ==
  ASSUME NEW s \in Open
  PROVE  /\ [s EXCEPT !.crit = TRUE] \in Closed
         /\ Ends(SetCritical(TRUE), s, {[s EXCEPT !.crit = TRUE]})
         /\ Ends(SetCritical(FALSE), [s EXCEPT !.crit = TRUE], {s})
<1>1. s \in States /\ s.own \subseteq Threads /\ s.held = {} /\ s.crit = FALSE
  BY DEF Open, Unlocked
<1> DEFINE r == [s EXCEPT !.crit = TRUE]
<1>2. r \in States /\ r.own = s.own /\ r.held = {} /\ r.crit = TRUE BY <1>1 DEF States
<1>3. [r EXCEPT !.crit = FALSE] = s BY <1>1 DEF States
<1> HIDE DEF r
<1>4. Ends(SetCritical(FALSE), r, {[r EXCEPT !.crit = FALSE]}) BY <1>1, <1>2, SetRule
<1>5. Ends(SetCritical(TRUE), s, {r}) BY <1>1, SetRule DEF r
<1>6. r \in Closed BY <1>1, <1>2 DEF Closed, Unlocked
<1> QED BY <1>3, <1>4, <1>5, <1>6 DEF r

\* A thread or a task exits.
LEMMA KeepsExits ==
  ASSUME NEW t \in Threads
  PROVE  Keeps(ExitThread(t), Open) /\ Keeps(ExitTask(t), Open)
<1> SUFFICES ASSUME NEW s \in Open
             PROVE  Ends(ExitThread(t), s, {s}) /\ Ends(ExitTask(t), s, {s})
  BY DEF Keeps
<1> DEFINE r == [s EXCEPT !.crit = TRUE]
<1>1. r \in Closed /\ Ends(SetCritical(TRUE), s, {r}) BY Toggle
<1> HIDE DEF r
<1>2. Ends(Kill(t), r, {r}) /\ Ends(TaskKill, r, {r}) /\ Ends(TaskUnhold, r, {r})
  BY <1>1, KeepsCounters, SetsOfStates DEF Keeps
<1>3. Ends(Exit, r, {s})
  <2>1. /\ r \in States /\ r.own \subseteq Threads /\ r.held = {}
        /\ s \in States /\ s.own \subseteq Threads
    BY <1>1 DEF Open, Closed, Unlocked
  <2> QED BY <2>1, ExitAnywhere
<1>4. Ends(SetCritical(TRUE) \o Kill(t), s, {r}) BY <1>1, <1>2, Compose
<1>5. Ends(SetCritical(TRUE) \o Kill(t) \o TaskUnhold, s, {r}) BY <1>2, <1>4, Compose
<1>6. Ends(SetCritical(TRUE) \o Kill(t) \o TaskKill, s, {r}) BY <1>2, <1>4, Compose
<1>7. Ends(SetCritical(TRUE) \o Kill(t) \o TaskKill \o TaskUnhold, s, {r})
  BY <1>2, <1>6, Compose
<1>8. Ends(SetCritical(TRUE) \o Kill(t) \o TaskUnhold \o Exit, s, {s})
  BY <1>3, <1>5, Compose
<1>9. Ends(SetCritical(TRUE) \o Kill(t) \o TaskKill \o TaskUnhold \o Exit, s, {s})
  BY <1>3, <1>7, Compose
<1> QED BY <1>8, <1>9 DEF ExitThread, ExitTask

\* All calls that are made inside a HoldScope.
LEMMA KeepsBodies ==
  ASSUME NEW t \in Threads
  PROVE  \A p \in Bodies(t) : Keeps(p, Open)
<1>1. Keeps(PrintSyscall(t), Open) BY KeepsCopy DEF PrintSyscall
<1>2. Keeps(VMRead(t), Open) BY KeepsCopy, KeepsBoth, KeepsMaybeOpen DEF VMRead
<1>3. Keeps(<<>>, Open) BY SetsOfStates, KeepsNothing
<1> QED BY <1>1, <1>2, <1>3, KeepsPorts, KeepsExits, KeepsLaunch, KeepsWakeup DEF Bodies

\* A thread sleeps.
LEMMA KeepsSleep ==
  ASSUME NEW t \in Threads
  PROVE  Keeps(Sleep(t), Closed)
<1> SUFFICES ASSUME NEW s \in Closed PROVE Ends(Sleep(t), s, {s}) BY DEF Keeps
<1>1. s \in States /\ s.own \subseteq Threads /\ s.held = {} /\ s.crit = TRUE
  BY DEF Closed, Unlocked
<1> DEFINE l == Sleeping(t)
           r == With(s, {l})
<1>2. l \in CriticalLocks /\ l \in Locks BY LockFacts DEF CriticalLocks
<1>3. r \in States /\ r.own = s.own /\ r.crit = TRUE /\ r.held = {l} BY <1>1, <1>2, WithIs
<1>4. With(s, s.held \cup {l}) = r /\ With(r, r.held \ {l}) = s
  <2>1. s.held \cup {l} = {l} /\ r.held \ {l} = {} BY <1>1, <1>3
  <2>2. With(s, s.held) = s BY <1>1, WithIs
  <2>3. \A h : {} \in SUBSET Locks /\ With(With(s, h), {}) = With(s, {})
    BY <1>1, WithIs
  <2> HIDE DEF l
  <2> QED BY <1>1, <2>1, <2>2, <2>3
<1> HIDE DEF r
<1>5. Ends(AssertCritical, s, {s}) BY <1>1, AssertRule DEF AssertCritical
<1>6. Ends(Seize(l), s, {r}) BY <1>1, <1>2, <1>4, SeizeRule
<1>7. Ends(Unlock(l), r, {s}) BY <1>1, <1>3, <1>4, UnlockRule
<1>8. Ends(SetTimeout(l), r, {s}) BY <1>1, <1>3, <1>4, SetTimeoutUnlocks
<1>9. Ends(Locked(l, <<>>), s, {s})
  <2>1. Ends(<<>>, r, {r}) BY <1>3, EndsHere
  <2>2. Rank(l) \in Nat BY RankType
  <2> QED BY <1>1, <1>2, <1>4, <2>1, <2>2, LockedRule
<1>10. Ends(SetTimeout(l) \o Locked(l, <<>>), r, {s}) BY <1>8, <1>9, Compose
<1> DEFINE P == {Unlock(l), SetTimeout(l) \o Locked(l, <<>>)}
<1>11. \A p \in P : Ends(p, r, {s}) BY <1>7, <1>10
<1> HIDE DEF P
<1>12. Ends(Either(P), r, {s}) BY <1>1, <1>3, <1>11, EitherRule
<1>13. Ends(AssertCritical \o Seize(l), s, {r}) BY <1>5, <1>6, Compose
<1>14. Ends(AssertCritical \o Seize(l) \o Either(P), s, {s}) BY <1>12, <1>13, Compose
<1> QED BY <1>14 DEF Sleep, P

\* All system calls and page faults.
LEMMA KeepsHandlers ==
  ASSUME NEW t \in Threads
  PROVE  Keeps(SyscallHandler(t), Closed) /\ Keeps(HoldScope(t, HandlePageFault(t)), Closed)
<1>1. Keeps(AssertCritical, Closed) BY AssertRule DEF Keeps, AssertCritical, Closed, Unlocked
<1>2. Keeps(Either(Bodies(t)), Open) BY KeepsBodies, SetsOfStates, KeepsEither
<1>3. Keeps(HoldScope(t, Either(Bodies(t))), Closed)
  BY <1>2, KeepsHoldScope, KeepsUnlocked
<1>4. Keeps(<<>>, Closed) /\ Keeps(GetPid, Closed)
  BY <1>1, SetsOfStates, KeepsNothing DEF GetPid
<1> DEFINE P == {<<>>, GetPid, Sleep(t), HoldScope(t, Either(Bodies(t)))}
<1>5. \A p \in P : Keeps(p, Closed) BY <1>3, <1>4, KeepsSleep
<1> HIDE DEF P
<1>6. Keeps(Either(P), Closed) BY <1>5, SetsOfStates, KeepsEither
<1>7. Keeps(HoldScope(t, HandlePageFault(t)), Closed)
  BY KeepsPageFault, KeepsHoldScope, KeepsUnlocked
<1> QED BY <1>1, <1>6, <1>7, KeepsBoth DEF SyscallHandler, P

-----------------------------------------------------------------------------
(* The collector.                                                          *)

\* A thread is deleted.
LEMMA KeepsDealloc ==
  ASSUME NEW t \in Threads, NEW u \in Threads
  PROVE  Keeps(Dealloc(t, u), Open)
<1>1. ThreadList \in NoncriticalLocks BY DEF NoncriticalLocks
<1>3. Keeps(Maybe(Noncritical(t, ThreadList, <<>>)), Open)
  BY <1>1, KeepsList, KeepsMaybeOpen
<1>4. Keeps(TaskRelease, Open) /\ Keeps(SchedulerList, Open)
  BY KeepsCounters, KeepsUnlocked
<1>5. Keeps(Maybe(Sever(u) \o AssertNoncritical), Open)
  BY KeepsSever, KeepsAssertNoncritical, KeepsBoth, KeepsMaybeOpen
<1>6. Keeps(Maybe(SchedulerList \o AssertNoncritical), Open)
  BY <1>4, KeepsAssertNoncritical, KeepsBoth, KeepsMaybeOpen
<1>7. Keeps(Maybe(Maybe(Noncritical(t, ThreadList, <<>>)) \o TaskRelease), Open)
  BY <1>3, <1>4, KeepsBoth, KeepsMaybeOpen
<1>8. Keeps(AssertNoncritical \o Maybe(Sever(u) \o AssertNoncritical)
              \o Maybe(SchedulerList \o AssertNoncritical), Open)
  BY <1>5, <1>6, KeepsAssertNoncritical, KeepsBoth
<1> QED BY <1>7, <1>8, KeepsAssertNoncritical, KeepsBoth DEF Dealloc

\* A task is deleted.
LEMMA KeepsDeallocTask ==
  ASSUME NEW t \in Threads
  PROVE  Keeps(DeallocTask(t), Open)
<1> DEFINE P == {<<>>} \cup {Dealloc(t, u) : u \in Threads \ {t}}
<1>1. \A p \in P : Keeps(p, Open) BY KeepsDealloc, SetsOfStates, KeepsNothing
<1> HIDE DEF P
<1>2. Keeps(Either(P), Open) BY <1>1, SetsOfStates, KeepsEither
<1>3. TaskList \in NoncriticalLocks BY DEF NoncriticalLocks
<1>4. Keeps(Maybe(Noncritical(t, TaskList, <<>>)), Open)
  BY <1>3, KeepsList, KeepsMaybeOpen
<1> QED BY <1>2, <1>4, KeepsAssertNoncritical, KeepsBoth DEF DeallocTask, P

\* A turn of the collector.
LEMMA KeepsCollect ==
  ASSUME NEW t \in Threads
  PROVE  Keeps(Collect(t), Open)
<1> SUFFICES ASSUME NEW s \in Open PROVE Ends(Collect(t), s, {s}) BY DEF Keeps
<1> DEFINE c == [s EXCEPT !.crit = TRUE]
           r == With(c, {Objects})
<1>1. c \in Closed /\ Ends(SetCritical(TRUE), s, {c}) /\ Ends(SetCritical(FALSE), c, {s})
  BY Toggle
<1> HIDE DEF c
<1>2. c \in States /\ c.own \subseteq Threads /\ c.held = {} /\ c.crit = TRUE
  BY <1>1 DEF Closed, Unlocked
<1>3. Objects \in CriticalLocks /\ Objects \in Locks BY LockFacts DEF CriticalLocks
<1>4. r \in States /\ r.own = c.own /\ r.crit = TRUE /\ r.held = {Objects}
  BY <1>2, <1>3, WithIs
<1>5. With(c, c.held \cup {Objects}) = r /\ With(r, r.held \ {Objects}) = c
  <2>1. c.held \cup {Objects} = {Objects} /\ r.held \ {Objects} = {} BY <1>2, <1>4
  <2>2. With(c, c.held) = c BY <1>2, WithIs
  <2>3. \A h : {} \in SUBSET Locks /\ With(With(c, h), {}) = With(c, {})
    BY <1>2, WithIs
  <2> QED BY <1>2, <2>1, <2>2, <2>3
<1> HIDE DEF r
<1>6. Ends(Seize(Objects), c, {r}) BY <1>2, <1>3, <1>5, SeizeRule
<1>7. Ends(Unlock(Objects), r, {c}) BY <1>2, <1>4, <1>5, UnlockRule
<1>8. Ends(SetTimeout(Objects), r, {c}) BY <1>2, <1>4, <1>5, SetTimeoutUnlocks
<1> DEFINE D == {DeallocTask(t)} \cup {Dealloc(t, u) : u \in Threads \ {t}}
           P == {SetTimeout(Objects) \o SetCritical(FALSE)}
                  \cup {Unlock(Objects) \o SetCritical(FALSE) \o d : d \in D}
<1>9. \A d \in D : Ends(d, s, {s}) BY KeepsDealloc, KeepsDeallocTask DEF Keeps
<1> HIDE DEF D
<1>10. Ends(SetTimeout(Objects) \o SetCritical(FALSE), r, {s}) BY <1>1, <1>8, Compose
<1>11. Ends(Unlock(Objects) \o SetCritical(FALSE), r, {s}) BY <1>1, <1>7, Compose
<1>12. \A d \in D : Ends(Unlock(Objects) \o SetCritical(FALSE) \o d, r, {s})
  BY <1>9, <1>11, Compose
<1>13. \A p \in P : Ends(p, r, {s}) BY <1>10, <1>12
<1> HIDE DEF P
<1>14. Ends(Either(P), r, {s}) BY <1>2, <1>4, <1>13, EitherRule
<1>15. Ends(SetCritical(TRUE) \o Seize(Objects), s, {r}) BY <1>1, <1>6, Compose
<1>16. Ends(SetCritical(TRUE) \o Seize(Objects) \o Either(P), s, {s})
  BY <1>14, <1>15, Compose
<1> QED BY <1>16 DEF Collect, P, D

\* Two states that agree in all they consist of.
LEMMA SameState ==
  ASSUME NEW s \in States, NEW r \in States,
         s.crit = r.crit, s.saved = r.saved, s.held = r.held, s.own = r.own
  PROVE  s = r
BY DEF States

\* Two that differ in the locks held.
LEMMA WithSame ==
  ASSUME NEW s \in States, NEW r \in States,
         s.crit = r.crit, s.saved = r.saved, s.own = r.own
  PROVE  With(s, r.held) = r
BY DEF With, States

-----------------------------------------------------------------------------
(* Switch.                                                                 *)

Outside == [crit |-> FALSE, saved |-> <<>>, held |-> {}, own |-> {}]
Waiting == [crit |-> TRUE, saved |-> <<>>, held |-> {}, own |-> {}]
Deciding(t) == [crit |-> TRUE, saved |-> <<>>, held |-> {Scheduler}, own |-> {t}]

\* The states of a CPU in Switch.
LEMMA SwitchStates ==
  /\ Outside \in Open /\ Waiting \in Closed /\ Scanning \in Free(4) /\ Over \in States
  /\ \A t \in Threads : Resuming(t) \in Closed /\ Deciding(t) \in Free(4)
<1>1. Scheduler \in CriticalLocks /\ Scheduler \in Locks /\ Rank(Scheduler) = 3
  BY LockFacts DEF CriticalLocks
<1>2. <<>> \in Seq(BOOLEAN) OBVIOUS
<1>3. Outside \in States /\ Waiting \in States /\ Scanning \in States /\ Over \in States
  BY <1>1, <1>2 DEF Outside, Waiting, Scanning, Over, States
<1>4. \A t \in Threads : Resuming(t) \in States /\ Deciding(t) \in States
  BY <1>1, <1>2 DEF Resuming, Deciding, States
<1> QED BY <1>1, <1>3, <1>4
    DEF Outside, Waiting, Scanning, Resuming, Deciding, Open, Closed, Unlocked, Free

\* From one to the next.
LEMMA SwitchSteps ==
  /\ With(Waiting, Waiting.held \cup {Scheduler}) = Scanning
  /\ With(Scanning, Scanning.held \ {Scheduler}) = Waiting
  /\ \A t \in Threads :
       /\ With(Resuming(t), Resuming(t).held \cup {Scheduler}) = Deciding(t)
       /\ With(Deciding(t), Deciding(t).held \ {Scheduler}) = Resuming(t)
       /\ [Deciding(t) EXCEPT !.own = {}] = Scanning
<1>1. /\ Waiting \in States /\ Scanning \in States
      /\ Waiting.held = {} /\ Scanning.held = {Scheduler}
      /\ Waiting.crit = TRUE /\ Scanning.crit = TRUE
      /\ Waiting.saved = <<>> /\ Scanning.saved = <<>>
      /\ Waiting.own = {} /\ Scanning.own = {}
  BY SwitchStates DEF Waiting, Scanning, Closed, Unlocked, Free
<1>3. With(Waiting, {Scheduler}) = Scanning /\ With(Scanning, {}) = Waiting
  <2>1. With(Waiting, Scanning.held) = Scanning /\ With(Scanning, Waiting.held) = Waiting
    BY <1>1, WithSame
  <2> QED BY <1>1, <2>1
<1>4. ASSUME NEW t \in Threads
      PROVE  /\ With(Resuming(t), {Scheduler}) = Deciding(t)
             /\ With(Deciding(t), {}) = Resuming(t)
             /\ [Deciding(t) EXCEPT !.own = {}] = Scanning
             /\ Resuming(t).held = {} /\ Deciding(t).held = {Scheduler}
  <2>1. /\ Resuming(t) \in States /\ Deciding(t) \in States
        /\ Resuming(t).held = {} /\ Deciding(t).held = {Scheduler}
        /\ Resuming(t).crit = TRUE /\ Deciding(t).crit = TRUE
        /\ Resuming(t).saved = <<>> /\ Deciding(t).saved = <<>>
        /\ Resuming(t).own = {t} /\ Deciding(t).own = {t}
    BY SwitchStates DEF Resuming, Deciding, Closed, Unlocked, Free
  <2>2. With(Resuming(t), {Scheduler}) = Deciding(t) /\ With(Deciding(t), {}) = Resuming(t)
    <3>1. /\ With(Resuming(t), Deciding(t).held) = Deciding(t)
          /\ With(Deciding(t), Resuming(t).held) = Resuming(t)
      BY <2>1, WithSame
    <3> QED BY <2>1, <3>1
  <2> DEFINE d == Deciding(t)
             r == [d EXCEPT !.own = {}]
  <2>3. d \in States /\ d.crit = TRUE /\ d.saved = <<>> /\ d.held = {Scheduler} BY <2>1
  <2> HIDE DEF d
  <2>4. r \in States /\ r.crit = TRUE /\ r.saved = <<>> /\ r.held = {Scheduler} /\ r.own = {}
    BY <2>3 DEF States
  <2> HIDE DEF r
  <2>5. r = Scanning BY <1>1, <2>4, SameState
  <2> QED BY <2>1, <2>2, <2>5 DEF r, d
<1>5. {} \cup {Scheduler} = {Scheduler} /\ {Scheduler} \ {Scheduler} = {} OBVIOUS
<1>6. Waiting.held \cup {Scheduler} = {Scheduler} /\ Scanning.held \ {Scheduler} = {}
  BY ONLY <1>1, <1>5
<1>7. /\ With(Waiting, Waiting.held \cup {Scheduler}) = Scanning
      /\ With(Scanning, Scanning.held \ {Scheduler}) = Waiting
  BY ONLY <1>3, <1>6
<1>8. ASSUME NEW t \in Threads
      PROVE  /\ With(Resuming(t), Resuming(t).held \cup {Scheduler}) = Deciding(t)
             /\ With(Deciding(t), Deciding(t).held \ {Scheduler}) = Resuming(t)
             /\ [Deciding(t) EXCEPT !.own = {}] = Scanning
  <2>1. /\ Resuming(t).held \cup {Scheduler} = {Scheduler}
        /\ Deciding(t).held \ {Scheduler} = {}
    BY ONLY <1>4, <1>5, t \in Threads
  <2> QED BY ONLY <1>4, <2>1, t \in Threads
<1> QED BY ONLY <1>7, <1>8

\* What the loop of Switch does when it passes over a thread or takes one.
LEMMA ScanPaths ==
  /\ Ends(<<<<"scan">>>>, Scanning, {Over})
  /\ Ends(Unlock(Scheduler), Scanning, {Waiting})
  /\ \A t \in Threads :
       /\ Ends(Maybe(Retain(t) \o Release(t)) \o <<<<"scan">>>>, Scanning, {Over})
       /\ Ends(Retain(t) \o Unlock(Scheduler) \o <<<<"resume", t>>>>, Deciding(t), {Over})
<1>1. Ends(<<<<"scan">>>>, Scanning, {Over})
  <2> DEFINE x == <<"scan">>
  <2>1. x[1] = "scan" OBVIOUS
  <2> HIDE DEF x
  <2>2. Safe(x, Scanning) BY <2>1 DEF Safe, Scanning
  <2>3. After(x, Scanning) = {<<<<>>, Over>>} BY <2>1 DEF After
  <2>4. Ends(<<>>, Over, {Over}) BY SwitchStates, EndsHere
  <2>5. Scanning \in States BY SwitchStates DEF Free
  <2>6. Ends(<<x>>, Scanning, {Over}) BY <2>2, <2>3, <2>4, <2>5, FirstStep
  <2> QED BY <2>6 DEF x
<1>2. Ends(Unlock(Scheduler), Scanning, {Waiting})
  <2>1. Scanning \in States /\ Scanning.own \subseteq Threads /\ Scanning.held = {Scheduler}
    BY SwitchStates DEF Free, Scanning
  <2>2. With(Scanning, Scanning.held \ {Scheduler}) = Waiting
    BY SwitchSteps
  <2> QED BY <2>1, <2>2, UnlockRule
<1>3. ASSUME NEW t \in Threads
      PROVE  Ends(Maybe(Retain(t) \o Release(t)) \o <<<<"scan">>>>, Scanning, {Over})
  <2>1. Free(4) \in SUBSET States /\ \A s \in Free(4) : s.own \subseteq Threads BY DEF Free
  <2>2. Keeps(Maybe(Retain(t) \o Release(t)), Free(4))
    BY <2>1, ThreadCounters, KeepsBoth, KeepsMaybe
  <2>3. Ends(Maybe(Retain(t) \o Release(t)), Scanning, {Scanning})
    BY <2>2, SwitchStates DEF Keeps
  <2> QED BY <1>1, <2>3, Compose
<1>4. ASSUME NEW t \in Threads
      PROVE  Ends(Retain(t) \o Unlock(Scheduler) \o <<<<"resume", t>>>>, Deciding(t), {Over})
  <2>1. Ends(Retain(t), Deciding(t), {Deciding(t)})
    BY ThreadCounters, SwitchStates DEF Keeps
  <2>2. Ends(Unlock(Scheduler), Deciding(t), {Resuming(t)})
    <3>1. /\ Deciding(t) \in States /\ Deciding(t).own \subseteq Threads
          /\ Deciding(t).held = {Scheduler}
      BY SwitchStates DEF Free, Deciding
    <3>2. With(Deciding(t), Deciding(t).held \ {Scheduler}) = Resuming(t)
      BY SwitchSteps
    <3> QED BY <3>1, <3>2, UnlockRule
  <2>3. Ends(<<<<"resume", t>>>>, Resuming(t), {Over})
    <3> DEFINE x == <<"resume", t>>
    <3>1. x[1] = "resume" /\ x[2] = t OBVIOUS
    <3> HIDE DEF x
    <3>2. Safe(x, Resuming(t)) BY <3>1 DEF Safe, Resuming
    <3>3. After(x, Resuming(t)) = {<<<<>>, Over>>} BY <3>1 DEF After
    <3>4. Ends(<<>>, Over, {Over}) BY SwitchStates, EndsHere
    <3>5. Resuming(t) \in States BY SwitchStates DEF Closed, Unlocked
    <3>6. Ends(<<x>>, Resuming(t), {Over}) BY <3>2, <3>3, <3>4, <3>5, FirstStep
    <3> QED BY <3>6 DEF x
  <2>4. Ends(Retain(t) \o Unlock(Scheduler), Deciding(t), {Resuming(t)})
    BY <2>1, <2>2, Compose
  <2> QED BY <2>3, <2>4, Compose
<1> QED BY <1>1, <1>2, <1>3, <1>4

\* Switch, with nobody or with thread t in hand, comes to the end of its loop.
LEMMA SwitchPath ==
  /\ Ends(Switch(None), Waiting, {Over})
  /\ \A t \in Threads : Ends(Switch(t), Resuming(t), {Over})
<1>1. Scheduler \in CriticalLocks /\ Scheduler \in Locks BY LockFacts DEF CriticalLocks
<1>2. /\ Waiting \in States /\ Waiting.own = {} /\ Waiting.crit = TRUE /\ Waiting.held = {}
      /\ With(Waiting, Waiting.held \cup {Scheduler}) = Scanning
  BY SwitchStates, SwitchSteps DEF Closed, Unlocked, Waiting
<1>3. Ends(AssertCritical \o Seize(Scheduler), Waiting, {Scanning})
  <2>1. Ends(AssertCritical, Waiting, {Waiting}) BY <1>2, AssertRule DEF AssertCritical
  <2>2. Ends(Seize(Scheduler), Waiting, {Scanning}) BY <1>1, <1>2, SeizeRule
  <2> QED BY <2>1, <2>2, Compose
<1>4. Ends(AssertCritical \o Seize(Scheduler) \o <<>> \o <<<<"scan">>>>, Waiting, {Over})
  <2>1. Ends(<<>>, Scanning, {Scanning}) BY SwitchStates, EndsHere DEF Free
  <2>2. Ends(AssertCritical \o Seize(Scheduler) \o <<>>, Waiting, {Scanning})
    BY <1>3, <2>1, Compose
  <2> QED BY <2>2, ScanPaths, Compose
<1>5. ASSUME NEW t \in Threads PROVE Ends(Switch(t), Resuming(t), {Over})
  <2>1. /\ Resuming(t) \in States /\ Resuming(t).own = {t} /\ Resuming(t).crit = TRUE
        /\ Resuming(t).held = {}
        /\ With(Resuming(t), Resuming(t).held \cup {Scheduler}) = Deciding(t)
    BY SwitchStates, SwitchSteps DEF Closed, Unlocked, Resuming
  <2>2. Ends(AssertCritical, Resuming(t), {Resuming(t)})
    BY <2>1, AssertRule DEF AssertCritical
  <2>3. Ends(Seize(Scheduler), Resuming(t), {Deciding(t)}) BY <1>1, <2>1, SeizeRule
  <2>4. Ends(<<<<"resign", t>>>>, Deciding(t), {Scanning})
    <3> DEFINE x == <<"resign", t>>
    <3>1. x[1] = "resign" /\ x[2] = t OBVIOUS
    <3> HIDE DEF x
    <3>2. Safe(x, Deciding(t)) BY <3>1 DEF Safe, Deciding
    <3>3. [Deciding(t) EXCEPT !.own = {}] = Scanning BY SwitchSteps
    <3>4. After(x, Deciding(t)) = {<<<<>>, Scanning>>} BY <3>1, <3>3 DEF After
    <3>5. Scanning \in States /\ Deciding(t) \in States BY SwitchStates DEF Free
    <3>6. Ends(<<>>, Scanning, {Scanning}) BY <3>5, EndsHere
    <3>7. Ends(<<x>>, Deciding(t), {Scanning}) BY <3>2, <3>4, <3>5, <3>6, FirstStep
    <3> QED BY <3>7 DEF x
  <2>5. Ends(Release(t), Scanning, {Scanning}) BY ThreadCounters, SwitchStates DEF Keeps
  <2>6. Ends(<<<<"resign", t>>>> \o Release(t), Deciding(t), {Scanning})
    BY <2>4, <2>5, Compose
  <2>7. Ends(AssertCritical \o Seize(Scheduler), Resuming(t), {Deciding(t)})
    BY <2>2, <2>3, Compose
  <2>8. Ends(AssertCritical \o Seize(Scheduler) \o (<<<<"resign", t>>>> \o Release(t)),
             Resuming(t), {Scanning})
    BY <2>6, <2>7, Compose
  <2>9. Ends(AssertCritical \o Seize(Scheduler) \o (<<<<"resign", t>>>> \o Release(t))
               \o <<<<"scan">>>>, Resuming(t), {Over})
    BY <2>8, ScanPaths, Compose
  <2>10. t # None BY CriticalSectionsAssumption
  <2> QED BY <2>9, <2>10 DEF Switch
<1> QED BY <1>4, <1>5 DEF Switch

-----------------------------------------------------------------------------
(* The inductive invariant.                                                *)

Here(a, o) ==
  [crit |-> (a \in crit), saved |-> saved[a],
   held |-> {l \in Locks : holder[l] = a}, own |-> o]

\* The thread that CPU c runs, or has in hand in Switch.
Has(own, c) == IF on[c] = None THEN own[c] ELSE {on[c]}

CpusRight(own) ==
  /\ own \in [Cpus -> SUBSET Threads]
  /\ \A c \in Cpus :
       /\ Ends(todo[c], Here(c, own[c]), {Waiting, Over})
       /\ on[c] # None => todo[c] = <<>>
       /\ Has(own, c) \subseteq running
  /\ \A c, d \in Cpus : c # d => Has(own, c) \cap Has(own, d) = {}

Shape ==
  /\ kind \in [Threads -> {"user", "collector"}]
  /\ crit \subseteq Actors /\ holder \in [Locks -> Actors \cup {None}]
  /\ saved \in [Actors -> Seq(BOOLEAN)]
  /\ on \in [Cpus -> Threads \cup {None}] /\ running \subseteq Threads
  /\ todo = [a \in Actors |-> todo[a]]

IInv ==
  /\ Shape
  /\ \A t \in Threads : Ends(todo[t], Here(t, {}), {Outside})
  /\ \E own : CpusRight(own)
  /\ \A l \in CriticalLocks : holder[l] \in Threads => \E c \in Cpus : on[c] = holder[l]

-----------------------------------------------------------------------------

\* Nothing that another actor sees of its state changes.
OthersSame(a) ==
  \A b \in Actors \ {a} :
    /\ b \in crit' <=> b \in crit
    /\ saved'[b] = saved[b]
    /\ \A l \in Locks : holder'[l] = b <=> holder[l] = b

\* What others do not see changing is the same for them.
LEMMA OthersHere ==
  ASSUME NEW a, OthersSame(a), NEW b \in Actors \ {a}, NEW o
  PROVE  Here(b, o)' = Here(b, o)
<1>1. {l \in Locks : holder'[l] = b} = {l \in Locks : holder[l] = b} BY DEF OthersSame
<1> QED BY <1>1 DEF Here, OthersSame

\* What an actor's state is.
LEMMA HereIs ==
  ASSUME NEW r \in States, NEW a, NEW o, r.crit <=> a \in crit, r.saved = saved[a],
         r.held = {l \in Locks : holder[l] = a}, r.own = o
  PROVE  Here(a, o) = r
<1>1. [crit |-> r.crit, saved |-> r.saved, held |-> r.held, own |-> r.own] = r BY DEF States
<1>2. r.crit = (a \in crit) BY DEF States
<1> QED BY <1>1, <1>2 DEF Here

\* What it is next.
LEMMA HereNext ==
  ASSUME NEW r \in States, NEW a, NEW o, r.crit <=> a \in crit', r.saved = saved'[a],
         r.held = {l \in Locks : holder'[l] = a}, r.own = o
  PROVE  Here(a, o)' = r
<1>1. [crit |-> r.crit, saved |-> r.saved, held |-> r.held, own |-> r.own] = r BY DEF States
<1>2. r.crit = (a \in crit') BY DEF States
<1> QED BY <1>1, <1>2 DEF Here

\* The same, for equal truth values.
LEMMA HereNow ==
  ASSUME NEW r \in States, NEW a, NEW o, r.crit = (a \in crit'), r.saved = saved'[a],
         r.held = {l \in Locks : holder'[l] = a}, r.own = o
  PROVE  Here(a, o)' = r
BY HereNext

\* A step of an actor is one of those of which its path consists.
LEMMA LocalStep ==
  ASSUME Shape, NEW a \in Actors, NEW o, NEW R, Ends(todo[a], Here(a, o), R), Step(a)
  PROVE  /\ \E p : todo' = [todo EXCEPT ![a] = p] /\ Ends(p, Here(a, o)', R)
         /\ Shape' /\ OthersSame(a)
         /\ UNCHANGED <<on, running>>
<1> DEFINE s == Here(a, o)
           x == Head(todo[a])
           rest == Tail(todo[a])
           Moves == (\E n \in After(x, s) : GoOn(a, n[1]) /\ Here(a, o)' = n[2])
                      /\ OthersSame(a)
<1>1. todo[a] # <<>>
  BY DEF Step, SetStep, ScopeStep, LeaveStep, AssertStep, EitherStep, SeizeStep, TakeStep,
         ReleaseStep, Return, At
<1>2. /\ s \in States /\ Safe(x, s)
      /\ \A n \in After(x, s) : Ends(n[1] \o rest, n[2], R)
  BY <1>1, EndsNext
<1>3. \A n \in After(x, s) : n[2] \in States BY <1>2, EndsNext
<1>4. /\ s.crit = (a \in crit) /\ s.saved = saved[a]
      /\ s.held = {l \in Locks : holder[l] = a} /\ s.own = o
  BY DEF Here
<1>5. Arg(a) = x[2] BY DEF Arg
<1>6. saved[a] \in Seq(BOOLEAN) /\ holder \in [Locks -> Actors \cup {None}]
      /\ saved \in [Actors -> Seq(BOOLEAN)]
  BY DEF Shape
<1> HIDE DEF s, x
<1>7. ASSUME SetStep(a) PROVE Moves
  <2>1. x[1] = "set" BY <1>7 DEF SetStep, At, x
  <2> DEFINE r == [s EXCEPT !.crit = x[2]]
  <2>2. <<<<>>, r>> \in After(x, s) BY <2>1 DEF After
  <2>3. r \in States BY <1>3, <2>2
  <2>4. /\ r.crit = x[2] /\ r.saved = s.saved /\ r.held = s.held /\ r.own = s.own
        /\ x[2] \in BOOLEAN
    BY <1>2, <2>3 DEF States
  <2> HIDE DEF r
  <2>5. Here(a, o)' = r
    <3>1. r.crit <=> a \in crit' BY <1>5, <1>7, <2>4 DEF SetStep
    <3>2. saved' = saved /\ holder' = holder BY <1>7 DEF SetStep
    <3>3. r.held = {l \in Locks : holder'[l] = a} BY <1>4, <2>4, <3>2
    <3>4. r.saved = saved'[a] BY <1>4, <2>4, <3>2
    <3> QED BY <1>4, <2>3, <2>4, <3>1, <3>3, <3>4, HereNext
  <2>6. OthersSame(a) BY <1>7 DEF SetStep, OthersSame
  <2> QED BY <1>7, <2>2, <2>5, <2>6 DEF SetStep
<1>8. ASSUME ScopeStep(a) PROVE Moves
  <2>1. x[1] = "scope" BY <1>8 DEF ScopeStep, At, x
  <2> DEFINE r == [s EXCEPT !.crit = x[2], !.saved = Append(s.saved, s.crit)]
  <2>2. <<<<>>, r>> \in After(x, s) BY <2>1 DEF After
  <2>3. r \in States BY <1>3, <2>2
  <2>4. /\ r.crit = x[2] /\ r.saved = Append(s.saved, s.crit) /\ r.held = s.held
        /\ r.own = s.own /\ x[2] \in BOOLEAN
    BY <1>2, <2>3 DEF States
  <2> HIDE DEF r
  <2>5. Here(a, o)' = r
    <3>1. r.crit <=> a \in crit' BY <1>5, <1>8, <2>4 DEF ScopeStep
    <3>2. saved'[a] = Append(saved[a], a \in crit) /\ holder' = holder
      BY <1>6, <1>8 DEF ScopeStep
    <3>3. r.saved = saved'[a] BY <1>4, <2>4, <3>2
    <3>4. r.held = {l \in Locks : holder'[l] = a} BY <1>4, <2>4, <3>2
    <3> QED BY <1>4, <2>3, <2>4, <3>1, <3>3, <3>4, HereNext
  <2>6. OthersSame(a) BY <1>6, <1>8 DEF ScopeStep, OthersSame
  <2> QED BY <1>8, <2>2, <2>5, <2>6 DEF ScopeStep
<1>9. ASSUME LeaveStep(a) PROVE Moves
  <2>1. x[1] = "leave" BY <1>9 DEF LeaveStep, At, x
  <2> DEFINE r == [s EXCEPT !.crit = Last(s.saved), !.saved = Front(s.saved)]
  <2>2. <<<<>>, r>> \in After(x, s) BY <2>1 DEF After
  <2>3. r \in States BY <1>3, <2>2
  <2>4. /\ r.crit = Last(s.saved) /\ r.saved = Front(s.saved) /\ r.held = s.held
        /\ r.own = s.own /\ Last(s.saved) \in BOOLEAN
    BY <1>2, <2>3 DEF States
  <2> HIDE DEF r
  <2>5. Here(a, o)' = r
    <3>1. r.crit <=> a \in crit' BY <1>4, <1>9, <2>4 DEF LeaveStep
    <3>2. saved'[a] = Front(saved[a]) /\ holder' = holder BY <1>6, <1>9 DEF LeaveStep
    <3>3. r.held = {l \in Locks : holder'[l] = a} BY <1>4, <2>4, <3>2
    <3>4. r.saved = saved'[a] BY <1>4, <2>4, <3>2
    <3> QED BY <1>4, <2>3, <2>4, <3>1, <3>3, <3>4, HereNext
  <2>6. OthersSame(a) BY <1>6, <1>9 DEF LeaveStep, OthersSame
  <2> QED BY <1>9, <2>2, <2>5, <2>6 DEF LeaveStep
<1>10. ASSUME AssertStep(a) \/ EitherStep(a) PROVE Moves
  <2>1. PICK path : GoOn(a, path) /\ <<path, s>> \in After(x, s)
    <3>1. CASE AssertStep(a)
      <4>1. x[1] = "assert" BY <3>1 DEF AssertStep, At, x
      <4>2. <<<<>>, s>> \in After(x, s) BY <4>1 DEF After
      <4> QED BY <3>1, <4>2 DEF AssertStep
    <3>2. CASE EitherStep(a)
      <4>1. x[1] = "either" BY <3>2 DEF EitherStep, At, x
      <4>2. PICK path \in x[2] : GoOn(a, path) BY <1>5, <3>2 DEF EitherStep
      <4>3. <<path, s>> \in After(x, s) BY <4>1 DEF After
      <4> QED BY <4>2, <4>3
    <3> QED BY <1>10, <3>1, <3>2
  <2>2. UNCHANGED <<crit, saved, holder>> BY <1>10 DEF AssertStep, EitherStep
  <2>3. Here(a, o)' = s BY <1>2, <1>4, <2>2, HereNow
  <2>4. OthersSame(a) BY <2>2 DEF OthersSame
  <2> QED BY <2>1, <2>3, <2>4
<1>11. ASSUME SeizeStep(a) PROVE Moves
  <2>1. x[1] = "seize" BY <1>11 DEF SeizeStep, At, x
  <2>2. x[2] \in Locks BY <1>2, <2>1 DEF Safe
  <2> DEFINE r == [s EXCEPT !.held = s.held \cup {x[2]}]
  <2>3. <<<<>>, r>> \in After(x, s) BY <2>1 DEF After
  <2>4. r \in States BY <1>3, <2>3
  <2>5. /\ r.crit = s.crit /\ r.saved = s.saved /\ r.held = s.held \cup {x[2]} /\ r.own = s.own
    BY <1>2 DEF States
  <2> HIDE DEF r
  <2>6. holder' = [holder EXCEPT ![x[2]] = a] /\ holder[x[2]] = None
        /\ UNCHANGED <<crit, saved>>
    BY <1>5, <1>11 DEF SeizeStep
  <2>7. {l \in Locks : holder'[l] = a} = s.held \cup {x[2]} BY <1>4, <1>6, <2>2, <2>6
  <2>8. Here(a, o)' = r BY <1>4, <2>4, <2>5, <2>6, <2>7, HereNow
  <2>9. OthersSame(a)
    BY <1>6, <2>2, <2>6, CriticalSectionsAssumption DEF OthersSame, Actors
  <2> QED BY <1>11, <2>3, <2>8, <2>9 DEF SeizeStep
<1>12. ASSUME TakeStep(a) PROVE Moves
  <2>1. x[1] = "take" BY <1>12 DEF TakeStep, At, x
  <2>2. x[2] \in Locks BY <1>2, <2>1 DEF Safe, Locks
  <2> DEFINE r == [s EXCEPT !.held = s.held \cup {x[2]}]
  <2>3. <<x[3], r>> \in After(x, s) /\ <<x[4], s>> \in After(x, s) BY <2>1 DEF After
  <2>4. r \in States BY <1>3, <2>3
  <2>5. /\ r.crit = s.crit /\ r.saved = s.saved /\ r.held = s.held \cup {x[2]} /\ r.own = s.own
    BY <1>2 DEF States
  <2> HIDE DEF r
  <2>6. UNCHANGED <<crit, saved>> BY <1>12 DEF TakeStep
  <2>7. CASE GoOn(a, x[3]) /\ holder' = [holder EXCEPT ![x[2]] = a] /\ holder[x[2]] = None
    <3>1. {l \in Locks : holder'[l] = a} = s.held \cup {x[2]} BY <1>4, <1>6, <2>2, <2>7
    <3>2. Here(a, o)' = r BY <1>4, <2>4, <2>5, <2>6, <3>1, HereNow
    <3>3. OthersSame(a)
      BY <1>6, <2>2, <2>6, <2>7, CriticalSectionsAssumption DEF OthersSame, Actors
    <3> QED BY <2>3, <2>7, <3>2, <3>3
  <2>8. CASE GoOn(a, x[4]) /\ holder' = holder
    <3>1. Here(a, o)' = s BY <1>2, <1>4, <2>6, <2>8, HereNow
    <3>2. OthersSame(a) BY <2>6, <2>8 DEF OthersSame
    <3> QED BY <2>3, <2>8, <3>1, <3>2
  <2> QED BY <1>5, <1>12, <2>7, <2>8 DEF TakeStep, x
<1>13. ASSUME ReleaseStep(a) PROVE Moves
  <2>1. x[1] = "release" BY <1>13 DEF ReleaseStep, At, x
  <2>2. x[2] \in s.held BY <1>2, <2>1 DEF Safe
  <2>3. x[2] \in Locks /\ holder[x[2]] = a BY <1>4, <2>2
  <2> DEFINE r == [s EXCEPT !.held = s.held \ {x[2]}]
  <2>4. <<<<>>, r>> \in After(x, s) BY <2>1 DEF After
  <2>5. r \in States BY <1>3, <2>4
  <2>6. /\ r.crit = s.crit /\ r.saved = s.saved /\ r.held = s.held \ {x[2]} /\ r.own = s.own
    BY <1>2 DEF States
  <2> HIDE DEF r
  <2>7. holder' = [holder EXCEPT ![x[2]] = None] /\ UNCHANGED <<crit, saved>>
    BY <1>5, <1>13 DEF ReleaseStep
  <2>8. {l \in Locks : holder'[l] = a} = s.held \ {x[2]}
    BY <1>4, <1>6, <2>3, <2>7, CriticalSectionsAssumption DEF Actors
  <2>9. Here(a, o)' = r BY <1>4, <2>5, <2>6, <2>7, <2>8, HereNow
  <2>10. OthersSame(a)
    BY <1>6, <2>3, <2>7, CriticalSectionsAssumption DEF OthersSame, Actors
  <2> QED BY <1>13, <2>4, <2>9, <2>10 DEF ReleaseStep
<1>14. ASSUME Return(a) PROVE Moves
  <2>1. x[1] = "return" BY <1>14 DEF Return, At, x
  <2> DEFINE r == [s EXCEPT !.crit = FALSE]
  <2>2. <<<<>>, r>> \in After(x, s) BY <2>1 DEF After
  <2>3. r \in States BY <1>3, <2>2
  <2>4. r.crit = FALSE /\ r.saved = s.saved /\ r.held = s.held /\ r.own = s.own
    BY <1>2 DEF States
  <2> HIDE DEF r
  <2>5. Here(a, o)' = r
    <3>1. r.crit <=> a \in crit' BY <1>14, <2>4 DEF Return
    <3>2. saved' = saved /\ holder' = holder BY <1>14 DEF Return
    <3>3. r.held = {l \in Locks : holder'[l] = a} BY <1>4, <2>4, <3>2
    <3>4. r.saved = saved'[a] BY <1>4, <2>4, <3>2
    <3> QED BY <1>4, <2>3, <2>4, <3>1, <3>3, <3>4, HereNext
  <2>6. OthersSame(a) BY <1>14 DEF Return, OthersSame
  <2> QED BY <1>14, <2>2, <2>5, <2>6 DEF Return
<1>15. Moves
  BY <1>7, <1>8, <1>9, <1>10, <1>11, <1>12, <1>13, <1>14 DEF Step
<1>16. PICK n \in After(x, s) : GoOn(a, n[1]) /\ Here(a, o)' = n[2] BY <1>15
<1>17. todo' = [todo EXCEPT ![a] = n[1] \o rest] /\ Ends(n[1] \o rest, Here(a, o)', R)
  BY <1>2, <1>16 DEF GoOn
<1>18. UNCHANGED <<kind, on, running>>
  BY DEF Step, SetStep, ScopeStep, LeaveStep, AssertStep, EitherStep, SeizeStep, TakeStep,
         ReleaseStep, Return
<1>19. Here(a, o)' \in States BY <1>3, <1>16
<1>20. Shape'
  <2>1. crit' \subseteq Actors
    BY DEF Shape, Step, SetStep, ScopeStep, LeaveStep, AssertStep, EitherStep, SeizeStep,
           TakeStep, ReleaseStep, Return
  <2>2. holder' \in [Locks -> Actors \cup {None}]
    BY <1>6 DEF Step, SetStep, ScopeStep, LeaveStep, AssertStep, EitherStep, SeizeStep,
           TakeStep, ReleaseStep, Return
  <2>3. saved'[a] \in Seq(BOOLEAN) BY <1>19 DEF Here, States
  <2>4. \E v : saved' = [saved EXCEPT ![a] = v]
    <3>1. CASE saved' = saved
      <4>1. saved' = [saved EXCEPT ![a] = saved[a]] BY <1>6, <3>1
      <4> QED BY <4>1
    <3>2. CASE ScopeStep(a) BY <3>2 DEF ScopeStep
    <3>3. CASE LeaveStep(a) BY <3>3 DEF LeaveStep
    <3> QED BY <3>1, <3>2, <3>3
        DEF Step, SetStep, AssertStep, EitherStep, SeizeStep, TakeStep, ReleaseStep, Return
  <2>5. saved' \in [Actors -> Seq(BOOLEAN)] BY <1>6, <2>3, <2>4
  <2>6. todo' = [b \in Actors |-> todo'[b]] BY <1>17 DEF Shape
  <2> QED BY <1>18, <2>1, <2>2, <2>5, <2>6 DEF Shape
<1> QED BY <1>15, <1>17, <1>18, <1>20

-----------------------------------------------------------------------------
(* It holds at first, and a step on a path preserves it.                   *)

\* A path that ends in one of some states ends in one of more.
LEMMA EndsMore ==
  ASSUME NEW p, NEW s, NEW R, NEW Q, R \subseteq Q, Ends(p, s, R)
  PROVE  Ends(p, s, Q)
BY DEF Ends, Sound

\* The states of CPUs and threads between their paths.
LEMMA StateFields ==
  /\ Outside \in States /\ Waiting \in States /\ Scanning \in States /\ Over \in States
  /\ Outside.crit = FALSE /\ Outside.saved = <<>> /\ Outside.held = {} /\ Outside.own = {}
  /\ Waiting.crit = TRUE /\ Waiting.saved = <<>> /\ Waiting.held = {} /\ Waiting.own = {}
  /\ Scanning.crit = TRUE /\ Scanning.saved = <<>> /\ Scanning.held = {Scheduler}
  /\ Scanning.own = {} /\ Over.own = {None}
  /\ \A t \in Threads :
       /\ Resuming(t) \in States /\ Deciding(t) \in States
       /\ Resuming(t).crit = TRUE /\ Resuming(t).saved = <<>> /\ Resuming(t).held = {}
       /\ Resuming(t).own = {t}
       /\ Deciding(t).crit = TRUE /\ Deciding(t).saved = <<>>
       /\ Deciding(t).held = {Scheduler} /\ Deciding(t).own = {t}
BY SwitchStates
   DEF Outside, Waiting, Scanning, Over, Resuming, Deciding, Free, Open, Closed, Unlocked

\* What an actor has in hand is no part of what others see.
LEMMA HereFields ==
  ASSUME NEW a, NEW o
  PROVE  /\ Here(a, o).crit = (a \in crit) /\ Here(a, o).saved = saved[a]
         /\ Here(a, o).held = {l \in Locks : holder[l] = a} /\ Here(a, o).own = o
BY DEF Here

\* The initial state.
LEMMA InitInv == Init => IInv
<1> SUFFICES ASSUME Init PROVE IInv OBVIOUS
<1> USE CriticalSectionsAssumption DEF Init
<1>1. Shape BY DEF Shape, Actors
<1>2. \A l \in Locks, a \in Actors : holder[l] # a BY DEF Actors
<1>3. ASSUME NEW t \in Threads PROVE Ends(todo[t], Here(t, {}), {Outside})
  <2>1. t \in Actors /\ t \notin crit /\ todo[t] = <<>> /\ saved[t] = <<>> BY DEF Actors
  <2>2. {l \in Locks : holder[l] = t} = {} BY <1>2, <2>1
  <2>3. /\ Outside \in States /\ (Outside.crit <=> t \in crit) /\ Outside.saved = saved[t]
        /\ Outside.held = {l \in Locks : holder[l] = t} /\ Outside.own = {}
    BY <2>1, <2>2, StateFields
  <2>4. Here(t, {}) = Outside BY <2>3, HereIs
  <2> QED BY <2>1, <2>4, StateFields, EndsHere
<1>4. ASSUME NEW c \in Cpus PROVE Ends(todo[c], Here(c, {}), {Waiting, Over})
  <2>1. c \in Actors /\ c \in crit /\ todo[c] = Switch(None) /\ saved[c] = <<>>
    BY DEF Actors
  <2>2. {l \in Locks : holder[l] = c} = {} BY <1>2, <2>1
  <2>3. /\ Waiting \in States /\ (Waiting.crit <=> c \in crit) /\ Waiting.saved = saved[c]
        /\ Waiting.held = {l \in Locks : holder[l] = c} /\ Waiting.own = {}
    BY <2>1, <2>2, StateFields
  <2>4. Here(c, {}) = Waiting BY <2>3, HereIs
  <2> QED BY <2>1, <2>4, SwitchPath, EndsMore
<1>5. CpusRight([c \in Cpus |-> {}]) BY <1>4 DEF CpusRight, Has
<1>6. \A l \in CriticalLocks : holder[l] = None BY DEF CriticalLocks
<1> QED BY <1>1, <1>3, <1>5, <1>6 DEF IInv

\* Whoever is not moved keeps to its path.
LEMMA Unmoved ==
  ASSUME NEW a, NEW b \in Actors \ {a}, OthersSame(a), todo'[b] = todo[b], NEW o, NEW R,
         Ends(todo[b], Here(b, o), R)
  PROVE  Ends(todo'[b], Here(b, o)', R)
BY OthersHere

\* The thread that a CPU runs takes a step on its path.
LEMMA ThreadMoves ==
  ASSUME IInv, NEW c \in Cpus, NEW t \in Threads, on[c] = t,
         NEW p, todo' = [todo EXCEPT ![t] = p], Ends(p, Here(t, {})', {Outside}),
         Shape', OthersSame(t), UNCHANGED <<on, running>>
  PROVE  IInv'
<1> USE CriticalSectionsAssumption
<1>1. PICK own : CpusRight(own) BY DEF IInv
<1>2. Shape /\ t \in Actors BY DEF IInv, Actors
<1>3. Ends(todo'[t], Here(t, {})', {Outside}) BY <1>2 DEF Shape
<1>4. \A b \in Actors \ {t} : todo'[b] = todo[b] BY <1>2 DEF Shape
<1>5. ASSUME NEW u \in Threads PROVE Ends(todo'[u], Here(u, {})', {Outside})
  <2>1. CASE u = t BY <1>3, <2>1
  <2>2. CASE u # t
    <3>1. u \in Actors \ {t} /\ Ends(todo[u], Here(u, {}), {Outside})
      BY <2>2 DEF IInv, Actors
    <3>2. todo'[u] = todo[u] BY <1>4, <3>1
    <3> QED BY <3>1, <3>2, Unmoved
  <2> QED BY <2>1, <2>2
<1>6. \A d \in Cpus : d # t /\ d \in Actors BY DEF Actors
<1>7. \A d \in Cpus : Ends(todo'[d], Here(d, own[d])', {Waiting, Over})
  BY <1>1, <1>4, <1>6, Unmoved DEF CpusRight
<1>8. \A d \in Cpus : on'[d] # None => todo'[d] = <<>>
  BY <1>1, <1>4, <1>6 DEF CpusRight
<1>9. CpusRight(own)' BY <1>1, <1>7, <1>8 DEF CpusRight, Has
<1>10. \A l \in CriticalLocks : holder'[l] \in Threads =>
         holder'[l] = holder[l] \/ holder'[l] = on'[c]
  BY DEF OthersSame, Actors, CriticalLocks
<1> QED BY <1>5, <1>9, <1>10 DEF IInv

\* A step of the thread that a CPU runs, or of Switch.
LEMMA StepInv ==
  ASSUME IInv, NEW c \in Cpus, Step(Current(c))
  PROVE  IInv'
<1> USE CriticalSectionsAssumption
<1>1. PICK own : CpusRight(own) BY DEF IInv
<1>2. CASE on[c] = None
  <2>1. c \in Actors /\ Step(c) BY <1>2 DEF Current, Actors
  <2>2. Ends(todo[c], Here(c, own[c]), {Waiting, Over}) /\ Shape
    BY <1>1 DEF CpusRight, IInv
  <2>3. /\ \E p : todo' = [todo EXCEPT ![c] = p] /\ Ends(p, Here(c, own[c])', {Waiting, Over})
        /\ Shape' /\ OthersSame(c) /\ UNCHANGED <<on, running>>
    BY <2>1, <2>2, LocalStep
  <2>4. Ends(todo'[c], Here(c, own[c])', {Waiting, Over})
    BY <2>1, <2>2, <2>3 DEF Shape
  <2>5. \A b \in Actors \ {c} : todo'[b] = todo[b] BY <2>2, <2>3 DEF Shape
  <2>6. \A t \in Threads : Ends(todo'[t], Here(t, {})', {Outside})
    BY <2>3, <2>5, Unmoved DEF IInv, Actors
  <2>7. \A d \in Cpus : Ends(todo'[d], Here(d, own[d])', {Waiting, Over})
    BY <1>1, <2>3, <2>4, <2>5, Unmoved DEF CpusRight, Actors
  <2>8. CpusRight(own)'
    <3>1. \A d \in Cpus : on'[d] # None => todo'[d] = <<>>
      BY <1>1, <1>2, <2>3, <2>5 DEF CpusRight, Actors
    <3>2. on' = on /\ running' = running BY <2>3
    <3> QED BY <1>1, <2>7, <3>1, <3>2 DEF CpusRight, Has
  <2>9. \A l \in CriticalLocks : holder'[l] \in Threads => holder'[l] = holder[l]
    BY <2>3 DEF OthersSame, Actors, CriticalLocks
  <2> QED BY <2>3, <2>6, <2>8, <2>9 DEF IInv
<1>3. CASE on[c] # None
  <2>1. PICK t \in Threads : on[c] = t BY <1>3 DEF IInv, Shape
  <2>2. t \in Actors /\ Step(t) /\ Ends(todo[t], Here(t, {}), {Outside}) /\ Shape
    BY <1>3, <2>1 DEF Current, Actors, IInv
  <2>3. /\ \E p : todo' = [todo EXCEPT ![t] = p] /\ Ends(p, Here(t, {})', {Outside})
        /\ Shape' /\ OthersSame(t) /\ UNCHANGED <<on, running>>
    BY <2>2, LocalStep
  <2> QED BY <2>1, <2>3, ThreadMoves
<1> QED BY <1>2, <1>3

-----------------------------------------------------------------------------
(* A thread loses its CPU.                                                 *)

\* A CPU whose path is done has nobody in hand.
LEMMA AtRest ==
  ASSUME NEW own, CpusRight(own), NEW c \in Cpus, todo[c] = <<>>
  PROVE  Here(c, own[c]) = Waiting /\ own[c] = {}
<1>1. Here(c, own[c]) \in {Waiting, Over} BY EndsNext DEF CpusRight
<1>2. Here(c, own[c]).own = own[c] /\ own[c] \subseteq Threads BY HereFields DEF CpusRight
<1>3. Here(c, own[c]) # Over BY <1>2, StateFields, CriticalSectionsAssumption
<1> QED BY <1>1, <1>2, <1>3, StateFields

\* With a thread in hand.
LEMMA WithThread ==
  ASSUME NEW a, Here(a, {}) = Waiting, NEW t \in Threads
  PROVE  Here(a, {t}) = Resuming(t)
<1>1. /\ Resuming(t) \in States /\ (Resuming(t).crit <=> a \in crit)
      /\ Resuming(t).saved = saved[a] /\ Resuming(t).held = {l \in Locks : holder[l] = a}
      /\ Resuming(t).own = {t}
  <2>1. Here(a, {}).crit = (a \in crit) /\ Here(a, {}).saved = saved[a]
        /\ Here(a, {}).held = {l \in Locks : holder[l] = a}
    BY HereFields
  <2> QED BY <2>1, StateFields
<1> QED BY <1>1, HereIs

\* A thread that holds no critical lock loses its CPU to Switch.
LEMMA SwitchAway ==
  ASSUME IInv, NEW c \in Cpus, NEW t \in Threads, on[c] = t,
         \A l \in CriticalLocks : holder[l] # t,
         NEW q, todo' = [todo EXCEPT ![c] = Switch(t), ![t] = q],
         Ends(q, Here(t, {})', {Outside}),
         on' = [on EXCEPT ![c] = None], UNCHANGED <<holder, running>>,
         OthersSame(t), Shape'
  PROVE  IInv'
<1> USE CriticalSectionsAssumption
<1>1. PICK own : CpusRight(own) BY DEF IInv
<1>2. Shape BY DEF IInv
<1>3. c # t /\ c \in Actors \ {t} /\ t \in Actors BY DEF Actors
<1>4. todo'[c] = Switch(t) /\ todo'[t] = q /\ \A a \in Actors \ {c, t} : todo'[a] = todo[a]
  <2>1. DOMAIN todo = Actors BY <1>2 DEF Shape
  <2> DEFINE p == Switch(t)
  <2> HIDE DEF p
  <2>2. todo' = [todo EXCEPT ![c] = p, ![t] = q] BY DEF p
  <2>3. todo'[c] = p BY ONLY <1>3, <2>1, <2>2
  <2>4. todo'[t] = q BY ONLY <1>3, <2>1, <2>2
  <2>5. \A a \in Actors \ {c, t} : todo'[a] = todo[a] BY ONLY <1>3, <2>1, <2>2
  <2> QED BY <2>3, <2>4, <2>5 DEF p
<1>5. on[c] # None /\ todo[c] = <<>> BY <1>1 DEF CpusRight
<1>6. Here(c, {}) = Waiting BY <1>1, <1>5, AtRest
<1>7. Here(c, {t})' = Resuming(t) BY <1>3, <1>6, WithThread, OthersHere
<1> DEFINE new == [own EXCEPT ![c] = {t}]
<1>8. own \in [Cpus -> SUBSET Threads] BY <1>1 DEF CpusRight
<1>9. new \in [Cpus -> SUBSET Threads] /\ new[c] = {t} /\ \A d \in Cpus \ {c} : new[d] = own[d]
  BY <1>8
<1> HIDE DEF new
<1>10. ASSUME NEW d \in Cpus
       PROVE  /\ Ends(todo'[d], Here(d, new[d])', {Waiting, Over})
              /\ on'[d] # None => todo'[d] = <<>>
              /\ Has(new, d)' = Has(own, d)
  <2>1. CASE d = c
    <3>1. Ends(Switch(t), Resuming(t), {Waiting, Over}) BY SwitchPath, EndsMore
    <3>2. on'[c] = None BY <1>2 DEF Shape
    <3> QED BY <1>4, <1>5, <1>7, <1>9, <2>1, <3>1, <3>2 DEF Has
  <2>2. CASE d # c
    <3>1. d \in Actors \ {t} /\ d \in Actors \ {c, t} BY <2>2 DEF Actors
    <3>2. todo'[d] = todo[d] /\ on'[d] = on[d] /\ new[d] = own[d]
      BY <1>2, <1>4, <1>9, <2>2, <3>1 DEF Shape
    <3>3. Ends(todo[d], Here(d, own[d]), {Waiting, Over}) BY <1>1 DEF CpusRight
    <3>4. Ends(todo'[d], Here(d, own[d])', {Waiting, Over}) BY <3>1, <3>2, <3>3, Unmoved
    <3>5. on[d] # None => todo[d] = <<>> BY <1>1 DEF CpusRight
    <3> QED BY <3>2, <3>4, <3>5 DEF Has
  <2> QED BY <2>1, <2>2
<1>11. CpusRight(new)' BY <1>1, <1>9, <1>10 DEF CpusRight
<1>12. ASSUME NEW u \in Threads PROVE Ends(todo'[u], Here(u, {})', {Outside})
  <2>1. CASE u = t BY <1>4, <2>1
  <2>2. CASE u # t
    <3>1. u \in Actors \ {t} /\ u \in Actors \ {c, t} BY <2>2 DEF Actors
    <3>2. Ends(todo[u], Here(u, {}), {Outside}) BY DEF IInv
    <3>3. todo'[u] = todo[u] BY <1>4, <3>1
    <3> QED BY <3>1, <3>2, <3>3, Unmoved
  <2> QED BY <2>1, <2>2
<1>13. ASSUME NEW l \in CriticalLocks, holder'[l] \in Threads
       PROVE  \E d \in Cpus : on'[d] = holder'[l]
  <2>1. PICK d \in Cpus : on[d] = holder[l] BY <1>13 DEF IInv
  <2>2. d # c BY <2>1
  <2> QED BY <1>2, <2>1, <2>2 DEF Shape
<1> QED BY <1>11, <1>12, <1>13 DEF IInv

\* A thread that yields keeps to the rest of its path.
LEMMA YieldInv ==
  ASSUME IInv, NEW c \in Cpus, YieldStep(c)
  PROVE  IInv'
<1> USE CriticalSectionsAssumption
<1>1. Shape BY DEF IInv
<1>2. PICK t \in Threads : on[c] = t BY <1>1 DEF YieldStep, Shape
<1>3. todo[t] # <<>> /\ Head(todo[t])[1] = "yield" BY <1>2 DEF YieldStep, At
<1>4. Ends(todo[t], Here(t, {}), {Outside}) BY DEF IInv
<1> DEFINE x == Head(todo[t])
           s == Here(t, {})
<1>5. /\ Safe(x, s)
      /\ \A n \in After(x, s) :
           IsSeq(n[1]) /\ Ends(n[1] \o Tail(todo[t]), n[2], {Outside})
  BY <1>3, <1>4, EndsNext
<1>6. s.held = {l \in Locks : holder[l] = t} BY DEF Here
<1>7. x[1] = "yield" BY <1>3
<1>8. IsSeq(Tail(todo[t])) BY <1>3, <1>4, EndsNext, EmptyPath, Concat
<1> HIDE DEF x, s
<1>9. s.held \cap CriticalLocks = {} /\ After(x, s) = {<<<<>>, s>>}
  BY <1>5, <1>7 DEF Safe, After
<1>10. Ends(Tail(todo[t]), s, {Outside}) BY <1>5, <1>8, <1>9, EmptyPath
<1>11. \A l \in CriticalLocks : holder[l] # t BY <1>6, <1>9 DEF CriticalLocks
<1>12. /\ on' = [on EXCEPT ![c] = None] /\ UNCHANGED <<kind, crit, saved, holder, running>>
       /\ todo' = [todo EXCEPT ![c] = Switch(t), ![t] = Tail(todo[t])]
  BY <1>1, <1>2 DEF YieldStep, Shape, Actors
<1>13. OthersSame(t) BY <1>12 DEF OthersSame
<1>14. Here(t, {})' = s BY <1>12 DEF Here, s
<1>15. Shape' BY <1>1, <1>12 DEF Shape
<1>16. Ends(Tail(todo[t]), Here(t, {})', {Outside}) BY <1>10, <1>14
<1> QED BY <1>2, <1>11, <1>12, <1>13, <1>15, <1>16, SwitchAway

\* A thread that exits is outside the kernel, for good.
LEMMA ExitInv ==
  ASSUME IInv, NEW c \in Cpus, ExitStep(c)
  PROVE  IInv'
<1> USE CriticalSectionsAssumption
<1>1. Shape BY DEF IInv
<1>2. PICK t \in Threads : on[c] = t BY <1>1 DEF ExitStep, Shape
<1>3. todo[t] # <<>> /\ Head(todo[t])[1] = "exit" BY <1>2 DEF ExitStep, At
<1>4. Ends(todo[t], Here(t, {}), {Outside}) BY DEF IInv
<1>5. Safe(Head(todo[t]), Here(t, {})) BY <1>3, <1>4, EndsNext
<1>6. {l \in Locks : holder[l] = t} = {} BY <1>3, <1>5 DEF Safe, Here
<1>7. /\ on' = [on EXCEPT ![c] = None] /\ UNCHANGED <<kind, holder, running>>
      /\ crit' = crit \ {t} /\ saved' = [saved EXCEPT ![t] = <<>>]
      /\ todo' = [todo EXCEPT ![c] = Switch(t), ![t] = <<>>]
  BY <1>2 DEF ExitStep
<1>8. \A l \in CriticalLocks : holder[l] # t BY <1>6 DEF CriticalLocks
<1>9. OthersSame(t) BY <1>1, <1>7 DEF OthersSame, Shape
<1>10. Here(t, {})' = Outside
  <2>1. t \notin crit' /\ saved'[t] = <<>> BY <1>1, <1>7 DEF Shape, Actors
  <2>2. {l \in Locks : holder'[l] = t} = {} BY <1>6, <1>7
  <2>3. /\ Outside \in States /\ (Outside.crit <=> t \in crit')
        /\ Outside.saved = saved'[t] /\ Outside.own = {}
        /\ Outside.held = {l \in Locks : holder'[l] = t}
    BY <2>1, <2>2, StateFields
  <2> QED BY <2>3, HereNext
<1>11. Ends(<<>>, Here(t, {})', {Outside}) BY <1>10, StateFields, EndsHere
<1>12. Shape'
  <2>1. <<>> \in Seq(BOOLEAN) OBVIOUS
  <2>2. saved' \in [Actors -> Seq(BOOLEAN)] BY <1>1, <1>7, <2>1 DEF Shape
  <2>3. on' \in [Cpus -> Threads \cup {None}] BY <1>1, <1>7 DEF Shape
  <2>4. todo' = [a \in Actors |-> todo'[a]] BY <1>1, <1>7 DEF Shape
  <2> QED BY <1>1, <1>7, <2>2, <2>3, <2>4 DEF Shape
<1> QED BY <1>2, <1>7, <1>8, <1>9, <1>11, <1>12, SwitchAway

\* An interrupt takes the CPU from a thread that is not critical, or ends a wait.
LEMMA InterruptInv ==
  ASSUME IInv, NEW c \in Cpus, Interrupt(c)
  PROVE  IInv'
<1> USE CriticalSectionsAssumption
<1>1. Shape BY DEF IInv
<1>2. /\ on' = [on EXCEPT ![c] = None] /\ todo' = [todo EXCEPT ![c] = Switch(on[c])]
      /\ UNCHANGED <<kind, crit, saved, holder, running>>
  BY DEF Interrupt
<1>3. Shape' BY <1>1, <1>2 DEF Shape
<1>4. CASE on[c] # None /\ on[c] \notin crit
  <2>1. PICK t \in Threads : on[c] = t BY <1>1, <1>4 DEF Shape
  <2>2. Ends(todo[t], Here(t, {}), {Outside}) BY DEF IInv
  <2>3. Here(t, {})' = Here(t, {}) BY <1>2 DEF Here
  <2>4. Here(t, {}) \in States BY <2>2, EndsNext
  <2>5. /\ Here(t, {}).crit = (t \in crit)
        /\ Here(t, {}).held = {l \in Locks : holder[l] = t}
    BY HereFields
  <2>6. Here(t, {}).held \cap CriticalLocks = {} BY <1>4, <2>1, <2>4, <2>5 DEF States
  <2>7. \A l \in CriticalLocks : holder[l] # t BY <2>5, <2>6 DEF CriticalLocks
  <2>8. todo' = [todo EXCEPT ![c] = Switch(t), ![t] = todo[t]]
    <3>1. todo = [a \in Actors |-> todo[a]] BY <1>1 DEF Shape
    <3>2. c # t BY <2>1 DEF CriticalSectionsAssumption
    <3>3. todo' = [todo EXCEPT ![c] = Switch(t)] BY <1>2, <2>1
    <3> QED BY ONLY <3>1, <3>2, <3>3
  <2>9. OthersSame(t) BY <1>2 DEF OthersSame
  <2>10. Ends(todo[t], Here(t, {})', {Outside}) BY <2>2, <2>3
  <2> QED BY <1>2, <1>3, <2>1, <2>7, <2>8, <2>9, <2>10, SwitchAway
<1>5. CASE on[c] = None /\ todo[c] = <<>>
  <2>1. PICK own : CpusRight(own) BY DEF IInv
  <2>2. Here(c, own[c]) = Waiting /\ own[c] = {} BY <1>5, <2>1, AtRest
  <2>3. \A a, o : Here(a, o)' = Here(a, o) BY <1>2 DEF Here
  <2>4. todo'[c] = Switch(None) /\ (\A a \in Actors \ {c} : todo'[a] = todo[a]) /\ on' = on
    BY <1>1, <1>2, <1>5 DEF Shape, Actors
  <2>5. Ends(Switch(None), Waiting, {Waiting, Over}) BY SwitchPath, EndsMore
  <2>6. \A d \in Cpus : Ends(todo'[d], Here(d, own[d])', {Waiting, Over})
    BY <2>1, <2>2, <2>3, <2>4, <2>5 DEF CpusRight, Actors
  <2>7. \A d \in Cpus : on'[d] # None => todo'[d] = <<>>
    BY <1>5, <2>1, <2>4 DEF CpusRight, Actors
  <2>8. \A d \in Cpus : Has(own, d)' = Has(own, d) BY <2>4 DEF Has
  <2>9. CpusRight(own)' BY <1>2, <2>1, <2>6, <2>7, <2>8 DEF CpusRight
  <2>10. \A t \in Threads : Ends(todo'[t], Here(t, {})', {Outside})
    BY <2>3, <2>4 DEF IInv, Actors
  <2>11. \A l \in CriticalLocks : holder'[l] \in Threads => \E d \in Cpus : on'[d] = holder'[l]
    BY <1>2, <2>4 DEF IInv
  <2> QED BY <1>3, <2>9, <2>10, <2>11 DEF IInv
<1> QED BY <1>4, <1>5 DEF Interrupt

-----------------------------------------------------------------------------
(* The steps of Switch.                                                    *)

\* The same, for equal truth values.
LEMMA HereEqual ==
  ASSUME NEW r \in States, NEW a, NEW o, r.crit = (a \in crit), r.saved = saved[a],
         r.held = {l \in Locks : holder[l] = a}, r.own = o
  PROVE  Here(a, o) = r
BY HereIs

\* A step of Switch that decides whom its CPU has in hand, or has it run.
LEMMA SwitchMove ==
  ASSUME IInv, NEW own, CpusRight(own), NEW c \in Cpus, todo[c] # <<>>,
         NEW p, todo' = [todo EXCEPT ![c] = p],
         NEW o \in SUBSET Threads, Ends(p, Here(c, o), {Waiting, Over}),
         NEW b \in Threads \cup {None}, on' = [on EXCEPT ![c] = b], b # None => p = <<>>,
         UNCHANGED <<kind, crit, saved, holder>>, running' \subseteq Threads,
         NEW h, h = (IF b = None THEN o ELSE {b}), h \subseteq running',
         \A d \in Cpus \ {c} : Has(own, d) \subseteq running' /\ Has(own, d) \cap h = {}
  PROVE  IInv'
<1> USE CriticalSectionsAssumption
<1>1. Shape BY DEF IInv
<1>2. c \in Actors /\ Cpus \subseteq Actors /\ Threads \subseteq Actors /\ c \notin Threads
  BY DEF Actors
<1>3. DOMAIN todo = Actors /\ DOMAIN on = Cpus BY <1>1 DEF Shape
<1>4. todo'[c] = p /\ \A a \in Actors \ {c} : todo'[a] = todo[a] BY <1>2, <1>3
<1>5. on'[c] = b /\ \A d \in Cpus \ {c} : on'[d] = on[d] BY <1>3
<1>6. \A a, x : Here(a, x)' = Here(a, x) BY DEF Here
<1> DEFINE new == [own EXCEPT ![c] = o]
<1>7. own \in [Cpus -> SUBSET Threads] BY DEF CpusRight
<1>8. new \in [Cpus -> SUBSET Threads] /\ new[c] = o /\ \A d \in Cpus \ {c} : new[d] = own[d]
  BY <1>7
<1> HIDE DEF new
<1>9. ASSUME NEW d \in Cpus
      PROVE  /\ Ends(todo'[d], Here(d, new[d])', {Waiting, Over})
             /\ on'[d] # None => todo'[d] = <<>>
             /\ Has(new, d)' = (IF d = c THEN h ELSE Has(own, d))
             /\ Has(new, d)' \subseteq running'
  <2>1. CASE d = c
    <3>1. Has(new, d)' = h BY <1>5, <1>8, <2>1 DEF Has
    <3> QED BY <1>4, <1>5, <1>6, <1>8, <2>1, <3>1
  <2>2. CASE d # c
    <3>1. todo'[d] = todo[d] /\ on'[d] = on[d] /\ new[d] = own[d]
      BY <1>2, <1>4, <1>5, <1>8, <2>2
    <3>2. Ends(todo[d], Here(d, own[d]), {Waiting, Over}) /\ (on[d] # None => todo[d] = <<>>)
      BY DEF CpusRight
    <3>3. Has(new, d)' = Has(own, d) BY <3>1 DEF Has
    <3> QED BY <1>6, <2>2, <3>1, <3>2, <3>3
  <2> QED BY <2>1, <2>2
<1>10. ASSUME NEW d \in Cpus, NEW e \in Cpus, d # e
       PROVE  Has(new, d)' \cap Has(new, e)' = {}
  <2>1. Has(own, d) \cap Has(own, e) = {} BY <1>10 DEF CpusRight
  <2> QED BY <1>9, <1>10, <2>1
<1>11. CpusRight(new)' BY <1>8, <1>9, <1>10 DEF CpusRight
<1>12. \A t \in Threads : Ends(todo'[t], Here(t, {})', {Outside})
  BY <1>2, <1>4, <1>6 DEF IInv
<1>13. on[c] = None BY DEF CpusRight
<1>14. \A l \in CriticalLocks : holder'[l] \in Threads => \E d \in Cpus : on'[d] = holder'[l]
  <2>1. SUFFICES ASSUME NEW l \in CriticalLocks, holder[l] \in Threads
                 PROVE  \E d \in Cpus : on'[d] = holder[l]
    OBVIOUS
  <2>2. PICK d \in Cpus : on[d] = holder[l] BY <2>1 DEF IInv
  <2>3. d # c BY <1>13, <2>1, <2>2
  <2> QED BY <1>5, <2>2, <2>3
<1>15. Shape'
  <2>1. todo' = [a \in Actors |-> todo'[a]] BY <1>3
  <2>2. on' \in [Cpus -> Threads \cup {None}] BY <1>1 DEF Shape
  <2> QED BY <1>1, <2>1, <2>2 DEF Shape
<1> QED BY <1>11, <1>12, <1>14, <1>15 DEF IInv

\* The step that a CPU takes next, and what is left of its path.
LEMMA SwitchNext ==
  ASSUME IInv, NEW own, CpusRight(own), NEW c \in Cpus, todo[c] # <<>>,
         NEW x, x = Head(todo[c]), NEW p, p = Tail(todo[c])
  PROVE  /\ Here(c, own[c]) \in States /\ Safe(x, Here(c, own[c])) /\ IsSeq(p)
         /\ \A n \in After(x, Here(c, own[c])) :
              IsSeq(n[1]) /\ Ends(n[1] \o p, n[2], {Waiting, Over})
         /\ At(c, x[1]) /\ Arg(c) = x[2] /\ on[c] = None
         /\ GoOn(c, <<>>) => todo' = [todo EXCEPT ![c] = p]
<1>1. Ends(todo[c], Here(c, own[c]), {Waiting, Over}) BY DEF CpusRight
<1>2. IsSeq(p) BY <1>1, EndsNext, EmptyPath, Concat
<1>3. <<>> \o p = p BY <1>2, EmptyPath
<1>4. on[c] = None BY DEF CpusRight
<1> QED BY <1>1, <1>2, <1>3, <1>4, EndsNext DEF At, Arg, GoOn

\* Switch gives up the thread it had in hand: another CPU may take it.
LEMMA ResignInv ==
  ASSUME IInv, NEW c \in Cpus, ResignStep(c)
  PROVE  IInv'
<1> USE CriticalSectionsAssumption
<1>1. Shape /\ todo[c] # <<>> /\ Head(todo[c])[1] = "resign" BY DEF IInv, ResignStep, At
<1>2. PICK own : CpusRight(own) BY DEF IInv
<1>3. PICK x, p : x = Head(todo[c]) /\ p = Tail(todo[c]) OBVIOUS
<1>4. PICK t : t = x[2] OBVIOUS
<1> DEFINE s == Here(c, own[c])
           r == [s EXCEPT !.own = {}]
<1>5. /\ s \in States /\ Safe(x, s) /\ IsSeq(p) /\ Arg(c) = t /\ on[c] = None
      /\ \A n \in After(x, s) : IsSeq(n[1]) /\ Ends(n[1] \o p, n[2], {Waiting, Over})
      /\ GoOn(c, <<>>) => todo' = [todo EXCEPT ![c] = p]
  BY <1>1, <1>2, <1>3, <1>4, SwitchNext
<1>6. /\ s.crit = (c \in crit) /\ s.saved = saved[c] /\ s.own = own[c]
      /\ s.held = {l \in Locks : holder[l] = c}
  BY HereFields
<1>7. x[1] = "resign" BY <1>1, <1>3
<1> HIDE DEF s
<1>8. own[c] = {t} /\ After(x, s) = {<<<<>>, r>>}
  BY <1>4, <1>5, <1>6, <1>7 DEF Safe, After
<1>9. r.crit = s.crit /\ r.saved = s.saved /\ r.held = s.held /\ r.own = {} /\ r \in States
  BY <1>5 DEF States
<1> HIDE DEF r
<1>10. Here(c, {}) = r
  <2>1. /\ r \in States /\ r.crit = (c \in crit) /\ r.saved = saved[c] /\ r.own = {}
        /\ r.held = {l \in Locks : holder[l] = c}
    BY ONLY <1>6, <1>9
  <2> QED BY ONLY <2>1, HereEqual
<1>11. Ends(p, Here(c, {}), {Waiting, Over})
  <2>1. PICK n : n = <<<<>>, r>> OBVIOUS
  <2>2. n \in After(x, s) /\ n[1] = <<>> /\ n[2] = r BY <1>8, <2>1
  <2>3. Ends(n[1] \o p, n[2], {Waiting, Over}) BY ONLY <1>5, <2>2
  <2>4. <<>> \o p = p BY ONLY <1>5, EmptyPath
  <2> QED BY ONLY <1>10, <2>2, <2>3, <2>4
<1>12. /\ todo' = [todo EXCEPT ![c] = p] /\ running' = running \ {t}
       /\ UNCHANGED <<kind, crit, saved, holder, on>>
  BY <1>5 DEF ResignStep
<1>13. on' = [on EXCEPT ![c] = None] BY <1>1, <1>5, <1>12 DEF Shape
<1>14. Has(own, c) = {t} BY <1>5, <1>8 DEF Has
<1>15. \A d \in Cpus \ {c} : Has(own, d) \subseteq running' /\ Has(own, d) \cap {} = {}
  BY <1>2, <1>12, <1>14 DEF CpusRight
<1>16. running' \subseteq Threads BY <1>1, <1>12 DEF Shape
<1>17. /\ {} \in SUBSET Threads /\ None \in Threads \cup {None} /\ (None # None => p = <<>>)
       /\ {} = (IF None = None THEN {} ELSE {None}) /\ {} \subseteq running'
       /\ UNCHANGED <<kind, crit, saved, holder>>
  BY <1>12
<1> QED BY ONLY IInv, <1>1, <1>2, <1>11, <1>12, <1>13, <1>15, <1>16, <1>17, SwitchMove

\* The thread in hand gets the CPU.
LEMMA ResumeInv ==
  ASSUME IInv, NEW c \in Cpus, ResumeStep(c)
  PROVE  IInv'
<1> USE CriticalSectionsAssumption
<1>1. Shape /\ todo[c] # <<>> /\ Head(todo[c])[1] = "resume" BY DEF IInv, ResumeStep, At
<1>2. PICK own : CpusRight(own) BY DEF IInv
<1>3. PICK x, p : x = Head(todo[c]) /\ p = Tail(todo[c]) OBVIOUS
<1>4. PICK t : t = x[2] OBVIOUS
<1> DEFINE s == Here(c, own[c])
<1>5. /\ s \in States /\ Safe(x, s) /\ IsSeq(p) /\ Arg(c) = t /\ on[c] = None
      /\ \A n \in After(x, s) : IsSeq(n[1]) /\ Ends(n[1] \o p, n[2], {Waiting, Over})
      /\ GoOn(c, <<>>) => todo' = [todo EXCEPT ![c] = p]
  BY <1>1, <1>2, <1>3, <1>4, SwitchNext
<1>6. /\ s.crit = (c \in crit) /\ s.saved = saved[c] /\ s.own = own[c]
      /\ s.held = {l \in Locks : holder[l] = c}
  BY HereFields
<1>7. x[1] = "resume" BY <1>1, <1>3
<1> HIDE DEF s
<1>8. t \in Threads /\ s = Resuming(t) /\ After(x, s) = {<<<<>>, Over>>}
  BY <1>4, <1>5, <1>7 DEF Safe, After
<1>9. Ends(p, Over, {Waiting, Over}) BY <1>5, <1>8, EmptyPath
<1>10. p = <<>>
  <2>1. SUFFICES ASSUME p # <<>> PROVE FALSE OBVIOUS
  <2>2. Safe(Head(p), Over) BY <1>9, <2>1, EndsNext
  <2> QED BY <2>2, StateFields DEF Safe
<1>11. own[c] = {t} BY <1>6, <1>8, StateFields
<1>12. Here(c, {}) = Waiting
  <2>1. s.crit = TRUE /\ s.saved = <<>> /\ s.held = {} BY <1>8, StateFields
  <2>2. /\ Waiting \in States /\ (Waiting.crit <=> c \in crit) /\ Waiting.saved = saved[c]
        /\ Waiting.held = {l \in Locks : holder[l] = c} /\ Waiting.own = {}
    BY <1>6, <2>1, StateFields
  <2> QED BY <2>2, HereIs
<1>13. Ends(p, Here(c, {}), {Waiting, Over}) BY <1>10, <1>12, StateFields, EndsHere
<1>14. /\ todo' = [todo EXCEPT ![c] = p] /\ on' = [on EXCEPT ![c] = t]
       /\ UNCHANGED <<kind, crit, saved, holder, running>>
  BY <1>5 DEF ResumeStep
<1>15. Has(own, c) = {t} BY <1>5, <1>11 DEF Has
<1>16. \A d \in Cpus \ {c} : Has(own, d) \subseteq running' /\ Has(own, d) \cap {t} = {}
  BY <1>2, <1>14, <1>15 DEF CpusRight
<1>17. {t} \subseteq running' /\ running' \subseteq Threads
  BY <1>1, <1>2, <1>14, <1>15 DEF Shape, CpusRight
<1>18. {t} = (IF t = None THEN {} ELSE {t}) BY <1>8
<1>19. /\ {} \in SUBSET Threads /\ t \in Threads \cup {None} /\ (t # None => p = <<>>)
       /\ UNCHANGED <<kind, crit, saved, holder>>
  BY <1>8, <1>10, <1>14
<1> QED BY ONLY IInv, <1>1, <1>2, <1>13, <1>14, <1>16, <1>17, <1>18, <1>19, SwitchMove

\* The loop of Switch passes over a thread, takes one, or takes none.
LEMMA ScanInv ==
  ASSUME IInv, NEW c \in Cpus, ScanStep(c)
  PROVE  IInv'
<1> USE CriticalSectionsAssumption
<1>1. Shape /\ todo[c] # <<>> /\ Head(todo[c])[1] = "scan" BY DEF IInv, ScanStep, At
<1>2. PICK own : CpusRight(own) BY DEF IInv
<1>3. PICK x, p : x = Head(todo[c]) /\ p = Tail(todo[c]) OBVIOUS
<1> DEFINE s == Here(c, own[c])
           R == {Waiting, Over}
<1>4. /\ s \in States /\ Safe(x, s) /\ IsSeq(p) /\ on[c] = None
      /\ \A n \in After(x, s) : IsSeq(n[1]) /\ Ends(n[1] \o p, n[2], R)
      /\ Ends(todo[c], s, R)
  BY <1>1, <1>2, <1>3, SwitchNext DEF CpusRight
<1>5. /\ s.crit = (c \in crit) /\ s.saved = saved[c] /\ s.own = own[c]
      /\ s.held = {l \in Locks : holder[l] = c}
  BY HereFields
<1>6. x[1] = "scan" BY <1>1, <1>3
<1> HIDE DEF s, R
<1>7. s = Scanning /\ After(x, s) = {<<<<>>, Over>>} BY <1>4, <1>6 DEF Safe, After
<1>8. Ends(p, Over, R) BY <1>4, <1>7, EmptyPath
<1>9. p = <<>>
  <2>1. SUFFICES ASSUME p # <<>> PROVE FALSE OBVIOUS
  <2>2. Safe(Head(p), Over) BY <1>8, <2>1, EndsNext
  <2> QED BY <2>2, StateFields DEF Safe
<1>10. own[c] = {} /\ s.crit = TRUE /\ s.saved = <<>> /\ s.held = {Scheduler}
  BY <1>5, <1>7, StateFields
<1>11. Here(c, {}) = Scanning BY <1>7, <1>10 DEF s
<1>12. on' = [on EXCEPT ![c] = None] /\ UNCHANGED <<kind, crit, saved, holder>>
  BY <1>1, <1>4 DEF ScanStep, Shape
<1>13. Has(own, c) = {} BY <1>4, <1>10 DEF Has
<1>14. \A d \in Cpus : Has(own, d) \subseteq running BY <1>2 DEF CpusRight
\* Nobody is taken.
<1>15. ASSUME NEW q, Ends(q, Scanning, R), todo' = [todo EXCEPT ![c] = q], running' = running
       PROVE  IInv'
  <2>1. /\ {} \in SUBSET Threads /\ None \in Threads \cup {None} /\ (None # None => q = <<>>)
        /\ {} = (IF None = None THEN {} ELSE {None}) /\ {} \subseteq running'
        /\ Ends(q, Here(c, {}), {Waiting, Over}) /\ running' \subseteq Threads
        /\ \A d \in Cpus \ {c} : Has(own, d) \subseteq running' /\ Has(own, d) \cap {} = {}
    BY <1>1, <1>11, <1>14, <1>15 DEF R, Shape
  <2> QED BY ONLY IInv, <1>1, <1>2, <1>12, <1>15, <2>1, SwitchMove
<1>16. ASSUME NEW t \in Threads, running' = running,
              todo' = [todo EXCEPT ![c] = Maybe(Retain(t) \o Release(t)) \o todo[c]]
       PROVE  IInv'
  <2>1. Free(4) \in SUBSET States /\ \A r \in Free(4) : r.own \subseteq Threads BY DEF Free
  <2>2. Keeps(Maybe(Retain(t) \o Release(t)), Free(4))
    BY <2>1, ThreadCounters, KeepsBoth, KeepsMaybe
  <2>3. Ends(Maybe(Retain(t) \o Release(t)), Scanning, {Scanning})
    BY <2>2, SwitchStates DEF Keeps
  <2>4. Ends(Maybe(Retain(t) \o Release(t)) \o todo[c], Scanning, R)
    BY <1>4, <1>7, <2>3, Compose
  <2> QED BY <1>15, <1>16, <2>4
<1>17. ASSUME GoOn(c, Unlock(Scheduler)), running' = running PROVE IInv'
  <2>1. Ends(<<>>, Waiting, R) BY StateFields, EndsHere DEF R
  <2>2. Ends(Unlock(Scheduler) \o p, Scanning, R) BY <1>9, <2>1, ScanPaths, Compose
  <2>3. todo' = [todo EXCEPT ![c] = Unlock(Scheduler) \o p] BY <1>3, <1>17 DEF GoOn
  <2> QED BY <1>15, <1>17, <2>2, <2>3
<1>18. ASSUME NEW t \in Threads, t \notin running, running' = running \cup {t},
              GoOn(c, Retain(t) \o Unlock(Scheduler) \o <<<<"resume", t>>>>)
       PROVE  IInv'
  <2> DEFINE q == Retain(t) \o Unlock(Scheduler) \o <<<<"resume", t>>>>
             new == q \o p
  <2>1. Ends(q, Deciding(t), {Over}) BY ScanPaths
  <2>2. todo' = [todo EXCEPT ![c] = new] BY <1>3, <1>18 DEF GoOn
  <2> HIDE DEF q
  <2>3. Ends(new, Deciding(t), R) BY <1>8, <2>1, Compose
  <2>4. Here(c, {t}) = Deciding(t)
    <3>1. /\ Deciding(t) \in States /\ Deciding(t).crit = TRUE
          /\ Deciding(t).saved = <<>> /\ Deciding(t).own = {t}
          /\ Deciding(t).held = {Scheduler}
      BY ONLY StateFields, t \in Threads
    <3>2. /\ TRUE = (c \in crit) /\ <<>> = saved[c]
          /\ {Scheduler} = {l \in Locks : holder[l] = c}
      BY ONLY <1>5, <1>10
    <3>3. /\ Deciding(t).crit = (c \in crit) /\ Deciding(t).saved = saved[c]
          /\ Deciding(t).held = {l \in Locks : holder[l] = c}
      BY ONLY <3>1, <3>2
    <3> HIDE DEF Deciding
    <3> QED BY ONLY <3>1, <3>3, HereEqual
  <2> HIDE DEF new
  <2>5. /\ {t} \in SUBSET Threads /\ None \in Threads \cup {None} /\ (None # None => new = <<>>)
        /\ {t} = (IF None = None THEN {t} ELSE {None}) /\ {t} \subseteq running'
        /\ Ends(new, Here(c, {t}), {Waiting, Over}) /\ running' \subseteq Threads
        /\ \A d \in Cpus \ {c} : Has(own, d) \subseteq running' /\ Has(own, d) \cap {t} = {}
    BY <1>1, <1>14, <1>18, <2>3, <2>4 DEF R, Shape
  <2> QED BY ONLY IInv, <1>1, <1>2, <1>12, <2>2, <2>5, SwitchMove
<1> QED BY <1>16, <1>17, <1>18 DEF ScanStep, MayTake

\* A thread begins a system call, a page fault or a turn of the collector.
LEMMA EnterInv ==
  ASSUME IInv, NEW c \in Cpus, NEW t \in Threads, Enter(c, t)
  PROVE  IInv'
<1> USE CriticalSectionsAssumption
<1>1. Shape /\ t \in Actors /\ on[c] = t /\ todo[t] = <<>>
  BY DEF IInv, Enter, Actors
<1>2. Here(t, {}) = Outside
  <2>1. Ends(<<>>, Here(t, {}), {Outside}) BY <1>1 DEF IInv
  <2> QED BY <2>1, EndsNext
<1>3. /\ t \notin crit /\ saved[t] = <<>> /\ {l \in Locks : holder[l] = t} = {}
  <2>1. /\ Here(t, {}).crit = (t \in crit) /\ Here(t, {}).saved = saved[t]
        /\ Here(t, {}).held = {l \in Locks : holder[l] = t}
    BY HereFields
  <2> QED BY <1>2, <2>1, StateFields
<1>4. PICK p : todo' = [todo EXCEPT ![t] = p] /\ Ends(p, Here(t, {})', {Outside})
               /\ crit' \in {crit, crit \cup {t}}
  <2>1. CASE /\ crit' = crit \cup {t}
             /\ \E path \in {SyscallHandler(t), HoldScope(t, HandlePageFault(t))} :
                  todo' = [todo EXCEPT ![t] = path \o <<<<"return">>>>]
    <3>1. PICK path \in {SyscallHandler(t), HoldScope(t, HandlePageFault(t))} :
            todo' = [todo EXCEPT ![t] = path \o <<<<"return">>>>]
      BY <2>1
    <3>2. Keeps(path, Closed) BY KeepsHandlers
    <3>3. Ends(path, Waiting, {Waiting}) BY <3>2, SwitchStates DEF Keeps
    <3>4. Ends(<<<<"return">>>>, Waiting, {Outside})
      <4> DEFINE x == <<"return">>
                 r == [Waiting EXCEPT !.crit = FALSE]
      <4>1. x[1] = "return" OBVIOUS
      <4> HIDE DEF x
      <4>2. Safe(x, Waiting) BY <4>1, StateFields DEF Safe
      <4>3. After(x, Waiting) = {<<<<>>, r>>} BY <4>1 DEF After
      <4>4. r = Outside
        <5> HIDE DEF r
        <5>1. /\ r \in States /\ r.crit = FALSE /\ r.saved = Waiting.saved
              /\ r.held = Waiting.held /\ r.own = Waiting.own
          BY StateFields DEF States, r
        <5>2. /\ Outside \in States /\ r.crit = Outside.crit /\ r.saved = Outside.saved
              /\ r.held = Outside.held /\ r.own = Outside.own
          BY <5>1, StateFields
        <5> QED BY ONLY <5>1, <5>2, SameState
      <4> HIDE DEF r
      <4>5. Ends(<<>>, Outside, {Outside}) BY StateFields, EndsHere
      <4>6. \A n \in After(x, Waiting) : Ends(n[1], n[2], {Outside}) BY <4>3, <4>4, <4>5
      <4>7. Ends(<<x>>, Waiting, {Outside}) BY <4>2, <4>6, StateFields, FirstStep
      <4> QED BY <4>7 DEF x
    <3>5. Ends(path \o <<<<"return">>>>, Waiting, {Outside}) BY <3>3, <3>4, Compose
    <3>6. Here(t, {})' = Waiting
      <4>1. t \in crit' /\ saved' = saved /\ holder' = holder BY <2>1 DEF Enter
      <4>2. /\ Waiting \in States /\ (Waiting.crit <=> t \in crit') /\ Waiting.saved = saved'[t]
            /\ Waiting.held = {l \in Locks : holder'[l] = t} /\ Waiting.own = {}
        BY <1>3, <4>1, StateFields
      <4> QED BY <4>2, HereNext
    <3> QED BY <2>1, <3>1, <3>5, <3>6
  <2>2. CASE crit' = crit /\ todo' = [todo EXCEPT ![t] = Collect(t)]
    <3>1. Ends(Collect(t), Outside, {Outside}) BY KeepsCollect, SwitchStates DEF Keeps
    <3>2. Here(t, {})' = Here(t, {}) BY <2>2 DEF Enter, Here
    <3> QED BY <1>2, <2>2, <3>1, <3>2
  <2> QED BY <2>1, <2>2 DEF Enter
<1>5. UNCHANGED <<kind, saved, holder, on, running>> BY DEF Enter
<1>6. OthersSame(t) BY <1>4, <1>5 DEF OthersSame
<1>7. Shape' BY <1>1, <1>4, <1>5 DEF Shape
<1> QED BY <1>1, <1>4, <1>5, <1>6, <1>7, ThreadMoves

-----------------------------------------------------------------------------
(* What follows for the code.                                              *)

\* Nothing happens.
LEMMA StutterInv ==
  ASSUME IInv, UNCHANGED vars
  PROVE  IInv'
<1>1. UNCHANGED <<kind, todo, crit, saved, holder, on, running>> BY DEF vars
<1>2. \A a, o : Here(a, o)' = Here(a, o) BY <1>1 DEF Here
<1>3. PICK own : CpusRight(own) BY DEF IInv
<1>4. \A c \in Cpus : Has(own, c)' = Has(own, c) BY <1>1 DEF Has
<1>5. CpusRight(own)' BY <1>1, <1>2, <1>3, <1>4 DEF CpusRight
<1>6. Shape' BY <1>1 DEF IInv, Shape
<1>7. \A t \in Threads : Ends(todo'[t], Here(t, {})', {Outside}) BY <1>1, <1>2 DEF IInv
<1>8. \A l \in CriticalLocks : holder'[l] \in Threads => \E c \in Cpus : on'[c] = holder'[l]
  BY <1>1 DEF IInv
<1> QED BY <1>5, <1>6, <1>7, <1>8 DEF IInv

\* Every step of the kernel preserves the invariant.
LEMMA NextInv == IInv /\ [Next]_vars => IInv'
<1> SUFFICES ASSUME IInv, [Next]_vars PROVE IInv' OBVIOUS
<1>1. CASE UNCHANGED vars BY <1>1, StutterInv
<1>2. CASE Next
  <2>1. PICK c \in Cpus :
          \/ Step(Current(c))
          \/ YieldStep(c) \/ ExitStep(c) \/ Interrupt(c)
          \/ ResignStep(c) \/ ScanStep(c) \/ ResumeStep(c)
          \/ \E t \in Threads : Enter(c, t)
    BY <1>2 DEF Next
  <2>2. CASE Step(Current(c)) BY <2>2, StepInv
  <2>3. CASE YieldStep(c) BY <2>3, YieldInv
  <2>4. CASE ExitStep(c) BY <2>4, ExitInv
  <2>5. CASE Interrupt(c) BY <2>5, InterruptInv
  <2>6. CASE ResignStep(c) BY <2>6, ResignInv
  <2>7. CASE ScanStep(c) BY <2>7, ScanInv
  <2>8. CASE ResumeStep(c) BY <2>8, ResumeInv
  <2>9. CASE \E t \in Threads : Enter(c, t) BY <2>9, EnterInv
  <2> QED BY <2>1, <2>2, <2>3, <2>4, <2>5, <2>6, <2>7, <2>8, <2>9
<1> QED BY <1>1, <1>2

\* Whoever is in the kernel is on a path all of whose steps are safe, whichever way it goes
\* on, and a CPU and the thread it runs or has in hand belong together.
THEOREM EveryPathIsSafe == Spec => []IInv
<1> QED BY InitInv, NextInv, PTL DEF Spec

\* Whatever step comes next is safe.
LEMMA NextIsSafe ==
  ASSUME IInv, NEW a \in Actors, todo[a] # <<>>
  PROVE  \E o : Safe(Head(todo[a]), Here(a, o))
<1>1. CASE a \in Threads
  <2>1. Ends(todo[a], Here(a, {}), {Outside}) BY <1>1 DEF IInv
  <2> QED BY <2>1, EndsNext
<1>2. CASE a \in Cpus
  <2>1. PICK own : CpusRight(own) BY DEF IInv
  <2>2. Ends(todo[a], Here(a, own[a]), {Waiting, Over}) BY <1>2, <2>1 DEF CpusRight
  <2> QED BY <2>2, EndsNext
<1> QED BY <1>1, <1>2 DEF Actors

\* A lock that is waited for comes after all those that are held.
LEMMA SeizeIsSafe ==
  ASSUME IInv, NEW a \in Actors, At(a, "seize")
  PROVE  /\ Arg(a) \in Locks /\ (Arg(a) \in CriticalLocks <=> a \in crit)
         /\ \A l \in Locks : holder[l] = a => Rank(l) < Rank(Arg(a))
<1>1. PICK o : Safe(Head(todo[a]), Here(a, o)) BY NextIsSafe DEF At
<1>2. Here(a, o).crit = (a \in crit) /\ Here(a, o).held = {l \in Locks : holder[l] = a}
  BY HereFields
<1>3. Head(todo[a])[1] = "seize" /\ Arg(a) = Head(todo[a])[2] BY DEF At, Arg
<1> QED BY <1>1, <1>2, <1>3 DEF Safe

\* No two CPUs run one thread.
LEMMA IInvTypeOK == IInv => TypeOK
<1> SUFFICES ASSUME IInv PROVE TypeOK OBVIOUS
<1>1. PICK own : CpusRight(own) BY DEF IInv
<1>2. ASSUME NEW c \in Cpus, NEW d \in Cpus, on[c] = on[d], c # d PROVE on[c] = None
  BY <1>1, <1>2 DEF CpusRight, Has
<1> QED BY <1>2 DEF IInv, Shape, TypeOK

\* An assertion that comes next is safe, so it is right.
LEMMA IInvAssertionsHold == IInv => AssertionsHold
<1> SUFFICES ASSUME IInv, NEW c \in Cpus, At(Current(c), "assert")
             PROVE  Current(c) \in crit <=> Arg(Current(c))
  BY DEF AssertionsHold
<1>1. PICK a : a = Current(c) OBVIOUS
<1>2. a \in Actors BY <1>1 DEF IInv, Shape, Current, Actors
<1>3. todo[a] # <<>> /\ Head(todo[a])[1] = "assert" BY <1>1 DEF At
<1>4. PICK o : Safe(Head(todo[a]), Here(a, o)) BY <1>2, <1>3, NextIsSafe
<1>5. Here(a, o).crit = (a \in crit) BY HereFields
<1>6. (a \in crit) = Head(todo[a])[2] BY <1>3, <1>4, <1>5 DEF Safe
<1> QED BY <1>1, <1>6 DEF Arg

\* Who waits while critical waits for a critical lock, whose holder cannot be interrupted.
LEMMA IInvHoldersRun == IInv => HoldersRun
<1> SUFFICES ASSUME IInv, NEW a \in Actors, NEW b \in Actors, a \in crit, WaitsFor(a, b)
             PROVE  b # a /\ OnCpu(b)
  BY DEF HoldersRun
<1>1. /\ Arg(a) \in CriticalLocks /\ Arg(a) \in Locks /\ holder[Arg(a)] = b
      /\ \A l \in Locks : holder[l] = a => Rank(l) < Rank(Arg(a))
  BY SeizeIsSafe DEF WaitsFor
<1>2. b # a BY <1>1, RankType
<1>3. b \in Threads => \E c \in Cpus : on[c] = b BY <1>1 DEF IInv
<1> QED BY <1>2, <1>3 DEF OnCpu, Actors

\* A rank that can always be exceeded within S is the rank of nobody.
LEMMA NoClimb ==
  ASSUME NEW S, NEW r \in [S -> 1..6], \A a \in S : \E b \in S : r[a] < r[b]
  PROVE  S = {}
<1>1. ASSUME NEW n \in Nat, \A a \in S : r[a] <= n + 1
      PROVE  \A a \in S : r[a] <= n
  <2>1. TAKE a \in S
  <2>2. PICK b \in S : r[a] < r[b] OBVIOUS
  <2>3. r[a] \in 1..6 /\ r[b] \in 1..6 /\ r[b] <= n + 1 BY <1>1
  <2> QED BY ONLY <2>2, <2>3, n \in Nat
<1>2. \A a \in S : r[a] \in 1..6 OBVIOUS
<1>3. \A a \in S : r[a] <= 5 + 1 BY ONLY <1>2
<1>4. \A a \in S : r[a] <= 4 + 1 BY ONLY <1>1, <1>3
<1>5. \A a \in S : r[a] <= 3 + 1 BY ONLY <1>1, <1>4
<1>6. \A a \in S : r[a] <= 2 + 1 BY ONLY <1>1, <1>5
<1>7. \A a \in S : r[a] <= 1 + 1 BY ONLY <1>1, <1>6
<1>8. \A a \in S : r[a] <= 0 + 1 BY ONLY <1>1, <1>7
<1>9. \A a \in S : r[a] <= 0 BY ONLY <1>1, <1>8
<1> QED BY ONLY <1>2, <1>9

\* Along a chain of waiting actors the ranks of the locks go up, and there are six.
LEMMA IInvNoCircle == IInv => NoCircle
<1> SUFFICES ASSUME IInv, NEW S \in (SUBSET Actors) \ {{}},
                    \A a \in S : \E b \in S : WaitsFor(a, b)
             PROVE  FALSE
  BY DEF NoCircle
<1>1. ASSUME NEW a \in S PROVE \E b \in S : Rank(Arg(a)) < Rank(Arg(b))
  <2>1. PICK b \in S : WaitsFor(a, b) BY <1>1
  <2>2. At(a, "seize") /\ holder[Arg(a)] = b BY <2>1 DEF WaitsFor
  <2>3. At(b, "seize") BY DEF WaitsFor
  <2>4. Arg(a) \in Locks BY <2>2, SeizeIsSafe
  <2>5. Rank(Arg(a)) < Rank(Arg(b)) BY <2>2, <2>3, <2>4, SeizeIsSafe
  <2> QED BY <2>5
<1>2. \A a \in S : Rank(Arg(a)) \in 1..6 BY RankType
<1>3. PICK r : r = [a \in S |-> Rank(Arg(a))] OBVIOUS
<1>4. \A a \in S : r[a] = Rank(Arg(a)) BY ONLY <1>3
<1>5. r \in [S -> 1..6] BY ONLY <1>2, <1>3
<1>6. \A a \in S : \E b \in S : r[a] < r[b] BY ONLY <1>1, <1>4
<1>7. S = {} BY ONLY <1>5, <1>6, NoClimb
<1> QED BY <1>7

\* The end of a path is safe in one state only.
LEMMA IInvLeavesAsItCame == IInv => LeavesAsItCame
<1> SUFFICES ASSUME IInv, NEW t \in Threads, At(t, "return") \/ todo[t] = <<>>
             PROVE  /\ saved[t] = <<>> /\ \A l \in Locks : holder[l] # t
                    /\ t \in crit <=> todo[t] # <<>>
  BY DEF LeavesAsItCame
<1>1. CASE todo[t] = <<>>
  <2>1. Ends(<<>>, Here(t, {}), {Outside}) BY <1>1 DEF IInv
  <2>2. Here(t, {}) = Outside BY <2>1, EndsNext
  <2>3. /\ Here(t, {}).crit = (t \in crit) /\ Here(t, {}).saved = saved[t]
        /\ Here(t, {}).held = {l \in Locks : holder[l] = t}
    BY HereFields
  <2>4. t \notin crit /\ saved[t] = <<>> /\ {l \in Locks : holder[l] = t} = {}
    BY <2>2, <2>3, StateFields
  <2> QED BY <1>1, <2>4
<1>2. CASE At(t, "return")
  <2>1. t \in Actors /\ todo[t] # <<>> /\ Head(todo[t])[1] = "return"
    BY <1>2 DEF At, Actors
  <2>2. PICK o : Safe(Head(todo[t]), Here(t, o)) BY <2>1, NextIsSafe
  <2>3. /\ Here(t, o).crit = (t \in crit) /\ Here(t, o).saved = saved[t]
        /\ Here(t, o).held = {l \in Locks : holder[l] = t}
    BY HereFields
  <2>4. t \in crit /\ saved[t] = <<>> /\ {l \in Locks : holder[l] = t} = {}
    BY <2>1, <2>2, <2>3 DEF Safe
  <2> QED BY <2>1, <2>4
<1> QED BY <1>1, <1>2

\* Every variable keeps its type, and Switch never lets two CPUs run one thread.
THEOREM TypeCorrect == Spec => []TypeOK
BY EveryPathIsSafe, IInvTypeOK, PTL

\* Every AssertCritical and AssertNoncritical in the kernel holds, on every path, whoever
\* loses the CPU and whenever.
THEOREM AssertionsAreRight == Spec => []AssertionsHold
BY EveryPathIsSafe, IInvAssertionsHold, PTL

\* A critical section never spins for a lock whose holder has lost its CPU: what is locked
\* in critical sections is locked in critical sections only.
THEOREM HoldersKeepRunning == Spec => []HoldersRun
BY EveryPathIsSafe, IInvHoldersRun, PTL

\* No set of threads and CPUs waits for locks in a circle, however many there are: all paths
\* seize the locks in one order.
THEOREM NobodyWaitsInACircle == Spec => []NoCircle
BY EveryPathIsSafe, IInvNoCircle, PTL

\* A thread leaves the kernel without a lock and with no scope open; it returns to its
\* program from a critical handler, and the collector begins each turn noncritical.
THEOREM LeavesTheKernelAsItCame == Spec => []LeavesAsItCame
BY EveryPathIsSafe, IInvLeavesAsItCame, PTL
=============================================================================
