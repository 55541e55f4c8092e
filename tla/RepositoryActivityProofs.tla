------------------------ MODULE RepositoryActivityProofs ------------------------
(*****************************************************************************)
(* Proofs about RepositoryActivity for any number of workers and branches    *)
(* and any bound on the changesets.                                          *)
(*                                                                           *)
(* The ancestors of a changeset are a recursive function of the log.  That   *)
(* the function is what its equation says, and that a longer log changes     *)
(* nothing below, is proved with least counterexamples.                      *)
(*****************************************************************************)
EXTENDS RepositoryActivity, FiniteSetTheorems, WellFoundedInduction, TLAPS

\* The log, which the type invariant of the model says element by element.
Changeset == [parent : Nat, branch : Branches]
LogTyped == log \in Seq(Changeset)

\* A request of the web is for a file; a hook that names one changeset has one to
\* name.
Fits(r) ==
  /\ r.step \in {"resolve", "commit"} => r.op \in {"edit", "delete", "add"}
  /\ r.step = "journal" => /\ r.op \in {"local", "push", "fetch"}
                           /\ kind = "hg" \/ r.op = "local" => r.cs # 0
WorkersFit == \A w \in Workers : Fits(workers[w])

\* A changeset is in the journal or excepted, or a worker that will name it is on
\* its way: one whose branch was older than the changeset.
Coming(c) ==
  \E w \in Workers : /\ workers[w].step = "journal"
                     /\ workers[w].cs = c /\ workers[w].old < c
Announced == \A c \in Changesets : c \in journal \cup unannounced \/ Coming(c)

\* A worker whose change nobody has seen yet in the cache.
Pending == \E w \in Workers : workers[w].step \in {"journal", "row"}
Busy == \E w \in Workers : workers[w].step \in {"journal", "row", "tip", "write"}

\* A worker that is alone in refreshing the cache has read what is in it; the tip
\* that it has read is current, unless somebody else is to refresh the cache.
Alone ==
  \A w \in Workers :
    LET r == workers[w]
    IN  r.alone => /\ r.step \in Window /\ r.row = cache
                   /\ \A v \in Workers \ {w} : workers[v].step \notin Window
                   /\ r.step = "write" => r.tip = Tip \/ Pending

\* The cache is current, or somebody will see to it.
Current == ~suspect /\ ~Empty /\ ~Busy => cache = Tip

\* An edit that nobody has overtaken starts from a head.
Edits == {"edit", "delete"}
FromHead(r) ==
  r.op \in Edits /\ ~r.overtaken =>
    /\ r.step = "resolve" => \E b \in Branches : r.cs \in Heads(b)
    /\ r.step = "commit" => r.cs \in Heads(r.branch)
StartsFromHead == \A w \in Workers : FromHead(workers[w])

Inv ==
  /\ TypeOK /\ LogTyped /\ WorkersFit
  /\ Announced
  /\ Alone /\ Current
  /\ StartsFromHead

-----------------------------------------------------------------------------
(* Numbers                                                                 *)

\* Every nonempty set of natural numbers has a least one.
LEMMA LeastNatural ==
  ASSUME NEW T, T \subseteq Nat, T # {}
  PROVE  \E x \in T : \A y \in T : x <= y
<1> DEFINE R == OpToRel(<,Nat)
<1>1. IsWellFoundedOn(R, Nat)
  BY NatLessThanWellFounded
<1>2. \A a, b \in Nat : a < b => <<a, b>> \in R
  BY DEF OpToRel
<1> HIDE DEF R
<1>3. PICK x \in T : \A y \in T : ~ (<<y, x>> \in R)
  BY <1>1, WFMin, Zenon
<1>4. \A y \in T : ~(y < x)
  BY <1>2, <1>3
<1> QED
  BY <1>4

\* Largest chooses the largest.
LEMMA LargestIsThere ==
  ASSUME NEW n \in Nat, NEW S, S \subseteq 0 .. n, S # {}
  PROVE  Largest(S) \in S /\ \A d \in S : d <= Largest(S)
<1> DEFINE T == {n - d : d \in S}
<1> \A d \in S : d \in Nat /\ d <= n /\ n - d \in Nat
  OBVIOUS
<1>1. T \subseteq Nat /\ T # {}
  OBVIOUS
<1>2. PICK x \in T : \A y \in T : x <= y
  BY <1>1, LeastNatural
<1>3. PICK c \in S : x = n - c
  OBVIOUS
<1>4. \A d \in S : d <= c
  BY <1>2, <1>3
<1>5. \E e \in S : \A d \in S : d <= e
  BY <1>4
<1> HIDE DEF T
<1> QED
  BY <1>5, Zenon DEF Largest

-----------------------------------------------------------------------------
(* Ancestors                                                               *)

\* Ancestors of the log l.
Line(l, c) ==
  LET above[d \in 0 .. Len(l)] == IF d = 0 THEN {} ELSE {d} \cup above[l[d].parent]
  IN  above[c]

\* A log whose changesets come after their parents.
InOrder(l) ==
  /\ l \in Seq(Changeset)
  /\ \A c \in 1 .. Len(l) : l[c].parent < c

\* Ancestors is Line, before a step and after it.
LEMMA AncestorsAreLine ==
  ASSUME NEW c
  PROVE  Ancestors(c) = Line(log, c) /\ Ancestors(c)' = Line(log', c)
BY Zenon DEF Ancestors, Line

\* The changesets of a log in order.
LEMMA ParentsBefore ==
  ASSUME NEW l, InOrder(l)
  PROVE  /\ Len(l) \in Nat
         /\ \A c \in 1 .. Len(l) : l[c].parent \in Nat /\ l[c].parent < c
<1>1. l \in Seq(Changeset) /\ \A c \in 1 .. Len(l) : l[c].parent < c
  BY DEF InOrder
<1>2. Len(l) \in Nat /\ \A c \in 1 .. Len(l) : l[c] \in Changeset
  BY <1>1
<1> QED
  BY <1>1, <1>2 DEF Changeset

\* The equation of Ancestors has a solution up to each number.
LEMMA LineExists ==
  ASSUME NEW l, InOrder(l)
  PROVE  \E g : g = [d \in 0 .. Len(l) |-> IF d = 0 THEN {} ELSE {d} \cup g[l[d].parent]]
<1>1. /\ Len(l) \in Nat
      /\ \A c \in 1 .. Len(l) : l[c].parent \in Nat /\ l[c].parent < c
  BY ParentsBefore
<1> DEFINE Solves(g, n) == g = [d \in 0 .. n |-> IF d = 0 THEN {} ELSE {d} \cup g[l[d].parent]]
           Bad == {n \in 0 .. Len(l) : ~ \E g : Solves(g, n)}
<1>2. SUFFICES ASSUME Bad # {} PROVE FALSE
  <2>1. Len(l) \in 0 .. Len(l)
    BY <1>1
  <2> QED
    BY <2>1
<1>3. Bad \subseteq Nat
  BY <1>1
<1>4. PICK m \in Bad : \A n \in Bad : m <= n
  BY <1>2, <1>3, LeastNatural
<1>5. CASE m = 0
  <2> DEFINE g == [d \in 0 .. 0 |-> {}]
  <2>1. Solves(g, 0)
    OBVIOUS
  <2> QED
    BY <1>4, <1>5, <2>1
<1>6. CASE m # 0
  <2>1. m \in Nat /\ m - 1 \in 0 .. Len(l) /\ m \in 1 .. Len(l) /\ ~(m <= m - 1)
    BY <1>1, <1>4, <1>6
  <2>2. PICK g : Solves(g, m - 1)
    BY <1>4, <2>1
  <2> DEFINE h == [d \in 0 .. m |-> IF d < m THEN g[d] ELSE {m} \cup g[l[m].parent]]
  <2>3. ASSUME NEW d \in 0 .. m
        PROVE  h[d] = IF d = 0 THEN {} ELSE {d} \cup h[l[d].parent]
    <3>1. CASE d = 0
      BY <2>1, <2>2, <3>1
    <3>2. CASE d # 0
      <4>1. d \in 1 .. Len(l) /\ l[d].parent \in 0 .. d - 1 /\ l[d].parent \in 0 .. m
            /\ l[d].parent < m
        BY <1>1, <2>1, <3>2
      <4>2. h[l[d].parent] = g[l[d].parent]
        BY <4>1
      <4>3. CASE d = m
        <5>1. m \in 0 .. m /\ ~(m < m)
          BY <2>1
        <5>2. h[m] = {m} \cup g[l[m].parent]
          BY <5>1
        <5> HIDE DEF h
        <5> QED
          BY <3>2, <4>2, <4>3, <5>2
      <4>4. CASE d < m
        <5>1. d \in 0 .. m - 1
          BY <2>1, <4>4
        <5>2. h[d] = g[d]
          BY <4>4
        <5> QED
          BY <2>2, <3>2, <4>2, <5>1, <5>2
      <4> QED
        BY <2>1, <4>3, <4>4
    <3> QED
      BY <3>1, <3>2
  <2>4. Solves(h, m)
    BY <2>3
  <2> QED
    BY <1>4, <2>4
<1> QED
  BY <1>5, <1>6

\* The equation of Ancestors.
LEMMA LineEquation ==
  ASSUME NEW l, InOrder(l), NEW c \in 0 .. Len(l)
  PROVE  Line(l, c) = IF c = 0 THEN {} ELSE {c} \cup Line(l, l[c].parent)
<1> DEFINE F(h) == [d \in 0 .. Len(l) |-> IF d = 0 THEN {} ELSE {d} \cup h[l[d].parent]]
           above == CHOOSE h : h = F(h)
<1>1. above = F(above)
  <2>1. \E h : h = F(h)
    BY LineExists
  <2> HIDE DEF F
  <2> QED
    BY <2>1, Zenon
<1>2. \A d : Line(l, d) = above[d]
  BY Zenon DEF Line
<1> HIDE DEF above
<1> QED
  BY <1>1, <1>2

\* What a changeset descends from came before it.
LEMMA LineBelow ==
  ASSUME NEW l, InOrder(l), NEW c \in 0 .. Len(l)
  PROVE  Line(l, c) \subseteq 1 .. c /\ (c # 0 => c \in Line(l, c))
<1>1. /\ Len(l) \in Nat
      /\ \A d \in 1 .. Len(l) : l[d].parent \in Nat /\ l[d].parent < d
  BY ParentsBefore
<1> DEFINE Bad == {d \in 0 .. Len(l) : ~(Line(l, d) \subseteq 1 .. d)}
<1>2. Bad = {}
  <2>1. SUFFICES ASSUME Bad # {} PROVE FALSE
    OBVIOUS
  <2>2. Bad \subseteq Nat
    BY <1>1
  <2>3. PICK m \in Bad : \A d \in Bad : m <= d
    BY <2>1, <2>2, LeastNatural
  <2>4. m # 0
    BY <2>3, LineEquation
  <2>5. l[m].parent \in 0 .. Len(l) /\ l[m].parent \in Nat /\ l[m].parent < m /\ m \in Nat
    BY <1>1, <2>3, <2>4
  <2>6. Line(l, l[m].parent) \subseteq 1 .. l[m].parent
    BY <2>3, <2>5
  <2>7. Line(l, m) = {m} \cup Line(l, l[m].parent)
    BY <2>3, <2>4, LineEquation
  <2>8. 1 .. l[m].parent \subseteq 1 .. m /\ m \in 1 .. m
    BY <2>4, <2>5
  <2> QED
    BY <2>3, <2>6, <2>7, <2>8
<1>3. c # 0 => c \in Line(l, c)
  BY LineEquation
<1> QED
  BY <1>2, <1>3

\* A log that grows leaves the ancestors of what was there as they were.
LEMMA LineStays ==
  ASSUME NEW l, NEW m, InOrder(l), InOrder(m), Len(l) <= Len(m),
         \A d \in 1 .. Len(l) : m[d].parent = l[d].parent,
         NEW c \in 0 .. Len(l)
  PROVE  Line(m, c) = Line(l, c)
<1>1. /\ Len(l) \in Nat /\ Len(m) \in Nat
      /\ \A d \in 1 .. Len(l) : l[d].parent \in Nat /\ l[d].parent < d
  BY ParentsBefore
<1> DEFINE Bad == {d \in 0 .. Len(l) : Line(m, d) # Line(l, d)}
<1>2. SUFFICES ASSUME Bad # {} PROVE FALSE
  OBVIOUS
<1>3. Bad \subseteq Nat
  BY <1>1
<1>4. PICK x \in Bad : \A d \in Bad : x <= d
  BY <1>2, <1>3, LeastNatural
<1>5. x \in 0 .. Len(l) /\ x \in 0 .. Len(m)
  BY <1>1, <1>4
<1>6. CASE x = 0
  BY <1>4, <1>5, <1>6, LineEquation
<1>7. CASE x # 0
  <2>1. /\ l[x].parent \in 0 .. Len(l) /\ l[x].parent < x /\ l[x].parent \in Nat /\ x \in Nat
        /\ m[x].parent = l[x].parent
    BY <1>1, <1>5, <1>7
  <2>2. Line(m, l[x].parent) = Line(l, l[x].parent)
    BY <1>4, <2>1
  <2>3. Line(l, x) = {x} \cup Line(l, l[x].parent)
    BY <1>5, <1>7, LineEquation
  <2>4. Line(m, x) = {x} \cup Line(m, m[x].parent)
    BY <1>5, <1>7, LineEquation
  <2> QED
    BY <1>4, <2>1, <2>2, <2>3, <2>4
<1> QED
  BY <1>6, <1>7

-----------------------------------------------------------------------------
(* The repository                                                          *)

\* The changesets of the log.
LEMMA LogFacts ==
  ASSUME TypeOK, LogTyped
  PROVE  /\ InOrder(log) /\ Len(log) \in Nat
         /\ \A c \in Changesets : log[c].parent \in Known /\ log[c].branch \in Branches
         /\ \A b \in Branches : refs[b] \in Known
         /\ Main \in Branches
<1>1. log \in Seq(Changeset) /\ Len(log) \in Nat
  BY DEF LogTyped
<1>2. \A c \in Changesets : log[c].parent \in 0 .. c - 1 /\ log[c].branch \in Branches
  BY DEF TypeOK
<1>3. InOrder(log)
  BY <1>1, <1>2 DEF InOrder, Changesets
<1>4. \A c \in Changesets : log[c].parent \in Known
  BY <1>1, <1>2 DEF Known, Changesets
<1>5. \A b \in Branches : refs[b] \in Known
  BY DEF TypeOK
<1> QED
  BY <1>1, <1>2, <1>3, <1>4, <1>5, ActivityAssumption

\* What the branches reach are changesets of the log, and HEAD's is among them.
LEMMA ReachableFacts ==
  ASSUME TypeOK, LogTyped
  PROVE  /\ \A c \in Known : Ancestors(c) \subseteq Changesets
         /\ \A c \in Changesets : c \in Ancestors(c)
         /\ Reachable \subseteq Changesets
         /\ ~Empty => Reachable # {}
<1>1. InOrder(log) /\ Len(log) \in Nat
  BY LogFacts
<1>2. ASSUME NEW c \in Known
      PROVE  Ancestors(c) \subseteq Changesets /\ (c # 0 => c \in Ancestors(c))
  <2>1. Line(log, c) \subseteq 1 .. c /\ (c # 0 => c \in Line(log, c))
    BY <1>1, LineBelow DEF Known
  <2>2. Ancestors(c) = Line(log, c)
    BY AncestorsAreLine
  <2>3. 1 .. c \subseteq 1 .. Len(log)
    BY <1>1 DEF Known
  <2> QED
    BY <2>1, <2>2, <2>3 DEF Changesets
<1>3. \A b \in Branches : refs[b] \in Known
  BY LogFacts
<1>4. Reachable \subseteq Changesets
  BY <1>2, <1>3 DEF Reachable
<1>5. \A c \in Changesets : c \in Known /\ c # 0
  BY <1>1 DEF Changesets, Known
<1>6. ASSUME ~Empty PROVE Reachable # {}
  <2>1. CASE kind = "git"
    <3>1. head \in Branches /\ refs[head] \in Known /\ refs[head] # 0
      BY <1>3, <1>6, <2>1 DEF Empty, TypeOK
    <3>2. refs[head] \in Ancestors(refs[head])
      BY <1>2, <3>1
    <3> QED
      BY <2>1, <3>1, <3>2 DEF Reachable
  <2>2. CASE kind # "git"
    <3>1. log # <<>> /\ log \in Seq(Changeset)
      BY <1>6, <2>2 DEF Empty, LogTyped
    <3>2. 1 \in Changesets
      BY <3>1 DEF Changesets
    <3> QED
      BY <2>2, <3>2 DEF Reachable
  <2> QED
    BY <2>1, <2>2
<1> QED
  BY <1>2, <1>4, <1>5, <1>6

\* The tip of a repository that is not empty is one of its changesets.
LEMMA TipIsThere ==
  ASSUME TypeOK, LogTyped, ~Empty
  PROVE  Tip \in Known
<1>1. Reachable \subseteq 0 .. Len(log) /\ Reachable # {} /\ Len(log) \in Nat
  BY ReachableFacts, LogFacts DEF Changesets
<1> QED
  BY <1>1, LargestIsThere DEF Tip, Known

\* The heads of a branch are changesets of the log.
LEMMA HeadFacts ==
  ASSUME TypeOK, LogTyped, NEW b \in Branches
  PROVE  /\ Heads(b) \subseteq Changesets
         /\ Heads(b) # {} => Largest(Heads(b)) \in Heads(b)
<1>1. Heads(b) \subseteq Changesets
  BY LogFacts DEF Heads, Changesets, Known
<1>2. Heads(b) \subseteq 0 .. Len(log) /\ Len(log) \in Nat
  BY <1>1, LogFacts DEF Changesets
<1> QED
  BY <1>1, <1>2, LargestIsThere

\* There are finitely many of them.
LEMMA HeadsFinite ==
  ASSUME TypeOK, LogTyped, NEW b \in Branches
  PROVE  IsFiniteSet(Heads(b))
<1>1. Heads(b) \subseteq 1 .. Len(log) /\ Len(log) \in Int
  BY HeadFacts, LogFacts DEF Changesets
<1>2. IsFiniteSet(1 .. Len(log))
  BY <1>1, FS_Interval
<1> QED
  BY <1>1, <1>2, FS_Subset

\* What a worker may be doing where n is the youngest changeset.
Request(n) ==
  [step : Steps, op : Ops, cs : 0 .. n, branch : Branches, old : 0 .. n,
   row : 0 .. n, tip : 0 .. n, overtaken : BOOLEAN, alone : BOOLEAN]

\* r with no more knowledge of it than q says.
Alike(r, q) ==
  /\ r.step = q.step /\ r.op = q.op /\ r.cs = q.cs /\ r.branch = q.branch
  /\ r.old = q.old /\ r.row = q.row /\ r.tip = q.tip
  /\ q.overtaken => r.overtaken
  /\ r.alone => q.alone

\* What becomes of a worker when another one does something.
LEMMA Disturbances ==
  ASSUME NEW n \in Nat, NEW m \in Nat, n <= m, NEW r \in Request(n)
  PROVE  /\ r \in Request(m) /\ Alike(r, r)
         /\ Overtaken(r) \in Request(m) /\ Alike(Overtaken(r), r)
         /\ Disturbed(r) \in Request(m) /\ Alike(Disturbed(r), r)
         /\ Disturbed(Overtaken(r)) \in Request(m) /\ Alike(Disturbed(Overtaken(r)), r)
         /\ r.step \in {"resolve", "commit"} =>
              Overtaken(r).overtaken /\ Disturbed(Overtaken(r)).overtaken
         /\ ~Disturbed(r).alone /\ ~Disturbed(Overtaken(r)).alone
<1>1. \A x \in 0 .. n : x \in 0 .. m
  OBVIOUS
<1>2. r \in Request(m)
  BY <1>1 DEF Request
<1>3. /\ Overtaken(r) \in Request(m) /\ Alike(Overtaken(r), r)
      /\ r.step \in {"resolve", "commit"} => Overtaken(r).overtaken
      /\ Alike(r, r)
  BY <1>2 DEF Request, Overtaken, Alike
<1>4. \A q \in Request(m) : /\ Disturbed(q) \in Request(m) /\ Alike(Disturbed(q), q)
                            /\ ~Disturbed(q).alone
                            /\ Disturbed(q).overtaken = q.overtaken
  BY DEF Request, Disturbed, Alike
<1>5. Alike(Disturbed(Overtaken(r)), r)
  BY <1>3, <1>4 DEF Alike
<1> QED
  BY <1>2, <1>3, <1>4, <1>5

\* The request that a worker does not have.
LEMMA IdleFacts ==
  /\ Idle.step = "idle" /\ Idle.op = "local" /\ Idle.cs = 0 /\ Idle.old = 0
  /\ ~Idle.alone /\ ~Idle.overtaken
  /\ \A n \in Nat : Idle \in Request(n)
BY ActivityAssumption DEF Idle, Request, Steps, Ops

\* A worker's own request, and the record of what it does.
LEMMA WorkersTyped ==
  ASSUME TypeOK, LogTyped
  PROVE  workers \in [Workers -> Request(Len(log))] /\ Len(log) \in Nat
BY LogFacts DEF TypeOK, Request, Known

\* A repository that changes: by a changeset whose parent it has, or not at all.
LEMMA LogChanges ==
  ASSUME TypeOK, LogTyped, kind' = kind,
         \/ log' = log
         \/ /\ Len(log) + 1 <= MaxChangesets
            /\ \E p \in Known, b \in Branches : log' = Made(p, b)
  PROVE  /\ LogTyped'
         /\ Len(log') \in Nat /\ Len(log) <= Len(log') /\ Len(log') <= MaxChangesets
         /\ \A c \in Changesets' : log'[c].parent \in 0 .. c - 1 /\ log'[c].branch \in Branches
         /\ \A c \in Changesets : log'[c] = log[c]
         /\ Changesets' = Changesets \cup (Len(log) + 1 .. Len(log'))
         /\ Known \subseteq Known'
<1>1. log \in Seq(Changeset) /\ Len(log) \in Nat /\ MaxChangesets \in Nat
  BY ActivityAssumption DEF LogTyped
<1>2. /\ Len(log) <= MaxChangesets
      /\ \A c \in Changesets : log[c].parent \in 0 .. c - 1 /\ log[c].branch \in Branches
  BY DEF TypeOK
<1>3. CASE log' = log
  BY <1>1, <1>2, <1>3 DEF LogTyped, Changesets, Known
<1>4. ASSUME Len(log) + 1 <= MaxChangesets, NEW p \in Known, NEW b \in Branches, log' = Made(p, b)
      PROVE  /\ LogTyped'
             /\ Len(log') \in Nat /\ Len(log) <= Len(log') /\ Len(log') <= MaxChangesets
             /\ \A c \in Changesets' : log'[c].parent \in 0 .. c - 1 /\ log'[c].branch \in Branches
             /\ \A c \in Changesets : log'[c] = log[c]
             /\ Changesets' = Changesets \cup (Len(log) + 1 .. Len(log'))
             /\ Known \subseteq Known'
  <2> DEFINE e == [parent |-> p, branch |-> IF kind = "git" THEN Main ELSE b]
  <2>1. e \in Changeset /\ e.parent \in 0 .. Len(log) /\ e.branch \in Branches
    BY <1>1, ActivityAssumption DEF Changeset, Known
  <2>2. log' = Append(log, e)
    BY <1>4 DEF Made
  <2> HIDE DEF e
  <2>3. /\ log' \in Seq(Changeset) /\ Len(log') = Len(log) + 1
        /\ \A c \in 1 .. Len(log) : log'[c] = log[c]
        /\ log'[Len(log) + 1] = e
    BY <1>1, <2>1, <2>2
  <2>4. /\ Changesets' = Changesets \cup (Len(log) + 1 .. Len(log'))
        /\ \A c \in Changesets' : c \in Changesets \/ c = Len(log) + 1
    BY <1>1, <2>3 DEF Changesets
  <2>5. ASSUME NEW c \in Changesets'
        PROVE  log'[c].parent \in 0 .. c - 1 /\ log'[c].branch \in Branches
    <3>1. CASE c \in Changesets
      BY <1>2, <2>3, <3>1 DEF Changesets
    <3>2. CASE c = Len(log) + 1
      BY <1>1, <2>1, <2>3, <3>2
    <3> QED
      BY <2>4, <3>1, <3>2
  <2> QED
    BY <1>1, <1>4, <2>3, <2>4, <2>5 DEF LogTyped, Known, Changesets
<1> QED
  BY <1>3, <1>4

\* Ancestors of what is there do not change.
LEMMA AncestorsStay ==
  ASSUME TypeOK, LogTyped, TypeOK', LogTyped', Len(log) <= Len(log'),
         \A c \in Changesets : log'[c] = log[c],
         NEW c \in Known
  PROVE  Ancestors(c)' = Ancestors(c)
<1>1. InOrder(log)
  BY LogFacts
<1>2. InOrder(log')
  BY DEF InOrder, LogTyped, TypeOK, Changesets
<1>3. Line(log', c) = Line(log, c)
  BY <1>1, <1>2, LineStays DEF Changesets, Known
<1> QED
  BY <1>3, AncestorsAreLine

-----------------------------------------------------------------------------
(* Steps                                                                   *)

\* The announcements: nobody who has one to make goes without making it.
LEMMA AnnouncedKeeps ==
  ASSUME Announced, journal \cup unannounced \subseteq journal' \cup unannounced',
         \A c \in Changesets' : c \in Changesets \/ c \in journal' \cup unannounced' \/ Coming(c)',
         \A v \in Workers : workers[v].step = "journal" /\ workers[v].old < workers[v].cs =>
           \/ Alike(workers'[v], workers[v])
           \/ workers[v].cs \in journal' \cup unannounced'
  PROVE  Announced'
<1> SUFFICES ASSUME NEW c \in Changesets, c \notin journal' \cup unannounced', ~Coming(c)'
             PROVE  FALSE
  BY DEF Announced
<1>1. PICK v \in Workers : workers[v].step = "journal" /\ workers[v].cs = c /\ workers[v].old < c
  BY DEF Announced, Coming
<1>2. Alike(workers'[v], workers[v])
  BY <1>1
<1> QED
  BY <1>1, <1>2 DEF Alike, Coming

\* What was told stays told.
LEMMA HooksKeep ==
  ASSUME WorkersFit, kind' = kind,
         \A v \in Workers : Alike(workers'[v], workers[v]) \/ Fits(workers'[v])
  PROVE  WorkersFit'
BY DEF WorkersFit, Fits, Alike

\* A worker that is alone stays so while nobody else turns to the cache, and what
\* it read is current or somebody is to read again.
LEMMA AloneKeeps ==
  ASSUME Alone, cache' = cache, Pending' \/ (Tip' = Tip /\ (Pending => Pending')),
         \A v \in Workers : \/ Alike(workers'[v], workers[v])
                            \/ workers'[v].step \notin Window /\ ~workers'[v].alone
  PROVE  Alone'
BY DEF Alone, Alike

\* While the repository stays, a head stays one.
LEMMA HeadsKeep ==
  ASSUME StartsFromHead, UNCHANGED <<kind, log, refs>>,
         \A v \in Workers : Alike(workers'[v], workers[v]) \/ FromHead(workers'[v])
  PROVE  StartsFromHead'
<1>1. ASSUME NEW v \in Workers PROVE FromHead(workers'[v])
  BY DEF StartsFromHead, Alike, FromHead
<1>2. \A b : Heads(b)' = Heads(b)
  BY DEF Heads, Children, Changesets
<1> QED
  BY <1>1, <1>2 DEF StartsFromHead, FromHead

\* A worker goes on, and has neither changed nor is to write anything.
LEMMA GoesOn ==
  ASSUME Inv, NEW w \in Workers, NEW r \in Request(Len(log)),
         workers' = [workers EXCEPT ![w] = r],
         UNCHANGED <<kind, log, refs, head, journal, cache, unannounced, suspect>>,
         requests' \in 0 .. MaxRequests,
         workers[w].step \in {"idle", "resolve", "commit"},
         r.step \in {"idle", "resolve", "commit", "row"}, ~r.alone, FromHead(r), Fits(r)
  PROVE  Inv'
<1>1. TypeOK /\ LogTyped /\ workers \in [Workers -> Request(Len(log))] /\ Len(log) \in Nat
  BY WorkersTyped DEF Inv
<1>2. /\ workers' \in [Workers -> Request(Len(log))] /\ workers'[w] = r
      /\ \A v \in Workers : v # w => workers'[v] = workers[v]
  BY <1>1
<1>3. \A v \in Workers : Alike(workers[v], workers[v])
  BY DEF Alike
<1>4. TypeOK' /\ LogTyped'
  BY <1>1, <1>2 DEF TypeOK, LogTyped, Changesets, Known, Request
<1>5. WorkersFit'
  BY <1>2, <1>3, HooksKeep DEF Inv
<1>6. Announced'
  BY <1>2, <1>3, AnnouncedKeeps DEF Inv, Changesets
<1>7. Tip' = Tip /\ Empty' = Empty
  BY DEF Tip, Reachable, Ancestors, Changesets, Empty
<1>8. (Pending => Pending') /\ (Busy => Busy')
  BY <1>2 DEF Pending, Busy
<1>9. Alone'
  <2>1. r.step \notin Window
    BY DEF Window
  <2> QED
    BY <1>2, <1>3, <1>7, <1>8, <2>1, AloneKeeps DEF Inv
<1>10. Current'
  BY <1>7, <1>8 DEF Inv, Current
<1>11. StartsFromHead'
  BY <1>2, <1>3, HeadsKeep DEF Inv
<1> QED
  BY <1>4, <1>5, <1>6, <1>9, <1>10, <1>11 DEF Inv

\* A request opens a changeset: to edit or delete a file, a head.
LEMMA OpenKeeps ==
  ASSUME Inv, NEW w \in Workers, Edit(w) \/ Delete(w) \/ Add(w)
  PROVE  Inv'
<1>1. TypeOK /\ LogTyped /\ workers \in [Workers -> Request(Len(log))] /\ Len(log) \in Nat
  BY WorkersTyped DEF Inv
<1>2. PICK op \in {"edit", "delete", "add"}, c \in Known :
        /\ Open(w, op, c)
        /\ op \in Edits => \E b \in Branches : c \in Heads(b)
  <2>1. \A b \in Branches : Heads(b) # {} => Largest(Heads(b)) \in Heads(b)
    BY <1>1, HeadFacts
  <2>2. ASSUME NEW c \in BranchTips
        PROVE  c \in Known /\ \E b \in Branches : c \in Heads(b)
    <3>1. PICK b \in Branches : Heads(b) # {} /\ c = Largest(Heads(b))
      BY DEF BranchTips
    <3>2. c \in Heads(b) /\ Heads(b) \subseteq Changesets
      BY <1>1, <2>1, <3>1, HeadFacts
    <3> QED
      BY <1>1, <3>2 DEF Changesets, Known
  <2>3. CASE Edit(w) \/ Delete(w)
    BY <2>2, <2>3 DEF Edit, Delete
  <2>4. CASE Add(w)
    <3>1. \A c \in (IF Empty THEN {0} ELSE Reachable) : c \in Known
      BY <1>1, ReachableFacts DEF Changesets, Known
    <3> QED
      BY <2>4, <3>1 DEF Add, Edits
  <2> QED
    BY <2>3, <2>4
<1> DEFINE r == [Idle EXCEPT !.step = "resolve", !.op = op, !.cs = c]
<1>3. /\ r \in Request(Len(log)) /\ r.step = "resolve" /\ r.op = op /\ r.cs = c /\ ~r.alone
  BY <1>1, <1>2, IdleFacts DEF Request, Steps, Ops, Known
<1>4. /\ workers' = [workers EXCEPT ![w] = r] /\ workers[w].step = "idle"
      /\ requests < MaxRequests /\ requests' = requests + 1
      /\ UNCHANGED <<kind, log, refs, head, journal, cache, unannounced, suspect>>
  BY <1>2 DEF Open, Begin
<1> HIDE DEF r
<1>5. FromHead(r) /\ Fits(r)
  BY <1>2, <1>3 DEF FromHead, Fits
<1>6. requests' \in 0 .. MaxRequests
  BY <1>1, <1>4, ActivityAssumption DEF TypeOK
<1> QED
  BY <1>3, <1>4, <1>5, <1>6, GoesOn

\* The branch that a commit goes to is one that the head is of.
LEMMA ResolveKeeps ==
  ASSUME Inv, NEW w \in Workers, Resolve(w)
  PROVE  Inv'
<1>1. TypeOK /\ LogTyped /\ workers \in [Workers -> Request(Len(log))] /\ Len(log) \in Nat
  BY WorkersTyped DEF Inv
<1>2. PICK b \in BranchesOf(workers[w].cs) :
        workers' = [workers EXCEPT ![w].step = "commit", ![w].branch = b]
  BY DEF Resolve
<1>3. /\ workers[w].step = "resolve"
      /\ UNCHANGED <<kind, log, refs, head, journal, cache, requests, unannounced, suspect>>
  BY DEF Resolve
<1> DEFINE q == workers[w]
           r == [q EXCEPT !.step = "commit", !.branch = b]
<1>4. q \in Request(Len(log)) /\ q.cs \in Known
  BY <1>1 DEF Request, Known
<1>5. b \in Branches
  <2>1. q.cs # 0 => q.cs \in Changesets
    BY <1>1, <1>4 DEF Known, Changesets
  <2> QED
    BY <1>1, <1>2, <2>1, LogFacts DEF BranchesOf
<1>6. workers' = [workers EXCEPT ![w] = r]
  BY <1>1, <1>2
<1>7. FromHead(q)
  BY DEF Inv, StartsFromHead
<1> HIDE DEF q
<1>8. /\ r \in Request(Len(log)) /\ r.step = "commit" /\ r.op = q.op /\ r.cs = q.cs
      /\ r.branch = b /\ r.overtaken = q.overtaken /\ r.alone = q.alone
  BY <1>4, <1>5 DEF Request, Steps
<1>9. ~q.alone /\ q.step = "resolve"
  BY <1>3 DEF Inv, Alone, Window, q
<1> HIDE DEF r
<1>10. FromHead(r)
  <2>1. SUFFICES ASSUME r.op \in Edits, ~r.overtaken PROVE r.cs \in Heads(b)
    BY <1>8 DEF FromHead
  <2>2. PICK a \in Branches : q.cs \in Heads(a)
    BY <1>7, <1>8, <1>9, <2>1 DEF FromHead
  <2>3. q.cs # 0 /\ b \in BranchesOf(q.cs)
    <3>1. q.cs \in Changesets
      BY <1>1, <2>2, HeadFacts
    <3> QED
      BY <1>1, <1>2, <3>1 DEF q, Changesets
  <2>4. CASE kind = "git"
    BY <1>8, <2>2, <2>3, <2>4 DEF Heads, BranchesOf
  <2>5. CASE kind = "hg"
    BY <1>8, <2>2, <2>3, <2>5 DEF Heads, BranchesOf
  <2> QED
    BY <1>1, <2>4, <2>5 DEF TypeOK
<1>11. requests' \in 0 .. MaxRequests
  BY <1>1, <1>3 DEF TypeOK
<1>12. Fits(r)
  BY <1>8, <1>9 DEF Inv, WorkersFit, Fits, q
<1> QED
  BY <1>3, <1>6, <1>8, <1>9, <1>10, <1>11, <1>12, GoesOn

\* A commit that fails, a worker that dies before it changed anything, and a
\* refresh that begins.
LEMMA GoesOnKeeps ==
  ASSUME Inv, NEW w \in Workers,
         \/ CommitFails(w)
         \/ UpdateMetadata(w) \/ InvalidateCache(w)
         \/ Crash(w) /\ workers[w].step \in {"resolve", "commit"}
  PROVE  Inv'
<1>1. TypeOK /\ LogTyped /\ workers \in [Workers -> Request(Len(log))] /\ Len(log) \in Nat
  BY WorkersTyped DEF Inv
<1> DEFINE row == [Idle EXCEPT !.step = "row"]
<1>2. /\ Idle \in Request(Len(log)) /\ Idle.step = "idle" /\ ~Idle.alone /\ FromHead(Idle) /\ Fits(Idle)
      /\ row \in Request(Len(log)) /\ row.step = "row" /\ ~row.alone /\ FromHead(row) /\ Fits(row)
  <2>1. Idle \in Request(Len(log)) /\ Idle.step = "idle" /\ ~Idle.alone
    BY <1>1, IdleFacts
  <2>2. row \in Request(Len(log)) /\ row.step = "row" /\ ~row.alone
    BY <2>1 DEF Request, Steps
  <2> HIDE DEF row
  <2> QED
    BY <2>1, <2>2 DEF FromHead, Fits
<1>3. /\ UNCHANGED <<kind, log, refs, head, journal, cache, unannounced, suspect>>
      /\ workers[w].step \in {"idle", "resolve", "commit"}
      /\ requests' = requests \/ (requests < MaxRequests /\ requests' = requests + 1)
      /\ workers' = [workers EXCEPT ![w] = Idle] \/ workers' = [workers EXCEPT ![w] = row]
  <2>1. CASE CommitFails(w)
    BY <2>1 DEF CommitFails
  <2>2. CASE UpdateMetadata(w) \/ InvalidateCache(w)
    BY <2>2 DEF UpdateMetadata, InvalidateCache, Refresh, Begin
  <2>3. CASE Crash(w) /\ workers[w].step \in {"resolve", "commit"}
    BY <2>3 DEF Crash
  <2> QED
    BY <2>1, <2>2, <2>3
<1> HIDE DEF row
<1>4. requests' \in 0 .. MaxRequests
  BY <1>1, <1>3, ActivityAssumption DEF TypeOK
<1> QED
  BY <1>2, <1>3, <1>4, GoesOn

\* What arrives is one changeset more, or one that is there.
LEMMA ArrivesFacts ==
  ASSUME TypeOK, LogTyped, NEW b \in Branches, NEW c \in 0 .. Len(log) + 1,
         Arrives(b, c), kind' = kind
  PROVE  /\ \/ log' = log
            \/ /\ Len(log) + 1 <= MaxChangesets
               /\ \E p \in Known, a \in Branches : log' = Made(p, a)
         /\ refs' \in [Branches -> Known']
         /\ c \in Known'
         /\ kind = "hg" => c # 0
         /\ Len(log) + 1 .. Len(log') \subseteq {c}
<1>1. Len(log) \in Nat /\ {0} \cup Reachable \subseteq Known
  BY LogFacts, ReachableFacts DEF Changesets, Known
<1>2. \/ log' = log
      \/ /\ Len(log) + 1 <= MaxChangesets
         /\ \E p \in Known, a \in Branches : log' = Made(p, a)
  BY <1>1 DEF Arrives
<1>3. Known \subseteq Known'
  BY <1>2, LogChanges
<1>4. c \in Known' /\ (kind = "hg" => c # 0) /\ Len(log) + 1 .. Len(log') \subseteq {c}
  <2>1. CASE c = Len(log) + 1 /\ \E p \in {0} \cup Reachable : log' = Made(p, b)
    <3>1. Len(log') = Len(log) + 1
      BY <2>1 DEF Made, LogTyped
    <3> QED
      BY <1>1, <2>1, <3>1 DEF Known
  <2>2. CASE kind = "git" /\ c \in {0} \cup Reachable /\ log' = log
    <3>1. Len(log) + 1 .. Len(log') = {}
      BY <1>1, <2>2
    <3> QED
      BY <1>1, <1>3, <2>2, <3>1
  <2> QED
    BY <2>1, <2>2 DEF Arrives
<1>5. refs' \in [Branches -> Known']
  BY <1>3, <1>4 DEF Arrives, Pointed, TypeOK
<1> QED
  BY <1>2, <1>4, <1>5

\* A changed repository: the worker that changed it, if one did, is to tell the
\* hooks of the changeset that is new; the others are overtaken.
LEMMA RepositoryChanges ==
  ASSUME Inv, NEW w \in Workers, NEW r \in Request(Len(log')),
         workers' = [v \in Workers |-> IF v = w THEN r ELSE Overtaken(workers[v])],
         workers[w].step \notin {"journal", "row", "tip", "write"},
         UNCHANGED <<kind, head, journal, cache, unannounced, suspect>>,
         requests' \in 0 .. MaxRequests,
         \/ log' = log
         \/ /\ Len(log) + 1 <= MaxChangesets
            /\ \E p \in Known, a \in Branches : log' = Made(p, a),
         refs' \in [Branches -> Known'],
         r.step = "journal", Fits(r), ~r.alone,
         \A c \in Len(log) + 1 .. Len(log') : r.cs = c /\ r.old < c
  PROVE  Inv'
<1>1. TypeOK /\ LogTyped /\ workers \in [Workers -> Request(Len(log))] /\ Len(log) \in Nat
  BY WorkersTyped DEF Inv
<1>2. /\ LogTyped'
      /\ Len(log') \in Nat /\ Len(log) <= Len(log') /\ Len(log') <= MaxChangesets
      /\ \A c \in Changesets' : log'[c].parent \in 0 .. c - 1 /\ log'[c].branch \in Branches
      /\ Changesets' = Changesets \cup (Len(log) + 1 .. Len(log'))
      /\ Known \subseteq Known'
  BY <1>1, LogChanges
<1>3. /\ workers' \in [Workers -> Request(Len(log'))] /\ workers'[w] = r
      /\ \A v \in Workers : v # w =>
           /\ Alike(workers'[v], workers[v])
           /\ workers[v].step \in {"resolve", "commit"} => workers'[v].overtaken
  BY <1>1, <1>2, Disturbances
<1>4. TypeOK'
  BY <1>1, <1>2, <1>3 DEF TypeOK, Request, Known
<1>5. WorkersFit'
  BY <1>3, HooksKeep DEF Inv
<1>6. Announced'
  <2>1. \A c \in Len(log) + 1 .. Len(log') : Coming(c)'
    BY <1>3 DEF Coming
  <2> QED
    BY <1>2, <1>3, <2>1, AnnouncedKeeps DEF Inv
<1>7. Pending' /\ Busy'
  BY <1>3 DEF Pending, Busy
<1>8. Alone'
  BY <1>3, <1>7, AloneKeeps DEF Inv, Window
<1>9. Current'
  BY <1>7 DEF Current
<1>10. StartsFromHead'
  BY <1>3 DEF StartsFromHead, FromHead, Alike
<1> QED
  BY <1>2, <1>4, <1>5, <1>6, <1>8, <1>9, <1>10 DEF Inv

\* A push or a fetch.
LEMMA ReceiveKeeps ==
  ASSUME Inv, NEW w \in Workers, Push(w) \/ EditRemote(w) \/ PullViaApi(w)
  PROVE  Inv'
<1>1. TypeOK /\ LogTyped /\ workers \in [Workers -> Request(Len(log))] /\ Len(log) \in Nat
  BY WorkersTyped DEF Inv
<1>2. PICK op \in {"push", "fetch"}, b \in Branches : Receive(w, op, b)
  BY DEF Push, EditRemote, PullViaApi, PullChanges
<1>3. PICK c \in 0 .. Len(log) + 1 :
        /\ workers[w].step = "idle"
        /\ requests < MaxRequests
        /\ requests' = requests + 1
        /\ Arrives(b, c)
        /\ workers' = [v \in Workers |->
             IF v = w THEN Told(op, b, c) ELSE Overtaken(workers[v])]
        /\ UNCHANGED <<kind, head, journal, cache, unannounced, suspect>>
  BY <1>2 DEF Receive
<1>4. /\ \/ log' = log
         \/ /\ Len(log) + 1 <= MaxChangesets
            /\ \E p \in Known, a \in Branches : log' = Made(p, a)
      /\ refs' \in [Branches -> Known']
      /\ c \in Known'
      /\ kind = "hg" => c # 0
      /\ Len(log) + 1 .. Len(log') \subseteq {c}
  BY <1>1, <1>3, ArrivesFacts
<1>5. Known \subseteq Known' /\ Len(log') \in Nat
  BY <1>1, <1>3, <1>4, LogChanges
<1> DEFINE r == Told(op, b, c)
<1>6. refs[b] \in Known /\ refs[b] \in Nat /\ refs[b] <= Len(log)
  BY <1>1, LogFacts DEF Known
<1>7. /\ r \in Request(Len(log')) /\ r.step = "journal" /\ r.cs = c /\ ~r.alone
      /\ r.old \in {0, refs[b]}
      /\ r.op \in {op, "local"} /\ (kind # "hg" => r.op = op)
  <2> DEFINE told == [Idle EXCEPT !.step = "journal", !.cs = c]
  <2>1. /\ told \in Request(Len(log')) /\ told.step = "journal" /\ told.cs = c /\ ~told.alone
        /\ told.old = 0 /\ told.op = "local"
    BY <1>4, <1>5, IdleFacts DEF Request, Steps, Known
  <2>2. r = IF kind = "hg" THEN told
            ELSE IF op = "fetch" THEN [told EXCEPT !.op = op]
            ELSE [told EXCEPT !.op = op, !.branch = b, !.old = refs[b]]
    BY DEF Told
  <2> HIDE DEF r, told
  <2>3. refs[b] \in 0 .. Len(log')
    BY <1>5, <1>6 DEF Known
  <2>4. CASE kind = "hg"
    BY <2>1, <2>2, <2>4
  <2>5. CASE kind # "hg" /\ op = "fetch"
    BY <2>1, <2>2, <2>5 DEF Request, Ops
  <2>6. CASE kind # "hg" /\ op # "fetch"
    BY <2>1, <2>2, <2>3, <2>6 DEF Request, Ops
  <2> QED
    BY <2>4, <2>5, <2>6
<1> HIDE DEF r
<1>8. Fits(r)
  BY <1>4, <1>7 DEF Fits
<1>9. \A d \in Len(log) + 1 .. Len(log') : r.cs = d /\ r.old < d
  BY <1>1, <1>4, <1>5, <1>6, <1>7
<1>10. requests' \in 0 .. MaxRequests
  BY <1>1, <1>3, ActivityAssumption DEF TypeOK
<1>11. workers' = [v \in Workers |-> IF v = w THEN r ELSE Overtaken(workers[v])]
  BY <1>3 DEF r
<1> QED
  BY <1>3, <1>4, <1>7, <1>8, <1>9, <1>10, <1>11, RepositoryChanges

\* A commit made on the web.
LEMMA CommitKeeps ==
  ASSUME Inv, NEW w \in Workers, Commit(w)
  PROVE  Inv'
<1>1. TypeOK /\ LogTyped /\ workers \in [Workers -> Request(Len(log))] /\ Len(log) \in Nat
  BY WorkersTyped DEF Inv
<1> DEFINE q == workers[w]
           new == Len(log) + 1
           r == [Idle EXCEPT !.step = "journal", !.cs = new]
<1>2. /\ q.step = "commit" /\ new <= MaxChangesets
      /\ log' = Made(q.cs, q.branch) /\ refs' = Pointed(q.branch, new)
      /\ workers' = [v \in Workers |-> IF v = w THEN r ELSE Overtaken(workers[v])]
      /\ UNCHANGED <<kind, head, journal, cache, requests, unannounced, suspect>>
  BY DEF Commit
<1>3. q.cs \in Known /\ q.branch \in Branches
  BY <1>1 DEF Request, Known
<1>4. Len(log') = new
  BY <1>1, <1>2 DEF Made, LogTyped
<1>5. /\ r \in Request(Len(log')) /\ r.step = "journal" /\ r.cs = new /\ ~r.alone
      /\ r.old = 0 /\ r.op = "local"
  <2>1. new \in Nat /\ new \in 0 .. new /\ Idle \in Request(new)
    BY <1>1, IdleFacts
  <2> QED
    BY <1>4, <2>1, IdleFacts DEF Request, Steps
<1> HIDE DEF r
<1>6. Fits(r)
  BY <1>1, <1>5 DEF Fits
<1>7. Known \subseteq Known' /\ new \in Known'
  BY <1>1, <1>4 DEF Known
<1>8. refs' \in [Branches -> Known']
  BY <1>1, <1>2, <1>3, <1>7 DEF Pointed, TypeOK
<1>9. \A d \in Len(log) + 1 .. Len(log') : r.cs = d /\ r.old < d
  BY <1>1, <1>4, <1>5
<1>10. requests' \in 0 .. MaxRequests
  BY <1>1, <1>2 DEF TypeOK
<1> QED
  BY <1>2, <1>3, <1>5, <1>6, <1>8, <1>9, <1>10, RepositoryChanges

\* A push past the hooks: nobody is alone any more.
LEMMA PushOutsideKeeps ==
  ASSUME Inv, NEW b \in Branches, PushOutside(b)
  PROVE  Inv'
<1>1. TypeOK /\ LogTyped /\ workers \in [Workers -> Request(Len(log))] /\ Len(log) \in Nat
  BY WorkersTyped DEF Inv
<1>2. PICK c \in 0 .. Len(log) + 1 :
        /\ requests < MaxRequests /\ requests' = requests + 1
        /\ Arrives(b, c)
        /\ workers' = [v \in Workers |-> Disturbed(Overtaken(workers[v]))]
        /\ unannounced' = unannounced \cup (Len(log) + 1 .. Len(log'))
        /\ suspect' = TRUE
        /\ UNCHANGED <<kind, head, journal, cache>>
  BY DEF PushOutside
<1>3. /\ \/ log' = log
         \/ /\ Len(log) + 1 <= MaxChangesets
            /\ \E p \in Known, a \in Branches : log' = Made(p, a)
      /\ refs' \in [Branches -> Known']
  BY <1>1, <1>2, ArrivesFacts
<1>4. /\ LogTyped'
      /\ Len(log') \in Nat /\ Len(log) <= Len(log') /\ Len(log') <= MaxChangesets
      /\ \A d \in Changesets' : log'[d].parent \in 0 .. d - 1 /\ log'[d].branch \in Branches
      /\ Changesets' = Changesets \cup (Len(log) + 1 .. Len(log'))
      /\ Known \subseteq Known'
  BY <1>1, <1>2, <1>3, LogChanges
<1>5. /\ workers' \in [Workers -> Request(Len(log'))]
      /\ \A v \in Workers :
           /\ Alike(workers'[v], workers[v]) /\ ~workers'[v].alone
           /\ workers[v].step \in {"resolve", "commit"} => workers'[v].overtaken
  BY <1>1, <1>2, <1>4, Disturbances
<1>6. requests' \in 0 .. MaxRequests
  BY <1>1, <1>2, ActivityAssumption DEF TypeOK
<1>7. TypeOK'
  BY <1>1, <1>2, <1>3, <1>4, <1>5, <1>6 DEF TypeOK, Request, Known
<1>8. WorkersFit'
  BY <1>2, <1>5, HooksKeep DEF Inv
<1>9. Announced'
  BY <1>2, <1>4, <1>5, AnnouncedKeeps DEF Inv
<1>10. Alone' /\ Current'
  BY <1>2, <1>5 DEF Alone, Current
<1>11. StartsFromHead'
  BY <1>5 DEF StartsFromHead, FromHead, Alike
<1> QED
  BY <1>4, <1>7, <1>8, <1>9, <1>10, <1>11 DEF Inv

\* A step of a hook leaves the repository as it is.
LEMMA HookMoves ==
  ASSUME Inv, NEW w \in Workers,
         UNCHANGED <<kind, log, refs, requests>>,
         workers' \in [Workers -> Request(Len(log))],
         workers'[w].step \in {"idle", "row", "tip", "write"},
         \A v \in Workers : v # w => Alike(workers'[v], workers[v]),
         head' \in Branches, cache' \in Known, suspect' \in BOOLEAN,
         journal \subseteq journal', journal' \subseteq Changesets,
         unannounced \subseteq unannounced', unannounced' \subseteq Changesets,
         workers[w].step = "journal" /\ workers[w].old < workers[w].cs =>
           workers[w].cs \in journal' \cup unannounced'
  PROVE  /\ TypeOK' /\ LogTyped' /\ WorkersFit' /\ Announced' /\ StartsFromHead'
         /\ Tip' = Tip
<1>1. TypeOK /\ LogTyped
  BY DEF Inv
<1>2. TypeOK' /\ LogTyped'
  BY <1>1 DEF TypeOK, LogTyped, Changesets, Known, Request
<1>3. WorkersFit'
  <2>1. Fits(workers'[w])
    BY DEF Fits
  <2> QED
    BY <2>1, HooksKeep DEF Inv
<1>4. Announced'
  BY AnnouncedKeeps DEF Inv, Changesets
<1>5. StartsFromHead'
  <2>1. FromHead(workers'[w])
    BY DEF FromHead
  <2> QED
    BY <2>1, HeadsKeep DEF Inv
<1>6. Tip' = Tip
  BY DEF Tip, Reachable, Ancestors, Changesets
<1> QED
  BY <1>2, <1>3, <1>4, <1>5, <1>6

\* What a hook was told, it puts into the journal, or it is an exception.
LEMMA RevsFacts ==
  ASSUME Inv, NEW w \in Workers, workers[w].step = "journal"
  PROVE  /\ Revs(workers[w]) \subseteq Changesets /\ Untold(workers[w]) \subseteq Changesets
         /\ workers[w].old < workers[w].cs =>
              workers[w].cs \in Revs(workers[w]) \cup Untold(workers[w])
<1>1. TypeOK /\ LogTyped /\ workers \in [Workers -> Request(Len(log))] /\ Len(log) \in Nat
  BY WorkersTyped DEF Inv
<1> DEFINE r == workers[w]
<1>2. Fits(r) /\ r.step = "journal"
  BY DEF Inv, WorkersFit
<1>3. /\ r.cs \in Known /\ r.old \in Known /\ r.cs \in Nat /\ r.old \in Nat
      /\ r.cs # 0 => r.cs \in Changesets
  BY <1>1 DEF Request, Known, Changesets
<1> HIDE DEF r
<1>4. Ancestors(r.cs) \subseteq Changesets /\ (r.cs # 0 => r.cs \in Ancestors(r.cs))
  BY <1>1, <1>3, ReachableFacts
<1>5. r.old < r.cs => r.cs \notin Ancestors(r.old)
  <2>1. Line(log, r.old) \subseteq 1 .. r.old
    BY <1>1, <1>3, LogFacts, LineBelow DEF Known
  <2>2. Ancestors(r.old) = Line(log, r.old)
    BY AncestorsAreLine
  <2> QED
    BY <1>3, <2>1, <2>2
<1>6. Revs(r) \subseteq Changesets
  BY <1>2, <1>3, <1>4 DEF Fits, Revs, GitRevs
<1>7. Untold(r) \subseteq Changesets
  BY <1>3 DEF Untold
<1>8. ASSUME r.old < r.cs PROVE r.cs \in Revs(r) \cup Untold(r)
  <2>1. r.cs # 0
    BY <1>3, <1>8
  <2>2. CASE kind = "hg" \/ r.op = "local"
    BY <2>2 DEF Revs
  <2>3. CASE kind = "git" /\ r.op = "fetch"
    BY <2>1, <2>3 DEF Untold
  <2>4. CASE kind = "git" /\ r.op = "push"
    BY <1>4, <1>5, <1>8, <2>1, <2>4 DEF Revs, GitRevs, Untold
  <2> QED
    BY <1>1, <1>2, <2>2, <2>3, <2>4 DEF Fits, TypeOK
<1> QED
  BY <1>6, <1>7, <1>8 DEF r

\* The journal is written; the cache is to follow.
LEMMA JournalKeeps ==
  ASSUME Inv, NEW w \in Workers, Journal(w)
  PROVE  Inv'
<1>1. TypeOK /\ LogTyped /\ workers \in [Workers -> Request(Len(log))] /\ Len(log) \in Nat
  BY WorkersTyped DEF Inv
<1> DEFINE row == [Idle EXCEPT !.step = "row"]
<1>2. /\ workers[w].step = "journal"
      /\ head' = NewHead(workers[w])
      /\ journal' = journal \cup Revs(workers[w])
      /\ unannounced' = unannounced \cup Untold(workers[w])
      /\ workers' = [workers EXCEPT ![w] = row]
      /\ UNCHANGED <<kind, log, refs, cache, requests, suspect>>
  BY DEF Journal
<1>3. row \in Request(Len(log)) /\ row.step = "row" /\ ~row.alone
  BY <1>1, IdleFacts DEF Request, Steps
<1> HIDE DEF row
<1>4. /\ workers' \in [Workers -> Request(Len(log))] /\ workers'[w] = row
      /\ \A v \in Workers : v # w => Alike(workers'[v], workers[v])
  BY <1>1, <1>2, <1>3 DEF Alike
<1>5. head' \in Branches /\ cache' \in Known /\ suspect' \in BOOLEAN
  BY <1>1, <1>2 DEF NewHead, TypeOK, Request
<1>6. /\ journal \subseteq journal' /\ journal' \subseteq Changesets
      /\ unannounced \subseteq unannounced' /\ unannounced' \subseteq Changesets
      /\ workers[w].old < workers[w].cs => workers[w].cs \in journal' \cup unannounced'
  BY <1>1, <1>2, RevsFacts DEF TypeOK
<1>7. /\ TypeOK' /\ LogTyped' /\ WorkersFit' /\ Announced' /\ StartsFromHead'
      /\ Tip' = Tip
  BY <1>2, <1>3, <1>4, <1>5, <1>6, HookMoves
<1>8. Pending' /\ Busy'
  BY <1>3, <1>4 DEF Pending, Busy
<1>9. Alone'
  BY <1>2, <1>3, <1>4, <1>8, AloneKeeps DEF Inv, Window
<1> QED
  BY <1>7, <1>8, <1>9 DEF Inv, Current

\* A worker reads the row: from now on no other one is alone.
LEMMA ReadRowKeeps ==
  ASSUME Inv, NEW w \in Workers, ReadRow(w)
  PROVE  Inv'
<1>1. TypeOK /\ LogTyped /\ workers \in [Workers -> Request(Len(log))] /\ Len(log) \in Nat
  BY WorkersTyped DEF Inv
<1> DEFINE others == {v \in Workers \ {w} : workers[v].step \in Window}
           r == [Idle EXCEPT !.step = "tip", !.row = cache, !.alone = (others = {})]
<1>2. /\ workers[w].step = "row"
      /\ workers' = [v \in Workers |-> IF v = w THEN r ELSE Disturbed(workers[v])]
      /\ UNCHANGED <<kind, log, refs, head, journal, cache, requests, unannounced, suspect>>
  BY DEF ReadRow
<1>3. /\ r \in Request(Len(log)) /\ r.step = "tip" /\ r.row = cache
      /\ r.alone => others = {}
  <2>1. cache \in 0 .. Len(log) /\ (others = {}) \in BOOLEAN
    BY <1>1 DEF TypeOK, Known
  <2> HIDE DEF others
  <2> QED
    BY <1>1, <2>1, IdleFacts DEF Request, Steps
<1> HIDE DEF r
<1>4. /\ workers' \in [Workers -> Request(Len(log))] /\ workers'[w] = r
      /\ \A v \in Workers : v # w => Alike(workers'[v], workers[v]) /\ ~workers'[v].alone
  <2>1. \A v \in Workers : /\ Disturbed(workers[v]) \in Request(Len(log))
                           /\ Alike(Disturbed(workers[v]), workers[v])
                           /\ ~Disturbed(workers[v]).alone
    BY <1>1, Disturbances
  <2> QED
    BY <1>2, <1>3, <2>1
<1>5. /\ head' \in Branches /\ cache' \in Known /\ suspect' \in BOOLEAN
      /\ journal' \subseteq Changesets /\ unannounced' \subseteq Changesets
  BY <1>1, <1>2 DEF TypeOK
<1>6. /\ TypeOK' /\ LogTyped' /\ WorkersFit' /\ Announced' /\ StartsFromHead'
      /\ Tip' = Tip
  BY <1>2, <1>3, <1>4, <1>5, HookMoves
<1>7. Busy'
  BY <1>3, <1>4 DEF Busy
<1>8. Alone'
  <2>1. r.alone => \A v \in Workers \ {w} : workers'[v].step \notin Window
    BY <1>3, <1>4 DEF Alike
  <2> QED
    BY <1>2, <1>3, <1>4, <2>1 DEF Alone, Window
<1> QED
  BY <1>6, <1>7, <1>8 DEF Inv, Current

\* A worker reads the tip, which is the one there is.
LEMMA ReadTipKeeps ==
  ASSUME Inv, NEW w \in Workers, ReadTip(w)
  PROVE  Inv'
<1>1. TypeOK /\ LogTyped /\ workers \in [Workers -> Request(Len(log))] /\ Len(log) \in Nat
  BY WorkersTyped DEF Inv
<1> DEFINE q == workers[w]
           r == [q EXCEPT !.step = "write", !.tip = Tip]
<1>2. /\ q.step = "tip" /\ ~Empty
      /\ workers' = [workers EXCEPT ![w].step = "write", ![w].tip = Tip]
      /\ UNCHANGED <<kind, log, refs, head, journal, cache, requests, unannounced, suspect>>
  BY DEF ReadTip
<1>3. workers' = [workers EXCEPT ![w] = r]
  BY <1>1, <1>2
<1>4. q \in Request(Len(log)) /\ Tip \in 0 .. Len(log)
  BY <1>1, <1>2, TipIsThere DEF Known
<1>5. /\ r \in Request(Len(log)) /\ r.step = "write" /\ r.tip = Tip /\ r.row = q.row
      /\ r.alone = q.alone
  BY <1>4 DEF Request, Steps
<1> HIDE DEF r
<1>6. /\ workers' \in [Workers -> Request(Len(log))] /\ workers'[w] = r
      /\ \A v \in Workers : v # w => workers'[v] = workers[v]
      /\ \A v \in Workers : v # w => Alike(workers'[v], workers[v])
  BY <1>1, <1>3, <1>5 DEF Alike
<1>7. /\ head' \in Branches /\ cache' \in Known /\ suspect' \in BOOLEAN
      /\ journal' \subseteq Changesets /\ unannounced' \subseteq Changesets
  BY <1>1, <1>2 DEF TypeOK
<1>8. /\ TypeOK' /\ LogTyped' /\ WorkersFit' /\ Announced' /\ StartsFromHead'
      /\ Tip' = Tip
  BY <1>2, <1>5, <1>6, <1>7, HookMoves
<1>9. Busy'
  BY <1>5, <1>6 DEF Busy
<1>10. Alone'
  <2>1. \A v \in Workers : v # w => ~workers[v].alone
    BY <1>2 DEF Inv, Alone, Window
  <2>2. q.alone => /\ q.row = cache
                   /\ \A v \in Workers \ {w} : workers[v].step \notin Window
    BY DEF Inv, Alone
  <2> QED
    BY <1>2, <1>5, <1>6, <1>8, <2>1, <2>2 DEF Alone, Window
<1> QED
  BY <1>8, <1>9, <1>10 DEF Inv, Current

\* A worker that finds no tip, or dies, leaves the cache as it was, and others
\* that are not alone; one that writes it, and was alone, writes the tip.
LEMMA HookEndKeeps ==
  ASSUME Inv, NEW w \in Workers,
         \/ NoTip(w) \/ WriteCache(w)
         \/ Crash(w) /\ workers[w].step \notin {"resolve", "commit"}
  PROVE  Inv'
<1>1. TypeOK /\ LogTyped /\ workers \in [Workers -> Request(Len(log))] /\ Len(log) \in Nat
  BY WorkersTyped DEF Inv
<1>2. /\ UNCHANGED <<kind, log, refs, head, journal, requests>>
      /\ workers[w].step \in {"journal", "row", "tip", "write"}
      /\ workers'[w] = Idle
      /\ \A v \in Workers : v # w => \/ workers'[v] = workers[v]
                                     \/ workers'[v] = Disturbed(workers[v])
      /\ workers' \in [Workers -> Request(Len(log))]
  <2>1. CASE NoTip(w) \/ WriteCache(w)
    BY <1>1, <2>1, IdleFacts DEF NoTip, WriteCache
  <2>2. CASE Crash(w) /\ workers[w].step \notin {"resolve", "commit"}
    <3>1. /\ workers' = [v \in Workers |-> IF v = w THEN Idle ELSE Disturbed(workers[v])]
          /\ UNCHANGED <<kind, log, refs, head, journal, requests>>
          /\ workers[w].step # "idle"
      BY <2>2 DEF Crash
    <3>2. workers' \in [Workers -> Request(Len(log))]
      BY <1>1, <3>1, IdleFacts, Disturbances
    <3>3. workers[w].step \in Steps
      BY <1>1 DEF Request
    <3> QED
      BY <2>2, <3>1, <3>2, <3>3 DEF Steps
  <2> QED
    BY <2>1, <2>2
<1>3. \A v \in Workers : v # w => Alike(workers'[v], workers[v])
  <2>1. \A v \in Workers : /\ Alike(Disturbed(workers[v]), workers[v])
                           /\ Alike(workers[v], workers[v])
    BY <1>1, Disturbances
  <2> QED
    BY <1>2, <2>1
<1>4. workers'[w].step = "idle" /\ ~workers'[w].alone
  BY <1>2, IdleFacts
<1>5. cache' \in Known
  BY <1>1 DEF NoTip, WriteCache, Crash, CacheAfter, TypeOK, Request, Known
<1>6. suspect' \in BOOLEAN
  <2>1. workers[w].alone \in BOOLEAN
    BY <1>1 DEF Request
  <2> QED
    BY <1>1, <2>1 DEF NoTip, WriteCache, Crash, TypeOK
<1>7. /\ unannounced \subseteq unannounced' /\ unannounced' \subseteq Changesets
      /\ workers[w].step = "journal" /\ workers[w].old < workers[w].cs =>
           workers[w].cs \in journal' \cup unannounced'
  <2>1. /\ workers[w].cs \in Known /\ workers[w].old \in Nat
        /\ workers[w].cs # 0 => workers[w].cs \in Changesets
    BY <1>1 DEF Request, Known, Changesets
  <2>2. unannounced \subseteq Changesets
    BY <1>1 DEF TypeOK
  <2>3. CASE NoTip(w) \/ WriteCache(w)
    BY <2>2, <2>3 DEF NoTip, WriteCache
  <2>4. CASE Crash(w) /\ workers[w].step \notin {"resolve", "commit"}
    <3>1. unannounced' = unannounced \cup
            (IF workers[w].step # "journal" THEN {} ELSE {workers[w].cs} \ {0})
      BY <2>4 DEF Crash
    <3>2. workers[w].old < workers[w].cs => workers[w].cs # 0
      BY <2>1 DEF Known
    <3> QED
      BY <2>1, <2>2, <3>1, <3>2
  <2> QED
    BY <2>3, <2>4
<1>8. head' \in Branches /\ journal' \subseteq Changesets /\ journal \subseteq journal'
  BY <1>1, <1>2 DEF TypeOK
<1>9. /\ TypeOK' /\ LogTyped' /\ WorkersFit' /\ Announced' /\ StartsFromHead'
      /\ Tip' = Tip
  BY <1>2, <1>3, <1>4, <1>5, <1>6, <1>7, <1>8, HookMoves
<1>10. CASE WriteCache(w)
  <2>1. /\ workers[w].step = "write" /\ cache' = CacheAfter(workers[w])
        /\ suspect' = ~workers[w].alone
        /\ \A v \in Workers : v # w => workers'[v] = workers[v]
    BY <1>1, <1>10 DEF WriteCache
  <2>2. \A v \in Workers : v # w => ~workers[v].alone
    BY <2>1 DEF Inv, Alone, Window
  <2>3. Alone'
    BY <1>4, <2>1, <2>2 DEF Alone
  <2>4. ASSUME workers[w].alone PROVE cache' = Tip \/ Pending
    BY <2>1, <2>4 DEF Inv, Alone, CacheAfter
  <2>5. Pending => Busy'
    BY <2>1 DEF Pending, Busy
  <2>6. Current'
    BY <1>9, <2>1, <2>4, <2>5 DEF Current
  <2> QED
    BY <1>9, <2>3, <2>6 DEF Inv
<1>11. CASE NoTip(w)
  <2>1. workers[w].step = "tip" /\ suspect' = TRUE /\ cache' = cache
        /\ \A v \in Workers : v # w => workers'[v] = workers[v]
    BY <1>1, <1>11 DEF NoTip
  <2>2. \A v \in Workers : v # w => ~workers[v].alone
    BY <2>1 DEF Inv, Alone, Window
  <2>3. Alone'
    BY <1>4, <2>1, <2>2 DEF Alone
  <2> QED
    BY <1>9, <2>1, <2>3 DEF Inv, Current
<1>12. CASE Crash(w) /\ workers[w].step \notin {"resolve", "commit"}
  <2>1. /\ workers' = [v \in Workers |-> IF v = w THEN Idle ELSE Disturbed(workers[v])]
        /\ suspect' = TRUE
    BY <1>12 DEF Crash
  <2>2. \A v \in Workers : ~workers'[v].alone
    <3>1. \A v \in Workers : ~Disturbed(workers[v]).alone
      BY <1>1, Disturbances
    <3> QED
      BY <1>4, <2>1, <3>1
  <2> QED
    BY <1>9, <2>1, <2>2 DEF Inv, Current, Alone
<1> QED
  BY <1>10, <1>11, <1>12

-----------------------------------------------------------------------------
(* The invariant                                                           *)

\* A repository begins empty, and nobody is at work.
LEMMA InitKeeps == Init => Inv
<1> SUFFICES ASSUME Init PROVE Inv
  OBVIOUS
<1>1. /\ kind \in {"git", "hg"} /\ log = <<>> /\ refs = [b \in Branches |-> 0] /\ head = Main
      /\ journal = {} /\ cache = 0 /\ workers = [w \in Workers |-> Idle]
      /\ requests = 0 /\ unannounced = {} /\ suspect = FALSE
  BY DEF Init
<1>2. Len(log) = 0 /\ log \in Seq(Changeset) /\ Changesets = {} /\ Known = {0}
  BY <1>1 DEF Changesets, Known
<1>3. workers \in [Workers -> Request(Len(log))] /\ \A w \in Workers : workers[w] = Idle
  BY <1>1, <1>2, IdleFacts
<1>4. TypeOK /\ LogTyped
  <2>1. Main \in Branches /\ MaxChangesets \in Nat /\ MaxRequests \in Nat
    BY ActivityAssumption
  <2>2. refs \in [Branches -> Known] /\ cache \in Known
    BY <1>1, <1>2
  <2>3. requests \in 0 .. MaxRequests /\ Len(log) <= MaxChangesets
    BY <1>1, <1>2, <2>1
  <2>4. kind \in {"git", "hg"} /\ head \in Branches /\ suspect \in BOOLEAN
    BY <1>1, <2>1
  <2> QED
    BY <1>1, <1>2, <1>3, <2>2, <2>3, <2>4 DEF TypeOK, LogTyped, Request, Known
<1>5. WorkersFit /\ Alone /\ StartsFromHead
  BY <1>3, IdleFacts DEF WorkersFit, Fits, Alone, StartsFromHead, FromHead
<1>6. Empty
  BY <1>1, ActivityAssumption DEF Empty
<1> QED
  BY <1>2, <1>4, <1>5, <1>6 DEF Inv, Announced, Current

\* Every step keeps the invariant.
LEMMA NextKeeps == Inv /\ [Next]_vars => Inv'
<1> SUFFICES ASSUME Inv, [Next]_vars PROVE Inv'
  OBVIOUS
<1>1. CASE UNCHANGED vars
  <2>1. UNCHANGED <<kind, log, refs, head, journal, cache, workers, requests,
                    unannounced, suspect>>
    BY <1>1 DEF vars
  <2>2. TypeOK' /\ LogTyped' /\ WorkersFit' /\ Announced'
    BY <2>1 DEF Inv, TypeOK, LogTyped, Changesets, Known, WorkersFit, Fits, Announced, Coming
  <2>3. Tip' = Tip /\ Empty' = Empty /\ Pending' = Pending /\ Busy' = Busy
    BY <2>1 DEF Tip, Reachable, Ancestors, Changesets, Empty, Pending, Busy
  <2>4. Alone' /\ Current'
    BY <2>1, <2>3 DEF Inv, Alone, Current
  <2>5. StartsFromHead'
    BY <2>1, HeadsKeep DEF Inv, Alike
  <2> QED
    BY <2>2, <2>4, <2>5 DEF Inv
<1>2. ASSUME NEW b \in Branches, PushOutside(b) PROVE Inv'
  BY <1>2, PushOutsideKeeps
<1>3. ASSUME NEW w \in Workers, Push(w) \/ EditRemote(w) \/ PullViaApi(w) PROVE Inv'
  BY <1>3, ReceiveKeeps
<1>4. ASSUME NEW w \in Workers, WebStep(w) PROVE Inv'
  BY <1>4, OpenKeeps, ResolveKeeps, CommitKeeps, GoesOnKeeps DEF WebStep
<1>5. ASSUME NEW w \in Workers, HookStep(w) PROVE Inv'
  <2>1. CASE Journal(w) \/ ReadRow(w) \/ ReadTip(w)
    BY <2>1, JournalKeeps, ReadRowKeeps, ReadTipKeeps
  <2>2. CASE NoTip(w) \/ WriteCache(w)
    BY <2>2, HookEndKeeps
  <2> QED
    BY <1>5, <2>1, <2>2 DEF HookStep
<1>6. ASSUME NEW w \in Workers, UpdateMetadata(w) \/ InvalidateCache(w) \/ Crash(w) PROVE Inv'
  BY <1>6, GoesOnKeeps, HookEndKeeps
<1> QED
  BY <1>1, <1>2, <1>3, <1>4, <1>5, <1>6 DEF Next

\* What the properties below rest on.
THEOREM ActivityInvariant == Spec => []Inv
BY InitKeeps, NextKeeps, PTL DEF Spec

\* TypeOK: parents come before their children, and what workers, refs, the cache
\* and the journal name are changesets that there are.
THEOREM TypesCorrect == Spec => []TypeOK
<1>1. Inv => TypeOK
  BY DEF Inv
<1> QED
  BY <1>1, ActivityInvariant, PTL

\* The row's changeset cache names the tip once nobody is at work, but for the
\* exceptions that CacheFollows lists.
THEOREM CacheNamesTheTip == Spec => []CacheFollows
<1>1. Inv => CacheFollows
  BY DEF Inv, Current, Busy, CacheFollows, Quiet
<1> QED
  BY <1>1, ActivityInvariant, PTL

\* Every changeset that came through Kallithea gets into the journal, but for the
\* exceptions that EveryChangesetAnnounced lists.
THEOREM ChangesetsAreAnnounced == Spec => []EveryChangesetAnnounced
<1>1. Inv => EveryChangesetAnnounced
  BY DEF Inv, Announced, Coming, EveryChangesetAnnounced
<1> QED
  BY <1>1, ActivityInvariant, PTL

-----------------------------------------------------------------------------
(* Edits on the web                                                        *)

\* Only a commit takes a worker from committing to the hooks.
LEMMA OnlyCommitCommits ==
  ASSUME Inv, [Next]_vars, NEW w \in Workers,
         workers[w].step = "commit", workers'[w].step = "journal"
  PROVE  Commit(w)
<1>1. workers \in [Workers -> Request(Len(log))] /\ Len(log) \in Nat
  BY WorkersTyped DEF Inv
<1>2. Overtaken(workers[w]).step = "commit" /\ Disturbed(workers[w]).step = "commit"
      /\ Disturbed(Overtaken(workers[w])).step = "commit"
  <2>1. /\ Alike(Overtaken(workers[w]), workers[w])
        /\ Alike(Disturbed(workers[w]), workers[w])
        /\ Alike(Disturbed(Overtaken(workers[w])), workers[w])
    BY <1>1, Disturbances
  <2> QED
    BY <2>1 DEF Alike
<1>3. CASE UNCHANGED vars
  BY <1>3 DEF vars
<1>4. ASSUME NEW b \in Branches, PushOutside(b) PROVE FALSE
  BY <1>2, <1>4 DEF PushOutside
<1>5. ASSUME NEW v \in Workers, Push(v) \/ EditRemote(v) \/ PullViaApi(v) PROVE FALSE
  BY <1>2, <1>5 DEF Push, EditRemote, PullViaApi, PullChanges, Receive
<1>6. ASSUME NEW v \in Workers, Edit(v) \/ Delete(v) \/ Add(v) PROVE FALSE
  BY <1>1, <1>6 DEF Edit, Delete, Add, Open, Begin
<1>7. ASSUME NEW v \in Workers, Resolve(v) PROVE FALSE
  BY <1>1, <1>7 DEF Resolve
<1>8. ASSUME NEW v \in Workers, Commit(v) PROVE v = w
  BY <1>2, <1>8 DEF Commit
<1>9. ASSUME NEW v \in Workers, CommitFails(v) PROVE FALSE
  BY <1>1, <1>9, IdleFacts DEF CommitFails, Idle
<1>10. ASSUME NEW v \in Workers, Journal(v) \/ ReadRow(v) PROVE FALSE
  BY <1>1, <1>2, <1>10 DEF Journal, ReadRow
<1>11. ASSUME NEW v \in Workers, ReadTip(v) \/ NoTip(v) \/ WriteCache(v) PROVE FALSE
  BY <1>1, <1>11 DEF ReadTip, NoTip, WriteCache
<1>12. ASSUME NEW v \in Workers, UpdateMetadata(v) \/ InvalidateCache(v) PROVE FALSE
  BY <1>1, <1>12 DEF UpdateMetadata, InvalidateCache, Refresh, Begin
<1>13. ASSUME NEW v \in Workers, Crash(v) PROVE FALSE
  <2>1. workers'[w] \in {Idle, workers[w], Disturbed(workers[w])}
    BY <1>1, <1>13 DEF Crash
  <2> QED
    BY <1>2, <2>1, IdleFacts
<1> QED
  BY <1>3, <1>4, <1>5, <1>6, <1>7, <1>8, <1>9, <1>10, <1>11, <1>12, <1>13
     DEF Next, WebStep, HookStep

\* A commit on a head takes its place, and descends from it.
LEMMA CommitExtends ==
  ASSUME Inv, Inv', NEW w \in Workers, Commit(w),
         workers[w].op \in Edits, ~workers[w].overtaken
  PROVE  /\ Reachable \subseteq Reachable'
         /\ \A b \in Branches : Cardinality(Heads(b)') <= Cardinality(Heads(b))
<1>1. TypeOK /\ LogTyped /\ workers \in [Workers -> Request(Len(log))] /\ Len(log) \in Nat
  BY WorkersTyped DEF Inv
<1> DEFINE new == Len(log) + 1
<1>2. PICK cs, a :
        /\ cs = workers[w].cs /\ a = workers[w].branch
        /\ workers[w].step = "commit" /\ new <= MaxChangesets
        /\ log' = Made(cs, a) /\ refs' = Pointed(a, new) /\ kind' = kind
  BY DEF Commit
<1>3. cs \in Known /\ a \in Branches /\ cs \in Heads(a)
  BY <1>1, <1>2 DEF Request, Known, Inv, StartsFromHead, FromHead
<1> DEFINE e == [parent |-> cs, branch |-> IF kind = "git" THEN Main ELSE a]
<1>4. cs \in Changesets /\ cs # new /\ new # 0
  BY <1>1, <1>3, HeadFacts DEF Changesets
<1>5. /\ Len(log') = new /\ log'[new] = e
      /\ \A c \in Changesets : log'[c] = log[c]
      /\ Changesets' = Changesets \cup {new}
  <2>1. log' = Append(log, e) /\ log \in Seq(Changeset)
    BY <1>1, <1>2 DEF Made, LogTyped
  <2> HIDE DEF e
  <2> QED
    BY <1>1, <2>1 DEF Changesets
<1>6. e.parent = cs /\ (kind = "hg" => e.branch = a)
  OBVIOUS
<1> HIDE DEF e
<1>7. kind = "git" \/ kind = "hg"
  BY <1>1 DEF TypeOK
<1>8. CASE kind = "git"
  <2>1. /\ refs' = [refs EXCEPT ![a] = new] /\ refs \in [Branches -> Known]
        /\ \A b \in Branches : Heads(b) = {refs[b]} \ {0} /\ Heads(b)' = {refs'[b]} \ {0}
    BY <1>1, <1>2, <1>8 DEF Pointed, Heads, TypeOK
  <2>2. refs[a] = cs /\ refs'[a] = new /\ \A b \in Branches : b # a => refs'[b] = refs[b]
    BY <1>3, <2>1
  <2>3. Reachable = UNION {Line(log, refs[b]) : b \in Branches}
        /\ Reachable' = UNION {Line(log', refs'[b]) : b \in Branches}
    BY <1>2, <1>8, Zenon DEF Reachable, Ancestors, Line
  <2>4. \A c \in Known : Line(log', c) = Line(log, c)
    BY <1>1, <1>5, AncestorsStay, AncestorsAreLine DEF Inv
  <2>5. Line(log, cs) \subseteq Line(log', new)
    <3>1. InOrder(log') /\ new \in 0 .. Len(log')
      BY <1>1, <1>5 DEF Inv, InOrder, TypeOK, LogTyped, Changesets
    <3>2. Line(log', new) = {new} \cup Line(log', cs)
      BY <1>4, <1>5, <1>6, <3>1, LineEquation
    <3> QED
      BY <1>3, <2>4, <3>2
  <2>6. Reachable \subseteq Reachable'
    <3>1. \A b \in Branches : Line(log, refs[b]) \subseteq Line(log', refs'[b])
      BY <2>1, <2>2, <2>4, <2>5
    <3> QED
      BY <2>3, <3>1
  <2>7. ASSUME NEW b \in Branches PROVE Cardinality(Heads(b)') <= Cardinality(Heads(b))
    <3>1. CASE b = a
      <4>1. Heads(b) = {cs} /\ Heads(b)' = {new}
        BY <1>4, <2>1, <2>2, <3>1 DEF Changesets
      <4> QED
        <5>1. Cardinality(Heads(b)) = 1 /\ Cardinality(Heads(b)') = 1
          BY <4>1, FS_Singleton
        <5> QED
          BY <5>1
    <3>2. CASE b # a
      <4>1. Heads(b)' = Heads(b)
        BY <2>1, <2>2, <3>2
      <4>2. IsFiniteSet(Heads(b))
        BY <1>1, HeadsFinite
      <4> QED
        BY <4>1, <4>2, FS_CardinalityType
    <3> QED
      BY <3>1, <3>2
  <2> QED
    BY <2>6, <2>7
<1>9. CASE kind = "hg"
  <2>1. Reachable \subseteq Reachable'
    BY <1>2, <1>5, <1>9 DEF Reachable
  <2>2. new \notin Changesets
    BY <1>1 DEF Changesets
  <2>3. \A c, b : Children(c, b) \subseteq Children(c, b)'
    BY <1>5 DEF Children
  <2>4. new \in Children(cs, a)'
    BY <1>5, <1>6, <1>9 DEF Children
  <2>5. /\ \A b : Heads(b) = {c \in Changesets : log[c].branch = b /\ Children(c, b) = {}}
        /\ \A b : Heads(b)' = {c \in Changesets' : log'[c].branch = b /\ Children(c, b)' = {}}
    BY <1>2, <1>9 DEF Heads
  <2>6. ASSUME NEW b \in Branches PROVE Cardinality(Heads(b)') <= Cardinality(Heads(b))
    <3>1. IsFiniteSet(Heads(b)) /\ Cardinality(Heads(b)) \in Nat
      BY <1>1, HeadsFinite, FS_CardinalityType
    <3>2. CASE b # a
      <4>1. Heads(b)' \subseteq Heads(b)
        BY <1>5, <1>6, <1>9, <2>3, <2>5, <3>2
      <4> QED
        BY <3>1, <4>1, FS_Subset
    <3>3. CASE b = a
      <4> DEFINE rest == Heads(b) \ {cs}
      <4>1. Heads(b)' \subseteq rest \cup {new}
        BY <1>5, <2>3, <2>4, <2>5, <3>3
      <4>2. IsFiniteSet(rest) /\ Cardinality(rest) = Cardinality(Heads(b)) - 1
        BY <1>3, <3>1, <3>3, FS_RemoveElement
      <4>3. new \notin rest
        BY <2>2, <2>5
      <4> HIDE DEF rest
      <4>4. IsFiniteSet(rest \cup {new}) /\ Cardinality(rest \cup {new}) = Cardinality(rest) + 1
        BY <4>2, <4>3, FS_AddElement
      <4>5. Cardinality(Heads(b)') <= Cardinality(rest \cup {new})
        BY <4>1, <4>4, FS_Subset
      <4> QED
        BY <3>1, <4>2, <4>4, <4>5
    <3> QED
      BY <3>2, <3>3
  <2> QED
    BY <2>1, <2>6
<1> QED
  BY <1>7, <1>8, <1>9

\* An edit or a deletion that nobody overtook makes no heads and loses no
\* changeset: EditsExtendBranch, what files.py promises of the web editor.
THEOREM EditsMakeNoHeads == Spec => EditsExtendBranch
<1> DEFINE Step ==
      \A w \in Workers :
        (/\ workers[w].step = "commit" /\ workers'[w].step = "journal"
         /\ workers[w].op # "add" /\ ~workers[w].overtaken)
        => /\ Reachable \subseteq Reachable'
           /\ \A b \in Branches : Cardinality(Heads(b)') <= Cardinality(Heads(b))
<1>1. Inv /\ [Next]_vars => Step
  <2> SUFFICES ASSUME Inv, [Next]_vars, NEW w \in Workers,
                      workers[w].step = "commit", workers'[w].step = "journal",
                      workers[w].op # "add", ~workers[w].overtaken
               PROVE  /\ Reachable \subseteq Reachable'
                      /\ \A b \in Branches : Cardinality(Heads(b)') <= Cardinality(Heads(b))
    BY DEF Step
  <2>1. Commit(w) /\ Inv'
    BY OnlyCommitCommits, NextKeeps
  <2>2. workers[w].op \in Edits
    BY DEF Inv, WorkersFit, Fits, Edits
  <2> QED
    BY <2>1, <2>2, CommitExtends
<1>2. Spec => [][Step]_vars
  BY <1>1, ActivityInvariant, PTL DEF Spec
<1> QED
  BY <1>2 DEF EditsExtendBranch

=============================================================================
