---------------------------- MODULE SearchIndexProofs ----------------------------
(*****************************************************************************)
(* Proofs about SearchIndex for any number of repositories, files,           *)
(* changesets and faults.  That marks tell the truth rests on documents      *)
(* without a mark, which nothing but a new build deletes: every changeset    *)
(* before a mark has one, and before a mark that a run has seen, too.        *)
(*****************************************************************************)
EXTENDS SearchIndex, FiniteSetTheorems, WellFoundedInduction, TLAPS

Active(w) == run[w] # Idle

\* How many changesets were made: they are numbered.
Made == Cardinality(DOMAIN changes)

Numbered ==
  /\ Made \in 0 .. MaxChangesets /\ DOMAIN changes = 1 .. Made
  /\ \A r \in Repos : revs[r] \subseteq 1 .. Made
  /\ \A d \in docs : d.id \in 1 .. Made
  /\ \A w \in Runners : Active(w) =>
       /\ \A r \in Repos : run[w].snap[r] \subseteq 1 .. Made
       /\ \A d \in run[w].seen : d.id \in 1 .. Made

\* A build is the only run.
BuildsAlone ==
  \A w \in Runners : Active(w) /\ run[w].at = "building" =>
    \A v \in Runners \ {w} : ~Active(v)

\* What a repository had when the run knew it, up to any changeset that the run
\* knows, the run knows whole; only git loses changesets.
SnapsOld ==
  \A w \in Runners, r \in Repos : Active(w) =>
    /\ \A i \in revs[r], j \in run[w].snap[r] : i <= j => i \in run[w].snap[r]
    /\ r \notin Git => run[w].snap[r] \subseteq revs[r]

\* A changeset has a document that no run will delete.
Plain(r, i) == [repo |-> r, id |-> i, last |-> FALSE] \in docs

\* From mark m one may go on: if it is there still, what is before it is found.
Ready(r, m) == m \in revs[r] => \A i \in revs[r] : i < m => Plain(r, i)

MarksReady == \A d \in docs : d.last => Ready(d.repo, d.id)
SeenReady == \A w \in Runners : Active(w) =>
               \A d \in run[w].seen : d.last => Ready(d.repo, d.id)

Inv ==
  /\ TypeOK /\ run \in [Runners -> Run \cup {Idle}]
  /\ Numbered
  /\ BuildsAlone /\ SnapsOld
  /\ MarksReady /\ SeenReady
  /\ OneDocumentPerFile

-----------------------------------------------------------------------------
(* Numbers                                                                 *)

\* Every nonempty set of natural numbers has a least one.
LEMMA LeastNatural ==
  ASSUME NEW T, T \subseteq Nat, T # {}
  PROVE  \E x \in T : \A y \in T : x <= y
<1> DEFINE R == OpToRel(<,Nat)
<1>1. IsWellFoundedOn(R, Nat)
  BY NatLessThanWellFounded
<1>2. \A a, b \in Nat : a < b => <<a, b>> \in R
  BY DEF OpToRel
<1> HIDE DEF R
<1>3. PICK x \in T : \A y \in T : ~ (<<y, x>> \in R)
  BY <1>1, WFMin, Zenon
<1>4. \A y \in T : ~(y < x)
  BY <1>2, <1>3
<1> QED
  BY <1>4

\* Changesets have a youngest and an oldest.
LEMMA MaxAndMin ==
  ASSUME NEW n \in Nat, NEW S, S \subseteq 1 .. n, S # {}
  PROVE  /\ Max(S) \in S /\ \A i \in S : i <= Max(S)
         /\ Min(S) \in S /\ \A i \in S : Min(S) <= i
<1>1. Min(S) \in S /\ \A i \in S : Min(S) <= i
  <2>1. S \subseteq Nat
    OBVIOUS
  <2>2. \E x \in S : \A y \in S : x <= y
    BY <2>1, LeastNatural
  <2> QED
    BY <2>2, Zenon DEF Min
<1>2. Max(S) \in S /\ \A i \in S : i <= Max(S)
  <2> DEFINE T == {n - d : d \in S}
  <2> \A d \in S : d \in Nat /\ d <= n /\ n - d \in Nat
    OBVIOUS
  <2>1. T \subseteq Nat /\ T # {}
    OBVIOUS
  <2>2. PICK x \in T : \A y \in T : x <= y
    BY <2>1, LeastNatural
  <2>3. PICK c \in S : x = n - c
    OBVIOUS
  <2>4. \A d \in S : c >= d
    BY <2>2, <2>3
  <2>5. \E e \in S : \A d \in S : e >= d
    BY <2>4
  <2> HIDE DEF T
  <2>6. Max(S) \in S /\ \A d \in S : Max(S) >= d
    BY <2>5, Zenon DEF Max
  <2> QED
    BY <2>6
<1> QED
  BY <1>1, <1>2

-----------------------------------------------------------------------------
(* Files                                                                   *)

\* What is in the changesets of a repository are files of it, each once.
LEMMA TreeFacts ==
  ASSUME SearchAssumption, NEW r \in Repos, NEW ids, ids \subseteq Changesets
  PROVE  /\ Tree(r, ids) \subseteq FileDoc
         /\ \A f \in Tree(r, ids) : f.repo = r
         /\ \A f, g \in Tree(r, ids) : SameFile(f, g) => f = g
<1>1. ASSUME NEW f \in Tree(r, ids)
      PROVE  \E q \in Paths : /\ f = [repo |-> r, path |-> q, modtime |-> Max(Touching(ids, q))]
                              /\ Touching(ids, q) # {}
  BY DEF Tree
<1>2. ASSUME NEW q \in Paths, Touching(ids, q) # {}
      PROVE  Max(Touching(ids, q)) \in Changesets
  <2>1. Touching(ids, q) \subseteq 1 .. MaxChangesets /\ MaxChangesets \in Nat
    BY DEF Touching, Changesets, SearchAssumption
  <2> QED
    BY <1>2, <2>1, MaxAndMin DEF Changesets
<1>3. Tree(r, ids) \subseteq FileDoc
  BY <1>1, <1>2 DEF FileDoc
<1>4. \A f \in Tree(r, ids) : f.repo = r
  BY <1>1
<1>5. \A f, g \in Tree(r, ids) : f.path = g.path => f = g
  BY <1>1
<1> QED
  BY <1>3, <1>4, <1>5 DEF SameFile

\* The files of several repositories.
LEMMA TreesFacts ==
  ASSUME SearchAssumption, NEW scope \in SUBSET Repos,
         NEW ids, \A r \in scope : ids[r] \subseteq Changesets,
         NEW fs, \A f \in fs : \E r \in scope : f \in Tree(r, ids[r])
  PROVE  /\ fs \subseteq FileDoc
         /\ \A f, g \in fs : SameFile(f, g) => f = g
<1>1. ASSUME NEW f \in fs
      PROVE  \E r \in scope : f \in Tree(r, ids[r])
  OBVIOUS
<1>2. ASSUME NEW r \in scope
      PROVE  /\ Tree(r, ids[r]) \subseteq FileDoc
             /\ \A f \in Tree(r, ids[r]) : f.repo = r
             /\ \A f, g \in Tree(r, ids[r]) : SameFile(f, g) => f = g
  <2>1. r \in Repos /\ ids[r] \subseteq Changesets
    OBVIOUS
  <2> QED
    BY <2>1, TreeFacts
<1>3. fs \subseteq FileDoc
  BY <1>1, <1>2
<1>4. ASSUME NEW f \in fs, NEW g \in fs, SameFile(f, g)
      PROVE  f = g
  <2>1. PICK r \in scope : f \in Tree(r, ids[r])
    BY <1>1
  <2>2. PICK s \in scope : g \in Tree(s, ids[s])
    BY <1>1
  <2>3. r = s
    BY <1>2, <1>4, <2>1, <2>2 DEF SameFile
  <2> QED
    BY <1>2, <1>4, <2>1, <2>2, <2>3
<1> QED
  BY <1>3, <1>4

\* What is deleted and added, all of it or a part, leaves one document per file.
LEMMA FilesUpdated ==
  ASSUME SearchAssumption, Inv, NEW scope \in SUBSET Repos, NEW refresh \in BOOLEAN,
         NEW deleted, deleted \subseteq Outdated(scope, refresh),
         NEW added, added \subseteq ToAdd(scope, refresh),
         \A f \in added : HasDocument(f) => f \in deleted,
         files' = Without(files, deleted) \cup added
  PROVE  files' \subseteq FileDoc /\ OneDocumentPerFile'
<1> DEFINE fs == UNION {Tree(r, revs[r]) : r \in scope}
<1>1. fs \subseteq FileDoc /\ \A f, g \in fs : SameFile(f, g) => f = g
  <2>1. \A r \in scope : revs[r] \subseteq Changesets
    BY DEF Inv, TypeOK
  <2>2. /\ fs \subseteq FileDoc
        /\ \A f, g \in fs : SameFile(f, g) => f = g
    <3>1. \A f \in fs : \E r \in scope : f \in Tree(r, revs[r])
      OBVIOUS
    <3> HIDE DEF fs
    <3> QED
      BY <2>1, <3>1, TreesFacts
  <2> QED
    BY <2>2
<1>2. added \subseteq fs
  BY DEF ToAdd, Outdated
<1>3. \A f \in added : f \in deleted \/ ~HasDocument(f)
  OBVIOUS
<1> HIDE DEF fs
<1>4. files \subseteq FileDoc /\ \A d, e \in files : SameFile(d, e) => d = e
  BY DEF Inv, TypeOK, OneDocumentPerFile
<1>5. Without(files, deleted) \subseteq files
  BY DEF Without
<1>6. \A d \in Without(files, deleted), f \in added : ~SameFile(d, f)
  BY <1>3, <1>5 DEF Without, HasDocument
<1>7. \A d, e : SameFile(d, e) => SameFile(e, d)
  BY DEF SameFile
<1>8. files' \subseteq FileDoc
  BY <1>1, <1>2, <1>4, <1>5
<1>9. \A d, e \in files' : SameFile(d, e) => d = e
  <2> SUFFICES ASSUME NEW d \in Without(files, deleted) \cup added,
                      NEW e \in Without(files, deleted) \cup added, SameFile(d, e)
               PROVE  d = e
    OBVIOUS
  <2> QED
    BY <1>1, <1>2, <1>4, <1>5, <1>6, <1>7, Zenon
<1> QED
  BY <1>8, <1>9 DEF OneDocumentPerFile, SameFile

-----------------------------------------------------------------------------
(* The documents of one repository                                         *)

\* D could be the documents of a repository: they keep those that no run deletes,
\* and one may go on from any of their marks.
Sound(r, D) ==
  /\ D \subseteq ChangesetDoc
  /\ \A d \in D : d.repo = r /\ d.id \in 1 .. Made
  /\ \A i \in Changesets : Plain(r, i) => [repo |-> r, id |-> i, last |-> FALSE] \in D
  /\ \A d \in D : d.last /\ d.id \in revs[r] =>
       \A i \in revs[r] : i < d.id => [repo |-> r, id |-> i, last |-> FALSE] \in D

\* A run that may go on from start.
MayStart(w, r, start) ==
  start = Min(run[w].snap[r]) \/ start \in Marks(run[w].seen, r) \cap run[w].snap[r]

\* The facts about a run in progress.
LEMMA RunFacts ==
  ASSUME SearchAssumption, Inv, NEW w \in Runners, Active(w)
  PROVE  /\ run[w] \in Run /\ run[w].scope \subseteq Repos
         /\ Made \in Nat /\ MaxChangesets \in Nat /\ 1 .. Made \subseteq Changesets
         /\ \A r \in Repos : run[w].snap[r] \subseteq 1 .. Made /\ revs[r] \subseteq 1 .. Made
         /\ \A d \in run[w].seen : d \in ChangesetDoc /\ d.id \in 1 .. Made
<1>1. run[w] \in Run
  BY DEF Inv, Active
<1>2. /\ Made \in 0 .. MaxChangesets /\ \A r \in Repos : revs[r] \subseteq 1 .. Made
      /\ \A v \in Runners : Active(v) =>
           /\ \A r \in Repos : run[v].snap[r] \subseteq 1 .. Made
           /\ \A d \in run[v].seen : d.id \in 1 .. Made
  BY DEF Inv, Numbered
<1>3. /\ \A r \in Repos : run[w].snap[r] \subseteq 1 .. Made
      /\ \A d \in run[w].seen : d.id \in 1 .. Made
  BY <1>2
<1>4. MaxChangesets \in Nat
  BY DEF SearchAssumption
<1>5. run[w].scope \subseteq Repos /\ run[w].seen \subseteq ChangesetDoc
  BY <1>1 DEF Run
<1>6. Made \in Nat /\ 1 .. Made \subseteq Changesets
  BY <1>2, <1>4 DEF Changesets
<1> QED
  BY <1>1, <1>2, <1>3, <1>4, <1>5, <1>6

\* The documents a repository has are sound.
LEMMA RowsSound ==
  ASSUME SearchAssumption, Inv, NEW r \in Repos
  PROVE  Sound(r, Rows(r))
<1>1. docs \subseteq ChangesetDoc /\ \A d \in docs : d.id \in 1 .. Made
  BY DEF Inv, TypeOK, Numbered
<1>2. \A i \in Changesets : Plain(r, i) => [repo |-> r, id |-> i, last |-> FALSE] \in Rows(r)
  BY DEF Plain, Rows
<1>3. ASSUME NEW d \in Rows(r), d.last, d.id \in revs[r], NEW i \in revs[r], i < d.id
      PROVE  [repo |-> r, id |-> i, last |-> FALSE] \in Rows(r)
  <2>1. d \in docs /\ d.repo = r
    BY DEF Rows
  <2>2. Plain(r, i)
    BY <1>3, <2>1 DEF Inv, MarksReady, Ready
  <2> QED
    BY <2>2 DEF Plain, Rows
<1>4. Rows(r) \subseteq ChangesetDoc /\ \A d \in Rows(r) : d.repo = r /\ d.id \in 1 .. Made
  BY <1>1 DEF Rows
<1> QED
  BY <1>2, <1>3, <1>4 DEF Sound

\* So are they when the marks that were seen have been deleted, and what is listed
\* has been added, up to any place in the list.
LEMMA PartSound ==
  ASSUME SearchAssumption, Inv, NEW w \in Runners, Active(w), NEW r \in Repos,
         NEW start, MayStart(w, r, start[r]), run[w].snap[r] # {},
         NEW A, A \subseteq Listed(w, r, start) \cap run[w].snap[r],
         \A i \in A, j \in Listed(w, r, start) \cap run[w].snap[r] : j <= i => j \in A
  PROVE  Sound(r, PartOf(w, r, start, A))
<1> DEFINE ids == run[w].snap[r]
           top == Max(ids)
           D == PartOf(w, r, start, A)
<1>1. /\ run[w] \in Run /\ Made \in Nat /\ 1 .. Made \subseteq Changesets
      /\ ids \subseteq 1 .. Made /\ revs[r] \subseteq 1 .. Made
      /\ \A d \in run[w].seen : d \in ChangesetDoc /\ d.id \in 1 .. Made
  BY RunFacts
<1>2. /\ top \in ids /\ \A i \in ids : i <= top
      /\ Min(ids) \in ids /\ \A i \in ids : Min(ids) <= i
  BY <1>1, MaxAndMin
<1>3. D = Kept(r, run[w].seen) \cup Added(r, ids, A)
  BY DEF PartOf
<1>4. \A d \in Kept(r, run[w].seen) : d \in docs /\ d.repo = r
  BY DEF Kept, Rows
<1>5. \A d \in Added(r, ids, A) : \E i \in A : d = [repo |-> r, id |-> i, last |-> i = top]
  BY DEF Added
<1>6. \A i \in A : [repo |-> r, id |-> i, last |-> i = top] \in Added(r, ids, A)
  BY DEF Added
<1>7. \A i : Plain(r, i) => [repo |-> r, id |-> i, last |-> FALSE] \in Kept(r, run[w].seen)
  BY DEF Plain, Kept, Rows
<1>8. A \subseteq 1 .. Made /\ A \subseteq ids
  BY <1>1
<1>9. docs \subseteq ChangesetDoc /\ \A d \in docs : d.id \in 1 .. Made
  BY DEF Inv, TypeOK, Numbered
<1>10. ASSUME NEW i \in revs[r], i < top, top \in A
       PROVE  Plain(r, i) \/ i \in A
  <2>1. i \in ids
    <3>1. \A x \in revs[r], j \in run[w].snap[r] : x <= j => x \in run[w].snap[r]
      BY DEF Inv, SnapsOld
    <3> QED
      BY <1>1, <1>2, <1>10, <3>1
  <2>2. CASE i \in Listed(w, r, start)
    BY <1>1, <1>2, <1>10, <2>1, <2>2
  <2>3. CASE i \notin Listed(w, r, start)
    <3>1. ~(i >= start[r])
      BY <2>1, <2>3 DEF Listed, Listing
    <3>2. r \in Git => start[r] \in revs[r]
      BY <2>3 DEF Listed, Listing
    <3>3. start[r] \in Marks(run[w].seen, r) /\ start[r] \in ids
      BY <1>1, <1>2, <2>1, <3>1 DEF MayStart
    <3>4. PICK m \in run[w].seen : m.repo = r /\ m.last /\ m.id = start[r]
      BY <3>3 DEF Marks
    <3>5. start[r] \in revs[r]
      <4>1. CASE r \in Git
        BY <3>2, <4>1
      <4>2. CASE r \notin Git
        <5>1. ids \subseteq revs[r]
          BY <4>2 DEF Inv, SnapsOld
        <5> QED
          BY <3>3, <5>1
      <4> QED
        BY <4>1, <4>2
    <3>6. Ready(r, start[r])
      <4>1. Ready(m.repo, m.id)
        BY <3>4 DEF Inv, SeenReady
      <4> QED
        BY <3>4, <4>1
    <3>7. start[r] \in Nat /\ i \in Nat /\ i < start[r]
      BY <1>1, <3>1, <3>4, <3>5
    <3> QED
      BY <3>5, <3>6, <3>7 DEF Ready
  <2> QED
    BY <2>2, <2>3
<1>11. D \subseteq ChangesetDoc
  <2>1. \A i \in A : [repo |-> r, id |-> i, last |-> i = top] \in ChangesetDoc
    BY <1>1, <1>8 DEF ChangesetDoc
  <2> QED
    BY <1>3, <1>4, <1>5, <1>9, <2>1
<1>12. \A d \in D : d.repo = r /\ d.id \in 1 .. Made
  BY <1>3, <1>4, <1>5, <1>8, <1>9
<1>13. ASSUME NEW d \in D, d.last, d.id \in revs[r], NEW i \in revs[r], i < d.id
       PROVE  [repo |-> r, id |-> i, last |-> FALSE] \in D
  <2>1. CASE d \in Kept(r, run[w].seen)
    <3>1. Plain(r, i)
      BY <1>4, <1>13, <2>1 DEF Inv, MarksReady, Ready
    <3> QED
      BY <1>3, <1>7, <3>1
  <2>2. CASE d \in Added(r, ids, A)
    <3>1. d.id = top /\ top \in A
      <4>1. PICK a \in A : d = [repo |-> r, id |-> a, last |-> a = top]
        BY <1>5, <2>2
      <4>2. d.last = (a = top) /\ d.id = a
        BY <4>1
      <4>3. a = top
        BY <1>13, <4>2, Zenon
      <4> QED
        BY <4>2, <4>3
    <3>2. Plain(r, i) \/ i \in A
      BY <1>10, <1>13, <3>1
    <3>3. i \in A => [repo |-> r, id |-> i, last |-> FALSE] \in Added(r, ids, A)
      <4>1. (i = top) = FALSE
        BY <1>1, <1>13, <3>1
      <4> QED
        BY <1>6, <4>1
    <3> QED
      BY <1>3, <1>7, <3>2, <3>3
  <2> QED
    BY <1>3, <2>1, <2>2
<1>14. \A i \in Changesets : Plain(r, i) => [repo |-> r, id |-> i, last |-> FALSE] \in D
  BY <1>3, <1>7
<1> HIDE DEF D
<1>15. Sound(r, D)
  BY <1>11, <1>12, <1>13, <1>14 DEF Sound
<1> QED
  BY <1>15 DEF D

\* Also when all that is listed has been added, or nothing was to be done.
LEMMA IndexedSound ==
  ASSUME SearchAssumption, Inv, NEW w \in Runners, Active(w), NEW r \in Repos,
         NEW start, run[w].snap[r] # {} => MayStart(w, r, start[r]),
         ~Overtaken(w, r, start)
  PROVE  Sound(r, Indexed(w, r, start))
<1>1. CASE Updates(w, r, start)
  <2> DEFINE A == Listed(w, r, start)
  <2>1. run[w].snap[r] # {}
    BY <1>1 DEF Updates, ToIndex
  <2>2. A \subseteq A \cap run[w].snap[r] /\ \A i \in A, j \in A \cap run[w].snap[r] : j <= i => j \in A
    BY <1>1 DEF Overtaken
  <2>3. Indexed(w, r, start) = PartOf(w, r, start, A)
    BY <1>1 DEF Indexed, PartOf
  <2> HIDE DEF A
  <2>4. Sound(r, PartOf(w, r, start, A))
    BY <2>1, <2>2, PartSound DEF A
  <2> QED
    BY <2>3, <2>4
<1>2. CASE ~Updates(w, r, start)
  BY <1>2, RowsSound DEF Indexed
<1> QED
  BY <1>1, <1>2

\* What is committed, repository by repository.
LEMMA Committed ==
  ASSUME SearchAssumption, Inv, NEW scope \in SUBSET Repos,
         NEW D, \A r \in scope : Sound(r, D[r]),
         NEW ds, \A d \in ds : \E r \in scope : d \in D[r],
         \A r \in scope : D[r] \subseteq ds
  PROVE  /\ ds \subseteq ChangesetDoc /\ \A d \in ds : d.id \in 1 .. Made
         /\ \A r \in scope, i \in Changesets :
              Plain(r, i) => [repo |-> r, id |-> i, last |-> FALSE] \in ds
         /\ \A d \in ds : d.last /\ d.id \in revs[d.repo] =>
              \A i \in revs[d.repo] : i < d.id => [repo |-> d.repo, id |-> i, last |-> FALSE] \in ds
<1>1. ASSUME NEW d \in ds
      PROVE  \E r \in scope : d \in D[r] /\ d.repo = r /\ d \in ChangesetDoc /\ d.id \in 1 .. Made
  BY DEF Sound
<1>2. \A r \in scope, i \in Changesets :
        Plain(r, i) => [repo |-> r, id |-> i, last |-> FALSE] \in ds
  BY DEF Sound
<1>3. ASSUME NEW d \in ds, d.last, d.id \in revs[d.repo], NEW i \in revs[d.repo], i < d.id
      PROVE  [repo |-> d.repo, id |-> i, last |-> FALSE] \in ds
  <2>1. PICK r \in scope : d \in D[r] /\ d.repo = r
    BY <1>1
  <2>2. Sound(r, D[r]) /\ D[r] \subseteq ds
    OBVIOUS
  <2>3. [repo |-> r, id |-> i, last |-> FALSE] \in D[r]
    BY <1>3, <2>1, <2>2 DEF Sound
  <2> QED
    BY <2>1, <2>2, <2>3
<1> QED
  BY <1>1, <1>2, <1>3

\* The end of a run, whatever it leaves of documents that are sound.
LEMMA RunEnds ==
  ASSUME SearchAssumption, Inv, NEW w \in Runners, Active(w), Finish(w),
         UNCHANGED <<changes, revs>>, exists' \in BOOLEAN, faults' \in 0 .. MaxFaults,
         files' \subseteq FileDoc, \A d, e \in files' : SameFile(d, e) => d = e,
         docs' \subseteq ChangesetDoc, \A d \in docs' : d.id \in 1 .. Made,
         \A d \in docs' : d.last /\ d.id \in revs[d.repo] =>
            \A i \in revs[d.repo] : i < d.id => [repo |-> d.repo, id |-> i, last |-> FALSE] \in docs',
         \/ run[w].at = "building"
         \/ \A r \in Repos, i \in Changesets :
              Plain(r, i) => [repo |-> r, id |-> i, last |-> FALSE] \in docs'
  PROVE  Inv'
<1>1. run' = [run EXCEPT ![w] = Idle] /\ run \in [Runners -> Run \cup {Idle}]
  BY DEF Finish, Inv
<1>2. ASSUME NEW v \in Runners, Active(v)'
      PROVE  v # w /\ Active(v) /\ run'[v] = run[v]
  BY <1>1, <1>2 DEF Active
<1>3. run' \in [Runners -> Run \cup {Idle}]
  BY <1>1
<1>4. TypeOK'
  <2>1. /\ DOMAIN changes' \subseteq Changesets
        /\ revs' \in [Repos -> SUBSET Changesets]
    BY DEF Inv, TypeOK
  <2>2. \A v \in Runners : run'[v] = Idle \/ run'[v] \in Run
    BY <1>3
  <2> QED
    BY <2>1, <2>2 DEF TypeOK
<1>5. Made' = Made
  BY DEF Made
<1>6. Numbered'
  <2>1. /\ Made \in 0 .. MaxChangesets /\ DOMAIN changes' = 1 .. Made
        /\ \A r \in Repos : revs'[r] \subseteq 1 .. Made
    BY DEF Inv, Numbered
  <2>2. \A v \in Runners : Active(v)' =>
          /\ \A r \in Repos : run'[v].snap[r] \subseteq 1 .. Made
          /\ \A d \in run'[v].seen : d.id \in 1 .. Made
    BY <1>2 DEF Inv, Numbered
  <2> QED
    BY <1>5, <2>1, <2>2 DEF Numbered
<1>7. BuildsAlone'
  <2>1. \A v \in Runners : Active(v) /\ run[v].at = "building" =>
          \A u \in Runners \ {v} : ~Active(u)
    BY DEF Inv, BuildsAlone
  <2>2. \A v \in Runners : Active(v)' /\ run'[v].at = "building" =>
          \A u \in Runners \ {v} : ~Active(u)'
    BY <1>2, <2>1
  <2> QED
    BY <2>2 DEF BuildsAlone
<1>8. SnapsOld'
  <2>1. \A v \in Runners, r \in Repos : Active(v)' =>
          /\ \A i \in revs[r], j \in run'[v].snap[r] : i <= j => i \in run'[v].snap[r]
          /\ r \notin Git => run'[v].snap[r] \subseteq revs[r]
    BY <1>2 DEF Inv, SnapsOld
  <2> QED
    BY <2>1 DEF SnapsOld
<1>9. MarksReady'
  BY DEF MarksReady, Ready, Plain
<1>10. SeenReady'
  <2>1. ASSUME NEW v \in Runners, Active(v)', NEW d \in run[v].seen, d.last,
               d.id \in revs[d.repo], NEW i \in revs[d.repo], i < d.id
        PROVE  [repo |-> d.repo, id |-> i, last |-> FALSE] \in docs'
    <3>1. v # w /\ Active(v)
      BY <1>2, <2>1
    <3>2. run[w].at # "building"
      BY <3>1 DEF Inv, BuildsAlone
    <3>3. d \in ChangesetDoc
      BY <3>1, RunFacts
    <3>4. d.repo \in Repos /\ revs[d.repo] \subseteq Changesets
      BY <3>3 DEF ChangesetDoc, Inv, TypeOK
    <3>5. Plain(d.repo, i)
      BY <2>1, <3>1 DEF Inv, SeenReady, Ready
    <3> QED
      BY <3>2, <3>4, <3>5
  <2>2. \A v \in Runners : Active(v)' =>
          \A d \in run'[v].seen : d.last =>
            (d.id \in revs'[d.repo] => \A i \in revs'[d.repo] : i < d.id =>
              [repo |-> d.repo, id |-> i, last |-> FALSE] \in docs')
    BY <1>2, <2>1
  <2> QED
    BY <2>2 DEF SeenReady, Ready, Plain
<1>11. OneDocumentPerFile'
  BY DEF OneDocumentPerFile, SameFile
<1> QED
  BY <1>3, <1>4, <1>6, <1>7, <1>8, <1>9, <1>10, <1>11 DEF Inv

-----------------------------------------------------------------------------
(* The steps                                                               *)

\* Where a run starts, it may.
LEMMA StartsWell ==
  ASSUME NEW w, NEW start \in StartChoices(w), NEW r \in run[w].scope,
         run[w].snap[r] # {}
  PROVE  MayStart(w, r, start[r])
<1>1. start[r] \in Starts(Marks(run[w].seen, r), run[w].snap[r])
  BY DEF StartChoices
<1> QED
  BY <1>1 DEF Starts, MayStart

\* What does not change with a run.
LEMMA Unfinished ==
  ASSUME SearchAssumption, Inv
  PROVE  /\ files \subseteq FileDoc /\ \A d, e \in files : SameFile(d, e) => d = e
         /\ docs \subseteq ChangesetDoc /\ \A d \in docs : d.id \in 1 .. Made
         /\ \A d \in docs : d.last /\ d.id \in revs[d.repo] =>
              \A i \in revs[d.repo] : i < d.id => [repo |-> d.repo, id |-> i, last |-> FALSE] \in docs
         /\ \A r \in Repos, i \in Changesets :
              Plain(r, i) => [repo |-> r, id |-> i, last |-> FALSE] \in docs
         /\ exists \in BOOLEAN /\ faults \in 0 .. MaxFaults
         /\ faults < MaxFaults => faults + 1 \in 0 .. MaxFaults
<1>1. \A d \in docs : d.last /\ d.id \in revs[d.repo] =>
        \A i \in revs[d.repo] : i < d.id => [repo |-> d.repo, id |-> i, last |-> FALSE] \in docs
  BY DEF Inv, MarksReady, Ready, Plain
<1>2. \A r \in Repos, i \in Changesets :
        Plain(r, i) => [repo |-> r, id |-> i, last |-> FALSE] \in docs
  BY DEF Plain
<1>3. /\ files \subseteq FileDoc /\ \A d, e \in files : SameFile(d, e) => d = e
      /\ docs \subseteq ChangesetDoc /\ \A d \in docs : d.id \in 1 .. Made
      /\ exists \in BOOLEAN /\ faults \in 0 .. MaxFaults
  BY DEF Inv, TypeOK, OneDocumentPerFile, Numbered
<1>4. MaxFaults \in Nat
  BY DEF SearchAssumption
<1>5. faults < MaxFaults => faults + 1 \in 0 .. MaxFaults
  BY <1>3, <1>4
<1> QED
  BY <1>1, <1>2, <1>3, <1>5

\* The end of a run that commits what it made of the documents of all
\* repositories, whole or in part.
LEMMA DocumentsCommitted ==
  ASSUME SearchAssumption, Inv, NEW w \in Runners, Active(w), Finish(w),
         UNCHANGED <<changes, revs, exists, files>>, faults' \in 0 .. MaxFaults,
         NEW D, \A r \in Repos : Sound(r, D[r]),
         \A d \in docs' : \E r \in Repos : d \in D[r],
         \A r \in Repos : D[r] \subseteq docs'
  PROVE  Inv'
<1>1. /\ docs' \subseteq ChangesetDoc /\ \A d \in docs' : d.id \in 1 .. Made
      /\ \A r \in Repos, i \in Changesets :
           Plain(r, i) => [repo |-> r, id |-> i, last |-> FALSE] \in docs'
      /\ \A d \in docs' : d.last /\ d.id \in revs[d.repo] =>
           \A i \in revs[d.repo] : i < d.id => [repo |-> d.repo, id |-> i, last |-> FALSE] \in docs'
  <2> Repos \in SUBSET Repos
    OBVIOUS
  <2>1. PICK ds : ds = docs'
    OBVIOUS
  <2>2. \A d \in ds : \E r \in Repos : d \in D[r]
    BY <2>1
  <2>3. \A r \in Repos : D[r] \subseteq ds
    BY <2>1
  <2>4. /\ ds \subseteq ChangesetDoc /\ \A d \in ds : d.id \in 1 .. Made
        /\ \A r \in Repos, i \in Changesets :
             Plain(r, i) => [repo |-> r, id |-> i, last |-> FALSE] \in ds
        /\ \A d \in ds : d.last /\ d.id \in revs[d.repo] =>
             \A i \in revs[d.repo] : i < d.id => [repo |-> d.repo, id |-> i, last |-> FALSE] \in ds
    BY <2>2, <2>3, Committed
  <2> QED
    BY <2>1, <2>4
<1>2. /\ files' \subseteq FileDoc /\ \A d, e \in files' : SameFile(d, e) => d = e
      /\ exists' \in BOOLEAN
  BY Unfinished
<1> QED
  BY <1>1, <1>2, RunEnds

\* An update of the changesets that is done.
LEMMA UpdateChangesetsKeeps ==
  ASSUME SearchAssumption, Inv, NEW w \in Runners, UpdateChangesets(w)
  PROVE  Inv'
<1>1. PICK start \in StartChoices(w) :
        /\ \A r \in run[w].scope : ~Overtaken(w, r, start)
        /\ docs' = UNION {IF r \in run[w].scope THEN Indexed(w, r, start) ELSE Rows(r) : r \in Repos}
  BY DEF UpdateChangesets
<1>2. /\ Active(w) /\ Finish(w) /\ UNCHANGED <<changes, revs, exists, files>>
      /\ faults' = faults
  BY DEF UpdateChangesets, Active
<1> DEFINE E == [r \in Repos |-> IF r \in run[w].scope THEN Indexed(w, r, start) ELSE Rows(r)]
<1>3. PICK D : D = E
  OBVIOUS
<1>4. \A r \in Repos : D[r] = IF r \in run[w].scope THEN Indexed(w, r, start) ELSE Rows(r)
  BY <1>3
<1>5. ASSUME NEW r \in Repos PROVE Sound(r, D[r])
  BY <1>1, <1>2, <1>4, IndexedSound, StartsWell, RowsSound
<1>6. \A d \in docs' : \E r \in Repos : d \in D[r]
  BY <1>1, <1>4
<1>7. \A r \in Repos : D[r] \subseteq docs'
  BY <1>1, <1>4
<1>8. faults' \in 0 .. MaxFaults
  BY <1>2, Unfinished
<1> QED
  BY <1>2, <1>5, <1>6, <1>7, <1>8, DocumentsCommitted

\* A run that ends before it has been to every repository.
LEMMA EndsAtKeeps ==
  ASSUME SearchAssumption, Inv, NEW w \in Runners, Active(w),
         NEW start \in StartChoices(w), NEW stop \in run[w].scope,
         NEW rows, Sound(stop, rows), EndsAt(w, start, stop, rows),
         faults' \in 0 .. MaxFaults
  PROVE  Inv'
<1> DEFINE before == {r \in run[w].scope : r < stop}
<1>1. /\ \A r \in before : ~Overtaken(w, r, start)
      /\ docs' = IF \E r \in before : Updates(w, r, start)
                 THEN UNION {IF r \in before THEN Indexed(w, r, start)
                             ELSE IF r = stop THEN rows ELSE Rows(r) : r \in Repos}
                 ELSE docs
      /\ Finish(w)
      /\ UNCHANGED <<changes, revs, exists, files>>
  BY DEF EndsAt
<1>2. CASE \E r \in before : Updates(w, r, start)
  <2>1. PICK D : D = [r \in Repos |-> IF r \in before THEN Indexed(w, r, start)
                                      ELSE IF r = stop THEN rows ELSE Rows(r)]
    OBVIOUS
  <2>2. \A r \in Repos : D[r] = IF r \in before THEN Indexed(w, r, start)
                                ELSE IF r = stop THEN rows ELSE Rows(r)
    BY <2>1
  <2>3. ASSUME NEW r \in Repos PROVE Sound(r, D[r])
    <3>1. CASE r \in before
      <4>1. r \in run[w].scope /\ ~Overtaken(w, r, start)
        BY <1>1, <3>1
      <4>2. run[w].snap[r] # {} => MayStart(w, r, start[r])
        BY <4>1, StartsWell
      <4> QED
        BY <2>2, <3>1, <4>1, <4>2, IndexedSound
    <3>2. CASE r \notin before
      BY <2>2, <3>2, RowsSound
    <3> QED
      BY <3>1, <3>2
  <2>4. docs' = UNION {IF r \in before THEN Indexed(w, r, start)
                       ELSE IF r = stop THEN rows ELSE Rows(r) : r \in Repos}
    BY <1>1, <1>2
  <2> HIDE DEF before
  <2>5. \A d \in docs' : \E r \in Repos : d \in D[r]
    BY <2>2, <2>4
  <2>6. \A r \in Repos : D[r] \subseteq docs'
    BY <2>2, <2>4
  <2> QED
    BY <1>1, <2>3, <2>5, <2>6, DocumentsCommitted
<1>3. CASE ~ \E r \in before : Updates(w, r, start)
  <2>1. docs' = docs
    BY <1>1, <1>3
  <2> QED
    BY <1>1, <2>1, Unfinished, RunEnds
<1> QED
  BY <1>2, <1>3

\* One that a push has overtaken.
LEMMA UpdateOvertakenKeeps ==
  ASSUME SearchAssumption, Inv, NEW w \in Runners, UpdateOvertaken(w)
  PROVE  Inv'
<1>1. PICK start \in StartChoices(w), r \in run[w].scope :
        /\ Overtaken(w, r, start)
        /\ EndsAt(w, start, r, PartOf(w, r, start, Listed(w, r, start) \cap run[w].snap[r]))
  BY DEF UpdateOvertaken
<1>2. Active(w) /\ faults' = faults
  BY DEF UpdateOvertaken, Active
<1>3. r \in Repos
  BY <1>2, RunFacts
<1>4. PICK A : A = Listed(w, r, start) \cap run[w].snap[r]
  OBVIOUS
<1>5. run[w].snap[r] # {}
  BY <1>1 DEF Overtaken, Updates, ToIndex
<1>6. MayStart(w, r, start[r])
  BY <1>5, StartsWell
<1>7. \A i \in A, j \in Listed(w, r, start) \cap run[w].snap[r] : j <= i => j \in A
  BY <1>4
<1>8. A \subseteq Listed(w, r, start) \cap run[w].snap[r]
  BY <1>4
<1>9. Sound(r, PartOf(w, r, start, A))
  BY <1>2, <1>3, <1>5, <1>6, <1>7, <1>8, PartSound
<1>10. faults' \in 0 .. MaxFaults
  BY <1>2, Unfinished
<1>11. EndsAt(w, start, r, PartOf(w, r, start, A))
  BY <1>1, <1>4
<1> QED
  BY <1>2, <1>9, <1>10, <1>11, EndsAtKeeps

\* One that fails.
LEMMA UpdateFailsKeeps ==
  ASSUME SearchAssumption, Inv, NEW w \in Runners, UpdateFails(w)
  PROVE  Inv'
<1>1. Active(w) /\ faults' \in 0 .. MaxFaults
  BY Unfinished DEF UpdateFails, Active
<1>2. PICK start \in StartChoices(w), r \in run[w].scope :
       \/ EndsAt(w, start, r, Rows(r))
       \/ /\ Updates(w, r, start)
          /\ \E end \in Changesets :
               EndsAt(w, start, r, PartOf(w, r, start,
                 {i \in Listed(w, r, start) \cap run[w].snap[r] : i < end}))
  BY DEF UpdateFails
<1>3. r \in Repos
  BY <1>1, RunFacts
<1>4. CASE EndsAt(w, start, r, Rows(r))
  BY <1>1, <1>3, <1>4, RowsSound, EndsAtKeeps
<1>5. CASE Updates(w, r, start) /\ \E end \in Changesets :
             EndsAt(w, start, r, PartOf(w, r, start,
               {i \in Listed(w, r, start) \cap run[w].snap[r] : i < end}))
  <2>1. PICK end \in Changesets :
          EndsAt(w, start, r, PartOf(w, r, start,
            {i \in Listed(w, r, start) \cap run[w].snap[r] : i < end}))
    BY <1>5
  <2>2. PICK A : A = {i \in Listed(w, r, start) \cap run[w].snap[r] : i < end}
    OBVIOUS
  <2>3. run[w].snap[r] # {}
    BY <1>5 DEF Updates, ToIndex
  <2>4. MayStart(w, r, start[r])
    BY <2>3, StartsWell
  <2>5. \A i \in run[w].snap[r] : i \in Nat
    BY <1>1, <1>3, RunFacts
  <2>6. \A i \in A, j \in Listed(w, r, start) \cap run[w].snap[r] : j <= i => j \in A
    BY <2>2, <2>5 DEF Changesets
  <2>7. A \subseteq Listed(w, r, start) \cap run[w].snap[r]
    BY <2>2
  <2>8. Sound(r, PartOf(w, r, start, A))
    BY <1>1, <1>3, <2>3, <2>4, <2>6, <2>7, PartSound
  <2>9. EndsAt(w, start, r, PartOf(w, r, start, A))
    BY <2>1, <2>2
  <2> QED
    BY <1>1, <2>8, <2>9, EndsAtKeeps
<1> QED
  BY <1>2, <1>4, <1>5

\* The files of a run that builds the index anew.
LEMMA BuiltFiles ==
  ASSUME SearchAssumption, Inv, NEW w \in Runners, Active(w),
         files' \in SUBSET UNION {Tree(r, run[w].snap[r]) : r \in run[w].scope}
  PROVE  files' \subseteq FileDoc /\ \A d, e \in files' : SameFile(d, e) => d = e
<1>1. PICK fs : fs = UNION {Tree(r, run[w].snap[r]) : r \in run[w].scope}
  OBVIOUS
<1>2. PICK ids : ids = run[w].snap
  OBVIOUS
<1>3. PICK scope : scope = run[w].scope
  OBVIOUS
<1>4. scope \in SUBSET Repos /\ \A r \in scope : ids[r] \subseteq Changesets
  BY <1>2, <1>3, RunFacts
<1>5. \A f \in fs : \E r \in scope : f \in Tree(r, ids[r])
  BY <1>1, <1>2, <1>3
<1>6. fs \subseteq FileDoc /\ \A d, e \in fs : SameFile(d, e) => d = e
  BY <1>4, <1>5, TreesFacts
<1>7. files' \subseteq fs
  BY <1>1
<1> QED
  BY <1>6, <1>7

\* A build that is done, whether or not it passed over files.
LEMMA BuildKeeps ==
  ASSUME SearchAssumption, Inv, NEW w \in Runners, Build(w) \/ BuildSkips(w)
  PROVE  Inv'
<1>1. /\ Active(w) /\ run[w].at = "building" /\ Finish(w)
      /\ \A r \in run[w].scope : ~Overtaken(w, r, Oldest(w))
      /\ files' \in SUBSET UNION {Tree(r, run[w].snap[r]) : r \in run[w].scope}
      /\ docs' = UNION {Indexed(w, r, Oldest(w)) : r \in run[w].scope}
      /\ UNCHANGED <<changes, revs, exists>>
      /\ faults' = faults \/ (faults < MaxFaults /\ faults' = faults + 1)
  BY DEF Build, BuildSkips, Active
<1>2. PICK scope : scope = run[w].scope
  OBVIOUS
<1>3. scope \in SUBSET Repos
  BY <1>1, <1>2, RunFacts
<1>4. PICK D : D = [r \in scope |-> Indexed(w, r, Oldest(w))]
  OBVIOUS
<1>5. PICK start : start = Oldest(w)
  OBVIOUS
<1>6. ASSUME NEW r \in scope PROVE Sound(r, D[r])
  <2>1. D[r] = Indexed(w, r, start) /\ r \in Repos /\ ~Overtaken(w, r, start)
    BY <1>1, <1>2, <1>3, <1>4, <1>5
  <2>2. run[w].snap[r] # {} => MayStart(w, r, start[r])
    BY <1>2, <1>5 DEF Oldest, MayStart
  <2> QED
    BY <1>1, <2>1, <2>2, IndexedSound
<1>7. PICK ds : ds = UNION {Indexed(w, r, Oldest(w)) : r \in scope}
  OBVIOUS
<1>8. \A d \in ds : \E r \in scope : d \in D[r]
  BY <1>4, <1>7
<1>9. \A r \in scope : D[r] \subseteq ds
  BY <1>4, <1>7
<1>10. /\ ds \subseteq ChangesetDoc /\ \A d \in ds : d.id \in 1 .. Made
       /\ \A d \in ds : d.last /\ d.id \in revs[d.repo] =>
            \A i \in revs[d.repo] : i < d.id => [repo |-> d.repo, id |-> i, last |-> FALSE] \in ds
  BY <1>3, <1>6, <1>8, <1>9, Committed
<1>11. docs' = ds
  BY <1>1, <1>2, <1>7
<1>12. /\ docs' \subseteq ChangesetDoc /\ \A d \in docs' : d.id \in 1 .. Made
       /\ \A d \in docs' : d.last /\ d.id \in revs[d.repo] =>
            \A i \in revs[d.repo] : i < d.id => [repo |-> d.repo, id |-> i, last |-> FALSE] \in docs'
  BY <1>10, <1>11
<1>13. files' \subseteq FileDoc /\ \A d, e \in files' : SameFile(d, e) => d = e
  BY <1>1, BuiltFiles
<1>14. exists' \in BOOLEAN /\ faults' \in 0 .. MaxFaults
  BY <1>1, Unfinished
<1> QED
  BY <1>1, <1>12, <1>13, <1>14, RunEnds

\* The end of a run that leaves the changesets in the index as they are.
LEMMA OtherEndsKeep ==
  ASSUME SearchAssumption, Inv, NEW w \in Runners,
         BuildOvertaken(w) \/ BuildFilesOnly(w) \/ Die(w)
  PROVE  Inv'
<1>1. /\ Active(w) /\ Finish(w) /\ UNCHANGED <<changes, revs, exists, docs>>
      /\ faults' = faults \/ (faults < MaxFaults /\ faults' = faults + 1)
      /\ files' = files \/ files' = UNION {Tree(r, run[w].snap[r]) : r \in run[w].scope}
  BY DEF BuildOvertaken, BuildFilesOnly, Die, Active
<1>2. files' \subseteq FileDoc /\ \A d, e \in files' : SameFile(d, e) => d = e
  <2>1. CASE files' = files
    BY <2>1, Unfinished
  <2>2. CASE files' = UNION {Tree(r, run[w].snap[r]) : r \in run[w].scope}
    BY <1>1, <2>2, BuiltFiles
  <2> QED
    BY <1>1, <2>1, <2>2
<1>3. exists' \in BOOLEAN /\ faults' \in 0 .. MaxFaults
  BY <1>1, Unfinished
<1>4. /\ docs' \subseteq ChangesetDoc /\ \A d \in docs' : d.id \in 1 .. Made
      /\ \A d \in docs' : d.last /\ d.id \in revs[d.repo] =>
           \A i \in revs[d.repo] : i < d.id => [repo |-> d.repo, id |-> i, last |-> FALSE] \in docs'
      /\ \A r \in Repos, i \in Changesets :
           Plain(r, i) => [repo |-> r, id |-> i, last |-> FALSE] \in docs'
  BY <1>1, Unfinished
<1> QED
  BY <1>1, <1>2, <1>3, <1>4, RunEnds

\* The beginning of a run: an update, or a build that empties the index.
LEMMA RunBegins ==
  ASSUME SearchAssumption, Inv, NEW w \in Runners, NEW at \in {"building", "listed"},
         NEW scope \in SUBSET Repos, Start(w, at, scope),
         UNCHANGED <<changes, revs>>, faults' \in 0 .. MaxFaults, exists' \in BOOLEAN,
         files' \subseteq FileDoc, OneDocumentPerFile',
         at = "building" => \A v \in Runners : ~Active(v),
         docs' = docs \/ (at = "building" /\ docs' = {})
  PROVE  Inv'
<1> DEFINE new == [at |-> at, scope |-> scope, snap |-> revs, seen |-> {}]
<1>1. /\ run' = [run EXCEPT ![w] = new] /\ run \in [Runners -> Run \cup {Idle}]
      /\ ~Active(w)
      /\ \A v \in Runners : Active(v) => run[v].at # "building"
  BY DEF Start, Inv, Active
<1>2. new \in Run
  BY DEF Run, Inv, TypeOK
<1>3. new.at = at /\ new.snap = revs /\ new.seen = {}
  OBVIOUS
<1> HIDE DEF new
<1>4. run' \in [Runners -> Run \cup {Idle}] /\ run'[w] = new
  BY <1>1, <1>2
<1>5. ASSUME NEW v \in Runners, v # w
      PROVE  run'[v] = run[v] /\ (Active(v)' <=> Active(v))
  BY <1>1, <1>5 DEF Active
<1>6. TypeOK'
  <2>1. /\ DOMAIN changes' \subseteq Changesets
        /\ revs' \in [Repos -> SUBSET Changesets]
        /\ docs' \subseteq ChangesetDoc
        /\ faults' \in 0 .. MaxFaults
    BY DEF Inv, TypeOK
  <2>2. \A v \in Runners : run'[v] = Idle \/ run'[v] \in Run
    BY <1>4
  <2> QED
    BY <2>1, <2>2 DEF TypeOK
<1>7. Made' = Made
  BY DEF Made
<1>8. Numbered'
  <2>1. /\ Made \in 0 .. MaxChangesets /\ DOMAIN changes' = 1 .. Made
        /\ \A r \in Repos : revs[r] \subseteq 1 .. Made
        /\ \A d \in docs' : d.id \in 1 .. Made
    BY DEF Inv, Numbered
  <2>2. \A v \in Runners : Active(v)' =>
          /\ \A r \in Repos : run'[v].snap[r] \subseteq 1 .. Made
          /\ \A d \in run'[v].seen : d.id \in 1 .. Made
    BY <1>3, <1>4, <1>5, <2>1 DEF Inv, Numbered
  <2> QED
    BY <1>7, <2>1, <2>2 DEF Numbered
<1>9. BuildsAlone'
  <2>1. \A v \in Runners : Active(v)' /\ run'[v].at = "building" =>
          v = w /\ at = "building"
    BY <1>1, <1>3, <1>4, <1>5
  <2>2. \A v \in Runners : Active(v)' /\ run'[v].at = "building" =>
          \A u \in Runners \ {v} : ~Active(u)'
    BY <1>5, <2>1
  <2> QED
    BY <2>2 DEF BuildsAlone
<1>10. SnapsOld'
  <2>1. \A v \in Runners, r \in Repos : Active(v)' =>
          /\ \A i \in revs[r], j \in run'[v].snap[r] : i <= j => i \in run'[v].snap[r]
          /\ r \notin Git => run'[v].snap[r] \subseteq revs[r]
    BY <1>3, <1>4, <1>5 DEF Inv, SnapsOld
  <2> QED
    BY <2>1 DEF SnapsOld
<1>11. MarksReady'
  BY DEF Inv, MarksReady, Ready, Plain
<1>12. SeenReady'
  <2>1. ASSUME NEW v \in Runners, Active(v)', NEW d \in run'[v].seen, d.last
        PROVE  Ready(d.repo, d.id)'
    <3>1. v # w
      BY <1>3, <1>4, <2>1
    <3>2. run'[v] = run[v] /\ Active(v)
      BY <1>5, <2>1, <3>1
    <3>3. docs' = docs
      BY <3>2
    <3>4. Ready(d.repo, d.id)
      BY <2>1, <3>2 DEF Inv, SeenReady
    <3> QED
      BY <3>3, <3>4 DEF Ready, Plain
  <2> QED
    BY <2>1 DEF SeenReady
<1> QED
  BY <1>4, <1>6, <1>8, <1>9, <1>10, <1>11, <1>12 DEF Inv

\* The steps that begin one.
LEMMA BeginningsKeep ==
  ASSUME SearchAssumption, Inv, NEW w \in Runners, NEW scope \in SUBSET Repos,
         \/ \E refresh \in BOOLEAN :
              UpdateFiles(w, scope, refresh) \/ UpdateFilesSkips(w, scope, refresh)
         \/ Recreate(w, scope)
  PROVE  Inv'
<1>1. ASSUME NEW refresh \in BOOLEAN,
             UpdateFiles(w, scope, refresh) \/ UpdateFilesSkips(w, scope, refresh)
      PROVE  Inv'
  <2>1. /\ Start(w, "listed", scope) /\ UNCHANGED <<changes, revs, exists, docs>>
        /\ faults' = faults \/ (faults < MaxFaults /\ faults' = faults + 1)
    BY <1>1 DEF UpdateFiles, UpdateFilesSkips
  <2>2. PICK deleted \in SUBSET Outdated(scope, refresh), added \in SUBSET ToAdd(scope, refresh) :
          /\ \A f \in added : HasDocument(f) => f \in deleted
          /\ files' = Without(files, deleted) \cup added
    <3>1. CASE UpdateFiles(w, scope, refresh)
      <4>1. files' = Without(files, Outdated(scope, refresh)) \cup ToAdd(scope, refresh)
        BY <3>1 DEF UpdateFiles
      <4>2. \A f \in ToAdd(scope, refresh) : HasDocument(f) => f \in Outdated(scope, refresh)
        BY DEF ToAdd
      <4> QED
        BY <4>1, <4>2
    <3>2. CASE UpdateFilesSkips(w, scope, refresh)
      BY <3>2 DEF UpdateFilesSkips
    <3> QED
      BY <1>1, <3>1, <3>2
  <2>3. files' \subseteq FileDoc /\ OneDocumentPerFile'
    BY <2>2, FilesUpdated
  <2>4. exists' \in BOOLEAN /\ faults' \in 0 .. MaxFaults
    BY <2>1, Unfinished
  <2> QED
    BY <2>1, <2>3, <2>4, RunBegins
<1>2. CASE Recreate(w, scope)
  <2>1. /\ \A v \in Runners : ~Active(v)
        /\ Start(w, "building", scope) /\ UNCHANGED <<changes, revs, faults>>
        /\ exists' = TRUE /\ files' = {} /\ docs' = {}
    BY <1>2 DEF Recreate, Active
  <2>2. /\ exists' \in BOOLEAN /\ faults' \in 0 .. MaxFaults
        /\ files' \subseteq FileDoc /\ OneDocumentPerFile'
    BY <2>1, Unfinished DEF OneDocumentPerFile
  <2> QED
    BY <2>1, <2>2, RunBegins
<1> QED
  BY <1>1, <1>2

\* A change of the files alone.
LEMMA OnlyFilesChange ==
  ASSUME SearchAssumption, Inv, UNCHANGED <<changes, revs, exists, docs, run>>,
         faults' \in 0 .. MaxFaults, files' \subseteq FileDoc, OneDocumentPerFile'
  PROVE  Inv'
<1>1. TypeOK'
  BY DEF Inv, TypeOK
<1>2. Numbered'
  BY DEF Inv, Numbered, Made, Active
<1>3. BuildsAlone' /\ SnapsOld'
  BY DEF Inv, BuildsAlone, SnapsOld, Active
<1>4. MarksReady' /\ SeenReady'
  BY DEF Inv, MarksReady, SeenReady, Active, Ready, Plain
<1>5. run' \in [Runners -> Run \cup {Idle}]
  BY DEF Inv
<1> QED
  BY <1>1, <1>2, <1>3, <1>4, <1>5 DEF Inv

\* An update of the files that fails part of the way.
LEMMA UpdateFilesFailsKeeps ==
  ASSUME SearchAssumption, Inv, NEW w \in Runners, NEW scope \in SUBSET Repos,
         NEW refresh \in BOOLEAN, UpdateFilesFails(w, scope, refresh)
  PROVE  Inv'
<1>1. PICK deleted \in SUBSET Outdated(scope, refresh), added \in SUBSET ToAdd(scope, refresh) :
        /\ added # {} => deleted = Outdated(scope, refresh)
        /\ files' = Without(files, deleted) \cup added
  BY DEF UpdateFilesFails
<1>2. files' \subseteq FileDoc /\ OneDocumentPerFile'
  <2>1. \A f \in added : HasDocument(f) => f \in deleted
    BY <1>1 DEF ToAdd
  <2> QED
    BY <1>1, <2>1, FilesUpdated
<1>3. UNCHANGED <<changes, revs, exists, docs, run>> /\ faults < MaxFaults /\ faults' = faults + 1
  BY DEF UpdateFilesFails
<1>4. faults' \in 0 .. MaxFaults
  BY <1>3, Unfinished
<1> QED
  BY <1>2, <1>3, <1>4, OnlyFilesChange

\* A run opens its searcher: what it sees are marks of the index.
LEMMA OpenSearcherKeeps ==
  ASSUME SearchAssumption, Inv, NEW w \in Runners, OpenSearcher(w)
  PROVE  Inv'
<1> DEFINE new == [run[w] EXCEPT !.at = "searching", !.seen = {d \in docs : d.last}]
<1>1. /\ Active(w) /\ UNCHANGED <<changes, revs, exists, files, docs, faults>>
      /\ run' = [run EXCEPT ![w] = new] /\ run \in [Runners -> Run \cup {Idle}]
      /\ run[w] \in Run
  <2>1. Active(w) /\ UNCHANGED <<changes, revs, exists, files, docs, faults>>
    BY DEF OpenSearcher, Active
  <2>2. run \in [Runners -> Run \cup {Idle}]
    BY DEF Inv
  <2>3. run[w] \in Run
    BY <2>1, RunFacts
  <2>4. run' = [run EXCEPT ![w] = new]
    BY <2>2, <2>3 DEF OpenSearcher, Run
  <2> QED
    BY <2>1, <2>2, <2>3, <2>4
<1>2. new \in Run
  BY <1>1 DEF Run, Inv, TypeOK
<1>3. /\ new.at = "searching" /\ new.snap = run[w].snap
      /\ new.seen = {d \in docs : d.last}
  BY <1>1 DEF Run
<1> HIDE DEF new
<1>4. run' \in [Runners -> Run \cup {Idle}] /\ run'[w] = new
  BY <1>1, <1>2
<1>5. ASSUME NEW v \in Runners, v # w
      PROVE  run'[v] = run[v] /\ (Active(v)' <=> Active(v))
  BY <1>1, <1>5 DEF Active
<1>6. TypeOK'
  <2>1. \A v \in Runners : run'[v] = Idle \/ run'[v] \in Run
    BY <1>4
  <2> QED
    BY <1>1, <2>1 DEF Inv, TypeOK
<1>7. Made' = Made
  BY <1>1 DEF Made
<1>8. Numbered'
  <2>1. /\ Made \in 0 .. MaxChangesets /\ DOMAIN changes' = 1 .. Made
        /\ \A r \in Repos : revs'[r] \subseteq 1 .. Made
        /\ \A d \in docs' : d.id \in 1 .. Made
    BY <1>1 DEF Inv, Numbered
  <2>2. \A v \in Runners : Active(v)' =>
          /\ \A r \in Repos : run'[v].snap[r] \subseteq 1 .. Made
          /\ \A d \in run'[v].seen : d.id \in 1 .. Made
    BY <1>1, <1>3, <1>4, <1>5, <2>1 DEF Inv, Numbered
  <2> QED
    BY <1>7, <2>1, <2>2 DEF Numbered
<1>9. BuildsAlone'
  <2>1. \A v \in Runners : Active(v)' /\ run'[v].at = "building" =>
          v # w /\ Active(v) /\ run[v].at = "building"
    BY <1>3, <1>4, <1>5
  <2>2. \A v \in Runners : Active(v)' => Active(v)
    BY <1>1, <1>5
  <2>3. \A v \in Runners : Active(v)' /\ run'[v].at = "building" =>
          \A u \in Runners \ {v} : ~Active(u)'
    BY <2>1, <2>2 DEF Inv, BuildsAlone
  <2> QED
    BY <2>3 DEF BuildsAlone
<1>10. SnapsOld'
  <2>1. \A v \in Runners, r \in Repos : Active(v)' =>
          /\ \A i \in revs[r], j \in run'[v].snap[r] : i <= j => i \in run'[v].snap[r]
          /\ r \notin Git => run'[v].snap[r] \subseteq revs[r]
    BY <1>1, <1>3, <1>4, <1>5 DEF Inv, SnapsOld
  <2> QED
    BY <1>1, <2>1 DEF SnapsOld
<1>11. MarksReady'
  BY <1>1 DEF Inv, MarksReady, Ready, Plain
<1>12. SeenReady'
  <2>1. ASSUME NEW v \in Runners, Active(v)', NEW d \in run'[v].seen, d.last
        PROVE  Ready(d.repo, d.id)
    <3>1. CASE v = w
      BY <1>3, <1>4, <2>1, <3>1 DEF Inv, MarksReady
    <3>2. CASE v # w
      BY <1>5, <2>1, <3>2 DEF Inv, SeenReady
    <3> QED
      BY <3>1, <3>2
  <2> QED
    BY <1>1, <2>1 DEF SeenReady, Ready, Plain
<1>13. OneDocumentPerFile'
  BY <1>1 DEF Inv, OneDocumentPerFile, SameFile
<1> QED
  BY <1>4, <1>6, <1>8, <1>9, <1>10, <1>11, <1>12, <1>13 DEF Inv

\* Repositories get a changeset that is younger than all, or git loses some.
LEMMA RepositoriesChange ==
  ASSUME SearchAssumption, Inv, UNCHANGED <<exists, files, docs, run, faults>>,
         Made' \in Made .. MaxChangesets, DOMAIN changes' = 1 .. Made',
         revs' \in [Repos -> SUBSET (1 .. Made')],
         \A r \in Repos : \A i \in revs'[r] : i \in revs[r] \/ i = Made + 1,
         \A r \in Repos : r \notin Git => revs[r] \subseteq revs'[r]
  PROVE  Inv'
<1>1. /\ Made \in Nat /\ Made' \in Nat /\ MaxChangesets \in Nat
      /\ 1 .. Made \subseteq 1 .. Made' /\ 1 .. Made' \subseteq Changesets
      /\ \A i \in 1 .. Made : i < Made + 1
  <2>1. Made \in 0 .. MaxChangesets /\ MaxChangesets \in Nat
    BY DEF Inv, Numbered, SearchAssumption
  <2> QED
    BY <2>1 DEF Changesets
<1>2. /\ \A d \in docs : d.id \in 1 .. Made
      /\ \A w \in Runners : Active(w) =>
           /\ \A r \in Repos : run[w].snap[r] \subseteq 1 .. Made
           /\ \A d \in run[w].seen : d \in ChangesetDoc /\ d.id \in 1 .. Made
  BY RunFacts DEF Inv, Numbered
<1>3. \A w \in Runners : Active(w)' <=> Active(w)
  BY DEF Active
<1>4. TypeOK'
  <2>1. revs' \in [Repos -> SUBSET Changesets] /\ DOMAIN changes' \subseteq Changesets
    BY <1>1
  <2> QED
    BY <2>1 DEF Inv, TypeOK
<1>5. Numbered'
  <2>1. Made' \in 0 .. MaxChangesets
    BY <1>1
  <2>2. /\ \A d \in docs' : d.id \in 1 .. Made'
        /\ \A w \in Runners : Active(w)' =>
             /\ \A r \in Repos : run'[w].snap[r] \subseteq 1 .. Made'
             /\ \A d \in run'[w].seen : d.id \in 1 .. Made'
    BY <1>1, <1>2, <1>3
  <2> QED
    BY <2>1, <2>2 DEF Numbered
<1>6. BuildsAlone'
  BY DEF Inv, BuildsAlone, Active
<1>7. SnapsOld'
  <2>1. ASSUME NEW w \in Runners, NEW r \in Repos, Active(w)
        PROVE  /\ \A i \in revs'[r], j \in run[w].snap[r] : i <= j => i \in run[w].snap[r]
               /\ r \notin Git => run[w].snap[r] \subseteq revs'[r]
    <3>1. /\ \A i \in revs[r], j \in run[w].snap[r] : i <= j => i \in run[w].snap[r]
          /\ r \notin Git => run[w].snap[r] \subseteq revs[r]
      BY <2>1 DEF Inv, SnapsOld
    <3>2. \A j \in run[w].snap[r] : j \in 1 .. Made
      BY <1>2, <2>1
    <3>3. \A j \in 1 .. Made : ~(Made + 1 <= j)
      BY <1>1
    <3> QED
      BY <3>1, <3>2, <3>3
  <2> QED
    BY <1>3, <2>1 DEF SnapsOld
<1>8. ASSUME NEW r \in Repos, NEW m \in 1 .. Made, Ready(r, m)
      PROVE  Ready(r, m)'
  <2>1. ASSUME m \in revs'[r], NEW i \in revs'[r], i < m
        PROVE  Plain(r, i)
    <3>1. m \in revs[r] /\ i \in revs[r]
      BY <1>1, <2>1
    <3> QED
      BY <1>8, <2>1, <3>1 DEF Ready
  <2> QED
    BY <2>1 DEF Ready, Plain
<1>9. MarksReady'
  <2>1. \A d \in docs : d.last => Ready(d.repo, d.id)
    BY DEF Inv, MarksReady
  <2>2. \A d \in docs : d.repo \in Repos
    BY DEF Inv, TypeOK, ChangesetDoc
  <2>3. \A d \in docs : d.last => Ready(d.repo, d.id)'
    BY <1>2, <1>8, <2>1, <2>2
  <2> QED
    BY <2>3 DEF MarksReady
<1>10. SeenReady'
  <2>1. ASSUME NEW w \in Runners, Active(w), NEW d \in run[w].seen, d.last
        PROVE  Ready(d.repo, d.id)'
    <3>1. Ready(d.repo, d.id)
      BY <2>1 DEF Inv, SeenReady
    <3>2. d.repo \in Repos /\ d.id \in 1 .. Made
      BY <1>2, <2>1 DEF ChangesetDoc
    <3> QED
      BY <1>8, <3>1, <3>2
  <2> QED
    BY <1>3, <2>1 DEF SeenReady
<1>11. OneDocumentPerFile' /\ run' \in [Runners -> Run \cup {Idle}]
  BY DEF Inv, OneDocumentPerFile, SameFile
<1> QED
  BY <1>4, <1>5, <1>6, <1>7, <1>9, <1>10, <1>11 DEF Inv

\* A push, and one that takes changesets away.
LEMMA PushesKeep ==
  ASSUME SearchAssumption, Inv, NEW r \in Repos,
         \/ \E path, gone : Push(r, path, gone)
         \/ \E tip : ForcePush(r, tip)
  PROVE  Inv'
<1>1. /\ Made \in Nat /\ Made <= MaxChangesets /\ MaxChangesets \in Nat
      /\ revs \in [Repos -> SUBSET Changesets]
      /\ \A q \in Repos : revs[q] \subseteq 1 .. Made
      /\ DOMAIN changes = 1 .. Made
  <2>1. MaxChangesets \in Nat
    BY DEF SearchAssumption
  <2> QED
    BY <2>1 DEF Inv, Numbered, TypeOK
<1>2. ASSUME NEW path, NEW gone, Push(r, path, gone)
      PROVE  Inv'
  <2> DEFINE id == Made + 1
  <2>1. /\ Made < MaxChangesets
        /\ DOMAIN changes' = 1 .. id
        /\ revs' = [revs EXCEPT ![r] = @ \cup {id}]
        /\ UNCHANGED <<exists, files, docs, run, faults>>
    BY <1>2 DEF Push, Made
  <2>2. Cardinality(1 .. id) = id
    BY <1>1, FS_Interval
  <2>3. Made' = id
    BY <2>1, <2>2 DEF Made
  <2>4. Made' \in Made .. MaxChangesets /\ DOMAIN changes' = 1 .. Made'
    BY <1>1, <2>1, <2>3
  <2>5. revs' \in [Repos -> SUBSET (1 .. Made')]
    <3>1. 1 .. Made \subseteq 1 .. id /\ id \in 1 .. id
      BY <1>1
    <3> QED
      BY <1>1, <2>1, <2>3, <3>1
  <2>6. /\ \A q \in Repos : \A i \in revs'[q] : i \in revs[q] \/ i = Made + 1
        /\ \A q \in Repos : q \notin Git => revs[q] \subseteq revs'[q]
    BY <1>1, <2>1
  <2> QED
    BY <2>1, <2>4, <2>5, <2>6, RepositoriesChange
<1>3. ASSUME NEW tip, ForcePush(r, tip)
      PROVE  Inv'
  <2>1. /\ r \in Git
        /\ revs' = [revs EXCEPT ![r] = {i \in @ : i <= tip}]
        /\ UNCHANGED <<changes, exists, files, docs, run, faults>>
    BY <1>3 DEF ForcePush
  <2>2. Made' = Made
    BY <2>1 DEF Made
  <2>3. Made' \in Made .. MaxChangesets /\ DOMAIN changes' = 1 .. Made'
    BY <1>1, <2>1, <2>2
  <2>4. revs' \in [Repos -> SUBSET (1 .. Made')]
    BY <1>1, <2>1, <2>2
  <2>5. /\ \A q \in Repos : \A i \in revs'[q] : i \in revs[q] \/ i = Made + 1
        /\ \A q \in Repos : q \notin Git => revs[q] \subseteq revs'[q]
    BY <1>1, <2>1
  <2> QED
    BY <2>1, <2>3, <2>4, <2>5, RepositoriesChange
<1> QED
  BY <1>2, <1>3

-----------------------------------------------------------------------------
(* The theorems                                                            *)

\* The invariant holds at the beginning.
LEMMA InitInv ==
  ASSUME SearchAssumption, Init
  PROVE  Inv
<1>1. /\ MaxFaults \in Nat /\ MaxChangesets \in Nat
      /\ changes = <<>> /\ revs = [r \in Repos |-> {}] /\ exists = FALSE
      /\ files = {} /\ docs = {} /\ run = [w \in Runners |-> Idle] /\ faults = 0
  BY DEF SearchAssumption, Init
<1>2. DOMAIN changes = 1 .. 0 /\ 1 .. 0 = {}
  BY <1>1
<1>3. Made = 0
  BY <1>2, FS_EmptySet DEF Made
<1>4. TypeOK /\ run \in [Runners -> Run \cup {Idle}]
  <2>1. DOMAIN changes \subseteq Changesets
    BY <1>2
  <2>2. revs \in [Repos -> SUBSET Changesets] /\ exists \in BOOLEAN
    BY <1>1
  <2>3. files \subseteq FileDoc /\ docs \subseteq ChangesetDoc /\ faults \in 0 .. MaxFaults
    BY <1>1
  <2>4. run \in [Runners -> Run \cup {Idle}] /\ \A w \in Runners : run[w] = Idle
    BY <1>1
  <2> QED
    BY <2>1, <2>2, <2>3, <2>4 DEF TypeOK
<1>5. \A w \in Runners : ~Active(w)
  BY <1>1 DEF Active
<1>6. Numbered
  BY <1>1, <1>2, <1>3, <1>5 DEF Numbered
<1>7. BuildsAlone /\ SnapsOld /\ SeenReady
  BY <1>5 DEF BuildsAlone, SnapsOld, SeenReady
<1>8. MarksReady /\ OneDocumentPerFile
  BY <1>1 DEF MarksReady, OneDocumentPerFile
<1> QED
  BY <1>4, <1>6, <1>7, <1>8 DEF Inv

\* Every step keeps it.
LEMMA NextInv ==
  ASSUME SearchAssumption, Inv, [Next]_vars
  PROVE  Inv'
<1> Repos \in SUBSET Repos /\ "cli" \in Runners /\ "task" \in Runners
  BY DEF Runners
<1>1. ASSUME NEW r \in Repos,
             \/ \E path \in Paths : Push(r, path, FALSE)
             \/ \E f \in Tree(r, revs[r]) : Push(r, f.path, TRUE)
             \/ \E tip \in revs[r] : ForcePush(r, tip)
      PROVE  Inv'
  BY <1>1, PushesKeep
<1>2. ASSUME NEW scope \in SUBSET Repos \ {{}}, ByHand(scope)
      PROVE  Inv'
  BY <1>2, BeginningsKeep DEF ByHand
<1>3. CASE Recreate("task", Repos)
  BY <1>3, BeginningsKeep
<1>4. ASSUME NEW w \in Runners, WholeRun(w)
      PROVE  Inv'
  BY <1>4, BeginningsKeep DEF WholeRun
<1>5. ASSUME NEW w \in Runners, Continue(w)
      PROVE  Inv'
  BY <1>5, OpenSearcherKeeps, UpdateChangesetsKeeps, UpdateOvertakenKeeps, BuildKeeps,
     OtherEndsKeep DEF Continue
<1>6. ASSUME NEW w \in Runners, Fail(w)
      PROVE  Inv'
  <2>1. ASSUME NEW scope \in SUBSET Repos, NEW refresh \in BOOLEAN,
               UpdateFilesFails(w, scope, refresh) \/ UpdateFilesSkips(w, scope, refresh)
        PROVE  Inv'
    BY <2>1, UpdateFilesFailsKeeps, BeginningsKeep
  <2>2. CASE UpdateFails(w) \/ BuildSkips(w) \/ BuildFilesOnly(w) \/ Die(w)
    BY <2>2, UpdateFailsKeeps, BuildKeeps, OtherEndsKeep
  <2> QED
    BY <1>6, <2>1, <2>2 DEF Fail
<1>7. CASE UNCHANGED vars
  <2>1. UNCHANGED <<changes, revs, exists, docs, run, files, faults>>
    BY <1>7 DEF vars
  <2>2. faults' \in 0 .. MaxFaults /\ files' \subseteq FileDoc
    BY <2>1, Unfinished
  <2>3. OneDocumentPerFile'
    BY <2>1 DEF Inv, OneDocumentPerFile, SameFile
  <2> QED
    BY <2>1, <2>2, <2>3, OnlyFilesChange
<1> QED
  BY <1>1, <1>2, <1>3, <1>4, <1>5, <1>6, <1>7 DEF Next

\* Documents without a mark, soundness of marks in the index and in what runs have
\* seen, numbers and types: all that the properties rest on.
THEOREM SearchInvariant == Spec => []Inv
<1>1. Init => Inv
  BY InitInv, SearchAssumption
<1>2. Inv /\ [Next]_vars => Inv'
  BY NextInv, SearchAssumption
<1> QED
  BY <1>1, <1>2, PTL DEF Spec

\* The indexes, the repositories and the runs have their types.
THEOREM TypesCorrect == Spec => []TypeOK
<1>1. Inv => TypeOK
  BY DEF Inv
<1> QED
  BY <1>1, SearchInvariant, PTL

\* A search finds a file once, whatever runs of update_file_index failed half-way,
\* passed over files or overlapped.
THEOREM FilesAreFoundOnce == Spec => []OneDocumentPerFile
<1>1. Inv => OneDocumentPerFile
  BY DEF Inv
<1> QED
  BY <1>1, SearchInvariant, PTL

\* Going on from a changeset that update_changeset_index finds marked as the last
\* one leaves out none that is before it, whichever run has marked it.
THEOREM MarksTellTheTruth == Spec => []MarksComplete
<1>1. ASSUME Inv PROVE MarksComplete
  <2> SUFFICES ASSUME NEW d \in docs, d.last, d.id \in revs[d.repo],
                      NEW i \in revs[d.repo], i <= d.id
               PROVE  Found(d.repo, i)
    BY DEF MarksComplete
  <2>1. Ready(d.repo, d.id)
    BY <1>1 DEF Inv, MarksReady
  <2>2. d.id \in Nat /\ i \in Nat
    <3>1. d.repo \in Repos
      BY <1>1 DEF Inv, TypeOK, ChangesetDoc
    <3>2. revs[d.repo] \subseteq 1 .. Made
      BY <1>1, <3>1 DEF Inv, Numbered
    <3> QED
      BY <3>2
  <2>3. CASE i = d.id
    BY <2>3 DEF Found
  <2>4. CASE i < d.id
    <3>1. Plain(d.repo, i)
      BY <2>1, <2>4 DEF Ready
    <3> QED
      BY <3>1 DEF Found, Plain
  <2> QED
    BY <2>2, <2>3, <2>4
<1> QED
  BY <1>1, SearchInvariant, PTL

\* A run that gets past its files, and could read them all, has every file of its
\* repositories in the index, and with --update-only none as it was before its last change.
THEOREM RunsListTheirFiles == Spec => RunListsFiles
<1>1. ASSUME Inv, NEW scope \in SUBSET Repos, NEW refresh \in BOOLEAN,
             UpdateFiles("cli", scope, refresh), NEW r \in scope, NEW f \in Tree(r, revs[r])
      PROVE  \E d \in files' : SameFile(d, f) /\ (refresh => d.modtime >= f.modtime)
  <2>1. files' = Without(files, Outdated(scope, refresh)) \cup ToAdd(scope, refresh)
    BY <1>1 DEF UpdateFiles
  <2>2. f \in UNION {Tree(q, revs[q]) : q \in scope}
    OBVIOUS
  <2>3. f \in FileDoc
    <3>1. r \in Repos /\ revs[r] \subseteq Changesets
      BY <1>1 DEF Inv, TypeOK
    <3> QED
      BY <3>1, TreeFacts, SearchAssumption
  <2>4. \A d \in FileDoc : d.modtime \in Nat
    BY DEF FileDoc, Changesets
  <2>5. CASE f \in ToAdd(scope, refresh)
    <3>1. SameFile(f, f) /\ f.modtime >= f.modtime
      BY <2>3, <2>4 DEF SameFile
    <3> QED
      BY <2>1, <2>5, <3>1
  <2>6. CASE f \notin ToAdd(scope, refresh)
    <3>1. HasDocument(f) /\ f \notin Outdated(scope, refresh)
      BY <2>2, <2>6 DEF ToAdd
    <3>2. PICK d \in files : SameFile(d, f)
      BY <3>1 DEF HasDocument
    <3>3. d \in FileDoc
      BY <1>1 DEF Inv, TypeOK
    <3>4. refresh => ~(f.modtime > d.modtime)
      BY <2>2, <3>1, <3>2 DEF Outdated
    <3>5. refresh => d.modtime >= f.modtime
      BY <2>3, <2>4, <3>3, <3>4
    <3>6. CASE d \in Without(files, Outdated(scope, refresh))
      BY <2>1, <3>2, <3>5, <3>6
    <3>7. CASE d \notin Without(files, Outdated(scope, refresh))
      \* Its document is deleted for a file of the same name, which is this one.
      <4>1. PICK g \in Outdated(scope, refresh) : SameFile(d, g)
        BY <3>7 DEF Without
      <4>2. PICK s \in scope : g \in Tree(s, revs[s])
        BY DEF Outdated
      <4>3. \A x \in scope : revs[x] \subseteq Changesets
        BY <1>1 DEF Inv, TypeOK
      <4>4. /\ r \in Repos /\ s \in Repos /\ revs[r] \subseteq Changesets
            /\ revs[s] \subseteq Changesets
        BY <4>3
      <4>5. f.repo = r /\ g.repo = s
        BY <4>2, <4>4, TreeFacts, SearchAssumption
      <4>6. SameFile(f, g)
        BY <3>2, <4>1 DEF SameFile
      <4>7. r = s
        BY <4>5, <4>6 DEF SameFile
      <4>8. f = g
        BY <4>2, <4>4, <4>6, <4>7, TreeFacts, SearchAssumption
      <4> QED
        BY <3>1, <4>8
    <3> QED
      BY <3>6, <3>7
  <2> QED
    BY <2>5, <2>6
<1>2. Inv /\ [Next]_vars =>
        [\A scope \in SUBSET Repos, refresh \in BOOLEAN :
           UpdateFiles("cli", scope, refresh) =>
             \A r \in scope : \A f \in Tree(r, revs[r]) :
               \E d \in files' : SameFile(d, f) /\ (refresh => d.modtime >= f.modtime)]_vars
  BY <1>1
<1> QED
  BY <1>2, SearchInvariant, PTL DEF Spec, RunListsFiles

=============================================================================
