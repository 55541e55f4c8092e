------------------------- MODULE RepositoryStoreProofs -------------------------
(*****************************************************************************)
(* Proofs about RepositoryStore for any number of names, groups,             *)
(* repositories, tasks and requests.                                         *)
(*                                                                           *)
(* A group's name is the path that the tree of groups gives it; that makes   *)
(* the tree one of paths, so that to move a directory and to rename the rows *)
(* below a group are the same change of paths (Rebased).                     *)
(*****************************************************************************)
EXTENDS RepositoryStore, SequenceTheorems, FiniteSetTheorems, WellFoundedInduction, TLAPS

-----------------------------------------------------------------------------
(* Paths                                                                   *)

Path == Seq(Names) \ {<<>>}
PathOrRoot == Seq(Names)

\* The path p of something in the directory from once that is moved to to.
Rebased(p, from, to) == to \o SubSeq(p, Len(from) + 1, Len(p))

\* A path has a first name.
LEMMA PathFacts ==
  ASSUME NEW p \in Path
  PROVE  /\ p \in Seq(Names) /\ Len(p) \in Nat /\ Len(p) >= 1
         /\ \A i \in 1 .. Len(p) : p[i] \in Names
         /\ Own(p) \in Names
<1>1. p \in Seq(Names) /\ p # <<>>
  BY DEF Path
<1>2. Len(p) \in Nat \ {0}
  BY <1>1, EmptySeq
<1>3. \A i \in 1 .. Len(p) : p[i] \in Names
  BY <1>1, ElementOfSeq
<1> QED
  BY <1>1, <1>2, <1>3 DEF Own

\* Paths are equal if they have the same names.
LEMMA SamePath ==
  ASSUME NEW p \in PathOrRoot, NEW q \in PathOrRoot,
         Len(p) = Len(q), \A i \in 1 .. Len(p) : p[i] = q[i]
  PROVE  p = q
BY SeqEqual DEF PathOrRoot

\* The beginning of a path.
LEMMA Beginning ==
  ASSUME NEW p \in PathOrRoot, NEW k \in 0 .. Len(p)
  PROVE  /\ SubSeq(p, 1, k) \in PathOrRoot
         /\ Len(SubSeq(p, 1, k)) = k
         /\ \A i \in 1 .. k : SubSeq(p, 1, k)[i] = p[i]
         /\ k >= 1 => SubSeq(p, 1, k) \in Path
<1>1. p \in Seq(Names) /\ Len(p) \in Nat /\ k \in Nat
  BY LenProperties DEF PathOrRoot
<1>2. \A i \in 1 .. k : p[i] \in Names
  BY <1>1, ElementOfSeq
<1>3. /\ SubSeq(p, 1, k) \in Seq(Names)
      /\ Len(SubSeq(p, 1, k)) = IF 1 <= k THEN k - 1 + 1 ELSE 0
      /\ \A i \in 1 .. k - 1 + 1 : SubSeq(p, 1, k)[i] = p[1 + i - 1]
  <2>1. k \in Int /\ 1 \in Int
    BY <1>1
  <2> QED
    BY <1>2, <2>1, SubSeqProperties
<1>4. Len(SubSeq(p, 1, k)) = k /\ \A i \in 1 .. k : SubSeq(p, 1, k)[i] = p[i]
  <2>1. k - 1 + 1 = k /\ \A i \in 1 .. k : 1 + i - 1 = i
    BY <1>1
  <2>2. Len(SubSeq(p, 1, k)) = k
    BY <1>1, <1>3
  <2> QED
    BY <1>3, <2>1, <2>2
<1>5. k >= 1 => SubSeq(p, 1, k) # <<>>
  BY <1>1, <1>4, EmptySeq
<1> QED
  BY <1>3, <1>4, <1>5 DEF PathOrRoot, Path

\* One path is above another if it has the first of its names.
LEMMA PrefixIff ==
  ASSUME NEW p \in PathOrRoot
  PROVE  /\ Prefixes(p) \subseteq Path
         /\ \A q \in Path : q \in Prefixes(p) <=>
              Len(q) <= Len(p) /\ \A i \in 1 .. Len(q) : q[i] = p[i]
<1>1. Len(p) \in Nat
  BY LenProperties DEF PathOrRoot
<1>2. ASSUME NEW k \in 1 .. Len(p)
      PROVE  /\ SubSeq(p, 1, k) \in Path /\ SubSeq(p, 1, k) \in PathOrRoot
             /\ Len(SubSeq(p, 1, k)) = k
             /\ \A i \in 1 .. k : SubSeq(p, 1, k)[i] = p[i]
  <2>1. k \in 0 .. Len(p) /\ k >= 1
    BY <1>1
  <2> QED
    BY <2>1, Beginning
<1>3. Prefixes(p) \subseteq Path
  BY <1>2 DEF Prefixes
<1>4. ASSUME NEW q \in Path, q \in Prefixes(p)
      PROVE  Len(q) <= Len(p) /\ \A i \in 1 .. Len(q) : q[i] = p[i]
  <2>1. PICK k \in 1 .. Len(p) : q = SubSeq(p, 1, k)
    BY <1>4 DEF Prefixes
  <2>2. Len(q) = k /\ \A i \in 1 .. k : q[i] = p[i]
    BY <1>2, <2>1
  <2> QED
    BY <1>1, <2>2
<1>5. ASSUME NEW q \in Path, Len(q) <= Len(p), \A i \in 1 .. Len(q) : q[i] = p[i]
      PROVE  q \in Prefixes(p)
  <2>1. Len(q) \in 1 .. Len(p) /\ q \in PathOrRoot
    BY <1>1, <1>5, PathFacts DEF PathOrRoot
  <2>2. q = SubSeq(p, 1, Len(q))
    <3>1. PICK s : s = SubSeq(p, 1, Len(q))
      OBVIOUS
    <3>2. s \in PathOrRoot /\ Len(s) = Len(q) /\ \A i \in 1 .. Len(q) : s[i] = p[i]
      BY <1>2, <2>1, <3>1
    <3> QED
      BY <1>5, <2>1, <3>1, <3>2, SamePath
  <2> QED
    BY <2>1, <2>2 DEF Prefixes
<1> QED
  BY <1>3, <1>4, <1>5

\* Being above is an order, and what is above the same path is in line.
LEMMA BelowOrders ==
  /\ \A p \in Path : Below(p, p)
  /\ \A p, q \in Path : Below(p, q) /\ Below(q, p) => p = q
  /\ \A p, q, r \in Path : Below(p, q) /\ Below(q, r) => Below(p, r)
  /\ \A p, q, r \in Path : Below(p, r) /\ Below(q, r) => Below(p, q) \/ Below(q, p)
  /\ \A p, q \in Path : Below(p, q) /\ Len(p) = Len(q) => p = q
<1>1. \A p \in Path : /\ p \in PathOrRoot /\ Len(p) \in Nat
                      /\ \A q \in Path : Below(q, p) <=>
                           Len(q) <= Len(p) /\ \A i \in 1 .. Len(q) : q[i] = p[i]
  BY PathFacts, PrefixIff DEF Below, Path, PathOrRoot
<1>2. \A p \in Path : Below(p, p)
  BY <1>1
<1>3. \A p, q \in Path : Below(p, q) /\ Len(p) = Len(q) => p = q
  BY <1>1, SamePath
<1>4. \A p, q \in Path : Below(p, q) /\ Below(q, p) => p = q
  <2>1. \A p, q \in Path : Below(p, q) /\ Below(q, p) => Len(p) = Len(q)
    BY <1>1
  <2> QED
    BY <1>3, <2>1
<1>5. ASSUME NEW p \in Path, NEW q \in Path, NEW r \in Path, Below(p, q), Below(q, r)
      PROVE  Below(p, r)
  <2>1. /\ Len(p) <= Len(q) /\ \A i \in 1 .. Len(p) : p[i] = q[i]
        /\ Len(q) <= Len(r) /\ \A i \in 1 .. Len(q) : q[i] = r[i]
    BY <1>1, <1>5
  <2>2. Len(p) \in Nat /\ Len(q) \in Nat /\ Len(r) \in Nat
    BY <1>1
  <2>3. Len(p) <= Len(r) /\ \A i \in 1 .. Len(p) : p[i] = r[i]
    BY <2>1, <2>2
  <2> QED
    BY <1>1, <2>3
<1>6. ASSUME NEW p \in Path, NEW q \in Path, NEW r \in Path, Below(p, r), Below(q, r)
      PROVE  Below(p, q) \/ Below(q, p)
  <2>1. /\ \A i \in 1 .. Len(p) : p[i] = r[i]
        /\ \A i \in 1 .. Len(q) : q[i] = r[i]
    BY <1>1, <1>6
  <2>2. Len(p) \in Nat /\ Len(q) \in Nat
    BY <1>1
  <2>3. CASE Len(p) <= Len(q)
    <3>1. \A i \in 1 .. Len(p) : p[i] = q[i]
      BY <2>1, <2>2, <2>3
    <3> QED
      BY <1>1, <2>3, <3>1
  <2>4. CASE Len(q) <= Len(p)
    <3>1. \A i \in 1 .. Len(q) : q[i] = p[i]
      BY <2>1, <2>2, <2>4
    <3> QED
      BY <1>1, <2>4, <3>1
  <2> QED
    BY <2>2, <2>3, <2>4
<1> QED
  BY <1>2, <1>3, <1>4, <1>5, <1>6

\* A path with one more name.
LEMMA ChildFacts ==
  ASSUME NEW p \in PathOrRoot, NEW n \in Names, NEW c, c = p \o <<n>>
  PROVE  /\ c \in Path /\ Own(c) = n /\ Len(c) = Len(p) + 1
         /\ \A i \in 1 .. Len(p) : c[i] = p[i]
         /\ Prefixes(c) = Prefixes(p) \cup {c}
         /\ \A q \in Path : Below(c, q) /\ q # c => Len(q) > Len(c)
<1>1. p \in Seq(Names) /\ <<n>> \in Seq(Names) /\ Len(<<n>>) = 1 /\ <<n>>[1] = n
  BY DEF PathOrRoot
<1>2. Len(p) \in Nat
  BY <1>1, LenProperties
<1>3. /\ c \in Seq(Names) /\ Len(c) = Len(p) + 1
      /\ \A i \in 1 .. Len(p) + 1 : c[i] = IF i <= Len(p) THEN p[i] ELSE <<n>>[i - Len(p)]
  BY <1>1, ConcatProperties
<1>4. c[Len(p) + 1] = n
  <2>1. Len(p) + 1 \in 1 .. Len(p) + 1 /\ ~(Len(p) + 1 <= Len(p)) /\ Len(p) + 1 - Len(p) = 1
    BY <1>2
  <2> QED
    BY <1>1, <1>3, <2>1
<1>5. \A i \in 1 .. Len(p) : c[i] = p[i]
  BY <1>2, <1>3
<1>6. c \in Path /\ c \in PathOrRoot
  <2>1. Len(c) # 0
    BY <1>2, <1>3
  <2> QED
    BY <1>3, <2>1, EmptySeq DEF Path, PathOrRoot
<1>7. Own(c) = n
  BY <1>3, <1>4 DEF Own
<1>8. /\ Prefixes(p) \subseteq Path /\ Prefixes(c) \subseteq Path
      /\ \A q \in Path : q \in Prefixes(p) <=>
           Len(q) <= Len(p) /\ \A i \in 1 .. Len(q) : q[i] = p[i]
      /\ \A q \in Path : q \in Prefixes(c) <=>
           Len(q) <= Len(c) /\ \A i \in 1 .. Len(q) : q[i] = c[i]
  BY <1>6, PrefixIff
<1>9. ASSUME NEW q \in Path
      PROVE  q \in Prefixes(c) <=> q \in Prefixes(p) \/ q = c
  <2>1. Len(q) \in Nat
    BY PathFacts
  <2>2. CASE Len(q) <= Len(p)
    <3>1. /\ Len(q) <= Len(c) /\ q # c
          /\ \A i \in 1 .. Len(q) : c[i] = p[i]
      BY <1>2, <1>3, <1>5, <2>1, <2>2
    <3> QED
      BY <1>8, <2>2, <3>1
  <2>3. CASE Len(q) > Len(p)
    <3>1. q \notin Prefixes(p)
      BY <1>2, <1>8, <2>1, <2>3
    <3>2. q \in Prefixes(c) => Len(q) = Len(c)
      BY <1>2, <1>3, <1>8, <2>1, <2>3
    <3>3. q \in Prefixes(c) => q = c
      BY <1>6, <3>2, BelowOrders DEF Below
    <3>4. c \in Prefixes(c)
      BY <1>6, BelowOrders DEF Below
    <3> QED
      BY <3>1, <3>3, <3>4
  <2> QED
    BY <1>2, <2>1, <2>2, <2>3
<1>10. Prefixes(c) = Prefixes(p) \cup {c}
  BY <1>6, <1>8, <1>9
<1>11. ASSUME NEW q \in Path, Below(c, q), q # c
       PROVE  Len(q) > Len(c)
  <2>1. Len(c) <= Len(q) /\ Len(c) # Len(q)
    BY <1>6, <1>11, PrefixIff, BelowOrders DEF Below, Path, PathOrRoot
  <2> QED
    BY <1>6, <2>1, PathFacts
<1> QED
  BY <1>3, <1>5, <1>6, <1>7, <1>10, <1>11

\* The last name of a path and what is before it.
LEMMA FrontFacts ==
  ASSUME NEW p \in Path
  PROVE  /\ Len(p) > 1 => SubSeq(p, 1, Len(p) - 1) \in Prefixes(p) \ {p}
         /\ SubSeq(p, 1, Len(p) - 1) \in PathOrRoot
         /\ Len(SubSeq(p, 1, Len(p) - 1)) = Len(p) - 1
         /\ p = SubSeq(p, 1, Len(p) - 1) \o <<Own(p)>>
         /\ Len(p) = 1 => p = <<Own(p)>>
         /\ Len(p) = 1 => Prefixes(p) = {p}
<1>1. p \in PathOrRoot /\ Len(p) \in Nat /\ Len(p) >= 1 /\ Own(p) \in Names
  BY PathFacts DEF PathOrRoot
<1>2. PICK f : f = SubSeq(p, 1, Len(p) - 1)
  OBVIOUS
<1>3. Len(p) - 1 \in 0 .. Len(p) /\ Len(p) - 1 \in Nat
  BY <1>1
<1>4. /\ f \in PathOrRoot /\ Len(f) = Len(p) - 1 /\ \A i \in 1 .. Len(p) - 1 : f[i] = p[i]
      /\ Len(p) - 1 >= 1 => f \in Path
  BY <1>1, <1>2, <1>3, Beginning
<1>5. Len(p) > 1 => f \in Prefixes(p) \ {p}
  <2>1. Len(p) > 1 => Len(p) - 1 \in 1 .. Len(p) /\ f # p
    BY <1>1, <1>4
  <2> QED
    BY <1>2, <2>1 DEF Prefixes
<1>6. PICK c : c = f \o <<Own(p)>>
  OBVIOUS
<1>7. c \in Path /\ Own(c) = Own(p) /\ Len(c) = Len(f) + 1 /\ \A i \in 1 .. Len(f) : c[i] = f[i]
  BY <1>1, <1>4, <1>6, ChildFacts
<1>8. c = p
  <2>1. Len(c) = Len(p) /\ c \in PathOrRoot
    BY <1>1, <1>4, <1>7, PathFacts DEF PathOrRoot
  <2>2. c[Len(p)] = p[Len(p)]
    BY <1>7, <2>1 DEF Own
  <2>3. \A i \in 1 .. Len(p) : c[i] = p[i]
    BY <1>1, <1>4, <1>7, <2>2
  <2> QED
    BY <1>1, <2>1, <2>3, SamePath
<1>9. Len(p) = 1 => p = <<Own(p)>>
  <2>1. SUFFICES ASSUME Len(p) = 1 PROVE p = <<Own(p)>>
    OBVIOUS
  <2>2. PICK s : s = <<Own(p)>>
    OBVIOUS
  <2>3. s \in PathOrRoot /\ Len(s) = 1 /\ s[1] = p[1]
    BY <1>1, <2>1, <2>2 DEF Own, PathOrRoot
  <2> QED
    BY <1>1, <2>1, <2>2, <2>3, SamePath
<1>10. Len(p) = 1 => Prefixes(p) = {p}
  <2>1. Len(p) = 1 => 1 .. Len(p) = {1} /\ SubSeq(p, 1, 1) = p
    <3>1. PICK s : s = SubSeq(p, 1, 1)
      OBVIOUS
    <3>2. Len(p) = 1 => 1 \in 0 .. Len(p)
      OBVIOUS
    <3>3. Len(p) = 1 => s \in PathOrRoot /\ Len(s) = 1 /\ \A i \in 1 .. 1 : s[i] = p[i]
      BY <1>1, <3>1, <3>2, Beginning
    <3>4. Len(p) = 1 => s = p
      BY <1>1, <3>3, SamePath
    <3> QED
      BY <3>1, <3>4
  <2> QED
    BY <2>1 DEF Prefixes
<1> QED
  BY <1>2, <1>4, <1>5, <1>6, <1>8, <1>9, <1>10

\* To be below a path with one more name is to be it or to be below the path.
LEMMA BelowChild ==
  ASSUME NEW f \in PathOrRoot, NEW n \in Names, NEW c, c = f \o <<n>>, NEW q \in Path
  PROVE  /\ Below(q, c) <=> q = c \/ q \in Prefixes(f)
         /\ f \in Path => (Below(q, c) <=> q = c \/ Below(q, f))
         /\ f = <<>> => (Below(q, c) <=> q = c)
<1>1. Prefixes(c) = Prefixes(f) \cup {c}
  BY ChildFacts
<1>2. f = <<>> => Prefixes(f) = {}
  <2>1. Len(<<>>) = 0 /\ 1 .. 0 = {}
    OBVIOUS
  <2> QED
    BY <2>1 DEF Prefixes
<1> QED
  BY <1>1, <1>2 DEF Below

\* The names of what moves along with a directory.
LEMMA RebasedNames ==
  ASSUME NEW from \in Path, NEW to \in Path, NEW p \in Path, Below(from, p)
  PROVE  /\ Len(Rebased(p, from, to)) = Len(to) + Len(p) - Len(from)
         /\ \A i \in 1 .. Len(to) : Rebased(p, from, to)[i] = to[i]
         /\ \A i \in 1 .. Len(p) - Len(from) :
              Rebased(p, from, to)[Len(to) + i] = p[Len(from) + i]
         /\ Len(from) <= Len(p)
         /\ Rebased(p, from, to) \in Seq(Names)
<1> PICK r : r = Rebased(p, from, to)
  OBVIOUS
<1>1. /\ Len(from) \in Nat /\ Len(to) \in Nat /\ Len(p) \in Nat /\ Len(to) >= 1
      /\ p \in Seq(Names) /\ to \in Seq(Names)
  BY PathFacts
<1>2. Len(from) <= Len(p)
  BY PrefixIff DEF Below, Path, PathOrRoot
<1>3. PICK s : s = SubSeq(p, Len(from) + 1, Len(p))
  OBVIOUS
<1>4. /\ s \in Seq(Names) /\ Len(s) = Len(p) - Len(from)
      /\ \A i \in 1 .. Len(p) - Len(from) : s[i] = p[Len(from) + i]
  <2>1. Len(from) + 1 \in Int /\ Len(p) \in Int
    BY <1>1
  <2>2. \A i \in Len(from) + 1 .. Len(p) : p[i] \in Names
    BY <1>1, ElementOfSeq
  <2>3. /\ s \in Seq(Names)
        /\ Len(s) = IF Len(from) + 1 <= Len(p) THEN Len(p) - (Len(from) + 1) + 1 ELSE 0
        /\ \A i \in 1 .. Len(p) - (Len(from) + 1) + 1 : s[i] = p[Len(from) + 1 + i - 1]
    BY <1>3, <2>1, <2>2, SubSeqProperties
  <2>4. /\ Len(p) - (Len(from) + 1) + 1 = Len(p) - Len(from)
        /\ \A i \in 1 .. Len(p) - Len(from) : Len(from) + 1 + i - 1 = Len(from) + i
    BY <1>1
  <2>5. Len(s) = Len(p) - Len(from)
    BY <1>1, <1>2, <2>3
  <2> QED
    BY <2>3, <2>4, <2>5
<1>5. /\ r \in Seq(Names) /\ Len(r) = Len(to) + Len(s)
      /\ \A i \in 1 .. Len(to) + Len(s) : r[i] = IF i <= Len(to) THEN to[i] ELSE s[i - Len(to)]
  BY <1>1, <1>3, <1>4, ConcatProperties DEF Rebased
<1>6. Len(r) = Len(to) + Len(p) - Len(from) /\ Len(to) <= Len(r) /\ Len(s) \in Nat
  BY <1>1, <1>2, <1>4, <1>5
<1>7. \A i \in 1 .. Len(to) : r[i] = to[i]
  BY <1>1, <1>5, <1>6
<1>8. \A i \in 1 .. Len(p) - Len(from) : r[Len(to) + i] = p[Len(from) + i]
  <2>1. ASSUME NEW i \in 1 .. Len(p) - Len(from)
        PROVE  r[Len(to) + i] = p[Len(from) + i]
    <3>1. /\ Len(to) + i \in 1 .. Len(to) + Len(s) /\ ~(Len(to) + i <= Len(to))
          /\ Len(to) + i - Len(to) = i
      BY <1>1, <1>4, <2>1
    <3> QED
      BY <1>4, <1>5, <3>1
  <2> QED
    BY <2>1
<1> QED
  BY <1>2, <1>5, <1>6, <1>7, <1>8

\* What moves along with a directory stays below it.
LEMMA RebasedBelow ==
  ASSUME NEW from \in Path, NEW to \in Path, NEW p \in Path, Below(from, p)
  PROVE  Rebased(p, from, to) \in Path /\ Below(to, Rebased(p, from, to))
<1>1. PICK r : r = Rebased(p, from, to)
  OBVIOUS
<1>2. /\ r \in Seq(Names) /\ Len(r) = Len(to) + Len(p) - Len(from) /\ Len(from) <= Len(p)
      /\ \A i \in 1 .. Len(to) : r[i] = to[i]
  BY <1>1, RebasedNames
<1>3. /\ Len(from) \in Nat /\ Len(to) \in Nat /\ Len(p) \in Nat /\ Len(to) >= 1
  BY PathFacts
<1>4. r \in Path
  <2>1. Len(r) # 0
    BY <1>2, <1>3
  <2> QED
    BY <1>2, <2>1, EmptySeq DEF Path
<1>5. Len(to) <= Len(r)
  BY <1>2, <1>3
<1>6. Below(to, r)
  BY <1>2, <1>4, <1>5, PrefixIff DEF Below, Path, PathOrRoot
<1> QED
  BY <1>1, <1>4, <1>6

\* Two paths that move to the same place are the same.
LEMMA RebasedInjective ==
  ASSUME NEW from \in Path, NEW to \in Path, NEW p \in Path, NEW q \in Path,
         Below(from, p), Below(from, q), Rebased(p, from, to) = Rebased(q, from, to)
  PROVE  p = q
<1>1. PICK r : r = Rebased(p, from, to)
  OBVIOUS
<1>2. r = Rebased(q, from, to)
  BY <1>1
<1>3. /\ Len(r) = Len(to) + Len(p) - Len(from) /\ Len(from) <= Len(p)
      /\ \A i \in 1 .. Len(p) - Len(from) : r[Len(to) + i] = p[Len(from) + i]
  BY <1>1, RebasedNames
<1>4. /\ Len(r) = Len(to) + Len(q) - Len(from) /\ Len(from) <= Len(q)
      /\ \A i \in 1 .. Len(q) - Len(from) : r[Len(to) + i] = q[Len(from) + i]
  BY <1>2, RebasedNames
<1>5. Len(from) \in Nat /\ Len(to) \in Nat /\ Len(p) \in Nat /\ Len(q) \in Nat
  BY PathFacts
<1>6. p \in PathOrRoot /\ q \in PathOrRoot /\ Len(p) = Len(q)
  BY <1>3, <1>4, <1>5 DEF Path, PathOrRoot
<1>7. ASSUME NEW i \in 1 .. Len(p) PROVE p[i] = q[i]
  <2>1. CASE i <= Len(from)
    <3>1. (\A j \in 1 .. Len(from) : from[j] = p[j]) /\ \A j \in 1 .. Len(from) : from[j] = q[j]
      BY <1>6, PrefixIff DEF Below
    <3>2. i \in 1 .. Len(from)
      BY <1>5, <2>1
    <3> QED
      BY <3>1, <3>2
  <2>2. CASE i > Len(from)
    <3>1. PICK j : j = i - Len(from)
      OBVIOUS
    <3>2. j \in 1 .. Len(p) - Len(from) /\ j \in 1 .. Len(q) - Len(from) /\ Len(from) + j = i
      BY <1>5, <1>6, <2>2, <3>1
    <3> QED
      BY <1>3, <1>4, <3>2
  <2> QED
    BY <1>5, <2>1, <2>2
<1> QED
  BY <1>6, <1>7, SamePath

\* The directory itself moves to where it is to be, and what moves to where it is stays.
LEMMA RebasedSame ==
  ASSUME NEW from \in Path, NEW p \in Path, Below(from, p)
  PROVE  Rebased(p, from, from) = p /\ \A to \in Path : Rebased(from, from, to) = to
<1>1. Len(from) \in Nat /\ Len(p) \in Nat
  BY PathFacts
<1>2. PICK r : r = Rebased(p, from, from)
  OBVIOUS
<1>3. /\ r \in Path /\ Len(r) = Len(p) /\ Len(from) <= Len(p)
      /\ \A i \in 1 .. Len(from) : r[i] = from[i]
      /\ \A i \in 1 .. Len(p) - Len(from) : r[Len(from) + i] = p[Len(from) + i]
  <2>1. /\ Len(r) = Len(p) /\ Len(from) <= Len(p)
        /\ \A i \in 1 .. Len(from) : r[i] = from[i]
        /\ \A i \in 1 .. Len(p) - Len(from) : r[Len(from) + i] = p[Len(from) + i]
    <3>1. /\ Len(r) = Len(from) + Len(p) - Len(from) /\ Len(from) <= Len(p)
          /\ \A i \in 1 .. Len(from) : r[i] = from[i]
          /\ \A i \in 1 .. Len(p) - Len(from) : r[Len(from) + i] = p[Len(from) + i]
      BY <1>2, RebasedNames
    <3>2. Len(r) = Len(p)
      BY <1>1, <3>1
    <3> QED
      BY <3>1, <3>2
  <2>2. r \in Path
    BY <1>1, <1>2, RebasedBelow
  <2> QED
    BY <2>1, <2>2
<1>4. ASSUME NEW i \in 1 .. Len(p) PROVE r[i] = p[i]
  <2>1. CASE i <= Len(from)
    <3>1. \A j \in 1 .. Len(from) : from[j] = p[j]
      BY PrefixIff DEF Below, Path, PathOrRoot
    <3>2. i \in 1 .. Len(from)
      BY <1>1, <2>1
    <3> QED
      BY <1>3, <3>1, <3>2
  <2>2. CASE i > Len(from)
    <3>1. PICK j : j = i - Len(from)
      OBVIOUS
    <3>2. j \in 1 .. Len(p) - Len(from) /\ Len(from) + j = i
      BY <1>1, <2>2, <3>1
    <3> QED
      BY <1>3, <3>2
  <2> QED
    BY <1>1, <2>1, <2>2
<1>5. r = p
  BY <1>3, <1>4, SamePath DEF Path, PathOrRoot
<1>6. ASSUME NEW to \in Path PROVE Rebased(from, from, to) = to
  <2>1. PICK s : s = Rebased(from, from, to)
    OBVIOUS
  <2>2. Below(from, from)
    BY BelowOrders
  <2>3. s \in Path /\ Len(s) = Len(to) + Len(from) - Len(from) /\ \A i \in 1 .. Len(to) : s[i] = to[i]
    <3>1. Len(s) = Len(to) + Len(from) - Len(from) /\ \A i \in 1 .. Len(to) : s[i] = to[i]
      BY <2>1, <2>2, RebasedNames
    <3>2. s \in Path
      BY <2>1, <2>2, RebasedBelow
    <3> QED
      BY <3>1, <3>2
  <2>4. Len(s) = Len(to)
    BY <2>3, <1>1, PathFacts
  <2> QED
    BY <2>1, <2>3, <2>4, SamePath DEF Path, PathOrRoot
<1> QED
  BY <1>2, <1>5, <1>6

\* A path with one more name.
Child(f, n) == f \o <<n>>

\* What is in a directory that moves is in it afterwards, under its own name.
LEMMA RebasedChild ==
  ASSUME NEW from \in Path, NEW to \in Path, NEW f \in Path, Below(from, f), NEW n \in Names
  PROVE  Rebased(Child(f, n), from, to) = Child(Rebased(f, from, to), n)
<1>1. PICK c : c = f \o <<n>>
  OBVIOUS
<1>2. f \in PathOrRoot /\ from \in PathOrRoot
  BY DEF Path, PathOrRoot
<1>3. /\ c \in Path /\ Own(c) = n /\ Len(c) = Len(f) + 1
      /\ \A i \in 1 .. Len(f) : c[i] = f[i]
  BY <1>1, <1>2, ChildFacts
<1>4. Below(from, c)
  BY <1>1, <1>2, BelowChild
<1>5. PICK r : r = Rebased(c, from, to)
  OBVIOUS
<1>6. PICK s : s = Rebased(f, from, to)
  OBVIOUS
<1>7. Len(from) \in Nat /\ Len(to) \in Nat /\ Len(f) \in Nat
  BY PathFacts
<1>8. /\ r \in Path /\ Len(r) = Len(to) + Len(c) - Len(from)
      /\ \A i \in 1 .. Len(to) : r[i] = to[i]
      /\ \A i \in 1 .. Len(c) - Len(from) : r[Len(to) + i] = c[Len(from) + i]
  <2>1. /\ Len(r) = Len(to) + Len(c) - Len(from)
        /\ \A i \in 1 .. Len(to) : r[i] = to[i]
        /\ \A i \in 1 .. Len(c) - Len(from) : r[Len(to) + i] = c[Len(from) + i]
    <3>1. c \in Path
      BY <1>3
    <3> QED
      BY <1>4, <1>5, <3>1, RebasedNames
  <2>2. r \in Path
    BY <1>3, <1>4, <1>5, RebasedBelow
  <2> QED
    BY <2>1, <2>2
<1>9. /\ s \in Path /\ Len(s) = Len(to) + Len(f) - Len(from) /\ Len(from) <= Len(f)
      /\ \A i \in 1 .. Len(to) : s[i] = to[i]
      /\ \A i \in 1 .. Len(f) - Len(from) : s[Len(to) + i] = f[Len(from) + i]
  <2>1. /\ Len(s) = Len(to) + Len(f) - Len(from) /\ Len(from) <= Len(f)
        /\ \A i \in 1 .. Len(to) : s[i] = to[i]
        /\ \A i \in 1 .. Len(f) - Len(from) : s[Len(to) + i] = f[Len(from) + i]
    BY <1>6, RebasedNames
  <2>2. s \in Path
    BY <1>6, RebasedBelow
  <2> QED
    BY <2>1, <2>2
<1>10. PICK u : u = s \o <<n>>
  OBVIOUS
<1>11. u \in Path /\ Own(u) = n /\ Len(u) = Len(s) + 1 /\ \A i \in 1 .. Len(s) : u[i] = s[i]
  <2>1. s \in PathOrRoot
    BY <1>9 DEF Path, PathOrRoot
  <2> QED
    BY <1>10, <2>1, ChildFacts
<1>12. Len(u) = Len(r) /\ Len(u) = Len(to) + Len(f) - Len(from) + 1
  BY <1>3, <1>7, <1>8, <1>9, <1>11
<1>13. ASSUME NEW i \in 1 .. Len(r) PROVE r[i] = u[i]
  <2>1. CASE i <= Len(to)
    <3>1. i \in 1 .. Len(to) /\ i \in 1 .. Len(s)
      BY <1>7, <1>9, <2>1
    <3> QED
      BY <1>8, <1>9, <1>11, <3>1
  <2>2. CASE i > Len(to) /\ i < Len(r)
    <3>1. PICK j : j = i - Len(to)
      OBVIOUS
    <3>2. /\ j \in 1 .. Len(c) - Len(from) /\ j \in 1 .. Len(f) - Len(from) /\ Len(to) + j = i
          /\ Len(from) + j \in 1 .. Len(f) /\ i \in 1 .. Len(s)
      BY <1>3, <1>7, <1>9, <1>12, <2>2, <3>1
    <3> QED
      BY <1>3, <1>8, <1>9, <1>11, <3>2
  <2>3. CASE i = Len(r)
    <3>1. PICK j : j = Len(c) - Len(from)
      OBVIOUS
    <3>2. j \in 1 .. Len(c) - Len(from) /\ Len(to) + j = Len(r) /\ Len(from) + j = Len(c)
      BY <1>3, <1>7, <1>8, <1>9, <3>1
    <3>3. r[Len(r)] = c[Len(c)]
      BY <1>8, <3>2
    <3> QED
      BY <1>3, <1>11, <1>12, <2>3, <3>3 DEF Own
  <2> QED
    BY <1>7, <1>9, <1>12, <2>1, <2>2, <2>3
<1>14. r = u
  BY <1>8, <1>11, <1>12, <1>13, SamePath DEF Path, PathOrRoot
<1> QED
  BY <1>1, <1>5, <1>6, <1>10, <1>14 DEF Child

\* What is above a path with one more name is it or above the path.
LEMMA BelowTheChild ==
  ASSUME NEW f \in Path, NEW n \in Names, NEW q \in Path
  PROVE  Below(q, Child(f, n)) <=> q = Child(f, n) \/ Below(q, f)
<1>1. f \in PathOrRoot
  BY DEF Path, PathOrRoot
<1> QED
  BY <1>1, BelowChild DEF Child

\* What is above a path that has moved was there, or has moved with it.
LEMMA RebasedPrefixes ==
  ASSUME NEW from \in Path, NEW to \in Path, NEW p \in Path, Below(from, p),
         NEW q \in Prefixes(Rebased(p, from, to))
  PROVE  \/ q \in Prefixes(to)
         \/ \E x \in Prefixes(p) : Below(from, x) /\ q = Rebased(x, from, to)
<1>1. PICK r : r = Rebased(p, from, to)
  OBVIOUS
<1>2. Len(from) \in Nat /\ Len(to) \in Nat /\ Len(p) \in Nat /\ Len(from) >= 1
  BY PathFacts
<1>3. /\ r \in Path /\ Len(r) = Len(to) + Len(p) - Len(from)
      /\ \A i \in 1 .. Len(to) : r[i] = to[i]
      /\ \A i \in 1 .. Len(p) - Len(from) : r[Len(to) + i] = p[Len(from) + i]
      /\ Len(from) <= Len(p)
  <2>1. /\ Len(r) = Len(to) + Len(p) - Len(from)
        /\ \A i \in 1 .. Len(to) : r[i] = to[i]
        /\ \A i \in 1 .. Len(p) - Len(from) : r[Len(to) + i] = p[Len(from) + i]
        /\ Len(from) <= Len(p)
    BY <1>1, RebasedNames
  <2>2. r \in Path
    BY <1>1, RebasedBelow
  <2> QED
    BY <2>1, <2>2
<1>4. r \in PathOrRoot /\ p \in PathOrRoot /\ to \in PathOrRoot /\ from \in PathOrRoot
  BY <1>3 DEF Path, PathOrRoot
<1>5. q \in Path /\ Len(q) <= Len(r) /\ \A i \in 1 .. Len(q) : q[i] = r[i]
  BY <1>1, <1>4, PrefixIff
<1>6. Len(q) \in Nat /\ Len(q) >= 1
  BY <1>5, PathFacts
<1>7. CASE Len(q) <= Len(to)
  <2>1. \A i \in 1 .. Len(q) : q[i] = to[i]
    BY <1>2, <1>3, <1>5, <1>6, <1>7
  <2> QED
    BY <1>4, <1>5, <1>7, <2>1, PrefixIff
<1>8. CASE Len(q) > Len(to)
  <2>1. PICK m : m = Len(from) + Len(q) - Len(to)
    OBVIOUS
  <2>2. m \in 0 .. Len(p) /\ m \in 1 .. Len(p) /\ m >= 1 /\ Len(from) <= m
    BY <1>2, <1>3, <1>5, <1>6, <1>8, <2>1
  <2>3. PICK x : x = SubSeq(p, 1, m)
    OBVIOUS
  <2>4. x \in Path /\ Len(x) = m /\ \A i \in 1 .. m : x[i] = p[i]
    BY <1>4, <2>2, <2>3, Beginning
  <2>5. x \in Prefixes(p)
    BY <2>2, <2>3 DEF Prefixes
  <2>6. Below(from, x)
    <3>1. \A i \in 1 .. Len(from) : from[i] = p[i]
      BY <1>4, PrefixIff DEF Below
    <3>2. \A i \in 1 .. Len(from) : i \in 1 .. m
      BY <1>2, <2>2
    <3>3. \A i \in 1 .. Len(from) : from[i] = x[i]
      BY <2>4, <3>1, <3>2
    <3> QED
      BY <2>2, <2>4, <3>3, PrefixIff DEF Below, Path, PathOrRoot
  <2>7. PICK s : s = Rebased(x, from, to)
    OBVIOUS
  <2>8. /\ s \in Path /\ Len(s) = Len(to) + Len(x) - Len(from)
        /\ \A i \in 1 .. Len(to) : s[i] = to[i]
        /\ \A i \in 1 .. Len(x) - Len(from) : s[Len(to) + i] = x[Len(from) + i]
    <3>1. /\ Len(s) = Len(to) + Len(x) - Len(from)
          /\ \A i \in 1 .. Len(to) : s[i] = to[i]
          /\ \A i \in 1 .. Len(x) - Len(from) : s[Len(to) + i] = x[Len(from) + i]
      BY <2>4, <2>6, <2>7, RebasedNames
    <3>2. s \in Path
      BY <2>4, <2>6, <2>7, RebasedBelow
    <3> QED
      BY <3>1, <3>2
  <2>9. Len(s) = Len(q)
    BY <1>2, <1>6, <2>1, <2>4, <2>8
  <2>10. ASSUME NEW i \in 1 .. Len(q) PROVE s[i] = q[i]
    <3>1. CASE i <= Len(to)
      <4>1. i \in 1 .. Len(to)
        BY <1>2, <3>1
      <4> QED
        BY <1>3, <1>5, <2>8, <4>1
    <3>2. CASE i > Len(to)
      <4>1. PICK j : j = i - Len(to)
        OBVIOUS
      <4>2. /\ j \in 1 .. Len(x) - Len(from) /\ j \in 1 .. Len(p) - Len(from) /\ Len(to) + j = i
            /\ Len(from) + j \in 1 .. m
        BY <1>2, <1>5, <1>6, <2>1, <2>2, <2>4, <3>2, <4>1
      <4> QED
        BY <1>3, <1>5, <2>4, <2>8, <4>2
    <3> QED
      BY <1>2, <1>6, <3>1, <3>2
  <2>11. s = q
    BY <1>5, <2>8, <2>9, <2>10, SamePath DEF Path, PathOrRoot
  <2> QED
    BY <2>5, <2>6, <2>7, <2>11
<1> QED
  BY <1>2, <1>6, <1>7, <1>8

-----------------------------------------------------------------------------
(* The tree of groups                                                      *)

GroupRow == [name : Path, parent : GroupIds \cup {None}]
RepoRow ==
  [name : Path, group : GroupIds \cup {None}, fork : RepoIds \cup {None},
   state : {"pending", "created"}, data : RepoIds \cup {None}]

\* What is known of the rows of groups in every state.
Tree ==
  /\ groups \in [GroupIds -> GroupRow \cup {None}]
  /\ \A g \in Groups : groups[g].parent \in Groups \cup {None}
  /\ Unique(groups)
  /\ \A g \in Groups : groups[g].name = NewName(groups[g].parent, Own(groups[g].name))

\* None is no id and no row.
LEMMA NoneFacts ==
  /\ None \notin GroupIds /\ None \notin RepoIds /\ Plain \notin RepoIds
  /\ None \notin Groups /\ None \notin Repos
  /\ None \notin GroupRow
  /\ None \notin RepoRow
  /\ IsFiniteSet(GroupIds) /\ IsFiniteSet(RepoIds)
<1>1. None \notin GroupRow
  BY StoreAssumption DEF GroupRow, Path
<1>2. None \notin RepoRow
  BY StoreAssumption DEF RepoRow, Path
<1> QED
  BY <1>1, <1>2, StoreAssumption DEF Groups, Repos

\* Sets of naturals have a least element.
LEMMA LeastNatural ==
  ASSUME NEW T, T \subseteq Nat, T # {}
  PROVE  \E x \in T : \A y \in T : x <= y
<1> DEFINE R == OpToRel(<,Nat)
<1>1. IsWellFoundedOn(R, Nat)
  BY NatLessThanWellFounded
<1>2. \A a, b \in Nat : a < b => <<a, b>> \in R
  BY DEF OpToRel
<1> HIDE DEF R
<1>3. PICK x \in T : \A y \in T : ~ (<<y, x>> \in R)
  BY <1>1, WFMin, Zenon
<1>4. \A y \in T : ~(y < x)
  BY <1>2, <1>3
<1> QED
  BY <1>4

\* A step can be taken any number of times from where one is.
LEMMA Iterates ==
  ASSUME NEW n \in Nat, NEW D, NEW a \in D, NEW step \in [D -> D]
  PROVE  \E f \in [0 .. n -> D] : \A k \in 0 .. n : f[k] = IF k = 0 THEN a ELSE step[f[k - 1]]
<1> DEFINE Solves(f, m) == /\ f \in [0 .. m -> D]
                           /\ \A k \in 0 .. m : f[k] = IF k = 0 THEN a ELSE step[f[k - 1]]
           Bad == {m \in 0 .. n : ~ \E f : Solves(f, m)}
<1>1. SUFFICES ASSUME Bad # {} PROVE FALSE
  <2>1. n \in 0 .. n
    OBVIOUS
  <2> QED
    BY <2>1
<1>2. Bad \subseteq Nat
  OBVIOUS
<1>3. PICK m \in Bad : \A i \in Bad : m <= i
  BY <1>1, <1>2, LeastNatural
<1>4. CASE m = 0
  <2> DEFINE f == [k \in 0 .. 0 |-> a]
  <2>1. Solves(f, 0)
    OBVIOUS
  <2> QED
    BY <1>3, <1>4, <2>1
<1>5. CASE m # 0
  <2>1. m \in Nat /\ m - 1 \in 0 .. n /\ ~(m <= m - 1) /\ m - 1 \in Nat
    BY <1>3, <1>5
  <2>2. PICK f : Solves(f, m - 1)
    BY <1>3, <2>1
  <2> DEFINE h == [k \in 0 .. m |-> IF k < m THEN f[k] ELSE step[f[m - 1]]]
  <2>3. f[m - 1] \in D /\ step[f[m - 1]] \in D
    BY <2>1, <2>2
  <2>4. h \in [0 .. m -> D]
    <3>1. \A k \in 0 .. m : k < m => k \in 0 .. m - 1
      BY <2>1
    <3> QED
      BY <2>2, <2>3, <3>1
  <2>5. ASSUME NEW k \in 0 .. m
        PROVE  h[k] = IF k = 0 THEN a ELSE step[h[k - 1]]
    <3>1. CASE k < m
      <4>1. k \in 0 .. m - 1 /\ h[k] = f[k] /\ (k # 0 => k - 1 \in 0 .. m /\ h[k - 1] = f[k - 1])
        BY <2>1, <3>1
      <4> HIDE DEF h
      <4> QED
        BY <2>2, <4>1
    <3>2. CASE k = m
      <4>1. k # 0 /\ h[k] = step[f[m - 1]] /\ k - 1 = m - 1 /\ m - 1 \in 0 .. m /\ h[m - 1] = f[m - 1]
        BY <1>5, <2>1, <3>2
      <4> HIDE DEF h
      <4> QED
        BY <4>1
    <3> QED
      BY <2>1, <3>1, <3>2
  <2>6. Solves(h, m)
    BY <2>4, <2>5
  <2> QED
    BY <1>3, <2>6
<1> QED
  BY <1>4, <1>5

\* A group is in another one or at the root.
LEMMA ParentFacts ==
  ASSUME Tree
  PROVE  \A g \in Groups :
           /\ g \in GroupIds /\ groups[g] \in GroupRow
           /\ groups[g].name \in Path /\ groups[g].name \in PathOrRoot
           /\ Own(groups[g].name) \in Names
           /\ groups[g].parent \in Groups \cup {None}
           /\ groups[g].name = PathOf(groups[g].parent) \o <<Own(groups[g].name)>>
           /\ groups[g].parent = None =>
                PathOf(groups[g].parent) = <<>> /\ Len(groups[g].name) = 1
           /\ groups[g].parent # None =>
                /\ PathOf(groups[g].parent) = groups[groups[g].parent].name
                /\ Len(groups[g].name) = Len(groups[groups[g].parent].name) + 1
<1>1. \A g \in Groups : /\ g \in GroupIds /\ groups[g] \in GroupRow
                        /\ groups[g].name \in Path /\ groups[g].name \in PathOrRoot
                        /\ groups[g].parent \in Groups \cup {None}
  BY DEF Tree, Groups, GroupRow, Path, PathOrRoot
<1> SUFFICES ASSUME NEW g \in Groups
             PROVE  /\ Own(groups[g].name) \in Names
                    /\ groups[g].name = PathOf(groups[g].parent) \o <<Own(groups[g].name)>>
                    /\ groups[g].parent = None =>
                         PathOf(groups[g].parent) = <<>> /\ Len(groups[g].name) = 1
                    /\ groups[g].parent # None =>
                         /\ PathOf(groups[g].parent) = groups[groups[g].parent].name
                         /\ Len(groups[g].name) = Len(groups[groups[g].parent].name) + 1
  BY <1>1
<1>2. PICK name : name = groups[g].name
  OBVIOUS
<1>3. PICK parent : parent = groups[g].parent
  OBVIOUS
<1>4. PICK above : above = PathOf(parent)
  OBVIOUS
<1>5. name \in Path /\ parent \in Groups \cup {None} /\ Own(name) \in Names
  BY <1>1, <1>2, <1>3, PathFacts
<1>6. name = above \o <<Own(name)>>
  BY <1>2, <1>3, <1>4 DEF Tree, NewName
<1>7. CASE parent = None
  <2>1. above = <<>>
    BY <1>4, <1>7, NoneFacts DEF PathOf
  <2>2. above \in PathOrRoot /\ Len(above) = 0
    BY <2>1 DEF PathOrRoot
  <2>3. Len(name) = Len(above) + 1
    BY <1>5, <1>6, <2>2, ChildFacts
  <2> QED
    BY <1>2, <1>3, <1>4, <1>5, <1>6, <1>7, <2>1, <2>2, <2>3
<1>8. CASE parent \in Groups
  <2>1. above = groups[parent].name
    BY <1>4, <1>8 DEF PathOf
  <2>2. above \in PathOrRoot
    BY <1>1, <1>8, <2>1
  <2>3. Len(name) = Len(above) + 1
    BY <1>5, <1>6, <2>2, ChildFacts
  <2> QED
    BY <1>2, <1>3, <1>4, <1>5, <1>6, <1>8, <2>1, <2>3, NoneFacts
<1> QED
  BY <1>5, <1>7, <1>8

\* The equation of Up.
LEMMA UpEquation ==
  ASSUME Tree, NEW h \in Groups
  PROVE  /\ Cardinality(GroupIds) \in Nat
         /\ DOMAIN Up(h) = 0 .. Cardinality(GroupIds)
         /\ Up(h)[0] = h
         /\ \A k \in 0 .. Cardinality(GroupIds) : k # 0 =>
              Up(h)[k] = IF Up(h)[k - 1] = None THEN None ELSE groups[Up(h)[k - 1]].parent
<1>1. PICK n : n = Cardinality(GroupIds)
  OBVIOUS
<1>2. n \in Nat
  BY <1>1, NoneFacts, FS_CardinalityType
<1>3. PICK D : D = Groups \cup {None}
  OBVIOUS
<1>4. PICK gs : gs = groups
  OBVIOUS
<1> DEFINE F(up) == [k \in 0 .. n |-> IF k = 0 THEN h
                       ELSE IF up[k - 1] = None THEN None ELSE gs[up[k - 1]].parent]
           step == [x \in D |-> IF x = None THEN None ELSE gs[x].parent]
<1>5. step \in [D -> D] /\ h \in D
  BY <1>3, <1>4, ParentFacts
<1>6. PICK f \in [0 .. n -> D] : \A k \in 0 .. n : f[k] = IF k = 0 THEN h ELSE step[f[k - 1]]
  <2> HIDE DEF step
  <2> QED
    BY <1>2, <1>5, Iterates
<1>7. \A k \in 0 .. n : k # 0 => k - 1 \in 0 .. n
  BY <1>2
<1>8. f = F(f)
  <2>1. \A k \in 0 .. n : f[k] = F(f)[k]
    BY <1>6, <1>7
  <2> QED
    BY <1>6, <2>1
<1> DEFINE up == CHOOSE u : u = F(u)
<1>9. up = F(up)
  <2> HIDE DEF F
  <2> QED
    BY <1>8, Zenon
<1>10. Up(h) = up
  BY <1>1, <1>4, Zenon DEF Up
<1> HIDE DEF up
<1>11. /\ DOMAIN up = 0 .. n
       /\ \A k \in 0 .. n : up[k] = IF k = 0 THEN h
                       ELSE IF up[k - 1] = None THEN None ELSE gs[up[k - 1]].parent
  BY <1>9
<1>12. 0 \in 0 .. n
  BY <1>2
<1> QED
  BY <1>1, <1>2, <1>4, <1>10, <1>11, <1>12

\* The groups above a group have the beginnings of its name for names.
LEMMA UpNames ==
  ASSUME Tree, NEW h \in Groups
  PROVE  \A k \in 0 .. Cardinality(GroupIds) :
           /\ k < Len(groups[h].name) =>
                /\ Up(h)[k] \in Groups
                /\ groups[Up(h)[k]].name = SubSeq(groups[h].name, 1, Len(groups[h].name) - k)
           /\ k >= Len(groups[h].name) => Up(h)[k] = None
<1>1. PICK n : n = Cardinality(GroupIds)
  OBVIOUS
<1>2. PICK name : name = groups[h].name
  OBVIOUS
<1>3. PICK up : up = Up(h)
  OBVIOUS
<1>4. PICK gs : gs = groups
  OBVIOUS
<1>5. /\ n \in Nat /\ up[0] = h
      /\ \A k \in 0 .. n : k # 0 => up[k] = IF up[k - 1] = None THEN None ELSE gs[up[k - 1]].parent
  BY <1>1, <1>3, <1>4, UpEquation
<1>6. name \in Path /\ name \in PathOrRoot /\ Len(name) \in Nat /\ Len(name) >= 1
  BY <1>2, ParentFacts, PathFacts
<1>7. \A g \in Groups : /\ gs[g].name \in PathOrRoot
                        /\ gs[g].parent \in Groups \cup {None}
                        /\ gs[g].name = PathOf(gs[g].parent) \o <<Own(gs[g].name)>>
                        /\ Own(gs[g].name) \in Names
                        /\ gs[g].parent = None => Len(gs[g].name) = 1
                        /\ gs[g].parent # None =>
                             /\ PathOf(gs[g].parent) = gs[gs[g].parent].name
                             /\ Len(gs[g].name) = Len(gs[gs[g].parent].name) + 1
  BY <1>4, ParentFacts
<1> DEFINE Right(k) == /\ k < Len(name) => up[k] \in Groups /\ gs[up[k]].name = SubSeq(name, 1, Len(name) - k)
                       /\ k >= Len(name) => up[k] = None
           Bad == {k \in 0 .. n : ~Right(k)}
<1>8. SUFFICES ASSUME Bad # {} PROVE FALSE
  BY <1>1, <1>2, <1>3, <1>4
<1>9. PICK k \in Bad : \A j \in Bad : k <= j
  <2>1. Bad \subseteq Nat
    BY <1>5
  <2> QED
    BY <1>8, <2>1, LeastNatural
<1>10. CASE k = 0
  <2>1. PICK s : s = SubSeq(name, 1, Len(name))
    OBVIOUS
  <2>2. s \in PathOrRoot /\ Len(s) = Len(name) /\ \A i \in 1 .. Len(name) : s[i] = name[i]
    <3>1. Len(name) \in 0 .. Len(name)
      BY <1>6
    <3> QED
      BY <1>6, <2>1, <3>1, Beginning
  <2>3. s = name
    BY <1>6, <2>2, SamePath
  <2>4. Len(name) - 0 = Len(name) /\ 0 < Len(name) /\ ~(0 >= Len(name))
    BY <1>6
  <2> QED
    BY <1>2, <1>4, <1>5, <1>9, <1>10, <2>1, <2>3, <2>4
<1>11. CASE k # 0
  <2>1. k - 1 \in 0 .. n /\ ~(k <= k - 1) /\ k \in Nat /\ k \in 0 .. n
    BY <1>5, <1>9, <1>11
  <2>2. Right(k - 1)
    BY <1>9, <2>1
  <2>3. up[k] = IF up[k - 1] = None THEN None ELSE gs[up[k - 1]].parent
    BY <1>5, <1>11, <2>1
  <2>4. CASE k - 1 >= Len(name)
    <3>1. k >= Len(name) /\ ~(k < Len(name))
      BY <1>6, <2>1, <2>4
    <3> QED
      BY <1>9, <2>2, <2>3, <2>4, <3>1
  <2>5. CASE k - 1 < Len(name)
    <3>1. PICK g : g = up[k - 1]
      OBVIOUS
    <3>2. PICK m : m = Len(name) - (k - 1)
      OBVIOUS
    <3>3. g \in Groups /\ gs[g].name = SubSeq(name, 1, m)
      BY <2>2, <2>5, <3>1, <3>2
    <3>4. m \in 0 .. Len(name) /\ m >= 1 /\ m - 1 = Len(name) - k /\ m - 1 \in 0 .. Len(name)
      BY <1>6, <2>1, <2>5, <3>2
    <3>5. PICK s : s = gs[g].name
      OBVIOUS
    <3>6. s \in PathOrRoot /\ Len(s) = m /\ \A i \in 1 .. m : s[i] = name[i]
      BY <1>6, <3>3, <3>4, <3>5, Beginning
    <3>7. up[k] = gs[g].parent
      BY <2>3, <3>1, <3>3, NoneFacts
    <3>8. CASE gs[g].parent = None
      <4>1. m = 1
        BY <1>7, <3>3, <3>5, <3>6, <3>8
      <4>2. k >= Len(name) /\ ~(k < Len(name))
        BY <1>6, <2>1, <3>2, <4>1
      <4> QED
        BY <1>9, <3>7, <3>8, <4>2
    <3>9. CASE gs[g].parent # None
      <4>1. PICK p : p = gs[g].parent
        OBVIOUS
      <4>2. PICK t : t = gs[p].name
        OBVIOUS
      <4>3. p \in Groups /\ t \in PathOrRoot /\ Len(s) = Len(t) + 1 /\ s = t \o <<Own(s)>> /\ Own(s) \in Names
        BY <1>7, <3>3, <3>5, <3>9, <4>1, <4>2
      <4>4. Len(t) \in Nat /\ \A i \in 1 .. Len(t) : s[i] = t[i]
        <5>1. Len(t) \in Nat
          BY <4>3, LenProperties DEF PathOrRoot
        <5> QED
          BY <4>3, <5>1, ChildFacts
      <4>5. Len(t) = m - 1
        BY <3>4, <3>6, <4>3, <4>4
      <4>6. PICK u : u = SubSeq(name, 1, m - 1)
        OBVIOUS
      <4>7. u \in PathOrRoot /\ Len(u) = m - 1 /\ \A i \in 1 .. m - 1 : u[i] = name[i]
        BY <1>6, <3>4, <4>6, Beginning
      <4>8. \A i \in 1 .. m - 1 : i \in 1 .. m
        BY <3>4
      <4>9. t = u
        <5>1. \A i \in 1 .. Len(t) : t[i] = u[i]
          BY <3>6, <4>4, <4>5, <4>7, <4>8
        <5> QED
          BY <4>3, <4>5, <4>7, <5>1, SamePath
      <4>10. m - 1 >= 1
        <5>1. t # <<>>
          BY <1>7, <4>2, <4>3, ParentFacts, <1>4 DEF Path
        <5> QED
          BY <4>3, <4>4, <4>5, <5>1, EmptySeq DEF PathOrRoot
      <4>11. k < Len(name) /\ ~(k >= Len(name))
        BY <1>6, <2>1, <3>2, <4>10
      <4> QED
        BY <1>9, <3>4, <3>7, <4>1, <4>2, <4>3, <4>6, <4>9, <4>11
    <3> QED
      BY <3>8, <3>9
  <2> QED
    BY <1>6, <2>1, <2>4, <2>5
<1> QED
  BY <1>10, <1>11

\* No chain of groups is longer than there are groups.
LEMMA GroupDepth ==
  ASSUME Tree, NEW h \in Groups
  PROVE  Len(groups[h].name) <= Cardinality(GroupIds)
<1>1. PICK n : n = Cardinality(GroupIds)
  OBVIOUS
<1>2. PICK name : name = groups[h].name
  OBVIOUS
<1>3. PICK up : up = Up(h)
  OBVIOUS
<1>4. PICK gs : gs = groups
  OBVIOUS
<1>5. /\ n \in Nat /\ name \in PathOrRoot /\ Len(name) \in Nat
  BY <1>1, <1>2, NoneFacts, FS_CardinalityType, ParentFacts, PathFacts
<1>6. \A k \in 0 .. n : k < Len(name) => up[k] \in Groups /\ gs[up[k]].name = SubSeq(name, 1, Len(name) - k)
  BY <1>1, <1>2, <1>3, <1>4, UpNames
<1>7. SUFFICES ASSUME Len(name) > n PROVE FALSE
  BY <1>1, <1>2, <1>5
<1> DEFINE f == [k \in 0 .. n |-> up[k]]
<1>8. f \in [0 .. n -> GroupIds]
  <2>1. \A k \in 0 .. n : up[k] \in GroupIds
    BY <1>5, <1>6, <1>7 DEF Groups
  <2> QED
    BY <2>1
<1>9. IsFiniteSet(0 .. n) /\ Cardinality(0 .. n) = n + 1
  BY <1>5, FS_Interval
<1>10. \E x, y \in 0 .. n : x # y /\ f[x] = f[y]
  <2>1. n < n + 1
    BY <1>5
  <2> HIDE DEF f
  <2> QED
    BY <1>1, <1>8, <1>9, <2>1, NoneFacts, FS_PigeonHole
<1>11. PICK x, y \in 0 .. n : x # y /\ up[x] = up[y]
  BY <1>10
<1>12. SubSeq(name, 1, Len(name) - x) = SubSeq(name, 1, Len(name) - y)
  BY <1>5, <1>6, <1>7, <1>11
<1>13. Len(name) - x \in 0 .. Len(name) /\ Len(name) - y \in 0 .. Len(name)
  BY <1>5, <1>7, <1>11
<1>14. Len(SubSeq(name, 1, Len(name) - x)) = Len(name) - x
  BY <1>5, <1>13, Beginning
<1>15. Len(SubSeq(name, 1, Len(name) - y)) = Len(name) - y
  BY <1>5, <1>13, Beginning
<1> QED
  BY <1>5, <1>11, <1>12, <1>14, <1>15

\* What is above the name of a group is the name of a group.
LEMMA GroupsAbove ==
  ASSUME Tree, NEW h \in Groups, NEW q \in Prefixes(groups[h].name)
  PROVE  \E g \in Groups : /\ groups[g].name = q
                           /\ Len(groups[h].name) - Len(q) \in DOMAIN Up(h)
                           /\ Up(h)[Len(groups[h].name) - Len(q)] = g
<1>1. PICK n : n = Cardinality(GroupIds)
  OBVIOUS
<1>2. PICK name : name = groups[h].name
  OBVIOUS
<1>3. n \in Nat /\ name \in PathOrRoot /\ Len(name) \in Nat /\ Len(name) <= n /\ DOMAIN Up(h) = 0 .. n
  BY <1>1, <1>2, ParentFacts, PathFacts, GroupDepth, UpEquation
<1>4. PICK k \in 1 .. Len(name) : q = SubSeq(name, 1, k)
  BY <1>2 DEF Prefixes
<1>5. k \in 0 .. Len(name)
  BY <1>3, <1>4
<1>6. Len(q) = k
  BY <1>3, <1>4, <1>5, Beginning
<1>7. PICK j : j = Len(name) - k
  OBVIOUS
<1>8. j \in 0 .. n /\ j < Len(name) /\ Len(name) - j = k
  BY <1>3, <1>4, <1>7
<1>9. Up(h)[j] \in Groups /\ groups[Up(h)[j]].name = SubSeq(name, 1, Len(name) - j)
  BY <1>1, <1>2, <1>8, UpNames
<1> QED
  BY <1>2, <1>3, <1>4, <1>6, <1>7, <1>8, <1>9

\* The groups below a group are those with names below its name, at one level each.
LEMMA GroupsBelowAre ==
  ASSUME Tree, NEW g \in Groups, NEW h \in Groups
  PROVE  /\ h \in GroupsBelow(g) <=> Below(groups[g].name, groups[h].name)
         /\ Below(groups[g].name, groups[h].name) =>
              LevelsAbove(g, h) = {Len(groups[h].name) - Len(groups[g].name)}
<1>1. PICK n : n = Cardinality(GroupIds)
  OBVIOUS
<1>2. PICK a : a = groups[g].name
  OBVIOUS
<1>3. PICK b : b = groups[h].name
  OBVIOUS
<1>4. /\ a \in Path /\ b \in Path /\ b \in PathOrRoot /\ Len(a) \in Nat /\ Len(b) \in Nat /\ Len(a) >= 1
      /\ n \in Nat /\ DOMAIN Up(h) = 0 .. n
  BY <1>1, <1>2, <1>3, ParentFacts, PathFacts, UpEquation
<1>5. ASSUME NEW k \in LevelsAbove(g, h)
      PROVE  Below(a, b) /\ k = Len(b) - Len(a)
  <2>1. k \in 0 .. n /\ Up(h)[k] = g
    BY <1>4, <1>5 DEF LevelsAbove
  <2>2. k < Len(b)
    BY <1>1, <1>3, <1>4, <2>1, UpNames, NoneFacts
  <2>3. a = SubSeq(b, 1, Len(b) - k)
    BY <1>1, <1>2, <1>3, <2>1, <2>2, UpNames
  <2>4. Len(b) - k \in 0 .. Len(b) /\ Len(b) - k \in 1 .. Len(b)
    BY <1>4, <2>1, <2>2
  <2>5. Len(a) = Len(b) - k
    BY <1>4, <2>3, <2>4, Beginning
  <2>6. k = Len(b) - Len(a)
    BY <1>4, <2>1, <2>5
  <2> QED
    BY <2>3, <2>4, <2>6 DEF Below, Prefixes
<1>6. ASSUME Below(a, b)
      PROVE  Len(b) - Len(a) \in LevelsAbove(g, h)
  <2>1. PICK x \in Groups : /\ groups[x].name = a
                            /\ Len(b) - Len(a) \in DOMAIN Up(h)
                            /\ Up(h)[Len(b) - Len(a)] = x
    BY <1>3, <1>6, GroupsAbove DEF Below
  <2>2. x = g
    BY <1>2, <2>1 DEF Tree, Unique, Groups
  <2> QED
    BY <2>1, <2>2 DEF LevelsAbove
<1> QED
  BY <1>2, <1>3, <1>5, <1>6 DEF GroupsBelow

\* The last names of a path.
LEMMA LastNames ==
  ASSUME NEW p \in Path, NEW d \in Nat, d <= Len(p), NEW e,
         e = [i \in 1 .. d |-> p[Len(p) - d + i]]
  PROVE  e = SubSeq(p, Len(p) - d + 1, Len(p))
<1>1. p \in Seq(Names) /\ Len(p) \in Nat /\ \A i \in 1 .. Len(p) : p[i] \in Names
  BY PathFacts
<1>2. e \in Seq(Names) /\ Len(e) = d
  <2>1. \A i \in 1 .. d : Len(p) - d + i \in 1 .. Len(p)
    BY <1>1
  <2>2. e \in [1 .. d -> Names]
    BY <1>1, <2>1
  <2>3. e \in Seq(Names)
    BY <2>2, SeqDef
  <2> QED
    BY <2>2, <2>3, LenProperties
<1>3. PICK m : m = Len(p) - d + 1
  OBVIOUS
<1>4. PICK s : s = SubSeq(p, m, Len(p))
  OBVIOUS
<1>5. m \in Int /\ Len(p) \in Int /\ m >= 1
  BY <1>1, <1>3
<1>6. /\ s \in Seq(Names)
      /\ Len(s) = IF m <= Len(p) THEN Len(p) - m + 1 ELSE 0
      /\ \A i \in 1 .. Len(p) - m + 1 : s[i] = p[m + i - 1]
  <2>1. \A i \in m .. Len(p) : p[i] \in Names
    BY <1>1, <1>5
  <2> QED
    BY <1>4, <1>5, <2>1, SubSeqProperties
<1>7. Len(s) = d
  BY <1>1, <1>3, <1>6
<1>8. \A i \in 1 .. d : s[i] = e[i]
  <2>1. \A i \in 1 .. d : i \in 1 .. Len(p) - m + 1 /\ m + i - 1 = Len(p) - d + i
    BY <1>1, <1>3
  <2> QED
    BY <1>6, <2>1
<1>9. \A i \in 1 .. Len(s) : s[i] = e[i]
  BY <1>7, <1>8
<1>10. s = e
  BY <1>2, <1>6, <1>7, <1>9, SeqEqual
<1> QED
  BY <1>3, <1>4, <1>10

\* To rename a group below one that is renamed is to move its path.
LEMMA RenamedIsRebased ==
  ASSUME Tree, NEW g \in Groups, NEW h \in Groups, NEW path \in Path,
         Below(groups[g].name, groups[h].name)
  PROVE  Renamed(g, path, h) = Rebased(groups[h].name, groups[g].name, path)
<1>1. PICK a : a = groups[g].name
  OBVIOUS
<1>2. PICK b : b = groups[h].name
  OBVIOUS
<1>3. PICK n : n = Cardinality(GroupIds)
  OBVIOUS
<1>4. /\ a \in Path /\ b \in Path /\ b \in PathOrRoot /\ Len(a) \in Nat /\ Len(b) \in Nat /\ Len(a) >= 1
      /\ n \in Nat /\ Len(b) <= n
  BY <1>1, <1>2, <1>3, ParentFacts, PathFacts, UpEquation, GroupDepth
<1>5. Len(a) <= Len(b)
  BY <1>1, <1>2, <1>4, PrefixIff DEF Below
<1>6. PICK d : d = Len(b) - Len(a)
  OBVIOUS
<1>7. d \in Nat /\ d < Len(b) /\ d <= Len(b)
  BY <1>4, <1>5, <1>6
<1>8. (CHOOSE k \in LevelsAbove(g, h) : TRUE) = d
  <2>1. LevelsAbove(g, h) = {d}
    BY <1>1, <1>2, <1>6, GroupsBelowAre
  <2> QED
    BY <2>1
<1>9. PICK e : e = [i \in 1 .. d |-> Own(groups[Up(h)[d - i]].name)]
  OBVIOUS
<1>10. Renamed(g, path, h) = path \o e
  <2> DEFINE With(k) == path \o [i \in 1 .. k |-> Own(groups[Up(h)[k - i]].name)]
  <2>1. Renamed(g, path, h) = With(CHOOSE k \in LevelsAbove(g, h) : TRUE)
    BY Zenon DEF Renamed
  <2>2. With(d) = path \o e
    BY <1>9
  <2> HIDE DEF With
  <2> QED
    BY <1>8, <2>1, <2>2
<1>11. ASSUME NEW i \in 1 .. d
       PROVE  Own(groups[Up(h)[d - i]].name) = b[Len(b) - d + i]
  <2>1. PICK k : k = d - i
    OBVIOUS
  <2>2. PICK m : m = Len(b) - k
    OBVIOUS
  <2>3. /\ k \in 0 .. n /\ k < Len(b) /\ m \in 0 .. Len(b) /\ m >= 1
        /\ m = Len(b) - d + i /\ m \in 1 .. m
    BY <1>4, <1>7, <2>1, <2>2
  <2>4. PICK s : s = groups[Up(h)[k]].name
    OBVIOUS
  <2>5. s = SubSeq(b, 1, m)
    BY <1>2, <1>3, <2>2, <2>3, <2>4, UpNames
  <2>6. Len(s) = m /\ \A j \in 1 .. m : s[j] = b[j]
    BY <1>4, <2>3, <2>5, Beginning
  <2>7. Own(s) = b[m]
    BY <2>3, <2>6 DEF Own
  <2> QED
    BY <2>1, <2>3, <2>4, <2>7
<1>12. e = [i \in 1 .. d |-> b[Len(b) - d + i]]
  BY <1>9, <1>11
<1>13. e = SubSeq(b, Len(b) - d + 1, Len(b))
  BY <1>4, <1>7, <1>12, LastNames
<1>14. Len(b) - d + 1 = Len(a) + 1
  BY <1>4, <1>6
<1> QED
  BY <1>1, <1>2, <1>10, <1>13, <1>14 DEF Rebased

\* The names above a group's name are names of groups, one of them in the other.
LEMMA NextGroupBelow ==
  ASSUME Tree, NEW g \in Groups, NEW h \in Groups, h # g, Below(groups[g].name, groups[h].name)
  PROVE  \E x \in Groups : groups[x].parent = g /\ Below(groups[x].name, groups[h].name)
<1>1. PICK a : a = groups[g].name
  OBVIOUS
<1>2. PICK b : b = groups[h].name
  OBVIOUS
<1>3. a \in Path /\ b \in Path /\ Len(a) \in Nat /\ Len(b) \in Nat /\ Len(a) >= 1
  BY <1>1, <1>2, ParentFacts, PathFacts
<1>4. Len(a) <= Len(b) /\ (\A i \in 1 .. Len(a) : a[i] = b[i])
  BY <1>1, <1>2, <1>3, PrefixIff DEF Below, Path, PathOrRoot
<1>5. a # b
  BY <1>1, <1>2 DEF Tree, Unique, Groups
<1>6. Len(a) + 1 \in 1 .. Len(b) /\ Len(a) + 1 \in 0 .. Len(b) /\ Len(a) + 1 >= 1
  <2>1. Len(a) # Len(b)
    BY <1>1, <1>2, <1>3, <1>5, BelowOrders
  <2> QED
    BY <1>3, <1>4, <2>1
<1>7. PICK q : q = SubSeq(b, 1, Len(a) + 1)
  OBVIOUS
<1>8. q \in Path /\ Len(q) = Len(a) + 1 /\ \A i \in 1 .. Len(a) + 1 : q[i] = b[i]
  <2>1. b \in PathOrRoot
    BY <1>3 DEF Path, PathOrRoot
  <2> QED
    BY <1>6, <1>7, <2>1, Beginning
<1>9. q \in Prefixes(b)
  BY <1>6, <1>7 DEF Prefixes
<1>10. PICK x \in Groups : groups[x].name = q
  BY <1>2, <1>9, GroupsAbove
<1>11. PICK p : p = groups[x].parent
  OBVIOUS
<1>12. p # None
  <2>1. Len(q) # 1
    BY <1>3, <1>8
  <2> QED
    BY <1>10, <1>11, <2>1, ParentFacts
<1>13. PICK f : f = groups[p].name
  OBVIOUS
<1>14. p \in Groups /\ f \in Path /\ Len(q) = Len(f) + 1 /\ q = f \o <<Own(q)>> /\ Own(q) \in Names
  BY <1>10, <1>11, <1>12, <1>13, ParentFacts
<1>15. Len(f) \in Nat /\ \A i \in 1 .. Len(f) : q[i] = f[i]
  <2>1. f \in PathOrRoot /\ Len(f) \in Nat
    BY <1>14, PathFacts DEF Path, PathOrRoot
  <2> QED
    BY <1>14, <2>1, ChildFacts
<1>16. Len(f) = Len(a)
  BY <1>3, <1>8, <1>14, <1>15
<1>17. \A i \in 1 .. Len(f) : f[i] = a[i]
  <2>1. \A i \in 1 .. Len(a) : i \in 1 .. Len(a) + 1
    BY <1>3
  <2> QED
    BY <1>4, <1>8, <1>15, <1>16, <2>1
<1>18. f = a
  BY <1>3, <1>14, <1>16, <1>17, SamePath DEF Path, PathOrRoot
<1>19. p = g
  BY <1>1, <1>13, <1>14, <1>18 DEF Tree, Unique, Groups
<1> QED
  BY <1>2, <1>9, <1>10, <1>11, <1>19 DEF Below

-----------------------------------------------------------------------------
(* Directories                                                             *)

\* A directory is in directories, up to the root.
DiskOK(d) ==
  /\ DOMAIN d \subseteq Path
  /\ \A p \in DOMAIN d : Prefixes(p) \subseteq DOMAIN d /\ d[p] \in RepoIds \cup {Plain}

\* What is made has the directories above it.
LEMMA MadeFacts ==
  ASSUME DiskOK(disk), NEW p \in Path, NEW what \in RepoIds \cup {Plain}
  PROVE  /\ DiskOK(Made(p, what))
         /\ p \in DOMAIN Made(p, what) /\ Made(p, what)[p] = what
         /\ \A q \in DOMAIN disk : q # p => q \in DOMAIN Made(p, what) /\ Made(p, what)[q] = disk[q]
<1>1. PICK d : d = Made(p, what)
  OBVIOUS
<1>2. PICK old : old = disk
  OBVIOUS
<1>3. /\ DOMAIN d = DOMAIN old \cup Prefixes(p)
      /\ \A q \in DOMAIN d : d[q] = IF q = p THEN what ELSE IF q \in DOMAIN old THEN old[q] ELSE Plain
  BY <1>1, <1>2 DEF Made, IsDir
<1>4. /\ DOMAIN old \subseteq Path
      /\ \A q \in DOMAIN old : Prefixes(q) \subseteq DOMAIN old /\ old[q] \in RepoIds \cup {Plain}
  BY <1>2 DEF DiskOK
<1>5. Prefixes(p) \subseteq Path /\ p \in Prefixes(p) /\ \A q \in Prefixes(p) : Prefixes(q) \subseteq Prefixes(p)
  <2>1. \A q \in Path : Prefixes(q) \subseteq Path
    BY PrefixIff DEF Path, PathOrRoot
  <2> QED
    BY <2>1, BelowOrders DEF Below
<1>6. DiskOK(d)
  <2>1. DOMAIN d \subseteq Path
    BY <1>3, <1>4, <1>5
  <2>2. \A q \in DOMAIN d : Prefixes(q) \subseteq DOMAIN d
    BY <1>3, <1>4, <1>5
  <2>3. \A q \in DOMAIN d : d[q] \in RepoIds \cup {Plain}
    BY <1>3, <1>4
  <2> QED
    BY <2>1, <2>2, <2>3 DEF DiskOK
<1> QED
  BY <1>1, <1>2, <1>3, <1>5, <1>6

\* What is left when some directories are taken away with everything below them.
LEMMA KeptFacts ==
  ASSUME DiskOK(disk), NEW taken \in SUBSET Path
  PROVE  DiskOK([q \in {q \in DOMAIN disk : \A p \in taken : ~Below(p, q)} |-> disk[q]])
<1>1. PICK old : old = disk
  OBVIOUS
<1>2. PICK keep : keep = {q \in DOMAIN old : \A p \in taken : ~Below(p, q)}
  OBVIOUS
<1>3. /\ DOMAIN old \subseteq Path
      /\ \A q \in DOMAIN old : Prefixes(q) \subseteq DOMAIN old /\ old[q] \in RepoIds \cup {Plain}
  BY <1>1 DEF DiskOK
<1>4. ASSUME NEW q \in keep, NEW x \in Prefixes(q)
      PROVE  x \in keep
  <2>1. x \in DOMAIN old /\ x \in Path /\ q \in Path /\ Below(x, q)
    BY <1>2, <1>3, <1>4 DEF Below
  <2>2. \A p \in taken : Below(p, x) => Below(p, q)
    BY <2>1, BelowOrders
  <2> QED
    BY <1>2, <1>4, <2>1, <2>2
<1>5. DiskOK([q \in keep |-> old[q]])
  <2>1. DOMAIN [q \in keep |-> old[q]] = keep /\ \A q \in keep : [x \in keep |-> old[x]][q] = old[q]
    OBVIOUS
  <2> QED
    BY <1>2, <1>3, <1>4, <2>1 DEF DiskOK
<1> QED
  BY <1>1, <1>2, <1>5

\* Archiving takes a directory and everything below it.
LEMMA ArchivedFacts ==
  ASSUME DiskOK(disk), NEW p \in Path
  PROVE  /\ DiskOK(Archived(p))
         /\ \A q \in DOMAIN disk : ~Below(p, q) => q \in DOMAIN Archived(p) /\ Archived(p)[q] = disk[q]
<1>1. PICK taken : taken = {p}
  OBVIOUS
<1>2. {q \in DOMAIN disk : \A x \in taken : ~Below(x, q)} = {q \in DOMAIN disk : ~Below(p, q)}
  BY <1>1
<1>3. DiskOK([q \in {q \in DOMAIN disk : \A x \in taken : ~Below(x, q)} |-> disk[q]])
  BY <1>1, KeptFacts
<1>4. DiskOK(Archived(p))
  BY <1>2, <1>3 DEF Archived
<1> QED
  BY <1>4 DEF Archived

\* A move takes a directory and everything below it to where nothing was.
LEMMA MovedFacts ==
  ASSUME DiskOK(disk), NEW from \in Path, NEW to \in Path, CanMove(from, to)
  PROVE  /\ DiskOK(Moved(from, to))
         /\ \A q \in DOMAIN disk : Below(from, q) =>
              /\ Rebased(q, from, to) \in DOMAIN Moved(from, to)
              /\ Moved(from, to)[Rebased(q, from, to)] = disk[q]
         /\ \A q \in DOMAIN disk : ~Below(from, q) =>
              q \in DOMAIN Moved(from, to) /\ Moved(from, to)[q] = disk[q]
<1>1. PICK d : d = Moved(from, to)
  OBVIOUS
<1>2. PICK old : old = disk
  OBVIOUS
<1> DEFINE Inside(o) == {q \in DOMAIN o : Below(from, q)}
           After(o) ==
             [p \in (DOMAIN o \ Inside(o)) \cup {Rebased(q, from, to) : q \in Inside(o)}
                      \cup (Prefixes(to) \ Inside(o)) |->
                IF p \in {Rebased(q, from, to) : q \in Inside(o)}
                THEN o[CHOOSE q \in Inside(o) : Rebased(q, from, to) = p]
                ELSE IF p \in DOMAIN o \ Inside(o) THEN o[p] ELSE Plain]
           inside == Inside(old)
           stays == DOMAIN old \ inside
           targets == {Rebased(q, from, to) : q \in inside}
<1>3. /\ DOMAIN d = stays \cup targets \cup (Prefixes(to) \ inside)
      /\ \A p \in DOMAIN d : d[p] = IF p \in targets THEN old[CHOOSE q \in inside : Rebased(q, from, to) = p]
                                     ELSE IF p \in stays THEN old[p] ELSE Plain
  <2>1. Moved(from, to) = After(disk)
    BY Zenon DEF Moved, Rebased
  <2>2. d = After(old)
    <3> HIDE DEF After
    <3> QED
      BY <1>1, <1>2, <2>1
  <2> HIDE DEF Inside
  <2> QED
    BY <2>2
<1>4. /\ DOMAIN old \subseteq Path
      /\ \A q \in DOMAIN old : Prefixes(q) \subseteq DOMAIN old /\ old[q] \in RepoIds \cup {Plain}
  BY <1>2 DEF DiskOK
<1>5. to \notin DOMAIN old /\ ~Below(from, to)
  BY <1>2 DEF CanMove, IsDir
<1>6. ASSUME NEW q \in inside
      PROVE  /\ Rebased(q, from, to) \in Path /\ Rebased(q, from, to) \notin DOMAIN old
             /\ \A x \in inside : Rebased(x, from, to) = Rebased(q, from, to) => x = q
  <2>1. q \in Path /\ Below(from, q)
    BY <1>4
  <2>2. Rebased(q, from, to) \in Path /\ Below(to, Rebased(q, from, to))
    BY <2>1, RebasedBelow
  <2>3. Rebased(q, from, to) \notin DOMAIN old
    BY <1>4, <1>5, <2>2 DEF Below
  <2>4. \A x \in inside : Rebased(x, from, to) = Rebased(q, from, to) => x = q
    BY <1>4, <2>1, RebasedInjective
  <2> QED
    BY <2>2, <2>3, <2>4
<1>7. ASSUME NEW q \in inside
      PROVE  /\ Rebased(q, from, to) \in DOMAIN d /\ Rebased(q, from, to) \in targets
             /\ d[Rebased(q, from, to)] = old[q]
  <2>1. PICK p : p = Rebased(q, from, to)
    OBVIOUS
  <2>2. p \in targets /\ p \in DOMAIN d
    BY <1>3, <2>1
  <2>3. PICK c : c = CHOOSE x \in inside : Rebased(x, from, to) = p
    OBVIOUS
  <2>4. c \in inside /\ Rebased(c, from, to) = p
    BY <2>1, <2>3
  <2>5. c = q
    BY <1>6, <2>1, <2>4
  <2> QED
    BY <1>3, <2>1, <2>2, <2>3, <2>5
<1>8. ASSUME NEW q \in stays
      PROVE  q \in DOMAIN d /\ d[q] = old[q] /\ q \notin targets
  <2>1. q \notin targets
    BY <1>6
  <2> QED
    BY <1>3, <2>1
<1>9. DOMAIN d \subseteq Path
  <2>1. Prefixes(to) \subseteq Path
    BY PrefixIff DEF Path, PathOrRoot
  <2> QED
    BY <1>3, <1>4, <1>6, <2>1
<1>10. Prefixes(to) \subseteq DOMAIN d
  <2>1. ASSUME NEW x \in Prefixes(to), x \in inside PROVE FALSE
    <3>1. x \in Path /\ Below(from, x) /\ Below(x, to)
      BY <1>4, <2>1 DEF Below
    <3> QED
      BY <1>5, <3>1, BelowOrders
  <2> QED
    BY <1>3, <2>1
<1>11. ASSUME NEW p \in DOMAIN d, NEW x \in Prefixes(p)
       PROVE  x \in DOMAIN d
  <2>1. CASE p \in stays
    <3>1. x \in DOMAIN old /\ x \in Path /\ p \in Path /\ Below(x, p)
      BY <1>4, <1>11, <2>1 DEF Below
    <3>2. ~Below(from, x)
      BY <2>1, <3>1, BelowOrders
    <3> QED
      BY <1>8, <3>1, <3>2
  <2>2. CASE p \in targets
    <3>1. PICK q \in inside : p = Rebased(q, from, to)
      BY <2>2
    <3>2. CASE x \in Prefixes(to)
      BY <1>10, <3>2
    <3>3. CASE x \notin Prefixes(to)
      <4>1. q \in Path /\ Below(from, q) /\ x \in Prefixes(Rebased(q, from, to))
        BY <1>4, <1>11, <3>1
      <4>2. PICK y \in Prefixes(q) : Below(from, y) /\ x = Rebased(y, from, to)
        BY <3>3, <4>1, RebasedPrefixes
      <4>3. y \in inside
        BY <1>4, <3>1, <4>2
      <4> QED
        BY <1>7, <4>2, <4>3
    <3> QED
      BY <3>2, <3>3
  <2>3. CASE p \in Prefixes(to)
    <3>1. p \in Path /\ x \in Path
      BY <1>9, <1>11, PrefixIff DEF Path, PathOrRoot
    <3>2. x \in Prefixes(to)
      BY <1>11, <2>3, <3>1, BelowOrders DEF Below
    <3> QED
      BY <1>10, <3>2
  <2> QED
    BY <1>3, <2>1, <2>2, <2>3
<1>12. ASSUME NEW p \in DOMAIN d
       PROVE  d[p] \in RepoIds \cup {Plain}
  <2>1. CASE p \in targets
    <3>1. PICK q \in inside : p = Rebased(q, from, to)
      BY <2>1
    <3> QED
      BY <1>4, <1>7, <3>1
  <2>2. CASE p \notin targets
    BY <1>3, <1>4, <1>12, <2>2
  <2> QED
    BY <2>1, <2>2
<1>13. DiskOK(d)
  BY <1>9, <1>11, <1>12 DEF DiskOK
<1>14. \A q \in DOMAIN old : Below(from, q) => /\ Rebased(q, from, to) \in DOMAIN d
                                               /\ d[Rebased(q, from, to)] = old[q]
  BY <1>7
<1>15. \A q \in DOMAIN old : ~Below(from, q) => q \in DOMAIN d /\ d[q] = old[q]
  BY <1>8
<1> QED
  BY <1>1, <1>2, <1>13, <1>14, <1>15

-----------------------------------------------------------------------------
(* The inductive invariant                                                 *)

TaskRow ==
  [at : {"queued", "row", "dir"}, own : Names, full : Path, group : GroupIds \cup {None},
   fork : RepoIds \cup {None}, repo : RepoIds \cup {None}]

\* PathOf, for any rows of groups.
NameOf(gs, g) == IF g \in GroupIds /\ gs[g] # None THEN gs[g].name ELSE <<>>

\* The rows of groups are a tree, whose paths are their names.
TreeOK(gs) ==
  /\ gs \in [GroupIds -> GroupRow \cup {None}]
  /\ \A g \in GroupIds : gs[g] # None /\ gs[g].parent # None => gs[gs[g].parent] # None
  /\ Unique(gs)
  /\ \A g \in GroupIds : gs[g] # None =>
       gs[g].name = NameOf(gs, gs[g].parent) \o <<Own(gs[g].name)>>

\* The rows of repositories refer to rows that there are.
RowsOK(gs, rs) ==
  /\ rs \in [RepoIds -> RepoRow \cup {None}]
  /\ \A r \in RepoIds : rs[r] # None /\ rs[r].group # None => gs[rs[r].group] # None
  /\ \A r \in RepoIds : rs[r] # None /\ rs[r].fork # None => rs[rs[r].fork] # None
  /\ Unique(rs)

\* A task that has made a row remembers it.
TasksOK(ts) ==
  /\ ts \in [Tasks -> TaskRow \cup {None}]
  /\ \A t \in Tasks : ts[t] # None /\ ts[t].at # "queued" => ts[t].repo \in RepoIds

\* Rows and directories agree.
Settled(gs, rs, d) ==
  /\ \A r \in RepoIds : rs[r] # None =>
       rs[r].name = NameOf(gs, rs[r].group) \o <<Own(rs[r].name)>>
  /\ \A g \in GroupIds : gs[g] # None => gs[g].name \in DOMAIN d /\ d[gs[g].name] = Plain
  /\ \A r \in RepoIds : rs[r] # None /\ rs[r].state = "created" =>
       /\ rs[r].name \in DOMAIN d
       /\ d[rs[r].name] = rs[r].data
       /\ d[rs[r].name] # Plain

\* No two groups and no two repositories share a name, every name is what the
\* tree makes of it, and rows and directories agree unless suspect.
Inv ==
  /\ TreeOK(groups)
  /\ RowsOK(groups, repos)
  /\ DiskOK(disk)
  /\ TasksOK(tasks)
  /\ scan # None => scan \subseteq Path
  /\ suspect \in BOOLEAN
  /\ ~suspect => Settled(groups, repos, disk)

\* The two forms of what is known of groups.
LEMMA TreeIs ==
  ASSUME TreeOK(groups)
  PROVE  Tree /\ \A g : NameOf(groups, g) = PathOf(g)
<1>1. \A g : NameOf(groups, g) = PathOf(g)
  BY DEF NameOf, PathOf, Groups
<1>2. groups \in [GroupIds -> GroupRow \cup {None}] /\ Unique(groups)
  BY DEF TreeOK
<1>3. \A g \in Groups : groups[g].parent \in Groups \cup {None}
  BY <1>2 DEF TreeOK, Groups, GroupRow
<1>4. \A g \in Groups : groups[g].name = NewName(groups[g].parent, Own(groups[g].name))
  BY <1>1 DEF TreeOK, NewName, Groups
<1> QED
  BY <1>1, <1>2, <1>3, <1>4 DEF Tree

\* The row of a group.
LEMMA GroupFacts ==
  ASSUME NEW gs, TreeOK(gs)
  PROVE  /\ gs \in [GroupIds -> GroupRow \cup {None}] /\ DOMAIN gs = GroupIds
         /\ \A g \in GroupIds : gs[g] # None =>
              /\ gs[g] \in GroupRow /\ gs[g].name \in Path /\ Own(gs[g].name) \in Names
              /\ gs[g].parent = None \/ (gs[g].parent \in GroupIds /\ gs[gs[g].parent] # None)
         /\ \A g, h \in GroupIds : gs[g] # None /\ gs[h] # None /\ gs[g].name = gs[h].name => g = h
<1>1. gs \in [GroupIds -> GroupRow \cup {None}] /\ DOMAIN gs = GroupIds
  BY DEF TreeOK
<1>2. \A g \in GroupIds : gs[g] # None => gs[g] \in GroupRow
  BY <1>1
<1>3. \A row \in GroupRow : row.name \in Path /\ row.parent \in GroupIds \cup {None}
  BY DEF GroupRow
<1>4. \A g \in GroupIds : gs[g] # None => Own(gs[g].name) \in Names
  BY <1>2, <1>3, PathFacts
<1>5. \A g \in GroupIds : gs[g] # None =>
        gs[g].parent = None \/ (gs[g].parent \in GroupIds /\ gs[gs[g].parent] # None)
  <2>1. \A g \in GroupIds : gs[g] # None /\ gs[g].parent # None => gs[gs[g].parent] # None
    BY DEF TreeOK
  <2>2. \A g \in GroupIds : gs[g] # None => gs[g].parent \in GroupIds \cup {None}
    BY <1>2, <1>3
  <2> QED
    BY <2>1, <2>2
<1>6. \A g, h \in GroupIds : gs[g] # None /\ gs[h] # None /\ gs[g].name = gs[h].name => g = h
  BY <1>1 DEF TreeOK, Unique
<1> QED
  BY <1>1, <1>2, <1>3, <1>4, <1>5, <1>6

\* The row of a repository.
LEMMA RepoFacts ==
  ASSUME NEW gs, NEW rs, RowsOK(gs, rs)
  PROVE  /\ rs \in [RepoIds -> RepoRow \cup {None}] /\ DOMAIN rs = RepoIds
         /\ \A r \in RepoIds : rs[r] # None =>
              /\ rs[r] \in RepoRow /\ rs[r].name \in Path /\ Own(rs[r].name) \in Names
              /\ rs[r].group = None \/ (rs[r].group \in GroupIds /\ gs[rs[r].group] # None)
              /\ rs[r].fork = None \/ (rs[r].fork \in RepoIds /\ rs[rs[r].fork] # None)
              /\ rs[r].state \in {"pending", "created"}
              /\ rs[r].data \in RepoIds \cup {None}
         /\ \A r, q \in RepoIds : rs[r] # None /\ rs[q] # None /\ rs[r].name = rs[q].name => r = q
<1>1. rs \in [RepoIds -> RepoRow \cup {None}] /\ DOMAIN rs = RepoIds
  BY DEF RowsOK
<1>2. \A r \in RepoIds : rs[r] # None => rs[r] \in RepoRow
  BY <1>1
<1>3. \A row \in RepoRow : /\ row.name \in Path /\ row.group \in GroupIds \cup {None}
                           /\ row.fork \in RepoIds \cup {None}
                           /\ row.state \in {"pending", "created"}
                           /\ row.data \in RepoIds \cup {None}
  BY DEF RepoRow
<1>4. \A r \in RepoIds : rs[r] # None => Own(rs[r].name) \in Names
  BY <1>2, <1>3, PathFacts
<1>5. \A r \in RepoIds : rs[r] # None =>
        /\ rs[r].group = None \/ (rs[r].group \in GroupIds /\ gs[rs[r].group] # None)
        /\ rs[r].fork = None \/ (rs[r].fork \in RepoIds /\ rs[rs[r].fork] # None)
  <2>1. \A r \in RepoIds : rs[r] # None =>
          /\ rs[r].group # None => gs[rs[r].group] # None
          /\ rs[r].fork # None => rs[rs[r].fork] # None
    BY DEF RowsOK
  <2>2. \A r \in RepoIds : rs[r] # None => rs[r].group \in GroupIds \cup {None}
                                             /\ rs[r].fork \in RepoIds \cup {None}
    BY <1>2, <1>3
  <2> QED
    BY <2>1, <2>2
<1>6. \A r, q \in RepoIds : rs[r] # None /\ rs[q] # None /\ rs[r].name = rs[q].name => r = q
  BY <1>1 DEF RowsOK, Unique
<1> QED
  BY <1>1, <1>2, <1>3, <1>4, <1>5, <1>6

\* Full names are paths.
LEMMA NameFacts ==
  ASSUME TreeOK(groups), NEW g \in Groups \cup {None}, NEW own \in Names
  PROVE  /\ PathOf(g) \in PathOrRoot /\ NameOf(groups, g) = PathOf(g)
         /\ NewName(g, own) \in Path /\ Own(NewName(g, own)) = own
         /\ NewName(g, own) = PathOf(g) \o <<own>>
<1>1. PathOf(g) \in PathOrRoot
  <2>1. CASE g \in Groups
    BY <2>1, TreeIs, ParentFacts DEF PathOf
  <2>2. CASE g = None
    BY <2>2, NoneFacts DEF PathOf, PathOrRoot
  <2> QED
    BY <2>1, <2>2
<1>2. PICK f : f = PathOf(g)
  OBVIOUS
<1>3. PICK c : c = f \o <<own>>
  OBVIOUS
<1>4. c \in Path /\ Own(c) = own
  BY <1>1, <1>2, <1>3, ChildFacts
<1> QED
  BY <1>1, <1>2, <1>3, <1>4, TreeIs DEF NewName

-----------------------------------------------------------------------------
(* Groups that are made, renamed or removed                                *)

\* A new group is a leaf of the tree, and a directory of its own.
LEMMA AddGroupKeeps ==
  ASSUME Inv, NEW g \in GroupIds, NEW parent \in Groups \cup {None}, NEW own \in Names,
         AddGroup(g, parent, own)
  PROVE  Inv'
<1>1. PICK name : name = NewName(parent, own)
  OBVIOUS
<1>2. PICK gs : gs = groups
  OBVIOUS
<1>3. PICK rs : rs = repos
  OBVIOUS
<1>4. PICK d : d = disk
  OBVIOUS
<1>5. PICK row : row = [name |-> name, parent |-> parent]
  OBVIOUS
<1>6. PICK ng : ng = [gs EXCEPT ![g] = row]
  OBVIOUS
<1>7. PICK nd : nd = Made(name, Plain)
  OBVIOUS
<1>8. TreeOK(gs) /\ RowsOK(gs, rs) /\ DiskOK(disk) /\ (~suspect => Settled(gs, rs, d))
  BY <1>2, <1>3, <1>4 DEF Inv
<1>9. name \in Path /\ Own(name) = own /\ name = NameOf(gs, parent) \o <<own>>
  BY <1>1, <1>2, <1>8, NameFacts
<1>10. /\ gs[g] = None /\ parent # g /\ (parent # None => parent \in GroupIds /\ gs[parent] # None)
       /\ \A h \in GroupIds : gs[h] # None => gs[h].name # name
       /\ name \notin DOMAIN d
  BY <1>1, <1>2, <1>4, NoneFacts DEF AddGroup, FreshGroups, Groups, GroupNamed, IsDir
<1>11. row \in GroupRow /\ row # None /\ row.name = name /\ row.parent = parent
  <2>1. row.name = name /\ row.parent = parent
    BY <1>5
  <2>2. row \in GroupRow
    BY <1>5, <1>9, <1>10 DEF GroupRow
  <2> QED
    BY <2>1, <2>2, NoneFacts
<1>12. /\ ng \in [GroupIds -> GroupRow \cup {None}] /\ ng[g] = row
       /\ \A h \in GroupIds : h # g => ng[h] = gs[h]
       /\ gs \in [GroupIds -> GroupRow \cup {None}]
  BY <1>6, <1>8, <1>11 DEF TreeOK
<1>13. /\ \A h \in GroupIds : gs[h] # None => h # g /\ ng[h] = gs[h]
       /\ \A h \in GroupIds : gs[h] # None /\ gs[h].parent # None =>
            gs[h].parent \in GroupIds /\ gs[gs[h].parent] # None
  BY <1>8, <1>10, <1>12 DEF TreeOK, GroupRow
<1>14. /\ NameOf(ng, None) = NameOf(gs, None)
       /\ \A h \in GroupIds : gs[h] # None => NameOf(ng, h) = NameOf(gs, h)
  BY <1>13, NoneFacts DEF NameOf
<1>15. TreeOK(ng)
  <2>1. \A h \in GroupIds : ng[h] # None /\ ng[h].parent # None => ng[ng[h].parent] # None
    BY <1>10, <1>11, <1>12, <1>13
  <2>2. Unique(ng)
    <3>1. DOMAIN ng = GroupIds /\ DOMAIN gs = GroupIds
      BY <1>12
    <3>2. \A i, j \in GroupIds : i # j /\ gs[i] # None /\ gs[j] # None => gs[i].name # gs[j].name
      BY <1>8, <3>1 DEF TreeOK, Unique
    <3> QED
      BY <1>10, <1>11, <1>12, <3>1, <3>2 DEF Unique
  <2>3. ASSUME NEW h \in GroupIds, ng[h] # None
        PROVE  ng[h].name = NameOf(ng, ng[h].parent) \o <<Own(ng[h].name)>>
    <3>1. CASE h = g
      BY <1>9, <1>10, <1>11, <1>12, <1>14, <3>1
    <3>2. CASE h # g
      <4>1. gs[h] # None /\ ng[h] = gs[h] /\ gs[h].name = NameOf(gs, gs[h].parent) \o <<Own(gs[h].name)>>
        BY <1>8, <1>12, <2>3, <3>2 DEF TreeOK
      <4> QED
        BY <1>13, <1>14, <4>1
    <3> QED
      BY <3>1, <3>2
  <2> QED
    BY <1>12, <2>1, <2>2, <2>3 DEF TreeOK
<1>16. /\ \A r \in RepoIds : rs[r] # None => rs[r].group = None \/ (rs[r].group \in GroupIds /\ gs[rs[r].group] # None)
  BY <1>8, RepoFacts
<1>17. RowsOK(ng, rs)
  BY <1>8, <1>13, <1>16 DEF RowsOK
<1>18. DiskOK(nd) /\ name \in DOMAIN nd /\ nd[name] = Plain
       /\ \A q \in DOMAIN d : q # name => q \in DOMAIN nd /\ nd[q] = d[q]
  <2>1. Plain \in RepoIds \cup {Plain}
    OBVIOUS
  <2> QED
    BY <1>4, <1>7, <1>8, <1>9, <2>1, MadeFacts
<1>19. Settled(gs, rs, d) => Settled(ng, rs, nd)
  <2>1. SUFFICES ASSUME Settled(gs, rs, d) PROVE Settled(ng, rs, nd)
    OBVIOUS
  <2>2. \A r \in RepoIds : rs[r] # None => rs[r].name = NameOf(ng, rs[r].group) \o <<Own(rs[r].name)>>
    BY <1>14, <1>16, <2>1 DEF Settled
  <2>3. \A h \in GroupIds : ng[h] # None => ng[h].name \in DOMAIN nd /\ nd[ng[h].name] = Plain
    BY <1>10, <1>11, <1>12, <1>18, <2>1 DEF Settled
  <2>4. \A r \in RepoIds : rs[r] # None /\ rs[r].state = "created" =>
          rs[r].name \in DOMAIN nd /\ nd[rs[r].name] = rs[r].data /\ nd[rs[r].name] # Plain
    BY <1>10, <1>18, <2>1 DEF Settled
  <2> QED
    BY <2>2, <2>3, <2>4 DEF Settled
<1>20. disk' = nd /\ tasks' = tasks /\ scan' = scan
  BY <1>1, <1>7 DEF AddGroup
<1>21. CASE groups' = ng /\ repos' = rs /\ suspect' = suspect
  BY <1>8, <1>15, <1>17, <1>18, <1>19, <1>20, <1>21 DEF Inv
<1>22. CASE suspect' = TRUE /\ groups' = gs /\ repos' = rs
  BY <1>8, <1>18, <1>20, <1>22 DEF Inv
<1>23. \/ (groups' = ng /\ repos' = rs /\ suspect' = suspect)
       \/ (suspect' = TRUE /\ groups' = gs /\ repos' = rs)
  BY <1>1, <1>2, <1>3, <1>5, <1>6 DEF AddGroup, Commit
<1> QED
  BY <1>21, <1>22, <1>23

\* The rows of groups after one of them was given another path.
LEMMA UpdatedGroupsAre ==
  ASSUME TreeOK(groups), NEW g \in Groups, NEW parent \in Groups \cup {None}, NEW path \in Path,
         NEW ng, ng = UpdatedGroups(g, parent, path), NEW a, a = groups[g].name
  PROVE  /\ DOMAIN ng = GroupIds
         /\ \A h \in GroupIds : groups[h] = None => ng[h] = None
         /\ \A h \in GroupIds : groups[h] # None =>
              /\ ng[h] \in GroupRow /\ ng[h] # None
              /\ ng[h].parent = IF h = g THEN parent ELSE groups[h].parent
              /\ ng[h].name = IF Below(a, groups[h].name) THEN Rebased(groups[h].name, a, path)
                              ELSE groups[h].name
<1>1. PICK gs : gs = groups
  OBVIOUS
<1>2. Tree /\ g \in GroupIds /\ parent \in GroupIds \cup {None} /\ a \in Path
  BY TreeIs, ParentFacts DEF Groups
<1>3. /\ gs \in [GroupIds -> GroupRow \cup {None}]
      /\ \A h \in GroupIds : gs[h] # None => gs[h] \in GroupRow /\ gs[h].name \in Path
  BY <1>1, GroupFacts
<1>4. /\ DOMAIN ng = GroupIds
      /\ \A h \in GroupIds : ng[h] =
           IF h = g THEN [name |-> path, parent |-> parent]
           ELSE IF h \in GroupsBelow(g) THEN [groups[h] EXCEPT !.name = Renamed(g, path, h)]
           ELSE groups[h]
  BY DEF UpdatedGroups
<1>5. ASSUME NEW h \in GroupIds, gs[h] = None
      PROVE  ng[h] = None
  <2>1. h # g /\ h \notin GroupsBelow(g)
    BY <1>1, <1>5 DEF GroupsBelow, Groups
  <2> QED
    BY <1>1, <1>4, <1>5, <2>1
<1>6. ASSUME NEW h \in GroupIds, gs[h] # None
      PROVE  /\ ng[h] \in GroupRow /\ ng[h] # None
             /\ ng[h].parent = IF h = g THEN parent ELSE gs[h].parent
             /\ ng[h].name = IF Below(a, gs[h].name) THEN Rebased(gs[h].name, a, path)
                             ELSE gs[h].name
  <2>1. h \in Groups
    BY <1>1, <1>6 DEF Groups
  <2>2. CASE h = g
    <3>1. ng[h] = [name |-> path, parent |-> parent]
      BY <1>4, <2>2
    <3>2. ng[h] \in GroupRow
      BY <1>2, <3>1 DEF GroupRow
    <3>3. Below(a, gs[h].name) /\ Rebased(gs[h].name, a, path) = path
      <4>1. gs[h].name = a /\ Below(a, a)
        BY <1>1, <1>2, <2>2, BelowOrders
      <4> QED
        BY <1>2, <4>1, RebasedSame
    <3> QED
      BY <2>2, <3>1, <3>2, <3>3, NoneFacts
  <2>3. CASE h # g /\ Below(a, gs[h].name)
    <3>1. PICK b : b = gs[h].name
      OBVIOUS
    <3>2. h \in GroupsBelow(g)
      BY <1>1, <1>2, <2>1, <2>3, GroupsBelowAre
    <3>3. Renamed(g, path, h) = Rebased(b, a, path)
      BY <1>1, <1>2, <2>1, <2>3, <3>1, RenamedIsRebased
    <3>4. PICK new : new = Rebased(b, a, path)
      OBVIOUS
    <3>5. b \in Path /\ new \in Path
      BY <1>2, <1>3, <1>6, <2>3, <3>1, <3>4, RebasedBelow
    <3>6. PICK old : old = gs[h]
      OBVIOUS
    <3>7. ng[h] = [old EXCEPT !.name = new] /\ old \in GroupRow
      BY <1>1, <1>3, <1>4, <1>6, <2>3, <3>2, <3>3, <3>4, <3>6
    <3>8. [old EXCEPT !.name = new] \in GroupRow /\ [old EXCEPT !.name = new].name = new
          /\ [old EXCEPT !.name = new].parent = old.parent
      BY <3>5, <3>7 DEF GroupRow
    <3> QED
      BY <2>3, <3>1, <3>4, <3>6, <3>7, <3>8, NoneFacts
  <2>4. CASE h # g /\ ~Below(a, gs[h].name)
    <3>1. h \notin GroupsBelow(g)
      BY <1>1, <1>2, <2>1, <2>4, GroupsBelowAre
    <3> QED
      BY <1>1, <1>3, <1>4, <1>6, <2>4, <3>1
  <2> QED
    BY <2>2, <2>3, <2>4
<1> QED
  BY <1>1, <1>4, <1>5, <1>6

\* The tree stays one when a group is put elsewhere with what is below it.
LEMMA UpdatedGroupsTree ==
  ASSUME TreeOK(groups), NEW g \in Groups, NEW parent \in Groups \cup {None}, NEW own \in Names,
         parent \notin GroupsBelow(g),
         NEW path, path = NewName(parent, own),
         NEW ng, ng = UpdatedGroups(g, parent, path), Unique(ng)
  PROVE  TreeOK(ng)
<1>1. PICK gs : gs = groups
  OBVIOUS
<1>2. PICK a : a = gs[g].name
  OBVIOUS
<1>3. /\ Tree /\ g \in GroupIds /\ gs[g] # None /\ a \in Path
      /\ parent # None => parent \in GroupIds /\ gs[parent] # None
  BY <1>1, <1>2, TreeIs, ParentFacts DEF Groups
<1>4. path \in Path /\ Own(path) = own /\ path = NameOf(gs, parent) \o <<own>>
  BY <1>1, NameFacts
<1>5. /\ DOMAIN ng = GroupIds
      /\ \A h \in GroupIds : gs[h] = None => ng[h] = None
      /\ \A h \in GroupIds : gs[h] # None =>
           /\ ng[h] \in GroupRow /\ ng[h] # None
           /\ ng[h].parent = IF h = g THEN parent ELSE gs[h].parent
           /\ ng[h].name = IF Below(a, gs[h].name) THEN Rebased(gs[h].name, a, path)
                           ELSE gs[h].name
  <2>1. path \in Path /\ a = groups[g].name
    BY <1>1, <1>2, <1>4
  <2>2. /\ DOMAIN ng = GroupIds
        /\ \A h \in GroupIds : groups[h] = None => ng[h] = None
        /\ \A h \in GroupIds : groups[h] # None =>
             /\ ng[h] \in GroupRow /\ ng[h] # None
             /\ ng[h].parent = IF h = g THEN parent ELSE groups[h].parent
             /\ ng[h].name = IF Below(a, groups[h].name) THEN Rebased(groups[h].name, a, path)
                             ELSE groups[h].name
    BY <2>1, UpdatedGroupsAre
  <2> QED
    BY <1>1, <2>2
<1>6. /\ \A h \in GroupIds : gs[h] # None =>
           /\ gs[h].name \in Path /\ Own(gs[h].name) \in Names
           /\ gs[h].parent = None \/ (gs[h].parent \in GroupIds /\ gs[gs[h].parent] # None)
           /\ gs[h].name = NameOf(gs, gs[h].parent) \o <<Own(gs[h].name)>>
      /\ \A h, x \in GroupIds : gs[h] # None /\ gs[x] # None /\ gs[h].name = gs[x].name => h = x
  <2>1. \A h \in GroupIds : gs[h] # None => gs[h].name = NameOf(gs, gs[h].parent) \o <<Own(gs[h].name)>>
    BY <1>1 DEF TreeOK
  <2> QED
    BY <1>1, <2>1, GroupFacts
<1>7. parent # None => parent # g /\ ~Below(a, gs[parent].name)
  <2>1. Below(a, a)
    BY <1>3, BelowOrders
  <2> QED
    BY <1>1, <1>2, <1>3, <2>1, GroupsBelowAre
<1>8. NameOf(ng, None) = <<>> /\ NameOf(gs, None) = <<>>
  BY NoneFacts DEF NameOf
<1>9. \A h \in GroupIds : gs[h] # None => NameOf(ng, h) = ng[h].name /\ NameOf(gs, h) = gs[h].name
  BY <1>5 DEF NameOf
<1>10. ASSUME NEW h \in GroupIds, ng[h] # None
       PROVE  /\ ng[h].parent # None => ng[ng[h].parent] # None
              /\ ng[h].name = NameOf(ng, ng[h].parent) \o <<Own(ng[h].name)>>
  <2>1. gs[h] # None
    BY <1>5, <1>10
  <2>2. CASE h = g
    <3>1. Below(a, a) /\ Rebased(a, a, path) = path
      BY <1>3, <1>4, BelowOrders, RebasedSame
    <3>2. ng[h].parent = parent /\ ng[h].name = path
      BY <1>2, <1>5, <2>1, <2>2, <3>1
    <3>3. parent # None => ng[parent] # None /\ ng[parent].name = gs[parent].name
      BY <1>3, <1>5, <1>7
    <3>4. NameOf(ng, parent) = NameOf(gs, parent)
      BY <1>3, <1>8, <1>9, <3>3
    <3> QED
      BY <1>4, <3>2, <3>3, <3>4
  <2>3. CASE h # g
    <3>1. PICK p : p = gs[h].parent
      OBVIOUS
    <3>2. PICK b : b = gs[h].name
      OBVIOUS
    <3>3. PICK f : f = NameOf(gs, p)
      OBVIOUS
    <3>4. /\ b \in Path /\ b = f \o <<Own(b)>> /\ Own(b) \in Names
          /\ ng[h].parent = p
          /\ p = None \/ (p \in GroupIds /\ gs[p] # None)
          /\ b # a
      BY <1>2, <1>3, <1>5, <1>6, <2>1, <2>3, <3>1, <3>2, <3>3
    <3>5. p # None => ng[p] # None
      BY <1>5, <3>4
    <3>6. CASE p = None
      <4>1. f = <<>> /\ NameOf(ng, p) = <<>>
        BY <1>8, <3>3, <3>6
      <4>2. f \in PathOrRoot
        BY <4>1 DEF PathOrRoot
      <4>3. ~Below(a, b)
        BY <1>3, <3>4, <4>1, <4>2, BelowChild
      <4>4. ng[h].name = b
        BY <1>5, <2>1, <3>2, <4>3
      <4> QED
        BY <3>4, <3>6, <4>1, <4>4
    <3>7. CASE p # None /\ Below(a, f)
      <4>1. f \in Path /\ f = gs[p].name
        BY <1>6, <1>9, <3>3, <3>4, <3>7
      <4>2. Below(a, b)
        <5>1. f \in PathOrRoot
          BY <4>1 DEF Path, PathOrRoot
        <5> QED
          BY <1>3, <3>4, <3>7, <4>1, <5>1, BelowChild
      <4>3. PICK nb : nb = Rebased(b, a, path)
        OBVIOUS
      <4>4. PICK nf : nf = Rebased(f, a, path)
        OBVIOUS
      <4>5. PICK o : o = Own(b)
        OBVIOUS
      <4>6. ng[h].name = nb
        BY <1>5, <2>1, <3>2, <4>2, <4>3
      <4>7. NameOf(ng, p) = nf
        BY <1>5, <1>9, <3>4, <3>7, <4>1, <4>4
      <4>8. nb = nf \o <<o>> /\ nf \in Path /\ o \in Names
        <5>1. b = f \o <<o>> /\ o \in Names
          BY <3>4, <4>5
        <5>2. Rebased(f \o <<o>>, a, path) = nf \o <<o>>
          <6>1. Rebased(Child(f, o), a, path) = Child(Rebased(f, a, path), o)
            BY <1>3, <1>4, <3>7, <4>1, <5>1, RebasedChild
          <6> QED
            BY <4>4, <6>1 DEF Child
        <5>3. nf \in Path
          BY <1>3, <1>4, <3>7, <4>1, <4>4, RebasedBelow
        <5> QED
          BY <4>3, <5>1, <5>2, <5>3
      <4>9. Own(nb) = o
        <5>1. nf \in PathOrRoot
          BY <4>8 DEF Path, PathOrRoot
        <5> QED
          BY <4>8, <5>1, ChildFacts
      <4> QED
        BY <3>4, <3>5, <4>6, <4>7, <4>8, <4>9
    <3>8. CASE p # None /\ ~Below(a, f)
      <4>1. f \in Path /\ f = gs[p].name
        BY <1>6, <1>9, <3>3, <3>4, <3>8
      <4>2. ~Below(a, b)
        <5>1. f \in PathOrRoot
          BY <4>1 DEF Path, PathOrRoot
        <5> QED
          BY <1>3, <3>4, <3>8, <4>1, <5>1, BelowChild
      <4>3. ng[h].name = b /\ NameOf(ng, p) = f
        BY <1>5, <1>9, <2>1, <3>2, <3>4, <3>8, <4>1, <4>2
      <4> QED
        BY <3>4, <3>5, <4>3
    <3> QED
      BY <3>6, <3>7, <3>8
  <2> QED
    BY <2>2, <2>3
<1>11. ng \in [GroupIds -> GroupRow \cup {None}]
  <2>1. ng = [h \in GroupIds |-> ng[h]]
    BY DEF UpdatedGroups
  <2>2. \A h \in GroupIds : ng[h] \in GroupRow \cup {None}
    BY <1>5
  <2> QED
    BY <2>1, <2>2
<1> QED
  BY <1>10, <1>11 DEF TreeOK

\* The rows of repositories after a group was given another path.
LEMMA UpdatedReposAre ==
  ASSUME TreeOK(groups), RowsOK(groups, repos), NEW g \in Groups, NEW path \in Path,
         NEW nr, nr = UpdatedRepos(g, path), NEW a, a = groups[g].name
  PROVE  /\ nr \in [RepoIds -> RepoRow \cup {None}]
         /\ \A r \in RepoIds : repos[r] = None => nr[r] = None
         /\ \A r \in RepoIds : repos[r] # None =>
              /\ nr[r] \in RepoRow /\ nr[r] # None
              /\ nr[r].group = repos[r].group /\ nr[r].fork = repos[r].fork
              /\ nr[r].state = repos[r].state /\ nr[r].data = repos[r].data
              /\ nr[r].name =
                   IF repos[r].group # None /\ Below(a, groups[repos[r].group].name)
                   THEN Rebased(groups[repos[r].group].name, a, path) \o <<Own(repos[r].name)>>
                   ELSE repos[r].name
<1>1. PICK gs : gs = groups
  OBVIOUS
<1>2. PICK rs : rs = repos
  OBVIOUS
<1>3. Tree /\ g \in GroupIds /\ a \in Path
  BY TreeIs, ParentFacts DEF Groups
<1>4. /\ rs \in [RepoIds -> RepoRow \cup {None}]
      /\ \A r \in RepoIds : rs[r] # None =>
           /\ rs[r] \in RepoRow /\ Own(rs[r].name) \in Names
           /\ rs[r].group = None \/ (rs[r].group \in GroupIds /\ gs[rs[r].group] # None)
  BY <1>1, <1>2, RepoFacts
<1>5. /\ DOMAIN nr = RepoIds
      /\ \A r \in RepoIds : nr[r] =
           IF r \in Repos /\ repos[r].group \in GroupsBelow(g)
           THEN [repos[r] EXCEPT !.name = Renamed(g, path, repos[r].group) \o <<Own(repos[r].name)>>]
           ELSE repos[r]
  BY DEF UpdatedRepos
<1>6. \A r \in RepoIds : rs[r] = None => nr[r] = None
  BY <1>2, <1>5 DEF Repos
<1>7. ASSUME NEW r \in RepoIds, rs[r] # None
      PROVE  /\ nr[r] \in RepoRow /\ nr[r] # None
             /\ nr[r].group = rs[r].group /\ nr[r].fork = rs[r].fork
             /\ nr[r].state = rs[r].state /\ nr[r].data = rs[r].data
             /\ nr[r].name =
                  IF rs[r].group # None /\ Below(a, gs[rs[r].group].name)
                  THEN Rebased(gs[rs[r].group].name, a, path) \o <<Own(rs[r].name)>>
                  ELSE rs[r].name
  <2>1. PICK old : old = rs[r]
    OBVIOUS
  <2>2. PICK h : h = old.group
    OBVIOUS
  <2>3. PICK o : o = Own(old.name)
    OBVIOUS
  <2>4. r \in Repos /\ old \in RepoRow /\ o \in Names /\ (h = None \/ h \in Groups)
    BY <1>1, <1>2, <1>4, <1>7, <2>1, <2>2, <2>3 DEF Repos, Groups
  <2>5. h # None => (h \in GroupsBelow(g) <=> Below(a, gs[h].name))
    BY <1>1, <1>3, <2>4, GroupsBelowAre
  <2>6. CASE h # None /\ Below(a, gs[h].name)
    <3>1. PICK f : f = gs[h].name
      OBVIOUS
    <3>2. PICK nf : nf = Rebased(f, a, path)
      OBVIOUS
    <3>3. h \in Groups /\ f \in Path
      BY <1>1, <1>3, <2>4, <2>6, <3>1, ParentFacts
    <3>4. Renamed(g, path, h) = nf
      BY <1>1, <1>3, <2>6, <3>1, <3>2, <3>3, RenamedIsRebased
    <3>5. nf \in PathOrRoot
      BY <1>3, <2>6, <3>1, <3>2, <3>3, RebasedBelow DEF Path, PathOrRoot
    <3>6. PICK new : new = nf \o <<o>>
      OBVIOUS
    <3>7. new \in Path
      BY <2>4, <3>5, <3>6, ChildFacts
    <3>8. nr[r] = [old EXCEPT !.name = new]
      BY <1>2, <1>5, <2>1, <2>2, <2>3, <2>4, <2>5, <2>6, <3>4, <3>6
    <3>9. /\ [old EXCEPT !.name = new] \in RepoRow
          /\ [old EXCEPT !.name = new].name = new /\ [old EXCEPT !.name = new].group = old.group
          /\ [old EXCEPT !.name = new].fork = old.fork
          /\ [old EXCEPT !.name = new].state = old.state /\ [old EXCEPT !.name = new].data = old.data
      BY <2>4, <3>7 DEF RepoRow
    <3> QED
      BY <2>1, <2>2, <2>3, <2>6, <3>1, <3>2, <3>6, <3>8, <3>9, NoneFacts
  <2>7. CASE ~(h # None /\ Below(a, gs[h].name))
    <3>1. h \notin GroupsBelow(g)
      BY <2>5, <2>7, NoneFacts DEF GroupsBelow
    <3>2. nr[r] = old
      BY <1>2, <1>5, <2>1, <2>2, <3>1
    <3> QED
      BY <1>7, <2>1, <2>2, <2>4, <2>7, <3>2
  <2> QED
    BY <2>6, <2>7
<1>8. nr \in [RepoIds -> RepoRow \cup {None}]
  <2>1. nr = [r \in RepoIds |-> nr[r]]
    BY DEF UpdatedRepos
  <2>2. \A r \in RepoIds : nr[r] \in RepoRow \cup {None}
    BY <1>6, <1>7
  <2> QED
    BY <2>1, <2>2
<1> QED
  BY <1>1, <1>2, <1>6, <1>7, <1>8

\* What was below from in d is below to in nd, and the rest is where it was.
Follows(nd, d, from, to) ==
  /\ \A q \in DOMAIN d : Below(from, q) =>
       Rebased(q, from, to) \in DOMAIN nd /\ nd[Rebased(q, from, to)] = d[q]
  /\ \A q \in DOMAIN d : ~Below(from, q) => q \in DOMAIN nd /\ nd[q] = d[q]

\* What repositories refer to is there still, and where their names lead to as
\* well, if the directories were moved as the names were changed.
LEMMA ChangeFollowed ==
  ASSUME TreeOK(groups), RowsOK(groups, repos), DiskOK(disk),
         NEW g \in Groups, NEW parent \in Groups \cup {None}, NEW own \in Names,
         NEW path, path = NewName(parent, own), NEW a, a = groups[g].name,
         NEW ng, ng = UpdatedGroups(g, parent, path),
         NEW nr, nr = UpdatedRepos(g, path), Unique(nr),
         NEW nd, Follows(nd, disk, a, path)
  PROVE  /\ RowsOK(ng, nr)
         /\ Settled(groups, repos, disk) => Settled(ng, nr, nd)
<1>1. PICK gs : gs = groups
  OBVIOUS
<1>2. PICK rs : rs = repos
  OBVIOUS
<1>3. PICK d : d = disk
  OBVIOUS
<1>4. /\ g \in GroupIds /\ gs[g] # None /\ a \in Path
      /\ path \in Path
      /\ parent # None => parent \in GroupIds /\ gs[parent] # None
  BY <1>1, TreeIs, ParentFacts, NameFacts DEF Groups
<1>5. /\ DOMAIN ng = GroupIds
      /\ \A h \in GroupIds : gs[h] = None => ng[h] = None
      /\ \A h \in GroupIds : gs[h] # None =>
           /\ ng[h] # None
           /\ ng[h].name = IF Below(a, gs[h].name) THEN Rebased(gs[h].name, a, path)
                           ELSE gs[h].name
  <2>1. path \in Path
    BY <1>4
  <2>2. /\ DOMAIN ng = GroupIds
        /\ \A h \in GroupIds : groups[h] = None => ng[h] = None
        /\ \A h \in GroupIds : groups[h] # None =>
             /\ ng[h] \in GroupRow /\ ng[h] # None
             /\ ng[h].parent = IF h = g THEN parent ELSE groups[h].parent
             /\ ng[h].name = IF Below(a, groups[h].name) THEN Rebased(groups[h].name, a, path)
                             ELSE groups[h].name
    BY <2>1, UpdatedGroupsAre
  <2> QED
    BY <1>1, <2>2
<1>6. /\ nr \in [RepoIds -> RepoRow \cup {None}]
      /\ \A r \in RepoIds : rs[r] = None => nr[r] = None
      /\ \A r \in RepoIds : rs[r] # None =>
           /\ nr[r] \in RepoRow /\ nr[r] # None
           /\ nr[r].group = rs[r].group /\ nr[r].fork = rs[r].fork
           /\ nr[r].state = rs[r].state /\ nr[r].data = rs[r].data
           /\ nr[r].name =
                IF rs[r].group # None /\ Below(a, gs[rs[r].group].name)
                THEN Rebased(gs[rs[r].group].name, a, path) \o <<Own(rs[r].name)>>
                ELSE rs[r].name
  <2>1. path \in Path
    BY <1>4
  <2>2. /\ nr \in [RepoIds -> RepoRow \cup {None}]
        /\ \A r \in RepoIds : repos[r] = None => nr[r] = None
        /\ \A r \in RepoIds : repos[r] # None =>
             /\ nr[r] \in RepoRow /\ nr[r] # None
             /\ nr[r].group = repos[r].group /\ nr[r].fork = repos[r].fork
             /\ nr[r].state = repos[r].state /\ nr[r].data = repos[r].data
             /\ nr[r].name =
                  IF repos[r].group # None /\ Below(a, groups[repos[r].group].name)
                  THEN Rebased(groups[repos[r].group].name, a, path) \o <<Own(repos[r].name)>>
                  ELSE repos[r].name
    BY <2>1, UpdatedReposAre
  <2> QED
    BY <1>1, <1>2, <2>2
<1>7. \A r \in RepoIds : rs[r] # None =>
        /\ rs[r].name \in Path /\ Own(rs[r].name) \in Names
        /\ rs[r].group = None \/ (rs[r].group \in GroupIds /\ gs[rs[r].group] # None)
        /\ rs[r].fork = None \/ (rs[r].fork \in RepoIds /\ rs[rs[r].fork] # None)
  BY <1>1, <1>2, RepoFacts
<1>8. \A h \in GroupIds : gs[h] # None => gs[h].name \in Path
  BY <1>1, GroupFacts
<1>9. RowsOK(ng, nr)
  <2>1. \A r \in RepoIds : nr[r] # None /\ nr[r].group # None => ng[nr[r].group] # None
    <3>1. \A r \in RepoIds : nr[r] # None => rs[r] # None /\ nr[r].group = rs[r].group
      BY <1>6
    <3>2. \A h \in GroupIds : gs[h] # None => ng[h] # None
      BY <1>5
    <3>3. \A r \in RepoIds : rs[r] # None =>
            rs[r].group = None \/ (rs[r].group \in GroupIds /\ gs[rs[r].group] # None)
      BY <1>7
    <3> QED
      BY <3>1, <3>2, <3>3
  <2>2. \A r \in RepoIds : nr[r] # None /\ nr[r].fork # None => nr[nr[r].fork] # None
    BY <1>6, <1>7
  <2> QED
    BY <1>6, <2>1, <2>2 DEF RowsOK
<1>10. /\ \A q \in DOMAIN d : Below(a, q) =>
             Rebased(q, a, path) \in DOMAIN nd /\ nd[Rebased(q, a, path)] = d[q]
       /\ \A q \in DOMAIN d : ~Below(a, q) => q \in DOMAIN nd /\ nd[q] = d[q]
  BY <1>3 DEF Follows
<1>11. ASSUME Settled(gs, rs, d)
       PROVE  Settled(ng, nr, nd)
  <2>1. /\ \A r \in RepoIds : rs[r] # None =>
             rs[r].name = NameOf(gs, rs[r].group) \o <<Own(rs[r].name)>>
        /\ \A h \in GroupIds : gs[h] # None => gs[h].name \in DOMAIN d /\ d[gs[h].name] = Plain
        /\ \A r \in RepoIds : rs[r] # None /\ rs[r].state = "created" =>
             /\ rs[r].name \in DOMAIN d
             /\ d[rs[r].name] = rs[r].data
             /\ d[rs[r].name] # Plain
    BY <1>11 DEF Settled
  <2>2. \A h \in GroupIds : ng[h] # None => ng[h].name \in DOMAIN nd /\ nd[ng[h].name] = Plain
    BY <1>5, <1>10, <2>1
  <2>3. ASSUME NEW r \in RepoIds, nr[r] # None
        PROVE  /\ nr[r].name = NameOf(ng, nr[r].group) \o <<Own(nr[r].name)>>
               /\ nr[r].state = "created" =>
                    /\ nr[r].name \in DOMAIN nd
                    /\ nd[nr[r].name] = nr[r].data
                    /\ nd[nr[r].name] # Plain
    <3>1. rs[r] # None
      BY <1>6, <2>3
    <3>2. PICK h : h = rs[r].group
      OBVIOUS
    <3>3. PICK b : b = rs[r].name
      OBVIOUS
    <3>4. PICK o : o = Own(b)
      OBVIOUS
    <3>5. PICK f : f = NameOf(gs, h)
      OBVIOUS
    <3>6. b \in Path /\ o \in Names /\ b = f \o <<o>> /\ (h = None \/ (h \in GroupIds /\ gs[h] # None))
      BY <1>7, <2>1, <3>1, <3>2, <3>3, <3>4, <3>5
    <3>7. h = None => f = <<>> /\ NameOf(ng, h) = <<>>
      BY <3>5, NoneFacts DEF NameOf
    <3>8. h # None => f = gs[h].name /\ f \in Path /\ NameOf(ng, h) = ng[h].name
      BY <1>5, <1>8, <3>5, <3>6 DEF NameOf
    <3>9. f \in PathOrRoot
      BY <3>6, <3>7, <3>8 DEF Path, PathOrRoot
    <3>10. nr[r].group = h /\ nr[r].state = rs[r].state /\ nr[r].data = rs[r].data
      BY <1>6, <3>1, <3>2
    <3>11. rs[r].state = "created" =>
             b \in DOMAIN d /\ d[b] = rs[r].data /\ d[b] # Plain /\ b # a
      <4>1. d[a] = Plain
        BY <1>1, <1>4, <2>1
      <4>2. rs[r].state = "created" => b \in DOMAIN d /\ d[b] = rs[r].data /\ d[b] # Plain
        BY <2>1, <3>1, <3>3
      <4> QED
        BY <4>1, <4>2
    <3>12. CASE h # None /\ Below(a, f)
      <4>1. PICK nf : nf = Rebased(f, a, path)
        OBVIOUS
      <4>2. PICK nb : nb = nf \o <<o>>
        OBVIOUS
      <4>3. nf \in Path
        BY <1>4, <3>8, <3>12, <4>1, RebasedBelow
      <4>4. Own(nb) = o
        BY <3>6, <4>2, <4>3, ChildFacts DEF Path, PathOrRoot
      <4>5. Rebased(b, a, path) = nb
        <5>1. Rebased(Child(f, o), a, path) = Child(Rebased(f, a, path), o)
          <6>1. a \in Path /\ path \in Path /\ f \in Path /\ Below(a, f) /\ o \in Names
            BY <1>4, <3>6, <3>8, <3>12
          <6> QED
            BY <6>1, RebasedChild
        <5> QED
          BY <3>6, <4>1, <4>2, <5>1 DEF Child
      <4>6. Below(a, b)
        BY <1>4, <3>6, <3>8, <3>9, <3>12, BelowChild
      <4>7. nr[r].name = nb /\ NameOf(ng, h) = nf
        <5>1. Below(a, gs[h].name) /\ h # None /\ h \in GroupIds /\ gs[h] # None /\ f = gs[h].name
          BY <3>6, <3>8, <3>12
        <5>2. ng[h].name = Rebased(gs[h].name, a, path)
          BY <1>5, <5>1
        <5>3. nr[r].name = Rebased(gs[h].name, a, path) \o <<o>>
          BY <1>6, <3>1, <3>2, <3>3, <3>4, <5>1
        <5> QED
          BY <3>8, <4>1, <4>2, <5>1, <5>2, <5>3
      <4>8. b \in DOMAIN d => nb \in DOMAIN nd /\ nd[nb] = d[b]
        BY <1>10, <4>5, <4>6
      <4> QED
        BY <3>10, <3>11, <4>2, <4>4, <4>7, <4>8
    <3>13. CASE ~(h # None /\ Below(a, f))
      <4>1. nr[r].name = b
        BY <1>6, <3>1, <3>2, <3>3, <3>6, <3>8, <3>13
      <4>2. NameOf(ng, h) = f
        BY <1>5, <3>6, <3>7, <3>8, <3>13
      <4>3. b # a => ~Below(a, b)
        <5>1. h = None => Prefixes(f) = {}
          BY <3>7 DEF Prefixes
        <5>2. a \notin Prefixes(f)
          BY <3>8, <3>13, <5>1 DEF Below
        <5>3. a \in Path /\ o \in Names /\ b = f \o <<o>> /\ f \in PathOrRoot
          BY <1>4, <3>6, <3>9
        <5>4. Below(a, b) => a = b \/ a \in Prefixes(f)
          BY <5>3, BelowChild
        <5> QED
          BY <5>2, <5>4
      <4> QED
        BY <1>10, <3>4, <3>6, <3>10, <3>11, <4>1, <4>2, <4>3
    <3> QED
      BY <3>12, <3>13
  <2> QED
    BY <2>2, <2>3 DEF Settled
<1> QED
  BY <1>1, <1>2, <1>3, <1>9, <1>11

\* A directory that stays or moves is followed by what is below it.
LEMMA FollowsMove ==
  ASSUME DiskOK(disk), NEW from \in Path, NEW to \in Path, NEW nd,
         IF to = from THEN nd = disk ELSE CanMove(from, to) /\ nd = Moved(from, to)
  PROVE  DiskOK(nd) /\ Follows(nd, disk, from, to)
<1>1. CASE to = from
  <2>1. \A q \in DOMAIN disk : Below(from, q) => Rebased(q, from, from) = q
    BY RebasedSame DEF DiskOK
  <2> QED
    BY <1>1, <2>1 DEF Follows
<1>2. CASE to # from
  <2>1. nd = Moved(from, to) /\ CanMove(from, to)
    BY <1>2
  <2>2. /\ DiskOK(Moved(from, to))
        /\ \A q \in DOMAIN disk : Below(from, q) =>
             /\ Rebased(q, from, to) \in DOMAIN Moved(from, to)
             /\ Moved(from, to)[Rebased(q, from, to)] = disk[q]
        /\ \A q \in DOMAIN disk : ~Below(from, q) =>
             q \in DOMAIN Moved(from, to) /\ Moved(from, to)[q] = disk[q]
    BY <2>1, MovedFacts
  <2>3. Follows(Moved(from, to), disk, from, to)
    BY <2>2 DEF Follows
  <2> QED
    BY <2>1, <2>2, <2>3
<1> QED
  BY <1>1, <1>2

\* A group that is renamed or moved takes all that is below it along.
LEMMA ChangeGroupKeeps ==
  ASSUME Inv, NEW g \in Groups, NEW parent \in Groups \cup {None}, NEW own \in Names,
         parent \notin GroupsBelow(g), ChangeGroup(g, parent, own)
  PROVE  Inv'
<1>1. PICK path : path = NewName(parent, own)
  OBVIOUS
<1>2. PICK a : a = groups[g].name
  OBVIOUS
<1>3. PICK ng : ng = UpdatedGroups(g, parent, path)
  OBVIOUS
<1>4. PICK nr : nr = UpdatedRepos(g, path)
  OBVIOUS
<1>5. PICK nd : nd = disk'
  OBVIOUS
<1>6. /\ Unique(ng) /\ Unique(nr)
      /\ IF path = a THEN nd = disk ELSE CanMove(a, path) /\ nd = Moved(a, path)
      /\ Commit(ng, nr)
      /\ tasks' = tasks /\ scan' = scan
  BY <1>1, <1>2, <1>3, <1>4, <1>5 DEF ChangeGroup
<1>7. TreeOK(groups) /\ RowsOK(groups, repos) /\ DiskOK(disk) /\ (~suspect => Settled(groups, repos, disk))
  BY DEF Inv
<1>8. path \in Path /\ a \in Path
  BY <1>1, <1>2, <1>7, NameFacts, TreeIs, ParentFacts
<1>9. DiskOK(nd) /\ Follows(nd, disk, a, path)
  BY <1>6, <1>7, <1>8, FollowsMove
<1>10. TreeOK(ng)
  BY <1>1, <1>3, <1>6, <1>7, UpdatedGroupsTree
<1>11. RowsOK(ng, nr) /\ (Settled(groups, repos, disk) => Settled(ng, nr, nd))
  BY <1>1, <1>2, <1>3, <1>4, <1>6, <1>7, <1>9, ChangeFollowed
<1>12. CASE groups' = ng /\ repos' = nr /\ suspect' = suspect
  BY <1>5, <1>6, <1>7, <1>9, <1>10, <1>11, <1>12 DEF Inv
<1>13. CASE suspect' = TRUE /\ groups' = groups /\ repos' = repos
  BY <1>5, <1>6, <1>7, <1>9, <1>13 DEF Inv
<1> QED
  BY <1>6, <1>12, <1>13 DEF Commit

\* What holds a repository is above no group and no other repository.
LEMMA NothingUnderRepos ==
  ASSUME TreeOK(groups), RowsOK(groups, repos), DiskOK(disk), Settled(groups, repos, disk),
         NEW n \in DOMAIN disk, disk[n] # Plain
  PROVE  /\ \A h \in Groups : ~Below(n, groups[h].name)
         /\ \A r \in Repos : Below(n, repos[r].name) => n = repos[r].name
<1>1. n \in Path
  BY DEF DiskOK
<1>2. ASSUME NEW h \in Groups, Below(n, groups[h].name)
      PROVE  FALSE
  <2>1. PICK g \in Groups : groups[g].name = n
    BY <1>2, TreeIs, GroupsAbove DEF Below
  <2> QED
    BY <2>1 DEF Settled, Groups
<1>3. ASSUME NEW r \in Repos, Below(n, repos[r].name)
      PROVE  n = repos[r].name
  <2>1. PICK h : h = repos[r].group
    OBVIOUS
  <2>2. PICK f : f = NameOf(groups, h)
    OBVIOUS
  <2>3. PICK b : b = repos[r].name
    OBVIOUS
  <2>4. PICK o : o = Own(b)
    OBVIOUS
  <2>5. /\ b = f \o <<o>> /\ o \in Names
        /\ h = None \/ h \in Groups
    <3>1. b = f \o <<o>>
      BY <2>1, <2>2, <2>3, <2>4 DEF Settled, Repos
    <3>2. o \in Names /\ (h = None \/ h \in Groups)
      BY <2>1, <2>3, <2>4, RepoFacts DEF Repos, Groups
    <3> QED
      BY <3>1, <3>2
  <2>6. CASE h = None
    <3>1. f = <<>> /\ f \in PathOrRoot
      BY <2>2, <2>6, NoneFacts DEF NameOf, PathOrRoot
    <3> QED
      BY <1>1, <1>3, <2>3, <2>5, <3>1, BelowChild
  <2>7. CASE h \in Groups
    <3>1. f = groups[h].name /\ f \in Path /\ f \in PathOrRoot
      BY <2>2, <2>7, TreeIs, ParentFacts DEF NameOf, Groups
    <3>2. ~Below(n, f)
      BY <1>2, <2>7, <3>1
    <3> QED
      <4>1. n \in Path /\ f \in Path /\ f \in PathOrRoot /\ o \in Names /\ b = f \o <<o>>
        BY <1>1, <2>5, <3>1
      <4>2. Below(n, b) <=> n = b \/ Below(n, f)
        BY <4>1, BelowTheChild DEF Child
      <4> QED
        BY <1>3, <2>3, <3>2, <4>2
  <2> QED
    BY <2>5, <2>6, <2>7
<1> QED
  BY <1>2, <1>3

\* Nothing is below a group with nothing in it.
LEMMA NothingUnderEmpty ==
  ASSUME TreeOK(groups), RowsOK(groups, repos), Settled(groups, repos, disk),
         NEW g \in Groups, EmptyGroup(g)
  PROVE  /\ \A h \in Groups : h # g => ~Below(groups[g].name, groups[h].name)
         /\ \A r \in Repos : Below(groups[g].name, repos[r].name) => groups[g].name = repos[r].name
<1>1. \A h \in Groups : h # g => ~Below(groups[g].name, groups[h].name)
  BY TreeIs, NextGroupBelow DEF EmptyGroup
<1>2. PICK n : n = groups[g].name
  OBVIOUS
<1>3. n \in Path
  BY <1>2, TreeIs, ParentFacts
<1>4. ASSUME NEW r \in Repos, Below(n, repos[r].name)
      PROVE  n = repos[r].name
  <2>1. PICK h : h = repos[r].group
    OBVIOUS
  <2>2. PICK f : f = NameOf(groups, h)
    OBVIOUS
  <2>3. PICK b : b = repos[r].name
    OBVIOUS
  <2>4. PICK o : o = Own(b)
    OBVIOUS
  <2>5. /\ b = f \o <<o>> /\ o \in Names
        /\ h = None \/ h \in Groups
        /\ h # g
    <3>1. b = f \o <<o>>
      BY <2>1, <2>2, <2>3, <2>4 DEF Settled, Repos
    <3>2. o \in Names /\ (h = None \/ h \in Groups)
      BY <2>1, <2>3, <2>4, RepoFacts DEF Repos, Groups
    <3> QED
      BY <2>1, <3>1, <3>2 DEF EmptyGroup
  <2>6. CASE h = None
    <3>1. f = <<>> /\ f \in PathOrRoot
      BY <2>2, <2>6, NoneFacts DEF NameOf, PathOrRoot
    <3> QED
      BY <1>3, <1>4, <2>3, <2>5, <3>1, BelowChild
  <2>7. CASE h \in Groups
    <3>1. f = groups[h].name /\ f \in Path /\ f \in PathOrRoot
      BY <2>2, <2>7, TreeIs, ParentFacts DEF NameOf, Groups
    <3>2. ~Below(n, f)
      BY <1>1, <1>2, <2>5, <2>7, <3>1
    <3> QED
      <4>1. n \in Path /\ f \in Path /\ f \in PathOrRoot /\ o \in Names /\ b = f \o <<o>>
        BY <1>3, <2>5, <3>1
      <4>2. Below(n, b) <=> n = b \/ Below(n, f)
        BY <4>1, BelowTheChild DEF Child
      <4> QED
        BY <1>4, <2>3, <3>2, <4>2
  <2> QED
    BY <2>5, <2>6, <2>7
<1> QED
  BY <1>1, <1>2, <1>4

\* A group that is removed is a leaf of the tree, and nothing counts on its directory.
LEMMA RemoveGroupKeeps ==
  ASSUME Inv, NEW g \in Groups, EmptyGroup(g), RemoveGroup(g)
  PROVE  Inv'
<1>1. PICK gs : gs = groups
  OBVIOUS
<1>2. PICK rs : rs = repos
  OBVIOUS
<1>3. PICK d : d = disk
  OBVIOUS
<1>4. PICK a : a = gs[g].name
  OBVIOUS
<1>5. PICK ng : ng = [gs EXCEPT ![g] = None]
  OBVIOUS
<1>6. PICK nd : nd = Archived(a)
  OBVIOUS
<1>7. TreeOK(gs) /\ RowsOK(gs, rs) /\ DiskOK(d) /\ (~suspect => Settled(gs, rs, d))
  BY <1>1, <1>2, <1>3 DEF Inv
<1>8. g \in GroupIds /\ gs[g] # None /\ a \in Path
  <2>1. g \in GroupIds /\ gs[g] # None
    BY <1>1 DEF Groups
  <2> QED
    BY <1>4, <1>7, <2>1, GroupFacts
<1>9. /\ \A r \in RepoIds : rs[r] # None => rs[r].group # g
      /\ \A h \in GroupIds : gs[h] # None => gs[h].parent # g
  BY <1>1, <1>2 DEF EmptyGroup, Groups, Repos
<1>10. /\ DOMAIN ng = GroupIds /\ ng \in [GroupIds -> GroupRow \cup {None}] /\ ng[g] = None
       /\ \A h \in GroupIds : h # g => ng[h] = gs[h]
       /\ DOMAIN gs = GroupIds
  <2>1. gs \in [GroupIds -> GroupRow \cup {None}] /\ DOMAIN gs = GroupIds
    <3>1. TreeOK(gs)
      BY <1>7
    <3> QED
      BY <3>1 DEF TreeOK
  <2> QED
    BY <1>5, <1>8, <2>1
<1>11. /\ NameOf(ng, None) = NameOf(gs, None)
       /\ \A h \in GroupIds : h # g => NameOf(ng, h) = NameOf(gs, h)
  BY <1>10, NoneFacts DEF NameOf
<1>12. /\ \A h \in GroupIds : gs[h] # None => gs[h].parent = None \/ (gs[h].parent \in GroupIds /\ gs[gs[h].parent] # None)
       /\ \A r \in RepoIds : rs[r] # None => rs[r].group = None \/ (rs[r].group \in GroupIds /\ gs[rs[r].group] # None)
  <2>1. \A h \in GroupIds : gs[h] # None => gs[h].parent = None \/ (gs[h].parent \in GroupIds /\ gs[gs[h].parent] # None)
    BY <1>7, GroupFacts
  <2>2. \A r \in RepoIds : rs[r] # None => rs[r].group = None \/ (rs[r].group \in GroupIds /\ gs[rs[r].group] # None)
    BY <1>7, RepoFacts
  <2> QED
    BY <2>1, <2>2
<1>13. TreeOK(ng)
  <2>1. \A h \in GroupIds : ng[h] # None /\ ng[h].parent # None => ng[ng[h].parent] # None
    BY <1>9, <1>10, <1>12
  <2>2. Unique(ng)
    <3>1. \A i, j \in GroupIds : i # j /\ gs[i] # None /\ gs[j] # None => gs[i].name # gs[j].name
      BY <1>7, <1>10 DEF TreeOK, Unique
    <3> QED
      BY <1>10, <3>1 DEF Unique
  <2>3. \A h \in GroupIds : gs[h] # None => gs[h].name = NameOf(gs, gs[h].parent) \o <<Own(gs[h].name)>>
    BY <1>7 DEF TreeOK
  <2>4. \A h \in GroupIds : gs[h] # None => NameOf(ng, gs[h].parent) = NameOf(gs, gs[h].parent)
    BY <1>9, <1>11, <1>12
  <2>5. \A h \in GroupIds : ng[h] # None => ng[h].name = NameOf(ng, ng[h].parent) \o <<Own(ng[h].name)>>
    BY <1>10, <2>3, <2>4
  <2> QED
    BY <1>10, <2>1, <2>2, <2>5 DEF TreeOK
<1>14. RowsOK(ng, rs)
  <2>1. \A r \in RepoIds : rs[r] # None /\ rs[r].group # None => ng[rs[r].group] # None
    BY <1>9, <1>10, <1>12
  <2> QED
    BY <1>7, <2>1 DEF RowsOK
<1>15. DiskOK(nd) /\ \A q \in DOMAIN d : ~Below(a, q) => q \in DOMAIN nd /\ nd[q] = d[q]
  BY <1>3, <1>6, <1>7, <1>8, ArchivedFacts
<1>16. ASSUME Settled(gs, rs, d)
       PROVE  Settled(ng, rs, nd)
  <2>1. /\ \A r \in RepoIds : rs[r] # None =>
             rs[r].name = NameOf(gs, rs[r].group) \o <<Own(rs[r].name)>>
        /\ \A h \in GroupIds : gs[h] # None => gs[h].name \in DOMAIN d /\ d[gs[h].name] = Plain
        /\ \A r \in RepoIds : rs[r] # None /\ rs[r].state = "created" =>
             /\ rs[r].name \in DOMAIN d
             /\ d[rs[r].name] = rs[r].data
             /\ d[rs[r].name] # Plain
    BY <1>16 DEF Settled
  <2>2. /\ \A h \in GroupIds : gs[h] # None /\ h # g => ~Below(a, gs[h].name)
        /\ \A r \in RepoIds : rs[r] # None /\ Below(a, rs[r].name) => a = rs[r].name
    <3>1. Settled(groups, repos, disk) /\ TreeOK(groups) /\ RowsOK(groups, repos)
      BY <1>1, <1>2, <1>3, <1>7, <1>16
    <3>2. /\ \A h \in Groups : h # g => ~Below(groups[g].name, groups[h].name)
          /\ \A r \in Repos : Below(groups[g].name, repos[r].name) => groups[g].name = repos[r].name
      BY <3>1, NothingUnderEmpty
    <3> QED
      BY <1>1, <1>2, <1>4, <3>2 DEF Groups, Repos
  <2>3. \A r \in RepoIds : rs[r] # None => rs[r].name = NameOf(ng, rs[r].group) \o <<Own(rs[r].name)>>
    <3>1. \A r \in RepoIds : rs[r] # None => NameOf(ng, rs[r].group) = NameOf(gs, rs[r].group)
      BY <1>9, <1>11, <1>12
    <3> QED
      BY <2>1, <3>1
  <2>4. \A h \in GroupIds : ng[h] # None => ng[h].name \in DOMAIN nd /\ nd[ng[h].name] = Plain
    BY <1>10, <1>15, <2>1, <2>2
  <2>5. \A r \in RepoIds : rs[r] # None /\ rs[r].state = "created" =>
          rs[r].name \in DOMAIN nd /\ nd[rs[r].name] = rs[r].data /\ nd[rs[r].name] # Plain
    <3>1. d[a] = Plain
      BY <1>4, <1>8, <2>1
    <3>2. \A r \in RepoIds : rs[r] # None /\ rs[r].state = "created" => ~Below(a, rs[r].name)
      BY <2>1, <2>2, <3>1
    <3> QED
      BY <1>15, <2>1, <3>2
  <2> QED
    BY <2>3, <2>4, <2>5 DEF Settled
<1>17. disk' = nd /\ tasks' = tasks /\ scan' = scan /\ Commit(ng, rs)
  BY <1>1, <1>2, <1>4, <1>5, <1>6 DEF RemoveGroup
<1>18. CASE groups' = ng /\ repos' = rs /\ suspect' = suspect
  BY <1>7, <1>13, <1>14, <1>15, <1>16, <1>17, <1>18 DEF Inv
<1>19. CASE suspect' = TRUE /\ groups' = gs /\ repos' = rs
  BY <1>7, <1>15, <1>17, <1>19 DEF Inv
<1> QED
  BY <1>1, <1>2, <1>17, <1>18, <1>19 DEF Commit

\* A delete that fails has taken the directory of the group, and that is known.
LEMMA DeleteGroupViaApiKeeps ==
  ASSUME Inv, NEW g \in GroupIds, DeleteGroupViaApi(g)
  PROVE  Inv'
<1>1. g \in Groups
  BY DEF DeleteGroupViaApi
<1>2. CASE EmptyGroup(g)
  BY <1>1, <1>2, RemoveGroupKeeps DEF DeleteGroupViaApi
<1>3. CASE ~EmptyGroup(g)
  <2>1. PICK a : a = groups[g].name
    OBVIOUS
  <2>2. a \in Path
    BY <1>1, <2>1, TreeIs, ParentFacts DEF Inv
  <2>3. DiskOK(Archived(a))
    BY <2>2, ArchivedFacts DEF Inv
  <2>4. /\ disk' = Archived(a) /\ suspect' = TRUE
        /\ groups' = groups /\ repos' = repos /\ tasks' = tasks /\ scan' = scan
    BY <1>3, <2>1 DEF DeleteGroupViaApi
  <2> QED
    BY <2>3, <2>4 DEF Inv
<1> QED
  BY <1>2, <1>3

\* Requests about groups.
LEMMA GroupRequestKeeps ==
  ASSUME Inv, GroupRequest
  PROVE  Inv'
<1>1. TreeOK(groups) /\ Tree
  BY TreeIs DEF Inv
<1>2. PICK g \in GroupIds :
        \/ DeleteGroup(g)
        \/ DeleteGroupViaApi(g)
        \/ \E own \in Names : UpdateGroupViaApi(g, own)
        \/ \E parent \in Groups \cup {None}, own \in Names :
             \/ CreateGroup(g, parent, own) \/ UpdateGroup(g, parent, own)
             \/ CreateGroupViaApi(g, parent, own)
  BY DEF GroupRequest
<1>3. CASE DeleteGroup(g)
  BY <1>3, RemoveGroupKeeps DEF DeleteGroup
<1>4. CASE DeleteGroupViaApi(g)
  BY <1>4, DeleteGroupViaApiKeeps
<1>5. CASE \E own \in Names : UpdateGroupViaApi(g, own)
  <2>1. PICK own \in Names : g \in Groups /\ ChangeGroup(g, groups[g].parent, own)
    BY <1>5 DEF UpdateGroupViaApi
  <2>2. PICK parent : parent = groups[g].parent
    OBVIOUS
  <2>3. parent \in Groups \cup {None}
    BY <1>1, <2>1, <2>2, ParentFacts
  <2>4. parent \notin GroupsBelow(g)
    <3>1. SUFFICES ASSUME parent \in Groups PROVE parent \notin GroupsBelow(g)
      BY DEF GroupsBelow
    <3>2. PICK f : f = groups[parent].name
      OBVIOUS
    <3>3. PICK a : a = groups[g].name
      OBVIOUS
    <3>4. a \in Path /\ f \in Path /\ Len(a) = Len(f) + 1
      BY <1>1, <2>1, <2>2, <3>1, <3>2, <3>3, ParentFacts, NoneFacts
    <3>5. Below(a, f) => Len(a) <= Len(f)
      BY <3>4, PrefixIff DEF Below, Path, PathOrRoot
    <3>6. ~Below(a, f)
      BY <3>4, <3>5, PathFacts
    <3> QED
      BY <1>1, <2>1, <3>1, <3>2, <3>3, <3>6, GroupsBelowAre
  <2> QED
    BY <2>1, <2>2, <2>3, <2>4, ChangeGroupKeeps
<1>6. CASE \E parent \in Groups \cup {None}, own \in Names :
             \/ CreateGroup(g, parent, own) \/ UpdateGroup(g, parent, own)
             \/ CreateGroupViaApi(g, parent, own)
  <2>1. PICK parent \in Groups \cup {None}, own \in Names :
             \/ CreateGroup(g, parent, own) \/ UpdateGroup(g, parent, own)
             \/ CreateGroupViaApi(g, parent, own)
    BY <1>6
  <2>2. CASE UpdateGroup(g, parent, own)
    BY <2>1, <2>2, ChangeGroupKeeps DEF UpdateGroup
  <2>3. CASE AddGroup(g, parent, own)
    BY <2>1, <2>3, AddGroupKeeps
  <2> QED
    BY <2>1, <2>2, <2>3 DEF CreateGroup, CreateGroupViaApi
<1> QED
  BY <1>2, <1>3, <1>4, <1>5, <1>6

-----------------------------------------------------------------------------
(* Repositories that are removed                                           *)

\* The forks that go with a repository are rows of repositories.
LEMMA WithForksAre ==
  ASSUME NEW r \in Repos
  PROVE  WithForks(r) \subseteq Repos
<1>1. PICK n : n = Cardinality(RepoIds)
  OBVIOUS
<1>2. n \in Nat
  BY <1>1, NoneFacts, FS_CardinalityType
<1>3. PICK D : D = SUBSET Repos
  OBVIOUS
<1> DEFINE F(w) == [k \in 0 .. n |-> IF k = 0 THEN {r}
                      ELSE w[k - 1] \cup UNION {Forks(s) : s \in w[k - 1]}]
           step == [A \in D |-> A \cup UNION {Forks(s) : s \in A}]
<1>4. \A s : Forks(s) \subseteq Repos
  BY DEF Forks
<1>5. step \in [D -> D] /\ {r} \in D
  <2>1. ASSUME NEW A \in D
        PROVE  A \cup UNION {Forks(s) : s \in A} \in D
    <3>1. UNION {Forks(s) : s \in A} \subseteq Repos
      BY <1>4
    <3> QED
      BY <1>3, <3>1
  <2> QED
    BY <1>3, <2>1
<1>6. PICK f \in [0 .. n -> D] : \A k \in 0 .. n : f[k] = IF k = 0 THEN {r} ELSE step[f[k - 1]]
  <2> HIDE DEF step
  <2> QED
    BY <1>2, <1>5, Iterates
<1>7. \A k \in 0 .. n : k # 0 => k - 1 \in 0 .. n
  BY <1>2
<1>8. f = F(f)
  <2>1. \A k \in 0 .. n : f[k] = F(f)[k]
    BY <1>6, <1>7
  <2> QED
    BY <1>6, <2>1
<1> DEFINE with == CHOOSE w : w = F(w)
<1>9. with = F(with)
  <2> HIDE DEF F
  <2> QED
    BY <1>8, Zenon
<1>10. WithForks(r) = with[n]
  BY <1>1, Zenon DEF WithForks
<1> HIDE DEF with
<1>11. \A k \in 0 .. n : with[k] = IF k = 0 THEN {r}
                           ELSE with[k - 1] \cup UNION {Forks(s) : s \in with[k - 1]}
  BY <1>9
<1> HIDE DEF F, step
<1>12. PICK bad : bad = {k \in 0 .. n : ~(with[k] \subseteq Repos)}
  OBVIOUS
<1>13. ASSUME bad # {} PROVE FALSE
  <2>1. PICK k \in bad : \A j \in bad : k <= j
    <3>1. bad \subseteq Nat
      BY <1>2, <1>12
    <3> QED
      BY <1>13, <3>1, LeastNatural
  <2>2. k \in 0 .. n /\ ~(with[k] \subseteq Repos)
    BY <1>12
  <2>3. k # 0
    BY <1>11, <2>2
  <2>4. with[k - 1] \subseteq Repos
    <3>1. k - 1 \in 0 .. n /\ ~(k <= k - 1)
      BY <1>2, <1>7, <2>2, <2>3
    <3> QED
      BY <1>12, <2>1, <3>1
  <2>5. with[k] = with[k - 1] \cup UNION {Forks(s) : s \in with[k - 1]}
    BY <1>11, <2>2, <2>3
  <2>6. UNION {Forks(s) : s \in with[k - 1]} \subseteq Repos
    BY <1>4
  <2> QED
    BY <2>2, <2>4, <2>5, <2>6
<1>14. n \in 0 .. n
  BY <1>2
<1> QED
  BY <1>10, <1>12, <1>13, <1>14

\* The rows that stay keep everything but the mention of a row that is gone.
LEMMA WithoutFacts ==
  ASSUME RowsOK(groups, repos), NEW gone \in SUBSET RepoIds, NEW nr, nr = Without(gone)
  PROVE  /\ RowsOK(groups, nr)
         /\ \A s \in RepoIds : nr[s] = None <=> s \in gone \/ repos[s] = None
         /\ \A s \in RepoIds : nr[s] # None =>
              /\ nr[s].name = repos[s].name /\ nr[s].group = repos[s].group
              /\ nr[s].state = repos[s].state /\ nr[s].data = repos[s].data
<1>1. PICK rs : rs = repos
  OBVIOUS
<1>2. PICK gs : gs = groups
  OBVIOUS
<1>3. /\ DOMAIN nr = RepoIds
      /\ \A s \in RepoIds : nr[s] =
           IF s \in gone \/ rs[s] = None THEN None
           ELSE IF rs[s].fork \in gone THEN [rs[s] EXCEPT !.fork = None] ELSE rs[s]
  BY <1>1 DEF Without
<1>4. \A s \in RepoIds : rs[s] # None =>
        /\ rs[s] \in RepoRow
        /\ rs[s].group = None \/ (rs[s].group \in GroupIds /\ gs[rs[s].group] # None)
        /\ rs[s].fork = None \/ (rs[s].fork \in RepoIds /\ rs[rs[s].fork] # None)
  BY <1>1, <1>2, RepoFacts
<1>5. \A row \in RepoRow : /\ [row EXCEPT !.fork = None] \in RepoRow
                           /\ [row EXCEPT !.fork = None].name = row.name
                           /\ [row EXCEPT !.fork = None].group = row.group
                           /\ [row EXCEPT !.fork = None].fork = None
                           /\ [row EXCEPT !.fork = None].state = row.state
                           /\ [row EXCEPT !.fork = None].data = row.data
  BY DEF RepoRow
<1>6. ASSUME NEW s \in RepoIds, s \notin gone, rs[s] # None
      PROVE  /\ nr[s] \in RepoRow
             /\ nr[s].name = rs[s].name /\ nr[s].group = rs[s].group
             /\ nr[s].fork = IF rs[s].fork \in gone THEN None ELSE rs[s].fork
             /\ nr[s].state = rs[s].state /\ nr[s].data = rs[s].data
  <2>1. PICK row : row = rs[s]
    OBVIOUS
  <2>2. row \in RepoRow
    BY <1>4, <1>6, <2>1
  <2>3. nr[s] = IF row.fork \in gone THEN [row EXCEPT !.fork = None] ELSE row
    BY <1>3, <1>6, <2>1
  <2> QED
    BY <1>5, <2>1, <2>2, <2>3
<1>7. \A s \in RepoIds : nr[s] = None <=> s \in gone \/ rs[s] = None
  BY <1>3, <1>6, NoneFacts
<1>8. RowsOK(gs, nr)
  <2>1. nr \in [RepoIds -> RepoRow \cup {None}]
    <3>1. \A s \in RepoIds : nr[s] \in RepoRow \cup {None}
      BY <1>6, <1>7
    <3>2. nr = [s \in RepoIds |-> nr[s]]
      BY DEF Without
    <3> QED
      BY <3>1, <3>2
  <2>2. \A s \in RepoIds : nr[s] # None /\ nr[s].group # None => gs[nr[s].group] # None
    BY <1>4, <1>6, <1>7
  <2>3. \A s \in RepoIds : nr[s] # None /\ nr[s].fork # None => nr[nr[s].fork] # None
    BY <1>4, <1>6, <1>7
  <2>4. Unique(nr)
    <3>1. \A s, q \in RepoIds : rs[s] # None /\ rs[q] # None /\ rs[s].name = rs[q].name => s = q
      BY <1>1, RepoFacts
    <3> QED
      BY <1>3, <1>6, <1>7, <3>1 DEF Unique
  <2> QED
    BY <2>1, <2>2, <2>3, <2>4 DEF RowsOK
<1> QED
  BY <1>1, <1>2, <1>6, <1>7, <1>8

\* Rows that are removed with what their names lead to, if it was theirs, leave
\* everything else as it was.
LEMMA WithoutSettled ==
  ASSUME TreeOK(groups), RowsOK(groups, repos), DiskOK(disk), Settled(groups, repos, disk),
         NEW gone \in SUBSET Repos, \A s \in gone : ~TakesAnother(s),
         NEW nr, nr = Without(gone),
         NEW nd, nd = [q \in {q \in DOMAIN disk : \A s \in gone : ~Below(repos[s].name, q)} |-> disk[q]]
  PROVE  Settled(groups, nr, nd)
<1>1. PICK gs : gs = groups
  OBVIOUS
<1>2. PICK rs : rs = repos
  OBVIOUS
<1>3. PICK d : d = disk
  OBVIOUS
<1>4. gone \subseteq RepoIds /\ \A s \in gone : rs[s] # None
  BY <1>2 DEF Repos
<1>5. ASSUME NEW s \in gone, NEW q \in DOMAIN d, Below(rs[s].name, q)
      PROVE  /\ \A h \in GroupIds : gs[h] # None => gs[h].name # q
             /\ \A r \in RepoIds : rs[r] # None /\ rs[r].name = q => r = s
  <2>1. PICK n : n = rs[s].name
    OBVIOUS
  <2>2. n \in DOMAIN d
    <3>1. Prefixes(q) \subseteq DOMAIN d
      BY <1>3 DEF DiskOK
    <3> QED
      BY <1>5, <2>1, <3>1 DEF Below
  <2>3. d[n] # Plain
    <3>1. d[n] = DataOf(s)
      BY <1>2, <1>3, <2>1, <2>2 DEF TakesAnother, IsDir
    <3>2. CASE rs[s].state = "created"
      <4>1. d[n] # Plain
        BY <1>1, <1>2, <1>3, <1>4, <2>1, <3>2 DEF Settled
      <4> QED
        BY <4>1
    <3>3. CASE rs[s].state # "created"
      BY <1>2, <1>4, <3>1, <3>3, NoneFacts DEF DataOf
    <3> QED
      BY <3>2, <3>3
  <2>4. /\ \A h \in Groups : ~Below(n, groups[h].name)
        /\ \A r \in Repos : Below(n, repos[r].name) => n = repos[r].name
    BY <1>3, <2>2, <2>3, NothingUnderRepos
  <2>5. \A h \in GroupIds : gs[h] # None => gs[h].name # q
    BY <1>1, <1>5, <2>1, <2>4 DEF Groups
  <2>6. \A r \in RepoIds : rs[r] # None /\ rs[r].name = q => r = s
    <3>1. \A r \in RepoIds : rs[r] # None /\ rs[r].name = rs[s].name => r = s
      BY <1>2, <1>4, RepoFacts
    <3> QED
      BY <1>2, <1>5, <2>1, <2>4, <3>1 DEF Repos
  <2> QED
    BY <2>5, <2>6
<1>6. /\ \A r \in RepoIds : rs[r] # None =>
           rs[r].name = NameOf(gs, rs[r].group) \o <<Own(rs[r].name)>>
      /\ \A h \in GroupIds : gs[h] # None => gs[h].name \in DOMAIN d /\ d[gs[h].name] = Plain
      /\ \A r \in RepoIds : rs[r] # None /\ rs[r].state = "created" =>
           /\ rs[r].name \in DOMAIN d
           /\ d[rs[r].name] = rs[r].data
           /\ d[rs[r].name] # Plain
  BY <1>1, <1>2, <1>3 DEF Settled
<1>7. /\ \A s \in RepoIds : nr[s] = None <=> s \in gone \/ rs[s] = None
      /\ \A s \in RepoIds : nr[s] # None =>
           /\ nr[s].name = rs[s].name /\ nr[s].group = rs[s].group
           /\ nr[s].state = rs[s].state /\ nr[s].data = rs[s].data
  BY <1>2, <1>4, WithoutFacts
<1>8. /\ DOMAIN nd = {q \in DOMAIN d : \A s \in gone : ~Below(rs[s].name, q)}
      /\ \A q \in DOMAIN nd : nd[q] = d[q]
  BY <1>2, <1>3
<1>9. \A h \in GroupIds : gs[h] # None => gs[h].name \in DOMAIN nd /\ nd[gs[h].name] = Plain
  BY <1>5, <1>6, <1>8
<1>10. \A r \in RepoIds : nr[r] # None /\ nr[r].state = "created" =>
         nr[r].name \in DOMAIN nd /\ nd[nr[r].name] = nr[r].data /\ nd[nr[r].name] # Plain
  <2>1. SUFFICES ASSUME NEW r \in RepoIds, nr[r] # None, nr[r].state = "created"
                 PROVE  nr[r].name \in DOMAIN nd /\ nd[nr[r].name] = nr[r].data /\ nd[nr[r].name] # Plain
    OBVIOUS
  <2>2. /\ r \notin gone /\ rs[r] # None /\ rs[r].state = "created"
        /\ nr[r].name = rs[r].name /\ nr[r].data = rs[r].data
    BY <1>7, <2>1
  <2>3. rs[r].name \in DOMAIN d /\ d[rs[r].name] = rs[r].data /\ d[rs[r].name] # Plain
    BY <1>6, <2>2
  <2>4. rs[r].name \in DOMAIN nd
    BY <1>5, <1>8, <2>2, <2>3
  <2> QED
    BY <1>8, <2>2, <2>3, <2>4
<1>11. \A r \in RepoIds : nr[r] # None => nr[r].name = NameOf(gs, nr[r].group) \o <<Own(nr[r].name)>>
  BY <1>6, <1>7
<1> QED
  BY <1>1, <1>9, <1>10, <1>11 DEF Settled

\* What the removal of some rows leaves of the directories.
LEMMA WithoutDirectories ==
  ASSUME RowsOK(groups, repos), DiskOK(disk), NEW gone \in SUBSET Repos
  PROVE  DiskOK([q \in {q \in DOMAIN disk : \A s \in gone : ~Below(repos[s].name, q)} |-> disk[q]])
<1>1. PICK taken : taken = {repos[s].name : s \in gone}
  OBVIOUS
<1>2. taken \in SUBSET Path
  BY <1>1, RepoFacts DEF Repos
<1>3. {q \in DOMAIN disk : \A p \in taken : ~Below(p, q)}
        = {q \in DOMAIN disk : \A s \in gone : ~Below(repos[s].name, q)}
  BY <1>1
<1>4. DiskOK([q \in {q \in DOMAIN disk : \A p \in taken : ~Below(p, q)} |-> disk[q]])
  BY <1>2, KeptFacts
<1> QED
  BY <1>3, <1>4

\* A repository is removed, with its forks or without them.
LEMMA RemoveRepoKeeps ==
  ASSUME Inv, NEW r \in RepoIds, NEW forks, RemoveRepo(r, forks)
  PROVE  Inv'
<1>1. PICK gone : gone = IF forks = "delete" THEN WithForks(r) ELSE {r}
  OBVIOUS
<1>2. PICK nr : nr = Without(gone)
  OBVIOUS
<1>3. PICK nd : nd = [q \in {q \in DOMAIN disk : \A s \in gone : ~Below(repos[s].name, q)} |-> disk[q]]
  OBVIOUS
<1>4. /\ r \in Repos /\ disk' = nd /\ tasks' = tasks /\ scan' = scan
      /\ IF \E s \in gone : TakesAnother(s)
         THEN suspect' = TRUE /\ repos' \in {repos, nr} /\ groups' = groups
         ELSE Commit(groups, nr)
  BY <1>1, <1>2, <1>3 DEF RemoveRepo
<1>5. gone \in SUBSET Repos /\ gone \in SUBSET RepoIds
  BY <1>1, <1>4, WithForksAre DEF Repos
<1>6. TreeOK(groups) /\ RowsOK(groups, repos) /\ DiskOK(disk) /\ (~suspect => Settled(groups, repos, disk))
  BY DEF Inv
<1>7. DiskOK(nd)
  BY <1>3, <1>5, <1>6, WithoutDirectories
<1>8. RowsOK(groups, nr)
  BY <1>2, <1>5, <1>6, WithoutFacts
<1>9. CASE suspect' = TRUE /\ repos' \in {repos, nr} /\ groups' = groups
  BY <1>4, <1>6, <1>7, <1>8, <1>9 DEF Inv
<1>10. CASE (\A s \in gone : ~TakesAnother(s)) /\ groups' = groups /\ repos' = nr /\ suspect' = suspect
  <2>1. Settled(groups, repos, disk) => Settled(groups, nr, nd)
    BY <1>2, <1>3, <1>5, <1>6, <1>10, WithoutSettled
  <2> QED
    BY <1>4, <1>6, <1>7, <1>8, <1>10, <2>1 DEF Inv
<1> QED
  BY <1>4, <1>9, <1>10 DEF Commit

\* Tasks are changed one at a time.
LEMMA EndedTask ==
  ASSUME TasksOK(tasks), NEW t \in Tasks, Ended(t)
  PROVE  TasksOK(tasks')
<1>1. PICK ts : ts = tasks
  OBVIOUS
<1>2. PICK nt : nt = [ts EXCEPT ![t] = None]
  OBVIOUS
<1>3. /\ ts \in [Tasks -> TaskRow \cup {None}]
      /\ \A u \in Tasks : ts[u] # None /\ ts[u].at # "queued" => ts[u].repo \in RepoIds
  BY <1>1 DEF TasksOK
<1>4. /\ nt \in [Tasks -> TaskRow \cup {None}]
      /\ \A u \in Tasks : nt[u] # None => nt[u] = ts[u]
  BY <1>2, <1>3
<1>5. TasksOK(nt)
  BY <1>3, <1>4 DEF TasksOK
<1> QED
  BY <1>1, <1>2, <1>5 DEF Ended

\* The clean-up takes the row that has the name, and what the name leads to.
LEMMA CleanUpKeeps ==
  ASSUME Inv, NEW t \in Tasks, tasks[t] # None, CleanUp(t)
  PROVE  Inv'
<1>1. TreeOK(groups) /\ RowsOK(groups, repos) /\ DiskOK(disk) /\ (~suspect => Settled(groups, repos, disk))
  BY DEF Inv
<1>2. TasksOK(tasks') /\ groups' = groups /\ scan' = scan
  BY EndedTask DEF CleanUp, Inv
<1>3. CASE RepoNamed(tasks[t].full) = {}
  BY <1>1, <1>2, <1>3 DEF CleanUp, Inv
<1>4. CASE RepoNamed(tasks[t].full) # {}
  <2>1. PICK r \in Repos : repos[r].name = tasks[t].full /\ r \in RepoNamed(tasks[t].full)
    BY <1>4 DEF RepoNamed
  <2>2. PICK gone : gone = {r}
    OBVIOUS
  <2>3. PICK nr : nr = Without(gone)
    OBVIOUS
  <2>4. PICK nd : nd = [q \in {q \in DOMAIN disk : \A s \in gone : ~Below(repos[s].name, q)} |-> disk[q]]
    OBVIOUS
  <2>5. nd = Archived(tasks[t].full)
    <3>1. {q \in DOMAIN disk : \A s \in gone : ~Below(repos[s].name, q)}
            = {q \in DOMAIN disk : ~Below(tasks[t].full, q)}
      BY <2>1, <2>2
    <3> QED
      BY <2>4, <3>1 DEF Archived
  <2>6. repos' = nr /\ disk' = nd /\ suspect' = (suspect \/ TakesAnother(r))
    BY <2>1, <2>2, <2>3, <2>5 DEF CleanUp
  <2>7. gone \in SUBSET Repos /\ gone \in SUBSET RepoIds
    BY <2>2 DEF Repos
  <2>8. DiskOK(nd)
    BY <1>1, <2>4, <2>7, WithoutDirectories
  <2>9. RowsOK(groups, nr)
    BY <1>1, <2>3, <2>7, WithoutFacts
  <2>10. ~TakesAnother(r) /\ Settled(groups, repos, disk) => Settled(groups, nr, nd)
    <3>1. ~TakesAnother(r) => \A s \in gone : ~TakesAnother(s)
      BY <2>2
    <3> QED
      BY <1>1, <2>3, <2>4, <2>7, <3>1, WithoutSettled
  <2>11. suspect \in BOOLEAN /\ (scan # None => scan \subseteq Path) /\ suspect' \in BOOLEAN
    BY <2>6 DEF Inv
  <2>12. ~suspect' => Settled(groups, nr, nd)
    BY <1>1, <2>6, <2>10
  <2> QED
    BY <1>1, <1>2, <2>6, <2>8, <2>9, <2>11, <2>12 DEF Inv
<1> QED
  BY <1>3, <1>4

-----------------------------------------------------------------------------
(* Repositories that are changed or created                                *)

\* The rows of repositories after one of them was put into a group.
Changed(r, group, name) == [repos EXCEPT ![r].name = name, ![r].group = group]

\* That row refers to the group, and the others are what they were.
LEMMA ChangedRepo ==
  ASSUME RowsOK(groups, repos), NEW r \in Repos, NEW group \in Groups \cup {None}, NEW name \in Path,
         NEW nr, nr = Changed(r, group, name)
  PROVE  /\ nr \in [RepoIds -> RepoRow \cup {None}]
         /\ \A s \in RepoIds : s # r => nr[s] = repos[s]
         /\ nr[r] # None /\ nr[r].name = name /\ nr[r].group = group
         /\ nr[r].fork = repos[r].fork /\ nr[r].state = repos[r].state /\ nr[r].data = repos[r].data
         /\ Unique(nr) => RowsOK(groups, nr)
<1>1. PICK rs : rs = repos
  OBVIOUS
<1>2. PICK gs : gs = groups
  OBVIOUS
<1>3. PICK row : row = rs[r]
  OBVIOUS
<1>4. PICK new : new = [row EXCEPT !.name = name, !.group = group]
  OBVIOUS
<1>5. /\ r \in RepoIds /\ rs[r] # None /\ DOMAIN rs = RepoIds /\ rs \in [RepoIds -> RepoRow \cup {None}]
      /\ \A s \in RepoIds : rs[s] # None =>
           /\ rs[s].group = None \/ (rs[s].group \in GroupIds /\ gs[rs[s].group] # None)
           /\ rs[s].fork = None \/ (rs[s].fork \in RepoIds /\ rs[rs[s].fork] # None)
  BY <1>1, <1>2, RepoFacts DEF Repos
<1>6. row \in RepoRow
  BY <1>3, <1>5
<1>7. group \in GroupIds \cup {None} /\ (group # None => gs[group] # None)
  BY <1>2 DEF Groups
<1>8. /\ new \in RepoRow /\ new.name = name /\ new.group = group
      /\ new.fork = row.fork /\ new.state = row.state /\ new.data = row.data
  BY <1>4, <1>6, <1>7 DEF RepoRow
<1>9. nr = [rs EXCEPT ![r] = new]
  BY <1>1, <1>3, <1>4, <1>5 DEF Changed
<1>10. /\ nr \in [RepoIds -> RepoRow \cup {None}] /\ nr[r] = new
       /\ \A s \in RepoIds : s # r => nr[s] = rs[s]
  <2>1. r \in RepoIds /\ rs \in [RepoIds -> RepoRow \cup {None}] /\ new \in RepoRow
    BY <1>5, <1>8
  <2> QED
    BY <1>9, <2>1
<1>11. new # None
  BY <1>8, NoneFacts
<1>12. Unique(nr) => RowsOK(gs, nr)
  <2>1. \A s \in RepoIds : nr[s] # None /\ nr[s].group # None => gs[nr[s].group] # None
    BY <1>5, <1>7, <1>8, <1>10
  <2>2. \A s \in RepoIds : nr[s] # None /\ nr[s].fork # None => nr[nr[s].fork] # None
    <3>1. \A s \in RepoIds : nr[s] # None <=> rs[s] # None
      BY <1>5, <1>10, <1>11
    <3>2. \A s \in RepoIds : nr[s].fork = rs[s].fork
      BY <1>3, <1>8, <1>10
    <3> QED
      BY <1>5, <3>1, <3>2
  <2> QED
    BY <1>10, <2>1, <2>2 DEF RowsOK
<1> QED
  BY <1>1, <1>2, <1>3, <1>8, <1>10, <1>11, <1>12

\* A row whose name is taken to where its directory goes, if that is its own,
\* is where its group is, and nothing else has moved.
LEMMA ChangedSettled ==
  ASSUME TreeOK(groups), RowsOK(groups, repos), DiskOK(disk), Settled(groups, repos, disk),
         NEW r \in Repos, NEW group \in Groups \cup {None}, NEW own \in Names,
         NEW name, name = NewName(group, own),
         NEW nr, nr = Changed(r, group, name),
         NEW nd, IF name = repos[r].name THEN nd = disk
                 ELSE /\ CanMove(repos[r].name, name) /\ ~TakesAnother(r)
                      /\ nd = Moved(repos[r].name, name)
  PROVE  Settled(groups, nr, nd)
<1>1. PICK gs : gs = groups
  OBVIOUS
<1>2. PICK rs : rs = repos
  OBVIOUS
<1>3. PICK d : d = disk
  OBVIOUS
<1>4. PICK a : a = rs[r].name
  OBVIOUS
<1>5. /\ name \in Path /\ Own(name) = own /\ name = NameOf(gs, group) \o <<own>>
  BY <1>1, NameFacts
<1>6. /\ r \in RepoIds /\ rs[r] # None /\ a \in Path
      /\ \A s \in RepoIds : rs[s] # None /\ rs[s].name = a => s = r
  BY <1>2, <1>4, RepoFacts DEF Repos
<1>7. /\ \A s \in RepoIds : rs[s] # None =>
           rs[s].name = NameOf(gs, rs[s].group) \o <<Own(rs[s].name)>>
      /\ \A h \in GroupIds : gs[h] # None => gs[h].name \in DOMAIN d /\ d[gs[h].name] = Plain
      /\ \A s \in RepoIds : rs[s] # None /\ rs[s].state = "created" =>
           /\ rs[s].name \in DOMAIN d
           /\ d[rs[s].name] = rs[s].data
           /\ d[rs[s].name] # Plain
  BY <1>1, <1>2, <1>3 DEF Settled
<1>8. /\ \A s \in RepoIds : s # r => nr[s] = rs[s]
      /\ nr[r] # None /\ nr[r].name = name /\ nr[r].group = group
      /\ nr[r].state = rs[r].state /\ nr[r].data = rs[r].data
  <2>1. name \in Path /\ nr = Changed(r, group, name)
    BY <1>5
  <2>2. /\ \A s \in RepoIds : s # r => nr[s] = repos[s]
        /\ nr[r] # None /\ nr[r].name = name /\ nr[r].group = group
        /\ nr[r].state = repos[r].state /\ nr[r].data = repos[r].data
    BY <2>1, ChangedRepo
  <2> QED
    BY <1>2, <2>2
<1>9. /\ a \in DOMAIN d => name \in DOMAIN nd /\ nd[name] = d[a]
      /\ \A h \in GroupIds : gs[h] # None => gs[h].name \in DOMAIN nd /\ nd[gs[h].name] = d[gs[h].name]
      /\ \A s \in RepoIds : s # r /\ rs[s] # None /\ rs[s].state = "created" =>
           rs[s].name \in DOMAIN nd /\ nd[rs[s].name] = d[rs[s].name]
  <2>1. CASE name = a
    BY <1>2, <1>3, <1>4, <1>7, <2>1
  <2>2. CASE name # a
    <3>1. CanMove(a, name) /\ ~TakesAnother(r) /\ nd = Moved(a, name)
      BY <1>2, <1>4, <2>2
    <3>2. a \in DOMAIN d
      BY <1>3, <3>1 DEF CanMove, IsDir
    <3>3. d[a] # Plain
      <4>1. d[a] = DataOf(r)
        BY <1>2, <1>3, <1>4, <3>1, <3>2 DEF TakesAnother, IsDir
      <4>2. CASE rs[r].state = "created"
        BY <1>4, <1>6, <1>7, <4>2
      <4>3. CASE rs[r].state # "created"
        BY <1>2, <1>6, <4>1, <4>3, NoneFacts DEF DataOf
      <4> QED
        BY <4>2, <4>3
    <3>4. /\ \A h \in GroupIds : gs[h] # None => ~Below(a, gs[h].name)
          /\ \A s \in RepoIds : rs[s] # None /\ Below(a, rs[s].name) => s = r
      <4>1. /\ \A h \in Groups : ~Below(a, groups[h].name)
            /\ \A s \in Repos : Below(a, repos[s].name) => a = repos[s].name
        BY <1>3, <3>2, <3>3, NothingUnderRepos
      <4> QED
        BY <1>1, <1>2, <1>6, <4>1 DEF Groups, Repos
    <3>5. Follows(nd, d, a, name)
      <4>1. DiskOK(disk) /\ name \in Path /\ a \in Path
            /\ (IF name = a THEN nd = disk ELSE CanMove(a, name) /\ nd = Moved(a, name))
        BY <1>5, <1>6, <2>2, <3>1
      <4> QED
        BY <1>3, <4>1, FollowsMove
    <3>6. Below(a, a) /\ Rebased(a, a, name) = name
      BY <1>5, <1>6, BelowOrders, RebasedSame
    <3>7. name \in DOMAIN nd /\ nd[name] = d[a]
      BY <3>2, <3>5, <3>6 DEF Follows
    <3>8. \A q \in DOMAIN d : ~Below(a, q) => q \in DOMAIN nd /\ nd[q] = d[q]
      BY <3>5 DEF Follows
    <3> QED
      BY <1>7, <3>4, <3>7, <3>8
  <2> QED
    BY <2>1, <2>2
<1>10. \A s \in RepoIds : nr[s] # None => nr[s].name = NameOf(gs, nr[s].group) \o <<Own(nr[s].name)>>
  BY <1>5, <1>7, <1>8
<1>11. \A h \in GroupIds : gs[h] # None => gs[h].name \in DOMAIN nd /\ nd[gs[h].name] = Plain
  BY <1>7, <1>9
<1>12. ASSUME NEW s \in RepoIds, nr[s] # None, nr[s].state = "created"
       PROVE  nr[s].name \in DOMAIN nd /\ nd[nr[s].name] = nr[s].data /\ nd[nr[s].name] # Plain
  <2>1. CASE s = r
    <3>1. a \in DOMAIN d /\ d[a] = rs[r].data /\ d[a] # Plain
      BY <1>4, <1>6, <1>7, <1>8, <1>12, <2>1
    <3> QED
      BY <1>8, <1>9, <2>1, <3>1
  <2>2. CASE s # r
    <3>1. nr[s] = rs[s] /\ rs[s] # None /\ rs[s].state = "created"
      BY <1>8, <1>12, <2>2
    <3>2. rs[s].name \in DOMAIN nd /\ nd[rs[s].name] = d[rs[s].name]
      BY <1>9, <2>2, <3>1
    <3>3. d[rs[s].name] = rs[s].data /\ d[rs[s].name] # Plain
      BY <1>7, <3>1
    <3> QED
      BY <3>1, <3>2, <3>3
  <2> QED
    BY <2>1, <2>2
<1> QED
  BY <1>1, <1>10, <1>11, <1>12 DEF Settled

\* A repository is renamed or moved.
LEMMA ChangeRepoKeeps ==
  ASSUME Inv, NEW r \in Repos, NEW group \in Groups \cup {None}, NEW own \in Names,
         ChangeRepo(r, group, own)
  PROVE  Inv'
<1>1. PICK name : name = NewName(group, own)
  OBVIOUS
<1>2. PICK a : a = repos[r].name
  OBVIOUS
<1>3. PICK nr : nr = Changed(r, group, name)
  OBVIOUS
<1>4. PICK nd : nd = disk'
  OBVIOUS
<1>5. /\ IF name = a THEN nd = disk ELSE CanMove(a, name) /\ nd = Moved(a, name)
      /\ IF ~Unique(nr)
         THEN suspect' = TRUE /\ groups' = groups /\ repos' = repos
         ELSE IF name # a /\ TakesAnother(r)
         THEN suspect' = TRUE /\ repos' \in {repos, nr} /\ groups' = groups
         ELSE Commit(groups, nr)
      /\ tasks' = tasks /\ scan' = scan
  BY <1>1, <1>2, <1>3, <1>4 DEF ChangeRepo, Changed
<1>6. TreeOK(groups) /\ RowsOK(groups, repos) /\ DiskOK(disk) /\ (~suspect => Settled(groups, repos, disk))
  BY DEF Inv
<1>7. name \in Path /\ a \in Path
  <2>1. name \in Path
    BY <1>1, <1>6, NameFacts
  <2> QED
    BY <1>2, <1>6, <2>1, RepoFacts DEF Repos
<1>8. DiskOK(nd)
  BY <1>5, <1>6, <1>7, FollowsMove
<1>9. Unique(nr) => RowsOK(groups, nr)
  BY <1>3, <1>6, <1>7, ChangedRepo
<1>10. CASE suspect' = TRUE /\ groups' = groups /\ (repos' = repos \/ (Unique(nr) /\ repos' = nr))
  BY <1>4, <1>5, <1>6, <1>8, <1>9, <1>10 DEF Inv
<1>11. CASE /\ groups' = groups /\ repos' = nr /\ suspect' = suspect
            /\ Unique(nr) /\ ~(name # a /\ TakesAnother(r))
  <2>1. IF name = a THEN nd = disk ELSE CanMove(a, name) /\ ~TakesAnother(r) /\ nd = Moved(a, name)
    BY <1>5, <1>11
  <2>2. Settled(groups, repos, disk) => Settled(groups, nr, nd)
    BY <1>1, <1>2, <1>3, <1>6, <2>1, ChangedSettled
  <2> QED
    BY <1>4, <1>5, <1>6, <1>8, <1>9, <1>11, <2>2 DEF Inv
<1>12. \/ (suspect' = TRUE /\ groups' = groups /\ (repos' = repos \/ (Unique(nr) /\ repos' = nr)))
       \/ /\ groups' = groups /\ repos' = nr /\ suspect' = suspect
          /\ Unique(nr) /\ ~(name # a /\ TakesAnother(r))
  BY <1>5 DEF Commit
<1> QED
  BY <1>10, <1>11, <1>12

\* The creation of a repository is taken up.
LEMMA SubmitKeeps ==
  ASSUME Inv, NEW t \in Tasks, NEW group \in Groups \cup {None}, NEW own \in Names,
         NEW fork \in RepoIds \cup {None}, Submit(t, group, own, fork)
  PROVE  Inv'
<1>1. PICK full : full = NewName(group, own)
  OBVIOUS
<1>2. PICK ts : ts = tasks
  OBVIOUS
<1>3. PICK row : row = [at |-> "queued", own |-> own, full |-> full,
                        group |-> group, fork |-> fork, repo |-> None]
  OBVIOUS
<1>4. PICK nt : nt = [ts EXCEPT ![t] = row]
  OBVIOUS
<1>5. full \in Path
  BY <1>1, NameFacts DEF Inv
<1>6. row \in TaskRow /\ row.at = "queued"
  BY <1>3, <1>5 DEF TaskRow, Groups
<1>7. /\ ts \in [Tasks -> TaskRow \cup {None}]
      /\ \A u \in Tasks : ts[u] # None /\ ts[u].at # "queued" => ts[u].repo \in RepoIds
  BY <1>2 DEF Inv, TasksOK
<1>8. /\ nt \in [Tasks -> TaskRow \cup {None}] /\ nt[t] = row
      /\ \A u \in Tasks : u # t => nt[u] = ts[u]
  BY <1>4, <1>6, <1>7
<1>9. TasksOK(nt)
  BY <1>6, <1>7, <1>8 DEF TasksOK
<1>10. /\ tasks' = nt /\ groups' = groups /\ repos' = repos /\ disk' = disk
       /\ scan' = scan /\ suspect' = suspect
  BY <1>1, <1>2, <1>3, <1>4 DEF Submit
<1> QED
  BY <1>9, <1>10 DEF Inv

\* Requests about repositories.
LEMMA RepoRequestKeeps ==
  ASSUME Inv, RepoRequest
  PROVE  Inv'
<1>1. CASE \E r \in RepoIds, forks \in {None, "detach", "delete"} :
             DeleteRepo(r, forks) \/ DeleteRepoViaApi(r, forks)
  BY <1>1, RemoveRepoKeeps DEF DeleteRepo, DeleteRepoViaApi
<1>2. CASE \E group \in Groups \cup {None}, own \in Names, r \in RepoIds :
             UpdateRepo(r, group, own) \/ UpdateRepoViaApi(r, group, own)
  <2>1. PICK group \in Groups \cup {None}, own \in Names, r \in RepoIds :
             UpdateRepo(r, group, own) \/ UpdateRepoViaApi(r, group, own)
    BY <1>2
  <2>2. r \in Repos /\ ChangeRepo(r, group, own)
    BY <2>1 DEF UpdateRepo, UpdateRepoViaApi, Reached
  <2> QED
    BY <2>1, <2>2, ChangeRepoKeeps
<1>3. CASE \E group \in Groups \cup {None}, own \in Names, t \in Tasks :
             \/ SubmitRepo(t, group, own) \/ SubmitRepoViaApi(t, group, own)
             \/ \E source \in Repos :
                  SubmitFork(t, group, own, source) \/ SubmitForkViaApi(t, group, own, source)
  <2>1. PICK group \in Groups \cup {None}, own \in Names, t \in Tasks :
             \/ SubmitRepo(t, group, own) \/ SubmitRepoViaApi(t, group, own)
             \/ \E source \in Repos :
                  SubmitFork(t, group, own, source) \/ SubmitForkViaApi(t, group, own, source)
    BY <1>3
  <2>2. \E fork \in RepoIds \cup {None} : Submit(t, group, own, fork)
    BY <2>1 DEF SubmitRepo, SubmitRepoViaApi, SubmitFork, SubmitForkViaApi, Repos
  <2> QED
    BY <2>1, <2>2, SubmitKeeps
<1> QED
  BY <1>1, <1>2, <1>3 DEF RepoRequest

-----------------------------------------------------------------------------
(* The tasks that create repositories                                      *)

\* The row of a task.
LEMMA TaskFacts ==
  ASSUME TasksOK(tasks), NEW t \in Tasks, tasks[t] # None
  PROVE  /\ tasks[t] \in TaskRow /\ tasks[t].full \in Path /\ tasks[t].own \in Names
         /\ tasks[t].fork \in RepoIds \cup {None}
         /\ tasks[t].at # "queued" => tasks[t].repo \in RepoIds
         /\ Existing(tasks[t].group) \in Groups \cup {None}
<1>1. tasks[t] \in TaskRow
  BY DEF TasksOK
<1>2. \A row \in TaskRow : row.full \in Path /\ row.own \in Names /\ row.fork \in RepoIds \cup {None}
  BY DEF TaskRow
<1> QED
  BY <1>1, <1>2 DEF TasksOK, Existing

\* A task that goes on, with the repository that it creates.
LEMMA NextTask ==
  ASSUME TasksOK(tasks), NEW t \in Tasks, tasks[t] # None,
         NEW at \in {"row", "dir"}, NEW r \in RepoIds,
         NEW nt, nt = [tasks EXCEPT ![t] = [tasks[t] EXCEPT !.at = at, !.repo = r]]
  PROVE  TasksOK(nt)
<1>1. PICK row : row = tasks[t]
  OBVIOUS
<1>2. PICK new : new = [row EXCEPT !.at = at, !.repo = r]
  OBVIOUS
<1>3. PICK ts : ts = tasks
  OBVIOUS
<1>4. row \in TaskRow
  BY <1>1, TaskFacts
<1>5. new \in TaskRow /\ new.repo = r
  BY <1>2, <1>4 DEF TaskRow
<1>6. /\ ts \in [Tasks -> TaskRow \cup {None}]
      /\ \A u \in Tasks : ts[u] # None /\ ts[u].at # "queued" => ts[u].repo \in RepoIds
  BY <1>3 DEF TasksOK
<1>7. nt = [ts EXCEPT ![t] = new]
  BY <1>1, <1>2, <1>3
<1>8. /\ nt \in [Tasks -> TaskRow \cup {None}] /\ nt[t] = new
      /\ \A u \in Tasks : u # t => nt[u] = ts[u]
  BY <1>5, <1>6, <1>7
<1> QED
  BY <1>5, <1>6, <1>8 DEF TasksOK

\* A row is made under the name that the form made up; if the group's directory
\* is elsewhere by now, that is known.
LEMMA InsertRowKeeps ==
  ASSUME Inv, NEW t \in Tasks, NEW r \in RepoIds, InsertRow(t, r)
  PROVE  Inv'
<1>1. PICK full : full = tasks[t].full
  OBVIOUS
<1>2. PICK group : group = Existing(tasks[t].group)
  OBVIOUS
<1>3. PICK fork : fork = tasks[t].fork
  OBVIOUS
<1>4. PICK gs : gs = groups
  OBVIOUS
<1>5. PICK rs : rs = repos
  OBVIOUS
<1>6. PICK row : row = [name |-> full, group |-> group, fork |-> fork, state |-> "pending", data |-> None]
  OBVIOUS
<1>7. PICK nr : nr = [rs EXCEPT ![r] = row]
  OBVIOUS
<1>8. TreeOK(groups) /\ RowsOK(groups, repos) /\ DiskOK(disk) /\ (~suspect => Settled(groups, repos, disk))
      /\ TasksOK(tasks) /\ suspect \in BOOLEAN
  BY DEF Inv
<1>9. tasks[t] # None /\ suspect' = (suspect \/ Target(t) # full)
      /\ groups' = groups /\ disk' = disk /\ scan' = scan
  BY <1>1 DEF InsertRow
<1>10. CASE Ended(t) /\ repos' = repos
  <2>1. TasksOK(tasks')
    BY <1>8, <1>10, EndedTask
  <2> QED
    BY <1>8, <1>9, <1>10, <2>1 DEF Inv
<1>11. CASE /\ RepoNamed(full) = {} /\ Fresh(r)
            /\ repos' = nr
            /\ tasks' = [tasks EXCEPT ![t].at = "row", ![t].repo = r]
  <2>1. TasksOK(tasks')
    <3>1. PICK nt : nt = tasks'
      OBVIOUS
    <3>2. nt = [tasks EXCEPT ![t] = [tasks[t] EXCEPT !.at = "row", !.repo = r]]
      BY <1>11, <3>1
    <3>3. TasksOK(nt)
      BY <1>8, <1>9, <3>2, NextTask
    <3> QED
      BY <3>1, <3>3
  <2>2. /\ full \in Path /\ tasks[t].own \in Names
        /\ group = None \/ (group \in GroupIds /\ gs[group] # None)
        /\ fork = None \/ (fork \in RepoIds /\ rs[fork] # None)
    <3>1. /\ full \in Path /\ tasks[t].own \in Names
          /\ group \in Groups \cup {None} /\ fork \in RepoIds \cup {None}
      BY <1>1, <1>2, <1>3, <1>8, <1>9, TaskFacts
    <3>2. fork # None => fork \in Repos
      BY <1>3 DEF InsertRow
    <3> QED
      BY <1>4, <1>5, <3>1, <3>2 DEF Groups, Repos
  <2>3. /\ rs[r] = None
        /\ \A s \in RepoIds : rs[s] # None => rs[s].name # full
    BY <1>5, <1>11 DEF Fresh, RepoNamed, Repos
  <2>4. /\ row.name = full /\ row.group = group /\ row.fork = fork
        /\ row.state = "pending" /\ row \in RepoRow
    BY <1>6, <2>2 DEF RepoRow
  <2>5. row # None
    BY <2>4, NoneFacts
  <2>6. /\ rs \in [RepoIds -> RepoRow \cup {None}]
        /\ \A s \in RepoIds : rs[s] # None =>
             /\ rs[s].group = None \/ (rs[s].group \in GroupIds /\ gs[rs[s].group] # None)
             /\ rs[s].fork = None \/ (rs[s].fork \in RepoIds /\ rs[rs[s].fork] # None)
        /\ \A s, q \in RepoIds : rs[s] # None /\ rs[q] # None /\ rs[s].name = rs[q].name => s = q
    BY <1>4, <1>5, <1>8, RepoFacts
  <2>7. /\ nr \in [RepoIds -> RepoRow \cup {None}] /\ nr[r] = row /\ DOMAIN nr = RepoIds
        /\ \A s \in RepoIds : s # r => nr[s] = rs[s]
    BY <1>7, <2>4, <2>6
  <2>8. RowsOK(gs, nr)
    <3>1. \A s \in RepoIds : nr[s] # None /\ nr[s].group # None => gs[nr[s].group] # None
      BY <2>2, <2>4, <2>6, <2>7
    <3>2. \A s \in RepoIds : nr[s] # None /\ nr[s].fork # None => nr[nr[s].fork] # None
      BY <2>2, <2>3, <2>4, <2>5, <2>6, <2>7
    <3>3. Unique(nr)
      BY <2>3, <2>4, <2>6, <2>7 DEF Unique
    <3> QED
      BY <2>7, <3>1, <3>2, <3>3 DEF RowsOK
  <2>9. Target(t) = full /\ Settled(gs, rs, disk) => Settled(gs, nr, disk)
    <3>1. SUFFICES ASSUME Target(t) = full, Settled(gs, rs, disk)
                   PROVE  Settled(gs, nr, disk)
      OBVIOUS
    <3>2. full = NameOf(gs, group) \o <<Own(full)>>
      <4>1. group \in Groups \cup {None} /\ tasks[t].own \in Names
        BY <1>4, <2>2 DEF Groups
      <4>2. full = NewName(group, tasks[t].own)
        BY <1>2, <3>1 DEF Target
      <4> QED
        BY <1>4, <1>8, <4>1, <4>2, NameFacts
    <3>3. \A s \in RepoIds : nr[s] # None => nr[s].name = NameOf(gs, nr[s].group) \o <<Own(nr[s].name)>>
      BY <2>4, <2>7, <3>1, <3>2 DEF Settled
    <3>4. \A s \in RepoIds : nr[s] # None /\ nr[s].state = "created" =>
            nr[s].name \in DOMAIN disk /\ disk[nr[s].name] = nr[s].data /\ disk[nr[s].name] # Plain
      BY <2>4, <2>7, <3>1 DEF Settled
    <3> QED
      BY <3>1, <3>3, <3>4 DEF Settled
  <2>10. /\ suspect' \in BOOLEAN
         /\ ~suspect' => Settled(gs, nr, disk)
    BY <1>4, <1>5, <1>8, <1>9, <2>9
  <2> QED
    BY <1>4, <1>8, <1>9, <1>11, <2>1, <2>8, <2>10 DEF Inv
<1>12. \/ Ended(t) /\ repos' = repos
       \/ /\ RepoNamed(full) = {} /\ Fresh(r)
          /\ repos' = nr
          /\ tasks' = [tasks EXCEPT ![t].at = "row", ![t].repo = r]
  BY <1>1, <1>2, <1>3, <1>5, <1>6, <1>7 DEF InsertRow
<1> QED
  BY <1>10, <1>11, <1>12

\* A directory is made where there is none.
LEMMA MakeDirectoryKeeps ==
  ASSUME Inv, NEW t \in Tasks, MakeDirectory(t)
  PROVE  Inv'
<1>1. PICK p : p = Target(t)
  OBVIOUS
<1>2. PICK r : r = tasks[t].repo
  OBVIOUS
<1>3. PICK nd : nd = Made(p, r)
  OBVIOUS
<1>4. TreeOK(groups) /\ RowsOK(groups, repos) /\ DiskOK(disk) /\ (~suspect => Settled(groups, repos, disk))
      /\ TasksOK(tasks)
  BY DEF Inv
<1>5. /\ tasks[t] # None /\ tasks[t].at = "row" /\ ~IsDir(p)
      /\ disk' = nd /\ tasks' = [tasks EXCEPT ![t].at = "dir"]
      /\ groups' = groups /\ repos' = repos /\ scan' = scan /\ suspect' = suspect
  BY <1>1, <1>2, <1>3 DEF MakeDirectory
<1>6. /\ p \in Path /\ r \in RepoIds
  <2>1. tasks[t].own \in Names /\ Existing(tasks[t].group) \in Groups \cup {None} /\ r \in RepoIds
    BY <1>2, <1>4, <1>5, TaskFacts
  <2> QED
    BY <1>1, <1>4, <2>1, NameFacts DEF Target
<1>7. DiskOK(nd) /\ \A q \in DOMAIN disk : q \in DOMAIN nd /\ nd[q] = disk[q]
  <2>1. /\ DiskOK(Made(p, r))
        /\ \A q \in DOMAIN disk : q # p => q \in DOMAIN Made(p, r) /\ Made(p, r)[q] = disk[q]
    BY <1>4, <1>6, MadeFacts
  <2> QED
    BY <1>3, <1>5, <2>1 DEF IsDir
<1>8. TasksOK(tasks')
  <2>1. PICK nt : nt = tasks'
    OBVIOUS
  <2>2. [tasks[t] EXCEPT !.at = "dir"] = [tasks[t] EXCEPT !.at = "dir", !.repo = r]
    BY <1>2, <1>4, <1>5, TaskFacts DEF TaskRow
  <2>3. nt = [tasks EXCEPT ![t] = [tasks[t] EXCEPT !.at = "dir", !.repo = r]]
    BY <1>5, <2>1, <2>2
  <2>4. TasksOK(nt)
    BY <1>4, <1>5, <1>6, <2>3, NextTask
  <2> QED
    BY <2>1, <2>4
<1>9. Settled(groups, repos, disk) => Settled(groups, repos, nd)
  BY <1>7 DEF Settled
<1> QED
  BY <1>4, <1>5, <1>7, <1>8, <1>9 DEF Inv

\* A fork whose source is gone takes what has its name, and that is known.
LEMMA SourceGoneKeeps ==
  ASSUME Inv, NEW t \in Tasks, SourceGone(t)
  PROVE  Inv'
<1>1. PICK full : full = tasks[t].full
  OBVIOUS
<1>2. TreeOK(groups) /\ RowsOK(groups, repos) /\ DiskOK(disk) /\ (~suspect => Settled(groups, repos, disk))
      /\ TasksOK(tasks) /\ suspect \in BOOLEAN /\ (scan # None => scan \subseteq Path)
  BY DEF Inv
<1>3. /\ tasks[t] # None /\ Ended(t)
      /\ disk' = Archived(full) \/ disk' = disk
      /\ suspect' = (suspect \/ disk' # disk)
      /\ groups' = groups /\ repos' = repos /\ scan' = scan
  BY <1>1 DEF SourceGone
<1>4. TasksOK(tasks')
  BY <1>2, <1>3, EndedTask
<1>5. DiskOK(Archived(full))
  <2>1. full \in Path
    BY <1>1, <1>2, <1>3, TaskFacts
  <2> QED
    BY <1>2, <2>1, ArchivedFacts
<1>6. CASE disk' = disk
  BY <1>2, <1>3, <1>4, <1>6 DEF Inv
<1>7. CASE disk' # disk
  <2>1. disk' = Archived(full) /\ suspect' = TRUE
    BY <1>3, <1>7
  <2> QED
    BY <1>2, <1>3, <1>4, <1>5, <2>1 DEF Inv
<1> QED
  BY <1>6, <1>7

\* The row is given the repository that its name leads to.
LEMMA SetCreatedKeeps ==
  ASSUME Inv, NEW t \in Tasks, SetCreated(t)
  PROVE  Inv'
<1>1. PICK r \in RepoNamed(tasks[t].full) :
        repos' = [repos EXCEPT ![r].state = "created", ![r].data = disk[tasks[t].full]]
  BY DEF SetCreated
<1>2. PICK gs : gs = groups
  OBVIOUS
<1>3. PICK rs : rs = repos
  OBVIOUS
<1>4. PICK full : full = tasks[t].full
  OBVIOUS
<1>5. PICK what : what = disk[full]
  OBVIOUS
<1>6. PICK row : row = rs[r]
  OBVIOUS
<1>7. PICK new : new = [row EXCEPT !.state = "created", !.data = what]
  OBVIOUS
<1>8. PICK nr : nr = [rs EXCEPT ![r] = new]
  OBVIOUS
<1>9. TreeOK(groups) /\ RowsOK(groups, repos) /\ DiskOK(disk) /\ (~suspect => Settled(groups, repos, disk))
      /\ TasksOK(tasks) /\ suspect \in BOOLEAN /\ (scan # None => scan \subseteq Path)
  BY DEF Inv
<1>10. /\ tasks[t] # None /\ HoldsRepo(full) /\ Ended(t) /\ repos' = nr
       /\ groups' = groups /\ disk' = disk /\ scan' = scan /\ suspect' = suspect
  BY <1>1, <1>3, <1>4, <1>5, <1>6, <1>7, <1>8 DEF SetCreated
<1>11. TasksOK(tasks')
  BY <1>9, <1>10, EndedTask
<1>12. full \in DOMAIN disk /\ disk[full] = what /\ what # Plain /\ what \in RepoIds
  BY <1>5, <1>9, <1>10 DEF HoldsRepo, IsDir, DiskOK
<1>13. /\ rs \in [RepoIds -> RepoRow \cup {None}]
       /\ \A s \in RepoIds : rs[s] # None =>
            /\ rs[s].group = None \/ (rs[s].group \in GroupIds /\ gs[rs[s].group] # None)
            /\ rs[s].fork = None \/ (rs[s].fork \in RepoIds /\ rs[rs[s].fork] # None)
       /\ \A s, q \in RepoIds : rs[s] # None /\ rs[q] # None /\ rs[s].name = rs[q].name => s = q
  BY <1>2, <1>3, <1>9, RepoFacts
<1>14. r \in RepoIds /\ rs[r] # None /\ rs[r].name = full /\ row \in RepoRow
  <2>1. r \in RepoIds /\ rs[r] # None /\ rs[r].name = full
    BY <1>1, <1>3, <1>4 DEF RepoNamed, Repos
  <2> QED
    BY <1>6, <1>13, <2>1
<1>15. /\ new \in RepoRow /\ new.name = full /\ new.group = row.group /\ new.fork = row.fork
       /\ new.state = "created" /\ new.data = what
  BY <1>6, <1>7, <1>12, <1>14 DEF RepoRow
<1>16. new # None
  BY <1>15, NoneFacts
<1>17. /\ nr \in [RepoIds -> RepoRow \cup {None}] /\ nr[r] = new
       /\ \A s \in RepoIds : s # r => nr[s] = rs[s]
  BY <1>8, <1>13, <1>14, <1>15
<1>18. /\ DOMAIN nr = RepoIds
       /\ \A s \in RepoIds : nr[s] # None <=> rs[s] # None
       /\ \A s \in RepoIds : nr[s] # None =>
            nr[s].name = rs[s].name /\ nr[s].group = rs[s].group /\ nr[s].fork = rs[s].fork
  BY <1>6, <1>14, <1>15, <1>16, <1>17
<1>19. RowsOK(gs, nr)
  <2>1. \A s \in RepoIds : nr[s] # None /\ nr[s].group # None => gs[nr[s].group] # None
    BY <1>13, <1>18
  <2>2. \A s \in RepoIds : nr[s] # None /\ nr[s].fork # None => nr[nr[s].fork] # None
    BY <1>13, <1>18
  <2>3. Unique(nr)
    BY <1>13, <1>18 DEF Unique
  <2> QED
    BY <1>17, <2>1, <2>2, <2>3 DEF RowsOK
<1>20. Settled(gs, rs, disk) => Settled(gs, nr, disk)
  <2>1. SUFFICES ASSUME Settled(gs, rs, disk) PROVE Settled(gs, nr, disk)
    OBVIOUS
  <2>2. \A s \in RepoIds : nr[s] # None => nr[s].name = NameOf(gs, nr[s].group) \o <<Own(nr[s].name)>>
    BY <1>18, <2>1 DEF Settled
  <2>3. \A s \in RepoIds : nr[s] # None /\ nr[s].state = "created" =>
          nr[s].name \in DOMAIN disk /\ disk[nr[s].name] = nr[s].data /\ disk[nr[s].name] # Plain
    <3>1. \A s \in RepoIds : rs[s] # None /\ rs[s].state = "created" =>
            rs[s].name \in DOMAIN disk /\ disk[rs[s].name] = rs[s].data /\ disk[rs[s].name] # Plain
      BY <2>1 DEF Settled
    <3> QED
      BY <1>12, <1>15, <1>17, <3>1
  <2> QED
    BY <2>1, <2>2, <2>3 DEF Settled
<1> QED
  BY <1>2, <1>3, <1>9, <1>10, <1>11, <1>19, <1>20 DEF Inv

\* What a task does, and its death.
LEMMA TaskStepKeeps ==
  ASSUME Inv, NEW t \in Tasks, TaskStep(t)
  PROVE  Inv'
<1>1. CASE \E r \in RepoIds : InsertRow(t, r)
  BY <1>1, InsertRowKeeps
<1>2. CASE SourceGone(t)
  BY <1>2, SourceGoneKeeps
<1>3. CASE MakeDirectory(t)
  BY <1>3, MakeDirectoryKeeps
<1>4. CASE MakeDirectoryFails(t) \/ SetCreatedFails(t)
  BY <1>4, CleanUpKeeps DEF MakeDirectoryFails, SetCreatedFails
<1>5. CASE SetCreated(t)
  BY <1>5, SetCreatedKeeps
<1>6. CASE TaskDies(t)
  <2>1. TasksOK(tasks')
    BY <1>6, EndedTask DEF TaskDies, Inv
  <2> QED
    BY <1>6, <2>1 DEF TaskDies, Inv
<1> QED
  BY <1>1, <1>2, <1>3, <1>4, <1>5, <1>6 DEF TaskStep

-----------------------------------------------------------------------------
(* Rescans                                                                 *)

\* What a rescan lists are paths.
LEMMA ScanKeeps ==
  ASSUME Inv, Scan
  PROVE  Inv'
<1>1. RepoPaths \subseteq Path
  BY DEF RepoPaths, Inv, DiskOK
<1> QED
  BY <1>1 DEF Scan, Inv

\* map_groups adds the groups that are missing above some paths to the tree, and
\* leaves the others alone.
LEMMA WithMissingKeeps ==
  ASSUME TreeOK(groups), NEW paths \in SUBSET Path,
         NEW f \in Injections(MissingGroups(paths), FreshGroups), NEW ng, ng = WithMissing(f)
  PROVE  /\ TreeOK(ng)
         /\ \A g \in GroupIds : groups[g] # None => ng[g] = groups[g]
         /\ \A g \in GroupIds : groups[g] = None /\ ng[g] # None =>
              ng[g].name \in MissingGroups(paths)
         /\ \A p \in paths : \A q \in Prefixes(p) \ {p} :
              \E g \in GroupIds : ng[g] # None /\ ng[g].name = q
<1>1. PICK gs : gs = groups
  OBVIOUS
<1>2. PICK M : M = MissingGroups(paths)
  OBVIOUS
<1> DEFINE named == [g \in {f[p] : p \in DOMAIN f} |-> CHOOSE p \in DOMAIN f : f[p] = g]
           GroupAt(p) == IF p \in DOMAIN f THEN f[p] ELSE CHOOSE g \in GroupNamed(p) : TRUE
           Parent(p) == IF Len(p) = 1 THEN None ELSE GroupAt(SubSeq(p, 1, Len(p) - 1))
<1>3. ng = [g \in GroupIds |->
              IF g \in DOMAIN named THEN [name |-> named[g], parent |-> Parent(named[g])]
              ELSE groups[g]]
  BY Zenon DEF WithMissing
<1>4. f \in [M -> FreshGroups] /\ \A p, q \in M : f[p] = f[q] => p = q
  BY <1>2 DEF Injections
<1>5. \A p \in M : f[p] \in GroupIds /\ gs[f[p]] = None
  <2>1. \A g \in FreshGroups : g \in GroupIds /\ gs[g] = None
    BY <1>1 DEF FreshGroups, Groups
  <2> QED
    BY <1>4, <2>1
<1>6. DOMAIN named = {f[p] : p \in M} /\ \A p \in M : named[f[p]] = p
  BY <1>4
<1> HIDE DEF named, GroupAt, Parent
<1>7. /\ \A p \in M : ng[f[p]] = [name |-> p, parent |-> Parent(p)]
      /\ \A g \in GroupIds : (\A p \in M : f[p] # g) => ng[g] = gs[g]
      /\ DOMAIN ng = GroupIds
  <2>1. \A g \in GroupIds : ng[g] =
          IF g \in DOMAIN named THEN [name |-> named[g], parent |-> Parent(named[g])] ELSE gs[g]
    BY <1>1, <1>3
  <2>2. \A p \in M : f[p] \in GroupIds /\ f[p] \in DOMAIN named /\ named[f[p]] = p
    BY <1>5, <1>6
  <2>3. \A p \in M : ng[f[p]] = [name |-> p, parent |-> Parent(p)]
    BY <2>1, <2>2
  <2>4. \A g \in GroupIds : (\A p \in M : f[p] # g) => g \notin DOMAIN named
    BY <1>6
  <2>5. DOMAIN ng = GroupIds
    BY <1>3
  <2> QED
    BY <2>1, <2>3, <2>4, <2>5
<1>8. ASSUME NEW p \in M
      PROVE  /\ ng[f[p]].name = p /\ ng[f[p]].parent = Parent(p)
             /\ p \in Path /\ Parent(p) \in GroupIds \cup {None} => ng[f[p]] \in GroupRow
  <2>1. PICK up : up = Parent(p)
    OBVIOUS
  <2>2. ng[f[p]] = [name |-> p, parent |-> Parent(p)]
    BY <1>7
  <2>3. ng[f[p]] = [name |-> p, parent |-> up]
    BY <2>1, <2>2
  <2> QED
    BY <2>1, <2>3 DEF GroupRow
<1>9. /\ M \subseteq Path
      /\ \A p \in paths : \A q \in Prefixes(p) \ {p} :
           q \in M \/ \E g \in GroupIds : gs[g] # None /\ gs[g].name = q
      /\ \A q \in M : \E p \in paths : q \in Prefixes(p) \ {p}
      /\ \A q \in M, g \in GroupIds : gs[g] # None => gs[g].name # q
  <2>1. \A p \in paths : Prefixes(p) \subseteq Path
    BY PrefixIff DEF Path, PathOrRoot
  <2>2. PICK above : above = UNION {Prefixes(p) \ {p} : p \in paths}
    OBVIOUS
  <2>3. PICK taken : taken = {gs[g].name : g \in {h \in GroupIds : gs[h] # None}}
    OBVIOUS
  <2>4. M = above \ taken
    <3>1. taken = {groups[g].name : g \in Groups}
      BY <1>1, <2>3 DEF Groups
    <3>2. M = above \ {groups[g].name : g \in Groups}
      BY <1>2, <2>2, Zenon DEF MissingGroups
    <3> QED
      BY <3>1, <3>2
  <2>5. \A q : q \in above <=> \E p \in paths : q \in Prefixes(p) \ {p}
    BY <2>2
  <2>6. \A q : q \in taken <=> \E g \in GroupIds : gs[g] # None /\ gs[g].name = q
    BY <2>3
  <2>7. \A q : q \in M <=> q \in above /\ q \notin taken
    BY <2>4
  <2> QED
    BY <2>1, <2>5, <2>6, <2>7
<1>10. /\ gs \in [GroupIds -> GroupRow \cup {None}]
       /\ \A g \in GroupIds : gs[g] # None =>
            /\ gs[g] \in GroupRow
            /\ gs[g].parent = None \/ (gs[g].parent \in GroupIds /\ gs[gs[g].parent] # None)
       /\ \A g, h \in GroupIds : gs[g] # None /\ gs[h] # None /\ gs[g].name = gs[h].name => g = h
  BY <1>1, GroupFacts
<1>11. \A g \in GroupIds : gs[g] # None => ng[g] = gs[g]
  BY <1>5, <1>7
<1>12. \A g \in GroupIds : (\A p \in M : f[p] # g) \/ \E p \in M : g = f[p]
  OBVIOUS
<1>13. \A p \in paths : \A q \in Prefixes(p) \ {p} :
         /\ GroupAt(q) \in GroupIds
         /\ \/ (q \in M /\ GroupAt(q) = f[q])
            \/ (gs[GroupAt(q)] # None /\ gs[GroupAt(q)].name = q)
  <2>1. SUFFICES ASSUME NEW p \in paths, NEW q \in Prefixes(p) \ {p}
                 PROVE  /\ GroupAt(q) \in GroupIds
                        /\ \/ (q \in M /\ GroupAt(q) = f[q])
                           \/ (gs[GroupAt(q)] # None /\ gs[GroupAt(q)].name = q)
    OBVIOUS
  <2>2. CASE q \in M
    BY <1>4, <1>5, <2>2 DEF GroupAt
  <2>3. CASE q \notin M
    <3>1. PICK g \in GroupIds : gs[g] # None /\ gs[g].name = q
      BY <1>9, <2>1, <2>3
    <3>2. g \in GroupNamed(q)
      BY <1>1, <3>1 DEF GroupNamed, Groups
    <3>3. GroupAt(q) \in GroupNamed(q)
      BY <1>4, <2>3, <3>2 DEF GroupAt
    <3> QED
      BY <1>1, <3>3 DEF GroupNamed, Groups
  <2> QED
    BY <2>2, <2>3
<1>14. ASSUME NEW p \in M
       PROVE  /\ Parent(p) = None => p = <<>> \o <<Own(p)>>
              /\ Parent(p) # None =>
                   /\ Parent(p) \in GroupIds
                   /\ p = SubSeq(p, 1, Len(p) - 1) \o <<Own(p)>>
                   /\ \/ (SubSeq(p, 1, Len(p) - 1) \in M /\ Parent(p) = f[SubSeq(p, 1, Len(p) - 1)])
                      \/ /\ gs[Parent(p)] # None
                         /\ gs[Parent(p)].name = SubSeq(p, 1, Len(p) - 1)
  <2>1. PICK e : e = SubSeq(p, 1, Len(p) - 1)
    OBVIOUS
  <2>2. p \in Path /\ Len(p) \in Nat /\ Len(p) >= 1
    BY <1>9, PathFacts
  <2>3. /\ Len(p) > 1 => e \in Prefixes(p) \ {p}
        /\ e \in PathOrRoot /\ Len(e) = Len(p) - 1
        /\ p = e \o <<Own(p)>>
    BY <2>1, <2>2, FrontFacts
  <2>4. CASE Len(p) = 1
    <3>1. e = <<>>
      BY <2>2, <2>3, <2>4, EmptySeq DEF PathOrRoot
    <3> QED
      BY <2>3, <2>4, <3>1 DEF Parent
  <2>5. CASE Len(p) # 1
    <3>1. Parent(p) = GroupAt(e)
      BY <2>1, <2>5 DEF Parent
    <3>2. PICK p0 \in paths : p \in Prefixes(p0) \ {p0}
      BY <1>9
    <3>3. e \in Prefixes(p0) \ {p0}
      <4>1. p0 \in Path /\ e \in Path /\ Below(e, p) /\ e # p /\ Below(p, p0)
        <5>1. Prefixes(p) \subseteq Path
          BY <2>2, PrefixIff DEF Path, PathOrRoot
        <5> QED
          BY <2>2, <2>3, <2>5, <3>2, <5>1 DEF Below
      <4>2. Below(e, p0)
        BY <2>2, <4>1, BelowOrders
      <4>3. e # p0
        BY <2>2, <4>1, BelowOrders
      <4> QED
        BY <4>2, <4>3 DEF Below
    <3>4. /\ Parent(p) \in GroupIds
          /\ \/ (e \in M /\ Parent(p) = f[e])
             \/ (gs[Parent(p)] # None /\ gs[Parent(p)].name = e)
      BY <1>13, <3>1, <3>3
    <3>5. Parent(p) # None
      BY <3>4, NoneFacts
    <3> QED
      BY <2>1, <2>3, <3>4, <3>5
  <2> QED
    BY <2>4, <2>5
<1>15. \A p \in M : ng[f[p]] \in GroupRow /\ ng[f[p]] # None
  <2>1. \A p \in M : p \in Path /\ Parent(p) \in GroupIds \cup {None}
    BY <1>9, <1>14
  <2>2. \A p \in M : ng[f[p]] \in GroupRow
    BY <1>8, <2>1
  <2> QED
    BY <2>2, NoneFacts
<1>16. /\ \A g \in GroupIds : gs[g] # None => NameOf(ng, g) = gs[g].name
       /\ \A p \in M : NameOf(ng, f[p]) = p
       /\ NameOf(ng, None) = <<>> /\ NameOf(gs, None) = <<>>
       /\ \A g \in GroupIds : gs[g] # None => NameOf(gs, g) = gs[g].name
  BY <1>5, <1>8, <1>11, <1>15, NoneFacts DEF NameOf
<1>17. TreeOK(ng)
  <2>1. ng \in [GroupIds -> GroupRow \cup {None}]
    <3>1. \A g \in GroupIds : ng[g] \in GroupRow \cup {None}
      BY <1>7, <1>10, <1>12, <1>15
    <3>2. ng = [g \in GroupIds |-> ng[g]]
      BY <1>3
    <3> QED
      BY <3>1, <3>2
  <2>2. ASSUME NEW g \in GroupIds, ng[g] # None, ng[g].parent # None
        PROVE  ng[ng[g].parent] # None
    <3>1. CASE \E p \in M : g = f[p]
      <4>1. PICK p \in M : g = f[p]
        BY <3>1
      <4>2. ng[g].parent = Parent(p) /\ Parent(p) # None
        BY <1>8, <2>2, <4>1
      <4>3. PICK e : e = SubSeq(p, 1, Len(p) - 1)
        OBVIOUS
      <4>4. Parent(p) \in GroupIds /\ ((e \in M /\ Parent(p) = f[e]) \/ gs[Parent(p)] # None)
        BY <1>14, <4>2, <4>3
      <4> QED
        BY <1>11, <1>15, <4>2, <4>4
    <3>2. CASE \A p \in M : f[p] # g
      BY <1>7, <1>10, <1>11, <2>2, <3>2
    <3> QED
      BY <3>1, <3>2
  <2>3. Unique(ng)
    <3>1. SUFFICES ASSUME NEW g \in GroupIds, NEW h \in GroupIds, g # h, ng[g] # None, ng[h] # None
                   PROVE  ng[g].name # ng[h].name
      BY <1>7 DEF Unique
    <3>2. CASE \E p \in M : g = f[p]
      <4>1. PICK p \in M : g = f[p] /\ ng[g].name = p
        BY <1>8, <3>2
      <4>2. CASE \E q \in M : h = f[q]
        BY <1>8, <3>1, <4>1, <4>2
      <4>3. CASE \A q \in M : f[q] # h
        BY <1>7, <1>9, <3>1, <4>1, <4>3
      <4> QED
        BY <4>2, <4>3
    <3>3. CASE \A p \in M : f[p] # g
      <4>1. gs[g] # None /\ ng[g] = gs[g]
        BY <1>7, <3>1, <3>3
      <4>2. CASE \E q \in M : h = f[q]
        BY <1>8, <1>9, <4>1, <4>2
      <4>3. CASE \A q \in M : f[q] # h
        BY <1>7, <1>10, <3>1, <4>1, <4>3
      <4> QED
        BY <4>2, <4>3
    <3> QED
      BY <3>2, <3>3
  <2>4. ASSUME NEW g \in GroupIds, ng[g] # None
        PROVE  ng[g].name = NameOf(ng, ng[g].parent) \o <<Own(ng[g].name)>>
    <3>1. CASE \E p \in M : g = f[p]
      <4>1. PICK p \in M : g = f[p]
        BY <3>1
      <4>2. ng[g].parent = Parent(p) /\ ng[g].name = p
        BY <1>8, <4>1
      <4>3. CASE Parent(p) = None
        BY <1>14, <1>16, <4>2, <4>3
      <4>4. CASE Parent(p) # None
        <5>1. PICK e : e = SubSeq(p, 1, Len(p) - 1)
          OBVIOUS
        <5>2. /\ Parent(p) \in GroupIds /\ p = e \o <<Own(p)>>
              /\ \/ (e \in M /\ Parent(p) = f[e])
                 \/ (gs[Parent(p)] # None /\ gs[Parent(p)].name = e)
          BY <1>14, <4>4, <5>1
        <5>3. NameOf(ng, Parent(p)) = e
          BY <1>16, <5>2
        <5> QED
          BY <4>2, <5>2, <5>3
      <4> QED
        BY <4>3, <4>4
    <3>2. CASE \A p \in M : f[p] # g
      <4>1. gs[g] # None /\ ng[g] = gs[g]
        BY <1>7, <2>4, <3>2
      <4>2. gs[g].name = NameOf(gs, gs[g].parent) \o <<Own(gs[g].name)>>
        BY <1>1, <4>1 DEF TreeOK
      <4>3. NameOf(ng, gs[g].parent) = NameOf(gs, gs[g].parent)
        BY <1>10, <1>16, <4>1
      <4> QED
        BY <4>1, <4>2, <4>3
    <3> QED
      BY <3>1, <3>2
  <2> QED
    BY <2>1, <2>2, <2>3, <2>4 DEF TreeOK
<1>18. \A g \in GroupIds : gs[g] = None /\ ng[g] # None => ng[g].name \in M
  BY <1>7, <1>8
<1>19. \A p \in paths : \A q \in Prefixes(p) \ {p} :
         \E g \in GroupIds : ng[g] # None /\ ng[g].name = q
  BY <1>5, <1>8, <1>9, <1>11, <1>15
<1> QED
  BY <1>1, <1>2, <1>11, <1>17, <1>18, <1>19

\* A path whose groups are all there is in the tree.
LEMMA GroupInIs ==
  ASSUME NEW ng, TreeOK(ng), NEW p \in Path,
         \A q \in Prefixes(p) \ {p} : \E g \in GroupIds : ng[g] # None /\ ng[g].name = q
  PROVE  /\ GroupIn(ng, p) = None \/ (GroupIn(ng, p) \in GroupIds /\ ng[GroupIn(ng, p)] # None)
         /\ p = NameOf(ng, GroupIn(ng, p)) \o <<Own(p)>>
<1>1. PICK e : e = SubSeq(p, 1, Len(p) - 1)
  OBVIOUS
<1>2. /\ Len(p) > 1 => e \in Prefixes(p) \ {p}
      /\ e \in PathOrRoot /\ Len(e) = Len(p) - 1
      /\ p = e \o <<Own(p)>>
      /\ Len(p) \in Nat /\ Len(p) >= 1
  BY <1>1, FrontFacts, PathFacts
<1>3. CASE Len(p) = 1
  <2>1. e = <<>>
    BY <1>2, <1>3, EmptySeq DEF PathOrRoot
  <2>2. GroupIn(ng, p) = None /\ NameOf(ng, None) = <<>>
    BY <1>3, NoneFacts DEF GroupIn, NameOf
  <2> QED
    BY <1>2, <2>1, <2>2
<1>4. CASE Len(p) # 1
  <2>1. PICK g : g = GroupIn(ng, p)
    OBVIOUS
  <2>2. \E x \in GroupIds : ng[x] # None /\ ng[x].name = e
    BY <1>2, <1>4
  <2>3. g = CHOOSE x \in GroupIds : ng[x] # None /\ ng[x].name = e
    BY <1>1, <1>4, <2>1 DEF GroupIn
  <2>4. g \in GroupIds /\ ng[g] # None /\ ng[g].name = e
    BY <2>2, <2>3
  <2>5. NameOf(ng, g) = e
    BY <2>4 DEF NameOf
  <2> QED
    BY <1>2, <2>1, <2>4, <2>5
<1> QED
  BY <1>3, <1>4

\* The rows after a rescan, one by one.
RowsAre(nr, kept, ng, added, id, heals) ==
  /\ \A p \in added : id[p] \in RepoIds /\ kept[id[p]] = None /\ nr[id[p]] = NewRow(ng, p)
  /\ \A p, q \in added : id[p] = id[q] => p = q
  /\ \A r \in RepoIds : (\A p \in added : id[p] # r) => nr[r] = KeptRow(kept[r], heals)

\* Every path that is added gets a row of its own.
LEMMA MappedAre ==
  ASSUME NEW kept, NEW ng, NEW added, NEW ids, \A r \in ids : r \in RepoIds /\ kept[r] = None,
         NEW id \in Injections(added, ids),
         NEW heals, NEW nr, nr = Mapped(kept, ng, added, id, heals)
  PROVE  RowsAre(nr, kept, ng, added, id, heals)
<1>1. /\ \A p \in added : id[p] \in RepoIds /\ kept[id[p]] = None
      /\ \A p, q \in added : id[p] = id[q] => p = q
  BY DEF Injections
<1> DEFINE At(r) == CHOOSE p \in added : id[p] = r
<1>2. \A p \in added : At(id[p]) = p
  BY <1>1
<1>3. nr = [r \in RepoIds |-> IF \E p \in added : id[p] = r THEN NewRow(ng, At(r))
                             ELSE KeptRow(kept[r], heals)]
  BY Zenon DEF Mapped
<1> HIDE DEF At
<1>4. \A r \in RepoIds : nr[r] = IF \E p \in added : id[p] = r THEN NewRow(ng, At(r))
                                 ELSE KeptRow(kept[r], heals)
  BY <1>3
<1> QED
  BY <1>1, <1>2, <1>4 DEF RowsAre

\* What the two kinds of rows say.
LEMMA RowsSay ==
  ASSUME DiskOK(disk)
  PROVE  /\ \A ng : \A p \in Path :
              LET new == NewRow(ng, p) IN
              /\ new.name = p /\ new.group = GroupIn(ng, p) /\ new.fork = None
              /\ new.state = "created"
              /\ HoldsRepo(p) => new.data = disk[p]
              /\ GroupIn(ng, p) \in GroupIds \cup {None} => new \in RepoRow
         /\ \A row \in RepoRow, heals \in BOOLEAN :
              LET kept == KeptRow(row, heals) IN
              /\ kept.name = row.name /\ kept.group = row.group /\ kept.fork = row.fork
              /\ kept.state = row.state
              /\ ~heals => kept.data = row.data
              /\ heals /\ row.state = "created" => kept.data = disk[row.name]
              /\ (heals => HoldsRepo(row.name)) => kept \in RepoRow
<1>1. \A p : HoldsRepo(p) => disk[p] \in RepoIds
  BY DEF HoldsRepo, IsDir, DiskOK
<1>2. ASSUME NEW ng, NEW p \in Path, NEW new, new = NewRow(ng, p)
      PROVE  /\ new.name = p /\ new.group = GroupIn(ng, p) /\ new.fork = None
             /\ new.state = "created"
             /\ HoldsRepo(p) => new.data = disk[p]
             /\ GroupIn(ng, p) \in GroupIds \cup {None} => new \in RepoRow
  <2>1. PICK group : group = GroupIn(ng, p)
    OBVIOUS
  <2>2. PICK data : data = IF HoldsRepo(p) THEN disk[p] ELSE None
    OBVIOUS
  <2>3. new = [name |-> p, group |-> group, fork |-> None, state |-> "created", data |-> data]
    BY <1>2, <2>1, <2>2 DEF NewRow
  <2>4. data \in RepoIds \cup {None}
    BY <1>1, <2>2
  <2>5. group \in GroupIds \cup {None} => new \in RepoRow
    BY <2>3, <2>4 DEF RepoRow
  <2> QED
    BY <2>1, <2>2, <2>3, <2>5
<1>3. ASSUME NEW row \in RepoRow, NEW heals \in BOOLEAN, NEW kept, kept = KeptRow(row, heals)
      PROVE  /\ kept.name = row.name /\ kept.group = row.group /\ kept.fork = row.fork
             /\ kept.state = row.state
             /\ ~heals => kept.data = row.data
             /\ heals /\ row.state = "created" => kept.data = disk[row.name]
             /\ (heals => HoldsRepo(row.name)) => kept \in RepoRow
  <2>1. PICK data : data = disk[row.name]
    OBVIOUS
  <2>2. row # None
    BY NoneFacts
  <2>3. CASE heals /\ row.state = "created"
    <3>1. kept = [row EXCEPT !.data = data]
      BY <1>3, <2>1, <2>2, <2>3 DEF KeptRow
    <3>2. HoldsRepo(row.name) => data \in RepoIds
      BY <1>1, <2>1
    <3> QED
      BY <2>1, <2>3, <3>1, <3>2 DEF RepoRow
  <2>4. CASE ~(heals /\ row.state = "created")
    BY <1>3, <2>4 DEF KeptRow
  <2> QED
    BY <2>3, <2>4
<1> QED
  BY <1>2, <1>3

\* Some row has the name.
HasRow(rows, p) == \E r \in RepoIds : rows[r] # None /\ rows[r].name = p

\* The rows that are kept, the groups and the paths that are added agree with the
\* directories.
Agrees(kept, ng, added, heals) ==
  /\ \A p \in added : HoldsRepo(p)
  /\ \A g \in GroupIds : ng[g] # None => ng[g].name \in DOMAIN disk /\ disk[ng[g].name] = Plain
  /\ \A r \in RepoIds : kept[r] # None =>
       kept[r].name = NameOf(groups, kept[r].group) \o <<Own(kept[r].name)>>
  /\ ~heals => \A r \in RepoIds : kept[r] # None /\ kept[r].state = "created" =>
       /\ kept[r].name \in DOMAIN disk
       /\ disk[kept[r].name] = kept[r].data
       /\ disk[kept[r].name] # Plain

\* A rescan leaves rows that refer to each other and to groups as they should,
\* and that agree with the directories if the rows that it kept did.
LEMMA MappedKeeps ==
  ASSUME DiskOK(disk), NEW kept, RowsOK(groups, kept),
         NEW ng, TreeOK(ng), \A g \in GroupIds : groups[g] # None => ng[g] = groups[g],
         NEW added \in SUBSET Path,
         \A p \in added : \A q \in Prefixes(p) \ {p} : \E g \in GroupIds : ng[g] # None /\ ng[g].name = q,
         \A p \in added : \A r \in RepoIds : kept[r] # None => kept[r].name # p,
         NEW ids, \A r \in ids : r \in RepoIds /\ kept[r] = None, NEW id \in Injections(added, ids),
         NEW heals \in BOOLEAN,
         heals => \A r \in RepoIds : kept[r] # None => HoldsRepo(kept[r].name),
         NEW nr, nr = Mapped(kept, ng, added, id, heals)
  PROVE  /\ RowsOK(ng, nr)
         /\ Agrees(kept, ng, added, heals) => Settled(ng, nr, disk)
         /\ \A p : HasRow(nr, p) <=> p \in added \/ HasRow(kept, p)
<1>1. PICK gs : gs = groups
  OBVIOUS
<1>2. \A g \in GroupIds : gs[g] # None => ng[g] = gs[g]
  BY <1>1
<1>3. /\ kept \in [RepoIds -> RepoRow \cup {None}]
      /\ \A r \in RepoIds : kept[r] # None =>
           /\ kept[r] \in RepoRow
           /\ kept[r].group = None \/ (kept[r].group \in GroupIds /\ gs[kept[r].group] # None)
           /\ kept[r].fork = None \/ (kept[r].fork \in RepoIds /\ kept[kept[r].fork] # None)
      /\ \A r, q \in RepoIds : kept[r] # None /\ kept[q] # None /\ kept[r].name = kept[q].name => r = q
  BY <1>1, RepoFacts
<1>4. /\ nr = [r \in RepoIds |-> nr[r]]
      /\ \A p \in added : id[p] \in RepoIds /\ kept[id[p]] = None /\ nr[id[p]] = NewRow(ng, p)
      /\ \A p, q \in added : id[p] = id[q] => p = q
      /\ \A r \in RepoIds : (\A p \in added : id[p] # r) => nr[r] = KeptRow(kept[r], heals)
  <2>1. nr = [r \in RepoIds |-> nr[r]]
    BY DEF Mapped
  <2>2. /\ \A p \in added : id[p] \in RepoIds /\ kept[id[p]] = None /\ nr[id[p]] = NewRow(ng, p)
        /\ \A p, q \in added : id[p] = id[q] => p = q
        /\ \A r \in RepoIds : (\A p \in added : id[p] # r) => nr[r] = KeptRow(kept[r], heals)
    <3>1. RowsAre(nr, kept, ng, added, id, heals)
      BY MappedAre
    <3> QED
      BY <3>1 DEF RowsAre
  <2> QED
    BY <2>1, <2>2
<1>5. ASSUME NEW p \in added
      PROVE  /\ id[p] \in RepoIds /\ nr[id[p]] \in RepoRow /\ nr[id[p]] # None
             /\ nr[id[p]].name = p /\ nr[id[p]].fork = None
             /\ nr[id[p]].group = None \/ (nr[id[p]].group \in GroupIds /\ ng[nr[id[p]].group] # None)
             /\ p = NameOf(ng, nr[id[p]].group) \o <<Own(p)>>
             /\ HoldsRepo(p) => nr[id[p]].data = disk[p]
  <2>1. p \in Path
    OBVIOUS
  <2>2. PICK new : new = NewRow(ng, p)
    OBVIOUS
  <2>3. /\ GroupIn(ng, p) = None \/ (GroupIn(ng, p) \in GroupIds /\ ng[GroupIn(ng, p)] # None)
        /\ p = NameOf(ng, GroupIn(ng, p)) \o <<Own(p)>>
    BY <2>1, GroupInIs
  <2>4. /\ new.name = p /\ new.group = GroupIn(ng, p) /\ new.fork = None
        /\ HoldsRepo(p) => new.data = disk[p]
        /\ GroupIn(ng, p) \in GroupIds \cup {None} => new \in RepoRow
    BY <2>1, <2>2, RowsSay
  <2>5. new # None
    BY <2>3, <2>4, NoneFacts
  <2>6. nr[id[p]] = new /\ id[p] \in RepoIds
    BY <1>4, <2>2
  <2> QED
    BY <2>3, <2>4, <2>5, <2>6
<1>6. ASSUME NEW r \in RepoIds, kept[r] # None
      PROVE  /\ nr[r] \in RepoRow /\ nr[r] # None
             /\ nr[r].name = kept[r].name /\ nr[r].group = kept[r].group
             /\ nr[r].fork = kept[r].fork /\ nr[r].state = kept[r].state
             /\ ~heals => nr[r].data = kept[r].data
             /\ heals /\ kept[r].state = "created" => nr[r].data = disk[kept[r].name]
  <2>1. nr[r] = KeptRow(kept[r], heals)
    BY <1>4, <1>6
  <2>2. PICK row : row = kept[r]
    OBVIOUS
  <2>3. row \in RepoRow /\ (heals => HoldsRepo(row.name))
    BY <1>3, <1>6, <2>2
  <2>4. PICK new : new = KeptRow(row, heals)
    OBVIOUS
  <2>5. /\ new.name = row.name /\ new.group = row.group /\ new.fork = row.fork
        /\ new.state = row.state
        /\ ~heals => new.data = row.data
        /\ heals /\ row.state = "created" => new.data = disk[row.name]
        /\ (heals => HoldsRepo(row.name)) => new \in RepoRow
    BY <2>3, <2>4, RowsSay
  <2>6. nr[r] = new /\ new # None
    BY <2>1, <2>2, <2>3, <2>4, <2>5, NoneFacts
  <2> QED
    BY <2>2, <2>3, <2>5, <2>6
<1>7. ASSUME NEW r \in RepoIds, nr[r] # None
      PROVE  kept[r] # None \/ \E p \in added : id[p] = r
  <2>1. SUFFICES ASSUME kept[r] = None, \A p \in added : id[p] # r PROVE FALSE
    OBVIOUS
  <2>2. nr[r] = KeptRow(None, heals)
    BY <1>4, <2>1
  <2> QED
    BY <1>7, <2>2 DEF KeptRow
<1>8. RowsOK(ng, nr)
  <2>1. nr \in [RepoIds -> RepoRow \cup {None}]
    <3>1. \A r \in RepoIds : nr[r] \in RepoRow \cup {None}
      BY <1>5, <1>6, <1>7
    <3> QED
      BY <1>4, <3>1
  <2>2. \A r \in RepoIds : nr[r] # None /\ nr[r].group # None => ng[nr[r].group] # None
    <3>1. SUFFICES ASSUME NEW r \in RepoIds, nr[r] # None, nr[r].group # None
                   PROVE  ng[nr[r].group] # None
      OBVIOUS
    <3>2. CASE kept[r] # None
      BY <1>2, <1>3, <1>6, <3>1, <3>2
    <3>3. CASE \E p \in added : id[p] = r
      BY <1>5, <3>1, <3>3
    <3> QED
      BY <1>7, <3>1, <3>2, <3>3
  <2>3. \A r \in RepoIds : nr[r] # None /\ nr[r].fork # None => nr[nr[r].fork] # None
    <3>1. SUFFICES ASSUME NEW r \in RepoIds, nr[r] # None, nr[r].fork # None
                   PROVE  nr[nr[r].fork] # None
      OBVIOUS
    <3>2. CASE kept[r] # None
      BY <1>3, <1>6, <3>1, <3>2
    <3>3. CASE \E p \in added : id[p] = r
      BY <1>5, <3>1, <3>3
    <3> QED
      BY <1>7, <3>1, <3>2, <3>3
  <2>4. Unique(nr)
    <3>1. SUFFICES ASSUME NEW r \in RepoIds, NEW s \in RepoIds, r # s, nr[r] # None, nr[s] # None
                   PROVE  nr[r].name # nr[s].name
      BY <2>1 DEF Unique
    <3>2. CASE kept[r] # None /\ kept[s] # None
      BY <1>3, <1>6, <3>1, <3>2
    <3>3. CASE kept[r] # None /\ \E p \in added : id[p] = s
      <4>1. PICK p \in added : id[p] = s
        BY <3>3
      <4> QED
        <5>1. nr[s].name = p
          BY <1>5, <4>1
        <5>2. nr[r].name = kept[r].name /\ kept[r].name # p
          BY <1>6, <3>3
        <5> QED
          BY <5>1, <5>2
    <3>4. CASE kept[s] # None /\ \E p \in added : id[p] = r
      <4>1. PICK p \in added : id[p] = r
        BY <3>4
      <4> QED
        <5>1. nr[r].name = p
          BY <1>5, <4>1
        <5>2. nr[s].name = kept[s].name /\ kept[s].name # p
          BY <1>6, <3>4
        <5> QED
          BY <5>1, <5>2
    <3>5. CASE (\E p \in added : id[p] = r) /\ (\E p \in added : id[p] = s)
      <4>1. PICK p \in added : id[p] = r
        BY <3>5
      <4>2. PICK q \in added : id[q] = s
        BY <3>5
      <4> QED
        <5>1. nr[r].name = p /\ nr[s].name = q
          BY <1>5, <4>1, <4>2
        <5>2. p # q
          BY <3>1, <4>1, <4>2
        <5> QED
          BY <5>1, <5>2
    <3> QED
      BY <1>7, <3>1, <3>2, <3>3, <3>4, <3>5
  <2> QED
    BY <2>1, <2>2, <2>3, <2>4 DEF RowsOK
<1>9. ASSUME Agrees(kept, ng, added, heals)
      PROVE  Settled(ng, nr, disk)
  <2>1. /\ \A p \in added : HoldsRepo(p)
        /\ \A g \in GroupIds : ng[g] # None => ng[g].name \in DOMAIN disk /\ disk[ng[g].name] = Plain
        /\ \A r \in RepoIds : kept[r] # None =>
             kept[r].name = NameOf(gs, kept[r].group) \o <<Own(kept[r].name)>>
        /\ ~heals => \A r \in RepoIds : kept[r] # None /\ kept[r].state = "created" =>
             /\ kept[r].name \in DOMAIN disk
             /\ disk[kept[r].name] = kept[r].data
             /\ disk[kept[r].name] # Plain
    BY <1>1, <1>9 DEF Agrees
  <2>2. ASSUME NEW r \in RepoIds, nr[r] # None
        PROVE  nr[r].name = NameOf(ng, nr[r].group) \o <<Own(nr[r].name)>>
    <3>1. CASE kept[r] # None
      <4>1. NameOf(ng, kept[r].group) = NameOf(gs, kept[r].group)
        <5>1. kept[r].group = None \/ (kept[r].group \in GroupIds /\ gs[kept[r].group] # None)
          BY <1>3, <3>1
        <5>2. CASE kept[r].group = None
          BY <5>2, NoneFacts DEF NameOf
        <5>3. CASE kept[r].group \in GroupIds /\ gs[kept[r].group] # None
          BY <1>2, <5>3 DEF NameOf
        <5> QED
          BY <5>1, <5>2, <5>3
      <4>2. nr[r].name = kept[r].name /\ nr[r].group = kept[r].group
        BY <1>6, <3>1
      <4>3. kept[r].name = NameOf(gs, kept[r].group) \o <<Own(kept[r].name)>>
        BY <2>1, <3>1
      <4> QED
        BY <4>1, <4>2, <4>3
    <3>2. CASE \E p \in added : id[p] = r
      <4>1. PICK p \in added : id[p] = r
        BY <3>2
      <4>2. /\ nr[r].name = p
            /\ p = NameOf(ng, nr[r].group) \o <<Own(p)>>
        BY <1>5, <4>1
      <4> QED
        BY <4>2
    <3> QED
      BY <1>7, <2>2, <3>1, <3>2
  <2>3. ASSUME NEW r \in RepoIds, nr[r] # None, nr[r].state = "created"
        PROVE  nr[r].name \in DOMAIN disk /\ disk[nr[r].name] = nr[r].data /\ disk[nr[r].name] # Plain
    <3>1. CASE kept[r] # None
      <4>1. CASE heals
        <5>1. HoldsRepo(kept[r].name)
          BY <3>1, <4>1
        <5>2. nr[r].name = kept[r].name /\ nr[r].data = disk[kept[r].name]
          BY <1>6, <2>3, <3>1, <4>1
        <5> QED
          BY <5>1, <5>2 DEF HoldsRepo, IsDir
      <4>2. CASE ~heals
        BY <1>6, <2>1, <2>3, <3>1, <4>2
      <4> QED
        BY <4>1, <4>2
    <3>2. CASE \E p \in added : id[p] = r
      <4>1. PICK p \in added : id[p] = r
        BY <3>2
      <4>2. HoldsRepo(p) /\ nr[r].name = p /\ nr[r].data = disk[p]
        BY <1>5, <2>1, <4>1
      <4> QED
        BY <4>2 DEF HoldsRepo, IsDir
    <3> QED
      BY <1>7, <2>3, <3>1, <3>2
  <2> QED
    BY <2>1, <2>2, <2>3 DEF Settled
<1>10. ASSUME NEW p
       PROVE  HasRow(nr, p) <=> p \in added \/ HasRow(kept, p)
  <2>1. ASSUME HasRow(nr, p) PROVE p \in added \/ HasRow(kept, p)
    <3>1. PICK r \in RepoIds : nr[r] # None /\ nr[r].name = p
      BY <2>1 DEF HasRow
    <3>2. CASE kept[r] # None
      BY <1>6, <3>1, <3>2 DEF HasRow
    <3>3. CASE \E x \in added : id[x] = r
      <4>1. PICK x \in added : id[x] = r
        BY <3>3
      <4>2. nr[r].name = x
        BY <1>5, <4>1
      <4> QED
        BY <3>1, <4>2
    <3> QED
      BY <1>7, <3>1, <3>2, <3>3
  <2>2. ASSUME p \in added PROVE HasRow(nr, p)
    BY <1>5, <2>2 DEF HasRow
  <2>3. ASSUME HasRow(kept, p) PROVE HasRow(nr, p)
    BY <1>6, <2>3 DEF HasRow
  <2> QED
    BY <2>1, <2>2, <2>3
<1> QED
  BY <1>1, <1>8, <1>9, <1>10

\* The groups above a repository that is in the tree are all there.
LEMMA GroupsAboveRepos ==
  ASSUME TreeOK(groups), RowsOK(groups, repos), NEW r \in Repos, InTree(repos[r]),
         NEW q \in Prefixes(repos[r].name) \ {repos[r].name}
  PROVE  \E g \in Groups : groups[g].name = q
<1>1. PICK h : h = repos[r].group
  OBVIOUS
<1>2. PICK f : f = NameOf(groups, h)
  OBVIOUS
<1>3. PICK b : b = repos[r].name
  OBVIOUS
<1>4. PICK o : o = Own(b)
  OBVIOUS
<1>5. o \in Names /\ (h = None \/ h \in Groups) /\ b \in Path
  BY <1>1, <1>3, <1>4, RepoFacts DEF Repos, Groups
<1>6. b = f \o <<o>>
  BY <1>1, <1>2, <1>3, <1>4, TreeIs DEF InTree, NewName
<1>7. q \in Path /\ Below(q, b) /\ q # b
  <2>1. Prefixes(b) \subseteq Path
    BY <1>5, PrefixIff DEF Path, PathOrRoot
  <2> QED
    BY <1>3, <2>1 DEF Below
<1>8. CASE h = None
  <2>1. f = <<>> /\ f \in PathOrRoot
    BY <1>2, <1>8, NoneFacts DEF NameOf, PathOrRoot
  <2> QED
    BY <1>5, <1>6, <1>7, <2>1, BelowChild
<1>9. CASE h \in Groups
  <2>1. f = groups[h].name /\ f \in Path /\ f \in PathOrRoot
    BY <1>2, <1>9, TreeIs, ParentFacts DEF NameOf, Groups
  <2>2. Below(q, f)
    BY <1>5, <1>6, <1>7, <2>1, BelowTheChild DEF Child
  <2> QED
    BY <1>9, <2>1, <2>2, TreeIs, GroupsAbove DEF Below
<1> QED
  BY <1>5, <1>8, <1>9

\* A rescan keeps what the rows say of each other, and agrees with the
\* directories if its list still does or if it heals; then there is a row for
\* every repository on disk, and for no other.
LEMMA MapReposKeeps ==
  ASSUME Inv, NEW removeObsolete \in BOOLEAN, MapRepos(removeObsolete)
  PROVE  Inv' /\ (Heals(removeObsolete) => \A p : HasRow(repos, p)' <=> p \in RepoPaths)
<1>1. /\ scan # None
      /\ suspect' = (~Heals(removeObsolete) /\ (suspect \/ ~(NewPaths \subseteq RepoPaths)))
      /\ scan' = None
      /\ disk' = disk /\ tasks' = tasks
  BY DEF MapRepos
<1>2. PICK added \in Additions, known \in SUBSET (scan \ NewPaths) :
         \E f \in Injections(MissingGroups(added \cup known), FreshGroups),
            id \in Injections(added, {r \in RepoIds : r \notin Repos \cup InTasks}) :
           /\ groups' = WithMissing(f)
           /\ repos' = Mapped(Kept(removeObsolete), groups', added, id, Heals(removeObsolete))
  BY DEF MapRepos
<1>3. PICK f \in Injections(MissingGroups(added \cup known), FreshGroups),
           id \in Injections(added, {r \in RepoIds : r \notin Repos \cup InTasks}) :
           /\ groups' = WithMissing(f)
           /\ repos' = Mapped(Kept(removeObsolete), groups', added, id, Heals(removeObsolete))
  BY <1>2
<1>4. PICK ng : ng = groups'
  OBVIOUS
<1>5. PICK nr : nr = repos'
  OBVIOUS
<1>6. PICK kept : kept = Kept(removeObsolete)
  OBVIOUS
<1>7. PICK heals \in BOOLEAN : heals = Heals(removeObsolete)
  BY DEF Heals
<1>8. PICK paths : paths = added \cup known
  OBVIOUS
<1>9. PICK ids : ids = {r \in RepoIds : r \notin Repos \cup InTasks}
  OBVIOUS
<1>10. ng = WithMissing(f) /\ nr = Mapped(kept, ng, added, id, heals)
  BY <1>3, <1>4, <1>5, <1>6, <1>7
<1>11. /\ TreeOK(groups) /\ RowsOK(groups, repos) /\ DiskOK(disk) /\ TasksOK(tasks)
       /\ scan \subseteq Path /\ suspect \in BOOLEAN
       /\ ~suspect => Settled(groups, repos, disk)
  BY <1>1 DEF Inv
<1>12. /\ added \subseteq NewPaths /\ known \subseteq scan \ NewPaths
       /\ Gone = {} => added = NewPaths
       /\ paths \in SUBSET Path /\ added \in SUBSET Path
       /\ \A p \in added : RepoNamed(p) = {}
       /\ \A p \in known : p \in scan /\ RepoNamed(p) # {}
  <2>1. NewPaths \subseteq scan /\ Gone \subseteq NewPaths
    BY DEF NewPaths, Gone
  <2>2. added \subseteq NewPaths /\ (Gone = {} => added = NewPaths)
    BY <1>2, <2>1 DEF Additions
  <2> QED
    BY <1>8, <1>11, <2>1, <2>2 DEF NewPaths
<1>13. /\ TreeOK(ng)
       /\ \A g \in GroupIds : groups[g] # None => ng[g] = groups[g]
       /\ \A g \in GroupIds : groups[g] = None /\ ng[g] # None => ng[g].name \in MissingGroups(paths)
       /\ \A p \in paths : \A q \in Prefixes(p) \ {p} :
            \E g \in GroupIds : ng[g] # None /\ ng[g].name = q
  <2>1. f \in Injections(MissingGroups(paths), FreshGroups)
    BY <1>8
  <2> QED
    BY <1>10, <1>11, <1>12, <2>1, WithMissingKeeps
<1>14. /\ RowsOK(groups, kept)
       /\ \A r \in RepoIds : kept[r] # None =>
            /\ r \in Repos
            /\ kept[r].name = repos[r].name /\ kept[r].group = repos[r].group
            /\ kept[r].state = repos[r].state /\ kept[r].data = repos[r].data
       /\ removeObsolete /\ Gone = {} => \A r \in RepoIds : kept[r] # None => r \notin Obsolete
  <2>1. CASE removeObsolete /\ Gone = {}
    <3>1. kept = Without(Obsolete)
      BY <1>6, <2>1 DEF Kept
    <3>2. Obsolete \in SUBSET RepoIds
      BY DEF Obsolete, Repos
    <3> QED
      BY <1>11, <3>1, <3>2, WithoutFacts DEF Repos
  <2>2. CASE ~(removeObsolete /\ Gone = {})
    BY <1>6, <1>11, <2>2 DEF Kept, Repos
  <2> QED
    BY <2>1, <2>2
<1>15. NewPaths \subseteq RepoPaths => Gone = {} /\ added = NewPaths /\ \A p \in added : HoldsRepo(p)
  BY <1>12 DEF Gone, RepoPaths
<1>16. heals =>
         /\ NewPaths \subseteq RepoPaths /\ scan = RepoPaths /\ GroupsInPlace
         /\ \A r \in RepoIds : kept[r] # None => HoldsRepo(kept[r].name) /\ InTree(repos[r])
  <2>1. SUFFICES ASSUME heals
                 PROVE  /\ NewPaths \subseteq RepoPaths /\ scan = RepoPaths /\ GroupsInPlace
                        /\ \A r \in RepoIds : kept[r] # None => HoldsRepo(kept[r].name) /\ InTree(repos[r])
    OBVIOUS
  <2>2. /\ removeObsolete /\ scan = RepoPaths /\ GroupsInPlace
        /\ \A r \in Repos \ Obsolete : InTree(repos[r])
    BY <1>7, <2>1 DEF Heals
  <2>3. NewPaths \subseteq RepoPaths
    BY <2>2 DEF NewPaths
  <2>4. \A r \in RepoIds : kept[r] # None => r \in Repos \ Obsolete /\ kept[r].name = repos[r].name
    BY <1>14, <1>15, <2>2, <2>3
  <2>5. \A r \in Repos \ Obsolete : repos[r].name \in RepoPaths
    BY <2>2 DEF Obsolete
  <2> QED
    BY <2>2, <2>3, <2>4, <2>5 DEF RepoPaths
<1>17. /\ \A p \in added : \A r \in RepoIds : kept[r] # None => kept[r].name # p
       /\ \A r \in ids : r \in RepoIds /\ kept[r] = None
       /\ id \in Injections(added, ids)
  <2>1. \A p \in added : \A r \in Repos : repos[r].name # p
    BY <1>12 DEF RepoNamed
  <2> QED
    BY <1>9, <1>14, <2>1
<1>18. /\ RowsOK(ng, nr) /\ (Agrees(kept, ng, added, heals) => Settled(ng, nr, disk))
       /\ \A p : HasRow(nr, p) <=> p \in added \/ HasRow(kept, p)
  <2>1. heals => \A r \in RepoIds : kept[r] # None => HoldsRepo(kept[r].name)
    BY <1>16
  <2>2. \A p \in added : \A q \in Prefixes(p) \ {p} : \E g \in GroupIds : ng[g] # None /\ ng[g].name = q
    BY <1>8, <1>13
  <2>3. /\ DiskOK(disk) /\ RowsOK(groups, kept) /\ TreeOK(ng) /\ added \in SUBSET Path
        /\ \A g \in GroupIds : groups[g] # None => ng[g] = groups[g]
        /\ nr = Mapped(kept, ng, added, id, heals)
    BY <1>10, <1>11, <1>12, <1>13, <1>14
  <2> QED
    BY ONLY <1>7, <1>17, <2>1, <2>2, <2>3, MappedKeeps
<1>19. ASSUME ~suspect'
       PROVE  Agrees(kept, ng, added, heals)
  <2>1. heals \/ (~suspect /\ NewPaths \subseteq RepoPaths)
    BY <1>1, <1>7, <1>11, <1>19
  <2>2. NewPaths \subseteq RepoPaths /\ \A p \in added : p \in RepoPaths
    BY <1>12, <1>16, <2>1
  <2>3. \A p \in added : HoldsRepo(p)
    BY <2>2 DEF RepoPaths
  <2>4. \A r \in RepoIds : kept[r] # None => InTree(repos[r])
    <3>1. CASE heals
      BY <1>16, <3>1
    <3>2. CASE ~suspect
      BY <1>11, <1>14, <3>2, TreeIs DEF Settled, Repos, InTree, NewName
    <3> QED
      BY <2>1, <3>1, <3>2
  <2>5. \A r \in RepoIds : kept[r] # None =>
          kept[r].name = NameOf(groups, kept[r].group) \o <<Own(kept[r].name)>>
    BY <1>11, <1>14, <2>4, TreeIs DEF InTree, NewName
  <2>6. ~heals => \A r \in RepoIds : kept[r] # None /\ kept[r].state = "created" =>
          /\ kept[r].name \in DOMAIN disk
          /\ disk[kept[r].name] = kept[r].data
          /\ disk[kept[r].name] # Plain
    <3>1. SUFFICES ASSUME ~heals, NEW r \in RepoIds, kept[r] # None, kept[r].state = "created"
                   PROVE  /\ kept[r].name \in DOMAIN disk
                          /\ disk[kept[r].name] = kept[r].data
                          /\ disk[kept[r].name] # Plain
      OBVIOUS
    <3>2. Settled(groups, repos, disk)
      BY <1>11, <2>1, <3>1
    <3>3. /\ repos[r] # None /\ repos[r].state = "created"
          /\ kept[r].name = repos[r].name /\ kept[r].data = repos[r].data
      BY <1>14, <3>1 DEF Repos
    <3> QED
      BY <3>2, <3>3 DEF Settled
  <2>7. \A g \in GroupIds : groups[g] # None => groups[g].name \in DOMAIN disk /\ disk[groups[g].name] = Plain
    <3>1. CASE heals
      <4>1. GroupsInPlace
        BY <1>16, <3>1
      <4> QED
        BY <4>1 DEF GroupsInPlace, Groups, HoldsRepo, IsDir
    <3>2. CASE ~suspect
      BY <1>11, <3>2 DEF Settled
    <3> QED
      BY <2>1, <3>1, <3>2
  <2>8. \A p \in RepoPaths : \A q \in Prefixes(p) \ {p} : q \in DOMAIN disk /\ disk[q] = Plain
    <3>1. \A p \in RepoPaths : Prefixes(p) \subseteq DOMAIN disk
      BY <1>11 DEF RepoPaths, DiskOK
    <3> QED
      BY <3>1 DEF RepoPaths, HoldsRepo, IsDir
  <2>9. ASSUME NEW q \in MissingGroups(paths)
        PROVE  q \in DOMAIN disk /\ disk[q] = Plain
    <3>1. PICK p \in paths : q \in Prefixes(p) \ {p}
      BY DEF MissingGroups
    <3>2. \A g \in Groups : groups[g].name # q
      BY DEF MissingGroups
    <3>3. CASE p \in RepoPaths
      BY <2>8, <3>1, <3>3
    <3>4. CASE p \in known /\ ~heals
      <4>1. PICK r \in Repos : repos[r].name = p
        BY <1>12, <3>4 DEF RepoNamed
      <4>2. InTree(repos[r])
        BY <1>11, <2>1, <3>4, TreeIs DEF Settled, Repos, InTree, NewName
      <4> QED
        BY <1>11, <3>1, <3>2, <4>1, <4>2, GroupsAboveRepos
    <3>5. CASE p \in known /\ heals
      BY <1>12, <1>16, <3>3, <3>5
    <3> QED
      BY <1>8, <2>2, <3>1, <3>3, <3>4, <3>5
  <2>10. \A g \in GroupIds : ng[g] # None => ng[g].name \in DOMAIN disk /\ disk[ng[g].name] = Plain
    BY <1>13, <2>7, <2>9
  <2> QED
    BY <2>3, <2>5, <2>6, <2>10 DEF Agrees
<1>20. ASSUME heals
       PROVE  \A p : HasRow(nr, p) <=> p \in RepoPaths
  <2>1. added = NewPaths /\ scan = RepoPaths /\ Gone = {} /\ removeObsolete
    BY <1>7, <1>15, <1>16, <1>20 DEF Heals
  <2>2. kept = Without(Obsolete)
    BY <1>6, <2>1 DEF Kept
  <2>3. \A r \in Repos : r \notin Obsolete => kept[r] # None
    <3>1. Obsolete \in SUBSET RepoIds
      BY DEF Obsolete, Repos
    <3> QED
      BY <1>11, <2>2, <3>1, WithoutFacts DEF Repos
  <2>4. ASSUME NEW p \in RepoPaths
        PROVE  p \in added \/ HasRow(kept, p)
    <3>1. CASE RepoNamed(p) = {}
      BY <2>1, <2>4, <3>1 DEF NewPaths
    <3>2. CASE RepoNamed(p) # {}
      <4>1. PICK r \in Repos : repos[r].name = p
        BY <3>2 DEF RepoNamed
      <4>2. kept[r] # None
        BY <2>1, <2>3, <2>4, <4>1 DEF Obsolete
      <4> QED
        BY <1>14, <4>1, <4>2 DEF HasRow, Repos
    <3> QED
      BY <3>1, <3>2
  <2>5. ASSUME NEW p, p \in added \/ HasRow(kept, p)
        PROVE  p \in RepoPaths
    <3>1. CASE p \in added
      BY <2>1, <3>1 DEF NewPaths
    <3>2. CASE HasRow(kept, p)
      <4>1. PICK r \in RepoIds : kept[r] # None /\ kept[r].name = p
        BY <3>2 DEF HasRow
      <4>2. r \in Repos /\ repos[r].name = p /\ r \notin Obsolete
        BY <1>14, <2>1, <4>1
      <4> QED
        BY <2>1, <4>2 DEF Obsolete
    <3> QED
      BY <2>5, <3>1, <3>2
  <2> QED
    BY <1>18, <2>4, <2>5
<1>21. Inv'
  BY <1>1, <1>4, <1>5, <1>11, <1>13, <1>18, <1>19 DEF Inv
<1>22. Heals(removeObsolete) => \A p : HasRow(repos, p)' <=> p \in RepoPaths
  BY <1>5, <1>7, <1>20 DEF HasRow
<1> QED
  BY <1>21, <1>22

-----------------------------------------------------------------------------
(* The invariants                                                          *)

\* At first there are no rows, and at most one repository with the directories
\* that lead to it.
LEMMA InitInv ==
  ASSUME Init
  PROVE  Inv
<1>1. PICK r \in RepoIds, p \in Foreign \cup {<<>>} :
        disk = [q \in Prefixes(p) |-> IF q = p THEN r ELSE Plain]
  BY DEF Init, Prefixes
<1>2. p \in PathOrRoot
  <2>1. Foreign \subseteq Seq(Names)
    BY StoreAssumption
  <2>2. <<>> \in Seq(Names)
    OBVIOUS
  <2> QED
    BY <2>1, <2>2 DEF PathOrRoot
<1>3. Prefixes(p) \subseteq Path /\ \A q \in Prefixes(p) : Prefixes(q) \subseteq Prefixes(p)
  <2>1. Prefixes(p) \subseteq Path
    BY <1>2, PrefixIff
  <2>2. CASE p \in Path
    <3>1. \A q \in Path : Prefixes(q) \subseteq Path
      BY PrefixIff DEF Path, PathOrRoot
    <3>2. \A q \in Prefixes(p) : \A x \in Prefixes(q) :
            x \in Path /\ q \in Path /\ Below(x, q) /\ Below(q, p)
      BY <2>1, <3>1 DEF Below
    <3>3. \A q \in Prefixes(p) : \A x \in Prefixes(q) : Below(x, p)
      BY <2>2, <3>2, BelowOrders
    <3> QED
      BY <2>1, <3>3 DEF Below
  <2>3. CASE p = <<>>
    BY <2>3 DEF Prefixes
  <2> QED
    BY <1>2, <2>1, <2>2, <2>3 DEF Path, PathOrRoot
<1>4. DiskOK(disk)
  <2>1. DOMAIN disk = Prefixes(p) /\ \A q \in Prefixes(p) : disk[q] \in RepoIds \cup {Plain}
    BY <1>1
  <2> QED
    BY <1>3, <2>1 DEF DiskOK
<1>5. /\ groups = [g \in GroupIds |-> None] /\ repos = [s \in RepoIds |-> None]
      /\ tasks = [t \in Tasks |-> None] /\ scan = None /\ suspect = FALSE
  BY DEF Init
<1>6. TreeOK(groups)
  BY <1>5 DEF TreeOK, Unique
<1>7. RowsOK(groups, repos)
  BY <1>5 DEF RowsOK, Unique
<1>8. TasksOK(tasks)
  BY <1>5 DEF TasksOK
<1>9. Settled(groups, repos, disk)
  BY <1>5 DEF Settled
<1> QED
  BY <1>4, <1>5, <1>6, <1>7, <1>8, <1>9 DEF Inv

\* Whatever is asked for, whatever a task or a rescan does next, and wherever a
\* commit fails.
LEMMA NextInv ==
  ASSUME Inv, [Next]_vars
  PROVE  Inv'
<1>1. CASE GroupRequest
  BY <1>1, GroupRequestKeeps
<1>2. CASE RepoRequest
  BY <1>2, RepoRequestKeeps
<1>3. CASE Scan
  BY <1>3, ScanKeeps
<1>4. CASE \E t \in Tasks : TaskStep(t)
  BY <1>4, TaskStepKeeps
<1>5. CASE \E removeObsolete \in BOOLEAN : MapRepos(removeObsolete)
  BY <1>5, MapReposKeeps
<1>6. CASE UNCHANGED vars
  BY <1>6 DEF vars, Inv
<1> QED
  BY <1>1, <1>2, <1>3, <1>4, <1>5, <1>6 DEF Next

\* Names are unique and follow the tree of groups, rows refer to rows that there
\* are, and rows and directories agree unless something known has gone wrong,
\* in every state of any number of requests, creations and rescans.
THEOREM StoreInvariant == Spec => []Inv
<1>1. Init => Inv
  BY InitInv
<1>2. Inv /\ [Next]_vars => Inv'
  BY NextInv
<1> QED
  BY <1>1, <1>2, PTL DEF Spec

\* The types of the state, as the runs check them.
THEOREM StoreTypes == Spec => []TypeOK
<1>1. Inv => TypeOK
  <2>1. SUFFICES ASSUME Inv PROVE TypeOK
    OBVIOUS
  <2>2. TreeOK(groups) /\ RowsOK(groups, repos) /\ DiskOK(disk)
    BY <2>1 DEF Inv
  <2>3. \A p \in Path : IsName(p)
    BY DEF IsName, Path
  <2>4. \A g \in Groups : IsName(groups[g].name) /\ groups[g].parent \in Groups \cup {None}
    BY <2>2, <2>3, GroupFacts DEF Groups
  <2>5. \A r \in Repos : /\ IsName(repos[r].name)
                         /\ repos[r].group \in Groups \cup {None}
                         /\ repos[r].fork \in Repos \cup {None}
                         /\ repos[r].state \in {"pending", "created"}
                         /\ repos[r].data \in RepoIds \cup {None}
    BY <2>2, <2>3, RepoFacts DEF Groups, Repos
  <2>6. \A p \in DOMAIN disk : IsName(p) /\ Prefixes(p) \subseteq DOMAIN disk
    BY <2>2, <2>3 DEF DiskOK
  <2>7. OnDisk \subseteq RepoIds \cup {Plain}
    BY <2>2 DEF OnDisk, DiskOK
  <2>8. Unique(groups) /\ Unique(repos)
    BY <2>2 DEF TreeOK, RowsOK
  <2> QED
    BY <2>1, <2>4, <2>5, <2>6, <2>7, <2>8 DEF TypeOK, Inv
<1> QED
  BY <1>1, StoreInvariant, PTL

\* The name of every group is the path of its parent and its own name, and so is
\* that of every repository unless its group was changed while it was created.
THEOREM NamesFollow == Spec => []NamesFollowTree
<1>1. Inv => NamesFollowTree
  <2>1. SUFFICES ASSUME Inv PROVE NamesFollowTree
    OBVIOUS
  <2>2. Tree /\ \A g : NameOf(groups, g) = PathOf(g)
    BY <2>1, TreeIs DEF Inv
  <2>3. \A g \in Groups : groups[g].name = NewName(groups[g].parent, Own(groups[g].name))
    BY <2>2 DEF Tree
  <2>4. ~suspect => \A r \in Repos : InTree(repos[r])
    BY <2>1, <2>2 DEF Inv, Settled, Repos, InTree, NewName
  <2> QED
    BY <2>3, <2>4 DEF NamesFollowTree
<1> QED
  BY <1>1, StoreInvariant, PTL

\* Where its name leads, every group finds its directory and every created
\* repository its own data, unless something known has gone wrong.
THEOREM DirectoriesFollow == Spec => []DirectoriesFollowRows
<1>1. Inv => DirectoriesFollowRows
  <2>1. SUFFICES ASSUME Inv, ~suspect PROVE DirectoriesFollowRows
    BY DEF DirectoriesFollowRows
  <2>2. Settled(groups, repos, disk)
    BY <2>1 DEF Inv
  <2>3. GroupsInPlace
    BY <2>2 DEF Settled, GroupsInPlace, Groups, IsDir, HoldsRepo
  <2>4. \A r \in Repos : repos[r].state = "created" =>
          HoldsRepo(repos[r].name) /\ disk[repos[r].name] = repos[r].data
    BY <2>2 DEF Settled, Repos, IsDir, HoldsRepo
  <2> QED
    BY <2>3, <2>4 DEF DirectoriesFollowRows
<1> QED
  BY <1>1, StoreInvariant, PTL

\* A rescan that removes what is obsolete, with a list that is still right, ends
\* with a row for every repository on disk and for no other, whatever had gone
\* wrong with them before.
THEOREM Healed == Spec => RescanHeals
<1> DEFINE Step == scan # None /\ scan' = None /\ ~suspect' /\ suspect =>
                     {repos'[r].name : r \in {r \in RepoIds : repos'[r] # None}} = RepoPaths
<1>1. Inv /\ [Next]_vars => Step
  <2>1. SUFFICES ASSUME Inv, [Next]_vars, scan # None, scan' = None, ~suspect', suspect
                 PROVE  {repos'[r].name : r \in {r \in RepoIds : repos'[r] # None}} = RepoPaths
    OBVIOUS
  <2>2. PICK removeObsolete \in BOOLEAN : MapRepos(removeObsolete)
    <3>1. ~(GroupRequest \/ RepoRequest \/ Scan)
      <4>1. ~GroupRequest
        <5>1. \A g, parent, own : AddGroup(g, parent, own) => scan' = scan
          BY DEF AddGroup
        <5>2. \A g : RemoveGroup(g) => scan' = scan
          BY DEF RemoveGroup
        <5>3. \A g, parent, own : ChangeGroup(g, parent, own) => scan' = scan
          BY DEF ChangeGroup
        <5>4. \A g : DeleteGroup(g) \/ DeleteGroupViaApi(g) => scan' = scan
          BY <5>2 DEF DeleteGroup, DeleteGroupViaApi
        <5>5. \A g, own : UpdateGroupViaApi(g, own) => scan' = scan
          BY <5>3 DEF UpdateGroupViaApi
        <5>6. \A g, parent, own :
                \/ CreateGroup(g, parent, own) \/ UpdateGroup(g, parent, own)
                \/ CreateGroupViaApi(g, parent, own)
                => scan' = scan
          BY <5>1, <5>3 DEF CreateGroup, UpdateGroup, CreateGroupViaApi
        <5> QED
          BY <2>1, <5>4, <5>5, <5>6 DEF GroupRequest
      <4>2. ~RepoRequest
        <5>1. \A r, forks : RemoveRepo(r, forks) => scan' = scan
          BY DEF RemoveRepo
        <5>2. \A r, group, own : ChangeRepo(r, group, own) => scan' = scan
          BY DEF ChangeRepo
        <5>3. \A t, group, own, fork : Submit(t, group, own, fork) => scan' = scan
          BY DEF Submit
        <5>4. \A r, forks : DeleteRepo(r, forks) \/ DeleteRepoViaApi(r, forks) => scan' = scan
          BY <5>1 DEF DeleteRepo, DeleteRepoViaApi
        <5>5. \A r, group, own :
                UpdateRepo(r, group, own) \/ UpdateRepoViaApi(r, group, own) => scan' = scan
          BY <5>2 DEF UpdateRepo, UpdateRepoViaApi
        <5>6. \A t, group, own :
                SubmitRepo(t, group, own) \/ SubmitRepoViaApi(t, group, own) => scan' = scan
          BY <5>3 DEF SubmitRepo, SubmitRepoViaApi
        <5>7. \A t, group, own, source :
                SubmitFork(t, group, own, source) \/ SubmitForkViaApi(t, group, own, source)
                => scan' = scan
          BY <5>3 DEF SubmitFork, SubmitForkViaApi
        <5> QED
          BY <2>1, <5>4, <5>5, <5>6, <5>7 DEF RepoRequest
      <4>3. ~Scan
        BY <2>1 DEF Scan
      <4> QED
        BY <4>1, <4>2, <4>3
    <3>2. ~ \E t \in Tasks : TaskStep(t)
      <4>1. \A t \in Tasks : TaskStep(t) => scan' = scan
        BY DEF TaskStep, InsertRow, SourceGone, MakeDirectory, MakeDirectoryFails, SetCreated,
          SetCreatedFails, TaskDies, CleanUp
      <4> QED
        BY <2>1, <4>1
    <3>3. ~ UNCHANGED vars
      BY <2>1 DEF vars
    <3> QED
      BY <2>1, <3>1, <3>2, <3>3 DEF Next
  <2>3. Heals(removeObsolete)
    BY <2>1, <2>2 DEF MapRepos
  <2>4. \A p : HasRow(repos, p)' <=> p \in RepoPaths
    BY <2>1, <2>2, <2>3, MapReposKeeps
  <2>5. \A p : p \in {repos'[r].name : r \in {r \in RepoIds : repos'[r] # None}}
                 <=> HasRow(repos, p)'
    BY DEF HasRow
  <2> QED
    BY <2>4, <2>5
<1>2. Spec => []Inv
  BY StoreInvariant
<1> QED
  BY <1>1, <1>2, PTL DEF Spec, RescanHeals

\* A row that is created stays so, with its data, or is removed.
DataKept ==
  \A r \in RepoIds : repos[r] # None /\ repos[r].state = "created" =>
    repos'[r] = None \/ (repos'[r].state = "created" /\ repos'[r].data = repos[r].data)

\* What removes rows leaves the data of the others alone.
LEMMA WithoutKeepsData ==
  ASSUME Inv, NEW gone \in SUBSET RepoIds, repos' = Without(gone) \/ repos' = repos
  PROVE  DataKept
<1>1. PICK nr : nr = Without(gone)
  OBVIOUS
<1>2. RowsOK(groups, repos)
  BY DEF Inv
<1>3. \A s \in RepoIds : nr[s] # None => nr[s].state = repos[s].state /\ nr[s].data = repos[s].data
  BY <1>1, <1>2, WithoutFacts
<1> QED
  BY <1>1, <1>3 DEF DataKept

\* No request about groups changes what data a repository has.
LEMMA GroupRequestData ==
  ASSUME Inv, GroupRequest
  PROVE  DataKept
<1>1. repos' = repos => DataKept
  BY DEF DataKept
<1>2. ASSUME NEW g \in Groups, NEW parent \in Groups \cup {None}, NEW own \in Names,
             ChangeGroup(g, parent, own)
      PROVE  DataKept
  <2>1. PICK path : path = NewName(parent, own)
    OBVIOUS
  <2>2. PICK nr : nr = UpdatedRepos(g, path)
    OBVIOUS
  <2>3. TreeOK(groups) /\ RowsOK(groups, repos)
    BY DEF Inv
  <2>4. path \in Path
    BY <2>1, <2>3, NameFacts
  <2>5. \A r \in RepoIds : repos[r] # None => nr[r].state = repos[r].state /\ nr[r].data = repos[r].data
    <3>1. PICK a : a = groups[g].name
      OBVIOUS
    <3>2. /\ TreeOK(groups) /\ RowsOK(groups, repos) /\ g \in Groups /\ path \in Path
          /\ nr = UpdatedRepos(g, path)
      BY <1>2, <2>2, <2>3, <2>4
    <3>3. /\ nr \in [RepoIds -> RepoRow \cup {None}]
          /\ \A r \in RepoIds : repos[r] = None => nr[r] = None
          /\ \A r \in RepoIds : repos[r] # None =>
               /\ nr[r] \in RepoRow /\ nr[r] # None
               /\ nr[r].group = repos[r].group /\ nr[r].fork = repos[r].fork
               /\ nr[r].state = repos[r].state /\ nr[r].data = repos[r].data
               /\ nr[r].name =
                    IF repos[r].group # None /\ Below(a, groups[repos[r].group].name)
                    THEN Rebased(groups[repos[r].group].name, a, path) \o <<Own(repos[r].name)>>
                    ELSE repos[r].name
      BY ONLY <3>1, <3>2, UpdatedReposAre
    <3> QED
      BY <3>3
  <2>6. repos' = nr \/ repos' = repos
    BY <1>2, <2>1, <2>2 DEF ChangeGroup, Commit
  <2> QED
    BY <2>5, <2>6 DEF DataKept
<1>3. ASSUME NEW g \in GroupIds, NEW parent \in Groups \cup {None}, NEW own \in Names,
             AddGroup(g, parent, own)
      PROVE  DataKept
  BY <1>1, <1>3 DEF AddGroup, Commit
<1>4. PICK g \in GroupIds :
        \/ DeleteGroup(g)
        \/ DeleteGroupViaApi(g)
        \/ \E own \in Names : UpdateGroupViaApi(g, own)
        \/ \E parent \in Groups \cup {None}, own \in Names :
             \/ CreateGroup(g, parent, own) \/ UpdateGroup(g, parent, own)
             \/ CreateGroupViaApi(g, parent, own)
  BY DEF GroupRequest
<1>5. CASE DeleteGroup(g) \/ DeleteGroupViaApi(g)
  BY <1>1, <1>5 DEF DeleteGroup, DeleteGroupViaApi, RemoveGroup, Commit
<1>6. CASE \E own \in Names : UpdateGroupViaApi(g, own)
  <2>1. PICK own \in Names : g \in Groups /\ ChangeGroup(g, groups[g].parent, own)
    BY <1>6 DEF UpdateGroupViaApi
  <2>2. PICK parent : parent = groups[g].parent
    OBVIOUS
  <2>3. parent \in Groups \cup {None}
    BY <2>1, <2>2, TreeIs, ParentFacts DEF Inv
  <2> QED
    BY <1>2, <2>1, <2>2, <2>3
<1>7. CASE \E parent \in Groups \cup {None}, own \in Names :
             \/ CreateGroup(g, parent, own) \/ UpdateGroup(g, parent, own)
             \/ CreateGroupViaApi(g, parent, own)
  BY <1>2, <1>3, <1>7 DEF CreateGroup, UpdateGroup, CreateGroupViaApi
<1> QED
  BY <1>4, <1>5, <1>6, <1>7

\* Nor does a request about repositories, but for those that it removes.
LEMMA RepoRequestData ==
  ASSUME Inv, RepoRequest
  PROVE  DataKept
<1>1. ASSUME NEW r \in RepoIds, NEW forks, RemoveRepo(r, forks)
      PROVE  DataKept
  <2>1. PICK gone : gone = IF forks = "delete" THEN WithForks(r) ELSE {r}
    OBVIOUS
  <2>2. r \in Repos /\ (repos' = Without(gone) \/ repos' = repos)
    BY <1>1, <2>1 DEF RemoveRepo, Commit
  <2>3. gone \in SUBSET RepoIds
    BY <2>1, <2>2, WithForksAre DEF Repos
  <2> QED
    BY <2>2, <2>3, WithoutKeepsData
<1>2. ASSUME NEW r \in Repos, NEW group \in Groups \cup {None}, NEW own \in Names,
             ChangeRepo(r, group, own)
      PROVE  DataKept
  <2>1. PICK name : name = NewName(group, own)
    OBVIOUS
  <2>2. PICK nr : nr = Changed(r, group, name)
    OBVIOUS
  <2>3. TreeOK(groups) /\ RowsOK(groups, repos)
    BY DEF Inv
  <2>4. name \in Path
    BY <2>1, <2>3, NameFacts
  <2>5. /\ \A s \in RepoIds : s # r => nr[s] = repos[s]
        /\ nr[r].state = repos[r].state /\ nr[r].data = repos[r].data
    BY <2>2, <2>3, <2>4, ChangedRepo
  <2>6. repos' = nr \/ repos' = repos
    BY <1>2, <2>1, <2>2 DEF ChangeRepo, Changed, Commit
  <2> QED
    BY <2>5, <2>6 DEF DataKept
<1>3. ASSUME repos' = repos
      PROVE  DataKept
  BY <1>3 DEF DataKept
<1>4. CASE \E r \in RepoIds, forks \in {None, "detach", "delete"} :
             DeleteRepo(r, forks) \/ DeleteRepoViaApi(r, forks)
  BY <1>1, <1>4 DEF DeleteRepo, DeleteRepoViaApi
<1>5. CASE \E group \in Groups \cup {None}, own \in Names, r \in RepoIds :
             UpdateRepo(r, group, own) \/ UpdateRepoViaApi(r, group, own)
  BY <1>2, <1>5 DEF UpdateRepo, UpdateRepoViaApi, Reached
<1>6. CASE \E group \in Groups \cup {None}, own \in Names, t \in Tasks :
             \/ SubmitRepo(t, group, own) \/ SubmitRepoViaApi(t, group, own)
             \/ \E source \in Repos :
                  SubmitFork(t, group, own, source) \/ SubmitForkViaApi(t, group, own, source)
  BY <1>3, <1>6 DEF SubmitRepo, SubmitRepoViaApi, SubmitFork, SubmitForkViaApi, Submit
<1> QED
  BY <1>4, <1>5, <1>6 DEF RepoRequest

\* A task that changes the directories keeps the data of the rows that stay.
LEMMA TaskStepData ==
  ASSUME Inv, NEW t \in Tasks, TaskStep(t)
  PROVE  disk' = disk \/ DataKept
<1>1. ASSUME CleanUp(t)
      PROVE  DataKept
  <2>1. CASE RepoNamed(tasks[t].full) = {}
    BY <1>1, <2>1 DEF CleanUp, DataKept
  <2>2. CASE RepoNamed(tasks[t].full) # {}
    <3>1. PICK r \in RepoNamed(tasks[t].full) : repos' = Without({r})
      BY <1>1, <2>2 DEF CleanUp
    <3>2. PICK gone : gone = {r}
      OBVIOUS
    <3>3. gone \in SUBSET RepoIds /\ repos' = Without(gone)
      BY <3>1, <3>2 DEF RepoNamed, Repos
    <3> QED
      BY <3>3, WithoutKeepsData
  <2> QED
    BY <2>1, <2>2
<1>2. CASE \E r \in RepoIds : InsertRow(t, r)
  BY <1>2 DEF InsertRow
<1>3. CASE SourceGone(t) \/ MakeDirectory(t)
  BY <1>3 DEF SourceGone, MakeDirectory, DataKept
<1>4. CASE MakeDirectoryFails(t) \/ SetCreatedFails(t)
  BY <1>1, <1>4 DEF MakeDirectoryFails, SetCreatedFails
<1>5. CASE SetCreated(t) \/ TaskDies(t)
  BY <1>5 DEF SetCreated, TaskDies
<1> QED
  BY <1>2, <1>3, <1>4, <1>5 DEF TaskStep

\* No directory that a created row counts on is archived without that row,
\* unless the step is known to have done so.
THEOREM DataLeaves == Spec => DataLeavesWithItsRow
<1> DEFINE Step == \A r \in Repos :
              repos[r].state = "created" /\ repos[r].data \in OnDisk /\ ~suspect' =>
                \/ repos[r].data \in {disk'[p] : p \in DOMAIN disk'}
                \/ repos'[r] = None
<1>1. Inv /\ [Next]_vars => Step
  <2>1. SUFFICES ASSUME Inv, [Next]_vars PROVE Step
    OBVIOUS
  <2>2. disk' = disk \/ DataKept
    <3>1. Scan \/ (\E removeObsolete \in BOOLEAN : MapRepos(removeObsolete)) \/ UNCHANGED vars
            => disk' = disk
      BY DEF Scan, MapRepos, vars
    <3> QED
      BY <2>1, <3>1, GroupRequestData, RepoRequestData, TaskStepData DEF Next
  <2>3. ASSUME NEW r \in Repos, repos[r].state = "created", ~suspect', DataKept, repos'[r] # None
        PROVE  repos[r].data \in {disk'[p] : p \in DOMAIN disk'}
    <3>1. r \in RepoIds /\ repos'[r].state = "created" /\ repos'[r].data = repos[r].data
      BY <2>3 DEF DataKept, Repos
    <3>2. Inv'
      BY <2>1, NextInv
    <3>3. Settled(groups', repos', disk')
      BY <2>3, <3>2 DEF Inv
    <3>4. repos'[r].name \in DOMAIN disk' /\ disk'[repos'[r].name] = repos'[r].data
      BY <2>3, <3>1, <3>3 DEF Settled
    <3> QED
      BY <3>1, <3>4
  <2> QED
    BY <2>2, <2>3 DEF OnDisk
<1>2. Spec => []Inv
  BY StoreInvariant
<1> QED
  BY <1>1, <1>2, PTL DEF Spec, DataLeavesWithItsRow

=============================================================================
