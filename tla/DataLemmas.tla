----------------------------- MODULE DataLemmas -----------------------------
(* What the proofs about queries, filters and sorting rest on: induction in  *)
(* a form that needs no predicate as a parameter, and what the operators of  *)
(* Ranks return.                                                             *)
EXTENDS Ranks, SequencesExt, SequenceTheorems, FiniteSetTheorems, FunctionTheorems, NaturalsInduction, WellFoundedInduction, TLAPS

\* Induction, for a set in place of a predicate.
LEMMA NatBySet ==
  ASSUME NEW S, 0 \in S, \A n \in Nat : n \in S => n + 1 \in S
  PROVE  \A n \in Nat : n \in S
<1> SUFFICES ASSUME Nat \ S # {} PROVE FALSE
    OBVIOUS
<1>1. PICK x \in Nat \ S : \A y \in Nat \ S : <<y, x>> \notin OpToRel(<, Nat)
      BY NatLessThanWellFounded, WFMin, Zenon
<1>2. \A y \in Nat \ S : <<y, x>> \in Nat \X Nat /\ <<y, x>>[1] = y /\ <<y, x>>[2] = x
      OBVIOUS
<1>3. \A y \in Nat \ S : ~(<<y, x>>[1] < <<y, x>>[2])
      BY <1>1, <1>2, Zenon DEF OpToRel
<1>4. \A y \in Nat \ S : ~(y < x)
      BY <1>2, <1>3
<1>5. x # 0 /\ x - 1 \in Nat /\ x - 1 < x
      OBVIOUS
<1>6. x - 1 \in S
      BY <1>4, <1>5
<1> QED
    BY <1>5, <1>6

\* A function is defined by its first value and by what makes each value from the one
\* before it: F[i] does so at i.
Recurs(g, n, V, base, F) ==
  g \in [0..n -> V] /\ g[0] = base /\ \A i \in 1..n : g[i] = F[i][g[i - 1]]

LEMMA RecursionExists ==
  ASSUME NEW n \in Nat, NEW V, NEW base \in V, NEW F \in [1..n -> [V -> V]]
  PROVE  \E g : Recurs(g, n, V, base, F)
<1> DEFINE Good(g, k) == g[0] = base /\ \A i \in 1..k : g[i] = F[i][g[i - 1]]
           S == {k \in Nat : k <= n => \E g \in [0..k -> V] : Good(g, k)}
<1>1. 0 \in S
      <2> DEFINE g == [i \in 0..0 |-> base]
      <2>1. g \in [0..0 -> V] /\ Good(g, 0)
            OBVIOUS
      <2> QED
          BY <2>1
<1>2. ASSUME NEW k \in Nat, k \in S PROVE k + 1 \in S
      <2> SUFFICES ASSUME k + 1 <= n PROVE \E g \in [0..k + 1 -> V] : Good(g, k + 1)
          OBVIOUS
      <2>1. PICK g \in [0..k -> V] : Good(g, k)
            BY <1>2
      <2> DEFINE h == [i \in 0..k + 1 |-> IF i = k + 1 THEN F[k + 1][g[k]] ELSE g[i]]
      <2>2. F[k + 1][g[k]] \in V
            OBVIOUS
      <2>3. h \in [0..k + 1 -> V]
            BY <2>2
      <2>4. Good(h, k + 1)
            <3>1. h[0] = base
                  BY <2>1
            <3>2. ASSUME NEW i \in 1..k + 1 PROVE h[i] = F[i][h[i - 1]]
                  <4>1. i - 1 \in 0..k /\ h[i - 1] = g[i - 1]
                        OBVIOUS
                  <4>2. CASE i = k + 1
                        <5>1. h[i] = F[k + 1][g[k]] /\ h[i - 1] = g[k]
                              BY <4>1, <4>2
                        <5> HIDE DEF h
                        <5> QED
                            BY <5>1, <4>2
                  <4>3. CASE i # k + 1
                        <5>1. i \in 1..k /\ h[i] = g[i]
                              BY <4>3
                        <5> QED
                            BY <2>1, <4>1, <5>1
                  <4> QED
                      BY <4>2, <4>3
            <3> QED
                BY <3>1, <3>2
      <2> QED
          BY <2>3, <2>4
<1> HIDE DEF S
<1>3. n \in S
      BY <1>1, <1>2, NatBySet
<1> QED
    BY <1>3 DEF S, Recurs

\* What such a definition returns stays in V.
LEMMA RecursionIs ==
  ASSUME NEW n \in Nat, NEW V, NEW base \in V, NEW F \in [1..n -> [V -> V]], NEW r,
         r = [i \in 0..n |-> r[i]], r[0] = base, \A i \in 1..n : r[i - 1] \in V => r[i] = F[i][r[i - 1]]
  PROVE  Recurs(r, n, V, base, F)
<1> DEFINE S == {i \in Nat : i <= n => r[i] \in V}
<1>1. 0 \in S
      OBVIOUS
<1>2. ASSUME NEW i \in Nat, i \in S PROVE i + 1 \in S
      <2> SUFFICES ASSUME i + 1 <= n PROVE r[i + 1] \in V
          OBVIOUS
      <2> DEFINE j == i + 1
      <2>1. j \in 1..n /\ r[j - 1] \in V
            <3>1. r[i] \in V /\ j - 1 = i /\ j \in 1..n
                  BY <1>2
            <3> QED
                BY <3>1, Zenon
      <2> HIDE DEF j
      <2>2. r[j] = F[j][r[j - 1]]
            BY <2>1
      <2>3. r[j] \in V
            BY <2>1, <2>2
      <2> QED
          BY <2>3 DEF j
<1> HIDE DEF S
<1>3. \A i \in Nat : i \in S
      BY <1>1, <1>2, NatBySet
<1>4. \A i \in 0..n : r[i] \in V
      BY <1>3 DEF S
<1>5. r \in [0..n -> V]
      BY <1>4
<1>6. \A i \in 1..n : r[i] = F[i][r[i - 1]]
      <2> TAKE i \in 1..n
      <2>1. i - 1 \in 0..n
            OBVIOUS
      <2> QED
          BY <1>4, <2>1
<1> QED
    BY <1>5, <1>6 DEF Recurs

-----------------------------------------------------------------------------
\* Order puts the elements of S in a line.
LinesUp(S, order) ==
  /\ \A x \in S : <<x, x>> \notin order
  /\ \A x, y, z \in S : <<x, y>> \in order /\ <<y, z>> \in order => <<x, z>> \in order
  /\ \A x, y \in S : x = y \/ <<x, y>> \in order \/ <<y, x>> \in order

LEMMA FewerInFront ==
  ASSUME NEW S, IsFiniteSet(S), NEW order, NEW x \in S, <<x, x>> \notin order
  PROVE  /\ IsFiniteSet(InFront(S, order, x))
         /\ Cardinality(InFront(S, order, x)) \in 0..Cardinality(S) - 1
<1> DEFINE A == InFront(S, order, x)
<1>1. A \in SUBSET S /\ A # S
      BY DEF InFront
<1>2. IsFiniteSet(A) /\ Cardinality(A) <= Cardinality(S) /\ Cardinality(S) # Cardinality(A)
      BY <1>1, FS_Subset
<1>3. Cardinality(A) \in Nat /\ Cardinality(S) \in Nat
      BY <1>2, FS_CardinalityType
<1> QED
    BY <1>2, <1>3

LEMMA MoreInFront ==
  ASSUME NEW S, IsFiniteSet(S), NEW order, LinesUp(S, order), NEW x \in S, NEW y \in S
  PROVE  Cardinality(InFront(S, order, x)) < Cardinality(InFront(S, order, y)) <=> <<x, y>> \in order
<1> DEFINE C(z) == Cardinality(InFront(S, order, z))
<1>1. \A z \in S : IsFiniteSet(InFront(S, order, z)) /\ C(z) \in Nat
      BY FewerInFront, FS_CardinalityType DEF LinesUp
<1>2. ASSUME NEW u \in S, NEW v \in S, <<u, v>> \in order
      PROVE  C(u) < C(v)
      <2>1. InFront(S, order, u) \in SUBSET InFront(S, order, v)
            BY <1>2 DEF LinesUp, InFront
      <2>2. u \in InFront(S, order, v) /\ u \notin InFront(S, order, u)
            BY <1>2 DEF LinesUp, InFront
      <2>3. C(u) <= C(v) /\ C(v) # C(u)
            BY <1>1, <2>1, <2>2, FS_Subset
      <2> QED
          BY <1>1, <2>3
<1>3. CASE <<x, y>> \in order
      BY <1>2, <1>3
<1>4. CASE <<x, y>> \notin order
      <2>1. x = y \/ C(y) < C(x)
            BY <1>2, <1>4 DEF LinesUp
      <2> QED
          BY <1>1, <1>4, <2>1
<1> QED
    BY <1>3, <1>4

\* Every rank is taken.
LEMMA SomeoneIsAt ==
  ASSUME NEW S, IsFiniteSet(S), NEW order, LinesUp(S, order), NEW n \in 1..Cardinality(S)
  PROVE  \E x \in S : Cardinality(InFront(S, order, x)) = n - 1
<1> DEFINE T == 0..Cardinality(S) - 1
           f == [x \in S |-> Cardinality(InFront(S, order, x))]
<1>1. Cardinality(S) \in Nat
      BY FS_CardinalityType
<1>2. IsFiniteSet(T) /\ Cardinality(T) = Cardinality(S)
      <2> DEFINE c == Cardinality(S)
      <2>1. c \in Nat /\ 0 \in Int /\ c - 1 \in Int /\ T = 0..c - 1
            BY <1>1
      <2> HIDE DEF c, T
      <2>2. IsFiniteSet(0..c - 1) /\ Cardinality(0..c - 1) = IF 0 > c - 1 THEN 0 ELSE c - 1 - 0 + 1
            BY <2>1, FS_Interval
      <2>3. IsFiniteSet(T) /\ Cardinality(T) = c
            BY <2>1, <2>2
      <2> QED
          BY <2>3 DEF c
<1>3. f \in [S -> T]
      BY FewerInFront DEF LinesUp
<1>4. \A x, y \in S : f[x] = f[y] => x = y
      BY MoreInFront, <1>3, <1>1 DEF LinesUp
<1>5. f \in Injection(S, T)
      BY <1>3, <1>4 DEF Injection, IsInjective
<1>6. f \in Surjection(S, T)
      BY <1>2, <1>5, FS_Injection
<1>7. n - 1 \in T
      BY <1>1
<1> QED
    BY <1>6, <1>7 DEF Surjection

\* Every element of S once, in the order; x is behind those that are in front of it.
IsArranged(a, S, order) ==
  /\ Cardinality(S) \in Nat /\ a \in [1..Cardinality(S) -> S] /\ a \in Seq(S) /\ Len(a) = Cardinality(S)
  /\ \A n \in 1..Cardinality(S) : Cardinality(InFront(S, order, a[n])) = n - 1
  /\ \A x \in S : /\ Cardinality(InFront(S, order, x)) + 1 \in 1..Cardinality(S)
                  /\ a[Cardinality(InFront(S, order, x)) + 1] = x
  /\ \A i, j \in 1..Cardinality(S) : i < j <=> <<a[i], a[j]>> \in order
  /\ \A i, j \in 1..Cardinality(S) : a[i] = a[j] => i = j

LEMMA ArrangedIs ==
  ASSUME NEW S, IsFiniteSet(S), NEW order, LinesUp(S, order)
  PROVE  IsArranged(Arranged(S, order), S, order)
<1> DEFINE a == Arranged(S, order)
           C(z) == Cardinality(InFront(S, order, z))
<1>1. Cardinality(S) \in Nat
      BY FS_CardinalityType
<1>2. \A n \in 1..Cardinality(S) : a[n] \in S /\ C(a[n]) = n - 1
      BY SomeoneIsAt DEF Arranged
<1>3. a \in [1..Cardinality(S) -> S]
      <2>1. a = [n \in 1..Cardinality(S) |-> a[n]]
            BY DEF Arranged
      <2> HIDE DEF a
      <2> QED
          BY <1>2, <2>1
<1>4. a \in Seq(S) /\ Len(a) = Cardinality(S)
      BY <1>1, <1>3
<1>5. \A x \in S : C(x) \in 0..Cardinality(S) - 1
      BY FewerInFront DEF LinesUp
<1>6. \A i, j \in 1..Cardinality(S) : i < j <=> <<a[i], a[j]>> \in order
      <2> TAKE i, j \in 1..Cardinality(S)
      <2>1. C(a[i]) < C(a[j]) <=> <<a[i], a[j]>> \in order
            BY <1>2, MoreInFront
      <2> QED
          BY <1>1, <1>2, <2>1
<1>7. \A i, j \in 1..Cardinality(S) : a[i] = a[j] => i = j
      BY <1>1, <1>2
<1>8. \A x \in S : C(x) + 1 \in 1..Cardinality(S) /\ a[C(x) + 1] = x
      <2> TAKE x \in S
      <2>1. C(x) + 1 \in 1..Cardinality(S)
            BY <1>1, <1>5
      <2>2. C(a[C(x) + 1]) = C(x) /\ a[C(x) + 1] \in S
            BY <1>1, <1>2, <1>5, <2>1
      <2>3. <<x, a[C(x) + 1]>> \notin order /\ <<a[C(x) + 1], x>> \notin order
            BY <1>1, <1>5, <2>2, MoreInFront
      <2> QED
          BY <2>1, <2>2, <2>3 DEF LinesUp
<1> QED
    BY <1>1, <1>2, <1>3, <1>4, <1>6, <1>7, <1>8 DEF IsArranged

\* The members of a set of numbers, the smallest first.
IsAscending(a, S) ==
  /\ Cardinality(S) \in Nat /\ a \in [1..Cardinality(S) -> S] /\ a \in Seq(S) /\ Len(a) = Cardinality(S)
  /\ \A x \in S : \E n \in 1..Cardinality(S) : a[n] = x
  /\ \A i, j \in 1..Cardinality(S) : i < j <=> a[i] < a[j]

LEMMA AscendingIs ==
  ASSUME NEW S \in SUBSET Int, IsFiniteSet(S)
  PROVE  IsAscending(Ascending(S), S)
<1> DEFINE order == {p \in S \X S : p[1] < p[2]}
           a == Arranged(S, order)
<1>1. \A x, y \in S : <<x, y>> \in order <=> x < y
      OBVIOUS
<1>2. LinesUp(S, order)
      BY <1>1 DEF LinesUp
<1>3. Ascending(S) = a
      BY DEF Ascending
<1>4. IsArranged(a, S, order)
      BY <1>2, ArrangedIs
<1> HIDE DEF order, a
<1>5. \A i, j \in 1..Cardinality(S) : i < j <=> a[i] < a[j]
      BY <1>1, <1>4 DEF IsArranged
<1>6. \A x \in S : \E n \in 1..Cardinality(S) : a[n] = x
      BY <1>4 DEF IsArranged
<1> QED
    BY <1>3, <1>4, <1>5, <1>6 DEF IsArranged, IsAscending

\* What is picked is what stood at those positions, each once and in the same order:
\* the n-th picked stood at from[n].
IsPicked(p, s, at, from) ==
  /\ IsAscending(from, at) /\ Len(p) = Cardinality(at) /\ DOMAIN p = 1..Cardinality(at)
  /\ \A n \in 1..Cardinality(at) : from[n] \in at /\ p[n] = s[from[n]]

LEMMA PickedIs ==
  ASSUME NEW T, NEW s \in Seq(T), NEW at \in SUBSET DOMAIN s
  PROVE  Picked(s, at) \in Seq(T) /\ IsPicked(Picked(s, at), s, at, Ascending(at))
<1> DEFINE from == Ascending(at)
<1>1. IsFiniteSet(at) /\ at \in SUBSET Int
      BY FS_Interval, FS_Subset
<1>2. IsAscending(from, at)
      BY <1>1, AscendingIs
<1>3. Picked(s, at) = [n \in 1..Cardinality(at) |-> s[from[n]]]
      BY <1>2 DEF Picked, IsAscending
<1> HIDE DEF from
<1>4. \A n \in 1..Cardinality(at) : from[n] \in at /\ s[from[n]] \in T
      BY <1>2 DEF IsAscending
<1>5. Picked(s, at) \in Seq(T) /\ Len(Picked(s, at)) = Cardinality(at)
      BY <1>2, <1>3, <1>4 DEF IsAscending
<1> QED
    BY <1>2, <1>3, <1>4, <1>5 DEF from, IsPicked

\* As a set, what is picked is what stood there.
LEMMA PickedSet ==
  ASSUME NEW T, NEW s \in Seq(T), NEW at \in SUBSET DOMAIN s
  PROVE  {Picked(s, at)[n] : n \in DOMAIN Picked(s, at)} = {s[i] : i \in at}
<1> DEFINE p == Picked(s, at)
           from == Ascending(at)
<1>1. IsPicked(p, s, at, from)
      BY PickedIs
<1> HIDE DEF p, from
<1>2. ASSUME NEW i \in at PROVE \E n \in DOMAIN p : p[n] = s[i]
      <2>1. PICK m \in 1..Cardinality(at) : from[m] = i
            BY <1>1 DEF IsPicked, IsAscending
      <2>2. p[m] = s[from[m]] /\ m \in DOMAIN p
            BY <1>1 DEF IsPicked
      <2> QED
          BY <2>1, <2>2, Zenon
<1>3. ASSUME NEW n \in DOMAIN p PROVE \E i \in at : p[n] = s[i]
      BY <1>1 DEF IsPicked, IsAscending
<1>4. {p[n] : n \in DOMAIN p} = {s[i] : i \in at}
      BY <1>2, <1>3
<1> QED
    BY <1>4 DEF p

-----------------------------------------------------------------------------
(* Lists.                                                                   *)

LEMMA FirstExists ==
  ASSUME NEW P, P # {}, P \subseteq Nat
  PROVE  \E i \in P : \A j \in P : i <= j
<1>1. PICK x \in P : \A y \in P : <<y, x>> \notin OpToRel(<, Nat)
      BY NatLessThanWellFounded, WFMin, Zenon
<1>2. \A y \in P : <<y, x>> \in Nat \X Nat /\ <<y, x>>[1] = y /\ <<y, x>>[2] = x
      OBVIOUS
<1>3. \A y \in P : ~(<<y, x>>[1] < <<y, x>>[2])
      BY <1>1, <1>2, Zenon DEF OpToRel
<1> QED
    BY <1>2, <1>3

\* Min and Max are what they say.
LEMMA FirstIs ==
  ASSUME NEW P, P # {}, P \subseteq Nat
  PROVE  Min(P) \in P /\ \A n \in P : Min(P) <= n
<1>1. \E x \in P : \A y \in P : x <= y
      BY FirstExists
<1> QED
    BY <1>1 DEF Min

LEMMA LastIs ==
  ASSUME NEW n \in Nat, NEW P \in SUBSET (1..n), P # {}
  PROVE  Max(P) \in P /\ \A y \in P : y <= Max(P)
<1> DEFINE R == {n - y : y \in P}
<1>0. \A y \in P : y \in Nat /\ n - y \in Nat
      <2> TAKE y \in P
      <2>1. y \in 1..n
            OBVIOUS
      <2> QED
          BY <2>1
<1>1. R # {} /\ R \subseteq Nat
      BY <1>0
<1>2. PICK i \in R : \A j \in R : i <= j
      <2> HIDE DEF R
      <2> QED
          BY <1>1, FirstExists
<1>3. PICK x \in P : i = n - x
      OBVIOUS
<1>4. \A y \in P : x >= y
      <2> TAKE y \in P
      <2>1. n - x <= n - y
            BY <1>2, <1>3
      <2>2. x \in Int /\ y \in Int
            BY <1>0
      <2> QED
          BY <2>1, <2>2
<1>5. Max(P) \in P /\ \A y \in P : Max(P) >= y
      BY <1>4 DEF Max
<1> QED
    BY <1>5

IsList(s) == \E T : s \in Seq(T)

LEMMA Lengths ==
  ASSUME NEW s, IsList(s)
  PROVE  /\ Len(s) \in Nat /\ DOMAIN s = 1..Len(s) /\ s \in Seq(ToSet(s)) /\ s \in [1..Len(s) -> ToSet(s)]
         /\ ToSet(s) = {s[i] : i \in DOMAIN s}
<1>1. PICK T : s \in Seq(T)
      BY DEF IsList
<1>2. Len(s) \in Nat /\ DOMAIN s = 1..Len(s) /\ s \in [1..Len(s) -> T]
      BY <1>1
<1>3. ToSet(s) = {s[i] : i \in DOMAIN s}
      BY DEF ToSet
<1>4. s \in [1..Len(s) -> ToSet(s)]
      BY <1>2, <1>3
<1> QED
    BY <1>2, <1>3, <1>4

LEMMA Longer ==
  ASSUME NEW s, IsList(s), NEW x
  PROVE  /\ IsList(Append(s, x)) /\ Len(Append(s, x)) = Len(s) + 1
         /\ \A i \in DOMAIN s : Append(s, x)[i] = s[i]
         /\ Append(s, x)[Len(s) + 1] = x
<1>1. PICK T : s \in Seq(T)
      BY DEF IsList
<1>2. s \in Seq(T \cup {x}) /\ x \in T \cup {x}
      BY <1>1
<1>3. Append(s, x) \in Seq(T \cup {x})
      BY <1>2
<1> QED
    BY <1>1, <1>3 DEF IsList

LEMMA Concatenated ==
  ASSUME NEW s, IsList(s), NEW t, IsList(t)
  PROVE  IsList(s \o t) /\ ToSet(s \o t) = ToSet(s) \cup ToSet(t)
<1>1. s \in Seq(ToSet(s) \cup ToSet(t)) /\ t \in Seq(ToSet(s) \cup ToSet(t))
      BY Lengths, SeqMonotonic
<1> DEFINE U == ToSet(s) \cup ToSet(t)
           c == s \o t
<1> HIDE DEF U
<1>2. s \in Seq(U) /\ t \in Seq(U)
      BY <1>1 DEF U
<1>3. c \in Seq(U) /\ Len(c) = Len(s) + Len(t)
      /\ \A i \in 1..Len(s) + Len(t) : c[i] = IF i <= Len(s) THEN s[i] ELSE t[i - Len(s)]
      BY <1>2, ConcatProperties
<1> HIDE DEF c
<1>4. Len(s) \in Nat /\ Len(t) \in Nat /\ DOMAIN s = 1..Len(s) /\ DOMAIN t = 1..Len(t) /\ DOMAIN c = 1..Len(s) + Len(t)
      BY <1>2, <1>3
<1>5. ASSUME NEW i \in DOMAIN s PROVE s[i] \in ToSet(c)
      BY <1>3, <1>4 DEF ToSet
<1>6. ASSUME NEW i \in DOMAIN t PROVE t[i] \in ToSet(c)
      <2>1. Len(s) + i \in DOMAIN c /\ c[Len(s) + i] = t[i]
            BY <1>3, <1>4
      <2> QED
          BY <2>1 DEF ToSet
<1>7. ASSUME NEW i \in DOMAIN c PROVE c[i] \in ToSet(s) \cup ToSet(t)
      <2>1. CASE i <= Len(s)
            BY <1>3, <1>4, <2>1 DEF ToSet
      <2>2. CASE ~(i <= Len(s))
            <3>1. i - Len(s) \in DOMAIN t /\ c[i] = t[i - Len(s)]
                  BY <1>3, <1>4, <2>2
            <3> QED
                BY <3>1 DEF ToSet
      <2> QED
          BY <2>1, <2>2
<1>8. ToSet(c) = ToSet(s) \cup ToSet(t)
      BY <1>5, <1>6, <1>7 DEF ToSet
<1> QED
    BY <1>3, <1>8 DEF IsList, c

LEMMA Filtered ==
  ASSUME NEW s, IsList(s), NEW at \in SUBSET DOMAIN s
  PROVE  IsList(Picked(s, at)) /\ ToSet(Picked(s, at)) = {s[i] : i \in at}
<1>1. s \in Seq(ToSet(s))
      BY Lengths
<1>2. Picked(s, at) \in Seq(ToSet(s))
      BY <1>1, PickedIs
<1>3. {Picked(s, at)[n] : n \in DOMAIN Picked(s, at)} = {s[i] : i \in at}
      BY <1>1, PickedSet
<1> QED
    BY <1>2, <1>3 DEF ToSet, IsList

\* Induction over a list, for a set in place of a predicate.
LEMMA SeqBySet ==
  ASSUME NEW C, NEW S, <<>> \in S, \A s \in Seq(C), c \in C : s \in S => Append(s, c) \in S
  PROVE  \A s \in Seq(C) : s \in S
<1> DEFINE N == {n \in Nat : \A s \in Seq(C) : Len(s) = n => s \in S}
<1>1. 0 \in N
      <2>1. \A s \in Seq(C) : Len(s) = 0 => s = <<>>
            OBVIOUS
      <2> QED
          BY <2>1
<1>2. ASSUME NEW n \in Nat, n \in N PROVE n + 1 \in N
      <2> SUFFICES ASSUME NEW s \in Seq(C), Len(s) = n + 1 PROVE s \in S
          OBVIOUS
      <2> DEFINE t == SubSeq(s, 1, n)
      <2>1. t \in Seq(C) /\ Len(t) = n /\ s[n + 1] \in C
            OBVIOUS
      <2>2. s = Append(t, s[n + 1])
            OBVIOUS
      <2> HIDE DEF t
      <2>3. t \in S
            BY <1>2, <2>1
      <2> QED
          BY <2>1, <2>2, <2>3
<1> HIDE DEF N
<1>3. \A n \in Nat : n \in N
      BY <1>1, <1>2, NatBySet
<1>4. \A s \in Seq(C) : Len(s) \in Nat
      OBVIOUS
<1> QED
    BY <1>3, <1>4 DEF N

-----------------------------------------------------------------------------
(* Going through a list: T[c][v] is what the element c makes of v.          *)
FoldIs(r, s, V, base, T) ==
  \E g : Recurs(g, Len(s), V, base, [i \in 1..Len(s) |-> T[s[i]]]) /\ r = g[Len(s)]

LEMMA FoldExists ==
  ASSUME NEW C, NEW V, NEW base \in V, NEW T \in [C -> [V -> V]], NEW s \in Seq(C)
  PROVE  \E r \in V : FoldIs(r, s, V, base, T)
<1> DEFINE F == [i \in 1..Len(s) |-> T[s[i]]]
           n == Len(s)
<1>1. n \in Nat /\ F \in [1..n -> [V -> V]]
      OBVIOUS
<1>2. PICK g : Recurs(g, n, V, base, F)
      BY <1>1, RecursionExists
<1>3. g[n] \in V
      <2> HIDE DEF F
      <2>1. g \in [0..n -> V] /\ n \in 0..n
            BY <1>1, <1>2 DEF Recurs
      <2> QED
          BY <2>1
<1> QED
    BY <1>2, <1>3 DEF FoldIs

LEMMA FoldUnique ==
  ASSUME NEW C, NEW V, NEW base \in V, NEW T \in [C -> [V -> V]], NEW s \in Seq(C), NEW q, NEW r,
         FoldIs(q, s, V, base, T), FoldIs(r, s, V, base, T)
  PROVE  q = r
<1> DEFINE F == [i \in 1..Len(s) |-> T[s[i]]]
           n == Len(s)
<1>1. PICK g : Recurs(g, n, V, base, F) /\ q = g[n]
      BY DEF FoldIs
<1>2. PICK h : Recurs(h, n, V, base, F) /\ r = h[n]
      BY DEF FoldIs
<1> DEFINE S == {i \in Nat : i <= n => g[i] = h[i]}
<1>3. n \in Nat
      OBVIOUS
<1> HIDE DEF F, n
<1>4. 0 \in S
      BY <1>1, <1>2 DEF Recurs
<1>5. ASSUME NEW i \in Nat, i \in S PROVE i + 1 \in S
      <2> SUFFICES ASSUME i + 1 <= n PROVE g[i + 1] = h[i + 1]
          OBVIOUS
      <2>1. PICK j \in 1..n : j = i + 1 /\ j - 1 = i
            BY <1>3
      <2>2. g[j] = F[j][g[j - 1]] /\ h[j] = F[j][h[j - 1]]
            BY <1>1, <1>2 DEF Recurs
      <2>3. g[j - 1] = h[j - 1]
            BY <1>3, <1>5, <2>1
      <2> QED
          BY <2>1, <2>2, <2>3
<1> HIDE DEF S
<1>6. n \in S
      BY <1>3, <1>4, <1>5, NatBySet
<1> QED
    BY <1>1, <1>2, <1>3, <1>6 DEF S

LEMMA FoldEmpty ==
  ASSUME NEW V, NEW base \in V, NEW T
  PROVE  FoldIs(base, <<>>, V, base, T)
<1> DEFINE F == [i \in 1..Len(<<>>) |-> T[<<>>[i]]]
           g == [i \in 0..0 |-> base]
<1>1. Len(<<>>) = 0
      OBVIOUS
<1>2. g \in [0..0 -> V] /\ g[0] = base
      OBVIOUS
<1>3. \A i \in 1..0 : FALSE
      OBVIOUS
<1> HIDE DEF F, g
<1>4. Recurs(g, 0, V, base, F)
      BY <1>2, <1>3 DEF Recurs
<1>5. Recurs(g, Len(<<>>), V, base, F) /\ base = g[Len(<<>>)]
      BY <1>1, <1>2, <1>4
<1> QED
    BY <1>5 DEF FoldIs, F

LEMMA FoldAppend ==
  ASSUME NEW C, NEW V, NEW base \in V, NEW T \in [C -> [V -> V]], NEW s \in Seq(C), NEW c \in C, NEW r,
         FoldIs(r, s, V, base, T)
  PROVE  r \in V /\ FoldIs(T[c][r], Append(s, c), V, base, T)
<1> DEFINE n == Len(s)
           u == Append(s, c)
           F == [i \in 1..n |-> T[s[i]]]
           G == [i \in 1..n + 1 |-> T[u[i]]]
<1>1. PICK g : Recurs(g, n, V, base, F) /\ r = g[n]
      BY DEF FoldIs
<1>2. n \in Nat /\ Len(u) = n + 1 /\ (\A i \in 1..n : u[i] = s[i]) /\ u[n + 1] = c
      OBVIOUS
<1>3. r \in V
      <2> HIDE DEF F
      <2>1. g \in [0..n -> V] /\ n \in 0..n
            BY <1>1, <1>2 DEF Recurs
      <2> QED
          BY <1>1, <2>1
<1>4. T[c][r] \in V
      BY <1>3
<1> HIDE DEF n, u
<1> DEFINE h == [i \in 0..n + 1 |-> IF i = n + 1 THEN T[c][r] ELSE g[i]]
<1>5. g \in [0..n -> V] /\ g[0] = base /\ \A i \in 1..n : g[i] = T[s[i]][g[i - 1]]
      BY <1>1 DEF Recurs
<1>6. h \in [0..n + 1 -> V] /\ h[0] = base /\ h[n + 1] = T[c][r] /\ \A i \in 0..n : h[i] = g[i]
      BY <1>2, <1>4, <1>5
<1> HIDE DEF h
<1>7. ASSUME NEW i \in 1..n + 1 PROVE h[i] = G[i][h[i - 1]]
      <2>1. G[i] = T[u[i]]
            OBVIOUS
      <2>2. CASE i = n + 1
            <3>1. i - 1 = n /\ n \in 0..n
                  BY <1>2, <2>2
            <3>2. h[i - 1] = r /\ h[i] = T[c][r] /\ u[i] = c
                  BY <1>1, <1>2, <1>6, <2>2, <3>1
            <3> QED
                BY <2>1, <3>2
      <2>3. CASE i # n + 1
            <3>1. i \in 1..n /\ i \in 0..n /\ i - 1 \in 0..n
                  BY <1>2, <2>3
            <3>2. h[i] = T[s[i]][h[i - 1]] /\ u[i] = s[i]
                  BY <1>2, <1>5, <1>6, <3>1
            <3> QED
                BY <2>1, <3>2
      <2> QED
          BY <2>2, <2>3
<1> HIDE DEF G
<1>8. Recurs(h, n + 1, V, base, G)
      BY <1>6, <1>7 DEF Recurs
<1>9. FoldIs(T[c][r], u, V, base, T)
      BY <1>2, <1>6, <1>8 DEF FoldIs, G
<1> QED
    BY <1>3, <1>9 DEF u
\* The end of a list of lists put together.
Gluing(T) == [t \in Seq(T) |-> [v \in Seq(T) |-> v \o t]]

LEMMA GluingGlues ==
  ASSUME NEW T
  PROVE  /\ Gluing(T) \in [Seq(T) -> [Seq(T) -> Seq(T)]]
         /\ \A t, v \in Seq(T) : Gluing(T)[t][v] = v \o t
<1>1. \A t, v \in Seq(T) : v \o t \in Seq(T)
      OBVIOUS
<1> DEFINE V == Seq(T)
<1>2. \A t, v \in V : v \o t \in V
      BY <1>1
<1>3. Gluing(T) = [t \in V |-> [v \in V |-> v \o t]]
      BY DEF Gluing
<1> HIDE DEF V
<1>4. Gluing(T) \in [V -> [V -> V]] /\ \A t, v \in V : Gluing(T)[t][v] = v \o t
      BY <1>2, <1>3
<1> QED
    BY <1>4 DEF V

LEMMA FlattenIsFold ==
  ASSUME NEW T, NEW ss \in Seq(Seq(T))
  PROVE  FoldIs(FlattenSeq(ss), ss, Seq(T), <<>>, Gluing(T))
<1> DEFINE n == Len(ss)
           V == Seq(T)
           FF == [i \in 1..n |-> Gluing(T)[ss[i]]]
<1>1. n \in Nat /\ ss \in [1..n -> V] /\ <<>> \in V
      OBVIOUS
<1>2. CASE n = 0
      <2>1. ss = <<>>
            BY <1>1, <1>2
      <2>2. FlattenSeq(ss) = <<>>
            BY <1>2, <2>1 DEF FlattenSeq
      <2> QED
          BY <1>1, <2>1, <2>2, FoldEmpty
<1>3. CASE n # 0
      <2>1. Gluing(T) \in [V -> [V -> V]] /\ \A t, v \in V : Gluing(T)[t][v] = v \o t
            BY GluingGlues
      <2>2. \A t \in V : <<>> \o t = t
            BY ConcatEmptySeq
      <2> HIDE DEF n, V
      <2>3. FF \in [1..n -> [V -> V]]
            BY <1>1, <2>1
      <2>4. \A i \in 1..n, v \in V : FF[i][v] = v \o ss[i]
            BY <1>1, <2>1
      <2> HIDE DEF FF
      <2>5. PICK g : Recurs(g, n, V, <<>>, FF)
            BY <1>1, <2>3, RecursionExists
      <2>6. g \in [0..n -> V] /\ g[0] = <<>> /\ \A i \in 1..n : g[i] = FF[i][g[i - 1]]
            BY <2>5 DEF Recurs
      <2> DEFINE Defines(f) == f = [i \in 1..n |-> IF i = 1 THEN ss[i] ELSE f[i - 1] \o ss[i]]
                 h == [i \in 1..n |-> g[i]]
                 r == CHOOSE f : Defines(f)
                 p == [i \in 0..n |-> IF i = 0 THEN <<>> ELSE r[i]]
      <2>7. \A i \in 1..n : g[i] = g[i - 1] \o ss[i]
            <3> TAKE i \in 1..n
            <3>1. i - 1 \in 0..n
                  BY <1>1
            <3>2. g[i] = FF[i][g[i - 1]] /\ g[i - 1] \in V
                  BY <2>6, <3>1
            <3> QED
                BY <2>4, <3>2
      <2>8. Defines(h)
            <3>1. ASSUME NEW i \in 1..n PROVE g[i] = IF i = 1 THEN ss[i] ELSE h[i - 1] \o ss[i]
                  <4>1. CASE i = 1
                        <5>1. i - 1 = 0 /\ ss[i] \in V
                              BY <1>1, <4>1
                        <5>2. g[i] = <<>> \o ss[i]
                              BY <2>6, <2>7, <5>1
                        <5> QED
                            BY <2>2, <4>1, <5>1, <5>2
                  <4>2. CASE i # 1
                        <5>1. i - 1 \in 1..n
                              BY <1>1, <4>2
                        <5> QED
                            BY <2>7, <4>2, <5>1
                  <4> QED
                      BY <4>1, <4>2
            <3> QED
                BY <3>1
      <2>9. Defines(r)
            <3> HIDE DEF Defines
            <3> QED
                BY <2>8
      <2>10. FlattenSeq(ss) = r[n]
            BY <1>1, <1>3 DEF FlattenSeq, n
      <2> HIDE DEF r
      <2>11. \A i \in 1..n : r[i] = IF i = 1 THEN ss[i] ELSE r[i - 1] \o ss[i]
            BY <2>9
      <2>12. p = [i \in 0..n |-> p[i]] /\ p[0] = <<>>
            BY <1>1
      <2>13. ASSUME NEW i \in 1..n, p[i - 1] \in V PROVE p[i] = FF[i][p[i - 1]]
            <3>1. FF[i][p[i - 1]] = p[i - 1] \o ss[i]
                  BY <2>4, <2>13
            <3>2. CASE i = 1
                  <4>1. i - 1 = 0 /\ i \in 0..n /\ 0 \in 0..n
                        BY <1>1, <3>2
                  <4>2. p[i] = ss[i] /\ p[i - 1] = <<>>
                        BY <2>11, <3>2, <4>1
                  <4>3. ss[i] \in V
                        BY <1>1
                  <4> QED
                      BY <2>2, <3>1, <4>2, <4>3
            <3>3. CASE i # 1
                  <4>1. i - 1 \in 1..n /\ i \in 0..n /\ i - 1 \in 0..n /\ i # 0 /\ i - 1 # 0
                        BY <1>1, <3>3
                  <4>2. p[i] = r[i] /\ p[i - 1] = r[i - 1]
                        BY <4>1
                  <4> QED
                      BY <2>11, <3>1, <3>3, <4>2
            <3> QED
                BY <3>2, <3>3
      <2>14. p[n] = r[n]
            BY <1>1, <1>3
      <2> HIDE DEF p
      <2>15. Recurs(p, n, V, <<>>, FF)
            BY <1>1, <2>3, <2>12, <2>13, RecursionIs
      <2> QED
          BY <2>10, <2>14, <2>15 DEF FoldIs, FF, n, V
<1> QED
    BY <1>2, <1>3

\* FlattenSeq of lists is a list; one list more goes to the end.
LEMMA Flattened ==
  ASSUME NEW T, NEW ss \in Seq(Seq(T))
  PROVE  FlattenSeq(ss) \in Seq(T)
<1>1. <<>> \in Seq(T) /\ Gluing(T) \in [Seq(T) -> [Seq(T) -> Seq(T)]]
      BY GluingGlues
<1> DEFINE V == Seq(T)
           G == Gluing(T)
           r == FlattenSeq(ss)
<1>2. FoldIs(r, ss, V, <<>>, G)
      BY FlattenIsFold
<1>3. ss \in Seq(V) /\ <<>> \in V /\ G \in [V -> [V -> V]]
      BY <1>1
<1> HIDE DEF V, G, r
<1>4. PICK q \in V : FoldIs(q, ss, V, <<>>, G)
      BY <1>3, FoldExists
<1>5. q = r
      BY <1>2, <1>3, <1>4, FoldUnique
<1> QED
    BY <1>4, <1>5 DEF V, r

LEMMA FlattenMore ==
  ASSUME NEW T, NEW ss \in Seq(Seq(T)), NEW t \in Seq(T)
  PROVE  FlattenSeq(Append(ss, t)) = FlattenSeq(ss) \o t
<1>1. <<>> \in Seq(T) /\ Gluing(T) \in [Seq(T) -> [Seq(T) -> Seq(T)]]
      BY GluingGlues
<1> DEFINE V == Seq(T)
           G == Gluing(T)
           r == FlattenSeq(ss)
           u == Append(ss, t)
           q == FlattenSeq(u)
<1>2. u \in Seq(Seq(T))
      OBVIOUS
<1>3. FoldIs(r, ss, V, <<>>, G) /\ FoldIs(q, u, V, <<>>, G)
      BY <1>2, FlattenIsFold
<1>4. ss \in Seq(V) /\ u \in Seq(V) /\ t \in V /\ <<>> \in V /\ G \in [V -> [V -> V]]
      BY <1>1, <1>2
<1>5. r \in V /\ G[t][r] = r \o t
      BY Flattened, GluingGlues
<1> HIDE DEF V, G, r, q
<1>6. FoldIs(G[t][r], u, V, <<>>, G)
      BY <1>3, <1>4, FoldAppend
<1> HIDE DEF u
<1>7. q = G[t][r]
      BY <1>3, <1>4, <1>6, FoldUnique
<1> QED
    BY <1>5, <1>7 DEF q, r, u

\* A list of lists, one for each line.
LEMMA LinesAreAList ==
  ASSUME NEW lists, NEW n \in Nat, DOMAIN lists = 1..n, lists = [i \in 1..n |-> lists[i]],
         \A i \in 1..n : IsList(lists[i])
  PROVE  IsList(FlattenSeq(lists))
<1> DEFINE T == UNION {ToSet(lists[i]) : i \in 1..n}
<1>1. \A i \in 1..n : lists[i] \in Seq(T)
      BY Lengths, SeqMonotonic
<1> HIDE DEF T
<1>2. lists \in Seq(Seq(T))
      BY <1>1
<1>3. FlattenSeq(lists) \in Seq(T)
      BY <1>2, Flattened
<1> QED
    BY <1>3 DEF IsList

LEMMA SameSeq ==
  ASSUME NEW T, NEW s \in Seq(T), NEW t \in Seq(T), Len(s) = Len(t), \A k \in 1..Len(s) : s[k] = t[k]
  PROVE  s = t
  OBVIOUS

\* s with r at position p.
HasInserted(t, s, p, r) ==
  /\ IsList(t) /\ Len(t) = Len(s) + 1
  /\ \A i \in 1..p - 1 : t[i] = s[i]
  /\ t[p] = r
  /\ \A i \in p..Len(s) : t[i + 1] = s[i]

LEMMA InsertAtIs ==
  ASSUME NEW T, NEW s \in Seq(T), NEW p \in 1..Len(s) + 1, NEW r \in T
  PROVE  InsertAt(s, p, r) \in Seq(T) /\ HasInserted(InsertAt(s, p, r), s, p, r)
<1> DEFINE front == SubSeq(s, 1, p - 1)
           back == SubSeq(s, p, Len(s))
           one == <<r>>
           n == Len(s)
<1>2. s \in Seq(T) /\ n \in Nat /\ one \in Seq(T) /\ Len(one) = 1 /\ one[1] = r
      OBVIOUS
<1>3. front \in Seq(T) /\ Len(front) = p - 1 /\ \A i \in 1..p - 1 : front[i] = s[i]
      BY <1>2
<1>4. back \in Seq(T) /\ Len(back) = n - p + 1 /\ \A i \in 1..n - p + 1 : back[i] = s[p + i - 1]
      BY <1>2
<1> HIDE DEF front, back, one, n
<1> DEFINE u == front \o one
<1>5. u \in Seq(T) /\ Len(u) = p /\ (\A i \in 1..p - 1 : u[i] = s[i]) /\ u[p] = r
      <2>1. u \in Seq(T) /\ Len(u) = p /\ \A i \in 1..p : u[i] = IF i <= p - 1 THEN front[i] ELSE one[i - (p - 1)]
            <3>1. u \in Seq(T) /\ Len(u) = Len(front) + Len(one)
                  /\ \A i \in 1..Len(front) + Len(one) : u[i] = IF i <= Len(front) THEN front[i] ELSE one[i - Len(front)]
                  BY <1>2, <1>3, ConcatProperties
            <3>2. Len(front) + Len(one) = p
                  BY <1>2, <1>3
            <3> HIDE DEF u
            <3> QED
                BY <1>3, <3>1, <3>2
      <2>2. p \in 1..p /\ ~(p <= p - 1) /\ p - (p - 1) = 1
            OBVIOUS
      <2>3. u[p] = r
            BY <1>2, <2>1, <2>2
      <2> HIDE DEF u
      <2> QED
          BY <1>3, <2>1, <2>3
<1> HIDE DEF u
<1> DEFINE t == u \o back
<1>6. t \in Seq(T) /\ Len(t) = n + 1 /\ \A i \in 1..n + 1 : t[i] = IF i <= p THEN u[i] ELSE back[i - p]
      <2>1. Len(u) + Len(back) = n + 1
            BY <1>2, <1>4, <1>5
      <2>2. t \in Seq(T) /\ Len(t) = Len(u) + Len(back)
            /\ \A i \in 1..Len(u) + Len(back) : t[i] = IF i <= Len(u) THEN u[i] ELSE back[i - Len(u)]
            BY <1>4, <1>5, ConcatProperties
      <2> HIDE DEF t
      <2> QED
          BY <1>5, <2>1, <2>2
<1> HIDE DEF t
<1>7. \A i \in 1..p - 1 : t[i] = s[i]
      BY <1>2, <1>5, <1>6 DEF n
<1>8. t[p] = r
      BY <1>2, <1>5, <1>6 DEF n
<1>9. ASSUME NEW i \in p..n PROVE t[i + 1] = s[i]
      <2>1. i + 1 \in 1..n + 1 /\ ~(i + 1 <= p) /\ i + 1 - p \in 1..n - p + 1 /\ p + (i + 1 - p) - 1 = i
            BY <1>2
      <2> QED
          BY <1>4, <1>6, <2>1
<1>10. InsertAt(s, p, r) = t
      BY DEF InsertAt, t, u, front, one, back
<1> QED
    BY <1>6, <1>7, <1>8, <1>9, <1>10 DEF HasInserted, IsList, n

LEMMA OneRowIsAList == ASSUME NEW x PROVE IsList(<<x>>) /\ IsList(<<>>)
<1>1. <<x>> \in Seq({x}) /\ <<>> \in Seq({})
      OBVIOUS
<1> QED
    BY <1>1 DEF IsList

LEMMA PartIsAList ==
  ASSUME NEW s, IsList(s), NEW a \in Int, NEW b \in Int, 1 <= a, b <= Len(s)
  PROVE  IsList(SubSeq(s, a, b))
<1>1. PICK T : s \in Seq(T)
      BY DEF IsList
<1>2. SubSeq(s, a, b) \in Seq(T)
      BY <1>1
<1> QED
    BY <1>2 DEF IsList

LEMMA MappedIsAList ==
  ASSUME NEW s, IsList(s), NEW t, t = [i \in DOMAIN s |-> t[i]]
  PROVE  IsList(t)
<1>1. Len(s) \in Nat /\ DOMAIN s = 1..Len(s)
      BY Lengths
<1>2. t \in Seq({t[i] : i \in 1..Len(s)})
      BY <1>1
<1> QED
    BY <1>2 DEF IsList

\* Where the next row goes.
LEMMA NextInFront ==
  ASSUME NEW n \in Nat, NEW order, LinesUp(1..n, order), NEW m \in 1..n
  PROVE  /\ Cardinality(InFront(1..m - 1, order, m)) \in 0..m - 1
         /\ Cardinality(InFront(1..m, order, m)) = Cardinality(InFront(1..m - 1, order, m))
         /\ \A j \in 1..m - 1 :
           /\ Cardinality(InFront(1..m - 1, order, j)) \in Nat
           /\ Cardinality(InFront(1..m - 1, order, j)) + 1 \in 1..m - 1
           /\ <<j, m>> \in order <=> Cardinality(InFront(1..m - 1, order, j)) + 1 <= Cardinality(InFront(1..m - 1, order, m))
           /\ Cardinality(InFront(1..m, order, j)) =
                Cardinality(InFront(1..m - 1, order, j)) + IF <<j, m>> \in order THEN 0 ELSE 1
<1> DEFINE k == m - 1
           A(j) == InFront(1..k, order, j)
           B(j) == InFront(1..m, order, j)
<1>1. k \in Nat /\ 1..k \subseteq 1..m /\ 1..m \subseteq 1..n /\ m \in 1..m /\ m \notin 1..k /\ 1..m = (1..k) \cup {m}
      OBVIOUS
<1>2. IsFiniteSet(1..k) /\ IsFiniteSet(1..m) /\ Cardinality(1..k) = k /\ Cardinality(1..m) = m
      BY <1>1, FS_Interval
<1>3. LinesUp(1..m, order) /\ LinesUp(1..k, order)
      BY <1>1 DEF LinesUp
<1>4. ASSUME NEW j \in 1..m
      PROVE  /\ IsFiniteSet(A(j)) /\ Cardinality(A(j)) \in 0..k
             /\ Cardinality(B(j)) = Cardinality(A(j)) + IF <<m, j>> \in order THEN 1 ELSE 0
      <2>1. A(j) \subseteq 1..k
            BY DEF InFront
      <2>2. IsFiniteSet(A(j)) /\ Cardinality(A(j)) \in Nat /\ Cardinality(A(j)) <= k
            BY <1>2, <2>1, FS_Subset, FS_CardinalityType
      <2>3. B(j) = IF <<m, j>> \in order THEN A(j) \cup {m} ELSE A(j)
            BY <1>1 DEF InFront
      <2>4. m \notin A(j)
            BY <1>1, <2>1
      <2>5. Cardinality(A(j) \cup {m}) = Cardinality(A(j)) + 1
            BY <2>2, <2>4, FS_AddElement
      <2> HIDE DEF A, B
      <2> QED
          BY <2>2, <2>3, <2>5
<1>5. ASSUME NEW j \in 1..k PROVE Cardinality(A(j)) \in Nat /\ Cardinality(A(j)) + 1 \in 1..k
      <2>1. <<j, j>> \notin order
            BY <1>3 DEF LinesUp
      <2>2. Cardinality(A(j)) \in 0..k - 1
            BY <1>2, <2>1, FewerInFront
      <2> HIDE DEF A
      <2> QED
          BY <2>2
<1>6. \A x, y \in 1..m : Cardinality(B(x)) < Cardinality(B(y)) <=> <<x, y>> \in order
      BY <1>2, <1>3, MoreInFront
<1>7. \A j \in 1..k : (<<j, m>> \in order /\ <<m, j>> \notin order) \/ (<<j, m>> \notin order /\ <<m, j>> \in order)
      BY <1>1, <1>3 DEF LinesUp
<1>8. <<m, m>> \notin order
      BY <1>1, <1>3 DEF LinesUp
<1> HIDE DEF A, B, k
<1>9. Cardinality(A(m)) \in 0..k /\ Cardinality(B(m)) = Cardinality(A(m))
      BY <1>1, <1>4, <1>8
<1>10. ASSUME NEW j \in 1..k
      PROVE  /\ Cardinality(A(j)) \in Nat /\ Cardinality(A(j)) + 1 \in 1..k
             /\ <<j, m>> \in order <=> Cardinality(A(j)) + 1 <= Cardinality(A(m))
             /\ Cardinality(B(j)) = Cardinality(A(j)) + IF <<j, m>> \in order THEN 0 ELSE 1
      <2>2. Cardinality(B(j)) = Cardinality(A(j)) + IF <<j, m>> \in order THEN 0 ELSE 1
            BY <1>1, <1>4, <1>7
      <2>3. <<j, m>> \in order <=> Cardinality(A(j)) + 1 <= Cardinality(A(m))
            <3>1. Cardinality(B(j)) < Cardinality(B(m)) <=> <<j, m>> \in order
                  BY <1>1, <1>6
            <3>2. Cardinality(B(m)) < Cardinality(B(j)) <=> <<m, j>> \in order
                  BY <1>1, <1>6
            <3>3. Cardinality(A(j)) \in Nat /\ Cardinality(A(m)) \in Nat
                  <4>1. Cardinality(A(j)) \in 0..k
                        BY <1>1, <1>4
                  <4> QED
                      BY <1>1, <1>9, <4>1
            <3> QED
                BY <1>7, <1>9, <2>2, <3>1, <3>2, <3>3
      <2> QED
          BY <1>5, <2>2, <2>3
<1> QED
    BY <1>9, <1>10 DEF A, B, k

\* The same when F[i] makes a value from all those before it.
OfEarlier(F, n, V) ==
  \A i \in 0..n : \A g, h \in [0..n -> V] : (\A k \in 0..i - 1 : g[k] = h[k]) => F[i][g] = F[i][h]
IsCourse(g, n, V, F) == g \in [0..n -> V] /\ \A i \in 0..n : g[i] = F[i][g]

LEMMA CourseExists ==
  ASSUME NEW n \in Nat, NEW V, NEW v \in V, NEW F \in [0..n -> [[0..n -> V] -> V]], OfEarlier(F, n, V)
  PROVE  \E g : IsCourse(g, n, V, F)
<1> DEFINE H == [0..n -> V]
           Good(g, k) == \A i \in 0..k : g[i] = F[i][g]
           S == {k \in Nat : k <= n => \E g \in H : Good(g, k)}
<1>1. ASSUME NEW k \in 0..n, NEW g \in H, \A i \in 0..k - 1 : g[i] = F[i][g]
      PROVE  \E h \in H : Good(h, k)
      <2> DEFINE h == [g EXCEPT ![k] = F[k][g]]
      <2>1. F[k][g] \in V
            OBVIOUS
      <2>2. h \in H
            BY <2>1
      <2>3. h[k] = F[k][g] /\ \A i \in 0..k - 1 : h[i] = g[i]
            OBVIOUS
      <2> HIDE DEF h
      <2>4. ASSUME NEW i \in 0..k PROVE F[i][h] = F[i][g]
            <3>1. i \in 0..n /\ \A j \in 0..i - 1 : j \in 0..k - 1
                  OBVIOUS
            <3>2. \A j \in 0..i - 1 : h[j] = g[j]
                  BY <2>3, <3>1
            <3> QED
                BY <2>2, <3>1, <3>2 DEF OfEarlier
      <2>5. ASSUME NEW i \in 0..k PROVE h[i] = F[i][h]
            <3>1. CASE i = k
                  BY <2>3, <2>4, <3>1
            <3>2. CASE i # k
                  <4>1. i \in 0..k - 1
                        BY <3>2
                  <4> QED
                      BY <1>1, <2>3, <2>4, <4>1
            <3> QED
                BY <3>1, <3>2
      <2> QED
          BY <2>2, <2>5
<1>2. 0 \in S
      <2>1. [i \in 0..n |-> v] \in H
            OBVIOUS
      <2>2. \A i \in 0..0 - 1 : FALSE
            OBVIOUS
      <2>3. 0 \in 0..n
            OBVIOUS
      <2> HIDE DEF Good, H
      <2>4. \E h \in H : Good(h, 0)
            BY <1>1, <2>1, <2>2, <2>3
      <2> QED
          BY <2>4
<1>3. ASSUME NEW k \in Nat, k \in S PROVE k + 1 \in S
      <2> SUFFICES ASSUME k + 1 <= n PROVE \E g \in H : Good(g, k + 1)
          OBVIOUS
      <2>1. PICK g \in H : Good(g, k)
            BY <1>3
      <2>2. PICK j \in 0..n : j = k + 1 /\ 0..j - 1 = 0..k
            OBVIOUS
      <2>3. \A i \in 0..j - 1 : g[i] = F[i][g]
            BY <2>1, <2>2
      <2> HIDE DEF Good, H
      <2>4. \E h \in H : Good(h, j)
            BY <1>1, <2>3
      <2> QED
          BY <2>2, <2>4
<1> HIDE DEF S
<1>4. n \in S
      BY <1>2, <1>3, NatBySet
<1> QED
    BY <1>4 DEF S, IsCourse

\* The last value of a function that each value makes of the one before.
LEMMA ScanIsFold ==
  ASSUME NEW C, NEW V, NEW base \in V, NEW T \in [C -> [V -> V]], NEW s \in Seq(C), NEW r,
         r = [i \in 0..Len(s) |-> r[i]], r[0] = base, \A i \in 1..Len(s) : r[i - 1] \in V => r[i] = T[s[i]][r[i - 1]]
  PROVE  FoldIs(r[Len(s)], s, V, base, T)
<1> DEFINE n == Len(s)
           F == [i \in 1..n |-> T[s[i]]]
<1>1. n \in Nat /\ \A i \in 1..n : s[i] \in C
      OBVIOUS
<1> HIDE DEF n
<1>2. F \in [1..n -> [V -> V]] /\ \A i \in 1..n : F[i] = T[s[i]]
      BY <1>1
<1>3. r = [i \in 0..n |-> r[i]] /\ \A i \in 1..n : r[i - 1] \in V => r[i] = F[i][r[i - 1]]
      BY <1>2 DEF n
<1> HIDE DEF F
<1>4. Recurs(r, n, V, base, F)
      BY <1>1, <1>2, <1>3, RecursionIs
<1> QED
    BY <1>4 DEF FoldIs, F, n

\* One list after the other.
LEMMA FoldConcat ==
  ASSUME NEW C, NEW V, NEW base \in V, NEW T \in [C -> [V -> V]], NEW s \in Seq(C), NEW t \in Seq(C), NEW q, NEW r,
         FoldIs(q, s, V, base, T), FoldIs(r, t, V, q, T)
  PROVE  FoldIs(r, s \o t, V, base, T)
<1> DEFINE S == {u \in Seq(C) : \A x : FoldIs(x, u, V, q, T) => FoldIs(x, s \o u, V, base, T)}
<1>1. q \in V
      <2>1. PICK x \in V : FoldIs(x, s, V, base, T)
            BY FoldExists
      <2> QED
          BY <2>1, FoldUnique
<1>2. <<>> \in S
      <2>1. s \o <<>> = s /\ <<>> \in Seq(C)
            OBVIOUS
      <2>2. FoldIs(q, <<>>, V, q, T)
            BY <1>1, FoldEmpty
      <2>3. ASSUME NEW x, FoldIs(x, <<>>, V, q, T) PROVE x = q
            BY <1>1, <2>1, <2>2, <2>3, FoldUnique
      <2> QED
          BY <2>1, <2>3
<1>3. ASSUME NEW u \in Seq(C), NEW c \in C, u \in S PROVE Append(u, c) \in S
      <2> SUFFICES ASSUME NEW x, FoldIs(x, Append(u, c), V, q, T) PROVE FoldIs(x, s \o Append(u, c), V, base, T)
          OBVIOUS
      <2>1. PICK y \in V : FoldIs(y, u, V, q, T)
            BY <1>1, FoldExists
      <2>2. FoldIs(T[c][y], Append(u, c), V, q, T)
            BY <1>1, <2>1, FoldAppend
      <2>3. Append(u, c) \in Seq(C)
            OBVIOUS
      <2>4. x = T[c][y]
            BY <1>1, <2>2, <2>3, FoldUnique
      <2>5. FoldIs(y, s \o u, V, base, T)
            BY <1>3, <2>1
      <2>6. s \o u \in Seq(C) /\ s \o Append(u, c) = Append(s \o u, c)
            OBVIOUS
      <2>7. FoldIs(T[c][y], Append(s \o u, c), V, base, T)
            BY <2>5, <2>6, FoldAppend
      <2> QED
          BY <2>4, <2>6, <2>7
<1> HIDE DEF S
<1>4. t \in S
      BY <1>2, <1>3, SeqBySet
<1> QED
    BY <1>4 DEF S

\* What a function that gives the result of each fold gives.
GivesFolds(R, C, V, T) == \A x \in V, s \in Seq(C) : FoldIs(R[x][s], s, V, x, T)
FoldsOn(R, C, V, T) ==
  \A x \in V :
    /\ R[x][<<>>] = x
    /\ \A s \in Seq(C) : R[x][s] \in V
    /\ \A s \in Seq(C), c \in C : R[x][Append(s, c)] = T[c][R[x][s]]
    /\ \A s, t \in Seq(C) : R[x][s \o t] = R[R[x][s]][t]

LEMMA FoldFacts ==
  ASSUME NEW C, NEW V, NEW T \in [C -> [V -> V]], NEW R, GivesFolds(R, C, V, T)
  PROVE  FoldsOn(R, C, V, T)
<1> SUFFICES ASSUME NEW x \in V
             PROVE  /\ R[x][<<>>] = x
                    /\ \A s \in Seq(C) : R[x][s] \in V
                    /\ \A s \in Seq(C), c \in C : R[x][Append(s, c)] = T[c][R[x][s]]
                    /\ \A s, t \in Seq(C) : R[x][s \o t] = R[R[x][s]][t]
    BY DEF FoldsOn
<1>1. <<>> \in Seq(C) /\ \A y \in V, s \in Seq(C) : FoldIs(R[y][s], s, V, y, T)
      BY DEF GivesFolds
<1>2. ASSUME NEW s \in Seq(C), NEW y, FoldIs(y, s, V, x, T) PROVE R[x][s] = y
      <2> DEFINE z == R[x][s]
      <2>1. FoldIs(z, s, V, x, T)
            BY <1>1
      <2> HIDE DEF z
      <2>2. z = y
            BY <1>2, <2>1, FoldUnique
      <2> QED
          BY <2>2 DEF z
<1>3. R[x][<<>>] = x
      <2>1. FoldIs(x, <<>>, V, x, T)
            BY FoldEmpty
      <2> QED
          BY <1>1, <1>2, <2>1
<1>4. \A s \in Seq(C) : R[x][s] \in V
      <2> TAKE s \in Seq(C)
      <2>1. PICK y \in V : FoldIs(y, s, V, x, T)
            BY FoldExists
      <2> QED
          BY <1>2, <2>1
<1>5. ASSUME NEW s \in Seq(C), NEW c \in C PROVE R[x][Append(s, c)] = T[c][R[x][s]]
      <2> DEFINE y == R[x][s]
      <2>1. FoldIs(y, s, V, x, T) /\ Append(s, c) \in Seq(C)
            BY <1>1
      <2> HIDE DEF y
      <2>2. FoldIs(T[c][y], Append(s, c), V, x, T)
            BY <2>1, FoldAppend
      <2>3. R[x][Append(s, c)] = T[c][y]
            BY <1>2, <2>1, <2>2
      <2> QED
          BY <2>3 DEF y
<1>6. ASSUME NEW s \in Seq(C), NEW t \in Seq(C) PROVE R[x][s \o t] = R[R[x][s]][t]
      <2> DEFINE y == R[x][s]
                 z == R[y][t]
      <2>1. FoldIs(y, s, V, x, T) /\ s \o t \in Seq(C) /\ y \in V
            BY <1>1, <1>4
      <2> HIDE DEF y
      <2>2. FoldIs(z, t, V, y, T)
            BY <1>1, <2>1
      <2> HIDE DEF z
      <2>3. FoldIs(z, s \o t, V, x, T)
            BY <2>1, <2>2, FoldConcat
      <2>4. R[x][s \o t] = z
            BY <1>2, <2>1, <2>3
      <2> QED
          BY <2>4 DEF y, z
<1> QED
    BY <1>3, <1>4, <1>5, <1>6

LEMMA TwoAppended ==
  ASSUME NEW D, NEW a \in D, NEW b \in D
  PROVE  Append(<<a>>, b) = <<a, b>>
<1>1. ASSUME NEW s \in Seq(D), Len(s) = 1, s[1] = a PROVE Append(s, b) = <<a, b>>
      <2>1. Append(s, b) \in Seq(D)
            OBVIOUS
      <2>8. Len(Append(s, b)) = Len(s) + 1 /\ Append(s, b)[Len(s) + 1] = b
            OBVIOUS
      <2>9. Len(s) + 1 = 2
            BY <1>1
      <2>2. Len(Append(s, b)) = 2
            BY <2>8, <2>9
      <2>3. Append(s, b)[1] = a
            BY <1>1
      <2>4. Append(s, b)[2] = b
            BY <2>8, <2>9
      <2>5. <<a, b>> \in Seq(D) /\ Len(<<a, b>>) = 2 /\ <<a, b>>[1] = a /\ <<a, b>>[2] = b
            OBVIOUS
      <2> DEFINE t == Append(s, b)
                 u == <<a, b>>
      <2>6. t \in Seq(D) /\ u \in Seq(D) /\ Len(t) = 2 /\ Len(u) = 2 /\ t[1] = u[1] /\ t[2] = u[2]
            BY <2>1, <2>2, <2>3, <2>4, <2>5
      <2> HIDE DEF t, u
      <2>7. t = u
            BY <2>6
      <2> QED
          BY <2>7 DEF t, u
<1>2. <<a>> \in Seq(D) /\ Len(<<a>>) = 1 /\ <<a>>[1] = a
      OBVIOUS
<1> QED
    BY <1>1, <1>2

\* What sequences of one, two or three are.
LEMMA ShortOnes ==
  ASSUME NEW D, NEW s \in Seq(D)
  PROVE  /\ Len(s) = 1 => s = <<s[1]>> /\ s[1] \in D
         /\ Len(s) = 2 => s = <<s[1], s[2]>> /\ s[1] \in D /\ s[2] \in D
         /\ Len(s) = 3 => s = <<s[1], s[2], s[3]>> /\ s[1] \in D /\ s[2] \in D /\ s[3] \in D
<1>1. ASSUME Len(s) = 1 PROVE s = <<s[1]>> /\ s[1] \in D
      <2>1. 1 \in 1..Len(s) /\ \A i \in 1..Len(s) : i = 1
            BY <1>1
      <2>2. s[1] \in D
            BY <2>1
      <2> DEFINE t == <<s[1]>>
      <2>3. t \in Seq(D) /\ Len(t) = 1 /\ t[1] = s[1]
            BY <2>2
      <2> HIDE DEF t
      <2>4. s = t
            BY <1>1, <2>1, <2>3, SameSeq
      <2> QED
          BY <2>2, <2>4 DEF t
<1>2. ASSUME Len(s) = 2 PROVE s = <<s[1], s[2]>> /\ s[1] \in D /\ s[2] \in D
      <2>1. 1 \in 1..Len(s) /\ 2 \in 1..Len(s) /\ \A i \in 1..2 : i = 1 \/ i = 2
            BY <1>2
      <2>2. s[1] \in D /\ s[2] \in D
            BY <2>1
      <2> DEFINE t == <<s[1], s[2]>>
      <2>3. t \in Seq(D) /\ Len(t) = 2 /\ t[1] = s[1] /\ t[2] = s[2]
            BY <2>2
      <2> HIDE DEF t
      <2>4. \A i \in 1..Len(s) : s[i] = t[i]
            BY <1>2, <2>1, <2>3
      <2>5. s = t
            BY <1>2, <2>3, <2>4, SameSeq
      <2> QED
          BY <2>2, <2>5 DEF t
<1>3. ASSUME Len(s) = 3 PROVE s = <<s[1], s[2], s[3]>> /\ s[1] \in D /\ s[2] \in D /\ s[3] \in D
      <2>1. 1 \in 1..3 /\ 2 \in 1..3 /\ 3 \in 1..3 /\ \A i \in 1..3 : i = 1 \/ i = 2 \/ i = 3
            OBVIOUS
      <2>6. \A i \in 1..3 : s[i] \in D
            BY <1>3
      <2>2. s[1] \in D /\ s[2] \in D /\ s[3] \in D
            BY <2>1, <2>6
      <2> DEFINE t == <<s[1], s[2], s[3]>>
      <2>3. t \in Seq(D) /\ Len(t) = 3 /\ t[1] = s[1] /\ t[2] = s[2] /\ t[3] = s[3]
            BY <2>2
      <2> HIDE DEF t
      <2>4. \A i \in 1..3 : s[i] = t[i]
            BY <2>1, <2>3
      <2>5. s = t
            BY <1>3, <2>3, <2>4, SameSeq
      <2> QED
          BY <2>2, <2>5 DEF t
<1> QED
    BY <1>1, <1>2, <1>3

\* Short sequences glued together.
LEMMA Ones == ASSUME NEW D, NEW a \in D PROVE <<a>> \in Seq(D)
  OBVIOUS

LEMMA Twos ==
  ASSUME NEW D, NEW a \in D, NEW b \in D
  PROVE  <<a, b>> \in Seq(D) /\ <<a>> \o <<b>> = <<a, b>>
<1> DEFINE s == <<a>>
           t == <<b>>
           y == <<a, b>>
<1>1. s \in Seq(D) /\ t \in Seq(D) /\ Len(s) = 1 /\ Len(t) = 1 /\ s[1] = a /\ t[1] = b
      OBVIOUS
<1>2. y \in Seq(D) /\ y[1] = a /\ y[2] = b /\ Len(y) = 2
      OBVIOUS
<1>8. s \in Seq(D) /\ t \in Seq(D)
      BY <1>1
<1> HIDE DEF s, t, y
<1>3. s \o t \in Seq(D) /\ Len(s \o t) = Len(s) + Len(t)
      BY <1>8
<1>4. \A i \in 1..Len(s) + Len(t) : (s \o t)[i] = IF i <= Len(s) THEN s[i] ELSE t[i - Len(s)]
      BY <1>8
<1> DEFINE z == s \o t
<1> HIDE DEF z
<1>5. Len(z) = 2 /\ z[1] = a /\ z[2] = b
      BY <1>1, <1>3, <1>4 DEF z
<1>6. Len(z) = Len(y) /\ \A i \in 1..Len(z) : z[i] = y[i]
      BY <1>2, <1>5
<1>7. z = y
      BY <1>2, <1>3, <1>6, SameSeq DEF z
<1> QED
    BY <1>2, <1>7 DEF z, y, s, t

LEMMA Threes ==
  ASSUME NEW D, NEW a \in D, NEW b \in D, NEW c \in D
  PROVE  <<a, b, c>> \in Seq(D) /\ <<a, b>> \o <<c>> = <<a, b, c>>
<1> DEFINE s == <<a, b>>
           t == <<c>>
           y == <<a, b, c>>
<1>1. s \in Seq(D) /\ t \in Seq(D) /\ Len(s) = 2 /\ Len(t) = 1 /\ s[1] = a /\ s[2] = b /\ t[1] = c
      OBVIOUS
<1>2. y \in Seq(D) /\ y[1] = a /\ y[2] = b /\ y[3] = c /\ Len(y) = 3
      OBVIOUS
<1>8. s \in Seq(D) /\ t \in Seq(D)
      BY <1>1
<1> HIDE DEF s, t, y
<1>3. s \o t \in Seq(D) /\ Len(s \o t) = Len(s) + Len(t)
      BY <1>8
<1>4. \A i \in 1..Len(s) + Len(t) : (s \o t)[i] = IF i <= Len(s) THEN s[i] ELSE t[i - Len(s)]
      BY <1>8
<1> DEFINE z == s \o t
<1> HIDE DEF z
<1>5. Len(z) = 3 /\ z[1] = a /\ z[2] = b /\ z[3] = c
      BY <1>1, <1>3, <1>4 DEF z
<1>6. Len(z) = Len(y) /\ \A i \in 1..Len(z) : z[i] = y[i]
      BY <1>2, <1>5
<1>7. z = y
      BY <1>2, <1>3, <1>6, SameSeq DEF z
<1> QED
    BY <1>2, <1>7 DEF z, y, s, t

\* A function from 1..n is a list of n.
LEMMA ListIs ==
  ASSUME NEW W, NEW n \in Nat, NEW f \in [1..n -> W]
  PROVE  f \in Seq(W) /\ Len(f) = n
  OBVIOUS

LEMMA Glued ==
  ASSUME NEW W, NEW s \in Seq(W), NEW t \in Seq(W)
  PROVE  s \o t \in Seq(W)
  OBVIOUS

\* What is in a list, and where.
LEMMA PartsAre ==
  ASSUME NEW W, NEW parts \in Seq(W)
  PROVE  /\ Len(parts) \in Nat /\ DOMAIN parts = 1..Len(parts)
         /\ \A i \in 1..Len(parts) : parts[i] \in W /\ i - 1 \in 0..Len(parts) /\ i \in 0..Len(parts)
  OBVIOUS

LEMMA NoneIs ==
  ASSUME NEW W, NEW a \in W
  PROVE  <<>> \in Seq(W) /\ Append(<<>>, a) = <<a>>
  OBVIOUS

LEMMA WiderSeq ==
  ASSUME NEW V, NEW W, V \subseteq W
  PROVE  Seq(V) \subseteq Seq(W)
  OBVIOUS

LEMMA ListedOnes ==
  ASSUME NEW s, s \in Seq(ToSet(s))
  PROVE  Len(s) \in Nat /\ DOMAIN s = 1..Len(s) /\ \A i \in 1..Len(s) : s[i] \in ToSet(s)
<1> DEFINE W == ToSet(s)
<1>1. s \in Seq(W)
      OBVIOUS
<1> HIDE DEF W
<1>2. Len(s) \in Nat /\ DOMAIN s = 1..Len(s) /\ \A i \in 1..Len(s) : s[i] \in W
      BY <1>1
<1> QED
    BY <1>2 DEF W

LEMMA UpTo ==
  ASSUME NEW n \in Nat
  PROVE  0 \in 0..n /\ n \in 0..n /\ \A i \in 1..n : i - 1 \in 0..n /\ i \in 0..n
  OBVIOUS

LEMMA FlattenOne ==
  ASSUME NEW C, NEW t \in Seq(C)
  PROVE  FlattenSeq(<<t>>) = t
<1> DEFINE W == Seq(C)
<1>1. FlattenSeq(<<>>) = <<>>
      BY DEF FlattenSeq
<1>2. <<>> \in Seq(W) /\ Append(<<>>, t) = <<t>>
      OBVIOUS
<1>3. FlattenSeq(Append(<<>>, t)) = FlattenSeq(<<>>) \o t
      BY <1>2, FlattenMore
<1>4. <<>> \o t = t
      OBVIOUS
<1> QED
    BY <1>1, <1>2, <1>3, <1>4

LEMMA FirstItem ==
  ASSUME NEW W, NEW s \in Seq(W), NEW t \in Seq(W), s # <<>>
  PROVE  s \o t # <<>> /\ (s \o t)[1] = s[1]
  OBVIOUS

\* The beginning of a text.
LEMMA Beginning ==
  ASSUME NEW W, NEW text \in Seq(W), NEW cut \in 0..Len(text), SubSeq(text, 1, cut) # <<>>
  PROVE  /\ SubSeq(text, 1, cut) \in Seq(W) /\ SubSeq(text, 1, cut)[1] = text[1] /\ text # <<>>
<1>1. cut >= 1
      OBVIOUS
<1> QED
    BY <1>1
=============================================================================
