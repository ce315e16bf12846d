------------------------------ MODULE Induction ------------------------------
(***************************************************************************)
(* Induction and recursion for the proofs about trees and sequences, from  *)
(* one fact of the library: that < is well founded on Nat.  A statement is *)
(* proved for all of Nat as a set of numbers, and a function that is       *)
(* defined by recursion exists because each of its approximations does.    *)
(***************************************************************************)
EXTENDS Integers, Sequences, SequencesExt, WellFoundedInduction, SequenceTheorems, TLAPS

Below == OpToRel(<, Nat)

\* The library states it of the relation.
LEMMA BelowIsWellFounded == IsWellFoundedOn(Below, Nat)
  BY NatLessThanWellFounded, PTL DEF Below

\* A set of natural numbers that is not empty has a least element.
LEMMA LeastNumber ==
  ASSUME NEW T, T \subseteq Nat, T # {}
  PROVE  \E n \in T : \A k \in T : n <= k
<1>1. \A x, y \in Nat : x < y => <<x, y>> \in Below
  BY DEF Below, OpToRel
<1>2. PICK n \in T : \A k \in T : ~(<<k, n>> \in Below)
  BY BelowIsWellFounded, WFMin
<1>3. \A k \in T : ~(k < n)
  BY <1>1, <1>2
<1>4. \A k \in T : n <= k
  BY <1>3
<1> QED  BY <1>4

\* A set that holds n whenever it holds all numbers less than n is all of Nat.
LEMMA CourseOfValues ==
  ASSUME NEW T, \A n \in Nat : (\A k \in Nat : k < n => k \in T) => n \in T
  PROVE  Nat \subseteq T
<1> DEFINE Bad == {n \in Nat : n \notin T}
<1> SUFFICES ASSUME Bad # {} PROVE FALSE  OBVIOUS
<1>1. PICK n \in Bad : \A k \in Bad : n <= k  BY LeastNumber
<1>2. \A k \in Nat : k < n => k \in T  BY <1>1
<1> QED  BY <1>1, <1>2

\* The same along a rank: what holds of every p once it holds of all that
\* rank lower holds of all.
LEMMA RankInduction ==
  ASSUME NEW P, NEW rank \in [P -> Nat], NEW T,
         \A p \in P : (\A q \in P : rank[q] < rank[p] => q \in T) => p \in T
  PROVE  \A p \in P : p \in T
<1> DEFINE N == {n \in Nat : \A p \in P : rank[p] = n => p \in T}
<1>1. ASSUME NEW n \in Nat, \A k \in Nat : k < n => k \in N PROVE n \in N
  <2> SUFFICES ASSUME NEW p \in P, rank[p] = n PROVE p \in T
    OBVIOUS
  <2>1. \A q \in P : rank[q] < rank[p] => q \in T
    BY <1>1
  <2> QED
    BY <2>1
<1> HIDE DEF N
<1>2. Nat \subseteq N
  BY <1>1, CourseOfValues
<1> QED
  BY <1>2 DEF N

----------------------------------------------------------------------------
\* Recursion: Def[p][f] is what the recursive function f has at p, and asks
\* f only for elements of lower rank.

RankedDefinition(P, V, rank, Def) ==
  /\ rank \in [P -> Nat]
  /\ Def \in [P -> [[P -> V] -> V]]
  /\ \A p \in P : \A f, g \in [P -> V] :
       (\A q \in P : rank[q] < rank[p] => f[q] = g[q]) => Def[p][f] = Def[p][g]

\* f is right up to rank n.
RightBelow(P, rank, Def, n, f) == \A p \in P : rank[p] < n => f[p] = Def[p][f]

\* Two functions that are right up to a rank agree below it.
LEMMA ApproximationsAgree ==
  ASSUME NEW P, NEW V, NEW rank, NEW Def, RankedDefinition(P, V, rank, Def),
         NEW n \in Nat, NEW k \in Nat, n <= k, NEW f \in [P -> V], NEW g \in [P -> V],
         RightBelow(P, rank, Def, n, f), RightBelow(P, rank, Def, k, g)
  PROVE  \A p \in P : rank[p] < n => f[p] = g[p]
<1> DEFINE T == {i \in Nat : \A p \in P : rank[p] = i /\ i < n => f[p] = g[p]}
<1>1. ASSUME NEW i \in Nat, \A j \in Nat : j < i => j \in T PROVE i \in T
  <2> SUFFICES ASSUME NEW p \in P, rank[p] = i, i < n PROVE f[p] = g[p]
    OBVIOUS
  <2>1. \A q \in P : rank[q] \in Nat  BY DEF RankedDefinition
  <2>2. \A q \in P : rank[q] < rank[p] => f[q] = g[q]  BY <1>1, <2>1
  <2>3. Def[p][f] = Def[p][g]  BY <2>2 DEF RankedDefinition
  <2>4. f[p] = Def[p][f] /\ g[p] = Def[p][g]  BY <2>1 DEF RightBelow
  <2> QED  BY <2>3, <2>4
<1> HIDE DEF T
<1>2. Nat \subseteq T  BY <1>1, CourseOfValues
<1> QED  BY <1>2 DEF T, RankedDefinition

\* For every rank there is a function that is right up to it.
LEMMA ApproximationsExist ==
  ASSUME NEW P, NEW V, V # {}, NEW rank, NEW Def, RankedDefinition(P, V, rank, Def),
         NEW n \in Nat
  PROVE  \E f \in [P -> V] : RightBelow(P, rank, Def, n, f)
<1> DEFINE T == {i \in Nat : \E f \in [P -> V] : RightBelow(P, rank, Def, i, f)}
<1>1. ASSUME NEW i \in Nat, \A j \in Nat : j < i => j \in T PROVE i \in T
  <2>0. \A q \in P : rank[q] \in Nat  BY DEF RankedDefinition
  <2>1. CASE i = 0
    <3>1. PICK v \in V : TRUE  OBVIOUS
    <3>2. [p \in P |-> v] \in [P -> V]  OBVIOUS
    <3>3. RightBelow(P, rank, Def, i, [p \in P |-> v])  BY <2>0, <2>1 DEF RightBelow
    <3> QED  BY <3>2, <3>3
  <2>2. CASE i > 0
    <3>1. i - 1 \in T  BY <1>1, <2>2
    <3>2. PICK f \in [P -> V] : RightBelow(P, rank, Def, i - 1, f)  BY <3>1
    <3> DEFINE g == [p \in P |-> Def[p][f]]
    <3>3. g \in [P -> V]  BY DEF RankedDefinition
    <3>4. \A p \in P : rank[p] < i - 1 => g[p] = f[p]  BY <3>2 DEF RightBelow
    <3>5. ASSUME NEW p \in P, rank[p] < i PROVE g[p] = Def[p][g]
      <4>1. \A q \in P : rank[q] < rank[p] => f[q] = g[q]  BY <2>0, <3>4, <3>5
      <4>2. g \in [P -> V]  BY <3>3
      <4>3. g[p] = Def[p][f]  OBVIOUS
      <4> HIDE DEF g
      <4> QED  BY <4>1, <4>2, <4>3 DEF RankedDefinition
    <3> HIDE DEF g
    <3>6. RightBelow(P, rank, Def, i, g)  BY <3>5 DEF RightBelow
    <3> QED  BY <3>3, <3>6
  <2> QED  BY <2>1, <2>2
<1> HIDE DEF T
<1>2. Nat \subseteq T  BY <1>1, CourseOfValues
<1> QED  BY <1>2 DEF T

\* So a function that is right everywhere exists, which a recursive definition
\* may choose.
LEMMA RecursiveFunctionExists ==
  ASSUME NEW P, NEW V, V # {}, NEW rank, NEW Def, RankedDefinition(P, V, rank, Def)
  PROVE  \E f \in [P -> V] : \A p \in P : f[p] = Def[p][f]
<1> DEFINE Approx(n) == CHOOSE f \in [P -> V] : RightBelow(P, rank, Def, n, f)
           f == [p \in P |-> Approx(rank[p] + 1)[p]]
<1>1. ASSUME NEW n \in Nat
      PROVE  Approx(n) \in [P -> V] /\ RightBelow(P, rank, Def, n, Approx(n))
  BY ApproximationsExist
<1>2. \A q \in P : rank[q] \in Nat /\ rank[q] + 1 \in Nat  BY DEF RankedDefinition
<1> HIDE DEF Approx
<1>3. f \in [P -> V]  BY <1>1, <1>2
<1>4. ASSUME NEW n \in Nat, NEW p \in P, rank[p] < n PROVE f[p] = Approx(n)[p]
  <2>1. rank[p] + 1 \in Nat /\ rank[p] + 1 <= n /\ rank[p] < rank[p] + 1  BY <1>2, <1>4
  <2>2. /\ Approx(rank[p] + 1) \in [P -> V] /\ Approx(n) \in [P -> V]
        /\ RightBelow(P, rank, Def, rank[p] + 1, Approx(rank[p] + 1))
        /\ RightBelow(P, rank, Def, n, Approx(n))
    BY <1>1, <2>1
  <2>3. Approx(rank[p] + 1)[p] = Approx(n)[p]
    BY <2>1, <2>2, ApproximationsAgree
  <2> QED  BY <2>3
<1> HIDE DEF f
<1>5. ASSUME NEW p \in P PROVE f[p] = Def[p][f]
  <2> DEFINE g == Approx(rank[p] + 1)
  <2>1. g \in [P -> V] /\ RightBelow(P, rank, Def, rank[p] + 1, g)  BY <1>1, <1>2
  <2>2. \A q \in P : rank[q] < rank[p] + 1 => f[q] = g[q]  BY <1>2, <1>4
  <2> HIDE DEF g
  <2>3. f[p] = g[p] /\ \A q \in P : rank[q] < rank[p] => f[q] = g[q]  BY <1>2, <2>2
  <2>4. g[p] = Def[p][g]  BY <1>2, <2>1 DEF RightBelow
  <2>5. Def[p][f] = Def[p][g]  BY <1>3, <2>1, <2>3 DEF RankedDefinition
  <2> QED  BY <2>3, <2>4, <2>5
<1> QED  BY <1>3, <1>5

----------------------------------------------------------------------------
\* FlattenSeq, by the sequences it joins one after the other.

\* f[i] is the first i sequences of s, joined.
Joins(f, s, n) ==
  /\ f[1] = s[1]
  /\ \A i \in 2 .. n : f[i] = f[i - 1] \o s[i]

\* The recursion of FlattenSeq exists, and joins the sequences in turn.
LEMMA FlattenJoins ==
  ASSUME NEW S, NEW n \in Nat \ {0}, NEW s \in [1 .. n -> Seq(S)]
  PROVE  \E f \in [1 .. n -> Seq(S)] : Joins(f, s, n) /\ FlattenSeq(s) = f[n]
<1> DEFINE P == 1 .. n
           V == Seq(S)
           rank == [i \in P |-> i]
           Body(i, f) == IF i = 1 THEN s[i] ELSE f[i - 1] \o s[i]
           Def == [i \in P |-> [f \in [P -> V] |-> Body(i, f)]]
<1>1. ASSUME NEW i \in P, NEW f \in [P -> V] PROVE Body(i, f) \in V
  <2>1. CASE i = 1  BY <2>1
  <2>2. CASE i # 1
    <3>1. i - 1 \in P  BY <2>2
    <3>2. f[i - 1] \in V /\ s[i] \in V  BY <3>1
    <3> QED  BY <2>2, <3>2, ConcatProperties
  <2> QED  BY <2>1, <2>2
<1>2. rank \in [P -> Nat] /\ \A i \in P : rank[i] = i  OBVIOUS
<1>3. Def \in [P -> [[P -> V] -> V]]  BY <1>1
<1>4. \A i \in P, f \in [P -> V] : Def[i][f] = Body(i, f)  OBVIOUS
<1>5. ASSUME NEW i \in P, NEW f \in [P -> V], NEW g \in [P -> V],
             \A q \in P : rank[q] < rank[i] => f[q] = g[q]
      PROVE  Body(i, f) = Body(i, g)
  <2>1. CASE i = 1  BY <2>1
  <2>2. CASE i # 1
    <3>1. i - 1 \in P /\ rank[i - 1] < rank[i]  BY <1>2, <2>2
    <3> QED  BY <1>5, <3>1
  <2> QED  BY <2>1, <2>2
<1> HIDE DEF Def, rank
<1>7. V # {}  BY EmptySeq
<1> HIDE DEF P, V, Body
<1>6. RankedDefinition(P, V, rank, Def)
  <2>1. ASSUME NEW i \in P, NEW f \in [P -> V], NEW g \in [P -> V],
               \A q \in P : rank[q] < rank[i] => f[q] = g[q]
        PROVE  Def[i][f] = Def[i][g]
    <3>1. Def[i][f] = Body(i, f) /\ Def[i][g] = Body(i, g)  BY <1>4
    <3> QED  BY <1>5, <2>1, <3>1
  <2> QED  BY <1>2, <1>3, <2>1 DEF RankedDefinition
<1>8. \E f \in [P -> V] : \A i \in P : f[i] = Def[i][f]
  BY <1>6, <1>7, RecursiveFunctionExists
<1>9. PICK f \in [P -> V] : \A i \in P : f[i] = Body(i, f)
  <2>1. PICK f \in [P -> V] : \A i \in P : f[i] = Def[i][f]  BY <1>8
  <2>2. \A i \in P : f[i] = Body(i, f)  BY <1>4, <2>1
  <2> QED  BY <2>2
<1> USE DEF P, V, Body
<1>10. Len(s) = n  BY LenProperties
<1> DEFINE g == CHOOSE h : h = [i \in 1 .. Len(s) |-> IF i = 1 THEN s[i] ELSE h[i - 1] \o s[i]]
<1>11. f = [i \in 1 .. Len(s) |-> IF i = 1 THEN s[i] ELSE f[i - 1] \o s[i]]
  BY <1>9, <1>10
<1>12. g = [i \in 1 .. Len(s) |-> IF i = 1 THEN s[i] ELSE g[i - 1] \o s[i]]
  BY <1>11
<1> HIDE DEF g
<1>13. g[1] = s[1] /\ \A i \in 2 .. n : g[i] = g[i - 1] \o s[i]
  <2>1. \A i \in 1 .. n : g[i] = IF i = 1 THEN s[i] ELSE g[i - 1] \o s[i]
    BY <1>10, <1>12, Zenon
  <2>2. g[1] = s[1]  BY <2>1
  <2>3. ASSUME NEW i \in 2 .. n PROVE g[i] = g[i - 1] \o s[i]
    <3>1. i \in 1 .. n /\ i # 1  OBVIOUS
    <3> QED  BY <2>1, <3>1
  <2> QED  BY <2>2, <2>3
<1>14. g \in [P -> V]
  <2> DEFINE T == {i \in Nat : i \in P => g[i] \in V}
  <2>1. ASSUME NEW i \in Nat, \A j \in Nat : j < i => j \in T PROVE i \in T
    <3> SUFFICES ASSUME i \in P PROVE g[i] \in V  OBVIOUS
    <3>1. CASE i = 1  BY <1>13, <3>1
    <3>2. CASE i # 1
      <4>1. i - 1 \in T /\ i - 1 \in P /\ i \in 2 .. n  BY <2>1, <3>2
      <4>2. g[i - 1] \in V /\ s[i] \in V  BY <4>1
      <4>3. g[i] = g[i - 1] \o s[i]  BY <1>13, <4>1
      <4>4. g[i - 1] \o s[i] \in V  BY <4>2, ConcatProperties
      <4> QED  BY <4>3, <4>4
    <3> QED  BY <3>1, <3>2
  <2> HIDE DEF T
  <2>2. Nat \subseteq T  BY <2>1, CourseOfValues
  <2>3. \A i \in P : g[i] \in V  BY <2>2 DEF T
  <2> QED  BY <1>10, <1>12, <2>3
<1>15. FlattenSeq(s) = g[n]
  BY <1>10 DEF FlattenSeq, g
<1> QED  BY <1>13, <1>14, <1>15 DEF Joins

\* What is in two joined sequences is in one of them.
LEMMA ConcatRange ==
  ASSUME NEW S, NEW a \in Seq(S), NEW b \in Seq(S)
  PROVE  Range(a \o b) = Range(a) \cup Range(b)
<1> DEFINE c == a \o b
<1>1. /\ c \in Seq(S) /\ Len(c) = Len(a) + Len(b)
      /\ \A i \in 1 .. Len(a) + Len(b) :
           c[i] = IF i <= Len(a) THEN a[i] ELSE b[i - Len(a)]
  BY ConcatProperties
<1>2. /\ Len(a) \in Nat /\ DOMAIN a = 1 .. Len(a)
      /\ Len(b) \in Nat /\ DOMAIN b = 1 .. Len(b)
      /\ DOMAIN c = 1 .. Len(a) + Len(b)
  BY <1>1, LenProperties
<1> HIDE DEF c
<1>3. ASSUME NEW i \in DOMAIN a PROVE i \in DOMAIN c /\ c[i] = a[i]
  BY <1>1, <1>2
<1>4. ASSUME NEW i \in DOMAIN b PROVE i + Len(a) \in DOMAIN c /\ c[i + Len(a)] = b[i]
  <2>1. i + Len(a) \in 1 .. Len(a) + Len(b) /\ ~(i + Len(a) <= Len(a))
        /\ i + Len(a) - Len(a) = i
    BY <1>2
  <2> QED  BY <1>1, <1>2, <2>1
<1>5. ASSUME NEW i \in DOMAIN c PROVE c[i] \in Range(a) \cup Range(b)
  <2>1. CASE i <= Len(a)
    <3>1. i \in DOMAIN a /\ c[i] = a[i]  BY <1>1, <1>2, <2>1
    <3> QED  BY <3>1 DEF Range
  <2>2. CASE ~(i <= Len(a))
    <3>1. i - Len(a) \in DOMAIN b /\ c[i] = b[i - Len(a)]  BY <1>1, <1>2, <2>2
    <3> QED  BY <3>1 DEF Range
  <2> QED  BY <2>1, <2>2
<1>6. Range(c) \subseteq Range(a) \cup Range(b)  BY <1>5 DEF Range
<1>7. Range(a) \subseteq Range(c)  BY <1>3 DEF Range
<1>8. Range(b) \subseteq Range(c)
  <2> SUFFICES ASSUME NEW i \in DOMAIN b PROVE b[i] \in Range(c)  BY DEF Range
  <2>1. i + Len(a) \in DOMAIN c /\ c[i + Len(a)] = b[i]  BY <1>4
  <2> QED  BY <2>1 DEF Range
<1> QED  BY <1>6, <1>7, <1>8 DEF c

\* Two sequences without repetitions, and with nothing in common, join to one
\* without repetitions.
LEMMA ConcatInjective ==
  ASSUME NEW S, NEW a \in Seq(S), NEW b \in Seq(S),
         IsInjective(a), IsInjective(b), Range(a) \cap Range(b) = {}
  PROVE  IsInjective(a \o b)
<1> DEFINE c == a \o b
<1>1. /\ c \in Seq(S) /\ Len(c) = Len(a) + Len(b)
      /\ \A i \in 1 .. Len(a) + Len(b) :
           c[i] = IF i <= Len(a) THEN a[i] ELSE b[i - Len(a)]
  BY ConcatProperties
<1>2. /\ Len(a) \in Nat /\ DOMAIN a = 1 .. Len(a)
      /\ Len(b) \in Nat /\ DOMAIN b = 1 .. Len(b)
      /\ DOMAIN c = 1 .. Len(a) + Len(b)
  BY <1>1, LenProperties
<1> HIDE DEF c
<1>3. ASSUME NEW i \in DOMAIN c
      PROVE  \/ i \in DOMAIN a /\ c[i] = a[i] /\ a[i] \in Range(a)
             \/ /\ i - Len(a) \in DOMAIN b /\ c[i] = b[i - Len(a)] /\ i > Len(a)
                /\ b[i - Len(a)] \in Range(b)
  <2>1. CASE i <= Len(a)
    <3>1. i \in DOMAIN a /\ c[i] = a[i]  BY <1>1, <1>2, <2>1
    <3> QED  BY <3>1 DEF Range
  <2>2. CASE ~(i <= Len(a))
    <3>1. i - Len(a) \in DOMAIN b /\ c[i] = b[i - Len(a)] /\ i > Len(a)
      BY <1>1, <1>2, <2>2
    <3> QED  BY <3>1 DEF Range
  <2> QED  BY <2>1, <2>2
<1>4. ASSUME NEW i \in DOMAIN c, NEW j \in DOMAIN c, c[i] = c[j] PROVE i = j
  <2>1. CASE i \in DOMAIN a /\ c[i] = a[i] /\ a[i] \in Range(a)
    <3>1. j \in DOMAIN a /\ c[j] = a[j]  BY <1>3, <1>4, <2>1
    <3> QED  BY <1>4, <2>1, <3>1 DEF IsInjective
  <2>2. CASE /\ i - Len(a) \in DOMAIN b /\ c[i] = b[i - Len(a)] /\ i > Len(a)
             /\ b[i - Len(a)] \in Range(b)
    <3>1. j - Len(a) \in DOMAIN b /\ c[j] = b[j - Len(a)]  BY <1>3, <1>4, <2>2
    <3>2. i - Len(a) = j - Len(a)  BY <1>4, <2>2, <3>1 DEF IsInjective
    <3>3. i \in Int /\ j \in Int  BY <1>2
    <3> QED  BY <1>2, <3>2, <3>3
  <2> QED  BY <1>3, <2>1, <2>2
<1> QED  BY <1>4 DEF IsInjective, c

\* What is in sequences that are joined is in one of them.
LEMMA FlattenRange ==
  ASSUME NEW S, NEW n \in Nat \ {0}, NEW s \in [1 .. n -> Seq(S)]
  PROVE  /\ FlattenSeq(s) \in Seq(S)
         /\ Range(FlattenSeq(s)) = UNION {Range(s[i]) : i \in 1 .. n}
<1>1. PICK f \in [1 .. n -> Seq(S)] : Joins(f, s, n) /\ FlattenSeq(s) = f[n]
  BY FlattenJoins
<1> DEFINE In(i) == UNION {Range(s[j]) : j \in 1 .. i}
           T == {i \in Nat : i \in 1 .. n => Range(f[i]) = In(i)}
<1>2. ASSUME NEW i \in Nat, \A j \in Nat : j < i => j \in T PROVE i \in T
  <2> SUFFICES ASSUME i \in 1 .. n PROVE Range(f[i]) = In(i)  OBVIOUS
  <2>1. CASE i = 1
    <3>1. In(1) = Range(s[1])  OBVIOUS
    <3> QED  BY <1>1, <2>1, <3>1 DEF Joins
  <2>2. CASE i # 1
    <3>0. i - 1 \in Nat /\ i - 1 < i /\ i - 1 \in 1 .. n /\ i \in 2 .. n  BY <2>2
    <3>1. i - 1 \in 1 .. n /\ i - 1 \in T /\ i \in 2 .. n
      <4> HIDE DEF T
      <4> QED  BY <1>2, <3>0
    <3>2. f[i] = f[i - 1] \o s[i]  BY <1>1, <3>1 DEF Joins
    <3>3. f[i - 1] \in Seq(S) /\ s[i] \in Seq(S)  BY <3>1
    <3>4. Range(f[i]) = In(i - 1) \cup Range(s[i])  BY <3>1, <3>2, <3>3, ConcatRange
    <3>5. \A j : j \in 1 .. i <=> j \in 1 .. i - 1 \/ j = i  BY <3>1
    <3> QED  BY <3>4, <3>5
  <2> QED  BY <2>1, <2>2
<1> HIDE DEF T
<1>3. n \in T  BY <1>2, CourseOfValues
<1> QED  BY <1>1, <1>3 DEF T

\* Sequences of different things, that have nothing in common, are joined to
\* one of different things.
LEMMA FlattenInjective ==
  ASSUME NEW S, NEW n \in Nat \ {0}, NEW s \in [1 .. n -> Seq(S)],
         \A i \in 1 .. n : IsInjective(s[i]),
         \A i, j \in 1 .. n : i # j => Range(s[i]) \cap Range(s[j]) = {}
  PROVE  IsInjective(FlattenSeq(s))
<1>1. PICK f \in [1 .. n -> Seq(S)] : Joins(f, s, n) /\ FlattenSeq(s) = f[n]
  BY FlattenJoins
<1> DEFINE In(i) == UNION {Range(s[j]) : j \in 1 .. i}
           T == {i \in Nat : i \in 1 .. n => Range(f[i]) = In(i) /\ IsInjective(f[i])}
<1>2. ASSUME NEW i \in Nat, \A j \in Nat : j < i => j \in T PROVE i \in T
  <2> SUFFICES ASSUME i \in 1 .. n PROVE Range(f[i]) = In(i) /\ IsInjective(f[i])
    OBVIOUS
  <2>1. CASE i = 1
    <3>1. In(1) = Range(s[1])  OBVIOUS
    <3> QED  BY <1>1, <2>1, <3>1 DEF Joins
  <2>2. CASE i # 1
    <3>0. i - 1 \in Nat /\ i - 1 < i /\ i - 1 \in 1 .. n /\ i \in 2 .. n  BY <2>2
    <3>1. i - 1 \in 1 .. n /\ i - 1 \in T /\ i \in 2 .. n
      <4> HIDE DEF T
      <4> QED  BY <1>2, <3>0
    <3>2. f[i] = f[i - 1] \o s[i]  BY <1>1, <3>1 DEF Joins
    <3>3. f[i - 1] \in Seq(S) /\ s[i] \in Seq(S)  BY <3>1
    <3>4. Range(f[i]) = In(i - 1) \cup Range(s[i])  BY <3>1, <3>2, <3>3, ConcatRange
    <3>5. \A j : j \in 1 .. i <=> j \in 1 .. i - 1 \/ j = i  BY <3>1
    <3>6. Range(f[i]) = In(i)  BY <3>4, <3>5
    <3>7. In(i - 1) \cap Range(s[i]) = {}
      <4>1. \A j \in 1 .. i - 1 : j \in 1 .. n /\ j # i  BY <3>1
      <4> QED  BY <4>1
    <3>8. Range(f[i - 1]) \cap Range(s[i]) = {} /\ IsInjective(f[i - 1])
      BY <3>1, <3>7
    <3> HIDE DEF T, In
    <3>9. IsInjective(f[i - 1] \o s[i])  BY <3>3, <3>8, ConcatInjective
    <3> QED  BY <3>2, <3>6, <3>9
  <2> QED  BY <2>1, <2>2
<1> HIDE DEF T
<1>3. n \in T  BY <1>2, CourseOfValues
<1> QED  BY <1>1, <1>3 DEF T
----------------------------------------------------------------------------
\* A sequence, with a sequence in the place of every element.

Spread(g, s) == FlattenSeq([i \in DOMAIN s |-> g[s[i]]])

\* One more sequence is joined at the end.
LEMMA FlattenAppend ==
  ASSUME NEW S, NEW n \in Nat \ {0}, NEW s \in [1 .. n -> Seq(S)],
         NEW t \in [1 .. n + 1 -> Seq(S)], \A i \in 1 .. n : t[i] = s[i]
  PROVE  FlattenSeq(t) = FlattenSeq(s) \o t[n + 1]
<1>1. PICK f \in [1 .. n -> Seq(S)] : Joins(f, s, n) /\ FlattenSeq(s) = f[n]
  BY FlattenJoins
<1>2. n + 1 \in Nat \ {0}  OBVIOUS
<1>3. PICK g \in [1 .. n + 1 -> Seq(S)] : Joins(g, t, n + 1) /\ FlattenSeq(t) = g[n + 1]
  BY <1>2, FlattenJoins
<1> DEFINE T == {i \in Nat : i \in 1 .. n => g[i] = f[i]}
<1>4. ASSUME NEW i \in Nat, \A j \in Nat : j < i => j \in T PROVE i \in T
  <2> SUFFICES ASSUME i \in 1 .. n PROVE g[i] = f[i]  OBVIOUS
  <2>1. CASE i = 1  BY <1>1, <1>3, <2>1 DEF Joins
  <2>2. CASE i # 1
    <3>1. i - 1 \in Nat /\ i - 1 < i /\ i - 1 \in 1 .. n /\ i \in 2 .. n /\ i \in 2 .. n + 1
      BY <2>2
    <3>2. i - 1 \in T
      <4> HIDE DEF T
      <4> QED  BY <1>4, <3>1
    <3>3. g[i - 1] = f[i - 1]  BY <3>1, <3>2
    <3> QED  BY <1>1, <1>3, <3>1, <3>3 DEF Joins
  <2> QED  BY <2>1, <2>2
<1> HIDE DEF T
<1>5. n \in T  BY <1>4, CourseOfValues
<1>6. g[n] = f[n]  BY <1>5 DEF T
<1>7. n + 1 \in 2 .. n + 1 /\ n + 1 - 1 = n  OBVIOUS
<1>8. g[n + 1] = g[n] \o t[n + 1]
  <2>1. \A i \in 2 .. n + 1 : g[i] = g[i - 1] \o t[i]  BY <1>3 DEF Joins
  <2>2. PICK k \in 2 .. n + 1 : k = n + 1 /\ k - 1 = n  BY <1>7
  <2>3. g[k] = g[k - 1] \o t[k]  BY <2>1
  <2> QED  BY <2>2, <2>3
<1> QED  BY <1>1, <1>3, <1>6, <1>8

\* Nothing is put in the place of nothing.
LEMMA SpreadNothing ==
  ASSUME NEW g
  PROVE  Spread(g, <<>>) = <<>>
<1> DEFINE m == [i \in DOMAIN <<>> |-> g[<<>>[i]]]
<1>1. DOMAIN <<>> = {}  OBVIOUS
<1>2. m = <<>>  BY <1>1
<1> HIDE DEF m
<1>3. Len(m) = 0  BY <1>2
<1>4. FlattenSeq(m) = m  BY <1>3 DEF FlattenSeq
<1> QED  BY <1>2, <1>4 DEF Spread, m

\* What is put in the place of the elements is joined.
LEMMA SpreadType ==
  ASSUME NEW C, NEW S, NEW g \in [C -> Seq(S)], NEW s \in Seq(C)
  PROVE  Spread(g, s) \in Seq(S)
<1> DEFINE n == Len(s)
           m == [i \in DOMAIN s |-> g[s[i]]]
<1>1. n \in Nat /\ DOMAIN s = 1 .. n /\ \A i \in 1 .. n : s[i] \in C
  BY LenProperties
<1>2. CASE n = 0
  <2>1. s = <<>>  BY <1>2, EmptySeq
  <2>2. Spread(g, s) = <<>>  BY <2>1, SpreadNothing
  <2> QED  BY <2>2, EmptySeq
<1>3. CASE n # 0
  <2>1. n \in Nat \ {0}  BY <1>1, <1>3
  <2>2. m \in [1 .. n -> Seq(S)]  BY <1>1
  <2> HIDE DEF m, n
  <2>3. FlattenSeq(m) \in Seq(S)  BY <2>1, <2>2, FlattenRange
  <2> QED  BY <2>3 DEF Spread, m
<1> QED  BY <1>2, <1>3

\* One element more is one sequence more.
LEMMA SpreadAppend ==
  ASSUME NEW C, NEW S, NEW g \in [C -> Seq(S)], NEW s \in Seq(C), NEW c \in C
  PROVE  Spread(g, Append(s, c)) = Spread(g, s) \o g[c]
<1> DEFINE n == Len(s)
           m == [i \in DOMAIN s |-> g[s[i]]]
           u == Append(s, c)
           t == [i \in DOMAIN u |-> g[u[i]]]
<1>1. n \in Nat /\ DOMAIN s = 1 .. n /\ \A i \in 1 .. n : s[i] \in C
  BY LenProperties
<1>2. /\ u \in Seq(C) /\ Len(u) = n + 1
      /\ \A i \in 1 .. n : u[i] = s[i]
      /\ u[n + 1] = c
  BY AppendProperties
<1>3. DOMAIN u = 1 .. n + 1 /\ \A i \in 1 .. n + 1 : u[i] \in C
  BY <1>2, LenProperties
<1> HIDE DEF u, n
<1>4. t \in [1 .. n + 1 -> Seq(S)] /\ t[n + 1] = g[c]
  BY <1>1, <1>2, <1>3
<1>5. FlattenSeq(t) = FlattenSeq(m) \o t[n + 1]
  <2>1. CASE n = 0
    <3>1. s = <<>>  BY <2>1, EmptySeq DEF n
    <3>2. FlattenSeq(m) = <<>>
      <4>1. Spread(g, s) = <<>>  BY <3>1, SpreadNothing
      <4> QED  BY <4>1 DEF Spread
    <3>3. 1 \in Nat \ {0} /\ t \in [1 .. 1 -> Seq(S)]  BY <1>4, <2>1
    <3> HIDE DEF t
    <3>4. PICK f \in [1 .. 1 -> Seq(S)] : Joins(f, t, 1) /\ FlattenSeq(t) = f[1]
      BY <3>3, FlattenJoins
    <3>5. FlattenSeq(t) = t[1] /\ t[1] \in Seq(S)  BY <3>3, <3>4 DEF Joins
    <3>6. <<>> \o t[1] = t[1]  BY <3>5, ConcatEmptySeq
    <3>7. n + 1 = 1  BY <2>1
    <3> QED  BY <3>2, <3>5, <3>6, <3>7
  <2>2. CASE n # 0
    <3>1. n \in Nat \ {0}  BY <1>1, <2>2
    <3>2. m \in [1 .. n -> Seq(S)]  BY <1>1
    <3>3. \A i \in 1 .. n : t[i] = m[i]  BY <1>1, <1>2, <1>3
    <3> HIDE DEF m, t
    <3> QED  BY <1>4, <3>1, <3>2, <3>3, FlattenAppend
  <2> QED  BY <2>1, <2>2
<1> HIDE DEF m, t
<1>6. Spread(g, s) = FlattenSeq(m) /\ Spread(g, u) = FlattenSeq(t)  BY DEF Spread, m, t
<1> QED  BY <1>4, <1>5, <1>6 DEF u

\* The elements of two sequences are replaced in one and in the other.
LEMMA SpreadConcat ==
  ASSUME NEW C, NEW S, NEW g \in [C -> Seq(S)], NEW s \in Seq(C), NEW t \in Seq(C)
  PROVE  Spread(g, s \o t) = Spread(g, s) \o Spread(g, t)
<1> DEFINE T == {n \in Nat : \A u \in Seq(C) :
                   Len(u) = n => Spread(g, s \o u) = Spread(g, s) \o Spread(g, u)}
<1>1. ASSUME NEW n \in Nat, \A j \in Nat : j < n => j \in T PROVE n \in T
  <2> SUFFICES ASSUME NEW u \in Seq(C), Len(u) = n
               PROVE  Spread(g, s \o u) = Spread(g, s) \o Spread(g, u)
    OBVIOUS
  <2>0. Spread(g, s) \in Seq(S)  BY SpreadType
  <2>1. CASE u = <<>>
    <3>1. s \o u = s  BY <2>1, ConcatEmptySeq
    <3>2. Spread(g, u) = <<>>  BY <2>1, SpreadNothing
    <3> QED  BY <2>0, <3>1, <3>2, ConcatEmptySeq
  <2>2. CASE u # <<>>
    <3>1. PICK v \in Seq(C), c \in C : u = Append(v, c)
      BY <2>2, SequenceEmptyOrAppend
    <3>2. Len(u) = Len(v) + 1 /\ Len(v) \in Nat  BY <3>1, AppendProperties, LenProperties
    <3>3. Len(v) \in T
      <4> HIDE DEF T
      <4> QED  BY <1>1, <3>2
    <3>4. Spread(g, s \o v) = Spread(g, s) \o Spread(g, v)  BY <3>3
    <3> HIDE DEF T
    <3>5. <<c>> \in Seq(C)  OBVIOUS
    <3>6. s \o u = Append(s \o v, c) /\ s \o v \in Seq(C)
      <4>1. u = v \o <<c>>  BY <3>1, AppendIsConcat
      <4>2. s \o v \in Seq(C)  BY ConcatProperties
      <4>3. Append(s \o v, c) = (s \o v) \o <<c>>  BY <4>2, AppendIsConcat
      <4>4. (s \o v) \o <<c>> = s \o (v \o <<c>>)  BY <3>5, ConcatAssociative
      <4> QED  BY <4>1, <4>2, <4>3, <4>4
    <3>7. Spread(g, s \o u) = Spread(g, s \o v) \o g[c]  BY <3>6, SpreadAppend
    <3>8. Spread(g, u) = Spread(g, v) \o g[c]  BY <3>1, SpreadAppend
    <3>9. Spread(g, v) \in Seq(S) /\ g[c] \in Seq(S)  BY SpreadType
    <3>10. (Spread(g, s) \o Spread(g, v)) \o g[c] = Spread(g, s) \o (Spread(g, v) \o g[c])
      BY <2>0, <3>9, ConcatAssociative
    <3> QED  BY <3>4, <3>7, <3>8, <3>10
  <2> QED  BY <2>1, <2>2
<1> HIDE DEF T
<1>2. Nat \subseteq T  BY <1>1, CourseOfValues
<1>3. Len(t) \in Nat  BY LenProperties
<1> QED  BY <1>2, <1>3 DEF T

=============================================================================
