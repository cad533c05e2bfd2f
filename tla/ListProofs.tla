------------------------------ MODULE ListProofs ------------------------------
(***************************************************************************)
(* What dropping entries from a list leaves, and the least element of a    *)
(* set of places, for lists of any length.                                 *)
(***************************************************************************)
EXTENDS Lists, FiniteSetTheorems, NaturalsInduction, WellFoundedInduction, TLAPS

\* The smaller number is a well-founded relation.
LEMMA LessWellFounded == IsWellFoundedOn({ss \in Nat \X Nat : ss[1] < ss[2]}, Nat)
BY NatLessThanWellFounded, Zenon DEF OpToRel

\* A set of numbers that is not empty has a least element.
LEMMA LeastElement ==
    ASSUME NEW S, S \subseteq Nat, S # {}
    PROVE  \E n \in S : \A m \in S : n <= m
<1> DEFINE R == {ss \in Nat \X Nat : ss[1] < ss[2]}
<1>1. IsWellFoundedOn(R, Nat)
  BY LessWellFounded, Zenon
<1>2. \A x, y \in Nat : <<y, x>> \in R <=> y < x
  BY Zenon
<1> HIDE DEF R
<1>3. PICK x \in S : \A y \in S : <<y, x>> \notin R
  BY Zenon, <1>1, WFMin
<1>4. ASSUME NEW y \in S PROVE x <= y
  <2>1. x \in Nat /\ y \in Nat
    BY Zenon
  <2>2. ~(y < x)
    BY <1>2, <1>3, <2>1, Zenon
  <2> QED BY <2>1, <2>2
<1> QED BY <1>4, Zenon

\* Counting the places kept up to one numbers them from 1, without gaps.
LEMMA PlacesKept ==
    ASSUME NEW keep, IsFiniteSet(keep), keep \subseteq Nat
    PROVE  LET rank(i) == Cardinality({j \in keep : j <= i})
               N == Cardinality(keep)
           IN  /\ N \in Nat
               /\ \A n \in 1..N : \E i \in keep : rank(i) = n
               /\ \A i \in keep : rank(i) \in 1..N
               /\ \A i, j \in keep : rank(i) = rank(j) => i = j
<1> DEFINE Upto(i) == {j \in keep : j <= i}
           rank(i) == Cardinality(Upto(i))
           N == Cardinality(keep)
           h == [i \in keep |-> rank(i)]
           Img == {rank(i) : i \in keep}
<1>1. N \in Nat
  BY FS_CardinalityType, Zenon
<1>2. \A i \in keep : IsFiniteSet(Upto(i)) /\ rank(i) \in Nat /\ rank(i) <= N
  BY FS_Subset, FS_CardinalityType, Zenon
<1>3. \A i \in keep : rank(i) # 0
  <2> SUFFICES ASSUME NEW i \in keep PROVE rank(i) # 0
    BY Zenon
  <2>1. i \in Upto(i)
    OBVIOUS
  <2> QED BY <1>2, <2>1, FS_EmptySet, Zenon
<1>4. \A i, j \in keep : rank(i) = rank(j) => i = j
  <2>1. ASSUME NEW i \in keep, NEW j \in keep, i <= j, rank(i) = rank(j) PROVE i = j
    <3>0. i \in Nat /\ j \in Nat /\ i <= j
      BY <2>1, Zenon
    <3>a. \A e \in Nat : e <= i => e <= j
      BY <3>0
    <3>1. Upto(i) \subseteq Upto(j)
      BY <3>a, Zenon
    <3>2. IsFiniteSet(Upto(j))
      BY <1>2, Zenon
    <3>3. Upto(j) = Upto(i)
      BY <2>1, <3>1, <3>2, FS_Subset, Zenon
    <3>4. j \in Upto(i)
      BY <3>3
    <3> QED BY <2>1, <3>4
  <2> QED BY <2>1
<1>5. h \in Surjection(keep, Img)
  BY Zenon DEF Surjection
<1>6. h \in Injection(keep, Img)
  BY Zenon, <1>4 DEF Injection, IsInjective
<1>7. Img \subseteq 1..N
  <2>1. ASSUME NEW i \in keep PROVE rank(i) \in 1..N
    <3>1. rank(i) \in Nat /\ rank(i) <= N /\ rank(i) # 0 /\ N \in Nat
      BY <1>1, <1>2, <1>3, Zenon
    <3> HIDE DEF rank, N
    <3>2. 1 <= rank(i)
      BY <3>1
    <3> QED BY <3>1, <3>2
  <2> HIDE DEF rank, N
  <2> QED BY <2>1, Zenon
<1> HIDE DEF h, N, Img
<1>8. Cardinality(Img) = N
  BY <1>5, <1>6, FS_Surjection, Zenon DEF N
<1>9. IsFiniteSet(1..N) /\ Cardinality(1..N) = N
  BY <1>1, FS_Interval
<1>10. 1..N = Img
  BY Zenon, <1>7, <1>8, <1>9, FS_Subset
<1>11. \A n \in 1..N : \E i \in keep : rank(i) = n
  BY Zenon, <1>10 DEF Img
<1>12. \A i \in keep : rank(i) \in 1..N
  BY Zenon, <1>10 DEF Img
<1> QED BY Zenon, <1>1, <1>4, <1>11, <1>12 DEF N

\* place tells where in s the entries of t come from.
ComesFrom(s, keep, t, place) ==
    /\ place \in [DOMAIN t -> keep]
    /\ \A n \in DOMAIN t : t[n] = s[place[n]]
    /\ \A m, n \in DOMAIN t : place[m] = place[n] => m = n
    /\ \A i \in keep : \E n \in DOMAIN t : place[n] = i

\* The entries kept are those of s at the places kept, each once.
LEMMA EntriesMap ==
    ASSUME NEW R, NEW s \in Seq(R), NEW keep, keep \subseteq DOMAIN s, NEW t,
           t = EntriesAt(s, keep)
    PROVE  /\ t \in Seq(R) /\ IsFiniteSet(keep) /\ Len(t) = Cardinality(keep)
           /\ \E place : ComesFrom(s, keep, t, place)
<1> DEFINE rank(i) == Cardinality({j \in keep : j <= i})
           N == Cardinality(keep)
           at(n) == CHOOSE i \in keep : rank(i) = n
<1>1. Len(s) \in Nat /\ DOMAIN s = 1..Len(s)
  OBVIOUS
<1>2. IsFiniteSet(keep) /\ keep \subseteq Nat
  <2>1. IsFiniteSet(1..Len(s))
    BY <1>1, FS_Interval
  <2>2. keep \subseteq 1..Len(s) /\ keep \subseteq Nat
    BY <1>1
  <2> QED BY <2>1, <2>2, FS_Subset, Zenon
<1>3. /\ N \in Nat /\ \A n \in 1..N : \E i \in keep : rank(i) = n
      /\ \A i \in keep : rank(i) \in 1..N
      /\ \A i, j \in keep : rank(i) = rank(j) => i = j
  BY Zenon, <1>2, PlacesKept
<1>4. t = [n \in 1..N |-> s[at(n)]]
  BY Zenon DEF EntriesAt
<1> HIDE DEF rank, N
<1>5. \A n \in 1..N : at(n) \in keep /\ rank(at(n)) = n
  BY <1>3, Zenon
<1> HIDE DEF at
<1>6. DOMAIN t = 1..N /\ \A n \in 1..N : t[n] = s[at(n)] /\ t[n] \in R
  BY <1>1, <1>4, <1>5
<1>7. t \in [1..N -> R]
  BY <1>4, <1>6, Zenon
<1>8. t \in Seq(R) /\ Len(t) = N
  BY <1>3, <1>7
<1> DEFINE place == [n \in 1..N |-> at(n)]
<1>9. place \in [1..N -> keep] /\ \A n \in 1..N : place[n] = at(n)
  BY <1>5, Zenon
<1> HIDE DEF place
<1>10. \A n \in 1..N : t[n] = s[place[n]]
  BY <1>6, <1>9, Zenon
<1>11. \A m, n \in 1..N : place[m] = place[n] => m = n
  BY <1>5, <1>9, Zenon
<1>12. \A i \in keep : place[rank(i)] = i
  BY <1>3, <1>5, <1>9
<1>13. \A i \in keep : \E n \in 1..N : place[n] = i
  BY <1>3, <1>12, Zenon
<1>14. ComesFrom(s, keep, t, place)
  BY <1>6, <1>9, <1>10, <1>11, <1>13, Zenon DEF ComesFrom
<1>15. Len(t) = Cardinality(keep)
  BY <1>8, Zenon DEF N
<1> QED BY <1>2, <1>8, <1>14, <1>15, Zenon

\* Entries of different places come from different places.
LEMMA EntriesKept ==
    ASSUME NEW R, NEW s \in Seq(R), NEW keep, keep \subseteq DOMAIN s, NEW t,
           t = EntriesAt(s, keep)
    PROVE  /\ t \in Seq(R)
           /\ \A n \in DOMAIN t : \E i \in keep : t[n] = s[i]
           /\ \A m, n \in DOMAIN t : m # n =>
                 \E i, j \in keep : i # j /\ t[m] = s[i] /\ t[n] = s[j]
           /\ \A i \in keep : \E n \in DOMAIN t : t[n] = s[i]
<1>1. t \in Seq(R)
  BY EntriesMap, Zenon
<1>2. PICK place : ComesFrom(s, keep, t, place)
  BY EntriesMap, Zenon
<1> QED BY <1>1, <1>2 DEF ComesFrom

\* Least names the least element.
LEMMA LeastIs ==
    ASSUME NEW S, S \subseteq Nat, S # {}
    PROVE  Least(S) \in S /\ \A k \in S : Least(S) <= k
BY LeastElement, Zenon DEF Least
===============================================================================
