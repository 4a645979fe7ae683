--------------------------- MODULE EntiretyProofs ---------------------------
(***************************************************************************)
(* Theorems about geojson2entirety, for every input, every limit and mode, *)
(* and buffers of any size: the tree of cells (TreeIndex), and what is     *)
(* read and written (EntiretyFiles).                                       *)
(***************************************************************************)
EXTENDS Entirety, FiniteSetTheorems, SequenceTheorems, WellFoundedInduction, TLAPS

(* No index is below the first.                                             *)
LEMMA NoIndex == 1..0 = {}
  OBVIOUS

(* Induction up to a bound, with a set in place of a predicate: the         *)
(* well-founded relation is that between the sets of what is above a        *)
(* number.                                                                  *)
LEMMA UpTo ==
  ASSUME NEW n \in Nat, NEW D, 0 \in D, \A k \in 0..n - 1 : k \in D => k + 1 \in D
  PROVE  \A k \in 0..n : k \in D
  <1> DEFINE Above(j) == {k \in 0..n : j <= k}
             R == StrictSubsetOrdering(0..n)
             F == FiniteSubsetsOf(0..n)
             T == {Above(j) : j \in {k \in 0..n : \A i \in 0..k : i \in D}}
  <1>1. IsFiniteSet(0..n)
    BY FS_Interval
  <1>2. F = SUBSET (0..n)
    BY <1>1, FS_FiniteSubsetsOfFinite
  <1>3. IsWellFoundedOn(R, F)
    BY FS_StrictSubsetOrderingWellFounded
  <1>4. Above(0) \in T
    OBVIOUS
  <1>5. T \subseteq F
    BY <1>2
  <1>6. PICK x \in T : \A y \in T : ~(<<y, x>> \in R)
    BY <1>3, <1>4, <1>5, WFMin
  <1>7. PICK j \in 0..n : x = Above(j) /\ \A i \in 0..j : i \in D
    BY <1>6
  <1>8. j = n
    <2> SUFFICES ASSUME j # n  PROVE FALSE
      OBVIOUS
    <2>1. j + 1 \in 0..n /\ j \in 0..n-1
      OBVIOUS
    <2>2. \A i \in 0..j + 1 : i \in D
      BY <1>7, <2>1
    <2>3. Above(j + 1) \in T
      BY <2>1, <2>2
    <2>4. Above(j + 1) \subseteq x /\ Above(j + 1) # x
      BY <1>7, <2>1
    <2>5. <<Above(j + 1), x>> \in R
      BY <2>3, <2>4, <1>2, <1>5, <1>6 DEF StrictSubsetOrdering
    <2> QED
      BY <1>6, <2>3, <2>5
  <1> QED
    BY <1>7, <1>8

(* A set of natural numbers has a least.                                    *)
LEMMA LeastExists ==
  ASSUME NEW S, S \subseteq Nat, NEW e \in S
  PROVE  \E x \in S : \A y \in S : x <= y
  <1>1. PICK x \in S : \A y \in S : ~(<<y, x>> \in OpToRel(<, Nat))
    BY NatLessThanWellFounded, WFMin
  <1>2. \A y \in S : ~(y < x)
    BY <1>1 DEF OpToRel
  <1> QED
    BY <1>2

(* What is appended to is there as before, and what is appended follows.    *)
LEMMA AppendAt ==
  ASSUME NEW S, NEW s \in Seq(S), NEW x \in S
  PROVE  /\ Len(Append(s, x)) = Len(s) + 1 /\ Append(s, x)[Len(s) + 1] = x
         /\ \A i \in 1..Len(s) : Append(s, x)[i] = s[i]
  BY AppendProperties

(* What follows a sequence without repetition, and is not in it.            *)
LEMMA OneMoreOnce ==
  ASSUME NEW s, NEW n \in Nat, \A i, j \in 1..n : s[i] = s[j] => i = j,
         \A i \in 1..n : s[i] # s[n + 1]
  PROVE  \A i, j \in 1..n + 1 : s[i] = s[j] => i = j
  <1>1. \A i \in 1..n + 1 : i \in 1..n \/ i = n + 1
    OBVIOUS
  <1> QED
    BY <1>1, Zenon

(* The last of a tuple of five.                                             *)
LEMMA FifthIs ==
  ASSUME NEW S, NEW q \in Seq(S), NEW a \in S
  PROVE  Len(q) = 4 => Len(Append(q, a)) = 5 /\ Append(q, a)[5] = a
  <1>1. Len(Append(q, a)) = Len(q) + 1 /\ Append(q, a)[Len(q) + 1] = a
    BY AppendAt
  <1> QED
    BY <1>1

(* The order of tuples of numbers. *)

Tuples(m) == [1..m -> Int]

(* Of two that differ the one that is less where they do so first precedes. *)
LEMMA PrecedesTotal ==
  ASSUME NEW m \in Nat, NEW p \in Tuples(m), NEW q \in Tuples(m), p # q
  PROVE  Precedes(p, q) \/ Precedes(q, p)
  <1> DEFINE S == {i \in 1..m : p[i] # q[i]}
  <1>1. PICK e \in S : TRUE
    BY DEF Tuples
  <1>2. PICK i \in S : \A j \in S : i <= j
    <2>1. S \subseteq Nat /\ e \in S
      OBVIOUS
    <2> HIDE DEF S
    <2> QED
      BY <2>1, LeastExists
  <1>3. \A j \in 1..i - 1 : j \in 1..m /\ p[j] = q[j]
    BY <1>2
  <1>4. p[i] \in Int /\ q[i] \in Int /\ p[i] # q[i] /\ i \in DOMAIN p /\ i \in DOMAIN q
    BY <1>2 DEF Tuples
  <1>5. p[i] < q[i] \/ q[i] < p[i]
    BY <1>4
  <1> QED
    BY <1>3, <1>4, <1>5 DEF Precedes

(* Where they first differ.                                                 *)
LEMMA PrecedesAt ==
  ASSUME NEW m \in Nat, NEW p \in Tuples(m), NEW q, Precedes(p, q)
  PROVE  \E n \in 1..m : p[n] < q[n] /\ \A k \in 1..n - 1 : p[k] = q[k]
  BY DEF Tuples, Precedes

(* None precedes itself, and what precedes what precedes another precedes   *)
(* it.                                                                      *)
LEMMA PrecedesOrder ==
  ASSUME NEW m \in Nat, NEW p \in Tuples(m), NEW q \in Tuples(m), NEW r \in Tuples(m)
  PROVE  /\ ~Precedes(p, p)
         /\ Precedes(p, q) /\ Precedes(q, r) => Precedes(p, r)
  <1>1. ~Precedes(p, p)
    <2> SUFFICES ASSUME Precedes(p, p)  PROVE FALSE
      OBVIOUS
    <2>1. PICK n \in 1..m : p[n] < p[n]
      BY PrecedesAt
    <2>2. p[n] \in Int
      BY DEF Tuples
    <2> QED
      BY <2>1, <2>2
  <1>2. ASSUME Precedes(p, q), Precedes(q, r)  PROVE Precedes(p, r)
    <2>1. PICK a \in 1..m : p[a] < q[a] /\ \A k \in 1..a - 1 : p[k] = q[k]
      BY <1>2, PrecedesAt
    <2>2. PICK b \in 1..m : q[b] < r[b] /\ \A k \in 1..b - 1 : q[k] = r[k]
      BY <1>2, PrecedesAt
    <2>3. \A k \in 1..m : p[k] \in Int /\ q[k] \in Int /\ r[k] \in Int
      BY DEF Tuples
    <2>4. DOMAIN p = 1..m
      BY DEF Tuples
    <2>5. CASE a <= b
      <3>1. p[a] < r[a]
        <4>1. CASE a = b
          BY <4>1, <2>1, <2>2, <2>3
        <4>2. CASE a < b
          <5>1. a \in 1..b - 1
            BY <4>2
          <5> QED
            BY <5>1, <2>1, <2>2
        <4> QED
          BY <4>1, <4>2, <2>5
      <3>2. \A k \in 1..a - 1 : k \in 1..b - 1 /\ p[k] = r[k]
        BY <2>1, <2>2, <2>5
      <3> QED
        BY <3>1, <3>2, <2>4 DEF Precedes
    <2>6. CASE b < a
      <3>1. b \in 1..a - 1
        BY <2>6
      <3>2. p[b] < r[b]
        BY <3>1, <2>1, <2>2
      <3>3. \A k \in 1..b - 1 : k \in 1..a - 1 /\ p[k] = r[k]
        BY <2>1, <2>2, <2>6
      <3> QED
        BY <3>2, <3>3, <2>4 DEF Precedes
    <2> QED
      BY <2>5, <2>6
  <1> QED
    BY <1>1, <1>2

(* One item more after each.                                                *)
LEMMA AppendPrecedes ==
  ASSUME NEW m \in Nat, NEW p \in Seq(Int), NEW q \in Seq(Int), Len(p) = m, Len(q) = m,
         NEW a \in Int, NEW b \in Int
  PROVE  /\ Append(p, a) \in Tuples(m + 1)
         /\ p \in Tuples(m)
         /\ Precedes(Append(p, a), Append(q, b)) <=> (Precedes(p, q) \/ (p = q /\ a < b))
  <1> DEFINE x == Append(p, a)
             y == Append(q, b)
  <1>1. /\ x \in Seq(Int) /\ Len(x) = m + 1 /\ x[m + 1] = a /\ \A i \in 1..m : x[i] = p[i]
        /\ y \in Seq(Int) /\ Len(y) = m + 1 /\ y[m + 1] = b /\ \A i \in 1..m : y[i] = q[i]
    BY AppendProperties
  <1>2. p = [i \in 1..m |-> p[i]] /\ q = [i \in 1..m |-> q[i]]
    OBVIOUS
  <1> HIDE DEF x, y
  <1>3. m + 1 \in Nat /\ x \in Tuples(m + 1) /\ p \in Tuples(m) /\ DOMAIN x = 1..m + 1 /\ DOMAIN p = 1..m
    <2>1. x = [i \in 1..m + 1 |-> x[i]] /\ \A i \in 1..m + 1 : x[i] \in Int
      BY <1>1
    <2>2. \A i \in 1..m : p[i] \in Int
      OBVIOUS
    <2> QED
      BY <2>1, <2>2, <1>2 DEF Tuples
  <1>4. ASSUME Precedes(x, y)  PROVE Precedes(p, q) \/ (p = q /\ a < b)
    <2>1. PICK n \in 1..m + 1 : x[n] < y[n] /\ \A k \in 1..n - 1 : x[k] = y[k]
      BY <1>3, <1>4, PrecedesAt
    <2>2. CASE n = m + 1
      <3>1. \A k \in 1..m : p[k] = q[k]
        BY <2>1, <2>2, <1>1
      <3>2. p = q
        BY <3>1, <1>2
      <3> QED
        BY <2>1, <2>2, <3>2, <1>1
    <2>3. CASE n # m + 1
      <3>1. n \in 1..m /\ \A k \in 1..n - 1 : k \in 1..m
        BY <2>3
      <3>2. p[n] < q[n] /\ \A k \in 1..n - 1 : p[k] = q[k]
        BY <3>1, <2>1, <1>1
      <3> QED
        BY <3>1, <3>2, <1>3 DEF Precedes
    <2> QED
      BY <2>2, <2>3
  <1>5. ASSUME Precedes(p, q)  PROVE Precedes(x, y)
    <2>1. PICK n \in 1..m : p[n] < q[n] /\ \A k \in 1..n - 1 : p[k] = q[k]
      <3>1. DOMAIN p = 1..m
        BY <1>3 DEF Tuples
      <3> QED
        BY <3>1, <1>5 DEF Precedes
    <2>2. n \in 1..m + 1 /\ \A k \in 1..n - 1 : k \in 1..m
      OBVIOUS
    <2>3. x[n] < y[n] /\ \A k \in 1..n - 1 : x[k] = y[k]
      BY <2>1, <2>2, <1>1
    <2> QED
      BY <2>2, <2>3, <1>3 DEF Precedes
  <1>6. ASSUME p = q, a < b  PROVE Precedes(x, y)
    <2>1. x[m + 1] < y[m + 1] /\ \A k \in 1..(m + 1) - 1 : x[k] = y[k]
      BY <1>6, <1>1
    <2>2. m + 1 \in DOMAIN x
      BY <1>3
    <2> QED
      BY <2>1, <2>2 DEF Precedes
  <1> QED
    BY <1>3, <1>4, <1>5, <1>6 DEF x, y

-----------------------------------------------------------------------------
(* Sorting. *)

(* The items of S, in order.                                                *)
Rising(s, n, S) ==
    /\ s \in [1..n -> S]
    /\ \A i, j \in 1..n : i < j => Precedes(s[i], s[j])
    /\ \A x \in S : \E i \in 1..n : s[i] = x

(* An item comes before another where it precedes it.                       *)
LEMMA RisingOrder ==
  ASSUME NEW m \in Nat, NEW S, S \subseteq Tuples(m), NEW n \in Nat, NEW s, Rising(s, n, S),
         NEW i \in 1..n, NEW j \in 1..n
  PROVE  /\ Precedes(s[i], s[j]) <=> i < j
         /\ s[i] = s[j] <=> i = j
  <1>1. s[i] \in Tuples(m) /\ s[j] \in Tuples(m)
    BY DEF Rising
  <1>2. i < j => Precedes(s[i], s[j])
    BY DEF Rising
  <1>3. j < i => Precedes(s[j], s[i])
    BY DEF Rising
  <1>4. /\ ~Precedes(s[i], s[i])
        /\ ~(Precedes(s[i], s[j]) /\ Precedes(s[j], s[i]))
    BY <1>1, PrecedesOrder
  <1>5. i < j \/ j < i \/ i = j
    OBVIOUS
  <1>6. ~(i < i)
    OBVIOUS
  <1> HIDE DEF Precedes
  <1>7. CASE i = j
    BY <1>4, <1>6, <1>7, Zenon
  <1>8. CASE i < j
    <2>1. i # j /\ ~(j < i)
      BY <1>8
    <2> QED
      BY <1>2, <1>4, <1>8, <2>1, Zenon
  <1>9. CASE j < i
    <2>1. i # j /\ ~(i < j)
      BY <1>9
    <2> QED
      BY <1>3, <1>4, <1>9, <2>1, Zenon
  <1> QED
    BY <1>5, <1>7, <1>8, <1>9

(* There are as many items as are in S.                                     *)
LEMMA RisingCount ==
  ASSUME NEW m \in Nat, NEW S, S \subseteq Tuples(m), NEW n \in Nat, NEW s, Rising(s, n, S)
  PROVE  IsFiniteSet(S) /\ Cardinality(S) = n
  <1>1. s \in Bijection(1..n, S)
    <2>1. \A i, j \in 1..n : s[i] = s[j] => i = j
      BY RisingOrder
    <2>2. s \in [1..n -> S] /\ \A x \in S : \E i \in 1..n : s[i] = x
      BY DEF Rising
    <2> QED
      BY <2>1, <2>2 DEF Bijection, Injection, Surjection, IsInjective
  <1>2. ExistsBijection(1..n, S)
    BY <1>1 DEF ExistsBijection
  <1>3. IsFiniteSet(1..n) /\ Cardinality(1..n) = n
    BY FS_Interval
  <1> QED
    BY <1>2, <1>3, FS_Bijection

(* What holds of the first items alone holds of as many of them as it holds *)
(* of items.                                                                *)
LEMMA RisingCut ==
  ASSUME NEW m \in Nat, NEW S, S \subseteq Tuples(m), NEW n \in Nat, NEW s, Rising(s, n, S),
         NEW D, D \subseteq S,
         \A i, j \in 1..n : i < j /\ s[j] \in D => s[i] \in D
  PROVE  /\ Cardinality(D) \in 0..n
         /\ \A i \in 1..n : s[i] \in D <=> i <= Cardinality(D)
  <1>1. PICK c \in 0..n : \A i \in 1..n : s[i] \in D <=> i <= c
    <2> DEFINE T == {k \in 0..n : k = n \/ s[k + 1] \notin D}
    <2>1. T \subseteq Nat /\ n \in T
      OBVIOUS
    <2>2. PICK c \in T : \A k \in T : c <= k
      <3> HIDE DEF T
      <3> QED
        BY <2>1, LeastExists
    <2>3. ASSUME NEW i \in 1..n, i <= c  PROVE s[i] \in D
      <3>1. i - 1 \in 0..n /\ ~(c <= i - 1) /\ (i - 1) + 1 = i /\ i - 1 # n
        BY <2>2, <2>3
      <3>2. i - 1 \notin T
        BY <2>2, <3>1
      <3> QED
        BY <3>1, <3>2
    <2>4. ASSUME NEW i \in 1..n, c < i  PROVE s[i] \notin D
      <3>1. c \in 0..n /\ c # n /\ c + 1 \in 1..n /\ c + 1 <= i
        BY <2>2, <2>4
      <3>2. s[c + 1] \notin D
        BY <2>2, <3>1
      <3>3. CASE c + 1 = i
        BY <3>2, <3>3
      <3>4. CASE c + 1 < i
        BY <3>1, <3>2, <3>4
      <3> QED
        BY <3>1, <3>3, <3>4
    <2>5. c \in 0..n /\ \A i \in 1..n : i <= c \/ c < i
      BY <2>2
    <2> QED
      BY <2>3, <2>4, <2>5
  <1> DEFINE d == [i \in 1..c |-> s[i]]
  <1>2. \A i \in 1..c : i \in 1..n /\ s[i] \in D
    BY <1>1
  <1>3. Rising(d, c, D)
    <2>1. d \in [1..c -> D]
      BY <1>2
    <2>2. \A i, j \in 1..c : i < j => Precedes(d[i], d[j])
      BY <1>2 DEF Rising
    <2>3. ASSUME NEW x \in D  PROVE \E i \in 1..c : d[i] = x
      <3>1. PICK i \in 1..n : s[i] = x
        BY DEF Rising
      <3>2. i \in 1..c
        BY <1>1, <3>1
      <3> QED
        BY <3>1, <3>2
    <2> HIDE DEF d
    <2> QED
      BY <2>1, <2>2, <2>3 DEF Rising
  <1> HIDE DEF d
  <1>4. Cardinality(D) = c
    <2>1. D \subseteq Tuples(m) /\ c \in Nat
      OBVIOUS
    <2> QED
      BY <2>1, <1>3, RisingCount
  <1> QED
    BY <1>1, <1>4

(* There is only one way to have them in order.                             *)
LEMMA RisingOnce ==
  ASSUME NEW m \in Nat, NEW S, S \subseteq Tuples(m),
         NEW n \in Nat, NEW s, Rising(s, n, S), NEW k \in Nat, NEW t, Rising(t, k, S)
  PROVE  n = k /\ s = t
  <1>1. n = k
    <2>1. Cardinality(S) = n
      BY RisingCount
    <2>2. Cardinality(S) = k
      BY RisingCount
    <2> QED
      BY <2>1, <2>2
  <1>2. ASSUME NEW i \in 1..n  PROVE s[i] = t[i]
    <2>1. s[i] \in S /\ s[i] \in Tuples(m)
      BY DEF Rising
    <2>2. PICK j \in 1..k : t[j] = s[i]
      BY <2>1 DEF Rising
    <2> DEFINE D == {x \in S : Precedes(x, s[i])}
    <2>3. \A a \in 1..n : s[a] \in D <=> a < i
      <3>1. \A a \in 1..n : s[a] \in S
        BY DEF Rising
      <3>2. \A a \in 1..n : Precedes(s[a], s[i]) <=> a < i
        BY RisingOrder
      <3> QED
        BY <3>1, <3>2
    <2>4. \A a \in 1..k : t[a] \in D <=> a < j
      <3>1. \A a \in 1..k : t[a] \in S
        BY DEF Rising
      <3>2. \A a \in 1..k : Precedes(t[a], t[j]) <=> a < j
        BY RisingOrder
      <3> QED
        BY <3>1, <3>2, <2>2
    <2>5. D \subseteq S
      OBVIOUS
    <2> HIDE DEF D
    <2>6. /\ Cardinality(D) \in 0..n
          /\ \A a \in 1..n : s[a] \in D <=> a <= Cardinality(D)
      <3>1. \A a, b \in 1..n : a < b /\ s[b] \in D => s[a] \in D
        BY <2>3
      <3> QED
        BY <3>1, <2>5, RisingCut
    <2>7. /\ Cardinality(D) \in 0..k
          /\ \A a \in 1..k : t[a] \in D <=> a <= Cardinality(D)
      <3>1. \A a, b \in 1..k : a < b /\ t[b] \in D => t[a] \in D
        BY <2>4
      <3> QED
        BY <3>1, <2>5, RisingCut
    <2> DEFINE c == Cardinality(D)
    <2>8. c \in 0..n /\ (\A a \in 1..n : a < i <=> a <= c) /\ (\A a \in 1..n : a < j <=> a <= c)
      BY <2>3, <2>4, <2>6, <2>7, <1>1
    <2> HIDE DEF c
    <2>9. i = c + 1
      <3>1. ~(i <= c)
        BY <2>8
      <3>2. CASE i > c + 1
        <4>1. c + 1 \in 1..n
          BY <2>8, <3>2
        <4> QED
          BY <4>1, <3>2, <2>8
      <3> QED
        BY <2>8, <3>1, <3>2
    <2>10. j = c + 1
      <3>0. j \in 1..n
        BY <1>1
      <3>1. ~(j <= c)
        BY <3>0, <2>8
      <3>2. CASE j > c + 1
        <4>1. c + 1 \in 1..n
          BY <2>8, <3>0, <3>2
        <4> QED
          BY <4>1, <3>2, <2>8
      <3> QED
        BY <2>8, <3>0, <3>1, <3>2
    <2> QED
      BY <2>2, <2>9, <2>10
  <1>3. s = [i \in 1..n |-> s[i]] /\ t = [i \in 1..k |-> t[i]]
    BY DEF Rising
  <1> QED
    BY <1>1, <1>2, <1>3

(* A finite set has a last item.                                            *)
LEMMA LastExists ==
  ASSUME NEW m \in Nat, NEW S, S \subseteq Tuples(m), IsFiniteSet(S), S # {}
  PROVE  \E x \in S : \A y \in S : y # x => Precedes(y, x)
  <1> DEFINE n == Cardinality(S)
             D == {k \in 0..n : \A T \in SUBSET S : Cardinality(T) = k /\ T # {} =>
                                  \E x \in T : \A y \in T : y # x => Precedes(y, x)}
  <1>1. n \in Nat /\ \A T \in SUBSET S : IsFiniteSet(T) /\ Cardinality(T) \in Nat
    BY FS_CardinalityType, FS_Subset
  <1>2. 0 \in D
    <2>1. \A T \in SUBSET S : Cardinality(T) = 0 => T = {}
      BY <1>1, FS_EmptySet
    <2> QED
      BY <1>1, <2>1
  <1>3. ASSUME NEW k \in 0..n - 1, k \in D  PROVE k + 1 \in D
    <2> SUFFICES ASSUME NEW T \in SUBSET S, Cardinality(T) = k + 1, T # {}
                 PROVE  \E x \in T : \A y \in T : y # x => Precedes(y, x)
      BY <1>1
    <2>1. PICK e \in T : TRUE
      OBVIOUS
    <2> DEFINE R == T \ {e}
    <2>2. R \in SUBSET S /\ Cardinality(R) = k
      <3>1. Cardinality(R) = IF e \in T THEN Cardinality(T) - 1 ELSE Cardinality(T)
        BY <1>1, FS_RemoveElement
      <3>2. (k + 1) - 1 = k /\ R \in SUBSET S
        OBVIOUS
      <3> QED
        BY <3>1, <3>2, <2>1
    <2>3. CASE R = {}
      BY <2>1, <2>3
    <2>4. CASE R # {}
      <3>1. PICK x \in R : \A y \in R : y # x => Precedes(y, x)
        BY <1>3, <2>2, <2>4
      <3>2. e \in Tuples(m) /\ x \in Tuples(m) /\ x # e /\ \A y \in T : y \in Tuples(m)
        BY <2>1, <3>1
      <3>3. CASE Precedes(e, x)
        BY <3>1, <3>3
      <3>4. CASE Precedes(x, e)
        <4>1. ASSUME NEW y \in T, y # e  PROVE Precedes(y, e)
          <5>1. CASE y = x
            BY <3>4, <5>1
          <5>2. CASE y # x
            <6>1. Precedes(y, x) /\ y \in Tuples(m)
              BY <3>1, <3>2, <4>1, <5>2
            <6> HIDE DEF R
            <6> QED
              BY <6>1, <3>2, <3>4, PrecedesOrder
          <5> QED
            BY <5>1, <5>2
        <4> QED
          BY <2>1, <4>1
      <3>5. Precedes(e, x) \/ Precedes(x, e)
        BY <3>2, PrecedesTotal
      <3> QED
        BY <3>3, <3>4, <3>5
    <2> QED
      BY <2>3, <2>4
  <1> HIDE DEF D
  <1>4. n \in D
    BY <1>1, <1>2, <1>3, UpTo
  <1> QED
    BY <1>4 DEF D

(* There is a way to have the items of a finite set in order.               *)
LEMMA RisingExists ==
  ASSUME NEW m \in Nat, NEW S, S \subseteq Tuples(m), IsFiniteSet(S)
  PROVE  \E s : Rising(s, Cardinality(S), S)
  <1> DEFINE n == Cardinality(S)
             D == {k \in 0..n : \A T \in SUBSET S : Cardinality(T) = k => \E s : Rising(s, k, T)}
  <1>1. n \in Nat /\ \A T \in SUBSET S : IsFiniteSet(T) /\ Cardinality(T) \in Nat
    BY FS_CardinalityType, FS_Subset
  <1>2. 0 \in D
    <2>1. \A T \in SUBSET S : Cardinality(T) = 0 => T = {}
      BY <1>1, FS_EmptySet
    <2>2. Rising([i \in 1..0 |-> i], 0, {})
      BY NoIndex DEF Rising
    <2>3. 0 \in 0..n
      BY <1>1
    <2> QED
      BY <2>1, <2>2, <2>3
  <1>3. ASSUME NEW k \in 0..n - 1, k \in D  PROVE k + 1 \in D
    <2> SUFFICES ASSUME NEW T \in SUBSET S, Cardinality(T) = k + 1
                 PROVE  \E s : Rising(s, k + 1, T)
      BY <1>1
    <2>1. T # {} /\ T \subseteq Tuples(m) /\ IsFiniteSet(T)
      BY <1>1, FS_EmptySet
    <2>2. PICK x \in T : \A y \in T : y # x => Precedes(y, x)
      BY <2>1, LastExists
    <2> DEFINE R == T \ {x}
    <2>3. R \in SUBSET S /\ Cardinality(R) = k
      <3>1. Cardinality(R) = IF x \in T THEN Cardinality(T) - 1 ELSE Cardinality(T)
        BY <1>1, FS_RemoveElement
      <3>2. (k + 1) - 1 = k /\ R \in SUBSET S
        OBVIOUS
      <3> QED
        BY <3>1, <3>2, <2>2
    <2>4. PICK s : Rising(s, k, R)
      BY <1>3, <2>3
    <2> DEFINE t == [i \in 1..k + 1 |-> IF i = k + 1 THEN x ELSE s[i]]
    <2>5. \A i \in 1..k + 1 : i # k + 1 => i \in 1..k
      OBVIOUS
    <2>6. \A i \in 1..k : s[i] \in R /\ t[i] = s[i] /\ i \in 1..k + 1
      BY <2>4 DEF Rising
    <2>7. t[k + 1] = x /\ k + 1 \in 1..k + 1
      OBVIOUS
    <2>8. t \in [1..k + 1 -> T]
      BY <2>2, <2>5, <2>6
    <2> HIDE DEF t
    <2>9. ASSUME NEW i \in 1..k + 1, NEW j \in 1..k + 1, i < j  PROVE Precedes(t[i], t[j])
      <3>1. i \in 1..k
        BY <2>9
      <3>2. CASE j = k + 1
        BY <2>2, <2>6, <2>7, <3>1, <3>2
      <3>3. CASE j # k + 1
        <4>1. j \in 1..k
          BY <2>5, <3>3
        <4>2. Precedes(s[i], s[j])
          BY <2>4, <2>9, <3>1, <4>1 DEF Rising
        <4> QED
          BY <4>1, <4>2, <3>1, <2>6
      <3> QED
        BY <3>2, <3>3
    <2>10. ASSUME NEW y \in T  PROVE \E i \in 1..k + 1 : t[i] = y
      <3>1. CASE y = x
        BY <2>7, <3>1
      <3>2. CASE y # x
        <4>1. PICK i \in 1..k : s[i] = y
          BY <2>4, <3>2 DEF Rising
        <4> QED
          BY <4>1, <2>6
      <3> QED
        BY <3>1, <3>2
    <2>11. Rising(t, k + 1, T)
      BY <2>8, <2>9, <2>10 DEF Rising
    <2> QED
      BY <2>11
  <1> HIDE DEF D
  <1>4. n \in D
    BY <1>1, <1>2, <1>3, UpTo
  <1> QED
    BY <1>4 DEF D

(* What Sorted gives.                                                       *)
LEMMA SortedIs ==
  ASSUME NEW m \in Nat, NEW S, S \subseteq Tuples(m), IsFiniteSet(S)
  PROVE  Rising(Sorted(S), Cardinality(S), S) /\ Cardinality(S) \in Nat
  <1> DEFINE n == Cardinality(S)
             t == Sorted(S)
  <1>1. n \in Nat
    BY FS_CardinalityType
  <1>2. PICK s : Rising(s, n, S)
    BY RisingExists
  <1>3. s \in [1..n -> S] /\ \A i, j \in DOMAIN s : i < j => Precedes(s[i], s[j])
    BY <1>2 DEF Rising
  <1>4. t \in [1..n -> S] /\ \A i, j \in DOMAIN t : i < j => Precedes(t[i], t[j])
    BY <1>3, Zenon DEF Sorted
  <1>5. DOMAIN t = 1..n
    BY <1>4
  <1> HIDE DEF n, t
  <1>6. \A i, j \in 1..n : i < j => Precedes(t[i], t[j])
    BY <1>4, <1>5
  <1>7. t \in Injection(1..n, S)
    <2>1. ASSUME NEW i \in 1..n, NEW j \in 1..n, t[i] = t[j]  PROVE i = j
      <3>1. t[i] \in Tuples(m) /\ ~Precedes(t[i], t[i])
        BY <1>4, PrecedesOrder
      <3>2. ~(i < j) /\ ~(j < i)
        BY <1>6, <2>1, <3>1
      <3> QED
        BY <1>1, <3>2
    <2> QED
      BY <2>1, <1>4 DEF Injection, IsInjective
  <1>8. IsFiniteSet(1..n) /\ Cardinality(1..n) = n
    BY <1>1, FS_Interval
  <1>9. t \in Surjection(1..n, S)
    BY <1>7, <1>8, FS_Injection DEF n
  <1>10. \A x \in S : \E i \in 1..n : t[i] = x
    BY <1>9 DEF Surjection
  <1> QED
    BY <1>1, <1>4, <1>6, <1>10 DEF Rising, n, t

(* Whatever has the items in order is what Sorted gives.                    *)
LEMMA SortedOnce ==
  ASSUME NEW m \in Nat, NEW S, S \subseteq Tuples(m), NEW n \in Nat, NEW s, Rising(s, n, S)
  PROVE  Sorted(S) = s /\ Cardinality(S) = n
  <1>1. IsFiniteSet(S) /\ Cardinality(S) = n
    BY RisingCount
  <1>2. Rising(Sorted(S), n, S)
    BY <1>1, SortedIs
  <1>3. n = n /\ Sorted(S) = s
    BY <1>2, RisingOnce
  <1> QED
    BY <1>1, <1>3

-----------------------------------------------------------------------------
(* Sequences. *)

IsSeq(s) == \E S : s \in Seq(S)

(* A sequence has a length and a domain.                                    *)
LEMMA SeqFacts ==
  ASSUME NEW s, IsSeq(s)
  PROVE  /\ Len(s) \in Nat /\ DOMAIN s = 1..Len(s) /\ (s = <<>> <=> Len(s) = 0)
         /\ s = [i \in 1..Len(s) |-> s[i]]
  BY DEF IsSeq

(* What two sequences make end to end, item by item.                        *)
LEMMA ConcatSeq ==
  ASSUME NEW s, IsSeq(s), NEW t, IsSeq(t)
  PROVE  /\ IsSeq(s \o t) /\ Len(s \o t) = Len(s) + Len(t)
         /\ \A i \in 1..Len(s) + Len(t) :
              (s \o t)[i] = IF i <= Len(s) THEN s[i] ELSE t[i - Len(s)]
  <1>1. PICK S, T : s \in Seq(S) /\ t \in Seq(T)
    BY DEF IsSeq
  <1> DEFINE U == S \union T
  <1>2. s \in Seq(U) /\ t \in Seq(U)
    BY <1>1
  <1> HIDE DEF U
  <1> QED
    BY <1>2, ConcatProperties DEF IsSeq

(* Nothing before it and nothing after it leave it as it is.                *)
LEMMA ConcatNothing ==
  ASSUME NEW s, IsSeq(s)
  PROVE  s \o <<>> = s /\ <<>> \o s = s /\ IsSeq(<<>>)
  <1>1. PICK S : s \in Seq(S)
    BY DEF IsSeq
  <1>2. <<>> \in Seq(S)
    OBVIOUS
  <1> QED
    BY <1>1, <1>2, ConcatEmptySeq DEF IsSeq

(* It does not matter which two of three are put together first.            *)
LEMMA ConcatThree ==
  ASSUME NEW s, IsSeq(s), NEW t, IsSeq(t), NEW u, IsSeq(u)
  PROVE  (s \o t) \o u = s \o (t \o u)
  <1>1. PICK S, T, U : s \in Seq(S) /\ t \in Seq(T) /\ u \in Seq(U)
    BY DEF IsSeq
  <1> DEFINE V == S \union T \union U
  <1>2. s \in Seq(V) /\ t \in Seq(V) /\ u \in Seq(V)
    BY <1>1
  <1> HIDE DEF V
  <1> QED
    BY <1>2, ConcatAssociative

(* To append is to put a sequence of one after.                             *)
LEMMA AppendLast ==
  ASSUME NEW s, IsSeq(s), NEW x
  PROVE  Append(s, x) = s \o <<x>> /\ IsSeq(<<x>>)
  <1>1. PICK S : s \in Seq(S)
    BY DEF IsSeq
  <1> DEFINE T == S \union {x}
  <1>2. s \in Seq(T) /\ x \in T /\ <<x>> \in Seq(T)
    BY <1>1
  <1> HIDE DEF T
  <1> QED
    BY <1>2, AppendIsConcat DEF IsSeq

-----------------------------------------------------------------------------
(* The first numbers of a tuple. *)

(* They are a tuple again.                                                  *)
LEMMA PrefixIs ==
  ASSUME NEW p \in Seq(Int), NEW n \in Nat, n <= Len(p)
  PROVE  /\ SubSeq(p, 1, n) \in Seq(Int) /\ Len(SubSeq(p, 1, n)) = n
         /\ \A i \in 1..n : SubSeq(p, 1, n)[i] = p[i]
         /\ SubSeq(p, 1, n) = [i \in 1..n |-> p[i]]
         /\ SubSeq(p, 1, n) \in Tuples(n)
  <1>1. \A i \in 1..n : p[i] \in Int
    OBVIOUS
  <1>2. SubSeq(p, 1, n) = [i \in 1..n |-> p[i]]
    OBVIOUS
  <1>3. SubSeq(p, 1, n) \in Tuples(n)
    BY <1>1, <1>2 DEF Tuples
  <1>4. SubSeq(p, 1, n) \in Seq(Int) /\ Len(SubSeq(p, 1, n)) = n
    OBVIOUS
  <1> QED
    BY <1>2, <1>3, <1>4

(* Those of as many of them as there are more.                              *)
LEMMA PrefixTwice ==
  ASSUME NEW p \in Seq(Int), NEW n \in Nat, NEW k \in Nat, k <= n, n <= Len(p)
  PROVE  SubSeq(SubSeq(p, 1, n), 1, k) = SubSeq(p, 1, k)
  <1> DEFINE q == SubSeq(p, 1, n)
  <1>1. q \in Seq(Int) /\ Len(q) = n /\ \A i \in 1..n : q[i] = p[i]
    BY PrefixIs
  <1> HIDE DEF q
  <1>2. SubSeq(q, 1, k) = [i \in 1..k |-> q[i]] /\ SubSeq(p, 1, k) = [i \in 1..k |-> p[i]]
    <2>1. k <= Len(p)
      OBVIOUS
    <2> QED
      BY <2>1, <1>1, PrefixIs
  <1>3. \A i \in 1..k : i \in 1..n
    OBVIOUS
  <1> QED
    BY <1>1, <1>2, <1>3 DEF q

(* They are in the order that the tuples are in, or the same.               *)
LEMMA PrefixPrecedes ==
  ASSUME NEW p \in Seq(Int), NEW q \in Seq(Int), Len(p) = Len(q), NEW n \in Nat, n <= Len(p),
         Precedes(p, q)
  PROVE  Precedes(SubSeq(p, 1, n), SubSeq(q, 1, n)) \/ SubSeq(p, 1, n) = SubSeq(q, 1, n)
  <1> DEFINE x == SubSeq(p, 1, n)
             y == SubSeq(q, 1, n)
             m == Len(p)
  <1>1. /\ x = [i \in 1..n |-> p[i]] /\ y = [i \in 1..n |-> q[i]] /\ DOMAIN x = 1..n
        /\ \A i \in 1..n : x[i] = p[i] /\ y[i] = q[i]
    BY PrefixIs
  <1>2. m \in Nat /\ p \in Tuples(m) /\ n <= m
    <2>1. p = [i \in 1..Len(p) |-> p[i]] /\ \A i \in 1..Len(p) : p[i] \in Int
      OBVIOUS
    <2> QED
      BY <2>1 DEF Tuples
  <1> HIDE DEF x, y, m
  <1>3. PICK k \in 1..m : p[k] < q[k] /\ \A i \in 1..k - 1 : p[i] = q[i]
    BY <1>2, PrecedesAt
  <1>4. CASE k <= n
    <2>1. k \in 1..n /\ \A i \in 1..k - 1 : i \in 1..n
      BY <1>4
    <2>2. x[k] < y[k] /\ \A i \in 1..k - 1 : x[i] = y[i]
      BY <2>1, <1>1, <1>3
    <2> QED
      BY <2>1, <2>2, <1>1 DEF Precedes, x, y
  <1>5. CASE ~(k <= n)
    <2>1. \A i \in 1..n : i \in 1..k - 1
      BY <1>2, <1>5
    <2>2. x = y
      BY <2>1, <1>1, <1>3
    <2> QED
      BY <2>2 DEF x, y
  <1> QED
    BY <1>4, <1>5

-----------------------------------------------------------------------------
(* The arrays of the index. *)

IsTree(t) ==
    /\ IsFiniteSet(DOMAIN t)
    /\ \A keys \in DOMAIN t : keys \in Seq(Int) /\ Len(keys) = 4 /\ IsSeq(t[keys])

Width(n) == IF n = 4 THEN 5 ELSE n

(* What a node of the last array stands for.                                *)
LEMMA LastLevel ==
  ASSUME IsTree(tree), NEW e
  PROVE  /\ e \in Level(4) <=> \E keys \in DOMAIN tree : \E i \in DOMAIN tree[keys] :
                                 e = Append(keys, i)
         /\ \A keys \in DOMAIN tree : \A i \in DOMAIN tree[keys] : e = Append(keys, i) =>
              /\ i \in Nat /\ e \in Seq(Int) /\ Len(e) = 5
              /\ Front(e) = keys /\ Last(e) = i /\ \A k \in 1..4 : e[k] = keys[k]
              /\ \A n \in 0..4 : SubSeq(e, 1, n) = SubSeq(keys, 1, n)
  <1>1. e \in Level(4) <=> \E keys \in DOMAIN tree : \E i \in DOMAIN tree[keys] : e = Append(keys, i)
    BY DEF Level
  <1>2. ASSUME NEW keys \in DOMAIN tree, NEW i \in DOMAIN tree[keys], e = Append(keys, i)
        PROVE  /\ i \in Nat /\ e \in Seq(Int) /\ Len(e) = 5
               /\ Front(e) = keys /\ Last(e) = i /\ \A k \in 1..4 : e[k] = keys[k]
               /\ \A n \in 0..4 : SubSeq(e, 1, n) = SubSeq(keys, 1, n)
    <2>1. keys \in Seq(Int) /\ Len(keys) = 4 /\ IsSeq(tree[keys])
      BY DEF IsTree
    <2>2. i \in Nat
      BY <2>1, SeqFacts
    <2>3. /\ e \in Seq(Int) /\ Len(e) = 5 /\ e[5] = i /\ \A k \in 1..4 : e[k] = keys[k]
      <3>1. i \in Int
        BY <2>2
      <3>2. /\ Append(keys, i) \in Seq(Int)
            /\ Len(Append(keys, i)) = Len(keys) + 1
            /\ \A k \in 1..Len(keys) : Append(keys, i)[k] = keys[k]
            /\ Append(keys, i)[Len(keys) + 1] = i
        <4> HIDE DEF IsTree
        <4>1. keys \in Seq(Int)
          BY <2>1
        <4> QED
          BY <3>1, <4>1
      <3>3. Append(keys, i)[5] = i /\ Len(Append(keys, i)) = 5
        BY <2>1, <3>2
      <3>4. \A k \in 1..4 : Append(keys, i)[k] = keys[k]
        BY <2>1, <3>2
      <3> QED
        BY <1>2, <3>2, <3>3, <3>4, Zenon
    <2>4. \A n \in 0..4 : SubSeq(e, 1, n) = SubSeq(keys, 1, n)
      <3> TAKE n \in 0..4
      <3>1. SubSeq(e, 1, n) = [k \in 1..n |-> e[k]] /\ SubSeq(keys, 1, n) = [k \in 1..n |-> keys[k]]
        BY <2>1, <2>3, PrefixIs
      <3> QED
        BY <2>3, <3>1
    <2>5. Front(e) = keys
      <3>1. Front(e) = SubSeq(e, 1, 4)
        BY <2>3 DEF Front
      <3>2. SubSeq(keys, 1, 4) = keys
        BY <2>1
      <3> QED
        BY <2>4, <3>1, <3>2
    <2>6. Last(e) = i
      BY <2>3 DEF Last
    <2> QED
      BY <2>2, <2>3, <2>4, <2>5, <2>6
  <1> QED
    BY <1>1, <1>2

(* A place in the last array comes from a key.                              *)
LEMMA FromLevel ==
  ASSUME NEW e \in Level(4)
  PROVE  \E keys \in DOMAIN tree : \E i \in DOMAIN tree[keys] : e = Append(keys, i)
  BY DEF Level

(* What comes from a key has its prefixes.                                  *)
LEMMA SamePrefixes ==
  ASSUME IsTree(tree), NEW e, NEW keys \in DOMAIN tree, NEW i \in DOMAIN tree[keys],
         e = Append(keys, i)
  PROVE  \A n \in 0..4 : SubSeq(e, 1, n) = SubSeq(keys, 1, n)
  BY LastLevel

(* What the nodes of an array stand for.                                    *)
LEMMA LevelType ==
  ASSUME IsTree(tree), NEW n \in 1..4, NEW p \in Level(n)
  PROVE  p \in Seq(Int) /\ Len(p) = Width(n) /\ p \in Tuples(Width(n))
  <1>1. p \in Seq(Int) /\ Len(p) = Width(n)
    <2>1. CASE n = 4
      <3>1. p \in Level(4)
        BY <2>1
      <3>2. PICK keys \in DOMAIN tree : \E i \in DOMAIN tree[keys] : p = Append(keys, i)
        BY <3>1, LastLevel, Zenon
      <3>3. p \in Seq(Int) /\ Len(p) = 5
        BY <3>2, LastLevel, Zenon
      <3>4. Width(n) = 5
        BY <2>1 DEF Width
      <3> QED
        BY <3>3, <3>4
    <2>2. CASE n # 4
      <3>1. PICK keys \in DOMAIN tree : p = SubSeq(keys, 1, n)
        BY <2>2 DEF Level
      <3>2. keys \in Seq(Int) /\ Len(keys) = 4
        BY DEF IsTree
      <3>3. n \in Nat /\ n <= Len(keys) /\ Width(n) = n
        BY <2>2, <3>2 DEF Width
      <3> QED
        BY <3>1, <3>2, <3>3, PrefixIs
    <2> QED
      BY <2>1, <2>2
  <1>2. p = [i \in 1..Width(n) |-> p[i]] /\ \A i \in 1..Width(n) : p[i] \in Int
    BY <1>1
  <1> QED
    BY <1>1, <1>2 DEF Tuples

(* The node above it is in the array before.                                *)
LEMMA LevelAbove ==
  ASSUME IsTree(tree), NEW n \in 1..3, NEW p \in Level(n + 1)
  PROVE  SubSeq(p, 1, n) \in Level(n)
  <1>1. PICK ks \in DOMAIN tree : SubSeq(p, 1, n) = SubSeq(ks, 1, n)
    <2>1. CASE n = 3
      <3>1. p \in Level(4)
        BY <2>1
      <3>2. PICK keys \in DOMAIN tree : \E i \in DOMAIN tree[keys] : p = Append(keys, i)
        BY <3>1, FromLevel
      <3>3. \A k \in 0..4 : SubSeq(p, 1, k) = SubSeq(keys, 1, k)
        BY <3>2, SamePrefixes
      <3>4. SubSeq(p, 1, 3) = SubSeq(keys, 1, 3)
        BY <3>3
      <3> QED
        BY <2>1, <3>4
    <2>2. CASE n # 3
      <3>1. n + 1 # 4
        BY <2>2
      <3>2. PICK keys \in DOMAIN tree : p = SubSeq(keys, 1, n + 1)
        BY <3>1 DEF Level
      <3>3. keys \in Seq(Int) /\ Len(keys) = 4
        BY DEF IsTree
      <3>4. n + 1 \in Nat /\ n \in Nat /\ n <= n + 1 /\ n + 1 <= Len(keys)
        BY <2>2, <3>3
      <3> QED
        BY <3>2, <3>3, <3>4, PrefixTwice
    <2> QED
      BY <2>1, <2>2
  <1>2. Level(n) = {SubSeq(keys, 1, n) : keys \in DOMAIN tree}
    <2>1. n # 4
      OBVIOUS
    <2> QED
      BY <2>1, Zenon DEF Level
  <1> QED
    BY <1>1, <1>2

(* The arrays but the last are finite.                                      *)
LEMMA LevelFinite ==
  ASSUME IsTree(tree), NEW n \in 1..3
  PROVE  IsFiniteSet(Level(n))
  <1> DEFINE f == [keys \in DOMAIN tree |-> SubSeq(keys, 1, n)]
  <1>1. Level(n) = {SubSeq(keys, 1, n) : keys \in DOMAIN tree}
    BY DEF Level
  <1>2. f \in Surjection(DOMAIN tree, Level(n))
    BY <1>1 DEF Surjection
  <1> QED
    BY <1>2, FS_Surjection DEF IsTree

-----------------------------------------------------------------------------
(* What the nodes span. *)

Sizes(n) == Cardinality(Level(n))
Paths(n) == Sorted(Level(n))

(* The arrays are in the order of the keys.                                 *)
LEMMA LevelSorted ==
  ASSUME IsTree(tree), IsFiniteSet(Level(4)), NEW n \in 1..4
  PROVE  /\ Sizes(n) \in Nat /\ Rising(Paths(n), Sizes(n), Level(n))
         /\ DOMAIN Paths(n) = 1..Sizes(n)
         /\ \A i \in 1..Sizes(n) : Paths(n)[i] \in Level(n)
         /\ Level(n) \subseteq Tuples(Width(n)) /\ Width(n) \in Nat
  <1>1. IsFiniteSet(Level(n))
    <2>1. CASE n = 4
      BY <2>1
    <2>2. CASE n # 4
      <3>1. n \in 1..3
        BY <2>2
      <3> QED
        BY <3>1, LevelFinite
    <2> QED
      BY <2>1, <2>2
  <1>2. Level(n) \subseteq Tuples(Width(n)) /\ Width(n) \in Nat
    <2>1. \A p \in Level(n) : p \in Tuples(Width(n))
      BY LevelType
    <2>2. Width(n) \in Nat
      BY DEF Width
    <2> QED
      BY <2>1, <2>2
  <1>3. Rising(Paths(n), Sizes(n), Level(n)) /\ Sizes(n) \in Nat
    BY <1>1, <1>2, SortedIs DEF Sizes, Paths
  <1>4. Paths(n) \in [1..Sizes(n) -> Level(n)]
    BY <1>3 DEF Rising
  <1> QED
    BY <1>2, <1>3, <1>4

(* The nodes of the next array that are before those of a path are the      *)
(* first ones, and there are as many of them as Before counts.              *)
LEMMA BeforeIs ==
  ASSUME IsTree(tree), IsFiniteSet(Level(4)), NEW n \in 1..3, NEW i \in 1..Sizes(n)
  PROVE  /\ Before(Paths(n)[i], n + 1) \in 0..Sizes(n + 1)
         /\ \A j \in 1..Sizes(n + 1) :
              j <= Before(Paths(n)[i], n + 1)
                <=> Precedes(SubSeq(Paths(n + 1)[j], 1, n), Paths(n)[i])
  <1> DEFINE q == Paths(n)[i]
             L == Level(n + 1)
             D == {p \in L : Precedes(SubSeq(p, 1, Len(q)), q)}
             s == Paths(n + 1)
             k == Sizes(n + 1)
             m == Width(n + 1)
  <1>1. q \in Level(n)
    BY LevelSorted
  <1>2. q \in Seq(Int) /\ Len(q) = n /\ q \in Tuples(n)
    <2>1. n \in 1..4 /\ Width(n) = n
      BY DEF Width
    <2> QED
      BY <1>1, <2>1, LevelType
  <1>3. /\ k \in Nat /\ Rising(s, k, L) /\ DOMAIN s = 1..k /\ \A j \in 1..k : s[j] \in L
        /\ L \subseteq Tuples(m) /\ m \in Nat /\ n < m
    <2>1. n + 1 \in 1..4 /\ n < m
      BY DEF Width
    <2> QED
      BY <2>1, LevelSorted
  <1>4. \A p \in L : p \in Seq(Int) /\ Len(p) = m
    <2>1. n + 1 \in 1..4
      OBVIOUS
    <2> QED
      BY <2>1, LevelType
  <1>5. \A p \in L : p \in D <=> Precedes(SubSeq(p, 1, n), q)
    BY <1>2
  <1>6. D \subseteq L /\ Before(q, n + 1) = Cardinality(D)
    BY DEF Before
  <1> HIDE DEF q, D, s, k, m, L
  <1>7. ASSUME NEW x \in 1..k, NEW y \in 1..k, x < y, s[y] \in D
        PROVE  s[x] \in D
    <2>1. Precedes(s[x], s[y])
      BY <1>3, <1>7 DEF Rising
    <2>2. s[x] \in Seq(Int) /\ s[y] \in Seq(Int) /\ Len(s[x]) = m /\ Len(s[y]) = m
      BY <1>3, <1>4
    <2> DEFINE u == SubSeq(s[x], 1, n)
               v == SubSeq(s[y], 1, n)
    <2>3. n \in Nat /\ n <= m
      BY <1>3
    <2>4. u \in Tuples(n) /\ v \in Tuples(n)
      BY <2>2, <2>3, PrefixIs
    <2>5. Precedes(u, v) \/ u = v
      BY <2>1, <2>2, <2>3, PrefixPrecedes
    <2>6. Precedes(v, q)
      BY <1>3, <1>5, <1>7
    <2> HIDE DEF u, v
    <2>7. Precedes(u, q)
      BY <1>2, <2>3, <2>4, <2>5, <2>6, PrecedesOrder
    <2> QED
      BY <1>3, <1>5, <2>7 DEF u
  <1>8. \A x, y \in 1..k : x < y /\ s[y] \in D => s[x] \in D
    BY <1>7
  <1>9. /\ Cardinality(D) \in 0..k
        /\ \A j \in 1..k : s[j] \in D <=> j <= Cardinality(D)
    BY <1>3, <1>6, <1>8, RisingCut
  <1>10. \A j \in 1..k : s[j] \in D <=> Precedes(SubSeq(s[j], 1, n), q)
    BY <1>3, <1>5
  <1>11. Before(q, n + 1) \in 0..k
    BY <1>6, <1>9
  <1>12. \A j \in 1..k : j <= Before(q, n + 1) <=> Precedes(SubSeq(s[j], 1, n), q)
    BY <1>6, <1>9, <1>10
  <1> QED
    BY <1>11, <1>12 DEF q, s, k

(* The nodes of one array, and which of the next one each of them spans:    *)
(* those whose path goes on from its own.                                   *)
LEMMA SpanIs ==
  ASSUME IsTree(tree), IsFiniteSet(Level(4)), NEW n \in 1..3
  PROVE  /\ Nodes(n) \in Seq(ToSet(Nodes(n))) /\ Len(Nodes(n)) = Sizes(n) + 1
         /\ \A i \in 1..Sizes(n) :
              /\ Nodes(n)[i].key = Paths(n)[i][n]
              /\ \A j \in 1..Sizes(n + 1) :
                   j \in Span(Nodes(n), i) <=> SubSeq(Paths(n + 1)[j], 1, n) = Paths(n)[i]
              /\ Span(Nodes(n), i) \subseteq 1..Sizes(n + 1)
  <1> DEFINE N == Sizes(n)
             k == Sizes(n + 1)
             P == Paths(n)
             s == Paths(n + 1)
             B(i) == Before(P[i], n + 1)
             front == [i \in DOMAIN P |-> [key |-> P[i][n], index |-> B(i)]]
             last == [key |-> 0, index |-> k]
             nodes == Nodes(n)
  <1>1. /\ N \in Nat /\ Rising(P, N, Level(n)) /\ DOMAIN P = 1..N
        /\ \A i \in 1..N : P[i] \in Level(n)
    BY LevelSorted
  <1>2. /\ k \in Nat /\ \A j \in 1..k : s[j] \in Level(n + 1)
    <2>1. n + 1 \in 1..4
      OBVIOUS
    <2> QED
      BY <2>1, LevelSorted
  <1>3. \A i \in 1..N : /\ B(i) \in 0..k
                        /\ \A j \in 1..k : j <= B(i) <=> Precedes(SubSeq(s[j], 1, n), P[i])
    BY BeforeIs
  <1>4. nodes = Append(front, last)
    BY DEF Nodes, Paths, Sizes
  <1>5. \A i \in 1..N : P[i] \in Tuples(n)
    <2>1. n \in 1..4 /\ Width(n) = n
      BY DEF Width
    <2> QED
      BY <1>1, <2>1, LevelType
  <1>6. \A j \in 1..k : SubSeq(s[j], 1, n) \in Level(n)
    BY <1>2, LevelAbove
  <1> HIDE DEF N, k, P, s, B, nodes
  <1>7. /\ Len(front) = N /\ \A i \in 1..N : front[i] = [key |-> P[i][n], index |-> B(i)]
        /\ front \in Seq({front[i] : i \in 1..N} \union {last})
    BY <1>1
  <1> HIDE DEF front, last
  <1>8. /\ Len(nodes) = N + 1 /\ nodes[N + 1] = last
        /\ \A i \in 1..N : nodes[i] = front[i]
        /\ IsSeq(nodes)
    <2> DEFINE S == {front[i] : i \in 1..N} \union {last}
    <2>1. front \in Seq(S) /\ last \in S
      BY <1>7
    <2> HIDE DEF S
    <2>2. /\ Append(front, last) \in Seq(S) /\ Len(Append(front, last)) = N + 1
          /\ \A i \in 1..N : Append(front, last)[i] = front[i]
          /\ Append(front, last)[N + 1] = last
      BY <1>1, <1>7, <2>1, AppendProperties
    <2> QED
      BY <1>4, <2>2 DEF IsSeq
  <1>9. \A i \in 1..N : nodes[i].key = P[i][n] /\ nodes[i].index = B(i)
    BY <1>7, <1>8
  <1>10. nodes[N + 1].index = k
    BY <1>8 DEF last
  <1>11. nodes \in Seq(ToSet(nodes))
    <2>1. nodes = [i \in 1..N + 1 |-> nodes[i]] /\ DOMAIN nodes = 1..N + 1
      BY <1>1, <1>8, SeqFacts
    <2>2. \A i \in 1..N + 1 : nodes[i] \in ToSet(nodes)
      BY <2>1 DEF ToSet
    <2> QED
      BY <1>1, <2>1, <2>2
  <1>12. ASSUME NEW i \in 1..N
         PROVE  /\ \A j \in 1..k : j \in Span(nodes, i) <=> SubSeq(s[j], 1, n) = P[i]
                /\ Span(nodes, i) \subseteq 1..k
    <2> DEFINE to == nodes[i + 1].index
    <2>1. Span(nodes, i) = B(i) + 1 .. to
      BY <1>9, <1>12 DEF Span
    <2>2. B(i) \in 0..k
      BY <1>3
    <2>3. CASE i = N
      <3>1. to = k
        BY <1>1, <1>10, <2>3
      <3> HIDE DEF to
      <3>2. ASSUME NEW j \in 1..k
            PROVE  ~Precedes(SubSeq(s[j], 1, n), P[i]) <=> SubSeq(s[j], 1, n) = P[i]
        <4>1. SubSeq(s[j], 1, n) \in Level(n)
          BY <1>6
        <4>2. PICK x \in 1..N : P[x] = SubSeq(s[j], 1, n)
          BY <1>1, <4>1 DEF Rising
        <4>3. x = i \/ x < i
          BY <1>1, <2>3
        <4>4. n \in Nat /\ P[i] \in Tuples(n) /\ P[x] \in Tuples(n)
          BY <1>5
        <4>5. ~Precedes(P[i], P[i])
          BY <4>4, PrecedesOrder
        <4>6. x < i => Precedes(P[x], P[i])
          BY <1>1 DEF Rising
        <4>7. P[x] = P[i] => ~Precedes(P[x], P[i])
          BY <4>5
        <4> QED
          BY <4>2, <4>3, <4>6, <4>7
      <3>3. ASSUME NEW j \in 1..k  PROVE j \in B(i) + 1 .. to <=> ~(j <= B(i))
        BY <1>2, <2>2, <3>1
      <3>4. B(i) + 1 .. to \subseteq 1..k
        BY <1>2, <2>2, <3>1
      <3> QED
        BY <1>3, <2>1, <3>2, <3>3, <3>4
    <2>4. CASE i # N
      <3>1. i + 1 \in 1..N
        BY <1>1, <2>4
      <3>2. to = B(i + 1) /\ B(i + 1) \in 0..k
        BY <1>3, <1>9, <3>1
      <3> HIDE DEF to
      <3>3. ASSUME NEW j \in 1..k
            PROVE  ~Precedes(SubSeq(s[j], 1, n), P[i]) /\ Precedes(SubSeq(s[j], 1, n), P[i + 1])
                   <=> SubSeq(s[j], 1, n) = P[i]
        <4>1. SubSeq(s[j], 1, n) \in Level(n)
          BY <1>6
        <4>2. PICK x \in 1..N : P[x] = SubSeq(s[j], 1, n)
          BY <1>1, <4>1 DEF Rising
        <4>3. \A y \in 1..N : Precedes(P[x], P[y]) <=> x < y
          <5>1. n \in Nat /\ Level(n) \subseteq Tuples(n)
            <6>1. n \in 1..4 /\ Width(n) = n
              BY DEF Width
            <6> QED
              BY <6>1, LevelType
          <5> QED
            BY <1>1, <5>1, RisingOrder
        <4>4. ~(x < i) /\ x < i + 1 <=> x = i
          OBVIOUS
        <4>5. P[x] = P[i] => x = i
          <5>1. Precedes(P[x], P[i]) <=> x < i
            BY <4>3
          <5>2. \A y \in 1..N : Precedes(P[i], P[y]) <=> i < y
            <6>1. n \in Nat /\ Level(n) \subseteq Tuples(n)
              <7>1. n \in 1..4 /\ Width(n) = n
                BY DEF Width
              <7> QED
                BY <7>1, LevelType
            <6> QED
              BY <1>1, <6>1, RisingOrder
          <5>3. P[x] = P[i] => ~(x < i) /\ ~(i < x)
            BY <4>3, <5>2
          <5> QED
            BY <1>1, <5>3
        <4> QED
          BY <3>1, <4>2, <4>3, <4>4, <4>5
      <3>4. ASSUME NEW j \in 1..k  PROVE j \in B(i) + 1 .. to <=> ~(j <= B(i)) /\ j <= B(i + 1)
        BY <1>2, <2>2, <3>2
      <3>5. B(i) + 1 .. to \subseteq 1..k
        BY <1>2, <2>2, <3>2
      <3> QED
        BY <1>3, <2>1, <3>1, <3>3, <3>4, <3>5
    <2> QED
      BY <2>3, <2>4
  <1> QED
    BY <1>8, <1>9, <1>11, <1>12 DEF N, k, P, s, nodes

-----------------------------------------------------------------------------
(* The keys of a leaf. *)

(* What is left of a number by a division, and that it is the only one.     *)
LEMMA DivIs ==
  ASSUME NEW n \in Nat, NEW d \in Nat \ {0}
  PROVE  /\ n \div d \in Nat /\ (n \div d) * d <= n /\ n < (n \div d) * d + d
         /\ \A q \in Int : q * d <= n /\ n < q * d + d => n \div d = q
  <1>1. n \div d \in Nat /\ (n \div d) * d <= n /\ n < (n \div d) * d + d
    OBVIOUS
  <1>2. ASSUME NEW q \in Int, q * d <= n, n < q * d + d
        PROVE  n \div d = q
    BY <1>2
  <1> QED
    BY <1>1, <1>2

(* Products.                                                                *)
LEMMA Times ==
  ASSUME NEW a \in Int, NEW b \in Int, NEW c \in Int
  PROVE  /\ a * b \in Int /\ (a * b) * c = a * (b * c) /\ (-a) * b = -(a * b)
  OBVIOUS

(* To divide twice is to divide by the product.                             *)
LEMMA DivTwice ==
  ASSUME NEW n \in Nat, NEW a \in Nat \ {0}, NEW b \in Nat \ {0}
  PROVE  /\ n \div (a * b) \in Nat /\ n - (n \div (a * b)) * (a * b) \in Nat
         /\ (n \div (a * b)) * a + (n - (n \div (a * b)) * (a * b)) \div b = n \div b
  <1> DEFINE c == a * b
             d == n \div c
             r == n - d * c
             e == r \div b
  <1>1. c \in Nat \ {0}
    OBVIOUS
  <1> HIDE DEF c
  <1>2. d \in Nat /\ d * c <= n
    BY <1>1, DivIs
  <1> HIDE DEF d
  <1>3. r \in Nat
    <2>1. d * c \in Nat
      BY <1>1, <1>2
    <2> QED
      BY <1>2, <2>1
  <1> HIDE DEF r
  <1>4. e \in Nat /\ e * b <= r /\ r < e * b + b
    BY <1>3, DivIs
  <1> HIDE DEF e
  <1>5. n = r + (d * a) * b
    <2>1. d * c = (d * a) * b
      BY <1>2 DEF c
    <2>2. n = r + d * c
      <3>1. d * c \in Nat
        BY <1>1, <1>2
      <3> QED
        BY <3>1 DEF r
    <2> QED
      BY <2>1, <2>2
  <1>6. (d * a + e) * b = (d * a) * b + e * b
    BY <1>2, <1>4
  <1>7. d * a + e \in Nat /\ (d * a) * b \in Nat /\ e * b \in Nat
    BY <1>2, <1>4
  <1>8. (d * a + e) * b <= n /\ n < (d * a + e) * b + b
    BY <1>3, <1>4, <1>5, <1>6, <1>7
  <1>9. n \div b = d * a + e
    <2>1. \A q \in Int : q * b <= n /\ n < q * b + b => n \div b = q
      BY DivIs
    <2>2. d * a + e \in Int
      BY <1>7
    <2> QED
      BY <1>8, <2>1, <2>2, Zenon
  <1> QED
    BY <1>2, <1>3, <1>9 DEF c, d, r, e

(* The degrees of a coordinate and the millionths that are left of it make  *)
(* its millionths.                                                          *)
LEMMA KeysTogether ==
  ASSUME NEW n \in Int
  PROVE  /\ Degree(n) \in Int /\ Part(n) \in Int
         /\ Degree(n) * Parts + Part(n) = Truncated(n, Fine)
  <1> DEFINE c == Parts * Fine
  <1>1. Parts \in Nat \ {0} /\ Fine \in Nat \ {0} /\ c \in Nat \ {0}
    <2>1. Parts \in Nat \ {0} /\ Fine \in Nat \ {0}
      BY TreeAssumption
    <2> QED
      BY <2>1
  <1>2. CASE n >= 0
    <2> DEFINE d == n \div c
               r == n - d * c
    <2>1. n \in Nat
      BY <1>2
    <2>2. d \in Nat /\ r \in Nat /\ d * Parts + r \div Fine = n \div Fine
      BY <1>1, <2>1, DivTwice
    <2>3. Degree(n) = d
      BY <1>2 DEF Degree, Truncated
    <2>4. n - Degree(n) * Parts * Fine = r
      <3>1. d * Parts * Fine = d * c
        <4>1. d \in Int /\ Parts \in Int /\ Fine \in Int
          BY <1>1, <2>2
        <4>2. (d * Parts) * Fine = d * c
          BY <4>1, Times
        <4> QED
          BY <4>2
      <3> QED
        BY <2>3, <3>1
    <2>5. r >= 0 /\ r \div Fine \in Int
      BY <1>1, <2>2, DivIs
    <2>6. Part(n) = r \div Fine
      BY <2>4, <2>5 DEF Part, Truncated
    <2>7. Truncated(n, Fine) = n \div Fine
      BY <1>2 DEF Truncated
    <2> QED
      BY <2>2, <2>3, <2>5, <2>6, <2>7
  <1>3. CASE ~(n >= 0)
    <2> DEFINE m == -n
               d == m \div c
               r == m - d * c
               e == r \div Fine
    <2>1. m \in Nat
      BY <1>3
    <2>2. d \in Nat /\ r \in Nat /\ d * Parts + e = m \div Fine
      BY <1>1, <2>1, DivTwice
    <2>3. Degree(n) = -d
      BY <1>3 DEF Degree, Truncated
    <2>4. n - Degree(n) * Parts * Fine = -r
      <3>1. (-d) * Parts * Fine = -(d * c)
        <4>1. d \in Int /\ -d \in Int /\ Parts \in Int /\ Fine \in Int /\ c \in Int
          BY <1>1, <2>2
        <4>2. ((-d) * Parts) * Fine = (-d) * c
          BY <4>1, Times
        <4>3. (-d) * c = -(d * c)
          BY <4>1, Times
        <4> QED
          BY <4>2, <4>3
      <3>2. d * c \in Nat
        BY <1>1, <2>2
      <3> QED
        BY <2>3, <3>1, <3>2
    <2>5. e \in Nat
      BY <1>1, <2>2, DivIs
    <2>6. Part(n) = -e
      <3>1. Part(n) = Truncated(-r, Fine)
        BY <2>4 DEF Part
      <3>2. CASE r = 0
        <4>1. Truncated(-r, Fine) = 0 \div Fine
          BY <3>2 DEF Truncated
        <4>2. 0 \div Fine = 0
          BY <1>1
        <4>3. e = 0
          BY <3>2, <4>2
        <4> QED
          BY <3>1, <4>1, <4>2, <4>3
      <3>3. CASE r # 0
        <4>1. ~(-r >= 0) /\ -(-r) = r
          BY <2>2, <3>3
        <4>2. Truncated(-r, Fine) = -((-(-r)) \div Fine)
          BY <4>1, Zenon DEF Truncated
        <4> QED
          BY <3>1, <4>1, <4>2
      <3> QED
        BY <3>2, <3>3
    <2>7. Truncated(n, Fine) = -(m \div Fine)
      BY <1>3 DEF Truncated
    <2> HIDE DEF d, e, m, r
    <2>8. (-d) * Parts = -(d * Parts) /\ d * Parts \in Nat
      BY <1>1, <2>2
    <2>9. Degree(n) * Parts + Part(n) = -(d * Parts + e)
      BY <2>3, <2>5, <2>6, <2>8
    <2> QED
      BY <2>2, <2>3, <2>5, <2>6, <2>7, <2>9
  <1> QED
    BY <1>2, <1>3

-----------------------------------------------------------------------------
(* What is filed. *)

IsLeaves(ls) ==
    /\ IsSeq(ls)
    /\ \A i \in 1..Len(ls) : ls[i].longitude \in Int /\ ls[i].latitude \in Int

(* place[i] is where the i-th leaf is among those with the same keys.       *)
Filed(t, ls, n, place) ==
    /\ place \in [1..n -> Nat]
    /\ DOMAIN t = {Keys(ls[i]) : i \in 1..n}
    /\ \A keys \in DOMAIN t : IsSeq(t[keys])
    /\ \A i \in 1..n : /\ place[i] \in 1..Len(t[Keys(ls[i])])
                       /\ t[Keys(ls[i])][place[i]] = ls[i]
    /\ \A i, j \in 1..n : i < j /\ Keys(ls[i]) = Keys(ls[j]) => place[i] < place[j]
    /\ \A keys \in DOMAIN t : \A k \in 1..Len(t[keys]) :
          \E i \in 1..n : Keys(ls[i]) = keys /\ place[i] = k

(* The keys of a leaf are four numbers.                                     *)
LEMMA KeysType ==
  ASSUME NEW leaf, leaf.longitude \in Int, leaf.latitude \in Int
  PROVE  /\ Keys(leaf) \in Seq(Int) /\ Len(Keys(leaf)) = 4
         /\ Keys(leaf)[1] = Degree(leaf.longitude) /\ Keys(leaf)[2] = Part(leaf.longitude)
         /\ Keys(leaf)[3] = Degree(leaf.latitude) /\ Keys(leaf)[4] = Part(leaf.latitude)
  <1>1. /\ Degree(leaf.longitude) \in Int /\ Part(leaf.longitude) \in Int
    BY KeysTogether
  <1>2. /\ Degree(leaf.latitude) \in Int /\ Part(leaf.latitude) \in Int
    BY KeysTogether
  <1> QED
    BY <1>1, <1>2 DEF Keys

(* One leaf more.                                                           *)
LEMMA FiledMore ==
  ASSUME NEW ls, IsLeaves(ls), NEW n \in Nat, n < Len(ls), NEW t, NEW place,
         Filed(t, ls, n, place), NEW u,
         u = [keys \in DOMAIN t \union {Keys(ls[n + 1])} |->
                IF keys = Keys(ls[n + 1])
                THEN Append(IF Keys(ls[n + 1]) \in DOMAIN t THEN t[Keys(ls[n + 1])] ELSE <<>>,
                            ls[n + 1])
                ELSE t[keys]]
  PROVE  \E more : Filed(u, ls, n + 1, more)
  <1> DEFINE new == Keys(ls[n + 1])
             there == IF new \in DOMAIN t THEN t[new] ELSE <<>>
             k == Len(there) + 1
             more == [i \in 1..n + 1 |-> IF i = n + 1 THEN k ELSE place[i]]
             K(i) == Keys(ls[i])
  <1>1. IsSeq(there)
    <2>1. IsSeq(<<>>)
      BY DEF IsSeq
    <2> QED
      BY <2>1 DEF Filed
  <1>2. /\ place \in [1..n -> Nat]
        /\ DOMAIN t = {K(i) : i \in 1..n}
        /\ \A keys \in DOMAIN t : IsSeq(t[keys])
        /\ \A i \in 1..n : place[i] \in 1..Len(t[K(i)]) /\ t[K(i)][place[i]] = ls[i]
        /\ \A i, j \in 1..n : i < j /\ K(i) = K(j) => place[i] < place[j]
        /\ \A keys \in DOMAIN t : \A x \in 1..Len(t[keys]) :
             \E i \in 1..n : K(i) = keys /\ place[i] = x
    BY DEF Filed
  <1>3. /\ DOMAIN u = DOMAIN t \union {new} /\ u[new] = Append(there, ls[n + 1])
        /\ \A keys \in DOMAIN t : keys # new => u[keys] = t[keys]
    OBVIOUS
  <1>4. new = K(n + 1)
    OBVIOUS
  <1>5. /\ new \in DOMAIN t => there = t[new]
        /\ new \notin DOMAIN t => Len(there) = 0
    OBVIOUS
  <1>6. /\ more \in [1..n + 1 -> Nat] /\ more[n + 1] = k /\ k \in Nat
        /\ \A i \in 1..n : more[i] = place[i]
    <2>1. Len(there) \in Nat
      BY <1>1, SeqFacts
    <2> HIDE DEF there
    <2>2. k \in Nat
      BY <2>1
    <2> HIDE DEF k
    <2> QED
      BY <1>2, <2>2
  <1>7. /\ IsSeq(u[new]) /\ Len(u[new]) = k /\ u[new][k] = ls[n + 1]
        /\ \A x \in 1..Len(there) : u[new][x] = there[x]
        /\ Len(there) \in Nat
    <2> HIDE DEF there, new
    <2>1. Append(there, ls[n + 1]) = there \o <<ls[n + 1]>> /\ IsSeq(<<ls[n + 1]>>)
      BY <1>1, AppendLast
    <2>2. Len(<<ls[n + 1]>>) = 1 /\ <<ls[n + 1]>>[1] = ls[n + 1]
      OBVIOUS
    <2> DEFINE v == <<ls[n + 1]>>
    <2> HIDE DEF v
    <2>3. IsSeq(v) /\ Len(v) = 1 /\ v[1] = ls[n + 1] /\ u[new] = there \o v
      BY <1>3, <2>1, <2>2 DEF v
    <2>4. /\ IsSeq(there \o v) /\ Len(there \o v) = Len(there) + Len(v)
          /\ \A i \in 1..Len(there) + Len(v) :
               (there \o v)[i] = IF i <= Len(there) THEN there[i] ELSE v[i - Len(there)]
      BY <1>1, <2>3, ConcatSeq
    <2>5. Len(there) \in Nat
      BY <1>1, SeqFacts
    <2>6. (there \o v)[k] = v[1]
      BY <2>3, <2>4, <2>5
    <2>7. \A x \in 1..Len(there) : (there \o v)[x] = there[x]
      BY <2>3, <2>4, <2>5
    <2>8. Len(there \o v) = k
      BY <2>3, <2>4
    <2> HIDE DEF k
    <2> QED
      BY <2>3, <2>4, <2>5, <2>6, <2>7, <2>8, Zenon
  <1> HIDE DEF new, there, k, more
  <1>8. DOMAIN u = {K(i) : i \in 1..n + 1}
    <2>1. \A i : i \in 1..n + 1 <=> i \in 1..n \/ i = n + 1
      OBVIOUS
    <2> HIDE DEF K
    <2>2. {K(i) : i \in 1..n + 1} = {K(i) : i \in 1..n} \union {K(n + 1)}
      BY <2>1
    <2> QED
      BY <1>2, <1>3, <1>4, <2>2
  <1> HIDE DEF K
  <1>9. \A keys \in DOMAIN u : IsSeq(u[keys])
    BY <1>2, <1>3, <1>7
  <1>10. ASSUME NEW i \in 1..n + 1
         PROVE  more[i] \in 1..Len(u[K(i)]) /\ u[K(i)][more[i]] = ls[i]
    <2>1. CASE i = n + 1
      <3>1. k \in 1..k
        BY <1>6, <1>7 DEF k
      <3> QED
        BY <1>4, <1>6, <1>7, <2>1, <3>1
    <2>2. CASE i # n + 1
      <3>1. i \in 1..n
        BY <2>2
      <3>2. more[i] = place[i] /\ place[i] \in 1..Len(t[K(i)]) /\ t[K(i)][place[i]] = ls[i]
            /\ K(i) \in DOMAIN t
        BY <1>2, <1>6, <3>1
      <3>3. CASE K(i) = new
        <4>1. there = t[K(i)]
          BY <1>5, <3>2, <3>3
        <4>2. place[i] \in 1..Len(there)
          BY <3>2, <4>1
        <4>3. u[K(i)][place[i]] = ls[i]
          BY <1>7, <3>2, <3>3, <4>1, <4>2
        <4>4. place[i] \in 1..k
          BY <1>7, <4>2 DEF k
        <4> QED
          BY <1>7, <3>2, <3>3, <4>3, <4>4
      <3>4. CASE K(i) # new
        BY <1>3, <3>2, <3>4
      <3> QED
        BY <3>3, <3>4
    <2> QED
      BY <2>1, <2>2
  <1>11. ASSUME NEW i \in 1..n + 1, NEW j \in 1..n + 1, i < j, K(i) = K(j)
         PROVE  more[i] < more[j]
    <2>1. i \in 1..n
      BY <1>11
    <2>2. more[i] = place[i]
      BY <1>6, <2>1
    <2>3. CASE j = n + 1
      <3>1. K(i) = new /\ K(i) \in DOMAIN t
        BY <1>2, <1>4, <1>11, <2>1, <2>3
      <3>2. place[i] \in 1..Len(there)
        BY <1>2, <1>5, <2>1, <3>1
      <3>3. more[j] = k /\ k = Len(there) + 1
        BY <1>6, <2>3 DEF k
      <3> QED
        BY <1>7, <2>2, <3>2, <3>3
    <2>4. CASE j # n + 1
      <3>1. j \in 1..n
        BY <2>4
      <3> QED
        BY <1>2, <1>6, <1>11, <2>1, <3>1
    <2> QED
      BY <2>3, <2>4
  <1>12. ASSUME NEW keys \in DOMAIN u, NEW x \in 1..Len(u[keys])
         PROVE  \E i \in 1..n + 1 : K(i) = keys /\ more[i] = x
    <2>1. \A i \in 1..n : i \in 1..n + 1 /\ more[i] = place[i]
      BY <1>6
    <2>2. CASE keys = new
      <3>1. CASE x = k
        BY <1>4, <1>6, <2>2, <3>1
      <3>2. CASE x # k
        <4>1. x \in 1..Len(there)
          BY <1>7, <2>2, <3>2 DEF k
        <4>2. new \in DOMAIN t
          BY <1>5, <4>1
        <4>3. there = t[new]
          BY <1>5, <4>2
        <4>4. PICK i \in 1..n : K(i) = new /\ place[i] = x
          BY <1>2, <4>1, <4>2, <4>3
        <4> QED
          BY <2>1, <2>2, <4>4
      <3> QED
        BY <3>1, <3>2
    <2>3. CASE keys # new
      <3>1. keys \in DOMAIN t /\ u[keys] = t[keys]
        BY <1>3, <2>3
      <3>2. PICK i \in 1..n : K(i) = keys /\ place[i] = x
        BY <1>2, <3>1
      <3> QED
        BY <2>1, <3>2
    <2> QED
      BY <2>2, <2>3
  <1>13. Filed(u, ls, n + 1, more)
    BY <1>6, <1>8, <1>9, <1>10, <1>11, <1>12, Zenon DEF Filed, K
  <1> QED
    BY <1>13

(* What is appended to, and what is, can be told from the whole.            *)
LEMMA AppendApart ==
  ASSUME NEW p \in Seq(Int), NEW q \in Seq(Int), NEW a \in Int, NEW b \in Int,
         Len(p) = Len(q), Append(p, a) = Append(q, b)
  PROVE  p = q /\ a = b
  <1>1. /\ Append(p, a)[Len(p) + 1] = a /\ \A x \in 1..Len(p) : Append(p, a)[x] = p[x]
    BY AppendAt
  <1>2. /\ Append(q, b)[Len(q) + 1] = b /\ \A x \in 1..Len(q) : Append(q, b)[x] = q[x]
    BY AppendAt
  <1>3. p = [x \in 1..Len(p) |-> p[x]] /\ q = [x \in 1..Len(q) |-> q[x]]
    OBVIOUS
  <1>4. \A x \in 1..Len(p) : p[x] = q[x]
    BY <1>1, <1>2
  <1> QED
    BY <1>1, <1>2, <1>3, <1>4

-----------------------------------------------------------------------------
(* In what order the leaves are packed. *)

(* What is filed is a tree, whose last array has a node for each leaf.      *)
LEMMA FiledTree ==
  ASSUME NEW ls, IsLeaves(ls), NEW place, Filed(tree, ls, Len(ls), place)
  PROVE  /\ IsTree(tree)
         /\ Level(4) = {Append(Keys(ls[i]), place[i]) : i \in 1..Len(ls)}
         /\ IsFiniteSet(Level(4))
         /\ \A i \in 1..Len(ls) : /\ Keys(ls[i]) \in DOMAIN tree
                                  /\ place[i] \in DOMAIN tree[Keys(ls[i])]
                                  /\ tree[Keys(ls[i])][place[i]] = ls[i]
  <1> DEFINE n == Len(ls)
             K(i) == Keys(ls[i])
             f == [i \in 1..n |-> K(i)]
             g == [i \in 1..n |-> Append(K(i), place[i])]
  <1>1. n \in Nat /\ IsFiniteSet(1..n)
    <2>1. n \in Nat
      BY SeqFacts DEF IsLeaves
    <2> QED
      BY <2>1, FS_Interval
  <1>2. /\ DOMAIN tree = {K(i) : i \in 1..n}
        /\ \A keys \in DOMAIN tree : IsSeq(tree[keys])
        /\ \A i \in 1..n : place[i] \in 1..Len(tree[K(i)]) /\ tree[K(i)][place[i]] = ls[i]
        /\ \A keys \in DOMAIN tree : \A x \in 1..Len(tree[keys]) :
             \E i \in 1..n : K(i) = keys /\ place[i] = x
    BY DEF Filed
  <1>3. \A i \in 1..n : K(i) \in Seq(Int) /\ Len(K(i)) = 4
    BY KeysType DEF IsLeaves
  <1> HIDE DEF n, K
  <1>4. IsFiniteSet(DOMAIN tree)
    <2>1. f \in Surjection(1..n, DOMAIN tree)
      BY <1>2 DEF Surjection
    <2> HIDE DEF f
    <2> QED
      BY <1>1, <2>1, FS_Surjection
  <1>5. IsTree(tree)
    <2>1. ASSUME NEW keys \in DOMAIN tree
          PROVE  keys \in Seq(Int) /\ Len(keys) = 4 /\ IsSeq(tree[keys])
      <3>1. PICK i \in 1..n : keys = K(i)
        BY <1>2
      <3> QED
        BY <1>2, <1>3, <3>1
    <2> QED
      BY <1>4, <2>1, Zenon DEF IsTree
  <1>6. \A i \in 1..n : K(i) \in DOMAIN tree /\ place[i] \in DOMAIN tree[K(i)]
    <2> TAKE i \in 1..n
    <2>1. K(i) \in DOMAIN tree
      BY <1>2
    <2>2. DOMAIN tree[K(i)] = 1..Len(tree[K(i)])
      BY <1>2, <2>1, SeqFacts
    <2> QED
      BY <1>2, <2>1, <2>2
  <1>7. Level(4) = {Append(K(i), place[i]) : i \in 1..n}
    <2>1. ASSUME NEW e \in Level(4)
          PROVE  \E i \in 1..n : e = Append(K(i), place[i])
      <3>1. PICK keys \in DOMAIN tree : \E x \in DOMAIN tree[keys] : e = Append(keys, x)
        BY <1>5, LastLevel, Zenon
      <3>2. PICK x \in DOMAIN tree[keys] : e = Append(keys, x)
        BY <3>1
      <3>3. x \in 1..Len(tree[keys])
        BY <1>2, SeqFacts
      <3>4. PICK i \in 1..n : K(i) = keys /\ place[i] = x
        BY <1>2, <3>3
      <3> QED
        BY <3>2, <3>4
    <2>2. \A i \in 1..n : Append(K(i), place[i]) \in Level(4)
      BY <1>5, <1>6, LastLevel, Zenon
    <2> QED
      BY <2>1, <2>2
  <1>8. IsFiniteSet(Level(4))
    <2>1. g \in Surjection(1..n, Level(4))
      BY <1>7 DEF Surjection
    <2> HIDE DEF g
    <2> QED
      BY <1>1, <2>1, FS_Surjection
  <1> QED
    BY <1>2, <1>5, <1>6, <1>7, <1>8 DEF n, K

(* The leaf that the j-th node of the last array is.                        *)
IsAt(at, ls, place) ==
    /\ at \in [1..Sizes(4) -> 1..Len(ls)]
    /\ \A j \in 1..Sizes(4) : Paths(4)[j] = Append(Keys(ls[at[j]]), place[at[j]])

(* The leaves are packed in the order of their keys and, where those are    *)
InOrder(ls, at) ==
    Sorted({Append(Keys(ls[i]), i) : i \in 1..Len(ls)})
      = [j \in 1..Sizes(4) |-> Append(Keys(ls[at[j]]), at[j])]

(* equal, of coming.                                                        *)
LEMMA LeafOrder ==
  ASSUME NEW ls, IsLeaves(ls), NEW place, Filed(tree, ls, Len(ls), place)
  PROVE  \E at : IsAt(at, ls, place) /\ InOrder(ls, at)
  <1> DEFINE n == Len(ls)
             K(i) == Keys(ls[i])
             s == Paths(4)
             k == Sizes(4)
             at == [j \in 1..k |-> CHOOSE i \in 1..n : s[j] = Append(K(i), place[i])]
             C == {Append(K(i), i) : i \in 1..n}
             t == [j \in 1..k |-> Append(K(at[j]), at[j])]
  <1>1. n \in Nat
    BY SeqFacts DEF IsLeaves
  <1>2. /\ IsTree(tree) /\ IsFiniteSet(Level(4))
        /\ Level(4) = {Append(K(i), place[i]) : i \in 1..n}
    BY FiledTree
  <1>3. \A i \in 1..n : K(i) \in Seq(Int) /\ Len(K(i)) = 4
    BY KeysType DEF IsLeaves
  <1>4. /\ place \in [1..n -> Nat]
        /\ \A i, j \in 1..n : i < j /\ K(i) = K(j) => place[i] < place[j]
    BY DEF Filed
  <1>5. k \in Nat /\ Rising(s, k, Level(4)) /\ \A j \in 1..k : s[j] \in Level(4)
    BY <1>2, LevelSorted
  <1> HIDE DEF n, K, s, k
  <1>6. /\ at \in [1..k -> 1..n]
        /\ \A j \in 1..k : s[j] = Append(K(at[j]), place[at[j]])
    <2>1. ASSUME NEW j \in 1..k
          PROVE  at[j] \in 1..n /\ s[j] = Append(K(at[j]), place[at[j]])
      <3>1. \E i \in 1..n : s[j] = Append(K(i), place[i])
        BY <1>2, <1>5
      <3>2. at[j] = CHOOSE i \in 1..n : s[j] = Append(K(i), place[i])
        OBVIOUS
      <3> QED
        BY <3>1, <3>2, Zenon
    <2> QED
      BY <2>1
  <1> HIDE DEF at
  <1>7. ASSUME NEW i \in 1..n, NEW j \in 1..n
        PROVE  /\ Append(K(i), i) \in Tuples(5)
               /\ Precedes(Append(K(i), place[i]), Append(K(j), place[j]))
                    <=> Precedes(Append(K(i), i), Append(K(j), j))
               /\ Append(K(i), place[i]) = Append(K(j), place[j]) => i = j
    <2>1. /\ K(i) \in Seq(Int) /\ K(j) \in Seq(Int) /\ Len(K(i)) = 4 /\ Len(K(j)) = 4
          /\ place[i] \in Int /\ place[j] \in Int /\ i \in Int /\ j \in Int
      BY <1>1, <1>3, <1>4
    <2>2. /\ Append(K(i), i) \in Tuples(4 + 1)
          /\ Precedes(Append(K(i), i), Append(K(j), j))
               <=> (Precedes(K(i), K(j)) \/ (K(i) = K(j) /\ i < j))
      BY <2>1, AppendPrecedes
    <2>3. Precedes(Append(K(i), place[i]), Append(K(j), place[j]))
            <=> (Precedes(K(i), K(j)) \/ (K(i) = K(j) /\ place[i] < place[j]))
      BY <2>1, AppendPrecedes
    <2>4. K(i) = K(j) => (place[i] < place[j] <=> i < j) /\ (place[i] = place[j] => i = j)
      <3>1. i < j \/ i = j \/ j < i
        BY <2>1
      <3>2. K(i) = K(j) /\ i < j => place[i] < place[j]
        BY <1>4
      <3>3. K(i) = K(j) /\ j < i => place[j] < place[i]
        BY <1>4
      <3> QED
        BY <2>1, <3>1, <3>2, <3>3
    <2>5. Append(K(i), place[i]) = Append(K(j), place[j]) => K(i) = K(j) /\ place[i] = place[j]
      BY <2>1, AppendApart
    <2> QED
      BY <2>2, <2>3, <2>4, <2>5
  <1>8. C \subseteq Tuples(5)
    BY <1>7
  <1>9. Rising(t, k, C)
    <2>1. t \in [1..k -> C]
      BY <1>6
    <2>2. \A j \in 1..k : t[j] = Append(K(at[j]), at[j]) /\ at[j] \in 1..n
      BY <1>6
    <2> HIDE DEF t
    <2>3. ASSUME NEW x \in 1..k, NEW y \in 1..k, x < y
          PROVE  Precedes(t[x], t[y])
      <3>1. Precedes(s[x], s[y])
        BY <1>5, <2>3 DEF Rising
      <3>2. Precedes(Append(K(at[x]), place[at[x]]), Append(K(at[y]), place[at[y]]))
        BY <1>6, <3>1
      <3>3. at[x] \in 1..n /\ at[y] \in 1..n
        BY <2>2
      <3>4. Precedes(Append(K(at[x]), at[x]), Append(K(at[y]), at[y]))
        BY <1>7, <3>2, <3>3, Zenon
      <3> QED
        BY <2>2, <3>4, Zenon
    <2>4. ASSUME NEW e \in C
          PROVE  \E j \in 1..k : t[j] = e
      <3>1. PICK i \in 1..n : e = Append(K(i), i)
        OBVIOUS
      <3>2. Append(K(i), place[i]) \in Level(4)
        BY <1>2
      <3>3. PICK j \in 1..k : s[j] = Append(K(i), place[i])
        BY <1>5, <3>2 DEF Rising
      <3>4. at[j] = i
        BY <1>6, <1>7, <3>3
      <3> QED
        BY <2>2, <3>1, <3>4
    <2> HIDE DEF C
    <2> QED
      BY <2>1, <2>3, <2>4 DEF Rising
  <1>10. Sorted(C) = t
    <2> HIDE DEF C, t
    <2>1. 5 \in Nat
      OBVIOUS
    <2> QED
      BY <1>5, <1>8, <1>9, <2>1, SortedOnce
  <1>11. IsAt(at, ls, place)
    BY <1>6 DEF IsAt, n, k, K, s
  <1>12. Sorted(C) = [j \in 1..Sizes(4) |-> Append(Keys(ls[at[j]]), at[j])]
    BY <1>10 DEF k, K
  <1>13. C = {Append(Keys(ls[i]), i) : i \in 1..Len(ls)}
    BY DEF n, K
  <1> HIDE DEF C, t
  <1>14. InOrder(ls, at)
    BY <1>12, <1>13 DEF InOrder
  <1> QED
    BY <1>11, <1>14

-----------------------------------------------------------------------------
(* The walk. *)

(* What a walk that meets every leaf gives.                                 *)
Met(ls) ==
    LET came == Sorted({Append(Keys(ls[i]), i) : i \in 1..Len(ls)})
    IN [n \in DOMAIN came |->
          LET leaf == ls[Last(came[n])] IN
          [x |-> Truncated(leaf.longitude, Fine),
           y |-> Truncated(leaf.latitude, Fine), leaf |-> leaf]]

(* The calls that IterateMp makes on what BuildFinal packs: one for each    *)
(* place of the last array, under the nodes of the path to it.              *)
Calls ==
    {c \in (1..Sizes(1)) \X (1..Sizes(2)) \X (1..Sizes(3)) \X (1..Sizes(4)) :
        /\ c[2] \in Span(Nodes(1), c[1]) /\ c[3] \in Span(Nodes(2), c[2])
        /\ c[4] \in Span(Nodes(3), c[3])}

(* No path has two nodes in an array.                                       *)
LEMMA PathOnce ==
  ASSUME IsTree(tree), IsFiniteSet(Level(4)), NEW n \in 1..4,
         NEW i \in 1..Sizes(n), NEW j \in 1..Sizes(n)
  PROVE  /\ Paths(n)[i] = Paths(n)[j] => i = j
         /\ i < j <=> Precedes(Paths(n)[i], Paths(n)[j])
  <1> DEFINE P == Paths(n)
             N == Sizes(n)
             L == Level(n)
             m == Width(n)
  <1>1. N \in Nat /\ Rising(P, N, L) /\ L \subseteq Tuples(m) /\ m \in Nat
    BY LevelSorted
  <1>2. i \in 1..N /\ j \in 1..N
    OBVIOUS
  <1> HIDE DEF P, N, L, m
  <1>3. Precedes(P[i], P[j]) <=> i < j
    BY <1>1, <1>2, RisingOrder
  <1>4. Precedes(P[i], P[i]) <=> i < i
    BY <1>1, <1>2, RisingOrder
  <1>5. Precedes(P[j], P[i]) <=> j < i
    BY <1>1, <1>2, RisingOrder
  <1>6. P[i] = P[j] => ~(i < j) /\ ~(j < i)
    BY <1>1, <1>2, <1>3, <1>4, <1>5
  <1>7. P[i] = P[j] => i = j
    BY <1>1, <1>2, <1>6
  <1> QED
    BY <1>3, <1>7 DEF P

(* The nodes of the path to a place.                                        *)
PathTo(c, j) ==
    /\ c \in (1..Sizes(1)) \X (1..Sizes(2)) \X (1..Sizes(3)) \X (1..Sizes(4))
    /\ c[4] = j
    /\ \A n \in 1..3 : Paths(n)[c[n]] = SubSeq(Paths(4)[j], 1, n)

(* Every place has them, and they are what IterateMp calls it under.        *)
LEMMA PathExists ==
  ASSUME IsTree(tree), IsFiniteSet(Level(4)), NEW j \in 1..Sizes(4)
  PROVE  \E c : PathTo(c, j)
  <1>1. Paths(4)[j] \in Level(4)
    BY LevelSorted
  <1>2. PICK keys \in DOMAIN tree : \E i \in DOMAIN tree[keys] : Paths(4)[j] = Append(keys, i)
    BY <1>1, FromLevel
  <1>3. \A n \in 0..4 : SubSeq(Paths(4)[j], 1, n) = SubSeq(keys, 1, n)
    BY <1>2, SamePrefixes
  <1>4. ASSUME NEW n \in 1..3
        PROVE  \E x \in 1..Sizes(n) : Paths(n)[x] = SubSeq(Paths(4)[j], 1, n)
    <2>1. n # 4 /\ n \in 0..4 /\ n \in 1..4
      OBVIOUS
    <2>2. SubSeq(keys, 1, n) \in Level(n)
      BY <2>1 DEF Level
    <2>3. Rising(Paths(n), Sizes(n), Level(n))
      BY <2>1, LevelSorted
    <2>4. SubSeq(Paths(4)[j], 1, n) = SubSeq(keys, 1, n)
      BY <1>3, <2>1
    <2> QED
      BY <2>2, <2>3, <2>4, Zenon DEF Rising
  <1>5. PICK a \in 1..Sizes(1) : Paths(1)[a] = SubSeq(Paths(4)[j], 1, 1)
    BY <1>4
  <1>6. PICK b \in 1..Sizes(2) : Paths(2)[b] = SubSeq(Paths(4)[j], 1, 2)
    BY <1>4
  <1>7. PICK d \in 1..Sizes(3) : Paths(3)[d] = SubSeq(Paths(4)[j], 1, 3)
    BY <1>4
  <1>8. PathTo(<<a, b, d, j>>, j)
    <2> DEFINE c == <<a, b, d, j>>
    <2>1. c \in (1..Sizes(1)) \X (1..Sizes(2)) \X (1..Sizes(3)) \X (1..Sizes(4))
      OBVIOUS
    <2>2. c[1] = a /\ c[2] = b /\ c[3] = d /\ c[4] = j
      OBVIOUS
    <2>3. \A n \in 1..3 : n = 1 \/ n = 2 \/ n = 3
      OBVIOUS
    <2> HIDE DEF c
    <2>4. \A n \in 1..3 : Paths(n)[c[n]] = SubSeq(Paths(4)[j], 1, n)
      BY <1>5, <1>6, <1>7, <2>2, <2>3, Zenon
    <2> QED
      BY <2>1, <2>2, <2>4 DEF PathTo, c
  <1> QED
    BY <1>8

(* The calls are those under the nodes of a path.                           *)
LEMMA CallsArePaths ==
  ASSUME IsTree(tree), IsFiniteSet(Level(4)),
         NEW c \in (1..Sizes(1)) \X (1..Sizes(2)) \X (1..Sizes(3)) \X (1..Sizes(4))
  PROVE  c \in Calls <=> PathTo(c, c[4])
  <1> DEFINE e == Paths(4)[c[4]]
  <1>1. /\ c[1] \in 1..Sizes(1) /\ c[2] \in 1..Sizes(2) /\ c[3] \in 1..Sizes(3)
        /\ c[4] \in 1..Sizes(4)
    OBVIOUS
  <1>2. e \in Seq(Int) /\ Len(e) = 5
    <2>1. e \in Level(4) /\ 4 \in 1..4 /\ Width(4) = 5
      BY <1>1, LevelSorted DEF Width
    <2> QED
      BY <2>1, LevelType
  <1>3. c[4] \in Span(Nodes(3), c[3]) <=> SubSeq(e, 1, 3) = Paths(3)[c[3]]
    <2>1. 3 \in 1..3 /\ 3 + 1 = 4
      OBVIOUS
    <2>2. \A i \in 1..Sizes(3) : \A j \in 1..Sizes(3 + 1) :
            j \in Span(Nodes(3), i) <=> SubSeq(Paths(3 + 1)[j], 1, 3) = Paths(3)[i]
      BY <2>1, SpanIs
    <2>3. \A i \in 1..Sizes(3) : \A j \in 1..Sizes(4) :
            j \in Span(Nodes(3), i) <=> SubSeq(Paths(4)[j], 1, 3) = Paths(3)[i]
      BY <2>1, <2>2
    <2> QED
      BY <1>1, <2>3, Zenon
  <1>4. c[3] \in Span(Nodes(2), c[2]) <=> SubSeq(Paths(3)[c[3]], 1, 2) = Paths(2)[c[2]]
    <2>1. 2 \in 1..3 /\ 2 + 1 = 3
      OBVIOUS
    <2>2. \A i \in 1..Sizes(2) : \A j \in 1..Sizes(2 + 1) :
            j \in Span(Nodes(2), i) <=> SubSeq(Paths(2 + 1)[j], 1, 2) = Paths(2)[i]
      BY <2>1, SpanIs
    <2>3. \A i \in 1..Sizes(2) : \A j \in 1..Sizes(3) :
            j \in Span(Nodes(2), i) <=> SubSeq(Paths(3)[j], 1, 2) = Paths(2)[i]
      BY <2>1, <2>2
    <2> QED
      BY <1>1, <2>3, Zenon
  <1>5. c[2] \in Span(Nodes(1), c[1]) <=> SubSeq(Paths(2)[c[2]], 1, 1) = Paths(1)[c[1]]
    <2>1. 1 \in 1..3 /\ 1 + 1 = 2
      OBVIOUS
    <2>2. \A i \in 1..Sizes(1) : \A j \in 1..Sizes(1 + 1) :
            j \in Span(Nodes(1), i) <=> SubSeq(Paths(1 + 1)[j], 1, 1) = Paths(1)[i]
      BY <2>1, SpanIs
    <2>3. \A i \in 1..Sizes(1) : \A j \in 1..Sizes(2) :
            j \in Span(Nodes(1), i) <=> SubSeq(Paths(2)[j], 1, 1) = Paths(1)[i]
      BY <2>1, <2>2
    <2> QED
      BY <1>1, <2>3, Zenon
  <1>6. SubSeq(SubSeq(e, 1, 3), 1, 2) = SubSeq(e, 1, 2)
    BY <1>2, PrefixTwice
  <1>7. SubSeq(SubSeq(e, 1, 2), 1, 1) = SubSeq(e, 1, 1)
    BY <1>2, PrefixTwice
  <1>8. c \in Calls <=> /\ Paths(3)[c[3]] = SubSeq(e, 1, 3)
                        /\ Paths(2)[c[2]] = SubSeq(e, 1, 2)
                        /\ Paths(1)[c[1]] = SubSeq(e, 1, 1)
    <2>1. c \in Calls <=> /\ c[2] \in Span(Nodes(1), c[1]) /\ c[3] \in Span(Nodes(2), c[2])
                          /\ c[4] \in Span(Nodes(3), c[3])
      BY DEF Calls
    <2> HIDE DEF e
    <2> QED
      BY <1>3, <1>4, <1>5, <1>6, <1>7, <2>1
  <1>9. PathTo(c, c[4]) <=> \A n \in 1..3 : Paths(n)[c[n]] = SubSeq(e, 1, n)
    BY DEF PathTo
  <1>10. (\A n \in 1..3 : Paths(n)[c[n]] = SubSeq(e, 1, n))
           <=> /\ Paths(3)[c[3]] = SubSeq(e, 1, 3)
               /\ Paths(2)[c[2]] = SubSeq(e, 1, 2)
               /\ Paths(1)[c[1]] = SubSeq(e, 1, 1)
    <2>1. \A n : n \in 1..3 <=> n = 1 \/ n = 2 \/ n = 3
      OBVIOUS
    <2> HIDE DEF e
    <2> QED
      BY <2>1, Zenon
  <1> QED
    BY <1>8, <1>9, <1>10

(* The calls are made in the order of the last array, one for each place.   *)
LEMMA CallsAre ==
  ASSUME IsTree(tree), IsFiniteSet(Level(4))
  PROVE  /\ DOMAIN Sorted(Calls) = 1..Sizes(4)
         /\ \A j \in 1..Sizes(4) : PathTo(Sorted(Calls)[j], j)
  <1> DEFINE N == Sizes(4)
             s == [j \in 1..N |-> CHOOSE c : PathTo(c, j)]
             box == (1..Sizes(1)) \X (1..Sizes(2)) \X (1..Sizes(3)) \X (1..Sizes(4))
  <1>1. \A n \in 1..4 : Sizes(n) \in Nat
    BY LevelSorted
  <1>2. \A j \in 1..N : PathTo(s[j], j)
    <2> TAKE j \in 1..N
    <2>1. \E c : PathTo(c, j)
      BY PathExists
    <2>2. s[j] = CHOOSE c : PathTo(c, j)
      OBVIOUS
    <2> QED
      BY <2>1, <2>2, Zenon
  <1>3. s = [j \in 1..N |-> s[j]]
    OBVIOUS
  <1> HIDE DEF s
  <1>4. \A j \in 1..N : /\ s[j] \in box /\ s[j][4] = j
                        /\ \A n \in 1..3 : Paths(n)[s[j][n]] = SubSeq(Paths(4)[j], 1, n)
    BY <1>2 DEF PathTo
  <1>5. \A j \in 1..N : s[j] \in Calls
    <2> TAKE j \in 1..N
    <2>1. s[j] \in box /\ PathTo(s[j], s[j][4])
      BY <1>2, <1>4
    <2> QED
      BY <2>1, CallsArePaths
  <1>6. N \in Nat
    BY <1>1
  <1>7. \A c \in box : /\ c = [n \in 1..4 |-> c[n]] /\ c[1] \in 1..Sizes(1) /\ c[2] \in 1..Sizes(2)
                       /\ c[3] \in 1..Sizes(3) /\ c[4] \in 1..Sizes(4)
                       /\ DOMAIN c = 1..4 /\ c \in Tuples(4)
    <2> TAKE c \in box
    <2>1. /\ c[1] \in 1..Sizes(1) /\ c[2] \in 1..Sizes(2)
          /\ c[3] \in 1..Sizes(3) /\ c[4] \in 1..Sizes(4)
      OBVIOUS
    <2>2. c = [n \in 1..4 |-> c[n]]
      OBVIOUS
    <2>3. \A n \in 1..4 : c[n] \in Int
      <3>1. \A n \in 1..4 : n = 1 \/ n = 2 \/ n = 3 \/ n = 4
        OBVIOUS
      <3>2. c[1] \in Int /\ c[2] \in Int /\ c[3] \in Int /\ c[4] \in Int
        BY <2>1
      <3> HIDE DEF box
      <3> QED
        BY <3>1, <3>2, Zenon
    <2> HIDE DEF box
    <2> QED
      BY <2>1, <2>2, <2>3 DEF Tuples
  <1>8. \A c \in Calls : c \in box
    BY DEF Calls
  <1>9. Calls \subseteq Tuples(4)
    BY <1>7, <1>8
  <1> HIDE DEF box
  <1>10. ASSUME NEW i \in 1..N, NEW j \in 1..N, i < j
         PROVE  Precedes(s[i], s[j])
    <2> DEFINE p == Paths(4)[i]
               q == Paths(4)[j]
    <2>1. p \in Seq(Int) /\ q \in Seq(Int) /\ Len(p) = 5 /\ Len(q) = 5
      <3>1. p \in Level(4) /\ q \in Level(4) /\ 4 \in 1..4 /\ Width(4) = 5
        BY LevelSorted DEF Width
      <3> QED
        BY <3>1, LevelType
    <2>2. Precedes(p, q)
      <3>1. 4 \in 1..4
        OBVIOUS
      <3> QED
        BY <1>10, <3>1, PathOnce
    <2>3. ASSUME NEW n \in 1..3
          PROVE  s[i][n] < s[j][n] \/ s[i][n] = s[j][n]
      <3>1. Precedes(SubSeq(p, 1, n), SubSeq(q, 1, n)) \/ SubSeq(p, 1, n) = SubSeq(q, 1, n)
        <4> HIDE DEF p, q
        <4>1. n \in Nat /\ n <= Len(p) /\ Len(p) = Len(q)
          BY <2>1
        <4> QED
          BY <2>1, <2>2, <4>1, PrefixPrecedes
      <3>2. Paths(n)[s[i][n]] = SubSeq(p, 1, n) /\ Paths(n)[s[j][n]] = SubSeq(q, 1, n)
        BY <1>4
      <3>3. s[i][n] \in 1..Sizes(n) /\ s[j][n] \in 1..Sizes(n)
        <4>1. n = 1 \/ n = 2 \/ n = 3
          OBVIOUS
        <4>2. s[i] \in box /\ s[j] \in box
          BY <1>4
        <4> QED
          BY <1>7, <4>1, <4>2, Zenon
      <3>4. n \in 1..4
        OBVIOUS
      <3>5. /\ Paths(n)[s[i][n]] = Paths(n)[s[j][n]] => s[i][n] = s[j][n]
            /\ s[i][n] < s[j][n] <=> Precedes(Paths(n)[s[i][n]], Paths(n)[s[j][n]])
        BY <3>3, <3>4, PathOnce
      <3> HIDE DEF p, q
      <3> QED
        BY <3>1, <3>2, <3>5
    <2>4. s[i][4] < s[j][4]
      BY <1>4, <1>10
    <2>5. DOMAIN s[i] = 1..4
      BY <1>4, <1>7
    <2>6. \E n \in 1..4 : s[i][n] < s[j][n] /\ \A m \in 1..n - 1 : s[i][m] = s[j][m]
      <3>1. CASE s[i][1] < s[j][1]
        <4>1. 1 \in 1..4 /\ \A m : m \notin 1..1 - 1
          OBVIOUS
        <4> QED
          BY <3>1, <4>1, Zenon
      <3>2. CASE s[i][1] = s[j][1] /\ s[i][2] < s[j][2]
        <4>1. 2 \in 1..4 /\ \A m \in 1..2 - 1 : m = 1
          OBVIOUS
        <4> QED
          BY <3>2, <4>1, Zenon
      <3>3. CASE s[i][1] = s[j][1] /\ s[i][2] = s[j][2] /\ s[i][3] < s[j][3]
        <4>1. 3 \in 1..4 /\ \A m \in 1..3 - 1 : m = 1 \/ m = 2
          OBVIOUS
        <4> QED
          BY <3>3, <4>1, Zenon
      <3>4. CASE s[i][1] = s[j][1] /\ s[i][2] = s[j][2] /\ s[i][3] = s[j][3]
        <4>1. 4 \in 1..4 /\ \A m \in 1..4 - 1 : m = 1 \/ m = 2 \/ m = 3
          OBVIOUS
        <4> QED
          BY <2>4, <3>4, <4>1, Zenon
      <3>5. 1 \in 1..3 /\ 2 \in 1..3 /\ 3 \in 1..3
        OBVIOUS
      <3> QED
        BY <2>3, <3>1, <3>2, <3>3, <3>4, <3>5, Zenon
    <2> QED
      BY <2>5, <2>6, Zenon DEF Precedes
  <1>11. ASSUME NEW c \in Calls
         PROVE  \E j \in 1..N : s[j] = c
    <2>1. c \in box
      BY <1>8
    <2>2. c[4] \in 1..N
      BY <1>7, <2>1
    <2>3. PathTo(c, c[4])
      BY <2>1, CallsArePaths DEF box
    <2>4. \A n \in 1..3 : s[c[4]][n] = c[n]
      <3> TAKE n \in 1..3
      <3>1. Paths(n)[s[c[4]][n]] = Paths(n)[c[n]]
        BY <1>4, <2>2, <2>3 DEF PathTo
      <3>2. s[c[4]][n] \in 1..Sizes(n) /\ c[n] \in 1..Sizes(n)
        <4>1. n = 1 \/ n = 2 \/ n = 3
          OBVIOUS
        <4>2. s[c[4]] \in box
          BY <1>4, <2>2
        <4> QED
          BY <1>7, <2>1, <4>1, <4>2, Zenon
      <3>3. n \in 1..4
        OBVIOUS
      <3> QED
        BY <3>1, <3>2, <3>3, PathOnce
    <2>5. s[c[4]][4] = c[4] /\ s[c[4]] \in box
      BY <1>4, <2>2
    <2>6. \A n \in 1..4 : s[c[4]][n] = c[n]
      <3>1. \A n \in 1..4 : n \in 1..3 \/ n = 4
        OBVIOUS
      <3> QED
        BY <2>4, <2>5, <3>1, Zenon
    <2>7. s[c[4]] = c
      <3>1. s[c[4]] = [n \in 1..4 |-> s[c[4]][n]] /\ c = [n \in 1..4 |-> c[n]]
        BY <1>7, <2>1, <2>5
      <3> QED
        BY <2>6, <3>1
    <2> QED
      BY <2>2, <2>7
  <1>12. s \in [1..N -> Calls]
    BY <1>3, <1>5
  <1>13. Rising(s, N, Calls)
    BY <1>10, <1>11, <1>12 DEF Rising
  <1>14. Sorted(Calls) = s
    <2>1. 4 \in Nat
      OBVIOUS
    <2> HIDE DEF N
    <2> QED
      BY <1>6, <1>9, <1>13, <2>1, SortedOnce
  <1> QED
    BY <1>2, <1>3, <1>14

(* The walk over what BuildFinal packs meets every leaf.                    *)
LEMMA WalkIsMet ==
  ASSUME NEW ls, IsLeaves(ls), NEW place, Filed(tree, ls, Len(ls), place)
  PROVE  Walk(Packed) = Met(ls)
  <1> DEFINE N == Sizes(4)
             K(i) == Keys(ls[i])
             P == Packed
             cs == Sorted(Calls)
             came == Sorted({Append(Keys(ls[i]), i) : i \in 1..Len(ls)})
             S == 1..Sizes(1)
  <1>1. IsTree(tree) /\ IsFiniteSet(Level(4))
    BY FiledTree
  <1>0. PICK at : IsAt(at, ls, place) /\ InOrder(ls, at)
    BY LeafOrder
  <1>2. IsAt(at, ls, place) /\ came = [j \in 1..N |-> Append(K(at[j]), at[j])]
    BY <1>0 DEF InOrder
  <1>3. /\ at \in [1..N -> 1..Len(ls)]
        /\ \A j \in 1..N : Paths(4)[j] = Append(K(at[j]), place[at[j]])
    BY <1>2 DEF IsAt
  <1>4. \A i \in 1..Len(ls) : /\ K(i) \in DOMAIN tree
                              /\ place[i] \in DOMAIN tree[K(i)]
                              /\ tree[K(i)][place[i]] = ls[i]
    BY FiledTree
  <1>5. \A i \in 1..Len(ls) : /\ K(i) \in Seq(Int) /\ Len(K(i)) = 4
                              /\ K(i)[1] = Degree(ls[i].longitude)
                              /\ K(i)[2] = Part(ls[i].longitude)
                              /\ K(i)[3] = Degree(ls[i].latitude)
                              /\ K(i)[4] = Part(ls[i].latitude)
                              /\ ls[i].longitude \in Int /\ ls[i].latitude \in Int
    BY KeysType DEF IsLeaves
  <1> HIDE DEF K
  <1>6. \A j \in 1..N : /\ Front(Paths(4)[j]) = K(at[j]) /\ Last(Paths(4)[j]) = place[at[j]]
                        /\ Paths(4)[j] \in Seq(Int) /\ Len(Paths(4)[j]) = 5
                        /\ \A k \in 1..4 : Paths(4)[j][k] = K(at[j])[k]
    <2> TAKE j \in 1..N
    <2>1. at[j] \in 1..Len(ls)
      BY <1>3
    <2>2. K(at[j]) \in DOMAIN tree /\ place[at[j]] \in DOMAIN tree[K(at[j])]
      BY <1>4, <2>1
    <2>3. Paths(4)[j] = Append(K(at[j]), place[at[j]])
      BY <1>3
    <2> DEFINE keys == K(at[j])
               i == place[at[j]]
               e == Paths(4)[j]
    <2>4. keys \in DOMAIN tree /\ i \in DOMAIN tree[keys] /\ e = Append(keys, i)
      BY <2>2, <2>3
    <2> HIDE DEF keys, i, e
    <2>5. /\ e \in Seq(Int) /\ Len(e) = 5
          /\ Front(e) = keys /\ Last(e) = i /\ \A k \in 1..4 : e[k] = keys[k]
      BY <1>1, <2>4, LastLevel, Zenon
    <2> QED
      BY <2>5 DEF keys, i, e
  <1>7. /\ P.L1 = Nodes(1) /\ P.L2 = Nodes(2) /\ P.L3 = Nodes(3)
        /\ P.L4 = [j \in DOMAIN Paths(4) |-> tree[Front(Paths(4)[j])][Last(Paths(4)[j])]]
    BY DEF Packed, Paths
  <1> HIDE DEF P
  <1>8. DOMAIN Paths(4) = 1..N /\ \A n \in 1..4 : Sizes(n) \in Nat
    BY <1>1, LevelSorted
  <1>9. DOMAIN P.L4 = 1..N /\ \A j \in 1..N : P.L4[j] = ls[at[j]]
    <2>1. DOMAIN P.L4 = 1..N
      BY <1>7, <1>8
    <2>2. ASSUME NEW j \in 1..N  PROVE P.L4[j] = ls[at[j]]
      <3>1. P.L4[j] = tree[Front(Paths(4)[j])][Last(Paths(4)[j])]
        BY <1>7, <1>8
      <3>2. at[j] \in 1..Len(ls)
        BY <1>3
      <3> QED
        BY <1>4, <1>6, <3>1, <3>2
    <2> QED
      BY <2>1, <2>2
  <1>10. Len(P.L1) - 1 = Sizes(1) /\ Len(P.L2) - 1 = Sizes(2) /\ Len(P.L3) - 1 = Sizes(3)
    <2>1. \A n \in 1..3 : Len(Nodes(n)) = Sizes(n) + 1
      BY <1>1, SpanIs
    <2>2. /\ Len(Nodes(1)) = Sizes(1) + 1 /\ Len(Nodes(2)) = Sizes(2) + 1
          /\ Len(Nodes(3)) = Sizes(3) + 1
      <3>1. 1 \in 1..3 /\ 2 \in 1..3 /\ 3 \in 1..3
        OBVIOUS
      <3> QED
        BY <2>1, <3>1, Zenon
    <2>3. Sizes(1) \in Nat /\ Sizes(2) \in Nat /\ Sizes(3) \in Nat
      BY <1>8
    <2>4. \A x, y : x \in Nat /\ y = x + 1 => y - 1 = x
      OBVIOUS
    <2> QED
      BY <1>7, <2>2, <2>3, <2>4, Zenon
  <1> DEFINE calls == {c \in (1..Len(P.L1) - 1) \X (1..Len(P.L2) - 1)
                              \X (1..Len(P.L3) - 1) \X DOMAIN P.L4 :
                          /\ c[2] \in Span(P.L1, c[1]) /\ c[3] \in Span(P.L2, c[2])
                          /\ c[4] \in Span(P.L3, c[3])}
             met == [n \in DOMAIN Sorted(calls) |->
                       LET c == Sorted(calls)[n] IN
                       [x |-> P.L1[c[1]].key * Parts + P.L2[c[2]].key,
                        y |-> P.L3[c[3]].key * Parts + Part(P.L4[c[4]].latitude),
                        leaf |-> P.L4[c[4]]]]
             should == [n \in DOMAIN came |->
                          LET leaf == ls[Last(came[n])] IN
                          [x |-> Truncated(leaf.longitude, Fine),
                           y |-> Truncated(leaf.latitude, Fine), leaf |-> leaf]]
  <1>11. Walk(P) = met
    BY DEF Walk
  <1>12. calls = Calls
    BY <1>7, <1>9, <1>10 DEF Calls
  <1>13. DOMAIN cs = 1..N /\ \A j \in 1..N : PathTo(cs[j], j)
    BY <1>1, CallsAre
  <1> HIDE DEF calls, cs, came, N
  <1>14. DOMAIN met = 1..N /\ DOMAIN should = 1..N
    BY <1>2, <1>12, <1>13 DEF cs
  <1>15. ASSUME NEW j \in 1..N
         PROVE  met[j] = should[j]
    <2> DEFINE c == cs[j]
               leaf == ls[at[j]]
               p == Paths(4)[j]
    <2>1. /\ c[1] \in 1..Sizes(1) /\ c[2] \in 1..Sizes(2) /\ c[3] \in 1..Sizes(3) /\ c[4] = j
          /\ \A n \in 1..3 : Paths(n)[c[n]] = SubSeq(p, 1, n)
      BY <1>13 DEF PathTo
    <2>2. at[j] \in 1..Len(ls)
      BY <1>3
    <2>3. \A n \in 1..3 : \A i \in 1..Sizes(n) : Nodes(n)[i].key = Paths(n)[i][n]
      BY <1>1, SpanIs
    <2>4. \A n \in 1..3 : SubSeq(p, 1, n)[n] = K(at[j])[n]
      <3> TAKE n \in 1..3
      <3>1. p \in Seq(Int) /\ Len(p) = 5 /\ n \in 1..n /\ n \in 1..4
        BY <1>6
      <3> HIDE DEF p
      <3>2. n \in Nat /\ n <= Len(p)
        BY <3>1
      <3>3. SubSeq(p, 1, n)[n] = p[n]
        BY <3>1, <3>2, PrefixIs
      <3>4. p[n] = K(at[j])[n]
        BY <1>6, <3>1 DEF p
      <3> QED
        BY <3>3, <3>4
    <2>5. 1 \in 1..3 /\ 2 \in 1..3 /\ 3 \in 1..3
      OBVIOUS
    <2> HIDE DEF c, p, leaf
    <2>6. P.L1[c[1]].key = Degree(leaf.longitude)
      <3>1. P.L1[c[1]].key = Paths(1)[c[1]][1]
        <4>1. Nodes(1)[c[1]].key = Paths(1)[c[1]][1]
          BY <2>1, <2>3, <2>5
        <4> QED
          BY <1>7, <4>1
      <3>2. Paths(1)[c[1]][1] = K(at[j])[1]
        <4>1. Paths(1)[c[1]] = SubSeq(p, 1, 1) /\ SubSeq(p, 1, 1)[1] = K(at[j])[1]
          BY <2>1, <2>4, <2>5
        <4> QED
          BY <4>1
      <3> QED
        BY <1>5, <2>2, <3>1, <3>2 DEF leaf
    <2>7. P.L2[c[2]].key = Part(leaf.longitude)
      <3>1. P.L2[c[2]].key = Paths(2)[c[2]][2]
        <4>1. Nodes(2)[c[2]].key = Paths(2)[c[2]][2]
          BY <2>1, <2>3, <2>5
        <4> QED
          BY <1>7, <4>1
      <3>2. Paths(2)[c[2]][2] = K(at[j])[2]
        <4>1. Paths(2)[c[2]] = SubSeq(p, 1, 2) /\ SubSeq(p, 1, 2)[2] = K(at[j])[2]
          BY <2>1, <2>4, <2>5
        <4> QED
          BY <4>1
      <3> QED
        BY <1>5, <2>2, <3>1, <3>2 DEF leaf
    <2>8. P.L3[c[3]].key = Degree(leaf.latitude)
      <3>1. P.L3[c[3]].key = Paths(3)[c[3]][3]
        <4>1. Nodes(3)[c[3]].key = Paths(3)[c[3]][3]
          BY <2>1, <2>3, <2>5
        <4> QED
          BY <1>7, <4>1
      <3>2. Paths(3)[c[3]][3] = K(at[j])[3]
        <4>1. Paths(3)[c[3]] = SubSeq(p, 1, 3) /\ SubSeq(p, 1, 3)[3] = K(at[j])[3]
          BY <2>1, <2>4, <2>5
        <4> QED
          BY <4>1
      <3> QED
        BY <1>5, <2>2, <3>1, <3>2 DEF leaf
    <2>9. P.L4[c[4]] = leaf
      BY <1>9, <2>1 DEF leaf
    <2>10. Last(came[j]) = at[j]
      <3>1. came[j] = Append(K(at[j]), at[j])
        BY <1>2
      <3>2. K(at[j]) \in Seq(Int) /\ Len(K(at[j])) = 4 /\ at[j] \in Int
        BY <1>5, <2>2
      <3>3. Len(came[j]) = 5 /\ came[j][5] = at[j]
        <4> DEFINE q == K(at[j])
                   a == at[j]
        <4>1. q \in Seq(Int) /\ a \in Int /\ Len(q) = 4 /\ came[j] = Append(q, a)
          BY <3>1, <3>2
        <4> HIDE DEF q, a
        <4>2. Len(Append(q, a)) = 5 /\ Append(q, a)[5] = a
          BY <4>1, FifthIs
        <4>3. Len(came[j]) = 5 /\ came[j][5] = a
          BY <4>1, <4>2
        <4> QED
          BY <4>3 DEF a
      <3> QED
        BY <3>3 DEF Last
    <2>11. leaf.longitude \in Int /\ leaf.latitude \in Int
      BY <1>5, <2>2 DEF leaf
    <2>12. met[j] = [x |-> P.L1[c[1]].key * Parts + P.L2[c[2]].key,
                     y |-> P.L3[c[3]].key * Parts + Part(P.L4[c[4]].latitude),
                     leaf |-> P.L4[c[4]]]
      BY <1>12, <1>13 DEF c, cs
    <2>13. should[j] = [x |-> Truncated(leaf.longitude, Fine),
                        y |-> Truncated(leaf.latitude, Fine), leaf |-> leaf]
      BY <1>14, <2>10 DEF leaf
    <2> HIDE DEF met, should
    <2>14. Degree(leaf.longitude) * Parts + Part(leaf.longitude) = Truncated(leaf.longitude, Fine)
      BY <2>11, KeysTogether
    <2>15. Degree(leaf.latitude) * Parts + Part(leaf.latitude) = Truncated(leaf.latitude, Fine)
      BY <2>11, KeysTogether
    <2> QED
      BY <2>6, <2>7, <2>8, <2>9, <2>12, <2>13, <2>14, <2>15
  <1>16. met = should
    <2>1. met = [j \in 1..N |-> met[j]] /\ should = [j \in 1..N |-> should[j]]
      BY <1>14
    <2> HIDE DEF met, should
    <2> QED
      BY <1>15, <2>1
  <1> QED
    BY <1>11, <1>16 DEF P, Met, came

-----------------------------------------------------------------------------
(* The index that a test makes and walks. *)

(* The leaves that were added are filed; what they are packed into, a walk  *)
(* of it will meet them all, and what was walked has met them.              *)
TreeInv ==
    /\ IsLeaves(leaves)
    /\ treeStep \in {"add", "walk", "done"}
    /\ added \in 0..Len(leaves)
    /\ \E place : Filed(tree, leaves, added, place)
    /\ treeStep = "walk" => Walk(packed) = Met(leaves)
    /\ treeStep = "done" => walked = Met(leaves)

(* Nothing is filed at first.                                               *)
LEMMA TreeInitInv ==
  ASSUME NEW inputs, TreeInit(inputs), \A ls \in inputs : IsLeaves(ls)
  PROVE  TreeInv
  <1>1. /\ IsLeaves(leaves) /\ added = 0 /\ tree = <<>> /\ treeStep = "add"
    BY DEF TreeInit
  <1>2. Filed(tree, leaves, added, <<>>)
    <2>1. DOMAIN tree = {} /\ {Keys(leaves[i]) : i \in 1..added} = {}
      BY <1>1
    <2>2. <<>> \in [1..added -> Nat] /\ \A i : i \notin 1..added
      BY <1>1
    <2> QED
      BY <2>1, <2>2, Zenon DEF Filed
  <1>3. added \in 0..Len(leaves)
    <2>1. Len(leaves) \in Nat
      BY <1>1, SeqFacts DEF IsLeaves
    <2> QED
      BY <1>1, <2>1
  <1> QED
    BY <1>1, <1>2, <1>3 DEF TreeInv

(* Each step of the test keeps it.                                          *)
LEMMA TreeStepInv ==
  ASSUME TreeInv, TreeNext
  PROVE  TreeInv'
  <1>1. /\ IsLeaves(leaves) /\ added \in 0..Len(leaves) /\ Len(leaves) \in Nat
    BY SeqFacts DEF TreeInv, IsLeaves
  <1>2. CASE TreeIndexAdd
    <2>1. PICK place : Filed(tree, leaves, added, place)
      BY DEF TreeInv
    <2>2. /\ added < Len(leaves) /\ leaves' = leaves /\ added' = added + 1
          /\ treeStep = "add" /\ treeStep' = treeStep
      BY <1>2 DEF TreeIndexAdd
    <2>3. tree' = [keys \in DOMAIN tree \union {Keys(leaves[added + 1])} |->
                     IF keys = Keys(leaves[added + 1])
                     THEN Append(IF Keys(leaves[added + 1]) \in DOMAIN tree
                                 THEN tree[Keys(leaves[added + 1])] ELSE <<>>,
                                 leaves[added + 1])
                     ELSE tree[keys]]
      BY <1>2 DEF TreeIndexAdd
    <2>4. added \in Nat
      BY <1>1
    <2>5. \E more : Filed(tree', leaves, added + 1, more)
      BY <1>1, <2>1, <2>2, <2>3, <2>4, FiledMore
    <2>6. \E more : Filed(tree', leaves', added', more)
      BY <2>2, <2>5
    <2>7. IsLeaves(leaves') /\ added' \in 0..Len(leaves')
      BY <1>1, <2>2
    <2> QED
      BY <2>2, <2>6, <2>7 DEF TreeInv
  <1>3. CASE BuildFinal
    <2>1. /\ added = Len(leaves) /\ packed' = Packed /\ treeStep' = "walk"
          /\ leaves' = leaves /\ added' = added /\ tree' = tree
      BY <1>3 DEF BuildFinal
    <2>2. PICK place : Filed(tree, leaves, added, place)
      BY DEF TreeInv
    <2>3. Walk(Packed) = Met(leaves)
      BY <1>1, <2>1, <2>2, WalkIsMet
    <2>4. Walk(packed') = Met(leaves')
      BY <2>1, <2>3
    <2>5. Filed(tree', leaves', added', place)
      BY <2>1, <2>2
    <2> QED
      BY <1>1, <2>1, <2>4, <2>5 DEF TreeInv
  <1>4. CASE IterateMp
    <2>1. /\ treeStep = "walk" /\ walked' = Walk(packed) /\ treeStep' = "done"
          /\ leaves' = leaves /\ added' = added /\ tree' = tree
      BY <1>4 DEF IterateMp
    <2>2. PICK place : Filed(tree, leaves, added, place)
      BY DEF TreeInv
    <2>3. walked' = Met(leaves')
      BY <2>1 DEF TreeInv
    <2>4. Filed(tree', leaves', added', place)
      BY <2>1, <2>2
    <2> QED
      BY <1>1, <2>1, <2>3, <2>4 DEF TreeInv
  <1> QED
    BY <1>2, <1>3, <1>4 DEF TreeNext

(* The walk of a test meets every leaf, once, in the order of the keys and, *)
(* where those are equal, of coming, and gives each the place it was filed  *)
(* under (buildFinal and IterateMp), whatever the leaves are.               *)
THEOREM WalkMeetsAll == Spec => []WalkMeetsEveryLeaf
<1>1. Init => TreeInv
  <2>1. \A ls \in LeafInputs : IsLeaves(ls)
    <3> TAKE ls \in LeafInputs
    <3>1. /\ ls \in Seq(ToSet(ls))
          /\ \A i \in DOMAIN ls : ls[i].longitude \in Int /\ ls[i].latitude \in Int
      BY TreeAssumption
    <3>2. IsSeq(ls)
      BY <3>1 DEF IsSeq
    <3>3. DOMAIN ls = 1..Len(ls)
      BY <3>2, SeqFacts
    <3> QED
      BY <3>1, <3>2, <3>3 DEF IsLeaves
  <2>2. IsLeaves(<<>>)
    BY DEF IsLeaves, IsSeq
  <2>3. Init => TreeInit(LeafInputs) \/ TreeInit({<<>>})
    BY DEF Init
  <2>4. \A ls \in {<<>>} : IsLeaves(ls)
    BY <2>2
  <2>5. TreeInit(LeafInputs) => TreeInv
    BY <2>1, TreeInitInv
  <2>6. TreeInit({<<>>}) => TreeInv
    BY <2>4, TreeInitInv
  <2> QED
    BY <2>3, <2>5, <2>6
<1>2. TreeInv /\ [Next]_vars => TreeInv'
  <2> SUFFICES ASSUME TreeInv, [Next]_vars PROVE TreeInv'
    OBVIOUS
  <2>1. CASE TreeNext
    BY <2>1, TreeStepInv
  <2>2. CASE UNCHANGED treeVars
    BY <2>2 DEF TreeInv, treeVars
  <2> QED
    BY <2>1, <2>2 DEF Next, Test, Convert, Returned, vars
<1>3. TreeInv => WalkMeetsEveryLeaf
  <2> SUFFICES ASSUME TreeInv, treeStep = "done"
               PROVE  walked = LET came == Sorted({Append(Keys(leaves[i]), i) : i \in DOMAIN leaves})
                               IN [n \in DOMAIN came |->
                                     LET leaf == leaves[Last(came[n])] IN
                                     [x |-> Truncated(leaf.longitude, Fine),
                                      y |-> Truncated(leaf.latitude, Fine), leaf |-> leaf]]
    BY DEF WalkMeetsEveryLeaf
  <2>1. DOMAIN leaves = 1..Len(leaves)
    BY SeqFacts DEF TreeInv, IsLeaves
  <2>2. walked = Met(leaves)
    BY DEF TreeInv
  <2> QED
    BY <2>1, <2>2 DEF Met
<1> QED
  BY <1>1, <1>2, <1>3, PTL DEF Spec

-----------------------------------------------------------------------------
(* FlattenSeq. *)

(* The function it takes its value from.                                    *)
IsFlat(f, ss, n) == f = [i \in 1..n |-> IF i = 1 THEN ss[i] ELSE f[i - 1] \o ss[i]]

(* What such a function has at an index.                                    *)
LEMMA FlatAt ==
  ASSUME NEW ss, NEW n, NEW f, IsFlat(f, ss, n), NEW i \in 1..n
  PROVE  f[i] = IF i = 1 THEN ss[i] ELSE f[i - 1] \o ss[i]
  BY DEF IsFlat

(* There is such a function.                                                *)
LEMMA FlatExists ==
  ASSUME NEW ss, NEW n \in Nat
  PROVE  \E f : IsFlat(f, ss, n)
  <1> DEFINE D == {k \in 0..n : \E f : IsFlat(f, ss, k)}
  <1>1. 0 \in D
    <2>1. IsFlat([i \in 1..0 |-> ss[i]], ss, 0)
      BY DEF IsFlat
    <2> QED
      BY <2>1
  <1>2. ASSUME NEW k \in 0..n - 1, k \in D  PROVE k + 1 \in D
    <2>1. PICK f : IsFlat(f, ss, k)
      BY <1>2
    <2> DEFINE g == [i \in 1..k + 1 |-> IF i = 1 THEN ss[i] ELSE f[i - 1] \o ss[i]]
    <2>2. \A i \in 1..k : g[i] = f[i]
      <3>1. \A i \in 1..k : f[i] = IF i = 1 THEN ss[i] ELSE f[i - 1] \o ss[i]
        BY <2>1 DEF IsFlat
      <3>2. \A i \in 1..k : i \in 1..k + 1
        OBVIOUS
      <3> QED
        BY <3>1, <3>2
    <2>3. \A i \in 1..k + 1 : i # 1 => i - 1 \in 1..k
      OBVIOUS
    <2>4. g = [i \in 1..k + 1 |-> IF i = 1 THEN ss[i] ELSE g[i - 1] \o ss[i]]
      BY <2>2, <2>3
    <2> HIDE DEF g
    <2>5. IsFlat(g, ss, k + 1)
      BY <2>4 DEF IsFlat
    <2>6. k + 1 \in 0..n
      OBVIOUS
    <2> QED
      BY <2>5, <2>6
  <1> HIDE DEF D
  <1>3. n \in D
    BY <1>1, <1>2, UpTo
  <1> QED
    BY <1>3 DEF D

(* Two that begin with the same sequences begin alike.                      *)
LEMMA FlatAlike ==
  ASSUME NEW ss, NEW tt, NEW n \in Nat, NEW m \in Nat, m <= n,
         NEW f, NEW g, IsFlat(f, ss, n), IsFlat(g, tt, m),
         \A i \in 1..m : ss[i] = tt[i]
  PROVE  \A i \in 1..m : f[i] = g[i]
  <1> DEFINE D == {k \in 0..m : k = 0 \/ f[k] = g[k]}
  <1>1. \A i \in 1..n : f[i] = IF i = 1 THEN ss[i] ELSE f[i - 1] \o ss[i]
    BY DEF IsFlat
  <1>2. \A i \in 1..m : g[i] = IF i = 1 THEN tt[i] ELSE g[i - 1] \o tt[i]
    BY DEF IsFlat
  <1>3. ASSUME NEW k \in 0..m - 1, k \in D  PROVE k + 1 \in D
    <2>1. k + 1 \in 1..m /\ k + 1 \in 1..n /\ (k + 1) - 1 = k
      OBVIOUS
    <2>2. CASE k = 0
      BY <2>1, <2>2, <1>1, <1>2
    <2>3. CASE k # 0
      BY <2>1, <2>3, <1>1, <1>2, <1>3
    <2> QED
      BY <2>2, <2>3
  <1>4. 0 \in D
    OBVIOUS
  <1> HIDE DEF D
  <1>5. \A k \in 0..m : k \in D
    BY <1>3, <1>4, UpTo
  <1> QED
    BY <1>5 DEF D

(* What FlattenSeq is, without a choice.                                    *)
LEMMA FlattenIs ==
  ASSUME NEW ss, Len(ss) \in Nat, Len(ss) # 0
  PROVE  \E f : IsFlat(f, ss, Len(ss)) /\ FlattenSeq(ss) = f[Len(ss)]
  <1> DEFINE f == CHOOSE f : f = [i \in 1..Len(ss) |-> IF i = 1 THEN ss[i] ELSE f[i - 1] \o ss[i]]
  <1>1. \E g : g = [i \in 1..Len(ss) |-> IF i = 1 THEN ss[i] ELSE g[i - 1] \o ss[i]]
    BY FlatExists DEF IsFlat
  <1>2. IsFlat(f, ss, Len(ss))
    BY <1>1 DEF IsFlat
  <1>3. FlattenSeq(ss) = f[Len(ss)]
    BY DEF FlattenSeq
  <1> QED
    BY <1>2, <1>3

(* One sequence more is flattened at the end.                               *)
LEMMA FlattenGrows ==
  ASSUME NEW ss, NEW tt, NEW n \in Nat, n # 0, Len(ss) = n, Len(tt) = n + 1,
         \A i \in 1..n : ss[i] = tt[i]
  PROVE  FlattenSeq(tt) = FlattenSeq(ss) \o tt[n + 1]
  <1>1. PICK f : IsFlat(f, ss, n) /\ FlattenSeq(ss) = f[n]
    BY FlattenIs
  <1>2. PICK g : IsFlat(g, tt, n + 1) /\ FlattenSeq(tt) = g[n + 1]
    BY FlattenIs
  <1>3. \A i \in 1..n : g[i] = f[i]
    BY <1>1, <1>2, FlatAlike
  <1>4. n + 1 \in 1..n + 1 /\ n + 1 # 1 /\ (n + 1) - 1 = n /\ n \in 1..n
    OBVIOUS
  <1>5. g[n + 1] = IF n + 1 = 1 THEN tt[n + 1] ELSE g[(n + 1) - 1] \o tt[n + 1]
    <2>1. ASSUME NEW m \in 1..n + 1
          PROVE  g[m] = IF m = 1 THEN tt[m] ELSE g[m - 1] \o tt[m]
      BY <1>2, FlatAt
    <2> QED
      BY <1>4, <2>1
  <1>6. g[n + 1] = g[n] \o tt[n + 1] /\ g[n] = f[n]
    BY <1>3, <1>4, <1>5
  <1> QED
    BY <1>1, <1>2, <1>6

(* The first is itself, and with none there is nothing.                     *)
LEMMA FlattenOne ==
  ASSUME NEW ss, Len(ss) = 1
  PROVE  FlattenSeq(ss) = ss[1]
  <1>1. Len(ss) \in Nat /\ Len(ss) # 0
    OBVIOUS
  <1>2. PICK f : IsFlat(f, ss, Len(ss)) /\ FlattenSeq(ss) = f[Len(ss)]
    BY <1>1, FlattenIs
  <1>3. f[1] = IF 1 = 1 THEN ss[1] ELSE f[1 - 1] \o ss[1]
    BY <1>2, FlatAt
  <1> QED
    BY <1>2, <1>3

(* Of no sequences it makes nothing.                                        *)
LEMMA FlattenNone ==
  ASSUME NEW S, NEW ss \in Seq(S), Len(ss) = 0
  PROVE  FlattenSeq(ss) = <<>>
  BY DEF FlattenSeq

(* All of it is a sequence.                                                 *)
LEMMA FlattenType ==
  ASSUME NEW S, NEW n \in Nat, NEW ss, ss = [i \in 1..n |-> ss[i]], Len(ss) = n,
         \A i \in 1..n : ss[i] \in Seq(S)
  PROVE  FlattenSeq(ss) \in Seq(S)
  <1>1. CASE n = 0
    <2>1. ss = <<>>
      BY <1>1, SMT
    <2> QED
      BY <2>1 DEF FlattenSeq
  <1>2. CASE n # 0
    <2>1. PICK f : IsFlat(f, ss, n) /\ FlattenSeq(ss) = f[n]
      BY <1>2, FlattenIs
    <2> DEFINE D == {k \in 0..n : k = 0 \/ f[k] \in Seq(S)}
    <2>2. 0 \in D
      OBVIOUS
    <2>3. ASSUME NEW k \in 0..n - 1, k \in D  PROVE k + 1 \in D
      <3>1. k + 1 \in 1..n /\ (k + 1) - 1 = k
        OBVIOUS
      <3>2. f[k + 1] = IF k + 1 = 1 THEN ss[k + 1] ELSE f[k] \o ss[k + 1]
        BY <2>1, <3>1, FlatAt
      <3>3. ss[k + 1] \in Seq(S)
        BY <3>1
      <3>4. CASE k = 0
        BY <3>2, <3>3, <3>4, <3>1
      <3>5. CASE k # 0
        <4>1. f[k] \in Seq(S)
          BY <2>3, <3>5
        <4>2. k + 1 # 1
          BY <3>5
        <4>3. f[k + 1] = f[k] \o ss[k + 1]
          BY <4>2, <3>1, <3>2, Zenon
        <4>4. f[k + 1] \in Seq(S)
          BY <4>1, <4>3, <3>3, ConcatProperties
        <4> QED
          BY <4>4, <3>1
      <3> QED
        BY <3>4, <3>5
    <2> HIDE DEF D
    <2>4. n \in D
      BY <2>2, <2>3, UpTo
    <2> QED
      BY <2>1, <2>4, <1>2 DEF D
  <1> QED
    BY <1>1, <1>2

-----------------------------------------------------------------------------

-----------------------------------------------------------------------------
(* What is left of a sequence that is read from its head.                   *)

Gone(t, s) == Len(s) - Len(t)

IsRest(t, s) ==
    /\ IsSeq(s) /\ IsSeq(t) /\ Len(t) <= Len(s)
    /\ \A i \in 1..Len(t) : t[i] = s[Gone(t, s) + i]

(* At first all of it is left.                                              *)
LEMMA RestWhole ==
  ASSUME NEW s, IsSeq(s)
  PROVE  IsRest(s, s) /\ Gone(s, s) = 0
  BY SeqFacts DEF IsRest, Gone

(* At last nothing is.                                                      *)
LEMMA RestNone ==
  ASSUME NEW s, IsSeq(s)
  PROVE  IsRest(<<>>, s) /\ Gone(<<>>, s) = Len(s)
  <1>1. Len(s) \in Nat /\ Len(<<>>) = 0 /\ IsSeq(<<>>)
    <2>1. <<>> \in Seq({})
      OBVIOUS
    <2> QED
      BY <2>1, SeqFacts DEF IsSeq
  <1> QED
    BY <1>1, NoIndex DEF IsRest, Gone

(* How much of it is gone, and that nothing is left when all of it is.      *)
LEMMA RestBounds ==
  ASSUME NEW s, NEW t, IsRest(t, s)
  PROVE  /\ Gone(t, s) \in Nat /\ Gone(t, s) <= Len(s) /\ Len(s) \in Nat /\ Len(t) \in Nat
         /\ Len(s) = Gone(t, s) + Len(t)
         /\ t = <<>> <=> Gone(t, s) = Len(s)
         /\ DOMAIN s = 1..Len(s) /\ DOMAIN t = 1..Len(t)
  <1>1. /\ Len(s) \in Nat /\ Len(t) \in Nat /\ (t = <<>> <=> Len(t) = 0)
        /\ DOMAIN s = 1..Len(s) /\ DOMAIN t = 1..Len(t)
    BY SeqFacts DEF IsRest
  <1>2. Len(t) <= Len(s)
    BY DEF IsRest
  <1>3. Gone(t, s) = Len(s) - Len(t)
    BY DEF Gone
  <1> HIDE DEF Gone
  <1>4. \A a, b \in Nat : b <= a => /\ a - b \in Nat /\ a - b <= a /\ a = (a - b) + b
                                     /\ (b = 0 <=> a - b = a)
    OBVIOUS
  <1>5. /\ Gone(t, s) \in Nat /\ Gone(t, s) <= Len(s) /\ Len(s) = Gone(t, s) + Len(t)
        /\ (Len(t) = 0 <=> Gone(t, s) = Len(s))
    <2>1. Len(s) \in Nat /\ Len(t) \in Nat /\ Len(t) <= Len(s)
      BY <1>1, <1>2
    <2>2. /\ Len(s) - Len(t) \in Nat /\ Len(s) - Len(t) <= Len(s)
          /\ Len(s) = (Len(s) - Len(t)) + Len(t)
          /\ (Len(t) = 0 <=> Len(s) - Len(t) = Len(s))
      BY <2>1, <1>4, Zenon
    <2> QED
      BY <2>2, <1>3, Zenon
  <1> QED
    BY <1>1, <1>5

(* The head is the next one, and reading it leaves the tail.                *)
LEMMA RestTail ==
  ASSUME NEW s, NEW t, IsRest(t, s), t # <<>>
  PROVE  /\ IsRest(Tail(t), s) /\ Gone(Tail(t), s) = Gone(t, s) + 1
         /\ Gone(t, s) + 1 \in 1..Len(s) /\ Head(t) = s[Gone(t, s) + 1]
  <1>1. /\ Gone(t, s) \in Nat /\ Len(s) \in Nat /\ Len(t) \in Nat /\ Len(t) # 0
        /\ Len(s) = Gone(t, s) + Len(t)
    BY RestBounds, SeqFacts DEF IsRest
  <1>2. PICK S : t \in Seq(S)
    BY DEF IsRest, IsSeq
  <1>3. /\ Tail(t) \in Seq(S) /\ Len(Tail(t)) = Len(t) - 1
        /\ \A i \in 1..Len(Tail(t)) : Tail(t)[i] = t[i + 1]
    BY <1>2, HeadTailProperties
  <1>4. Head(t) = t[1]
    BY <1>2
  <1>5. Gone(Tail(t), s) = Gone(t, s) + 1
    BY <1>1, <1>3 DEF Gone
  <1>6. ASSUME NEW i \in 1..Len(Tail(t))  PROVE Tail(t)[i] = s[Gone(Tail(t), s) + i]
    <2>1. i + 1 \in 1..Len(t) /\ Gone(t, s) + (i + 1) = (Gone(t, s) + 1) + i
      BY <1>1, <1>3
    <2>2. t[i + 1] = s[Gone(t, s) + (i + 1)]
      BY <2>1 DEF IsRest
    <2> QED
      BY <2>1, <2>2, <1>3, <1>5
  <1>7. IsRest(Tail(t), s)
    <2>1. IsSeq(s) /\ IsSeq(Tail(t))
      BY <1>3 DEF IsRest, IsSeq
    <2>2. Len(Tail(t)) <= Len(s)
      BY <1>1, <1>3
    <2> QED
      BY <2>1, <2>2, <1>6 DEF IsRest
  <1>8. t[1] = s[Gone(t, s) + 1]
    BY <1>1 DEF IsRest
  <1> QED
    BY <1>1, <1>4, <1>5, <1>7, <1>8

-----------------------------------------------------------------------------
(* One sequence begins another.                                             *)

Begins(s, t) == \E u : IsSeq(u) /\ t = s \o u

(* The first n of a sequence.                                               *)
LEMMA FirstOnes ==
  ASSUME NEW s, NEW n \in Nat
  PROVE  SubSeq(s, 1, n) = [i \in 1..n |-> s[i]]
  <1>1. (n - 1) + 1 = n /\ \A i \in 1..n : (i + 1) - 1 = i
    OBVIOUS
  <1> QED
    BY <1>1

(* To begin is to be a prefix.                                              *)
LEMMA BeginsPrefix ==
  ASSUME NEW s, IsSeq(s), NEW t, Begins(s, t)
  PROVE  IsPrefix(s, t)
  <1>1. PICK u : IsSeq(u) /\ t = s \o u
    BY DEF Begins
  <1>2. /\ IsSeq(t) /\ Len(t) = Len(s) + Len(u) /\ Len(s) \in Nat /\ Len(u) \in Nat
        /\ \A i \in 1..Len(s) + Len(u) : t[i] = IF i <= Len(s) THEN s[i] ELSE u[i - Len(s)]
    BY <1>1, ConcatSeq, SeqFacts
  <1>3. Len(s) <= Len(t) /\ \A i \in 1..Len(s) : t[i] = s[i]
    <2>1. \A i \in 1..Len(s) : i \in 1..Len(s) + Len(u) /\ i <= Len(s)
      BY <1>2
    <2> QED
      BY <1>2, <2>1
  <1>4. SubSeq(s, 1, Len(s)) = SubSeq(t, 1, Len(s))
    <2> DEFINE n == Len(s)
    <2>1. n \in Nat /\ \A i \in 1..n : t[i] = s[i]
      BY <1>2, <1>3
    <2> HIDE DEF n
    <2>2. SubSeq(s, 1, n) = [i \in 1..n |-> s[i]] /\ SubSeq(t, 1, n) = [i \in 1..n |-> t[i]]
      BY <2>1, FirstOnes
    <2> QED
      BY <2>1, <2>2 DEF n
  <1> QED
    BY <1>3, <1>4 DEF IsPrefix

(* A sequence begins itself, and nothing begins every sequence.             *)
LEMMA BeginsItself ==
  ASSUME NEW s, IsSeq(s)
  PROVE  Begins(s, s) /\ Begins(<<>>, s)
  BY ConcatNothing DEF Begins

(* What begins what begins a third begins the third.                        *)
LEMMA BeginsFurther ==
  ASSUME NEW s, IsSeq(s), NEW t, Begins(s, t), NEW u, Begins(t, u)
  PROVE  Begins(s, u)
  <1>1. PICK v : IsSeq(v) /\ t = s \o v
    BY DEF Begins
  <1>2. PICK w : IsSeq(w) /\ u = t \o w
    BY DEF Begins
  <1>3. (s \o v) \o w = s \o (v \o w)
    BY <1>1, <1>2, ConcatThree
  <1>4. IsSeq(v \o w)
    BY <1>1, <1>2, ConcatSeq
  <1> QED
    BY <1>1, <1>2, <1>3, <1>4 DEF Begins

(* Behind the same sequence one still begins the other.                     *)
LEMMA BeginsAfter ==
  ASSUME NEW r, IsSeq(r), NEW s, IsSeq(s), NEW t, Begins(s, t)
  PROVE  Begins(r \o s, r \o t)
  <1>1. \A u : IsSeq(u) => (r \o s) \o u = r \o (s \o u)
    BY ConcatThree
  <1>2. PICK u : IsSeq(u) /\ t = s \o u
    BY DEF Begins
  <1>3. r \o t = (r \o s) \o u
    BY <1>1, <1>2
  <1> QED
    BY <1>2, <1>3 DEF Begins

(* A sequence begins whatever is put after it.                              *)
LEMMA BeginsLonger ==
  ASSUME NEW s, IsSeq(s), NEW t, IsSeq(t)
  PROVE  Begins(s, s \o t)
  BY DEF Begins

-----------------------------------------------------------------------------
(* The first n of some sequences, flattened.                                *)

Flat(ss, n) == FlattenSeq([i \in 1..n |-> ss[i]])

(* The first none of the sequences make nothing.                            *)
LEMMA FlatNothing == \A ss : Flat(ss, 0) = <<>>
  <1> SUFFICES ASSUME NEW ss  PROVE Flat(ss, 0) = <<>>
    OBVIOUS
  <1> DEFINE tt == [i \in 1..0 |-> ss[i]]
  <1>1. tt = <<>>
    BY NoIndex
  <1>2. tt \in Seq({}) /\ Len(tt) = 0
    BY <1>1
  <1> HIDE DEF tt
  <1>3. FlattenSeq(tt) = <<>>
    BY <1>2, FlattenNone
  <1> QED
    BY <1>3 DEF Flat, tt

(* The first n of the sequences make a sequence.                            *)
LEMMA FlatType ==
  ASSUME NEW ss, NEW n \in Nat, \A i \in 1..n : IsSeq(ss[i])
  PROVE  IsSeq(Flat(ss, n))
  <1> DEFINE tt == [i \in 1..n |-> ss[i]]
             S == UNION {ToSet(ss[i]) : i \in 1..n}
  <1>1. Len(tt) = n /\ tt = [i \in 1..n |-> tt[i]] /\ \A i \in 1..n : tt[i] = ss[i]
    OBVIOUS
  <1>2. ASSUME NEW i \in 1..n  PROVE ss[i] \in Seq(S)
    <2> DEFINE s == ss[i]
    <2>1. IsSeq(s)
      OBVIOUS
    <2>2. ToSet(s) \subseteq S
      OBVIOUS
    <2> HIDE DEF s, S
    <2>3. Len(s) \in Nat /\ DOMAIN s = 1..Len(s) /\ s = [k \in 1..Len(s) |-> s[k]]
      BY <2>1, SeqFacts
    <2>4. \A k \in 1..Len(s) : s[k] \in S
      BY <2>2, <2>3 DEF ToSet
    <2>5. s \in Seq(S)
      BY <2>3, <2>4, IsASeq
    <2> QED
      BY <2>5 DEF s
  <1> HIDE DEF S, tt
  <1>3. FlattenSeq(tt) \in Seq(S)
    BY <1>1, <1>2, FlattenType
  <1> QED
    BY <1>3 DEF Flat, tt, IsSeq

(* One more of the sequences puts its items after those of the others.      *)
LEMMA FlatMore ==
  ASSUME NEW ss, NEW n \in Nat, IsSeq(ss[n + 1])
  PROVE  Flat(ss, n + 1) = Flat(ss, n) \o ss[n + 1]
  <1> DEFINE s == [i \in 1..n |-> ss[i]]
             t == [i \in 1..n + 1 |-> ss[i]]
  <1>1. /\ Len(s) = n /\ Len(t) = n + 1 /\ t[n + 1] = ss[n + 1]
        /\ \A i \in 1..n : s[i] = t[i]
    OBVIOUS
  <1>2. CASE n = 0
    <2>1. Flat(ss, n) = <<>>
      BY <1>2, FlatNothing
    <2>2. Len(t) = 1 /\ t[1] = ss[n + 1]
      BY <1>1, <1>2
    <2> HIDE DEF t
    <2>3. FlattenSeq(t) = ss[n + 1]
      BY <2>2, FlattenOne
    <2>4. <<>> \o ss[n + 1] = ss[n + 1]
      BY ConcatNothing
    <2> QED
      BY <2>1, <2>3, <2>4 DEF Flat, t
  <1>3. CASE n # 0
    <2> HIDE DEF s, t
    <2>1. FlattenSeq(t) = FlattenSeq(s) \o t[n + 1]
      BY <1>1, <1>3, FlattenGrows
    <2> QED
      BY <1>1, <2>1 DEF Flat, s, t
  <1> QED
    BY <1>2, <1>3

(* Fewer of them begin what more of them make.                              *)
LEMMA FlatBegins ==
  ASSUME NEW ss, NEW m \in Nat, \A i \in 1..m : IsSeq(ss[i]), NEW n \in 0..m
  PROVE  Begins(Flat(ss, n), Flat(ss, m))
  <1> DEFINE D == {k \in 0..m - n : Begins(Flat(ss, n), Flat(ss, n + k))}
  <1>1. \A k \in 0..m : IsSeq(Flat(ss, k))
    <2> SUFFICES ASSUME NEW k \in 0..m  PROVE IsSeq(Flat(ss, k))
      OBVIOUS
    <2>1. k \in Nat /\ \A i \in 1..k : i \in 1..m
      OBVIOUS
    <2> QED
      BY <2>1, FlatType
  <1>2. 0 \in D
    <2>1. n + 0 = n /\ 0 \in 0..m - n
      OBVIOUS
    <2> QED
      BY <1>1, <2>1, BeginsItself
  <1>3. ASSUME NEW k \in 0..(m - n) - 1, k \in D  PROVE k + 1 \in D
    <2>1. /\ n + k \in Nat /\ n + (k + 1) = (n + k) + 1 /\ (n + k) + 1 \in 1..m
          /\ n + k \in 0..m /\ k + 1 \in 0..m - n
      OBVIOUS
    <2>2. Flat(ss, (n + k) + 1) = Flat(ss, n + k) \o ss[(n + k) + 1]
      BY <2>1, FlatMore
    <2>3. Begins(Flat(ss, n + k), Flat(ss, (n + k) + 1))
      BY <1>1, <2>1, <2>2, BeginsLonger
    <2>4. Begins(Flat(ss, n), Flat(ss, n + k))
      BY <1>3
    <2>5. Begins(Flat(ss, n), Flat(ss, (n + k) + 1))
      BY <1>1, <2>3, <2>4, BeginsFurther
    <2> QED
      BY <2>1, <2>5
  <1> HIDE DEF D
  <1>4. m - n \in Nat /\ n + (m - n) = m /\ m - n \in 0..m - n
    OBVIOUS
  <1>5. m - n \in D
    BY <1>2, <1>3, <1>4, UpTo
  <1> QED
    BY <1>4, <1>5 DEF D

-----------------------------------------------------------------------------
(* The files. *)

Held(file) == file.stored \o file.pending

(* A file that every write to it went well.                                 *)
IsFile(file) ==
    /\ DOMAIN file = {"pending", "stored", "broken"}
    /\ IsSeq(file.pending) /\ IsSeq(file.stored) /\ ~file.broken

(* One item more makes a sequence one longer.                               *)
LEMMA AppendIs ==
  ASSUME NEW s, IsSeq(s), NEW x
  PROVE  /\ IsSeq(Append(s, x)) /\ Len(Append(s, x)) = Len(s) + 1 /\ Len(s) \in Nat
         /\ \A i \in 1..Len(s) : Append(s, x)[i] = s[i]
         /\ Append(s, x)[Len(s) + 1] = x
  <1>1. PICK S : s \in Seq(S)
    BY DEF IsSeq
  <1> DEFINE T == S \union {x}
  <1>2. s \in Seq(T) /\ x \in T
    BY <1>1
  <1> HIDE DEF T
  <1>3. Append(s, x) \in Seq(T)
    BY <1>2, AppendProperties
  <1> QED
    BY <1>2, <1>3, AppendProperties DEF IsSeq

(* What is written to a file is at its end, in its buffer or before it.     *)
LEMMA WrittenIs ==
  ASSUME NEW file, IsFile(file), NEW r
  PROVE  IsFile(Written(file, r)) /\ Held(Written(file, r)) = Append(Held(file), r)
  <1> DEFINE p == file.pending
             s == file.stored
             w == Written(file, r)
  <1>1. /\ DOMAIN file = {"pending", "stored", "broken"} /\ IsSeq(p) /\ IsSeq(s) /\ ~file.broken
    BY DEF IsFile
  <1>2. IsSeq(<<r>>) /\ IsSeq(s \o p) /\ IsSeq(Append(p, r)) /\ Append(p, r) = p \o <<r>>
    <2>1. IsSeq(<<r>>) /\ Append(p, r) = p \o <<r>>
      BY <1>1, AppendLast
    <2> QED
      BY <1>1, <2>1, ConcatSeq, AppendIs
  <1>3. Append(Held(file), r) = (s \o p) \o <<r>>
    BY <1>2, AppendLast DEF Held
  <1>4. CASE Len(p) = BufferSize
    <2>1. w = [file EXCEPT !.stored = s \o p, !.pending = <<r>>]
      BY <1>4 DEF Written
    <2>2. /\ DOMAIN w = DOMAIN file /\ w.stored = s \o p /\ w.pending = <<r>>
          /\ w.broken = file.broken
      BY <1>1, <2>1
    <2> HIDE DEF w
    <2>3. IsFile(w)
      BY <1>1, <1>2, <2>2, Zenon DEF IsFile
    <2>4. Held(w) = (s \o p) \o <<r>>
      BY <2>2 DEF Held
    <2> QED
      BY <1>3, <2>3, <2>4 DEF w
  <1>5. CASE Len(p) # BufferSize
    <2>1. w = [file EXCEPT !.pending = Append(p, r)]
      BY <1>5 DEF Written
    <2>2. /\ DOMAIN w = DOMAIN file /\ w.stored = s /\ w.pending = Append(p, r)
          /\ w.broken = file.broken
      BY <1>1, <2>1
    <2> HIDE DEF w
    <2>3. IsFile(w)
      BY <1>1, <1>2, <2>2, Zenon DEF IsFile
    <2>4. Held(w) = s \o (p \o <<r>>)
      BY <1>2, <2>2 DEF Held
    <2>5. s \o (p \o <<r>>) = (s \o p) \o <<r>>
      BY <1>1, <1>2, ConcatThree
    <2> QED
      BY <1>3, <2>3, <2>4, <2>5 DEF w
  <1> QED
    BY <1>4, <1>5

(* What a write did to a file, and a file that it left as it was.           *)
Wrote(gs, fs, f, r) == Held(gs[f]) = Append(Held(fs[f]), r)
Kept(gs, fs, f) == Held(gs[f]) = Held(fs[f])

AreFiles(fs) == DOMAIN fs = Files /\ \A f \in Files : IsFile(fs[f])

(* No file is written to twice.                                             *)
Apart(writes, n) ==
    /\ \A i \in 1..n : writes[i][1] \in Files
    /\ \A i, j \in 1..n : writes[i][1] = writes[j][1] => i = j

(* A sequence of writes leaves each file with the record that is its own,   *)
(* at the end, and the others as they are.                                  *)
LEMMA AfterIs ==
  ASSUME NEW fs, AreFiles(fs), NEW writes, NEW n \in Nat, Apart(writes, n)
  PROVE  /\ AreFiles(After(fs, writes, n))
         /\ \A i \in 1..n : Wrote(After(fs, writes, n), fs, writes[i][1], writes[i][2])
         /\ \A f \in Files : (\A i \in 1..n : writes[i][1] # f)
                               => Kept(After(fs, writes, n), fs, f)
  <1> DEFINE gs == After(fs, writes, n)
             W(f) == \E i \in 1..n : writes[i][1] = f
             I(f) == CHOOSE i \in 1..n : writes[i][1] = f
  <1>1. DOMAIN fs = Files /\ \A f \in Files : IsFile(fs[f])
    BY DEF AreFiles
  <1>2. gs = [f \in Files |-> IF W(f) THEN Written(fs[f], writes[I(f)][2]) ELSE fs[f]]
    BY <1>1 DEF After
  <1>3. \A f \in Files : ~W(f) => gs[f] = fs[f]
    BY <1>2
  <1>4. ASSUME NEW i \in 1..n  PROVE gs[writes[i][1]] = Written(fs[writes[i][1]], writes[i][2])
    <2> DEFINE f == writes[i][1]
    <2>1. f \in Files /\ W(f)
      BY DEF Apart
    <2>2. I(f) \in 1..n /\ writes[I(f)][1] = f
      BY <2>1
    <2>3. I(f) = i
      BY <2>2, Zenon DEF Apart
    <2>4. gs[f] = Written(fs[f], writes[I(f)][2])
      <3> HIDE DEF f, I, W
      <3> QED
        BY <1>2, <2>1
    <2> QED
      BY <2>3, <2>4
  <1>5. DOMAIN gs = Files
    BY <1>2
  <1>6. \A f \in Files : IsFile(gs[f])
    <2> TAKE f \in Files
    <2>1. CASE W(f)
      <3>1. PICK i \in 1..n : writes[i][1] = f
        BY <2>1
      <3>2. gs[f] = Written(fs[f], writes[i][2])
        BY <1>4, <3>1
      <3>3. IsFile(fs[f])
        BY <1>1
      <3> QED
        BY <3>2, <3>3, WrittenIs
    <2>2. CASE ~W(f)
      BY <1>1, <1>3, <2>2
    <2> QED
      BY <2>1, <2>2
  <1>7. \A i \in 1..n : Wrote(gs, fs, writes[i][1], writes[i][2])
    <2> TAKE i \in 1..n
    <2>1. IsFile(fs[writes[i][1]])
      BY <1>1 DEF Apart
    <2> QED
      BY <1>4, <2>1, WrittenIs DEF Wrote
  <1>8. \A f \in Files : (\A i \in 1..n : writes[i][1] # f) => Kept(gs, fs, f)
    BY <1>3 DEF Kept
  <1> QED
    BY <1>5, <1>6, <1>7, <1>8 DEF AreFiles, gs

(* The names of the files.                                                  *)
LEMMA FilesAre ==
  /\ Files = {"tag_points", "map_points", "map_data", "tag_category",
              "pre_offset", "tag_offset", "tag_text", "tag_index"}
  /\ TagFiles \subseteq Files
  <1>1. DOMAIN FileNames = 1..8
    BY DEF FileNames
  <1>2. \A i : i \in 1..8 <=> i = 1 \/ i = 2 \/ i = 3 \/ i = 4 \/ i = 5 \/ i = 6 \/ i = 7 \/ i = 8
    OBVIOUS
  <1>3. /\ FileNames[1] = "tag_points" /\ FileNames[2] = "map_points" /\ FileNames[3] = "map_data"
        /\ FileNames[4] = "tag_category" /\ FileNames[5] = "pre_offset"
        /\ FileNames[6] = "tag_offset" /\ FileNames[7] = "tag_text" /\ FileNames[8] = "tag_index"
    BY DEF FileNames
  <1>4. Files = {FileNames[i] : i \in 1..8}
    BY <1>1 DEF Files, ToSet
  <1>5. Files = {"tag_points", "map_points", "map_data", "tag_category",
                 "pre_offset", "tag_offset", "tag_text", "tag_index"}
    BY <1>2, <1>3, <1>4
  <1> QED
    BY <1>5 DEF TagFiles

(* What the writes of a tag leave the files as.                             *)
TagWrote(gs, fs, off, bytes, point, index) ==
    /\ AreFiles(gs)
    /\ Wrote(gs, fs, "tag_text", bytes) /\ Wrote(gs, fs, "tag_offset", off)
    /\ Wrote(gs, fs, "pre_offset", off) /\ Wrote(gs, fs, "tag_points", point)
    /\ Wrote(gs, fs, "tag_index", index) /\ Wrote(gs, fs, "tag_category", 0)
    /\ Kept(gs, fs, "map_points") /\ Kept(gs, fs, "map_data")

(* They leave them so.                                                      *)
LEMMA TagWrites ==
  ASSUME NEW fs, AreFiles(fs), NEW name, NEW longitude, NEW latitude, NEW index,
         NEW w, w = Tag(name, longitude, latitude, index), NEW gs, gs = After(fs, w, Len(w))
  PROVE  TagWrote(gs, fs, offset, Bytes(name), <<latitude, longitude>>, index - 1)
  <1>1. /\ Len(w) = 6
        /\ w[1] = <<"tag_text", Bytes(name)>> /\ w[2] = <<"tag_offset", offset>>
        /\ w[3] = <<"pre_offset", offset>> /\ w[4] = <<"tag_points", <<latitude, longitude>>>>
        /\ w[5] = <<"tag_index", index - 1>> /\ w[6] = <<"tag_category", 0>>
    BY DEF Tag
  <1>2. /\ w[1][1] = "tag_text" /\ w[2][1] = "tag_offset" /\ w[3][1] = "pre_offset"
        /\ w[4][1] = "tag_points" /\ w[5][1] = "tag_index" /\ w[6][1] = "tag_category"
    BY <1>1
  <1>3. \A i \in 1..6 : i = 1 \/ i = 2 \/ i = 3 \/ i = 4 \/ i = 5 \/ i = 6
    OBVIOUS
  <1>4. Apart(w, 6)
    <2>1. \A i \in 1..6 : w[i][1] \in Files
      BY <1>2, <1>3, FilesAre
    <2>2. \A i, j \in 1..6 : w[i][1] = w[j][1] => i = j
      BY <1>2, <1>3
    <2> QED
      BY <2>1, <2>2 DEF Apart
  <1>5. /\ AreFiles(gs)
        /\ \A i \in 1..6 : Wrote(gs, fs, w[i][1], w[i][2])
        /\ \A f \in Files : (\A i \in 1..6 : w[i][1] # f) => Kept(gs, fs, f)
    <2>1. 6 \in Nat
      OBVIOUS
    <2>2. /\ AreFiles(After(fs, w, 6))
          /\ \A i \in 1..6 : Wrote(After(fs, w, 6), fs, w[i][1], w[i][2])
          /\ \A f \in Files : (\A i \in 1..6 : w[i][1] # f)
                                => Kept(After(fs, w, 6), fs, f)
      BY <1>4, <2>1, AfterIs
    <2> QED
      BY <1>1, <2>2
  <1>6. /\ w[1][2] = Bytes(name) /\ w[2][2] = offset /\ w[3][2] = offset
        /\ w[4][2] = <<latitude, longitude>> /\ w[5][2] = index - 1 /\ w[6][2] = 0
    BY <1>1
  <1>7. 1 \in 1..6 /\ 2 \in 1..6 /\ 3 \in 1..6 /\ 4 \in 1..6 /\ 5 \in 1..6 /\ 6 \in 1..6
    OBVIOUS
  <1>8. /\ Wrote(gs, fs, "tag_text", Bytes(name))
        /\ Wrote(gs, fs, "tag_offset", offset)
        /\ Wrote(gs, fs, "pre_offset", offset)
    <2>1. /\ Wrote(gs, fs, w[1][1], w[1][2])
          /\ Wrote(gs, fs, w[2][1], w[2][2])
          /\ Wrote(gs, fs, w[3][1], w[3][2])
      BY <1>5, <1>7
    <2> QED
      BY <1>2, <1>6, <2>1
  <1>9. /\ Wrote(gs, fs, "tag_points", <<latitude, longitude>>)
        /\ Wrote(gs, fs, "tag_index", index - 1)
        /\ Wrote(gs, fs, "tag_category", 0)
    <2>1. /\ Wrote(gs, fs, w[4][1], w[4][2])
          /\ Wrote(gs, fs, w[5][1], w[5][2])
          /\ Wrote(gs, fs, w[6][1], w[6][2])
      BY <1>5, <1>7
    <2> QED
      BY <1>2, <1>6, <2>1
  <1>10. /\ Kept(gs, fs, "map_points")
         /\ Kept(gs, fs, "map_data")
    <2>1. "map_points" \in Files /\ "map_data" \in Files
      BY FilesAre
    <2>2. \A i \in 1..6 : w[i][1] # "map_points" /\ w[i][1] # "map_data"
      BY <1>2, <1>3
    <2> QED
      BY <1>5, <2>1, <2>2
  <1> QED
    BY <1>5, <1>8, <1>9, <1>10 DEF TagWrote

(* What the writes of a point leave the files as.                           *)
PointWrote(gs, fs, point) ==
    /\ AreFiles(gs) /\ Wrote(gs, fs, "map_points", point)
    /\ Wrote(gs, fs, "map_data", <<0, 0, 0>>)
    /\ \A f \in TagFiles : Kept(gs, fs, f)

(* They leave them so.                                                      *)
LEMMA PointWrites ==
  ASSUME NEW fs, AreFiles(fs), NEW longitude, NEW latitude,
         NEW w, w = MapPoint(longitude, latitude), NEW gs, gs = After(fs, w, Len(w))
  PROVE  PointWrote(gs, fs, <<latitude * 60, -60 * longitude>>)
  <1>1. /\ Len(w) = 2
        /\ w[1] = <<"map_points", <<latitude * 60, -60 * longitude>>>>
        /\ w[2] = <<"map_data", <<0, 0, 0>>>>
    BY DEF MapPoint
  <1>2. /\ w[1][1] = "map_points" /\ w[2][1] = "map_data"
        /\ w[1][2] = <<latitude * 60, -60 * longitude>> /\ w[2][2] = <<0, 0, 0>>
    BY <1>1
  <1>3. (\A i \in 1..2 : i = 1 \/ i = 2) /\ 1 \in 1..2 /\ 2 \in 1..2
    OBVIOUS
  <1>4. Apart(w, 2)
    <2>1. \A i \in 1..2 : w[i][1] \in Files
      BY <1>2, <1>3, FilesAre
    <2>2. \A i, j \in 1..2 : w[i][1] = w[j][1] => i = j
      BY <1>2, <1>3
    <2> QED
      BY <2>1, <2>2 DEF Apart
  <1>5. /\ AreFiles(gs)
        /\ \A i \in 1..2 : Wrote(gs, fs, w[i][1], w[i][2])
        /\ \A f \in Files : (\A i \in 1..2 : w[i][1] # f) => Kept(gs, fs, f)
    <2>1. 2 \in Nat
      OBVIOUS
    <2>2. /\ AreFiles(After(fs, w, 2))
          /\ \A i \in 1..2 : Wrote(After(fs, w, 2), fs, w[i][1], w[i][2])
          /\ \A f \in Files : (\A i \in 1..2 : w[i][1] # f)
                                => Kept(After(fs, w, 2), fs, f)
      BY <1>4, <2>1, AfterIs
    <2> QED
      BY <1>1, <2>2
  <1>6. /\ Wrote(gs, fs, "map_points", <<latitude * 60, -60 * longitude>>)
        /\ Wrote(gs, fs, "map_data", <<0, 0, 0>>)
    <2>1. /\ Wrote(gs, fs, w[1][1], w[1][2])
          /\ Wrote(gs, fs, w[2][1], w[2][2])
      BY <1>3, <1>5
    <2> QED
      BY <1>2, <2>1
  <1>7. \A f \in TagFiles : Kept(gs, fs, f)
    <2> TAKE f \in TagFiles
    <2>1. f \in Files /\ f # "map_points" /\ f # "map_data"
      BY FilesAre DEF TagFiles
    <2>2. \A i \in 1..2 : w[i][1] # f
      BY <1>2, <1>3, <2>1
    <2> QED
      BY <1>5, <2>1, <2>2
  <1> QED
    BY <1>5, <1>6, <1>7 DEF PointWrote

-----------------------------------------------------------------------------
(* The records of the tags. *)

(* One sequence more is flattened at the end.                               *)
LEMMA FlattenAppend ==
  ASSUME NEW h, IsSeq(h), \A i \in 1..Len(h) : IsSeq(h[i]), NEW x, IsSeq(x)
  PROVE  /\ FlattenSeq(Append(h, x)) = FlattenSeq(h) \o x
         /\ IsSeq(FlattenSeq(h))
  <1> DEFINE n == Len(h)
             k == Append(h, x)
  <1>1. /\ n \in Nat /\ h = [i \in 1..n |-> h[i]]
    BY SeqFacts
  <1>2. /\ IsSeq(k) /\ Len(k) = n + 1 /\ k[n + 1] = x /\ \A i \in 1..n : k[i] = h[i]
    BY AppendIs
  <1>3. k = [i \in 1..n + 1 |-> k[i]]
    BY <1>2, SeqFacts
  <1> HIDE DEF n, k
  <1>4. Flat(k, n + 1) = Flat(k, n) \o k[n + 1]
    BY <1>1, <1>2, FlatMore
  <1>5. Flat(k, n + 1) = FlattenSeq(k)
    BY <1>3 DEF Flat
  <1>6. Flat(k, n) = Flat(h, n)
    <2>1. [i \in 1..n |-> k[i]] = [i \in 1..n |-> h[i]]
      BY <1>2
    <2> QED
      BY <2>1 DEF Flat
  <1>7. Flat(h, n) = FlattenSeq(h)
    BY <1>1 DEF Flat
  <1>8. IsSeq(Flat(h, n))
    BY <1>1, FlatType DEF n
  <1> QED
    BY <1>2, <1>4, <1>5, <1>6, <1>7, <1>8 DEF k

(* The record of one tag.                                                   *)
TagAt(fs, i) ==
    LET at == Held(fs["tag_offset"])[i]
        name == Held(fs["tag_text"])[i]
        text == FlattenSeq(Held(fs["tag_text"]))
    IN /\ at \in Nat /\ IsSeq(name) /\ at + Len(name) <= Len(text)
       /\ \A j \in 1..Len(name) : text[at + j] = name[j]
       /\ Held(fs["pre_offset"])[i] = at
       /\ Held(fs["tag_index"])[i] = i - 2

(* The six files have n records.                                            *)
Agree(fs, n, off) ==
    /\ AreFiles(fs) /\ n \in Nat
    /\ \A f \in TagFiles : Len(Held(fs[f])) = n
    /\ Len(Held(fs["map_points"])) = Len(Held(fs["map_data"]))
    /\ off = Len(FlattenSeq(Held(fs["tag_text"])))
    /\ \A i \in 1..n : TagAt(fs, i)

(* What a file holds is a sequence.                                         *)
LEMMA HeldType ==
  ASSUME NEW fs, AreFiles(fs), NEW f \in Files
  PROVE  IsSeq(Held(fs[f])) /\ Len(Held(fs[f])) \in Nat
  <1>1. IsSeq(fs[f].pending) /\ IsSeq(fs[f].stored)
    BY DEF AreFiles, IsFile
  <1>2. IsSeq(Held(fs[f]))
    BY <1>1, ConcatSeq DEF Held
  <1> QED
    BY <1>2, SeqFacts

(* The files that a tag is found in.                                        *)
LEMMA TagFilesAre ==
  /\ "tag_points" \in TagFiles /\ "tag_category" \in TagFiles /\ "pre_offset" \in TagFiles
  /\ "tag_offset" \in TagFiles /\ "tag_text" \in TagFiles /\ "tag_index" \in TagFiles
  /\ "map_points" \in Files /\ "map_data" \in Files /\ TagFiles \subseteq Files
  /\ \A f \in TagFiles : \/ f = "tag_points" \/ f = "tag_category" \/ f = "pre_offset"
                         \/ f = "tag_offset" \/ f = "tag_text" \/ f = "tag_index"
  BY FilesAre DEF TagFiles

(* A name ends with a byte more.                                            *)
LEMMA BytesType ==
  ASSUME NEW name, IsSeq(name)
  PROVE  IsSeq(Bytes(name)) /\ Len(Bytes(name)) = Len(name) + 1 /\ Len(name) \in Nat
  BY AppendIs DEF Bytes

(* One tag more.                                                            *)
LEMMA AgreeTag ==
  ASSUME NEW fs, NEW n, NEW off, Agree(fs, n, off), NEW b, IsSeq(b), NEW point,
         NEW gs, TagWrote(gs, fs, off, b, point, n - 1)
  PROVE  Agree(gs, n + 1, off + Len(b))
  <1> DEFINE H(f) == Held(fs[f])
             G(f) == Held(gs[f])
             text == FlattenSeq(H("tag_text"))
  <1>1. /\ AreFiles(fs) /\ n \in Nat /\ \A f \in TagFiles : Len(H(f)) = n
        /\ Len(H("map_points")) = Len(H("map_data"))
        /\ off = Len(text) /\ \A i \in 1..n : TagAt(fs, i)
    BY DEF Agree
  <1>2. /\ AreFiles(gs)
        /\ G("tag_text") = Append(H("tag_text"), b)
        /\ G("tag_offset") = Append(H("tag_offset"), off)
        /\ G("pre_offset") = Append(H("pre_offset"), off)
        /\ G("tag_points") = Append(H("tag_points"), point)
        /\ G("tag_index") = Append(H("tag_index"), n - 1)
        /\ G("tag_category") = Append(H("tag_category"), 0)
        /\ G("map_points") = H("map_points") /\ G("map_data") = H("map_data")
    BY Zenon DEF TagWrote, Wrote, Kept
  <1>3. IsSeq(b) /\ Len(b) \in Nat
    BY SeqFacts
  <1>4. \A f \in TagFiles : IsSeq(H(f))
    BY <1>1, HeldType, TagFilesAre
  <1>5. \A i \in 1..n : IsSeq(H("tag_text")[i])
    BY <1>1 DEF TagAt
  <1>6. FlattenSeq(G("tag_text")) = text \o b /\ IsSeq(text)
    <2> DEFINE h == H("tag_text")
    <2>1. IsSeq(h) /\ Len(h) = n /\ \A i \in 1..n : IsSeq(h[i])
      BY <1>1, <1>4, <1>5, TagFilesAre
    <2>2. G("tag_text") = Append(h, b) /\ text = FlattenSeq(h)
      BY <1>2
    <2> HIDE DEF h, G, H, text
    <2> QED
      BY <1>3, <2>1, <2>2, FlattenAppend
  <1>7. /\ Len(text \o b) = Len(text) + Len(b) /\ Len(text) \in Nat
        /\ \A i \in 1..Len(text) : (text \o b)[i] = text[i]
        /\ \A i \in 1..Len(b) : (text \o b)[Len(text) + i] = b[i]
    <2> DEFINE c == text \o b
               k == Len(text)
    <2>1. k \in Nat
      BY <1>6, SeqFacts
    <2>2. /\ Len(c) = k + Len(b)
          /\ \A i \in 1..k + Len(b) : c[i] = IF i <= k THEN text[i] ELSE b[i - k]
      BY <1>3, <1>6, ConcatSeq
    <2> HIDE DEF c, k, text, H
    <2>3. ASSUME NEW i \in 1..k  PROVE c[i] = text[i]
      <3>1. i \in 1..k + Len(b) /\ i <= k
        BY <1>3, <2>1
      <3> QED
        BY <2>2, <3>1
    <2>4. ASSUME NEW i \in 1..Len(b)  PROVE c[k + i] = b[i]
      <3>1. k + i \in 1..k + Len(b) /\ ~(k + i <= k) /\ (k + i) - k = i
        BY <1>3, <2>1
      <3> QED
        BY <2>2, <3>1
    <2> QED
      BY <2>1, <2>2, <2>3, <2>4 DEF c, k
  <1> HIDE DEF text
  <1>8. ASSUME NEW f \in TagFiles
        PROVE  /\ Len(G(f)) = n + 1 /\ \A i \in 1..n : G(f)[i] = H(f)[i]
    <2>1. \E x : G(f) = Append(H(f), x)
      BY <1>2, TagFilesAre, Zenon
    <2>2. PICK x : G(f) = Append(H(f), x)
      BY <2>1
    <2> DEFINE h == H(f)
               g == G(f)
    <2>3. IsSeq(h) /\ Len(h) = n /\ g = Append(h, x)
      BY <1>1, <1>4, <2>2
    <2> HIDE DEF h, g
    <2>4. Len(g) = n + 1 /\ \A i \in 1..n : g[i] = h[i]
      BY <2>3, AppendIs
    <2> QED
      BY <2>4 DEF h, g
  <1>9. /\ G("tag_text")[n + 1] = b /\ G("tag_offset")[n + 1] = off
        /\ G("pre_offset")[n + 1] = off /\ G("tag_index")[n + 1] = n - 1
    <2>1. ASSUME NEW f \in TagFiles, NEW x, G(f) = Append(H(f), x)
          PROVE  G(f)[n + 1] = x
      <3> DEFINE h == H(f)
                 g == G(f)
      <3>1. IsSeq(h) /\ Len(h) = n /\ g = Append(h, x)
        BY <1>1, <1>4, <2>1
      <3> HIDE DEF h, g
      <3>2. g[n + 1] = x
        BY <3>1, AppendIs
      <3> QED
        BY <3>2 DEF g
    <2> HIDE DEF G, H
    <2>2. G("tag_text")[n + 1] = b
      BY <1>2, <2>1, TagFilesAre
    <2>3. G("tag_offset")[n + 1] = off
      BY <1>2, <2>1, TagFilesAre
    <2>4. G("pre_offset")[n + 1] = off
      BY <1>2, <2>1, TagFilesAre
    <2>5. G("tag_index")[n + 1] = n - 1
      BY <1>2, <2>1, TagFilesAre
    <2> QED
      BY <2>2, <2>3, <2>4, <2>5
  <1>10. ASSUME NEW i \in 1..n + 1
         PROVE  TagAt(gs, i)
    <2>1. CASE i = n + 1
      <3>1. /\ off \in Nat /\ off + Len(b) <= Len(text \o b)
            /\ \A j \in 1..Len(b) : (text \o b)[off + j] = b[j]
        BY <1>1, <1>3, <1>7
      <3>2. n - 1 = (n + 1) - 2
        BY <1>1
      <3>3. /\ Held(gs["tag_offset"])[i] = off /\ Held(gs["tag_text"])[i] = b
            /\ Held(gs["pre_offset"])[i] = off /\ Held(gs["tag_index"])[i] = i - 2
            /\ FlattenSeq(Held(gs["tag_text"])) = text \o b
        BY <1>6, <1>9, <2>1, <3>2
      <3> QED
        BY <1>3, <3>1, <3>3 DEF TagAt
    <2>2. CASE i # n + 1
      <3>1. i \in 1..n
        BY <1>1, <2>2
      <3> DEFINE at == H("tag_offset")[i]
                 s == H("tag_text")[i]
      <3>2. /\ at \in Nat /\ IsSeq(s) /\ at + Len(s) <= Len(text)
            /\ \A j \in 1..Len(s) : text[at + j] = s[j]
            /\ H("pre_offset")[i] = at /\ H("tag_index")[i] = i - 2
        BY <1>1, <3>1 DEF TagAt, text
      <3>3. /\ G("tag_offset")[i] = at /\ G("tag_text")[i] = s
            /\ G("pre_offset")[i] = at /\ G("tag_index")[i] = i - 2
        BY <1>8, <3>1, <3>2, TagFilesAre
      <3>4. Len(s) \in Nat
        BY <3>2, SeqFacts
      <3> HIDE DEF at, s, G, H
      <3>5. at + Len(s) <= Len(text \o b)
        BY <1>3, <1>7, <3>2, <3>4
      <3>6. \A j \in 1..Len(s) : (text \o b)[at + j] = s[j]
        <4> TAKE j \in 1..Len(s)
        <4>1. at + j \in 1..Len(text)
          BY <1>7, <3>2, <3>4
        <4> QED
          BY <1>7, <3>2, <4>1
      <3> QED
        BY <1>6, <3>2, <3>3, <3>5, <3>6 DEF TagAt, G
    <2> QED
      BY <2>1, <2>2
  <1>11. off + Len(b) = Len(FlattenSeq(G("tag_text")))
    BY <1>1, <1>6, <1>7
  <1>12. n + 1 \in Nat /\ Len(G("map_points")) = Len(G("map_data"))
    BY <1>1, <1>2
  <1> QED
    BY <1>2, <1>8, <1>10, <1>11, <1>12, Zenon DEF Agree

(* One point more, or the same files with nothing in the buffers.           *)
LEMMA AgreeSame ==
  ASSUME NEW fs, NEW n, NEW off, Agree(fs, n, off), NEW gs, AreFiles(gs),
         \A f \in TagFiles : Held(gs[f]) = Held(fs[f]),
         Len(Held(gs["map_points"])) = Len(Held(gs["map_data"]))
  PROVE  Agree(gs, n, off)
  <1>1. \A i \in 1..n : TagAt(gs, i)
    <2> TAKE i \in 1..n
    <2>1. TagAt(fs, i)
      BY DEF Agree
    <2>2. /\ Held(gs["tag_offset"]) = Held(fs["tag_offset"])
          /\ Held(gs["tag_text"]) = Held(fs["tag_text"])
          /\ Held(gs["pre_offset"]) = Held(fs["pre_offset"])
          /\ Held(gs["tag_index"]) = Held(fs["tag_index"])
      BY TagFilesAre
    <2> QED
      BY <2>1, <2>2 DEF TagAt
  <1>2. /\ n \in Nat /\ \A f \in TagFiles : Len(Held(gs[f])) = n
        /\ off = Len(FlattenSeq(Held(gs["tag_text"])))
    BY TagFilesAre DEF Agree
  <1> QED
    BY <1>1, <1>2 DEF Agree

(* At first no file has a record.                                           *)
LEMMA AgreeEmpty ==
  ASSUME NEW fs, fs = [f \in Files |-> EmptyFile]
  PROVE  Agree(fs, 0, 0) /\ \A f \in Files : Held(fs[f]) = <<>>
  <1>1. /\ EmptyFile.pending = <<>> /\ EmptyFile.stored = <<>> /\ ~EmptyFile.broken
        /\ DOMAIN EmptyFile = {"pending", "stored", "broken"}
    BY DEF EmptyFile
  <1>2. IsSeq(<<>>) /\ <<>> \o <<>> = <<>> /\ Len(<<>>) = 0 /\ FlattenSeq(<<>>) = <<>>
    <2>1. <<>> \in Seq({}) /\ Len(<<>>) = 0
      OBVIOUS
    <2>2. FlattenSeq(<<>>) = <<>>
      BY <2>1, FlattenNone
    <2> QED
      BY <2>1, <2>2, ConcatNothing DEF IsSeq
  <1>3. IsFile(EmptyFile) /\ Held(EmptyFile) = <<>>
    BY <1>1, <1>2, Zenon DEF IsFile, Held
  <1>4. AreFiles(fs) /\ \A f \in Files : Held(fs[f]) = <<>>
    BY <1>3 DEF AreFiles
  <1>5. \A i : i \notin 1..0
    OBVIOUS
  <1>6. \A f \in TagFiles : Len(Held(fs[f])) = 0
    BY <1>2, <1>4, TagFilesAre
  <1>7. /\ Len(Held(fs["map_points"])) = Len(Held(fs["map_data"]))
        /\ 0 = Len(FlattenSeq(Held(fs["tag_text"])))
    BY <1>2, <1>4, TagFilesAre
  <1> QED
    BY <1>4, <1>5, <1>6, <1>7 DEF Agree

(* One point more in the files leaves the tags as they are.                 *)
LEMMA AgreePoint ==
  ASSUME NEW fs, NEW n, NEW off, Agree(fs, n, off), NEW point, NEW gs, PointWrote(gs, fs, point)
  PROVE  Agree(gs, n, off)
  <1>1. AreFiles(fs) /\ Len(Held(fs["map_points"])) = Len(Held(fs["map_data"]))
    BY DEF Agree
  <1>2. IsSeq(Held(fs["map_points"])) /\ IsSeq(Held(fs["map_data"]))
    BY <1>1, HeldType, TagFilesAre
  <1>3. /\ AreFiles(gs) /\ \A f \in TagFiles : Held(gs[f]) = Held(fs[f])
        /\ Held(gs["map_points"]) = Append(Held(fs["map_points"]), point)
        /\ Held(gs["map_data"]) = Append(Held(fs["map_data"]), <<0, 0, 0>>)
    BY Zenon DEF PointWrote, Wrote, Kept
  <1>4. Len(Held(gs["map_points"])) = Len(Held(fs["map_points"])) + 1
    <2> DEFINE h == Held(fs["map_points"])
    <2>1. IsSeq(h)
      BY <1>2
    <2> HIDE DEF h
    <2>2. Len(Append(h, point)) = Len(h) + 1
      BY <2>1, AppendIs
    <2> QED
      BY <1>3, <2>2 DEF h
  <1>5. Len(Held(gs["map_data"])) = Len(Held(fs["map_data"])) + 1
    <2> DEFINE h == Held(fs["map_data"])
    <2>1. IsSeq(h)
      BY <1>2
    <2> HIDE DEF h
    <2>2. Len(Append(h, <<0, 0, 0>>)) = Len(h) + 1
      BY <2>1, AppendIs
    <2> QED
      BY <1>3, <2>2 DEF h
  <1>6. Len(Held(gs["map_points"])) = Len(Held(gs["map_data"]))
    BY <1>1, <1>4, <1>5
  <1> QED
    BY <1>3, <1>6, AgreeSame

-----------------------------------------------------------------------------
(* The records of the features. *)

(* Those of a sequence that are in C.                                       *)
Picked(os, C) == FlattenSeq([i \in DOMAIN os |-> IF os[i] \in C THEN <<os[i]>> ELSE <<>>])

(* Of nothing, none is; and one more is picked if it is in C.               *)
LEMMA PickedIs ==
  ASSUME NEW C, NEW os, IsSeq(os), NEW o
  PROVE  /\ Picked(<<>>, C) = <<>>
         /\ IsSeq(Picked(os, C))
         /\ o \in C => Picked(Append(os, o), C) = Append(Picked(os, C), o)
         /\ o \notin C => Picked(Append(os, o), C) = Picked(os, C)
  <1> DEFINE one(x) == IF x \in C THEN <<x>> ELSE <<>>
             h == [i \in DOMAIN os |-> one(os[i])]
             k == Append(os, o)
             n == Len(os)
             g == [i \in DOMAIN k |-> one(k[i])]
  <1>1. \A x : IsSeq(one(x))
    <2> TAKE x
    <2>1. <<x>> \in Seq({x}) /\ <<>> \in Seq({x})
      OBVIOUS
    <2> QED
      BY <2>1 DEF IsSeq
  <1>2. n \in Nat /\ DOMAIN os = 1..n
    BY SeqFacts
  <1>3. /\ IsSeq(k) /\ Len(k) = n + 1 /\ k[n + 1] = o /\ \A i \in 1..n : k[i] = os[i]
    BY AppendIs
  <1>4. DOMAIN k = 1..n + 1
    BY <1>3, SeqFacts
  <1> HIDE DEF n, k, one
  <1>5. /\ h = [i \in 1..n |-> one(os[i])] /\ Len(h) = n /\ \A i \in 1..n : IsSeq(h[i])
    <2>1. h = [i \in 1..n |-> one(os[i])]
      BY <1>2
    <2>2. Len(h) = n
      BY <1>2, <2>1
    <2> QED
      BY <1>1, <2>1, <2>2
  <1>6. IsSeq(h)
    <2>1. h \in Seq({one(os[i]) : i \in 1..n})
      BY <1>2, <1>5
    <2> QED
      BY <2>1 DEF IsSeq
  <1>7. g = Append(h, one(o))
    <2> DEFINE a == Append(h, one(o))
    <2>1. /\ IsSeq(a) /\ Len(a) = n + 1 /\ a[n + 1] = one(o) /\ \A i \in 1..n : a[i] = h[i]
      <3> DEFINE x == one(o)
      <3>1. IsSeq(h) /\ Len(h) = n
        BY <1>5, <1>6
      <3> HIDE DEF h, x
      <3>2. /\ IsSeq(Append(h, x)) /\ Len(Append(h, x)) = n + 1
            /\ Append(h, x)[n + 1] = x /\ \A i \in 1..n : Append(h, x)[i] = h[i]
        BY <3>1, AppendIs
      <3> QED
        BY <3>2 DEF x
    <2>2. a = [i \in 1..n + 1 |-> a[i]]
      <3> HIDE DEF a
      <3> QED
        BY <2>1, SeqFacts
    <2> HIDE DEF a
    <2>3. g = [i \in 1..n + 1 |-> one(k[i])]
      BY <1>4
    <2>4. \A i \in 1..n + 1 : one(k[i]) = a[i]
      <3> TAKE i \in 1..n + 1
      <3>1. i \in 1..n \/ i = n + 1
        BY <1>2
      <3> QED
        BY <1>3, <1>5, <2>1, <3>1
    <2> QED
      BY <2>2, <2>3, <2>4 DEF a
  <1> HIDE DEF h, g
  <1>8. FlattenSeq(g) = FlattenSeq(h) \o one(o) /\ IsSeq(FlattenSeq(h))
    <2>1. IsSeq(one(o)) /\ \A i \in 1..Len(h) : IsSeq(h[i])
      BY <1>1, <1>5
    <2>2. FlattenSeq(Append(h, one(o))) = FlattenSeq(h) \o one(o) /\ IsSeq(FlattenSeq(h))
      BY <1>6, <2>1, FlattenAppend
    <2> QED
      BY <1>7, <2>2
  <1>9. Picked(os, C) = FlattenSeq(h) /\ Picked(Append(os, o), C) = FlattenSeq(g)
    BY Zenon DEF Picked, h, g, k, one
  <1>10. Picked(<<>>, C) = <<>>
    <2> DEFINE e == <<>>
    <2>1. [i \in DOMAIN e |-> IF e[i] \in C THEN <<e[i]>> ELSE <<>>] = <<>>
      OBVIOUS
    <2>2. <<>> \in Seq({}) /\ Len(<<>>) = 0
      OBVIOUS
    <2>3. FlattenSeq(<<>>) = <<>>
      BY <2>2, FlattenNone
    <2> QED
      BY <2>1, <2>3 DEF Picked
  <1>11. CASE o \in C
    <2>1. one(o) = <<o>>
      BY <1>11 DEF one
    <2>2. Append(FlattenSeq(h), o) = FlattenSeq(h) \o <<o>>
      BY <1>8, AppendLast
    <2> QED
      BY <1>8, <1>9, <1>10, <1>11, <2>1, <2>2
  <1>12. CASE o \notin C
    <2>1. one(o) = <<>>
      BY <1>12 DEF one
    <2>2. FlattenSeq(h) \o <<>> = FlattenSeq(h)
      BY <1>8, ConcatNothing
    <2> QED
      BY <1>8, <1>9, <1>10, <1>12, <2>1, <2>2
  <1> QED
    BY <1>11, <1>12

Place(o) == <<o.latitude * 60, -60 * o.longitude>>

(* The files hold the records of os: of those in T in the files of tags,    *)
(* behind the first record, if there is one, and of those in P in the map.  *)
Contents(fs, first, os, T, P) ==
    /\ first \in {0, 1} /\ IsSeq(os)
    /\ first = 1 => Held(fs["tag_text"])[1] = Bytes(FailText)
    /\ Len(Held(fs["tag_text"])) = first + Len(Picked(os, T))
    /\ Len(Held(fs["tag_points"])) = first + Len(Picked(os, T))
    /\ \A i \in 1..Len(Picked(os, T)) :
          /\ Held(fs["tag_text"])[first + i] = Bytes(Picked(os, T)[i].named.text)
          /\ Held(fs["tag_points"])[first + i] = Place(Picked(os, T)[i])
    /\ Len(Held(fs["map_points"])) = Len(Picked(os, P))
    /\ \A i \in 1..Len(Picked(os, P)) : Held(fs["map_points"])[i] = Place(Picked(os, P)[i])

(* A feature that is a tag.                                                 *)
LEMMA ContentsTag ==
  ASSUME NEW fs, AreFiles(fs), NEW first, NEW os, NEW T, NEW P, Contents(fs, first, os, T, P),
         NEW o, o \in T, o \notin P, NEW off, NEW index, NEW gs,
         TagWrote(gs, fs, off, Bytes(o.named.text), Place(o), index)
  PROVE  Contents(gs, first, Append(os, o), T, P)
  <1> DEFINE ht == Held(fs["tag_text"])
             hp == Held(fs["tag_points"])
             gt == Held(gs["tag_text"])
             gp == Held(gs["tag_points"])
             tags == Picked(os, T)
             more == Picked(Append(os, o), T)
  <1>1. /\ gt = Append(ht, Bytes(o.named.text)) /\ gp = Append(hp, Place(o))
        /\ Held(gs["map_points"]) = Held(fs["map_points"])
    BY Zenon DEF TagWrote, Wrote, Kept
  <1>2. IsSeq(ht) /\ IsSeq(hp)
    BY HeldType, TagFilesAre
  <1>3. /\ first \in {0, 1} /\ IsSeq(os) /\ (first = 1 => ht[1] = Bytes(FailText))
        /\ Len(ht) = first + Len(tags) /\ Len(hp) = first + Len(tags)
        /\ \A i \in 1..Len(tags) :
             ht[first + i] = Bytes(tags[i].named.text) /\ hp[first + i] = Place(tags[i])
        /\ Len(Held(fs["map_points"])) = Len(Picked(os, P))
        /\ \A i \in 1..Len(Picked(os, P)) : Held(fs["map_points"])[i] = Place(Picked(os, P)[i])
    BY DEF Contents
  <1>4. /\ IsSeq(tags) /\ more = Append(tags, o) /\ Picked(Append(os, o), P) = Picked(os, P)
    BY <1>3, PickedIs
  <1>5. IsSeq(Append(os, o))
    BY <1>3, AppendIs
  <1> HIDE DEF ht, hp, gt, gp, tags, more
  <1>6. /\ Len(more) = Len(tags) + 1 /\ Len(tags) \in Nat /\ more[Len(tags) + 1] = o
        /\ \A i \in 1..Len(tags) : more[i] = tags[i]
    BY <1>4, AppendIs
  <1>7. /\ Len(gt) = Len(ht) + 1 /\ gt[Len(ht) + 1] = Bytes(o.named.text)
        /\ \A i \in 1..Len(ht) : gt[i] = ht[i]
    BY <1>1, <1>2, AppendIs
  <1>8. /\ Len(gp) = Len(hp) + 1 /\ gp[Len(hp) + 1] = Place(o)
        /\ \A i \in 1..Len(hp) : gp[i] = hp[i]
    BY <1>1, <1>2, AppendIs
  <1>9. ASSUME NEW i \in 1..Len(more)
        PROVE  gt[first + i] = Bytes(more[i].named.text) /\ gp[first + i] = Place(more[i])
    <2>1. CASE i = Len(tags) + 1
      <3>1. first + i = Len(ht) + 1 /\ first + i = Len(hp) + 1
        BY <1>3, <1>6, <2>1
      <3>2. more[i] = o
        BY <1>6, <2>1
      <3> QED
        BY <1>7, <1>8, <3>1, <3>2
    <2>2. CASE i # Len(tags) + 1
      <3>1. i \in 1..Len(tags)
        BY <1>6, <2>2
      <3>2. first + i \in 1..Len(ht) /\ first + i \in 1..Len(hp)
        BY <1>3, <1>6, <3>1
      <3> QED
        BY <1>3, <1>6, <1>7, <1>8, <3>1, <3>2
    <2> QED
      BY <2>1, <2>2
  <1>10. first = 1 => gt[1] = Bytes(FailText)
    <2>1. first = 1 => 1 \in 1..Len(ht)
      BY <1>3, <1>6
    <2> QED
      BY <1>3, <1>7, <2>1
  <1>11. Len(gt) = first + Len(more) /\ Len(gp) = first + Len(more)
    BY <1>3, <1>6, <1>7, <1>8
  <1>12. /\ Len(Held(gs["map_points"])) = Len(Picked(Append(os, o), P))
         /\ \A i \in 1..Len(Picked(Append(os, o), P)) :
              Held(gs["map_points"])[i] = Place(Picked(Append(os, o), P)[i])
    BY <1>1, <1>3, <1>4
  <1> QED
    BY <1>3, <1>5, <1>9, <1>10, <1>11, <1>12, Zenon DEF Contents, gt, gp, more

(* A feature that is a point of the map.                                    *)
LEMMA ContentsPoint ==
  ASSUME NEW fs, AreFiles(fs), NEW first, NEW os, NEW T, NEW P, Contents(fs, first, os, T, P),
         NEW o, o \in P, o \notin T, NEW gs, PointWrote(gs, fs, Place(o))
  PROVE  Contents(gs, first, Append(os, o), T, P)
  <1> DEFINE hm == Held(fs["map_points"])
             gm == Held(gs["map_points"])
             points == Picked(os, P)
             more == Picked(Append(os, o), P)
  <1>1. /\ gm = Append(hm, Place(o)) /\ Held(gs["tag_text"]) = Held(fs["tag_text"])
        /\ Held(gs["tag_points"]) = Held(fs["tag_points"])
    <2>1. "tag_text" \in TagFiles /\ "tag_points" \in TagFiles
      BY TagFilesAre
    <2> QED
      BY <2>1, Zenon DEF PointWrote, Wrote, Kept
  <1>2. IsSeq(hm)
    BY HeldType, TagFilesAre
  <1>3. /\ IsSeq(os) /\ Len(hm) = Len(points)
        /\ \A i \in 1..Len(points) : hm[i] = Place(points[i])
    BY DEF Contents
  <1>4. /\ IsSeq(points) /\ more = Append(points, o) /\ Picked(Append(os, o), T) = Picked(os, T)
    BY <1>3, PickedIs
  <1>5. IsSeq(Append(os, o))
    BY <1>3, AppendIs
  <1> HIDE DEF hm, gm, points, more
  <1>6. /\ Len(more) = Len(points) + 1 /\ Len(points) \in Nat /\ more[Len(points) + 1] = o
        /\ \A i \in 1..Len(points) : more[i] = points[i]
    BY <1>4, AppendIs
  <1>7. /\ Len(gm) = Len(hm) + 1 /\ gm[Len(hm) + 1] = Place(o)
        /\ \A i \in 1..Len(hm) : gm[i] = hm[i]
    BY <1>1, <1>2, AppendIs
  <1>8. ASSUME NEW i \in 1..Len(more)  PROVE gm[i] = Place(more[i])
    <2>1. CASE i = Len(points) + 1
      BY <1>3, <1>6, <1>7, <2>1
    <2>2. CASE i # Len(points) + 1
      <3>1. i \in 1..Len(points)
        BY <1>6, <2>2
      <3> QED
        BY <1>3, <1>6, <1>7, <3>1
    <2> QED
      BY <2>1, <2>2
  <1>9. Len(gm) = Len(more)
    BY <1>3, <1>6, <1>7
  <1>10. /\ first \in {0, 1} /\ (first = 1 => Held(gs["tag_text"])[1] = Bytes(FailText))
         /\ Len(Held(gs["tag_text"])) = first + Len(Picked(Append(os, o), T))
         /\ Len(Held(gs["tag_points"])) = first + Len(Picked(Append(os, o), T))
         /\ \A i \in 1..Len(Picked(Append(os, o), T)) :
              /\ Held(gs["tag_text"])[first + i] = Bytes(Picked(Append(os, o), T)[i].named.text)
              /\ Held(gs["tag_points"])[first + i] = Place(Picked(Append(os, o), T)[i])
    BY <1>1, <1>4, Zenon DEF Contents
  <1> QED
    BY <1>5, <1>8, <1>9, <1>10, Zenon DEF Contents, gm, more

(* A feature that no file has a record of, or the same files.               *)
LEMMA ContentsSame ==
  ASSUME NEW fs, NEW first, NEW os, NEW T, NEW P, Contents(fs, first, os, T, P), NEW gs,
         \A f \in Files : Held(gs[f]) = Held(fs[f])
  PROVE  /\ Contents(gs, first, os, T, P)
         /\ \A o : o \notin T /\ o \notin P => Contents(gs, first, Append(os, o), T, P)
  <1>1. /\ Held(gs["tag_text"]) = Held(fs["tag_text"])
        /\ Held(gs["tag_points"]) = Held(fs["tag_points"])
        /\ Held(gs["map_points"]) = Held(fs["map_points"])
    BY TagFilesAre
  <1>2. Contents(gs, first, os, T, P)
    BY <1>1, Zenon DEF Contents
  <1>3. ASSUME NEW o, o \notin T, o \notin P
        PROVE  Contents(gs, first, Append(os, o), T, P)
    <2>1. IsSeq(os)
      BY DEF Contents
    <2>2. IsSeq(Append(os, o))
      BY <2>1, AppendIs
    <2>3. Picked(Append(os, o), T) = Picked(os, T) /\ Picked(Append(os, o), P) = Picked(os, P)
      BY <1>3, <2>1, PickedIs
    <2> QED
      BY <1>2, <2>2, <2>3, Zenon DEF Contents
  <1> QED
    BY <1>2, <1>3

-----------------------------------------------------------------------------
(* What is read. *)

ValueOK(v) == IsObject(v) /\ IsArray(v) /\ (v.kind = "object" => IsArray(v.features))

InputOK(in) ==
    /\ IsSeq(in.values) /\ in.limit \in Int /\ in.limit >= -1
    /\ in.mode \in {"all", "points", "tags"}
    /\ \A i \in 1..Len(in.values) : ValueOK(in.values[i])

(* What is listed is a sequence.                                            *)
LEMMA ListedSeq ==
  ASSUME NEW s, Listed(s)
  PROVE  IsSeq(s) /\ \A i \in 1..Len(s) : s[i] \in ToSet(s)
  <1>1. IsSeq(s)
    BY DEF Listed, IsSeq
  <1>2. DOMAIN s = 1..Len(s)
    BY <1>1, SeqFacts
  <1> QED
    BY <1>1, <1>2 DEF ToSet

(* The elements of an array are objects, or nothing that is read.           *)
LEMMA ArrayIs ==
  ASSUME NEW a, IsArray(a), a.kind = "array"
  PROVE  IsSeq(a.elements) /\ \A i \in 1..Len(a.elements) : IsObject(a.elements[i])
  BY ListedSeq DEF IsArray

(* The inputs, and what is read of a program that does not read.            *)
LEMMA InputIs ==
  /\ \A in \in FileInputs : InputOK(in)
  /\ InputOK([values |-> <<>>, limit |-> -1, mode |-> "all"])
  <1>1. ASSUME NEW in \in FileInputs  PROVE InputOK(in)
    <2>1. /\ Listed(in.values) /\ in.limit \in Int /\ in.limit >= -1
          /\ in.mode \in {"all", "points", "tags"}
          /\ \A v \in ToSet(in.values) : ValueOK(v)
      BY EntiretyAssumption, Zenon DEF ValueOK
    <2>2. IsSeq(in.values) /\ \A i \in 1..Len(in.values) : in.values[i] \in ToSet(in.values)
      BY <2>1, ListedSeq
    <2> QED
      BY <2>1, <2>2 DEF InputOK
  <1>2. InputOK([values |-> <<>>, limit |-> -1, mode |-> "all"])
    <2> DEFINE in == [values |-> <<>>, limit |-> -1, mode |-> "all"]
    <2>1. in.values = <<>> /\ in.limit = -1 /\ in.mode = "all"
      OBVIOUS
    <2>2. IsSeq(<<>>) /\ Len(<<>>) = 0 /\ -1 \in Int /\ -1 >= -1
      <3>1. <<>> \in Seq({})
        OBVIOUS
      <3> QED
        BY <3>1 DEF IsSeq
    <2>3. \A i : i \notin 1..0
      OBVIOUS
    <2> HIDE DEF in
    <2>4. InputOK(in)
      BY <2>1, <2>2, <2>3 DEF InputOK
    <2> QED
      BY <2>4 DEF in
  <1> QED
    BY <1>1, <1>2

-----------------------------------------------------------------------------
(* The features of what is sound. *)

Lists(vs) == [i \in DOMAIN vs |-> FeaturesOf(vs[i])]
SoundTo(vs, k) == \A i \in 1..k : SoundValue(vs[i])
SoundInput(in) == in.values # <<>> /\ \A i \in DOMAIN in.values : SoundValue(in.values[i])
All(vs) == FlattenSeq(Lists(vs))

(* The features of a value that is sound are a sequence.                    *)
LEMMA ListType ==
  ASSUME NEW v, ValueOK(v), SoundValue(v)
  PROVE  IsSeq(FeaturesOf(v))
  <1>1. CASE SoundFeatures(v)
    <2>1. v.kind = "array"
      BY <1>1 DEF SoundFeatures
    <2> QED
      BY <2>1, ArrayIs DEF ValueOK, FeaturesOf
  <1>2. CASE SoundFeature(v)
    <2>1. v.kind = "object" /\ v.type = "Feature"
      BY <1>2 DEF SoundFeature
    <2>2. FeaturesOf(v) = <<v>>
      BY <2>1 DEF FeaturesOf
    <2>3. <<v>> \in Seq({v})
      OBVIOUS
    <2> QED
      BY <2>2, <2>3 DEF IsSeq
  <1>3. CASE v.kind = "object" /\ v.type = "FeatureCollection" /\ SoundFeatures(v.features)
    <2>1. v.features.kind = "array"
      BY <1>3 DEF SoundFeatures
    <2>2. IsArray(v.features)
      BY <1>3 DEF ValueOK
    <2>3. FeaturesOf(v) = v.features.elements
      BY <1>3 DEF FeaturesOf
    <2> QED
      BY <2>1, <2>2, <2>3, ArrayIs
  <1> QED
    BY <1>1, <1>2, <1>3 DEF SoundValue

(* What is known of the lists of the first values, when those are sound.    *)
LEMMA ListsAre ==
  ASSUME NEW in, InputOK(in), NEW k \in 0..Len(in.values), SoundTo(in.values, k)
  PROVE  /\ \A i \in 1..k : /\ Lists(in.values)[i] = FeaturesOf(in.values[i])
                            /\ IsSeq(Lists(in.values)[i])
         /\ IsSeq(Flat(Lists(in.values), k))
         /\ Len(Flat(Lists(in.values), k)) \in Nat
  <1> DEFINE vs == in.values
  <1>1. IsSeq(vs) /\ \A i \in 1..Len(vs) : ValueOK(vs[i])
    BY DEF InputOK
  <1>2. Len(vs) \in Nat /\ DOMAIN vs = 1..Len(vs)
    BY <1>1, SeqFacts
  <1>3. \A i \in 1..k : i \in 1..Len(vs)
    BY <1>2
  <1>4. \A i \in 1..k : Lists(vs)[i] = FeaturesOf(vs[i])
    BY <1>2, <1>3 DEF Lists
  <1>5. \A i \in 1..k : IsSeq(Lists(vs)[i])
    BY <1>1, <1>3, <1>4, ListType DEF SoundTo
  <1>6. IsSeq(Flat(Lists(vs), k))
    <2>1. k \in Nat
      BY <1>2
    <2> QED
      BY <1>5, <2>1, FlatType
  <1> QED
    BY <1>4, <1>5, <1>6, SeqFacts

(* One value more that is sound.                                            *)
LEMMA ListsMore ==
  ASSUME NEW in, InputOK(in), NEW k \in 1..Len(in.values), SoundTo(in.values, k - 1),
         SoundValue(in.values[k])
  PROVE  /\ SoundTo(in.values, k)
         /\ Len(Flat(Lists(in.values), k))
              = Len(Flat(Lists(in.values), k - 1)) + Len(FeaturesOf(in.values[k]))
         /\ IsSeq(FeaturesOf(in.values[k]))
         /\ Flat(Lists(in.values), k) = Flat(Lists(in.values), k - 1) \o FeaturesOf(in.values[k])
  <1> DEFINE vs == in.values
             j == k - 1
  <1>1. Len(vs) \in Nat
    BY SeqFacts DEF InputOK
  <1>2. j \in 0..Len(vs) /\ k \in 0..Len(vs) /\ j \in Nat /\ j + 1 = k /\ k \in 1..k
    BY <1>1
  <1>3. SoundTo(vs, k)
    <2>1. \A i \in 1..k : i \in 1..j \/ i = k
      BY <1>1
    <2> QED
      BY <2>1 DEF SoundTo
  <1>4. Lists(vs)[k] = FeaturesOf(vs[k]) /\ IsSeq(Lists(vs)[k])
    BY <1>2, <1>3, ListsAre
  <1>5. IsSeq(Flat(Lists(vs), j))
    BY <1>2, ListsAre
  <1> HIDE DEF j
  <1>6. Flat(Lists(vs), j + 1) = Flat(Lists(vs), j) \o Lists(vs)[j + 1]
    <2>1. IsSeq(Lists(vs)[j + 1])
      BY <1>2, <1>4
    <2> QED
      BY <1>2, <2>1, FlatMore
  <1>7. Flat(Lists(vs), k) = Flat(Lists(vs), j) \o FeaturesOf(vs[k])
    BY <1>2, <1>4, <1>6
  <1>8. Len(Flat(Lists(vs), k)) = Len(Flat(Lists(vs), j)) + Len(FeaturesOf(vs[k]))
    BY <1>4, <1>5, <1>7, ConcatSeq
  <1> QED
    BY <1>3, <1>4, <1>7, <1>8 DEF j

(* All features, of an input that is sound.                                 *)
LEMMA AllAre ==
  ASSUME NEW in, InputOK(in), SoundInput(in)
  PROVE  /\ SoundTo(in.values, Len(in.values)) /\ Len(in.values) \in Nat
         /\ All(in.values) = Flat(Lists(in.values), Len(in.values))
         /\ IsSeq(All(in.values)) /\ Len(All(in.values)) \in Nat
  <1> DEFINE vs == in.values
  <1>1. Len(vs) \in Nat /\ DOMAIN vs = 1..Len(vs)
    BY SeqFacts DEF InputOK
  <1>2. SoundTo(vs, Len(vs))
    BY <1>1 DEF SoundInput, SoundTo
  <1>3. All(vs) = Flat(Lists(vs), Len(vs))
    <2>1. [i \in 1..Len(vs) |-> Lists(vs)[i]] = Lists(vs)
      BY <1>1 DEF Lists
    <2> QED
      BY <2>1 DEF All, Flat
  <1>4. Len(vs) \in 0..Len(vs)
    BY <1>1
  <1> QED
    BY <1>1, <1>2, <1>3, <1>4, ListsAre

(* Where a feature is among all of them.                                    *)
LEMMA FeatureAt ==
  ASSUME NEW in, InputOK(in), SoundInput(in), NEW k \in 1..Len(in.values),
         NEW m \in Nat, NEW c, c = Len(Flat(Lists(in.values), k - 1)) + m
  PROVE  /\ m <= Len(FeaturesOf(in.values[k])) => c \in 0..Len(All(in.values))
         /\ m < Len(FeaturesOf(in.values[k])) =>
              /\ c + 1 \in 1..Len(All(in.values))
              /\ All(in.values)[c + 1] = FeaturesOf(in.values[k])[m + 1]
  <1> DEFINE vs == in.values
             n == Len(vs)
             a == Flat(Lists(vs), k - 1)
             b == FeaturesOf(vs[k])
             e == Flat(Lists(vs), k)
  <1>1. SoundTo(vs, n) /\ n \in Nat /\ All(vs) = Flat(Lists(vs), n)
    BY AllAre
  <1>2. /\ SoundTo(vs, k - 1) /\ SoundValue(vs[k]) /\ k - 1 \in 0..n /\ n \in 0..n /\ k \in 0..n
    <2>1. \A i \in 1..k - 1 : i \in 1..n
      BY <1>1
    <2> QED
      BY <1>1, <2>1 DEF SoundTo
  <1>3. IsSeq(b) /\ e = a \o b
    BY <1>2, ListsMore
  <1>4. IsSeq(a)
    BY <1>2, ListsAre
  <1>5. \A i \in 1..n : IsSeq(Lists(vs)[i])
    BY <1>1, <1>2, ListsAre
  <1>6. Begins(e, Flat(Lists(vs), n))
    BY <1>1, <1>2, <1>5, FlatBegins
  <1>7. PICK u : IsSeq(u) /\ All(vs) = e \o u
    BY <1>1, <1>6 DEF Begins
  <1> HIDE DEF n, a, b, e, vs
  <1>8. /\ IsSeq(e) /\ Len(e) = Len(a) + Len(b) /\ Len(a) \in Nat /\ Len(b) \in Nat
        /\ \A i \in 1..Len(a) + Len(b) : e[i] = IF i <= Len(a) THEN a[i] ELSE b[i - Len(a)]
    BY <1>3, <1>4, ConcatSeq, SeqFacts
  <1>9. /\ Len(All(vs)) = Len(e) + Len(u) /\ Len(e) \in Nat /\ Len(u) \in Nat
        /\ \A i \in 1..Len(e) + Len(u) : All(vs)[i] = IF i <= Len(e) THEN e[i] ELSE u[i - Len(e)]
    <2> DEFINE w == e \o u
    <2>1. IsSeq(e) /\ IsSeq(u) /\ All(vs) = w
      BY <1>7, <1>8
    <2>2. /\ Len(w) = Len(e) + Len(u)
          /\ \A i \in 1..Len(e) + Len(u) : w[i] = IF i <= Len(e) THEN e[i] ELSE u[i - Len(e)]
      BY <2>1, ConcatSeq
    <2>3. Len(e) \in Nat /\ Len(u) \in Nat
      BY <2>1, SeqFacts
    <2> HIDE DEF w
    <2> QED
      BY <2>1, <2>2, <2>3, Zenon
  <1>10. c = Len(a) + m
    BY DEF a, vs
  <1>11. m <= Len(b) => c \in 0..Len(All(vs))
    BY <1>8, <1>9, <1>10
  <1>12. ASSUME m < Len(b)
         PROVE  c + 1 \in 1..Len(All(vs)) /\ All(vs)[c + 1] = b[m + 1]
    <2>1. c + 1 \in 1..Len(All(vs)) /\ c + 1 \in 1..Len(e) + Len(u) /\ c + 1 <= Len(e)
          /\ c + 1 \in 1..Len(a) + Len(b) /\ ~(c + 1 <= Len(a)) /\ (c + 1) - Len(a) = m + 1
      BY <1>8, <1>9, <1>10, <1>12
    <2>2. All(vs)[c + 1] = e[c + 1]
      BY <1>9, <2>1
    <2>3. e[c + 1] = b[m + 1]
      BY <1>8, <2>1
    <2> QED
      BY <2>1, <2>2, <2>3
  <1> QED
    BY <1>11, <1>12 DEF b, vs

-----------------------------------------------------------------------------
(* An object in the course of being read. *)

FrameFields == {"object", "keys", "seen", "type", "streamed"}

Streams(fr) == fr.streamed

(* What it begins as, and what it becomes.                                  *)
NewFrame(o) == [object |-> o, keys |-> o.keys, seen |-> {}, type |-> "", streamed |-> FALSE]
Streaming(fr) == [fr EXCEPT !.streamed = TRUE]
Reading(fr, key) == [fr EXCEPT !.keys = Tail(@), !.seen = @ \union {key},
                               !.type = IF key = "type" THEN fr.object.type ELSE @]

(* What is known of it before its end.                                     *)
Frame(fr, o) ==
    /\ DOMAIN fr = FrameFields
    /\ fr.object = o /\ o.kind = "object" /\ IsRest(fr.keys, o.keys)
    /\ fr.seen = {o.keys[i] : i \in 1..Gone(fr.keys, o.keys)}
    /\ \A i, j \in 1..Gone(fr.keys, o.keys) : o.keys[i] = o.keys[j] => i = j
    /\ fr.type = IF "type" \in fr.seen THEN o.type ELSE ""
    /\ \A key \in fr.seen : Unsound(o, key) => key = "features" /\ Streams(fr)
    /\ Streams(fr) => fr.type = "FeatureCollection" /\ "features" \in fr.seen

(* It begins with none of its keys read.                                    *)
LEMMA FrameBegins ==
  ASSUME NEW o, IsObject(o), o.kind = "object", NEW fr, fr = NewFrame(o)
  PROVE  Frame(fr, o) /\ ~Streams(fr)
  <1>1. /\ DOMAIN fr = FrameFields /\ fr.object = o /\ fr.keys = o.keys /\ fr.seen = {}
        /\ fr.type = ""
    BY DEF FrameFields, NewFrame
  <1>2. ~Streams(fr)
    <2>1. fr.streamed = FALSE
      BY Zenon DEF NewFrame
    <2> QED
      BY <2>1, Zenon DEF Streams
  <1>3. IsSeq(o.keys)
    BY ListedSeq DEF IsObject
  <1>4. IsRest(o.keys, o.keys) /\ Gone(o.keys, o.keys) = 0
    BY <1>3, RestWhole
  <1>5. \A i : i \notin 1..0
    OBVIOUS
  <1>6. {o.keys[i] : i \in 1..0} = {}
    BY <1>5
  <1> QED
    BY <1>1, <1>2, <1>4, <1>5, <1>6, Zenon DEF Frame

(* The key that comes next.                                                 *)
LEMMA NextKey ==
  ASSUME NEW fr, NEW o, Frame(fr, o), fr.keys # <<>>
  PROVE  /\ Head(fr.keys) \in ToSet(o.keys)
         /\ Head(fr.keys) \in fr.seen => ~IsInjective(o.keys)
  <1> DEFINE g == Gone(fr.keys, o.keys)
             key == Head(fr.keys)
  <1>1. IsRest(fr.keys, o.keys) /\ fr.seen = {o.keys[i] : i \in 1..g}
    BY Zenon DEF Frame
  <1>2. /\ g \in Nat /\ g + 1 \in 1..Len(o.keys) /\ key = o.keys[g + 1]
        /\ DOMAIN o.keys = 1..Len(o.keys) /\ Len(o.keys) \in Nat
    BY <1>1, RestTail, RestBounds
  <1> HIDE DEF g, key
  <1>3. key \in ToSet(o.keys)
    BY <1>2 DEF ToSet
  <1>4. ASSUME key \in fr.seen  PROVE ~IsInjective(o.keys)
    <2>1. PICK i \in 1..g : o.keys[i] = key
      BY <1>1, <1>4
    <2>2. i \in 1..Len(o.keys) /\ i # g + 1
      BY <1>2
    <2> QED
      BY <1>2, <2>1, <2>2 DEF IsInjective
  <1> QED
    BY <1>3, <1>4 DEF key

(* One key more is read.                                                    *)
LEMMA FrameReads ==
  ASSUME NEW fr, NEW o, Frame(fr, o), fr.keys # <<>>, NEW key, key = Head(fr.keys),
         key \notin fr.seen, NEW rd, DOMAIN rd = FrameFields, rd.object = fr.object,
         rd.keys = Tail(fr.keys), rd.seen = fr.seen \union {key},
         rd.type = IF key = "type" THEN fr.object.type ELSE fr.type,
         Unsound(o, key) => key = "features" /\ Streams(rd),
         Streams(fr) => Streams(rd),
         Streams(rd) => rd.type = "FeatureCollection" /\ "features" \in rd.seen
  PROVE  Frame(rd, o)
  <1> DEFINE g == Gone(fr.keys, o.keys)
             h == Gone(rd.keys, o.keys)
  <1>1. /\ fr.object = o /\ o.kind = "object" /\ IsRest(fr.keys, o.keys)
        /\ fr.seen = {o.keys[i] : i \in 1..g}
        /\ \A i, j \in 1..g : o.keys[i] = o.keys[j] => i = j
        /\ fr.type = IF "type" \in fr.seen THEN o.type ELSE ""
    BY Zenon DEF Frame
  <1>2. /\ IsRest(rd.keys, o.keys) /\ h = g + 1 /\ g + 1 \in 1..Len(o.keys)
        /\ key = o.keys[g + 1] /\ g \in Nat
    <2>1. fr.keys # <<>> /\ IsRest(fr.keys, o.keys)
      BY <1>1
    <2>2. /\ IsRest(Tail(fr.keys), o.keys) /\ Gone(Tail(fr.keys), o.keys) = g + 1
          /\ g + 1 \in 1..Len(o.keys) /\ Head(fr.keys) = o.keys[g + 1]
      BY <2>1, RestTail
    <2>3. g \in Nat
      BY <2>1, RestBounds
    <2> HIDE DEF g
    <2> QED
      BY <2>2, <2>3
  <1> HIDE DEF g, h
  <1>3. \A i : i \in 1..g + 1 <=> i \in 1..g \/ i = g + 1
    BY <1>2
  <1>4. rd.seen = {o.keys[i] : i \in 1..h}
    <2>1. {o.keys[i] : i \in 1..g + 1} = {o.keys[i] : i \in 1..g} \union {o.keys[g + 1]}
      BY <1>3
    <2> QED
      BY <1>1, <1>2, <2>1
  <1>5. \A i, j \in 1..h : o.keys[i] = o.keys[j] => i = j
    <2>1. \A i \in 1..g : o.keys[i] # key
      BY <1>1
    <2>2. \A i, j \in 1..g + 1 : o.keys[i] = o.keys[j] => i = j
      <3>1. g \in Nat /\ o.keys[g + 1] = key
        BY <1>2
      <3>2. \A i, j \in 1..g : o.keys[i] = o.keys[j] => i = j
        BY <1>1
      <3> QED
        BY <2>1, <3>1, <3>2, OneMoreOnce
    <2> QED
      BY <1>2, <2>2
  <1>6. rd.type = IF "type" \in rd.seen THEN o.type ELSE ""
    BY <1>1
  <1>7. \A x \in rd.seen : Unsound(o, x) => x = "features" /\ Streams(rd)
    <2>1. \A x \in fr.seen : Unsound(o, x) => x = "features" /\ Streams(fr)
      BY Zenon DEF Frame
    <2>2. \A x \in rd.seen : x \in fr.seen \/ x = key
      OBVIOUS
    <2> QED
      BY <2>1, <2>2, Zenon
  <1> QED
    BY <1>1, <1>2, <1>4, <1>5, <1>6, <1>7, Zenon DEF Frame, g, h

(* The keys of a record that is changed by reading one.                     *)
LEMMA ReadFields ==
  ASSUME NEW fr, DOMAIN fr = FrameFields, NEW key, NEW rd, rd = Reading(fr, key)
  PROVE  /\ DOMAIN rd = FrameFields /\ rd.object = fr.object /\ rd.keys = Tail(fr.keys)
         /\ rd.seen = fr.seen \union {key}
         /\ rd.type = IF key = "type" THEN fr.object.type ELSE fr.type
         /\ Streams(rd) <=> Streams(fr)
  <1> DEFINE ty == IF key = "type" THEN fr.object.type ELSE fr.type
             sn == fr.seen \union {key}
             ks == Tail(fr.keys)
  <1>1. rd = [fr EXCEPT !.keys = ks, !.seen = sn, !.type = ty]
    BY Zenon DEF Reading
  <1> HIDE DEF ks, sn, ty
  <1>2. /\ DOMAIN rd = FrameFields /\ rd.object = fr.object /\ rd.keys = ks
        /\ rd.seen = sn /\ rd.type = ty /\ rd.streamed = fr.streamed
    BY <1>1 DEF FrameFields
  <1>3. Streams(rd) <=> Streams(fr)
    BY <1>2, Zenon DEF Streams
  <1> QED
    BY <1>2, <1>3, Zenon DEF ks, sn, ty

(* And of one whose features are being streamed.                            *)
LEMMA StreamFields ==
  ASSUME NEW fr, DOMAIN fr = FrameFields, NEW rd, rd = Streaming(fr)
  PROVE  /\ DOMAIN rd = FrameFields /\ rd.object = fr.object /\ rd.keys = fr.keys
         /\ rd.seen = fr.seen /\ rd.type = fr.type
         /\ Streams(rd)
  <1>1. /\ DOMAIN rd = FrameFields /\ rd.object = fr.object /\ rd.keys = fr.keys
        /\ rd.seen = fr.seen /\ rd.type = fr.type
    BY DEF FrameFields, Streaming
  <1>2. "streamed" \in DOMAIN fr
    BY DEF FrameFields
  <1>3. rd.streamed = TRUE
    BY <1>2, Zenon DEF Streaming
  <1> QED
    BY <1>1, <1>3, Zenon DEF Streams

(* A member that is decoded.                                                *)
LEMMA FrameMore ==
  ASSUME NEW fr, NEW o, Frame(fr, o), fr.keys # <<>>, NEW key, key = Head(fr.keys),
         key \notin fr.seen, ~Unsound(o, key), NEW rd, rd = Reading(fr, key)
  PROVE  Frame(rd, o) /\ (Streams(rd) <=> Streams(fr))
  <1>1. DOMAIN fr = FrameFields
    BY DEF Frame
  <1>2. /\ DOMAIN rd = FrameFields /\ rd.object = fr.object /\ rd.keys = Tail(fr.keys)
        /\ rd.seen = fr.seen \union {key}
        /\ rd.type = IF key = "type" THEN fr.object.type ELSE fr.type
        /\ Streams(rd) <=> Streams(fr)
    BY <1>1, ReadFields
  <1>3. Streams(fr) => fr.type = "FeatureCollection" /\ "features" \in fr.seen
    BY Zenon DEF Frame
  <1>4. fr.type = IF "type" \in fr.seen THEN o.type ELSE ""
    BY Zenon DEF Frame
  <1>5. Streams(rd) => rd.type = "FeatureCollection" /\ "features" \in rd.seen
    BY <1>2, <1>3, <1>4
  <1> QED
    BY <1>2, <1>5, FrameReads

(* The features of a collection that are streamed.                          *)
LEMMA FrameStreams ==
  ASSUME NEW fr, NEW o, Frame(fr, o), fr.keys # <<>>, "features" = Head(fr.keys),
         "features" \notin fr.seen, fr.type = "FeatureCollection",
         NEW rd, rd = Reading(fr, "features"), NEW st, st = Streaming(rd)
  PROVE  Frame(st, o) /\ Streams(st)
  <1>1. DOMAIN fr = FrameFields
    BY DEF Frame
  <1>2. /\ DOMAIN rd = FrameFields /\ rd.object = fr.object /\ rd.keys = Tail(fr.keys)
        /\ rd.seen = fr.seen \union {"features"}
        /\ rd.type = IF "features" = "type" THEN fr.object.type ELSE fr.type
    BY <1>1, ReadFields
  <1>3. /\ DOMAIN st = FrameFields /\ st.object = rd.object /\ st.keys = rd.keys
        /\ st.seen = rd.seen /\ st.type = rd.type
        /\ Streams(st)
    BY <1>2, StreamFields
  <1>4. /\ DOMAIN st = FrameFields /\ st.object = fr.object /\ st.keys = Tail(fr.keys)
        /\ st.seen = fr.seen \union {"features"}
        /\ st.type = IF "features" = "type" THEN fr.object.type ELSE fr.type
        /\ st.type = "FeatureCollection" /\ "features" \in st.seen
    BY <1>2, <1>3
  <1> QED
    BY <1>3, <1>4, FrameReads

(* A collection whose features were put off is streamed at its end.         *)
LEMMA FrameDefers ==
  ASSUME NEW fr, NEW o, Frame(fr, o), fr.type = "FeatureCollection", "features" \in fr.seen,
         NEW st, st = Streaming(fr)
  PROVE  Frame(st, o) /\ Streams(st) /\ st.keys = fr.keys
  <1>1. DOMAIN fr = FrameFields
    BY DEF Frame
  <1>2. /\ DOMAIN st = FrameFields /\ st.object = fr.object /\ st.keys = fr.keys
        /\ st.seen = fr.seen /\ st.type = fr.type
        /\ Streams(st)
    BY <1>1, StreamFields
  <1>3. /\ fr.object = o /\ o.kind = "object" /\ IsRest(fr.keys, o.keys)
        /\ fr.seen = {o.keys[i] : i \in 1..Gone(fr.keys, o.keys)}
        /\ \A i, j \in 1..Gone(fr.keys, o.keys) : o.keys[i] = o.keys[j] => i = j
        /\ fr.type = IF "type" \in fr.seen THEN o.type ELSE ""
        /\ \A key \in fr.seen : Unsound(o, key) => key = "features"
    BY Zenon DEF Frame
  <1> QED
    BY <1>2, <1>3, Zenon DEF Frame

(* What is known of an object at its end.                                   *)
LEMMA FrameEnds ==
  ASSUME NEW fr, NEW o, Frame(fr, o), fr.keys = <<>>
  PROVE  /\ fr.object = o /\ o.kind = "object"
         /\ fr.seen = ToSet(o.keys) /\ IsInjective(o.keys)
         /\ fr.type = IF Has(o, "type") THEN o.type ELSE ""
         /\ \A key \in ToSet(o.keys) : Unsound(o, key) => key = "features" /\ Streams(fr)
  <1>1. /\ fr.object = o /\ o.kind = "object" /\ IsRest(fr.keys, o.keys)
        /\ fr.seen = {o.keys[i] : i \in 1..Gone(fr.keys, o.keys)}
        /\ \A i, j \in 1..Gone(fr.keys, o.keys) : o.keys[i] = o.keys[j] => i = j
        /\ fr.type = IF "type" \in fr.seen THEN o.type ELSE ""
        /\ \A key \in fr.seen : Unsound(o, key) => key = "features" /\ Streams(fr)
    BY Zenon DEF Frame
  <1>2. Gone(fr.keys, o.keys) = Len(o.keys) /\ DOMAIN o.keys = 1..Len(o.keys)
    BY <1>1, RestBounds
  <1>3. fr.seen = ToSet(o.keys)
    BY <1>1, <1>2 DEF ToSet
  <1>4. IsInjective(o.keys)
    BY <1>1, <1>2 DEF IsInjective
  <1> QED
    BY <1>1, <1>3, <1>4, Zenon DEF Has

-----------------------------------------------------------------------------
(* The stack, while a value is read. *)

(* Short sequences.                                                         *)
LEMMA OneTwoThree ==
  /\ \A a : /\ Last(<<a>>) = a /\ Front(<<a>>) = <<>> /\ Len(<<a>>) = 1 /\ <<a>> # <<>>
            /\ Append(<<>>, a) = <<a>>
  /\ \A a, b : /\ Last(<<a, b>>) = b /\ Front(<<a, b>>) = <<a>> /\ Len(<<a, b>>) = 2
               /\ <<a, b>> # <<>> /\ Append(<<a>>, b) = <<a, b>> /\ <<>> \o <<a, b>> = <<a, b>>
  /\ \A a, b, c : /\ Last(<<a, b, c>>) = c /\ Front(<<a, b, c>>) = <<a, b>>
                  /\ Len(<<a, b, c>>) = 3 /\ <<a, b, c>> # <<>>
                  /\ Append(<<a, b>>, c) = <<a, b, c>>
  <1>1. ASSUME NEW a
        PROVE  /\ Last(<<a>>) = a /\ Front(<<a>>) = <<>> /\ Len(<<a>>) = 1 /\ <<a>> # <<>>
               /\ Append(<<>>, a) = <<a>>
    BY DEF Last, Front
  <1>2. ASSUME NEW s, NEW t, NEW S, s \in Seq(S), t \in Seq(S), Len(t) # 0,
               Len(s) = Len(t) - 1, \A i \in 1..Len(s) : s[i] = t[i]
        PROVE  Front(t) = s /\ Append(s, t[Len(t)]) = t
    <2> DEFINE n == Len(s)
               u == Append(s, t[Len(t)])
    <2>1. n \in Nat /\ Len(t) = n + 1 /\ Len(t) - 1 = n
      BY <1>2
    <2>2. IsSeq(s) /\ IsSeq(t)
      BY <1>2 DEF IsSeq
    <2>3. s = [i \in 1..n |-> s[i]] /\ t = [i \in 1..n + 1 |-> t[i]]
      BY <2>1, <2>2, SeqFacts
    <2>4. SubSeq(t, 1, n) = [i \in 1..n |-> t[i]]
      BY <2>1, FirstOnes
    <2>5. [i \in 1..n |-> t[i]] = [i \in 1..n |-> s[i]]
      BY <1>2
    <2>6. Front(t) = s
      BY <2>1, <2>3, <2>4, <2>5 DEF Front
    <2>7. /\ IsSeq(u) /\ Len(u) = n + 1 /\ u[n + 1] = t[n + 1]
          /\ \A i \in 1..n : u[i] = t[i]
      BY <1>2, <2>1, <2>2, AppendIs
    <2> HIDE DEF u
    <2>8. u = [i \in 1..n + 1 |-> u[i]]
      BY <2>7, SeqFacts
    <2>9. \A i \in 1..n + 1 : i \in 1..n \/ i = n + 1
      BY <2>1
    <2>10. \A i \in 1..n + 1 : u[i] = t[i]
      BY <2>7, <2>9
    <2>11. [i \in 1..n + 1 |-> u[i]] = [i \in 1..n + 1 |-> t[i]]
      BY <2>10
    <2> QED
      BY <2>3, <2>6, <2>8, <2>11 DEF u
  <1>3. ASSUME NEW a, NEW b
        PROVE  /\ Last(<<a, b>>) = b /\ Front(<<a, b>>) = <<a>> /\ Len(<<a, b>>) = 2
               /\ <<a, b>> # <<>> /\ Append(<<a>>, b) = <<a, b>> /\ <<>> \o <<a, b>> = <<a, b>>
    <2> DEFINE s == <<a>>
               t == <<a, b>>
    <2>1. /\ s \in Seq({a, b}) /\ t \in Seq({a, b}) /\ Len(s) = 1 /\ Len(t) = 2
          /\ s[1] = a /\ t[1] = a /\ t[2] = b
      OBVIOUS
    <2> HIDE DEF s, t
    <2>2. /\ Len(t) # 0 /\ Len(s) = Len(t) - 1 /\ \A i \in 1..Len(s) : s[i] = t[i]
      BY <2>1
    <2>3. Front(t) = s /\ Append(s, b) = t
      BY <1>2, <2>1, <2>2
    <2>4. Last(t) = b /\ t # <<>>
      BY <2>1 DEF Last
    <2>5. <<>> \o t = t
      BY <2>1, ConcatNothing DEF IsSeq
    <2> QED
      BY <2>1, <2>3, <2>4, <2>5 DEF s, t
  <1>4. ASSUME NEW a, NEW b, NEW c
        PROVE  /\ Last(<<a, b, c>>) = c /\ Front(<<a, b, c>>) = <<a, b>>
               /\ Len(<<a, b, c>>) = 3 /\ <<a, b, c>> # <<>>
               /\ Append(<<a, b>>, c) = <<a, b, c>>
    <2> DEFINE s == <<a, b>>
               t == <<a, b, c>>
    <2>1. /\ s \in Seq({a, b, c}) /\ t \in Seq({a, b, c}) /\ Len(s) = 2 /\ Len(t) = 3
          /\ s[1] = a /\ s[2] = b /\ t[1] = a /\ t[2] = b /\ t[3] = c
      OBVIOUS
    <2> HIDE DEF s, t
    <2>2. /\ Len(t) # 0 /\ Len(s) = Len(t) - 1 /\ \A i \in 1..Len(s) : s[i] = t[i]
      BY <2>1
    <2>3. Front(t) = s /\ Append(s, c) = t
      BY <1>2, <2>1, <2>2
    <2>4. Last(t) = c /\ t # <<>>
      BY <2>1 DEF Last
    <2> QED
      BY <2>1, <2>3, <2>4 DEF s, t
  <1> QED
    BY <1>1, <1>3, <1>4

(* Two frames, one after the other.                                         *)
LEMMA TwoFrames ==
  ASSUME NEW a, NEW b
  PROVE  Append(<<a>>, b) = <<a, b>> /\ <<a, b>> # <<>>
  BY OneTwoThree, Zenon

(* An array of which n elements are read, and m of them were features.      *)
Reads(e, a, m, n) ==
    /\ a.kind = "array" /\ IsArray(a) /\ e = [elements |-> e.elements]
    /\ IsRest(e.elements, a.elements) /\ n = Gone(e.elements, a.elements) /\ m \in Nat
    /\ \A i \in 1..m : SoundFeature(a.elements[i])

(* The frames of an array, or of an array and an element of it.             *)
ArrayOnly(e, a, m) == Reads(e, a, m, m)
ArrayAndElement(e, g, a, m) ==
    Reads(e, a, m, m + 1) /\ Frame(g, a.elements[m + 1]) /\ ~Streams(g)

(* The frames while v is read and has given m features.                     *)
Partway(v, st, m) ==
    \/ \E e : st = <<e>> /\ ArrayOnly(e, v, m)
    \/ \E e, g : st = <<e, g>> /\ ArrayAndElement(e, g, v, m)
    \/ \E f : st = <<f>> /\ Frame(f, v) /\ ~Streams(f) /\ m = 0
    \/ \E f : /\ st = <<f>> /\ Frame(f, v) /\ Streams(f) /\ SoundFeatures(v.features)
              /\ m = Len(v.features.elements)
    \/ \E f, e : st = <<f, e>> /\ Frame(f, v) /\ Streams(f) /\ ArrayOnly(e, v.features, m)
    \/ \E f, e, g : /\ st = <<f, e, g>> /\ Frame(f, v) /\ Streams(f)
                    /\ ArrayAndElement(e, g, v.features, m)

(* And once it has been read.                                               *)
Progress(v, st, m) ==
    \/ Partway(v, st, m)
    \/ st = <<>> /\ SoundValue(v) /\ m = Len(FeaturesOf(v))

(* What has been read of the input.                                         *)
Between(vs, rest, c) ==
    SoundTo(vs, Gone(rest, vs)) /\ c = Len(Flat(Lists(vs), Gone(rest, vs)))

Within(vs, k, st, c) ==
    /\ k \in 1..Len(vs) /\ SoundTo(vs, k - 1)
    /\ \E m \in Nat : Partway(vs[k], st, m) /\ c = Len(Flat(Lists(vs), k - 1)) + m

ReadSoFar(vs, rest, st, c) ==
    /\ IsRest(rest, vs)
    /\ \/ st = <<>> /\ Between(vs, rest, c)
       \/ Within(vs, Gone(rest, vs), st, c)

(* The frames are some, of an array or an object, and m a number.           *)
LEMMA FramesAre ==
  /\ \A e, a, m, n : Reads(e, a, m, n) => DOMAIN e = {"elements"} /\ m \in Nat
  /\ \A f, o : Frame(f, o) => DOMAIN f = FrameFields
  /\ "elements" \notin FrameFields /\ "object" \in FrameFields
  <1>1. ASSUME NEW e, NEW x, e = [elements |-> x]  PROVE DOMAIN e = {"elements"}
    BY <1>1
  <1>2. \A e, a, m, n : Reads(e, a, m, n) => DOMAIN e = {"elements"} /\ m \in Nat
    BY <1>1, Zenon DEF Reads
  <1>3. \A f, o : Frame(f, o) => DOMAIN f = FrameFields
    BY Zenon DEF Frame
  <1> QED
    BY <1>2, <1>3 DEF FrameFields

(* A step within a value, or to its end.                                    *)
LEMMA StepWithin ==
  ASSUME NEW in, InputOK(in), NEW rest, IsRest(rest, in.values), NEW st,
         NEW k, k = Gone(rest, in.values), k \in 1..Len(in.values), SoundTo(in.values, k - 1),
         NEW m \in Nat, Progress(in.values[k], st, m),
         NEW c, c = Len(Flat(Lists(in.values), k - 1)) + m
  PROVE  ReadSoFar(in.values, rest, st, c)
  <1> DEFINE vs == in.values
  <1>1. CASE Partway(vs[k], st, m)
    <2>1. Within(vs, k, st, c)
      BY <1>1 DEF Within
    <2> QED
      BY <2>1 DEF ReadSoFar
  <1>2. CASE st = <<>> /\ SoundValue(vs[k]) /\ m = Len(FeaturesOf(vs[k]))
    <2>1. /\ SoundTo(vs, k)
          /\ Len(Flat(Lists(vs), k)) = Len(Flat(Lists(vs), k - 1)) + Len(FeaturesOf(vs[k]))
      BY <1>2, ListsMore
    <2>2. Between(vs, rest, c)
      BY <1>2, <2>1 DEF Between
    <2> QED
      BY <1>2, <2>2 DEF ReadSoFar
  <1> QED
    BY <1>1, <1>2 DEF Progress

-----------------------------------------------------------------------------
(* How reading ends early. *)

BadWords == {"not an object", "features not an array", "bad member", "nested collection",
             "bad feature", "unsupported"}

Stopped == step' = "close" /\ verdict' \in BadWords /\ UNCHANGED stack

(* A value that ends it was not sound.                                      *)
LEMMA BadValue ==
  ASSUME NEW in, InputOK(in), NEW k \in 1..Len(in.values), ~SoundValue(in.values[k])
  PROVE  ~SoundInput(in)
  <1>1. DOMAIN in.values = 1..Len(in.values)
    BY SeqFacts DEF InputOK
  <1> QED
    BY <1>1 DEF SoundInput

(* A value that is an array is sound as its elements are.                   *)
LEMMA ArraySound ==
  ASSUME NEW v, v.kind = "array"
  PROVE  SoundValue(v) <=> SoundFeatures(v)
  BY DEF SoundValue, SoundFeature

(* And one that is a collection as its features are.                        *)
LEMMA CollectionSound ==
  ASSUME NEW v, v.kind = "object", v.type = "FeatureCollection", SoundValue(v)
  PROVE  SoundFeatures(v.features)
  BY DEF SoundValue, SoundFeature, SoundFeatures

(* An array with an element that is no feature is not sound.                *)
LEMMA BadElement ==
  ASSUME NEW a, a.kind = "array", IsArray(a), NEW i \in 1..Len(a.elements),
         ~SoundFeature(a.elements[i])
  PROVE  ~SoundFeatures(a)
  <1>1. DOMAIN a.elements = 1..Len(a.elements)
    BY ArrayIs, SeqFacts
  <1> QED
    BY <1>1 DEF SoundFeatures

(* All of its elements are, once as many were features.                     *)
LEMMA AllElements ==
  ASSUME NEW e, NEW a, NEW m, ArrayOnly(e, a, m), e.elements = <<>>
  PROVE  SoundFeatures(a) /\ m = Len(a.elements)
  <1>1. /\ a.kind = "array" /\ IsRest(<<>>, a.elements) /\ m = Gone(<<>>, a.elements)
        /\ \A i \in 1..m : SoundFeature(a.elements[i])
    BY DEF ArrayOnly, Reads
  <1>2. Gone(<<>>, a.elements) = Len(a.elements) /\ DOMAIN a.elements = 1..Len(a.elements)
    BY <1>1, RestBounds
  <1> QED
    BY <1>1, <1>2 DEF SoundFeatures

(* The element that is next.                                                *)
LEMMA NextElement ==
  ASSUME NEW e, NEW a, NEW m, ArrayOnly(e, a, m), e.elements # <<>>,
         NEW r, r = [e EXCEPT !.elements = Tail(@)]
  PROVE  /\ m + 1 \in 1..Len(a.elements) /\ Head(e.elements) = a.elements[m + 1]
         /\ Reads(r, a, m, m + 1) /\ IsObject(a.elements[m + 1])
  <1>1. /\ a.kind = "array" /\ IsArray(a) /\ e = [elements |-> e.elements]
        /\ IsRest(e.elements, a.elements) /\ m = Gone(e.elements, a.elements) /\ m \in Nat
        /\ \A i \in 1..m : SoundFeature(a.elements[i])
    BY DEF ArrayOnly, Reads
  <1>2. /\ IsRest(Tail(e.elements), a.elements)
        /\ Gone(Tail(e.elements), a.elements) = m + 1
        /\ m + 1 \in 1..Len(a.elements) /\ Head(e.elements) = a.elements[m + 1]
    BY <1>1, RestTail
  <1>3. r.elements = Tail(e.elements) /\ r = [elements |-> r.elements]
    <2>1. r = [elements |-> Tail(e.elements)]
      BY <1>1
    <2> QED
      BY <2>1
  <1>4. Reads(r, a, m, m + 1)
    BY <1>1, <1>2, <1>3 DEF Reads
  <1>5. IsObject(a.elements[m + 1])
    BY <1>1, <1>2, ArrayIs
  <1> QED
    BY <1>2, <1>4, <1>5

-----------------------------------------------------------------------------
(* The steps within a value. *)

(* What a token begins.                                                     *)
LEMMA BeginIs ==
  ASSUME NEW v, NEW below, step = "read", Begin(v, below)
  PROVE  \/ v.kind = "object" /\ stack' = Append(below, NewFrame(v)) /\ step' = "read"
         \/ /\ v.kind = "array" /\ below = <<>>
            /\ stack' = Append(below, [elements |-> v.elements]) /\ step' = "read"
         \/ v.kind # "object" /\ (v.kind # "array" \/ below # <<>>) /\ Stopped
  <1>1. "not an object" \in BadWords
    BY DEF BadWords
  <1>2. CASE v.kind = "object"
    <2>1. v.kind # "array"
      BY <1>2
    <2>2. /\ stack' = Append(below, [object |-> v, keys |-> v.keys, seen |-> {}, type |-> "",
                                      streamed |-> FALSE])
          /\ UNCHANGED <<step, verdict>>
      BY <1>2, <2>1, Zenon DEF Begin
    <2> QED
      BY <1>2, <2>2, Zenon DEF NewFrame
  <1>3. CASE v.kind = "array" /\ below = <<>>
    <2>1. v.kind # "object"
      BY <1>3
    <2>2. stack' = Append(below, [elements |-> v.elements]) /\ UNCHANGED <<step, verdict>>
      BY <1>3, <2>1, Zenon DEF Begin
    <2> QED
      BY <1>3, <2>2, Zenon
  <1>4. CASE v.kind # "object" /\ (v.kind # "array" \/ below # <<>>)
    <2>1. Stop("not an object") /\ UNCHANGED stack
      BY <1>4, Zenon DEF Begin
    <2> QED
      BY <1>1, <1>4, <2>1, Zenon DEF Stop, Stopped
  <1> QED
    BY <1>2, <1>3, <1>4, Zenon

(* What an element begins, above other frames.                              *)
LEMMA BeginAbove ==
  ASSUME NEW v, NEW below, step = "read", Begin(v, below), below # <<>>, IsObject(v)
  PROVE  \/ /\ step' = "read" /\ stack' = Append(below, NewFrame(v))
            /\ Frame(NewFrame(v), v) /\ ~Streams(NewFrame(v))
         \/ Stopped /\ ~SoundFeature(v)
  <1>1. \/ v.kind = "object" /\ stack' = Append(below, NewFrame(v)) /\ step' = "read"
        \/ v.kind # "object" /\ Stopped
    BY BeginIs, Zenon
  <1>2. CASE v.kind = "object" /\ stack' = Append(below, NewFrame(v)) /\ step' = "read"
    BY <1>2, FrameBegins
  <1>3. CASE v.kind # "object" /\ Stopped
    BY <1>3 DEF SoundFeature
  <1> QED
    BY <1>1, <1>2, <1>3

(* An array is being read when its frame is the innermost, and an object    *)
(* when its is.                                                             *)
LEMMA WhatIsRead ==
  ASSUME stack # <<>>
  PROVE  /\ \A a, m, n : Reads(Top, a, m, n) => InArray /\ ~InObject
         /\ \A o : Frame(Top, o) => InObject /\ ~InArray
  <1>1. ASSUME NEW a, NEW m, NEW n, Reads(Top, a, m, n)  PROVE InArray /\ ~InObject
    <2>1. DOMAIN Top = {"elements"}
      BY <1>1, FramesAre
    <2> HIDE DEF Top
    <2> QED
      BY <2>1 DEF InArray, InObject
  <1>2. ASSUME NEW o, Frame(Top, o)  PROVE InObject /\ ~InArray
    <2>1. DOMAIN Top = FrameFields /\ "elements" \notin FrameFields /\ "object" \in FrameFields
      BY <1>2, FramesAre
    <2> HIDE DEF Top
    <2> QED
      BY <2>1 DEF InArray, InObject
  <1> QED
    BY <1>1, <1>2

(* What is read of the frames, shape by shape.                              *)
LEMMA Shapes ==
  ASSUME NEW v, NEW m, Partway(v, stack, m)
  PROVE  /\ stack # <<>>
         /\ \/ /\ ArrayOnly(Top, v, m) /\ Front(stack) = <<>> /\ InArray /\ ~InObject
               /\ ~Nested /\ stack = <<Top>>
            \/ /\ \E e : stack = <<e, Top>> /\ Front(stack) = <<e>> /\ ArrayAndElement(e, Top, v, m)
               /\ InObject /\ ~InArray /\ Nested
            \/ /\ Frame(Top, v) /\ ~Streams(Top) /\ m = 0 /\ stack = <<Top>> /\ Front(stack) = <<>>
               /\ InObject /\ ~InArray /\ ~Nested
            \/ /\ Frame(Top, v) /\ Streams(Top) /\ SoundFeatures(v.features)
               /\ m = Len(v.features.elements) /\ stack = <<Top>> /\ Front(stack) = <<>>
               /\ InObject /\ ~InArray /\ ~Nested
            \/ /\ \E f : /\ stack = <<f, Top>> /\ Front(stack) = <<f>> /\ Frame(f, v) /\ Streams(f)
                         /\ ArrayOnly(Top, v.features, m)
               /\ InArray /\ ~InObject
            \/ /\ \E f, e : /\ stack = <<f, e, Top>> /\ Front(stack) = <<f, e>> /\ Frame(f, v)
                            /\ Streams(f) /\ ArrayAndElement(e, Top, v.features, m)
               /\ InObject /\ ~InArray /\ Nested
  <1>1. CASE \E e : stack = <<e>> /\ ArrayOnly(e, v, m)
    <2>1. PICK e : stack = <<e>> /\ ArrayOnly(e, v, m)
      BY <1>1
    <2>2. Last(stack) = e /\ Front(stack) = <<>> /\ Len(stack) = 1 /\ stack # <<>>
      BY <2>1, OneTwoThree, Zenon
    <2>3. Top = e /\ ~Nested
      BY <2>2 DEF Top, Nested
    <2>4. InArray /\ ~InObject
      BY <2>1, <2>2, <2>3, WhatIsRead DEF ArrayOnly
    <2> QED
      BY <2>1, <2>2, <2>3, <2>4, Zenon
  <1>2. CASE \E e, g : stack = <<e, g>> /\ ArrayAndElement(e, g, v, m)
    <2>1. PICK e, g : stack = <<e, g>> /\ ArrayAndElement(e, g, v, m)
      BY <1>2
    <2>2. Last(stack) = g /\ Front(stack) = <<e>> /\ Len(stack) = 2 /\ stack # <<>>
      BY <2>1, OneTwoThree, Zenon
    <2>3. Top = g /\ Nested
      BY <2>2 DEF Top, Nested
    <2>4. InObject /\ ~InArray
      BY <2>1, <2>2, <2>3, WhatIsRead DEF ArrayAndElement
    <2> QED
      BY <2>1, <2>2, <2>3, <2>4, Zenon
  <1>3. CASE \E f : stack = <<f>> /\ Frame(f, v) /\ ~Streams(f) /\ m = 0
    <2>1. PICK f : stack = <<f>> /\ Frame(f, v) /\ ~Streams(f) /\ m = 0
      BY <1>3
    <2>2. Last(stack) = f /\ Front(stack) = <<>> /\ Len(stack) = 1 /\ stack # <<>>
      BY <2>1, OneTwoThree, Zenon
    <2>3. Top = f /\ ~Nested
      BY <2>2 DEF Top, Nested
    <2>4. InObject /\ ~InArray
      BY <2>1, <2>2, <2>3, WhatIsRead
    <2> QED
      BY <2>1, <2>2, <2>3, <2>4, Zenon
  <1>4. CASE \E f : /\ stack = <<f>> /\ Frame(f, v) /\ Streams(f) /\ SoundFeatures(v.features)
                    /\ m = Len(v.features.elements)
    <2>1. PICK f : /\ stack = <<f>> /\ Frame(f, v) /\ Streams(f) /\ SoundFeatures(v.features)
                   /\ m = Len(v.features.elements)
      BY <1>4
    <2>2. Last(stack) = f /\ Front(stack) = <<>> /\ Len(stack) = 1 /\ stack # <<>>
      BY <2>1, OneTwoThree, Zenon
    <2>3. Top = f /\ ~Nested
      BY <2>2 DEF Top, Nested
    <2>4. InObject /\ ~InArray
      BY <2>1, <2>2, <2>3, WhatIsRead
    <2> QED
      BY <2>1, <2>2, <2>3, <2>4, Zenon
  <1>5. CASE \E f, e : stack = <<f, e>> /\ Frame(f, v) /\ Streams(f) /\ ArrayOnly(e, v.features, m)
    <2>1. PICK f, e : stack = <<f, e>> /\ Frame(f, v) /\ Streams(f) /\ ArrayOnly(e, v.features, m)
      BY <1>5
    <2>2. Last(stack) = e /\ Front(stack) = <<f>> /\ stack # <<>>
      BY <2>1, OneTwoThree, Zenon
    <2>3. Top = e
      BY <2>2 DEF Top
    <2>4. InArray /\ ~InObject
      BY <2>1, <2>2, <2>3, WhatIsRead DEF ArrayOnly
    <2> QED
      BY <2>1, <2>2, <2>3, <2>4, Zenon
  <1>6. CASE \E f, e, g : /\ stack = <<f, e, g>> /\ Frame(f, v) /\ Streams(f)
                          /\ ArrayAndElement(e, g, v.features, m)
    <2>1. PICK f, e, g : /\ stack = <<f, e, g>> /\ Frame(f, v) /\ Streams(f)
                         /\ ArrayAndElement(e, g, v.features, m)
      BY <1>6
    <2>2. Last(stack) = g /\ Front(stack) = <<f, e>> /\ Len(stack) = 3 /\ stack # <<>>
      <3>1. /\ Last(<<f, e, g>>) = g /\ Front(<<f, e, g>>) = <<f, e>>
            /\ Len(<<f, e, g>>) = 3 /\ <<f, e, g>> # <<>>
        BY OneTwoThree
      <3>2. stack = <<f, e, g>>
        BY <2>1
      <3> QED
        BY <3>1, <3>2, Zenon
    <2>3. Top = g /\ Nested
      BY <2>2 DEF Top, Nested
    <2>4. InObject /\ ~InArray
      BY <2>1, <2>2, <2>3, WhatIsRead DEF ArrayAndElement
    <2> QED
      BY <2>1, <2>2, <2>3, <2>4, Zenon
  <1> QED
    BY <1>1, <1>2, <1>3, <1>4, <1>5, <1>6, Zenon DEF Partway

(* An element, or the end of the array.                                     *)
LEMMA ElementStep ==
  ASSUME NEW v, ValueOK(v), NEW m, Partway(v, stack, m), ReadElement
  PROVE  \/ step' = "read" /\ Progress(v, stack', m)
         \/ Stopped /\ ~SoundValue(v)
  <1> DEFINE r == [Top EXCEPT !.elements = Tail(@)]
  <1>1. /\ step = "read" /\ InArray /\ stack # <<>>
        /\ Top.elements = <<>> => stack' = Front(stack) /\ UNCHANGED <<step, verdict>>
        /\ Top.elements # <<>> => Begin(Head(Top.elements), Append(Front(stack), r))
    BY Zenon DEF ReadElement, InArray
  <1> HIDE DEF r
  <1>2. CASE ArrayOnly(Top, v, m) /\ Front(stack) = <<>>
    <2>1. v.kind = "array"
      BY <1>2 DEF ArrayOnly, Reads
    <2>2. CASE Top.elements = <<>>
      <3>1. SoundFeatures(v) /\ m = Len(v.elements)
        BY <1>2, <2>2, AllElements
      <3>2. FeaturesOf(v) = v.elements
        BY <2>1 DEF FeaturesOf
      <3>3. SoundValue(v)
        BY <2>1, <3>1, ArraySound
      <3>4. stack' = <<>> /\ step' = "read"
        BY <1>1, <1>2, <2>2
      <3> QED
        BY <3>1, <3>2, <3>3, <3>4 DEF Progress
    <2>3. CASE Top.elements # <<>>
      <3> DEFINE x == v.elements[m + 1]
      <3>1. /\ m + 1 \in 1..Len(v.elements) /\ Head(Top.elements) = x
            /\ Reads(r, v, m, m + 1) /\ IsObject(x)
        BY <1>2, <2>3, NextElement DEF r
      <3>2. Append(Front(stack), r) = <<r>> /\ <<r>> # <<>>
        BY <1>2, OneTwoThree, Zenon
      <3> HIDE DEF x
      <3>3. Begin(x, <<r>>)
        BY <1>1, <2>3, <3>1, <3>2
      <3>4. \/ /\ step' = "read" /\ stack' = Append(<<r>>, NewFrame(x))
               /\ Frame(NewFrame(x), x) /\ ~Streams(NewFrame(x))
            \/ Stopped /\ ~SoundFeature(x)
        BY <1>1, <3>1, <3>2, <3>3, BeginAbove
      <3>5. CASE /\ step' = "read" /\ stack' = Append(<<r>>, NewFrame(x))
                 /\ Frame(NewFrame(x), x) /\ ~Streams(NewFrame(x))
        <4>1. Append(<<r>>, NewFrame(x)) = <<r, NewFrame(x)>>
          BY OneTwoThree, Zenon
        <4>2. ArrayAndElement(r, NewFrame(x), v, m)
          BY <3>1, <3>5 DEF ArrayAndElement, x
        <4>3. Partway(v, stack', m)
          BY <3>5, <4>1, <4>2, Zenon DEF Partway
        <4> QED
          BY <3>5, <4>3 DEF Progress
      <3>6. CASE Stopped /\ ~SoundFeature(x)
        <4>1. IsArray(v)
          BY DEF ValueOK
        <4>2. ~SoundFeatures(v)
          BY <2>1, <3>1, <3>6, <4>1, BadElement DEF x
        <4> QED
          BY <2>1, <3>6, <4>2, ArraySound
      <3> QED
        BY <3>4, <3>5, <3>6
    <2> QED
      BY <2>2, <2>3
  <1>3. CASE \E f : /\ stack = <<f, Top>> /\ Front(stack) = <<f>> /\ Frame(f, v) /\ Streams(f)
                    /\ ArrayOnly(Top, v.features, m)
    <2> DEFINE w == v.features
    <2>1. PICK f : Front(stack) = <<f>> /\ Frame(f, v) /\ Streams(f) /\ ArrayOnly(Top, w, m)
      BY <1>3
    <2> HIDE DEF w
    <2>2. CASE Top.elements = <<>>
      <3>1. SoundFeatures(w) /\ m = Len(w.elements)
        BY <2>1, <2>2, AllElements
      <3>2. stack' = <<f>> /\ step' = "read"
        BY <1>1, <2>1, <2>2
      <3>3. Partway(v, stack', m)
        BY <2>1, <3>1, <3>2, Zenon DEF Partway, w
      <3> QED
        BY <3>2, <3>3 DEF Progress
    <2>3. CASE Top.elements # <<>>
      <3> DEFINE x == w.elements[m + 1]
      <3>1. /\ m + 1 \in 1..Len(w.elements) /\ Head(Top.elements) = x
            /\ Reads(r, w, m, m + 1) /\ IsObject(x)
        BY <2>1, <2>3, NextElement DEF r
      <3>2. Append(Front(stack), r) = <<f, r>> /\ <<f, r>> # <<>>
        <4>1. Append(<<f>>, r) = <<f, r>> /\ <<f, r>> # <<>>
          BY TwoFrames
        <4> QED
          BY <2>1, <4>1
      <3> HIDE DEF x
      <3>3. Begin(x, <<f, r>>)
        BY <1>1, <2>3, <3>1, <3>2
      <3>4. \/ /\ step' = "read" /\ stack' = Append(<<f, r>>, NewFrame(x))
               /\ Frame(NewFrame(x), x) /\ ~Streams(NewFrame(x))
            \/ Stopped /\ ~SoundFeature(x)
        BY <1>1, <3>1, <3>2, <3>3, BeginAbove
      <3>5. CASE /\ step' = "read" /\ stack' = Append(<<f, r>>, NewFrame(x))
                 /\ Frame(NewFrame(x), x) /\ ~Streams(NewFrame(x))
        <4>1. Append(<<f, r>>, NewFrame(x)) = <<f, r, NewFrame(x)>>
          <5>1. \A a, b, c : Append(<<a, b>>, c) = <<a, b, c>>
            BY OneTwoThree
          <5> QED
            BY <5>1, Zenon
        <4>2. ArrayAndElement(r, NewFrame(x), w, m)
          BY <3>1, <3>5 DEF ArrayAndElement, x
        <4>3. Partway(v, stack', m)
          BY <2>1, <3>5, <4>1, <4>2, Zenon DEF Partway, w
        <4> QED
          BY <3>5, <4>3 DEF Progress
      <3>6. CASE Stopped /\ ~SoundFeature(x)
        <4>1. IsArray(w) /\ w.kind = "array"
          BY <2>1 DEF ArrayOnly, Reads
        <4>2. ~SoundFeatures(w)
          BY <3>1, <3>6, <4>1, BadElement DEF x
        <4>3. v.kind = "object" /\ v.type = "FeatureCollection"
          <5>1. f.type = "FeatureCollection" /\ v.kind = "object"
            BY <2>1 DEF Frame
          <5>2. f.type = IF "type" \in f.seen THEN v.type ELSE ""
            BY <2>1, Zenon DEF Frame
          <5> QED
            BY <5>1, <5>2
        <4>4. ~SoundValue(v)
          BY <4>2, <4>3, CollectionSound DEF w
        <4> QED
          BY <3>6, <4>4
      <3> QED
        BY <3>4, <3>5, <3>6
    <2> QED
      BY <2>2, <2>3
  <1> QED
    BY <1>1, <1>2, <1>3, Shapes, Zenon

-----------------------------------------------------------------------------
(* The steps within an object. *)

(* The innermost frame is that of o, which is v or a feature in it.         *)
TopIs(v, o, m) ==
    /\ Frame(Top, o) /\ IsObject(o) /\ m \in Nat
    /\ \A fr : Frame(fr, o) /\ (Streams(fr) <=> Streams(Top)) =>
                 Partway(v, Append(Front(stack), fr), m)
    /\ Nested => ~Streams(Top) /\ (~SoundFeature(o) => ~SoundValue(v))
    /\ ~Nested => o = v /\ Front(stack) = <<>>
    /\ ~Nested /\ Streams(Top) => SoundFeatures(v.features) /\ m = Len(v.features.elements)
    /\ ~Nested /\ ~Streams(Top) => m = 0
    /\ SoundFeature(o) /\ ~Streams(Top) => Progress(v, Front(stack), m + 1)
    /\ SoundValue(v) /\ ~Streams(Top) /\ (Nested \/ o.type = "Feature") =>
         m + 1 \in 1..Len(FeaturesOf(v)) /\ FeaturesOf(v)[m + 1] = o

(* It is v.                                                                 *)
LEMMA TopIsValue ==
  ASSUME NEW v, ValueOK(v), NEW m, Frame(Top, v), Front(stack) = <<>>, ~Nested,
         \/ ~Streams(Top) /\ m = 0
         \/ Streams(Top) /\ SoundFeatures(v.features) /\ m = Len(v.features.elements)
  PROVE  TopIs(v, v, m)
  <1>1. v.kind = "object" /\ IsObject(v)
    BY DEF Frame, ValueOK
  <1>2. m \in Nat
    <2>1. ASSUME SoundFeatures(v.features)  PROVE Len(v.features.elements) \in Nat
      <3>1. v.features.kind = "array" /\ IsArray(v.features)
        BY <1>1, <2>1 DEF SoundFeatures, ValueOK
      <3> QED
        BY <3>1, ArrayIs, SeqFacts
    <2>2. 0 \in Nat
      OBVIOUS
    <2> QED
      BY <2>1, <2>2
  <1>3. ASSUME NEW fr, Frame(fr, v), Streams(fr) <=> Streams(Top)
        PROVE  Partway(v, Append(Front(stack), fr), m)
    <2>1. Append(<<>>, fr) = <<fr>>
      BY OneTwoThree
    <2>2. Partway(v, <<fr>>, m)
      BY <1>3, Zenon DEF Partway
    <2> QED
      BY <2>1, <2>2
  <1>4. ASSUME SoundFeature(v), ~Streams(Top)  PROVE Progress(v, <<>>, m + 1)
    <2>1. v.type = "Feature"
      BY <1>4 DEF SoundFeature
    <2>2. FeaturesOf(v) = <<v>>
      BY <1>1, <2>1 DEF FeaturesOf
    <2>3. m + 1 = Len(FeaturesOf(v))
      BY <1>4, <2>2
    <2> QED
      BY <1>4, <2>3 DEF Progress, SoundValue
  <1>5. ASSUME ~Streams(Top), v.type = "Feature"
        PROVE  m + 1 \in 1..Len(FeaturesOf(v)) /\ FeaturesOf(v)[m + 1] = v
    <2>1. FeaturesOf(v) = <<v>>
      BY <1>1, <1>5 DEF FeaturesOf
    <2>2. m + 1 = 1
      BY <1>5
    <2> QED
      BY <2>1, <2>2
  <1> QED
    BY <1>1, <1>2, <1>3, <1>4, <1>5, Zenon DEF TopIs

(* It is an element of v.                                                   *)
LEMMA TopIsElement ==
  ASSUME NEW v, ValueOK(v), NEW m, NEW e, Front(stack) = <<e>>, ArrayAndElement(e, Top, v, m),
         Nested
  PROVE  TopIs(v, v.elements[m + 1], m)
  <1> DEFINE o == v.elements[m + 1]
  <1>1. /\ v.kind = "array" /\ IsArray(v) /\ m \in Nat
        /\ Reads(e, v, m, m + 1) /\ Frame(Top, o) /\ ~Streams(Top)
        /\ IsRest(e.elements, v.elements) /\ m + 1 = Gone(e.elements, v.elements)
        /\ \A i \in 1..m : SoundFeature(v.elements[i])
    BY DEF ArrayAndElement, Reads
  <1>2. m + 1 \in 1..Len(v.elements)
    BY <1>1, RestBounds
  <1>3. IsObject(o)
    BY <1>1, <1>2, ArrayIs
  <1> HIDE DEF o
  <1>4. ASSUME NEW fr, Frame(fr, o), Streams(fr) <=> Streams(Top)
        PROVE  Partway(v, Append(Front(stack), fr), m)
    <2>1. Append(<<e>>, fr) = <<e, fr>>
      BY OneTwoThree
    <2>2. ArrayAndElement(e, fr, v, m)
      BY <1>1, <1>4, Zenon DEF ArrayAndElement, o
    <2>3. Partway(v, <<e, fr>>, m)
      BY <2>2, Zenon DEF Partway
    <2> QED
      BY <2>1, <2>3
  <1>5. ~SoundFeature(o) => ~SoundValue(v)
    BY <1>1, <1>2, BadElement, ArraySound DEF o
  <1>6. ASSUME SoundFeature(o)  PROVE Progress(v, <<e>>, m + 1)
    <2>1. \A i \in 1..m + 1 : i \in 1..m \/ i = m + 1
      BY <1>1
    <2>2. \A i \in 1..m + 1 : SoundFeature(v.elements[i])
      BY <1>1, <1>6, <2>1 DEF o
    <2>3. m + 1 \in Nat
      BY <1>1
    <2>4. ArrayOnly(e, v, m + 1)
      BY <1>1, <2>2, <2>3, Zenon DEF ArrayOnly, Reads
    <2>5. Partway(v, <<e>>, m + 1)
      BY <2>4, Zenon DEF Partway
    <2> QED
      BY <2>5 DEF Progress
  <1>7. m + 1 \in 1..Len(FeaturesOf(v)) /\ FeaturesOf(v)[m + 1] = o
    <2>1. FeaturesOf(v) = v.elements
      BY <1>1 DEF FeaturesOf
    <2> QED
      BY <1>2, <2>1 DEF o
  <1>8. TopIs(v, o, m)
    BY <1>1, <1>3, <1>4, <1>5, <1>6, <1>7, Zenon DEF TopIs
  <1> QED
    BY <1>8 DEF o

(* It is one of the features of v.                                          *)
LEMMA TopIsFeature ==
  ASSUME NEW v, ValueOK(v), NEW m, NEW f, NEW e, Front(stack) = <<f, e>>, Frame(f, v),
         Streams(f), ArrayAndElement(e, Top, v.features, m), Nested
  PROVE  TopIs(v, v.features.elements[m + 1], m)
  <1> DEFINE w == v.features
             o == w.elements[m + 1]
  <1>1. /\ w.kind = "array" /\ IsArray(w) /\ m \in Nat
        /\ Reads(e, w, m, m + 1) /\ Frame(Top, o) /\ ~Streams(Top)
        /\ IsRest(e.elements, w.elements) /\ m + 1 = Gone(e.elements, w.elements)
        /\ \A i \in 1..m : SoundFeature(w.elements[i])
    BY DEF ArrayAndElement, Reads
  <1>2. m + 1 \in 1..Len(w.elements)
    <2> DEFINE g == Gone(e.elements, w.elements)
    <2>1. IsRest(e.elements, w.elements)
      BY <1>1
    <2>2. g <= Len(w.elements) /\ Len(w.elements) \in Nat
      BY <2>1, RestBounds
    <2>3. m \in Nat /\ m + 1 = g
      BY <1>1
    <2> HIDE DEF g, w
    <2> QED
      BY <2>2, <2>3
  <1>3. IsObject(o)
    BY <1>1, <1>2, ArrayIs
  <1> HIDE DEF o
  <1>4. v.kind = "object" /\ v.type = "FeatureCollection"
    <2>1. f.type = "FeatureCollection" /\ v.kind = "object"
      BY DEF Frame
    <2>2. f.type = IF "type" \in f.seen THEN v.type ELSE ""
      BY Zenon DEF Frame
    <2> QED
      BY <2>1, <2>2
  <1>5. ASSUME NEW fr, Frame(fr, o), Streams(fr) <=> Streams(Top)
        PROVE  Partway(v, Append(Front(stack), fr), m)
    <2>1. Append(<<f, e>>, fr) = <<f, e, fr>>
      BY OneTwoThree
    <2>2. ArrayAndElement(e, fr, w, m)
      BY <1>1, <1>5, Zenon DEF ArrayAndElement, o
    <2>3. Partway(v, <<f, e, fr>>, m)
      BY <2>2, Zenon DEF Partway
    <2> QED
      BY <2>1, <2>3
  <1>6. ~SoundFeature(o) => ~SoundValue(v)
    <2>1. ~SoundFeature(o) => ~SoundFeatures(w)
      BY <1>1, <1>2, BadElement DEF o
    <2> QED
      BY <1>4, <2>1, CollectionSound
  <1>7. ASSUME SoundFeature(o)  PROVE Progress(v, <<f, e>>, m + 1)
    <2>1. \A i \in 1..m + 1 : i \in 1..m \/ i = m + 1
      BY <1>1
    <2>2. \A i \in 1..m + 1 : SoundFeature(w.elements[i])
      BY <1>1, <1>7, <2>1 DEF o
    <2>3. m + 1 \in Nat
      BY <1>1
    <2>4. ArrayOnly(e, w, m + 1)
      BY <1>1, <2>2, <2>3, Zenon DEF ArrayOnly, Reads
    <2>5. Partway(v, <<f, e>>, m + 1)
      BY <2>4, Zenon DEF Partway
    <2> QED
      BY <2>5 DEF Progress
  <1>8. m + 1 \in 1..Len(FeaturesOf(v)) /\ FeaturesOf(v)[m + 1] = o
    <2>1. FeaturesOf(v) = w.elements
      BY <1>4 DEF FeaturesOf
    <2> QED
      BY <1>2, <2>1 DEF o
  <1>9. TopIs(v, o, m)
    BY <1>1, <1>3, <1>5, <1>6, <1>7, <1>8, Zenon DEF TopIs
  <1> QED
    BY <1>9 DEF o

(* It is one of these.                                                      *)
LEMMA TopExists ==
  ASSUME NEW v, ValueOK(v), NEW m, Partway(v, stack, m), InObject
  PROVE  \E o : TopIs(v, o, m)
  <1>1. CASE /\ Frame(Top, v) /\ ~Streams(Top) /\ m = 0 /\ Front(stack) = <<>> /\ ~Nested
    BY <1>1, TopIsValue
  <1>2. CASE /\ Frame(Top, v) /\ Streams(Top) /\ SoundFeatures(v.features)
             /\ m = Len(v.features.elements) /\ Front(stack) = <<>> /\ ~Nested
    BY <1>2, TopIsValue
  <1>3. CASE \E e : Front(stack) = <<e>> /\ ArrayAndElement(e, Top, v, m) /\ Nested
    BY <1>3, TopIsElement
  <1>4. CASE \E f, e : /\ Front(stack) = <<f, e>> /\ Frame(f, v) /\ Streams(f)
                       /\ ArrayAndElement(e, Top, v.features, m) /\ Nested
    BY <1>4, TopIsFeature
  <1>5. \/ /\ Frame(Top, v) /\ ~Streams(Top) /\ m = 0 /\ Front(stack) = <<>> /\ ~Nested
        \/ /\ Frame(Top, v) /\ Streams(Top) /\ SoundFeatures(v.features)
           /\ m = Len(v.features.elements) /\ Front(stack) = <<>> /\ ~Nested
        \/ \E e : Front(stack) = <<e>> /\ ArrayAndElement(e, Top, v, m) /\ Nested
        \/ \E f, e : /\ Front(stack) = <<f, e>> /\ Frame(f, v) /\ Streams(f)
                     /\ ArrayAndElement(e, Top, v.features, m) /\ Nested
    <2>1. \/ /\ ArrayOnly(Top, v, m) /\ Front(stack) = <<>> /\ InArray /\ ~InObject
             /\ ~Nested /\ stack = <<Top>>
          \/ /\ \E e : stack = <<e, Top>> /\ Front(stack) = <<e>> /\ ArrayAndElement(e, Top, v, m)
             /\ InObject /\ ~InArray /\ Nested
          \/ /\ Frame(Top, v) /\ ~Streams(Top) /\ m = 0 /\ stack = <<Top>> /\ Front(stack) = <<>>
             /\ InObject /\ ~InArray /\ ~Nested
          \/ /\ Frame(Top, v) /\ Streams(Top) /\ SoundFeatures(v.features)
             /\ m = Len(v.features.elements) /\ stack = <<Top>> /\ Front(stack) = <<>>
             /\ InObject /\ ~InArray /\ ~Nested
          \/ /\ \E f : /\ stack = <<f, Top>> /\ Front(stack) = <<f>> /\ Frame(f, v) /\ Streams(f)
                       /\ ArrayOnly(Top, v.features, m)
             /\ InArray /\ ~InObject
          \/ /\ \E f, e : /\ stack = <<f, e, Top>> /\ Front(stack) = <<f, e>> /\ Frame(f, v)
                          /\ Streams(f) /\ ArrayAndElement(e, Top, v.features, m)
             /\ InObject /\ ~InArray /\ Nested
      BY Shapes
    <2> HIDE DEF Top, Nested, InArray, InObject
    <2> QED
      BY <2>1, Zenon
  <1> QED
    BY <1>1, <1>2, <1>3, <1>4, <1>5, Zenon

(* An array of features is entered from the frame of v.                     *)
LEMMA EnterIs ==
  ASSUME NEW v, ValueOK(v), v.kind = "object", v.type = "FeatureCollection", Front(stack) = <<>>,
         NEW fr, Frame(fr, v), Streams(fr), EnterFeatures(fr), step = "read"
  PROVE  \/ step' = "read" /\ Partway(v, stack', 0)
         \/ Stopped /\ ~SoundValue(v)
  <1> DEFINE w == v.features
             e == [elements |-> w.elements]
  <1>1. fr.object = v
    BY DEF Frame
  <1>2. CASE w.kind # "array"
    <2>1. Stop("features not an array") /\ UNCHANGED stack
      BY <1>1, <1>2, Zenon DEF EnterFeatures
    <2>2. "features not an array" \in BadWords
      BY DEF BadWords
    <2>3. ~SoundFeatures(w)
      BY <1>2 DEF SoundFeatures
    <2>4. ~SoundValue(v)
      BY <2>3, CollectionSound
    <2> QED
      BY <2>1, <2>2, <2>4, Zenon DEF Stopped, Stop
  <1>3. CASE w.kind = "array"
    <2>1. stack' = Front(stack) \o <<fr, e>> /\ UNCHANGED <<step, verdict>>
      BY <1>1, <1>3, Zenon DEF EnterFeatures
    <2>2. <<>> \o <<fr, e>> = <<fr, e>>
      BY OneTwoThree, Zenon
    <2>3. stack' = <<fr, e>>
      BY <2>1, <2>2
    <2>4. IsArray(w)
      BY DEF ValueOK
    <2>5. IsSeq(w.elements)
      BY <1>3, <2>4, ArrayIs
    <2>6. e.elements = w.elements /\ e = [elements |-> e.elements]
      OBVIOUS
    <2> HIDE DEF e, w
    <2>7. IsRest(e.elements, w.elements) /\ Gone(e.elements, w.elements) = 0
      BY <2>5, <2>6, RestWhole
    <2>8. 0 \in Nat /\ \A i : i \notin 1..0
      OBVIOUS
    <2>9. ArrayOnly(e, w, 0)
      BY <1>3, <2>4, <2>6, <2>7, <2>8, Zenon DEF ArrayOnly, Reads
    <2>10. Partway(v, stack', 0)
      BY <2>3, <2>9, Zenon DEF Partway, w
    <2> QED
      BY <2>1, <2>10
  <1> QED
    BY <1>2, <1>3

(* What becomes of a member.                                                *)
LEMMA MemberIs ==
  ASSUME NEW key, key = Head(Top.keys), ReadMember
  PROVE  /\ step = "read" /\ InObject /\ Top.keys # <<>>
         /\ \/ /\ Stopped
               /\ key \in Top.seen \/ Unsound(Top.object, key)
            \/ /\ key \notin Top.seen /\ key = "features" /\ Top.type = "FeatureCollection"
               /\ Nested => Stopped
               /\ ~Nested => EnterFeatures(Streaming(Reading(Top, key)))
            \/ /\ key \notin Top.seen /\ ~Unsound(Top.object, key)
               /\ step' = "read" /\ stack' = Append(Front(stack), Reading(Top, key))
  <1> DEFINE read == [Top EXCEPT !.keys = Tail(@), !.seen = @ \union {key},
                                 !.type = IF key = "type" THEN Top.object.type ELSE @]
             streams == key = "features" /\ Top.type = "FeatureCollection"
  <1>1. /\ step = "read" /\ InObject /\ Top.keys # <<>>
        /\ CASE key \in Top.seen \/ (~streams /\ Unsound(Top.object, key)) ->
                  Stop("bad member") /\ UNCHANGED stack
             [] key \notin Top.seen /\ streams ->
                  IF Nested THEN Stop("nested collection") /\ UNCHANGED stack
                  ELSE EnterFeatures([read EXCEPT !.streamed = TRUE])
             [] OTHER -> stack' = Append(Front(stack), read) /\ UNCHANGED <<step, verdict>>
    BY Zenon DEF ReadMember
  <1>2. read = Reading(Top, key) /\ [read EXCEPT !.streamed = TRUE] = Streaming(Reading(Top, key))
    BY Zenon DEF Reading, Streaming
  <1>3. "bad member" \in BadWords /\ "nested collection" \in BadWords
    BY DEF BadWords
  <1> HIDE DEF read, streams
  <1>4. CASE key \in Top.seen \/ (~streams /\ Unsound(Top.object, key))
    <2>1. ~(key \notin Top.seen /\ streams)
      BY <1>4
    <2>2. Stop("bad member") /\ UNCHANGED stack
      BY <1>1, <1>4, <2>1, Zenon
    <2> QED
      BY <1>1, <1>3, <1>4, <2>2, Zenon DEF Stop, Stopped
  <1>5. CASE key \notin Top.seen /\ streams
    <2>1. ~(key \in Top.seen \/ (~streams /\ Unsound(Top.object, key)))
      BY <1>5
    <2>2. /\ Nested => Stop("nested collection") /\ UNCHANGED stack
          /\ ~Nested => EnterFeatures([read EXCEPT !.streamed = TRUE])
      BY <1>1, <1>5, <2>1, Zenon
    <2>3. Nested => Stopped
      BY <1>3, <2>2, Zenon DEF Stop, Stopped
    <2> QED
      BY <1>1, <1>2, <1>5, <2>2, <2>3, Zenon DEF streams
  <1>6. CASE /\ ~(key \in Top.seen \/ (~streams /\ Unsound(Top.object, key)))
             /\ ~(key \notin Top.seen /\ streams)
    <2>1. stack' = Append(Front(stack), read) /\ UNCHANGED <<step, verdict>>
      BY <1>1, <1>6, Zenon
    <2> QED
      BY <1>1, <1>2, <1>6, <2>1, Zenon
  <1> QED
    BY <1>4, <1>5, <1>6, Zenon

(* An object with a member that does not decode is not sound.               *)
LEMMA BadMember ==
  ASSUME NEW o, o.kind = "object",
         ~IsInjective(o.keys) \/ \E key \in ToSet(o.keys) : Unsound(o, key)
  PROVE  ~SoundFeature(o) /\ ~SoundValue(o)
  <1>1. ~SoundFeature(o)
    BY Zenon DEF SoundFeature
  <1>2. ~SoundFeatures(o)
    BY DEF SoundFeatures
  <1> QED
    BY <1>1, <1>2, Zenon DEF SoundValue

(* Whatever is up to a number is up to a greater one.                       *)
LEMMA UpToMore == \A a, n \in Nat : a <= n => \A x \in 1..a : x \in 1..n
  OBVIOUS

(* An object at its frame has the type that was read.                       *)
LEMMA FrameTyped ==
  ASSUME NEW fr, NEW o, Frame(fr, o), fr.type # ""
  PROVE  fr.type = o.type /\ "type" \in ToSet(o.keys)
  <1>1. /\ fr.type = IF "type" \in fr.seen THEN o.type ELSE ""
        /\ fr.seen = {o.keys[i] : i \in 1..Gone(fr.keys, o.keys)}
        /\ IsRest(fr.keys, o.keys)
    BY Zenon DEF Frame
  <1>2. /\ DOMAIN o.keys = 1..Len(o.keys) /\ Gone(fr.keys, o.keys) \in Nat
        /\ Gone(fr.keys, o.keys) <= Len(o.keys) /\ Len(o.keys) \in Nat
    BY <1>1, RestBounds
  <1>3. "type" \in fr.seen /\ fr.type = o.type
    BY <1>1
  <1>4. PICK i \in 1..Gone(fr.keys, o.keys) : o.keys[i] = "type"
    BY <1>1, <1>3
  <1>5. i \in DOMAIN o.keys
    <2> DEFINE g == Gone(fr.keys, o.keys)
    <2>1. i \in 1..g /\ g \in Nat /\ g <= Len(o.keys) /\ Len(o.keys) \in Nat
      BY <1>2
    <2> HIDE DEF g
    <2>3. i \in 1..Len(o.keys)
      BY <2>1, UpToMore, Zenon
    <2> QED
      BY <1>2, <2>3
  <1> QED
    BY <1>3, <1>4, <1>5 DEF ToSet

(* A member.                                                                *)
LEMMA MemberStep ==
  ASSUME NEW v, ValueOK(v), NEW m, Partway(v, stack, m), ReadMember
  PROVE  \/ step' = "read" /\ Progress(v, stack', m)
         \/ Stopped /\ ~SoundValue(v)
  <1> DEFINE key == Head(Top.keys)
             rd == Reading(Top, key)
  <1>1. /\ step = "read" /\ InObject /\ Top.keys # <<>>
        /\ \/ /\ Stopped
              /\ key \in Top.seen \/ Unsound(Top.object, key)
           \/ /\ key \notin Top.seen /\ key = "features" /\ Top.type = "FeatureCollection"
              /\ Nested => Stopped
              /\ ~Nested => EnterFeatures(Streaming(rd))
           \/ /\ key \notin Top.seen /\ ~Unsound(Top.object, key)
              /\ step' = "read" /\ stack' = Append(Front(stack), rd)
    BY MemberIs
  <1>2. PICK o : TopIs(v, o, m)
    BY <1>1, TopExists
  <1>3. Frame(Top, o)
    BY <1>2 DEF TopIs
  <1>4. Top.object = o /\ o.kind = "object"
    BY <1>3 DEF Frame
  <1>5. /\ Nested => ~Streams(Top) /\ (~SoundFeature(o) => ~SoundValue(v))
        /\ ~Nested => o = v /\ Front(stack) = <<>>
        /\ ~Nested /\ ~Streams(Top) => m = 0
        /\ \A fr : Frame(fr, o) /\ (Streams(fr) <=> Streams(Top)) =>
                     Partway(v, Append(Front(stack), fr), m)
    BY <1>2, Zenon DEF TopIs
  <1>6. key \in ToSet(o.keys) /\ (key \in Top.seen => ~IsInjective(o.keys))
    BY <1>1, <1>3, NextKey
  <1> HIDE DEF key, rd
  <1>7. CASE Stopped /\ (key \in Top.seen \/ Unsound(Top.object, key))
    <2>1. ~SoundFeature(o) /\ ~SoundValue(o)
      BY <1>4, <1>6, <1>7, BadMember
    <2> QED
      BY <1>5, <1>7, <2>1, Zenon
  <1>8. CASE /\ key \notin Top.seen /\ key = "features" /\ Top.type = "FeatureCollection"
             /\ Nested => Stopped
             /\ ~Nested => EnterFeatures(Streaming(rd))
    <2>1. Top.type = o.type
      BY <1>3, <1>8, FrameTyped
    <2>2. CASE Nested
      <3>1. ~SoundFeature(o)
        BY <1>8, <2>1 DEF SoundFeature
      <3> QED
        BY <1>5, <1>8, <2>2, <3>1, Zenon
    <2>3. CASE ~Nested
      <3> DEFINE st == Streaming(rd)
      <3>1. rd = Reading(Top, "features") /\ "features" = Head(Top.keys)
        BY <1>8 DEF rd, key
      <3>2. Frame(st, o) /\ Streams(st)
        BY <1>1, <1>3, <1>8, <3>1, FrameStreams
      <3>3. ~Streams(Top)
        <4>1. Streams(Top) => "features" \in Top.seen
          BY <1>3, Zenon DEF Frame
        <4> QED
          BY <1>8, <4>1
      <3> HIDE DEF st
      <3>4. o = v /\ Front(stack) = <<>> /\ m = 0
        BY <1>5, <2>3, <3>3
      <3>5. v.kind = "object" /\ v.type = "FeatureCollection" /\ Frame(st, v)
        BY <1>4, <1>8, <2>1, <3>2, <3>4
      <3>6. EnterFeatures(st) /\ step = "read"
        BY <1>1, <1>8, <2>3 DEF st
      <3>7. \/ step' = "read" /\ Partway(v, stack', 0)
            \/ Stopped /\ ~SoundValue(v)
        BY <3>2, <3>4, <3>5, <3>6, EnterIs
      <3> QED
        BY <3>4, <3>7 DEF Progress
    <2> QED
      BY <2>2, <2>3
  <1>9. CASE /\ key \notin Top.seen /\ ~Unsound(Top.object, key)
             /\ step' = "read" /\ stack' = Append(Front(stack), rd)
    <2>1. rd = Reading(Top, key) /\ key = Head(Top.keys) /\ ~Unsound(o, key)
      BY <1>4, <1>9 DEF rd, key
    <2>2. Frame(rd, o) /\ (Streams(rd) <=> Streams(Top))
      BY <1>1, <1>3, <1>9, <2>1, FrameMore
    <2>3. Partway(v, Append(Front(stack), rd), m)
      BY <1>5, <2>2, Zenon
    <2> QED
      BY <1>9, <2>3, Zenon DEF Progress
  <1> QED
    BY <1>1, <1>7, <1>8, <1>9, Zenon

(* What becomes of the end of an object that is no feature.                 *)
LEMMA EndIs ==
  ASSUME EndObject
  PROVE  /\ step = "read" /\ InObject /\ Top.keys = <<>>
         /\ \/ /\ Stopped /\ Top.type = "Feature"
               /\ ~({"geometry", "properties"} \subseteq Top.seen)
            \/ /\ Top.type = "FeatureCollection" /\ "features" \in Top.seen
               /\ Nested => Stopped
               /\ ~Nested => \/ Streams(Top) /\ step' = "read" /\ stack' = Front(stack)
                             \/ ~Streams(Top) /\ EnterFeatures(Streaming(Top))
            \/ /\ Stopped /\ Top.type # "Feature"
               /\ ~(Top.type = "FeatureCollection" /\ "features" \in Top.seen)
  <1> DEFINE collects == Top.type = "FeatureCollection" /\ "features" \in Top.seen
  <1>1. /\ step = "read" /\ InObject /\ Top.keys = <<>>
        /\ CASE Top.type = "Feature" ->
                  /\ ~({"geometry", "properties"} \subseteq Top.seen)
                  /\ Stop("bad feature") /\ UNCHANGED stack
             [] collects ->
                  IF Nested THEN Stop("nested collection") /\ UNCHANGED stack
                  ELSE IF Top.streamed THEN stack' = Front(stack) /\ UNCHANGED <<step, verdict>>
                  ELSE EnterFeatures([Top EXCEPT !.streamed = TRUE])
             [] OTHER -> Stop("unsupported") /\ UNCHANGED stack
    BY Zenon DEF EndObject, AtEnd
  <1>2. /\ "bad feature" \in BadWords /\ "nested collection" \in BadWords
        /\ "unsupported" \in BadWords
    BY DEF BadWords
  <1>3. collects => Top.type # "Feature"
    OBVIOUS
  <1> HIDE DEF collects
  <1>4. CASE Top.type = "Feature"
    <2>1. /\ ~({"geometry", "properties"} \subseteq Top.seen)
          /\ Stop("bad feature") /\ UNCHANGED stack
      BY <1>1, <1>3, <1>4, Zenon
    <2> QED
      BY <1>1, <1>2, <1>4, <2>1, Zenon DEF Stop, Stopped
  <1>5. CASE collects
    <2>1. IF Nested THEN Stop("nested collection") /\ UNCHANGED stack
          ELSE IF Top.streamed THEN stack' = Front(stack) /\ UNCHANGED <<step, verdict>>
          ELSE EnterFeatures([Top EXCEPT !.streamed = TRUE])
      BY <1>1, <1>3, <1>5, Zenon
    <2>2. Nested => Stopped
      BY <1>2, <2>1, Zenon DEF Stop, Stopped
    <2>3. ~Nested => \/ Streams(Top) /\ step' = "read" /\ stack' = Front(stack)
                     \/ ~Streams(Top) /\ EnterFeatures(Streaming(Top))
      BY <1>1, <2>1, Zenon DEF Streams, Streaming
    <2> QED
      BY <1>1, <1>5, <2>2, <2>3, Zenon DEF collects
  <1>6. CASE Top.type # "Feature" /\ ~collects
    <2>1. Stop("unsupported") /\ UNCHANGED stack
      BY <1>1, <1>6, Zenon
    <2> QED
      BY <1>1, <1>2, <1>6, <2>1, Zenon DEF Stop, Stopped, collects
  <1> QED
    BY <1>4, <1>5, <1>6, Zenon

(* The end of an object that is no feature.                                 *)
LEMMA EndStep ==
  ASSUME NEW v, ValueOK(v), NEW m, Partway(v, stack, m), EndObject
  PROVE  \/ step' = "read" /\ Progress(v, stack', m)
         \/ Stopped /\ ~SoundValue(v)
  <1>1. /\ step = "read" /\ InObject /\ Top.keys = <<>>
        /\ \/ /\ Stopped /\ Top.type = "Feature"
              /\ ~({"geometry", "properties"} \subseteq Top.seen)
           \/ /\ Top.type = "FeatureCollection" /\ "features" \in Top.seen
              /\ Nested => Stopped
              /\ ~Nested => \/ Streams(Top) /\ step' = "read" /\ stack' = Front(stack)
                            \/ ~Streams(Top) /\ EnterFeatures(Streaming(Top))
           \/ /\ Stopped /\ Top.type # "Feature"
              /\ ~(Top.type = "FeatureCollection" /\ "features" \in Top.seen)
    BY EndIs
  <1>2. PICK o : TopIs(v, o, m)
    BY <1>1, TopExists
  <1>3. Frame(Top, o)
    BY <1>2 DEF TopIs
  <1>4. /\ Top.object = o /\ o.kind = "object" /\ Top.seen = ToSet(o.keys) /\ IsInjective(o.keys)
        /\ Top.type = IF Has(o, "type") THEN o.type ELSE ""
        /\ \A key \in ToSet(o.keys) : Unsound(o, key) => key = "features" /\ Streams(Top)
    BY <1>1, <1>3, FrameEnds
  <1>5. /\ Nested => ~Streams(Top) /\ (~SoundFeature(o) => ~SoundValue(v))
        /\ ~Nested => o = v /\ Front(stack) = <<>>
        /\ ~Nested /\ Streams(Top) => SoundFeatures(v.features) /\ m = Len(v.features.elements)
        /\ ~Nested /\ ~Streams(Top) => m = 0
    BY <1>2, Zenon DEF TopIs
  <1>6. ~SoundFeatures(o)
    BY <1>4 DEF SoundFeatures
  <1>7. CASE Stopped /\ Top.type = "Feature" /\ ~({"geometry", "properties"} \subseteq Top.seen)
    <2>1. ~(Has(o, "geometry") /\ Has(o, "properties"))
      BY <1>4, <1>7 DEF Has
    <2>2. ~SoundFeature(o)
      BY <2>1 DEF SoundFeature
    <2>3. o.type = "Feature"
      BY <1>4, <1>7
    <2>4. ~SoundValue(o)
      BY <1>6, <2>2, <2>3 DEF SoundValue
    <2> QED
      BY <1>5, <1>7, <2>2, <2>4, Zenon
  <1>8. CASE /\ Top.type = "FeatureCollection" /\ "features" \in Top.seen
             /\ Nested => Stopped
             /\ ~Nested => \/ Streams(Top) /\ step' = "read" /\ stack' = Front(stack)
                           \/ ~Streams(Top) /\ EnterFeatures(Streaming(Top))
    <2>1. o.type = "FeatureCollection" /\ Has(o, "type")
      BY <1>4, <1>8
    <2>2. CASE Nested
      <3>1. ~SoundFeature(o)
        BY <2>1 DEF SoundFeature
      <3> QED
        BY <1>5, <1>8, <2>2, <3>1, Zenon
    <2>3. CASE ~Nested /\ Streams(Top)
      <3>1. o = v /\ SoundFeatures(v.features) /\ m = Len(v.features.elements)
        BY <1>5, <2>3
      <3>2. ~Unsound(v, "features")
        <4>1. v.features.kind = "array"
              /\ \A i \in DOMAIN v.features.elements : SoundFeature(v.features.elements[i])
          BY <3>1 DEF SoundFeatures
        <4>2. \A i \in DOMAIN v.features.elements : IsInjective(v.features.elements[i].keys)
          BY <4>1, Zenon DEF SoundFeature
        <4>3. ~Repeats(v.features)
          BY <4>2, Zenon DEF Repeats
        <4> QED
          BY <4>1, <4>3 DEF Unsound
      <3>3. \A key \in ToSet(v.keys) : ~Unsound(v, key)
        BY <1>4, <3>1, <3>2, Zenon
      <3>4. Has(v, "features")
        BY <1>4, <1>8, <3>1 DEF Has
      <3>5. SoundValue(v)
        BY <1>4, <2>1, <3>1, <3>3, <3>4, Zenon DEF SoundValue
      <3>6. FeaturesOf(v) = v.features.elements
        BY <1>4, <2>1, <3>1 DEF FeaturesOf
      <3>7. stack' = <<>> /\ step' = "read"
        BY <1>5, <1>8, <2>3, Zenon
      <3> QED
        BY <3>1, <3>5, <3>6, <3>7, Zenon DEF Progress
    <2>4. CASE ~Nested /\ ~Streams(Top)
      <3> DEFINE st == Streaming(Top)
      <3>1. o = v /\ Front(stack) = <<>> /\ m = 0
        BY <1>5, <2>4, Zenon
      <3>2. Frame(st, v) /\ Streams(st)
        BY <1>3, <1>8, <3>1, FrameDefers
      <3> HIDE DEF st
      <3>3. EnterFeatures(st) /\ step = "read" /\ v.kind = "object" /\ v.type = "FeatureCollection"
        BY <1>1, <1>4, <1>8, <2>1, <2>4, <3>1, Zenon DEF st
      <3>4. \/ step' = "read" /\ Partway(v, stack', 0)
            \/ Stopped /\ ~SoundValue(v)
        BY <3>1, <3>2, <3>3, EnterIs
      <3> QED
        BY <3>1, <3>4, Zenon DEF Progress
    <2> QED
      BY <2>2, <2>3, <2>4
  <1>9. CASE /\ Stopped /\ Top.type # "Feature"
             /\ ~(Top.type = "FeatureCollection" /\ "features" \in Top.seen)
    <2>1. ~(o.type = "Feature" /\ Has(o, "type"))
      BY <1>4, <1>9
    <2>2. ~SoundFeature(o)
      BY <2>1 DEF SoundFeature
    <2>3. ~(o.type = "FeatureCollection" /\ Has(o, "type") /\ Has(o, "features"))
      BY <1>4, <1>9 DEF Has
    <2>4. ~SoundValue(o)
      BY <1>6, <2>2, <2>3 DEF SoundValue
    <2> QED
      BY <1>5, <1>9, <2>2, <2>4, Zenon
  <1> QED
    BY <1>1, <1>7, <1>8, <1>9, Zenon

(* A feature that is visited.                                               *)
LEMMA VisitIs ==
  ASSUME NEW v, ValueOK(v), NEW m, Partway(v, stack, m), Visits
  PROVE  /\ step = "read" /\ IsObject(Top.object) /\ m \in Nat
         /\ Top.object.kind = "object"
         /\ Refused(Top.object) => ~SoundValue(v)
         /\ ~Refused(Top.object) => Progress(v, Front(stack), m + 1)
         /\ SoundValue(v) => /\ m + 1 \in 1..Len(FeaturesOf(v))
                             /\ FeaturesOf(v)[m + 1] = Top.object
  <1>1. /\ step = "read" /\ InObject /\ Top.keys = <<>> /\ Top.type = "Feature"
        /\ {"geometry", "properties"} \subseteq Top.seen
    BY Zenon DEF Visits, AtEnd
  <1>2. PICK o : TopIs(v, o, m)
    BY <1>1, TopExists
  <1>3. /\ Frame(Top, o) /\ IsObject(o) /\ m \in Nat
        /\ Nested => ~Streams(Top) /\ (~SoundFeature(o) => ~SoundValue(v))
        /\ ~Nested => o = v /\ Front(stack) = <<>>
        /\ SoundFeature(o) /\ ~Streams(Top) => Progress(v, Front(stack), m + 1)
        /\ SoundValue(v) /\ ~Streams(Top) /\ (Nested \/ o.type = "Feature") =>
             m + 1 \in 1..Len(FeaturesOf(v)) /\ FeaturesOf(v)[m + 1] = o
    BY <1>2, Zenon DEF TopIs
  <1>4. /\ Top.object = o /\ o.kind = "object" /\ Top.seen = ToSet(o.keys) /\ IsInjective(o.keys)
        /\ Top.type = IF Has(o, "type") THEN o.type ELSE ""
        /\ \A key \in ToSet(o.keys) : Unsound(o, key) => key = "features" /\ Streams(Top)
    BY <1>1, <1>3, FrameEnds
  <1>5. ~Streams(Top)
    <2>1. Streams(Top) => Top.type = "FeatureCollection"
      BY <1>3, Zenon DEF Frame
    <2> QED
      BY <1>1, <2>1
  <1>6. /\ o.type = "Feature" /\ Has(o, "type") /\ Has(o, "geometry") /\ Has(o, "properties")
        /\ \A key \in ToSet(o.keys) : ~Unsound(o, key)
    <2>1. o.type = "Feature" /\ Has(o, "type") /\ Has(o, "geometry") /\ Has(o, "properties")
      BY <1>1, <1>4 DEF Has
    <2> QED
      BY <1>4, <1>5, <2>1, Zenon
  <1>7. ~Refused(o) => SoundFeature(o)
    BY <1>4, <1>6, Zenon DEF Refused, SoundFeature
  <1>8. Refused(o) => ~SoundFeature(o)
    BY Zenon DEF Refused, SoundFeature
  <1>9. ~SoundFeatures(o) /\ o.type # "FeatureCollection"
    BY <1>4, <1>6 DEF SoundFeatures
  <1>10. Refused(o) => ~SoundValue(v)
    <2>1. ~SoundFeature(o) => ~SoundValue(o)
      BY <1>9, Zenon DEF SoundValue
    <2> QED
      BY <1>3, <1>8, <2>1, Zenon
  <1> QED
    BY <1>1, <1>3, <1>4, <1>5, <1>6, <1>7, <1>10, Zenon

-----------------------------------------------------------------------------
(* What is read, from the first step to the last. *)

Ended(in, c, why) ==
    /\ why \notin {"ok", "write failed", "cannot create"} => ~SoundInput(in)
    /\ why = "ok" => \/ SoundInput(in) /\ c = Len(All(in.values))
                     \/ c = in.limit /\ (SoundInput(in) => c \in 0..Len(All(in.values)))

ReadInv ==
    /\ InputOK(input) /\ count \in Nat /\ (input.limit >= 0 => count <= input.limit)
    /\ step = "open" => values = input.values /\ stack = <<>> /\ count = 0
    /\ step = "read" => ReadSoFar(input.values, values, stack, count)
    /\ step = "close" \/ step = "done" => Ended(input, count, verdict)

(* Within a value, the k-th.                                                *)
Inside(in, rest, st, c, k) ==
    /\ IsRest(rest, in.values) /\ k = Gone(rest, in.values) /\ k \in 1..Len(in.values)
    /\ SoundTo(in.values, k - 1) /\ ValueOK(in.values[k])
    /\ \E m \in Nat : /\ Partway(in.values[k], st, m)
                      /\ c = Len(Flat(Lists(in.values), k - 1)) + m

(* There reading is when it has begun a value.                              *)
LEMMA SoFarWithin ==
  ASSUME NEW in, InputOK(in), NEW rest, NEW st, st # <<>>, NEW c, ReadSoFar(in.values, rest, st, c)
  PROVE  Inside(in, rest, st, c, Gone(rest, in.values))
  <1> DEFINE k == Gone(rest, in.values)
  <1>1. IsRest(rest, in.values) /\ Within(in.values, k, st, c)
    BY Zenon DEF ReadSoFar
  <1> HIDE DEF k
  <1>2. ValueOK(in.values[k])
    BY <1>1 DEF Within, InputOK
  <1>3. k = Gone(rest, in.values)
    BY DEF k
  <1>4. Inside(in, rest, st, c, k)
    BY <1>1, <1>2, <1>3, Zenon DEF Within, Inside
  <1> QED
    BY <1>4 DEF k

(* A stop that says that the input is bad.                                  *)
LEMMA BadEnd ==
  ASSUME NEW in, ~SoundInput(in), NEW c, NEW why, why \in BadWords
  PROVE  Ended(in, c, why)
  BY DEF Ended, BadWords

(* A step within a value keeps the invariant.                               *)
LEMMA InsideStep ==
  ASSUME ReadInv, step = "read", stack # <<>>, UNCHANGED <<input, values, count>>,
         \A v, m : ValueOK(v) /\ Partway(v, stack, m) =>
                     \/ step' = "read" /\ Progress(v, stack', m)
                     \/ Stopped /\ ~SoundValue(v)
  PROVE  ReadInv'
  <1> DEFINE k == Gone(values, input.values)
  <1>1. /\ InputOK(input) /\ count \in Nat /\ (input.limit >= 0 => count <= input.limit)
        /\ ReadSoFar(input.values, values, stack, count)
    BY DEF ReadInv
  <1>2. /\ IsRest(values, input.values) /\ k \in 1..Len(input.values)
        /\ SoundTo(input.values, k - 1) /\ ValueOK(input.values[k])
        /\ \E m \in Nat : /\ Partway(input.values[k], stack, m)
                          /\ count = Len(Flat(Lists(input.values), k - 1)) + m
    <2>1. Inside(input, values, stack, count, k)
      BY <1>1, SoFarWithin
    <2> HIDE DEF k
    <2> QED
      BY <2>1, Zenon DEF Inside
  <1>3. PICK m \in Nat : /\ Partway(input.values[k], stack, m)
                         /\ count = Len(Flat(Lists(input.values), k - 1)) + m
    BY <1>2
  <1>4. \/ step' = "read" /\ Progress(input.values[k], stack', m)
        \/ Stopped /\ ~SoundValue(input.values[k])
    BY <1>2, <1>3, Zenon
  <1>5. CASE step' = "read" /\ Progress(input.values[k], stack', m)
    <2>1. ReadSoFar(input.values, values, stack', count)
      BY <1>1, <1>2, <1>3, <1>5, StepWithin
    <2>2. ReadSoFar(input.values, values, stack, count)'
      BY <2>1
    <2> QED
      BY <1>1, <1>5, <2>2 DEF ReadInv
  <1>6. CASE Stopped /\ ~SoundValue(input.values[k])
    <2>1. ~SoundInput(input)
      BY <1>1, <1>2, <1>6, BadValue
    <2>2. step' = "close" /\ verdict' \in BadWords
      BY <1>6 DEF Stopped
    <2>3. Ended(input, count, verdict')
      BY <2>1, <2>2, BadEnd
    <2>4. Ended(input, count, verdict)'
      BY <2>3
    <2> QED
      BY <1>1, <2>2, <2>4 DEF ReadInv
  <1> QED
    BY <1>4, <1>5, <1>6

(* What opening the files does besides.                                     *)
LEMMA OpenIs ==
  ASSUME Open
  PROVE  /\ step = "open" /\ UNCHANGED <<input, values, stack, count>>
         /\ \/ step' = "done" /\ verdict' = "cannot create"
            \/ step' = "read"
  BY DEF Open

(* The files are opened.                                                    *)
LEMMA OpenRead ==
  ASSUME ReadInv, Open
  PROVE  ReadInv'
  <1>1. /\ InputOK(input) /\ count \in Nat /\ (input.limit >= 0 => count <= input.limit)
        /\ values = input.values /\ stack = <<>> /\ count = 0
        /\ UNCHANGED <<input, values, stack, count>>
    BY OpenIs, Zenon DEF ReadInv
  <1>2. \/ step' = "done" /\ verdict' = "cannot create"
        \/ step' = "read"
    BY OpenIs
  <1>3. CASE step' = "done" /\ verdict' = "cannot create"
    <2>1. Ended(input, count, verdict')
      BY <1>3 DEF Ended
    <2>2. Ended(input, count, verdict)'
      BY <1>1, <2>1
    <2> QED
      BY <1>1, <1>3, <2>2 DEF ReadInv
  <1>4. CASE step' = "read"
    <2> DEFINE vs == input.values
    <2>1. IsSeq(vs)
      BY <1>1 DEF InputOK
    <2>2. IsRest(vs, vs) /\ Gone(vs, vs) = 0
      BY <2>1, RestWhole
    <2>3. Flat(Lists(vs), 0) = <<>> /\ Len(<<>>) = 0 /\ \A i : i \notin 1..0
      BY FlatNothing
    <2>4. Between(vs, vs, 0)
      BY <2>2, <2>3 DEF Between, SoundTo
    <2>5. ReadSoFar(vs, vs, <<>>, 0)
      BY <2>2, <2>4 DEF ReadSoFar
    <2>6. ReadSoFar(input.values, values, stack, count)'
      BY <1>1, <2>5
    <2> QED
      BY <1>1, <1>4, <2>6 DEF ReadInv
  <1> QED
    BY <1>2, <1>3, <1>4

(* A value is begun, or there is none.                                      *)
LEMMA ValueRead ==
  ASSUME ReadInv, ReadValue
  PROVE  ReadInv'
  <1> DEFINE vs == input.values
             k == Gone(values, vs)
  <1>1. /\ InputOK(input) /\ count \in Nat /\ (input.limit >= 0 => count <= input.limit)
        /\ ReadSoFar(vs, values, <<>>, count) /\ step = "read" /\ stack = <<>>
        /\ UNCHANGED <<input, count>>
    BY DEF ReadInv, ReadValue
  <1>2. /\ values = <<>> => Stop(IF vs = <<>> THEN "empty" ELSE "ok")
        /\ values # <<>> => Begin(Head(values), <<>>) /\ values' = Tail(values)
    BY Zenon DEF ReadValue
  <1>3. IsRest(values, vs) /\ Between(vs, values, count)
    <2>1. \A v, m : ~Partway(v, <<>>, m)
      BY <1>1, Shapes
    <2>2. ~Within(vs, k, <<>>, count)
      BY <2>1, Zenon DEF Within
    <2> QED
      BY <1>1, <2>2, Zenon DEF ReadSoFar
  <1>4. /\ k \in Nat /\ k <= Len(vs) /\ Len(vs) \in Nat /\ (values = <<>> <=> k = Len(vs))
    BY <1>3, RestBounds
  <1>5. SoundTo(vs, k) /\ count = Len(Flat(Lists(vs), k))
    BY <1>3 DEF Between
  <1> HIDE DEF vs, k
  <1>6. CASE values = <<>>
    <2>1. step' = "close" /\ verdict' = IF vs = <<>> THEN "empty" ELSE "ok"
      BY <1>2, <1>6, Zenon DEF Stop
    <2>2. CASE vs = <<>>
      <3>1. ~SoundInput(input)
        BY <2>2 DEF SoundInput, vs
      <3>2. verdict' = "empty"
        BY <2>1, <2>2
      <3>3. Ended(input, count, verdict')
        BY <3>1, <3>2 DEF Ended
      <3>4. Ended(input, count, verdict)'
        BY <1>1, <3>3
      <3> QED
        BY <1>1, <2>1, <3>4 DEF ReadInv
    <2>3. CASE vs # <<>>
      <3>1. SoundInput(input)
        <4>1. DOMAIN vs = 1..Len(vs)
          BY <1>1, SeqFacts DEF InputOK, vs
        <4> QED
          BY <1>4, <1>5, <1>6, <2>3, <4>1 DEF SoundInput, SoundTo, vs
      <3>2. All(vs) = Flat(Lists(vs), Len(vs))
        BY <1>1, <3>1, AllAre DEF vs
      <3>3. count = Len(All(vs)) /\ verdict' = "ok"
        BY <1>4, <1>5, <1>6, <2>1, <2>3, <3>2
      <3>4. Ended(input, count, verdict')
        BY <3>1, <3>3 DEF Ended, vs
      <3>5. Ended(input, count, verdict)'
        BY <1>1, <3>4
      <3> QED
        BY <1>1, <2>1, <3>5 DEF ReadInv
    <2> QED
      BY <2>2, <2>3
  <1>7. CASE values # <<>>
    <2> DEFINE rest == Tail(values)
               j == k + 1
               v == vs[j]
    <2>1. /\ IsRest(rest, vs) /\ Gone(rest, vs) = j /\ j \in 1..Len(vs) /\ Head(values) = v
      BY <1>3, <1>7, RestTail DEF k
    <2>2. ValueOK(v)
      BY <1>1, <2>1 DEF InputOK, vs
    <2>3. j - 1 = k
      BY <1>4
    <2> HIDE DEF rest, j, v
    <2>4. Begin(v, <<>>) /\ values' = rest
      BY <1>2, <1>7, <2>1 DEF rest
    <2>5. \/ v.kind = "object" /\ stack' = Append(<<>>, NewFrame(v)) /\ step' = "read"
          \/ v.kind = "array" /\ stack' = Append(<<>>, [elements |-> v.elements]) /\ step' = "read"
          \/ v.kind # "object" /\ v.kind # "array" /\ Stopped
      BY <1>1, <2>4, BeginIs, Zenon
    <2>6. ASSUME step' = "read", Progress(v, stack', 0)  PROVE ReadInv'
      <3>1. 0 \in Nat /\ count = Len(Flat(Lists(vs), j - 1)) + 0
        BY <1>1, <1>5, <2>3
      <3>2. ReadSoFar(vs, rest, stack', count)
        BY <1>1, <1>5, <2>1, <2>3, <2>6, <3>1, StepWithin DEF v, vs
      <3>3. ReadSoFar(input.values, values, stack, count)'
        BY <1>1, <2>4, <3>2 DEF vs
      <3> QED
        BY <1>1, <2>6, <3>3 DEF ReadInv
    <2>7. CASE v.kind = "object" /\ stack' = Append(<<>>, NewFrame(v)) /\ step' = "read"
      <3>1. Append(<<>>, NewFrame(v)) = <<NewFrame(v)>>
        BY OneTwoThree, Zenon
      <3>2. Frame(NewFrame(v), v) /\ ~Streams(NewFrame(v))
        BY <2>2, <2>7, FrameBegins DEF ValueOK
      <3>3. Partway(v, stack', 0)
        BY <2>7, <3>1, <3>2, Zenon DEF Partway
      <3> QED
        BY <2>6, <2>7, <3>3, Zenon DEF Progress
    <2>8. CASE v.kind = "array" /\ stack' = Append(<<>>, [elements |-> v.elements]) /\ step' = "read"
      <3> DEFINE e == [elements |-> v.elements]
      <3>1. Append(<<>>, e) = <<e>>
        BY OneTwoThree, Zenon
      <3>2. IsArray(v)
        BY <2>2 DEF ValueOK
      <3>3. IsSeq(v.elements)
        BY <2>8, <3>2, ArrayIs
      <3>4. e.elements = v.elements /\ e = [elements |-> e.elements]
        OBVIOUS
      <3> HIDE DEF e
      <3>5. IsRest(e.elements, v.elements) /\ Gone(e.elements, v.elements) = 0
        BY <3>3, <3>4, RestWhole
      <3>6. 0 \in Nat /\ \A i : i \notin 1..0
        OBVIOUS
      <3>7. ArrayOnly(e, v, 0)
        BY <2>8, <3>2, <3>4, <3>5, <3>6, Zenon DEF ArrayOnly, Reads
      <3>8. Partway(v, stack', 0)
        BY <2>8, <3>1, <3>7, Zenon DEF Partway, e
      <3> QED
        BY <2>6, <2>8, <3>8, Zenon DEF Progress
    <2>9. CASE v.kind # "object" /\ v.kind # "array" /\ Stopped
      <3>1. ~SoundValue(v)
        BY <2>9 DEF SoundValue, SoundFeature, SoundFeatures
      <3>2. ~SoundInput(input)
        BY <1>1, <2>1, <3>1, BadValue DEF v, vs
      <3>3. step' = "close" /\ verdict' \in BadWords
        BY <2>9 DEF Stopped
      <3>4. Ended(input, count, verdict')
        BY <3>2, <3>3, BadEnd
      <3>5. Ended(input, count, verdict)'
        BY <1>1, <3>4
      <3> QED
        BY <1>1, <3>3, <3>5 DEF ReadInv
    <2> QED
      BY <2>5, <2>7, <2>8, <2>9
  <1> QED
    BY <1>6, <1>7

(* What is known of a feature that is visited, among all.                   *)
LEMMA VisitWithin ==
  ASSUME ReadInv, Visits
  PROVE  /\ IsObject(Top.object) /\ Top.object.kind = "object" /\ count \in Nat
         /\ Refused(Top.object) => ~SoundInput(input)
         /\ ~Refused(Top.object) => ReadSoFar(input.values, values, Front(stack), count + 1)
         /\ SoundInput(input) => /\ count \in 0..Len(All(input.values))
                                 /\ count + 1 \in 1..Len(All(input.values))
                                 /\ All(input.values)[count + 1] = Top.object
  <1> DEFINE k == Gone(values, input.values)
             v == input.values[k]
             o == Top.object
  <1>1. step = "read" /\ stack # <<>>
    BY Zenon DEF Visits, AtEnd, InObject
  <1>2. InputOK(input) /\ count \in Nat /\ ReadSoFar(input.values, values, stack, count)
    BY <1>1, Zenon DEF ReadInv
  <1>3. Inside(input, values, stack, count, k)
    BY <1>1, <1>2, SoFarWithin
  <1> HIDE DEF k
  <1>4. /\ IsRest(values, input.values) /\ k = Gone(values, input.values)
        /\ k \in 1..Len(input.values) /\ SoundTo(input.values, k - 1) /\ ValueOK(v)
        /\ \E m \in Nat : /\ Partway(v, stack, m)
                          /\ count = Len(Flat(Lists(input.values), k - 1)) + m
    BY <1>3, Zenon DEF Inside
  <1>5. PICK m \in Nat : /\ Partway(v, stack, m)
                         /\ count = Len(Flat(Lists(input.values), k - 1)) + m
    BY <1>4
  <1>6. /\ IsObject(o) /\ o.kind = "object"
        /\ Refused(o) => ~SoundValue(v)
        /\ ~Refused(o) => Progress(v, Front(stack), m + 1)
        /\ SoundValue(v) => m + 1 \in 1..Len(FeaturesOf(v)) /\ FeaturesOf(v)[m + 1] = o
    <2> HIDE DEF v
    <2> QED
      BY <1>4, <1>5, VisitIs
  <1>7. Refused(o) => ~SoundInput(input)
    BY <1>2, <1>4, <1>6, BadValue
  <1>8. ASSUME ~Refused(o)  PROVE ReadSoFar(input.values, values, Front(stack), count + 1)
    <2> DEFINE a == Len(Flat(Lists(input.values), k - 1))
    <2>1. a \in Nat
      <3>1. Len(input.values) \in Nat
        BY <1>2, SeqFacts DEF InputOK
      <3>2. k - 1 \in 0..Len(input.values)
        BY <1>4, <3>1
      <3> QED
        BY <1>2, <1>4, <3>2, ListsAre
    <2>2. m + 1 \in Nat /\ count = a + m
      BY <1>5
    <2> HIDE DEF a
    <2>3. count + 1 = a + (m + 1)
      BY <2>1, <2>2
    <2>4. Progress(v, Front(stack), m + 1)
      BY <1>6, <1>8
    <2> QED
      BY <1>2, <1>4, <2>2, <2>3, <2>4, StepWithin DEF a
  <1>9. ASSUME SoundInput(input)
        PROVE  /\ count \in 0..Len(All(input.values))
               /\ count + 1 \in 1..Len(All(input.values))
               /\ All(input.values)[count + 1] = o
    <2>1. SoundValue(v)
      BY <1>2, <1>4, <1>9, BadValue
    <2>2. m + 1 \in 1..Len(FeaturesOf(v)) /\ FeaturesOf(v)[m + 1] = o
      BY <1>6, <2>1
    <2>3. IsSeq(FeaturesOf(v))
      BY <1>4, <2>1, ListType
    <2>4. Len(FeaturesOf(v)) \in Nat
      BY <2>3, SeqFacts
    <2>5. m <= Len(FeaturesOf(v)) /\ m < Len(FeaturesOf(v))
      <3> DEFINE n == Len(FeaturesOf(v))
      <3>1. m \in Nat /\ m + 1 \in 1..n /\ n \in Nat
        BY <1>5, <2>2, <2>4
      <3> HIDE DEF n
      <3>2. m <= n /\ m < n
        BY <3>1
      <3> QED
        BY <3>2 DEF n
    <2>6. m \in Nat /\ count = Len(Flat(Lists(input.values), k - 1)) + m
      BY <1>5
    <2>7. k \in 1..Len(input.values)
      BY <1>4
    <2>8. /\ m <= Len(FeaturesOf(input.values[k])) => count \in 0..Len(All(input.values))
          /\ m < Len(FeaturesOf(input.values[k])) =>
               /\ count + 1 \in 1..Len(All(input.values))
               /\ All(input.values)[count + 1] = FeaturesOf(input.values[k])[m + 1]
      BY <1>2, <1>9, <2>6, <2>7, FeatureAt
    <2> QED
      BY <2>2, <2>5, <2>8, Zenon
  <1> QED
    BY <1>2, <1>6, <1>7, <1>8, <1>9

(* Reading ends with the limit.                                             *)
LEMMA LimitRead ==
  ASSUME ReadInv, LimitReached
  PROVE  ReadInv'
  <1>1. /\ Visits /\ AtLimit /\ step' = "close" /\ verdict' = "ok"
        /\ UNCHANGED <<input, values, stack, count>>
    BY Zenon DEF LimitReached, Stop
  <1>2. /\ InputOK(input) /\ count \in Nat /\ (input.limit >= 0 => count <= input.limit)
        /\ input.limit \in Int
    BY DEF ReadInv, InputOK
  <1>3. count = input.limit
    <2>1. input.limit >= 0 /\ count >= input.limit
      BY <1>1 DEF AtLimit
    <2> QED
      BY <1>2, <2>1
  <1>4. SoundInput(input) => count \in 0..Len(All(input.values))
    BY <1>1, VisitWithin
  <1>5. Ended(input, count, verdict')
    BY <1>1, <1>3, <1>4 DEF Ended
  <1>6. Ended(input, count, verdict)'
    BY <1>1, <1>5
  <1> QED
    BY <1>1, <1>2, <1>6 DEF ReadInv

(* A feature that is no point with a name ends it.                          *)
LEMMA RefusedRead ==
  ASSUME ReadInv, RefuseFeature
  PROVE  ReadInv'
  <1>1. /\ Visits /\ Refused(Top.object) /\ step' = "close" /\ verdict' = "bad feature"
        /\ UNCHANGED <<input, values, stack, count>>
    BY Zenon DEF RefuseFeature, Stop
  <1>2. InputOK(input) /\ count \in Nat /\ (input.limit >= 0 => count <= input.limit)
    BY DEF ReadInv
  <1>3. ~SoundInput(input)
    BY <1>1, VisitWithin
  <1>4. "bad feature" \in BadWords
    BY DEF BadWords
  <1>5. Ended(input, count, verdict')
    BY <1>1, <1>3, <1>4, BadEnd
  <1>6. Ended(input, count, verdict)'
    BY <1>1, <1>5
  <1> QED
    BY <1>1, <1>2, <1>6 DEF ReadInv

(* What becomes of a feature that is converted.                             *)
LEMMA ConvertIs ==
  ASSUME ConvertFeature
  PROVE  /\ Visits /\ ~AtLimit /\ ~Refused(Top.object) /\ UNCHANGED <<input, values>>
         /\ count' = count + 1
         /\ indexCount' = indexCount + IF AsTag(Top.object) THEN 1 ELSE 0
         /\ \/ /\ Write(Writes(Top.object)) /\ stack' = Front(stack)
               /\ offset' = offset + IF AsTag(Top.object) THEN Len(Bytes(Top.object.named.text)) ELSE 0
               /\ UNCHANGED <<step, verdict>>
            \/ step' = "close" /\ verdict' = "write failed"
  BY Zenon DEF ConvertFeature, Stop

(* One more than what is below a limit is within it.                        *)
LEMMA BelowLimit ==
  \A l \in Int, c \in Nat : ~(l >= 0 /\ c >= l) => c + 1 \in Nat /\ (l >= 0 => c + 1 <= l)
  OBVIOUS

(* A feature is converted, and counted.                                     *)
LEMMA ConvertRead ==
  ASSUME ReadInv, ConvertFeature
  PROVE  ReadInv'
  <1>1. /\ Visits /\ ~AtLimit /\ ~Refused(Top.object) /\ UNCHANGED <<input, values>>
        /\ count' = count + 1
        /\ \/ stack' = Front(stack) /\ UNCHANGED <<step, verdict>>
           \/ step' = "close" /\ verdict' = "write failed"
    BY ConvertIs, Zenon
  <1>2. /\ InputOK(input) /\ count \in Nat /\ input.limit \in Int
        /\ step = "read"
    BY <1>1 DEF ReadInv, InputOK, Visits, AtEnd
  <1>3. count' \in Nat /\ (input.limit >= 0 => count' <= input.limit)
    <2>1. ~(input.limit >= 0 /\ count >= input.limit)
      BY <1>1 DEF AtLimit
    <2> QED
      BY <1>1, <1>2, <2>1, BelowLimit, Zenon
  <1>4. CASE stack' = Front(stack) /\ UNCHANGED <<step, verdict>>
    <2>1. ReadSoFar(input.values, values, stack', count')
      BY <1>1, <1>4, VisitWithin
    <2>2. ReadSoFar(input.values, values, stack, count)'
      BY <1>1, <2>1
    <2> QED
      BY <1>1, <1>2, <1>3, <1>4, <2>2 DEF ReadInv
  <1>5. CASE step' = "close" /\ verdict' = "write failed"
    <2>1. Ended(input, count', verdict')
      BY <1>5 DEF Ended
    <2>2. Ended(input, count, verdict)'
      BY <1>1, <2>1
    <2> QED
      BY <1>1, <1>2, <1>3, <1>5, <2>2 DEF ReadInv
  <1> QED
    BY <1>1, <1>4, <1>5

(* What closing the files does.                                             *)
LEMMA CloseIs ==
  ASSUME Close
  PROVE  /\ step = "close" /\ step' = "done"
         /\ UNCHANGED <<input, values, stack, count, indexCount, offset>>
         /\ \E failing \in {{}} \union {{f} : f \in Files} \union {Files} :
              /\ files' = [f \in Files |-> IF files[f].broken \/ f \in failing THEN files[f]
                                           ELSE Flushed(files[f])]
              /\ verdict' = IF verdict = "ok" /\ failing # {} THEN "write failed" ELSE verdict
  BY Zenon DEF Close

(* The files are closed.                                                    *)
LEMMA CloseRead ==
  ASSUME ReadInv, Close
  PROVE  ReadInv'
  <1>1. /\ step = "close" /\ step' = "done" /\ UNCHANGED <<input, values, stack, count>>
        /\ verdict' = verdict \/ verdict' = "write failed"
    BY CloseIs
  <1>2. /\ InputOK(input) /\ count \in Nat /\ (input.limit >= 0 => count <= input.limit)
        /\ Ended(input, count, verdict)
    BY <1>1, Zenon DEF ReadInv
  <1>3. Ended(input, count, verdict')
    <2>1. CASE verdict' = verdict
      BY <1>2, <2>1
    <2>2. CASE verdict' = "write failed"
      BY <2>2 DEF Ended
    <2> QED
      BY <1>1, <2>1, <2>2
  <1>4. Ended(input, count, verdict)'
    BY <1>1, <1>3
  <1> QED
    BY <1>1, <1>2, <1>4 DEF ReadInv

(* Every step of the program keeps what is known of reading.                *)
LEMMA ReadStepInv ==
  ASSUME ReadInv, [FilesNext]_fileVars
  PROVE  ReadInv'
  <1>1. CASE Open
    BY <1>1, OpenRead
  <1>2. CASE ReadValue
    BY <1>2, ValueRead
  <1>3. CASE ReadElement
    <2>1. step = "read" /\ stack # <<>> /\ UNCHANGED <<input, values, count>>
      BY <1>3, Zenon DEF ReadElement, InArray
    <2>2. \A v, m : ValueOK(v) /\ Partway(v, stack, m) =>
                      \/ step' = "read" /\ Progress(v, stack', m)
                      \/ Stopped /\ ~SoundValue(v)
      BY <1>3, ElementStep, Zenon
    <2> QED
      BY <2>1, <2>2, InsideStep
  <1>4. CASE ReadMember
    <2>1. step = "read" /\ stack # <<>> /\ UNCHANGED <<input, values, count>>
      BY <1>4, Zenon DEF ReadMember, InObject
    <2>2. \A v, m : ValueOK(v) /\ Partway(v, stack, m) =>
                      \/ step' = "read" /\ Progress(v, stack', m)
                      \/ Stopped /\ ~SoundValue(v)
      BY <1>4, MemberStep, Zenon
    <2> QED
      BY <2>1, <2>2, InsideStep
  <1>5. CASE EndObject
    <2>1. step = "read" /\ stack # <<>> /\ UNCHANGED <<input, values, count>>
      BY <1>5, Zenon DEF EndObject, AtEnd, InObject
    <2>2. \A v, m : ValueOK(v) /\ Partway(v, stack, m) =>
                      \/ step' = "read" /\ Progress(v, stack', m)
                      \/ Stopped /\ ~SoundValue(v)
      BY <1>5, EndStep, Zenon
    <2> QED
      BY <2>1, <2>2, InsideStep
  <1>6. CASE LimitReached
    BY <1>6, LimitRead
  <1>7. CASE RefuseFeature
    BY <1>7, RefusedRead
  <1>8. CASE ConvertFeature
    BY <1>8, ConvertRead
  <1>9. CASE Close
    BY <1>9, CloseRead
  <1>10. CASE UNCHANGED fileVars
    <2>1. UNCHANGED <<input, values, stack, step, count, verdict>>
      BY <1>10 DEF fileVars
    <2> QED
      BY <2>1 DEF ReadInv
  <1> QED
    BY <1>1, <1>2, <1>3, <1>4, <1>5, <1>6, <1>7, <1>8, <1>9, <1>10, Zenon DEF FilesNext

(* It is so at first.                                                       *)
LEMMA ReadInitInv ==
  ASSUME NEW inputs, FilesInit(inputs), \A in \in inputs : InputOK(in)
  PROVE  ReadInv
  <1>1. /\ InputOK(input) /\ values = input.values /\ stack = <<>> /\ step = "open" /\ count = 0
    BY Zenon DEF FilesInit
  <1>2. input.limit >= 0 => 0 <= input.limit
    BY <1>1 DEF InputOK
  <1> QED
    BY <1>1, <1>2 DEF ReadInv

(* The smaller of a limit and a number.                                     *)
LEMMA SmallerIs ==
  ASSUME NEW a \in Int, NEW b \in Int
  PROVE  Min({a, b}) = IF a <= b THEN a ELSE b
  <1>1. \E x \in {a, b} : \A y \in {a, b} : x <= y
    OBVIOUS
  <1>2. Min({a, b}) \in {a, b} /\ \A y \in {a, b} : Min({a, b}) <= y
    BY <1>1 DEF Min
  <1> QED
    BY <1>2

(* The steps of the program are steps of its reading, or none of it.        *)
LEMMA FilesSteps == [Next]_vars => [FilesNext]_fileVars
  BY DEF Next, Test, Convert, Returned, vars, fileVars

(* The input is one that was meant.                                         *)
LEMMA FilesInits ==
  Init => \E inputs : FilesInit(inputs) /\ \A in \in inputs : InputOK(in)
  <1>1. Init => \/ FilesInit({[values |-> <<>>, limit |-> -1, mode |-> "all"]})
                \/ FilesInit(FileInputs)
    BY Zenon DEF Init
  <1> QED
    BY <1>1, InputIs, Zenon

(* An input that is sound is converted up to the limit, and nothing else is *)
(* without one: in whatever order the members of its objects are written    *)
(* (visitEntiretyToken and convertEntirety).                                *)
THEOREM ReadsItExactly == Spec => []ReadsExactly
<1>1. Init => ReadInv
  BY FilesInits, ReadInitInv, Zenon
<1>2. ReadInv /\ [Next]_vars => ReadInv'
  BY FilesSteps, ReadStepInv
<1>3. ReadInv => ReadsExactly
  <2> SUFFICES ASSUME ReadInv PROVE ReadsExactly
    OBVIOUS
  <2>1. /\ InputOK(input) /\ count \in Nat /\ (input.limit >= 0 => count <= input.limit)
        /\ step = "done" => Ended(input, count, verdict)
    BY Zenon DEF ReadInv
  <2>2. (Sound <=> SoundInput(input)) /\ AllFeatures = All(input.values)
    BY Zenon DEF Sound, SoundInput, AllFeatures, All, Lists
  <2>3. ASSUME step = "done", Sound
        PROVE  /\ verdict \in {"ok", "write failed", "cannot create"}
               /\ verdict = "ok" => count = Limited(Len(AllFeatures))
    <3>1. verdict \in {"ok", "write failed", "cannot create"}
      BY <2>1, <2>2, <2>3, Zenon DEF Ended
    <3>2. ASSUME verdict = "ok"  PROVE count = Limited(Len(AllFeatures))
      <4> DEFINE n == Len(AllFeatures)
      <4>1. n \in Nat
        BY <2>1, <2>2, <2>3, AllAre
      <4>2. count = n \/ (count = input.limit /\ count \in 0..n)
        BY <2>1, <2>2, <2>3, <3>2, Zenon DEF Ended
      <4>3. input.limit \in Int
        BY <2>1 DEF InputOK
      <4> HIDE DEF n
      <4>4. Min({input.limit, n}) = IF input.limit <= n THEN input.limit ELSE n
        BY <4>1, <4>3, SmallerIs
      <4>5. count = IF input.limit >= 0 THEN IF input.limit <= n THEN input.limit ELSE n ELSE n
        BY <2>1, <4>1, <4>2, <4>3
      <4>6. count = Limited(n)
        BY <4>4, <4>5, Zenon DEF Limited
      <4> QED
        BY <4>6 DEF n
    <3> QED
      BY <3>1, <3>2
  <2>4. step = "done" /\ verdict = "ok" => Sound \/ count = input.limit
    BY <2>1, <2>2, Zenon DEF Ended
  <2> QED
    BY <2>1, <2>3, <2>4, Zenon DEF ReadsExactly
<1> QED
  BY <1>1, <1>2, <1>3, PTL DEF Spec

-----------------------------------------------------------------------------
(* What the files hold, from the first step to the last. *)

FirstRecords(in) == IF in.mode = "points" THEN 0 ELSE 1

TagsOf(in) ==
    {o \in ToSet(All(in.values)) : in.mode # "points" /\ o.named.text # <<>>}
PointsOf(in) ==
    {o \in ToSet(All(in.values)) :
        in.mode = "points" \/ (in.mode # "tags" /\ o.named.text = <<>>)}

CountedOf(in, c) == SubSeq(All(in.values), 1, c)

Live == step = "read" \/ ((step = "close" \/ step = "done") /\ verdict = "ok")

FilesInv ==
    /\ indexCount \in Nat
    /\ step = "open" => indexCount = 0 /\ offset = 0
    /\ Live => Agree(files, FirstRecords(input) + indexCount, offset)
    /\ Live /\ SoundInput(input) =>
         Contents(files, FirstRecords(input), CountedOf(input, count), TagsOf(input), PointsOf(input))
    /\ step = "done" /\ verdict = "ok" => \A f \in Files : files[f].pending = <<>>

(* The modes.                                                               *)
LEMMA ModesAre ==
  /\ PointsOnly <=> input.mode = "points"
  /\ TagsOnly <=> input.mode = "tags"
  /\ FirstRecords(input) = IF PointsOnly THEN 0 ELSE 1
  /\ FirstRecords(input) \in {0, 1}
  BY DEF PointsOnly, TagsOnly, FirstRecords

(* Files with nothing in them hold the records of nothing.                  *)
LEMMA ContentsEmpty ==
  ASSUME NEW fs, \A f \in Files : Held(fs[f]) = <<>>, NEW T, NEW P
  PROVE  Contents(fs, 0, <<>>, T, P)
  <1>1. /\ Held(fs["tag_text"]) = <<>> /\ Held(fs["tag_points"]) = <<>>
        /\ Held(fs["map_points"]) = <<>>
    BY TagFilesAre
  <1>2. IsSeq(<<>>) /\ Len(<<>>) = 0 /\ \A i : i \notin 1..0
    <2>1. <<>> \in Seq({})
      OBVIOUS
    <2> QED
      BY <2>1 DEF IsSeq
  <1>3. Picked(<<>>, T) = <<>> /\ Picked(<<>>, P) = <<>>
    <2>1. \A C : Picked(<<>>, C) = <<>>
      BY <1>2, PickedIs
    <2> QED
      BY <2>1, Zenon
  <1> QED
    BY <1>1, <1>2, <1>3 DEF Contents

(* And with the record that is no feature's, too.                           *)
LEMMA ContentsOpen ==
  ASSUME NEW fs, AreFiles(fs), \A f \in Files : Held(fs[f]) = <<>>, NEW T, NEW P,
         NEW off, NEW point, NEW index, NEW gs, TagWrote(gs, fs, off, Bytes(FailText), point, index)
  PROVE  Contents(gs, 1, <<>>, T, P)
  <1> DEFINE b == Bytes(FailText)
  <1>1. /\ Held(fs["tag_text"]) = <<>> /\ Held(fs["tag_points"]) = <<>>
        /\ Held(fs["map_points"]) = <<>>
    BY TagFilesAre
  <1>2. /\ Held(gs["tag_text"]) = Append(Held(fs["tag_text"]), b)
        /\ Held(gs["tag_points"]) = Append(Held(fs["tag_points"]), point)
        /\ Held(gs["map_points"]) = Held(fs["map_points"])
    BY Zenon DEF TagWrote, Wrote, Kept
  <1>3. IsSeq(<<>>) /\ Len(<<>>) = 0 /\ \A i : i \notin 1..0
    <2>1. <<>> \in Seq({})
      OBVIOUS
    <2> QED
      BY <2>1 DEF IsSeq
  <1>4. Picked(<<>>, T) = <<>> /\ Picked(<<>>, P) = <<>>
    <2>1. \A C : Picked(<<>>, C) = <<>>
      BY <1>3, PickedIs
    <2> QED
      BY <2>1, Zenon
  <1> HIDE DEF b
  <1>5. \A x : Len(Append(<<>>, x)) = 1 /\ Append(<<>>, x)[1] = x
    OBVIOUS
  <1>6. /\ Len(Held(gs["tag_text"])) = 1 /\ Held(gs["tag_text"])[1] = b
        /\ Len(Held(gs["tag_points"])) = 1 /\ Held(gs["map_points"]) = <<>>
    BY <1>1, <1>2, <1>5, Zenon
  <1> QED
    BY <1>3, <1>4, <1>6 DEF Contents, b

(* What opening does.                                                       *)
LEMMA OpenDoes ==
  ASSUME Open
  PROVE  /\ step = "open" /\ UNCHANGED <<input, count, indexCount>>
         /\ \/ step' = "done" /\ verdict' = "cannot create"
            \/ /\ step' = "read"
               /\ LET empty == [f \in Files |-> EmptyFile]
                      tag == Tag(FailText, FailLongitude, FailLatitude, 0)
                  IN files' = IF PointsOnly THEN empty ELSE After(empty, tag, Len(tag))
               /\ offset' = IF PointsOnly THEN 0 ELSE Len(Bytes(FailText))
  BY DEF Open

(* None are counted.                                                        *)
LEMMA CountedNone == \A in : CountedOf(in, 0) = <<>>
  <1> SUFFICES ASSUME NEW in  PROVE CountedOf(in, 0) = <<>>
    OBVIOUS
  <1> DEFINE s == All(in.values)
  <1> HIDE DEF s
  <1>1. 0 \in Nat
    OBVIOUS
  <1>2. SubSeq(s, 1, 0) = [i \in 1..0 |-> s[i]]
    BY <1>1, FirstOnes
  <1>3. [i \in 1..0 |-> s[i]] = <<>>
    BY NoIndex
  <1> QED
    BY <1>2, <1>3 DEF CountedOf, s

(* The files are opened.                                                    *)
LEMMA OpenFiles ==
  ASSUME ReadInv, FilesInv, Open
  PROVE  FilesInv'
  <1> DEFINE empty == [f \in Files |-> EmptyFile]
             tag == Tag(FailText, FailLongitude, FailLatitude, 0)
             T == TagsOf(input)
             P == PointsOf(input)
  <1>1. /\ step = "open" /\ UNCHANGED <<input, count, indexCount>>
        /\ \/ step' = "done" /\ verdict' = "cannot create"
           \/ /\ step' = "read"
              /\ files' = IF PointsOnly THEN empty ELSE After(empty, tag, Len(tag))
              /\ offset' = IF PointsOnly THEN 0 ELSE Len(Bytes(FailText))
    BY OpenDoes
  <1>2. indexCount = 0 /\ offset = 0 /\ count = 0
    BY <1>1, Zenon DEF FilesInv, ReadInv
  <1>3. Agree(empty, 0, 0) /\ \A f \in Files : Held(empty[f]) = <<>>
    BY AgreeEmpty
  <1>4. AreFiles(empty)
    BY <1>3 DEF Agree
  <1>5. CountedOf(input, count) = <<>>
    BY <1>2, CountedNone
  <1> HIDE DEF empty, tag, T, P
  <1>6. CASE step' = "done" /\ verdict' = "cannot create"
    BY <1>1, <1>2, <1>6 DEF FilesInv, Live
  <1>7. CASE /\ step' = "read"
             /\ files' = IF PointsOnly THEN empty ELSE After(empty, tag, Len(tag))
             /\ offset' = IF PointsOnly THEN 0 ELSE Len(Bytes(FailText))
    <2>1. ASSUME Agree(files', FirstRecords(input) + 0, offset'),
                 Contents(files', FirstRecords(input), <<>>, T, P)
          PROVE  FilesInv'
      <3>1. Agree(files, FirstRecords(input) + indexCount, offset)'
        BY <1>1, <1>2, <2>1
      <3>2. Contents(files, FirstRecords(input), CountedOf(input, count), TagsOf(input), PointsOf(input))'
        BY <1>1, <1>5, <2>1 DEF T, P
      <3> QED
        BY <1>1, <1>2, <1>7, <3>1, <3>2 DEF FilesInv
    <2>2. CASE PointsOnly
      <3>1. files' = empty /\ offset' = 0 /\ FirstRecords(input) = 0 /\ 0 + 0 = 0
        BY <1>7, <2>2, ModesAre
      <3>2. Contents(empty, 0, <<>>, T, P)
        BY <1>3, ContentsEmpty
      <3> QED
        BY <1>3, <2>1, <3>1, <3>2
    <2>3. CASE ~PointsOnly
      <3> DEFINE gs == After(empty, tag, Len(tag))
                 b == Bytes(FailText)
                 point == <<FailLatitude, FailLongitude>>
      <3>1. files' = gs /\ offset' = Len(b) /\ FirstRecords(input) = 1
        BY <1>7, <2>3, ModesAre
      <3>2. TagWrote(gs, empty, offset, b, point, 0 - 1)
        BY <1>4, TagWrites DEF tag
      <3>3. IsSeq(b)
        <4>1. FailText \in Seq({9})
          BY DEF FailText
        <4> QED
          BY <4>1, BytesType DEF IsSeq
      <3> HIDE DEF gs, b, point
      <3>4. TagWrote(gs, empty, 0, b, point, 0 - 1)
        BY <1>2, <3>2
      <3>5. Agree(gs, 0 + 1, 0 + Len(b))
        BY <1>3, <3>3, <3>4, AgreeTag
      <3>6. 0 + 1 = 1 + 0 /\ 0 + Len(b) = Len(b)
        <4>1. Len(b) \in Nat
          BY <3>3, SeqFacts
        <4> QED
          BY <4>1
      <3>7. Agree(gs, 1 + 0, Len(b))
        BY <3>5, <3>6
      <3>8. Contents(gs, 1, <<>>, T, P)
        BY <1>3, <1>4, <3>4, ContentsOpen DEF b
      <3> QED
        BY <2>1, <3>1, <3>7, <3>8
    <2> QED
      BY <2>2, <2>3
  <1> QED
    BY <1>1, <1>6, <1>7

(* One more is counted.                                                     *)
LEMMA FirstMore ==
  ASSUME NEW s, IsSeq(s), NEW c \in Nat, c + 1 \in 1..Len(s)
  PROVE  SubSeq(s, 1, c + 1) = Append(SubSeq(s, 1, c), s[c + 1])
  <1> DEFINE a == [i \in 1..c |-> s[i]]
             b == Append(a, s[c + 1])
  <1>1. Len(a) = c /\ \A i \in 1..c : a[i] = s[i]
    OBVIOUS
  <1>2. IsSeq(a)
    <2>1. a \in Seq({s[i] : i \in 1..c})
      OBVIOUS
    <2> QED
      BY <2>1 DEF IsSeq
  <1> HIDE DEF a
  <1>3. /\ IsSeq(b) /\ Len(b) = c + 1 /\ b[c + 1] = s[c + 1] /\ \A i \in 1..c : b[i] = a[i]
    BY <1>1, <1>2, AppendIs
  <1> HIDE DEF b
  <1>4. b = [i \in 1..c + 1 |-> b[i]]
    BY <1>3, SeqFacts
  <1>5. \A i \in 1..c + 1 : b[i] = s[i]
    <2>1. \A i \in 1..c + 1 : i \in 1..c \/ i = c + 1
      OBVIOUS
    <2> QED
      BY <1>1, <1>3, <2>1
  <1>6. b = [i \in 1..c + 1 |-> s[i]]
    BY <1>4, <1>5
  <1>7. SubSeq(s, 1, c) = a
    BY FirstOnes DEF a
  <1>8. SubSeq(s, 1, c + 1) = [i \in 1..c + 1 |-> s[i]]
    <2>1. c + 1 \in Nat
      OBVIOUS
    <2> QED
      BY <2>1, FirstOnes
  <1> QED
    BY <1>6, <1>7, <1>8 DEF b

(* What the files hold, and what after the writes of o.                     *)
Converts(fs, gs, o) ==
    /\ Agree(gs, FirstRecords(input) + (indexCount + IF AsTag(o) THEN 1 ELSE 0),
             offset + IF AsTag(o) THEN Len(Bytes(o.named.text)) ELSE 0)
    /\ \A os, T, P :
         /\ Contents(fs, FirstRecords(input), os, T, P)
         /\ AsTag(o) <=> o \in T
         /\ AsPoint(o) <=> o \in P
         => Contents(gs, FirstRecords(input), Append(os, o), T, P)

(* A tag.                                                                   *)
LEMMA ConvertsTag ==
  ASSUME NEW fs, Agree(fs, FirstRecords(input) + indexCount, offset), indexCount \in Nat,
         NEW o, IsSeq(o.named.text), AsTag(o),
         NEW w, w = Writes(o), NEW gs, gs = After(fs, w, Len(w))
  PROVE  Converts(fs, gs, o)
  <1> DEFINE b == Bytes(o.named.text)
             first == FirstRecords(input)
             n == first + indexCount
  <1>1. ~PointsOnly /\ o.named.text # <<>> /\ ~AsPoint(o)
    BY DEF AsTag, AsPoint, Unnamed
  <1>2. first = 1
    BY <1>1, ModesAre
  <1>3. w = Tag(o.named.text, -60 * o.longitude, o.latitude * 60, indexCount + 1)
    BY Zenon DEF Writes
  <1>4. AreFiles(fs)
    BY DEF Agree
  <1>5. TagWrote(gs, fs, offset, b, <<o.latitude * 60, -60 * o.longitude>>, (indexCount + 1) - 1)
    <2> DEFINE x == -60 * o.longitude
               y == o.latitude * 60
               i == indexCount + 1
    <2>1. w = Tag(o.named.text, x, y, i)
      BY <1>3
    <2> HIDE DEF x, y, i
    <2>2. TagWrote(gs, fs, offset, b, <<y, x>>, i - 1)
      BY <1>4, <2>1, TagWrites
    <2> QED
      BY <2>2, Zenon DEF x, y, i
  <1>6. IsSeq(b) /\ Len(b) \in Nat
    BY BytesType, SeqFacts
  <1>7. TagWrote(gs, fs, offset, b, Place(o), (indexCount + 1) - 1)
    BY <1>5, Zenon DEF Place
  <1> HIDE DEF b, first
  <1>8. Agree(gs, first + (indexCount + 1), offset + Len(b))
    <2>1. (indexCount + 1) - 1 = n - 1 /\ first + (indexCount + 1) = n + 1
      BY <1>2
    <2> HIDE DEF n
    <2>2. Agree(fs, n, offset)
      BY DEF n, first
    <2>3. TagWrote(gs, fs, offset, b, Place(o), n - 1)
      BY <1>7, <2>1
    <2>4. Agree(gs, n + 1, offset + Len(b))
      BY <1>6, <2>2, <2>3, AgreeTag
    <2> QED
      BY <2>1, <2>4
  <1>9. ASSUME NEW os, NEW T, NEW P, Contents(fs, first, os, T, P), o \in T, o \notin P
        PROVE  Contents(gs, first, Append(os, o), T, P)
    BY <1>4, <1>7, <1>9, ContentsTag DEF b
  <1> QED
    BY <1>1, <1>8, <1>9, Zenon DEF Converts, first, b

(* A point of the map.                                                      *)
LEMMA ConvertsPoint ==
  ASSUME NEW fs, Agree(fs, FirstRecords(input) + indexCount, offset), indexCount \in Nat,
         NEW o, ~AsTag(o), AsPoint(o),
         NEW w, w = Writes(o), NEW gs, gs = After(fs, w, Len(w))
  PROVE  Converts(fs, gs, o)
  <1> DEFINE first == FirstRecords(input)
             n == first + indexCount
  <1>1. w = MapPoint(o.longitude, o.latitude)
    BY Zenon DEF Writes
  <1>2. AreFiles(fs) /\ n \in Nat /\ offset \in Nat
    <2>1. AreFiles(fs) /\ n \in Nat /\ offset = Len(FlattenSeq(Held(fs["tag_text"])))
      BY Zenon DEF Agree
    <2>2. IsSeq(FlattenSeq(Held(fs["tag_text"])))
      <3> DEFINE h == Held(fs["tag_text"])
      <3>1. IsSeq(h) /\ Len(h) = n
        BY <2>1, HeldType, TagFilesAre DEF Agree
      <3>2. \A i \in 1..n : IsSeq(h[i])
        BY DEF Agree, TagAt
      <3> HIDE DEF h, n
      <3>3. \A i \in 1..Len(h) : IsSeq(h[i])
        BY <3>1, <3>2
      <3>4. <<>> \in Seq({})
        OBVIOUS
      <3>5. IsSeq(<<>>)
        BY <3>4 DEF IsSeq
      <3>6. IsSeq(FlattenSeq(h))
        BY <3>1, <3>3, <3>5, FlattenAppend
      <3> QED
        BY <3>6 DEF h
    <2> QED
      BY <2>1, <2>2, SeqFacts
  <1>3. PointWrote(gs, fs, Place(o))
    <2>1. PointWrote(gs, fs, <<o.latitude * 60, -60 * o.longitude>>)
      BY <1>1, <1>2, PointWrites
    <2> QED
      BY <2>1, Zenon DEF Place
  <1> HIDE DEF first
  <1>4. Agree(gs, first + (indexCount + 0), offset + 0)
    <2>1. first + (indexCount + 0) = n /\ offset + 0 = offset
      BY <1>2
    <2> HIDE DEF n
    <2>2. Agree(fs, n, offset)
      BY DEF n, first
    <2>3. Agree(gs, n, offset)
      BY <1>3, <2>2, AgreePoint
    <2> QED
      BY <2>1, <2>3
  <1>5. ASSUME NEW os, NEW T, NEW P, Contents(fs, first, os, T, P), o \notin T, o \in P
        PROVE  Contents(gs, first, Append(os, o), T, P)
    BY <1>2, <1>3, <1>5, ContentsPoint
  <1> QED
    BY <1>4, <1>5, Zenon DEF Converts, first

(* Neither.                                                                 *)
LEMMA ConvertsNothing ==
  ASSUME NEW fs, Agree(fs, FirstRecords(input) + indexCount, offset), indexCount \in Nat,
         offset \in Nat, NEW o, ~AsTag(o), ~AsPoint(o),
         NEW w, w = Writes(o), NEW gs, gs = After(fs, w, Len(w))
  PROVE  Converts(fs, gs, o)
  <1> DEFINE first == FirstRecords(input)
             n == first + indexCount
  <1>1. w = <<>> /\ Len(w) = 0
    <2>1. w = <<>>
      BY Zenon DEF Writes
    <2> QED
      BY <2>1
  <1>2. AreFiles(fs) /\ n \in Nat
    BY Zenon DEF Agree
  <1>3. AreFiles(gs) /\ \A f \in Files : Held(gs[f]) = Held(fs[f])
    <2>1. 0 \in Nat /\ \A i : i \notin 1..0
      OBVIOUS
    <2>2. Apart(w, 0)
      BY <2>1 DEF Apart
    <2>3. /\ AreFiles(After(fs, w, 0))
          /\ \A f \in Files : (\A i \in 1..0 : w[i][1] # f) => Kept(After(fs, w, 0), fs, f)
      BY <1>2, <2>1, <2>2, AfterIs
    <2>4. gs = After(fs, w, 0)
      BY <1>1
    <2> QED
      BY <2>1, <2>3, <2>4, Zenon DEF Kept
  <1> HIDE DEF first
  <1>4. Agree(gs, first + (indexCount + 0), offset + 0)
    <2>1. first + (indexCount + 0) = n /\ offset + 0 = offset
      BY <1>2
    <2> HIDE DEF n
    <2>2. Agree(fs, n, offset)
      BY DEF n, first
    <2>3. /\ \A f \in TagFiles : Held(gs[f]) = Held(fs[f])
          /\ Len(Held(gs["map_points"])) = Len(Held(gs["map_data"]))
      <3>1. Len(Held(fs["map_points"])) = Len(Held(fs["map_data"]))
        BY <2>2 DEF Agree
      <3> QED
        BY <1>3, <3>1, TagFilesAre
    <2>4. Agree(gs, n, offset)
      BY <1>3, <2>2, <2>3, AgreeSame
    <2> QED
      BY <2>1, <2>4
  <1>5. ASSUME NEW os, NEW T, NEW P, Contents(fs, first, os, T, P), o \notin T, o \notin P
        PROVE  Contents(gs, first, Append(os, o), T, P)
    BY <1>3, <1>5, ContentsSame
  <1> QED
    BY <1>4, <1>5, Zenon DEF Converts, first

(* The text that is written so far has a length.                            *)
LEMMA AgreeOffset ==
  ASSUME NEW fs, NEW n, NEW off, Agree(fs, n, off)
  PROVE  /\ off \in Nat /\ n \in Nat /\ AreFiles(fs)
         /\ IsSeq(FlattenSeq(Held(fs["tag_text"])))
         /\ off = Len(FlattenSeq(Held(fs["tag_text"])))
  <1>1. AreFiles(fs) /\ n \in Nat /\ off = Len(FlattenSeq(Held(fs["tag_text"])))
    BY Zenon DEF Agree
  <1>2. IsSeq(FlattenSeq(Held(fs["tag_text"])))
    <2> DEFINE h == Held(fs["tag_text"])
    <2>1. IsSeq(h) /\ Len(h) = n
      BY <1>1, HeldType, TagFilesAre DEF Agree
    <2>2. \A i \in 1..n : IsSeq(h[i])
      BY DEF Agree, TagAt
    <2> HIDE DEF h
    <2>3. \A i \in 1..Len(h) : IsSeq(h[i])
      BY <2>1, <2>2
    <2>4. <<>> \in Seq({})
      OBVIOUS
    <2>5. IsSeq(<<>>)
      BY <2>4 DEF IsSeq
    <2>6. IsSeq(FlattenSeq(h))
      BY <2>1, <2>3, <2>5, FlattenAppend
    <2> QED
      BY <2>6 DEF h
  <1> QED
    BY <1>1, <1>2, SeqFacts

(* Whatever a feature is converted to, the files have it.                   *)
LEMMA ConvertsAny ==
  ASSUME NEW fs, Agree(fs, FirstRecords(input) + indexCount, offset), indexCount \in Nat,
         NEW o, IsSeq(o.named.text),
         NEW w, w = Writes(o), NEW gs, gs = After(fs, w, Len(w))
  PROVE  Converts(fs, gs, o)
  <1>1. CASE AsTag(o)
    BY <1>1, ConvertsTag
  <1>2. CASE ~AsTag(o) /\ AsPoint(o)
    BY <1>2, ConvertsPoint
  <1>3. CASE ~AsTag(o) /\ ~AsPoint(o)
    <2>1. offset \in Nat
      BY AgreeOffset
    <2> QED
      BY <1>3, <2>1, ConvertsNothing
  <1> QED
    BY <1>1, <1>2, <1>3

(* A feature of the input is of those that become a record, if it does.     *)
LEMMA KindsAre ==
  ASSUME NEW o \in ToSet(All(input.values))
  PROVE  /\ AsTag(o) <=> o \in TagsOf(input)
         /\ AsPoint(o) <=> o \in PointsOf(input)
  BY ModesAre, Zenon DEF TagsOf, PointsOf, AsTag, AsPoint, Unnamed

(* One feature more is counted.                                             *)
LEMMA CountedMore ==
  ASSUME NEW in, InputOK(in), SoundInput(in), NEW c \in Nat, c + 1 \in 1..Len(All(in.values))
  PROVE  /\ CountedOf(in, c + 1) = Append(CountedOf(in, c), All(in.values)[c + 1])
         /\ All(in.values)[c + 1] \in ToSet(All(in.values))
  <1> DEFINE s == All(in.values)
  <1>1. IsSeq(s)
    BY AllAre
  <1> HIDE DEF s
  <1>2. c + 1 \in 1..Len(s)
    BY DEF s
  <1>3. SubSeq(s, 1, c + 1) = Append(SubSeq(s, 1, c), s[c + 1])
    BY <1>1, <1>2, FirstMore
  <1>4. s[c + 1] \in ToSet(s)
    BY <1>1, <1>2, SeqFacts DEF ToSet
  <1> QED
    BY <1>3, <1>4 DEF CountedOf, s

(* A feature is converted.                                                  *)
LEMMA ConvertFiles ==
  ASSUME ReadInv, FilesInv, ConvertFeature
  PROVE  FilesInv'
  <1> DEFINE o == Top.object
             w == Writes(o)
             gs == After(files, w, Len(w))
             more == indexCount + IF AsTag(o) THEN 1 ELSE 0
             longer == offset + IF AsTag(o) THEN Len(Bytes(o.named.text)) ELSE 0
             first == FirstRecords(input)
             T == TagsOf(input)
             P == PointsOf(input)
  <1>1. /\ Visits /\ UNCHANGED <<input, values>> /\ count' = count + 1 /\ indexCount' = more
        /\ \/ files' = gs /\ offset' = longer /\ UNCHANGED <<step, verdict>>
           \/ step' = "close" /\ verdict' = "write failed"
    BY ConvertIs, Zenon DEF Write
  <1>2. step = "read" /\ Live
    BY <1>1, Zenon DEF Visits, AtEnd, Live
  <1>3. /\ indexCount \in Nat /\ Agree(files, first + indexCount, offset)
        /\ SoundInput(input) => Contents(files, first, CountedOf(input, count), T, P)
    BY <1>2, Zenon DEF FilesInv
  <1>4. indexCount' \in Nat
    <2>1. \A a \in Nat : a + 1 \in Nat /\ a + 0 \in Nat
      OBVIOUS
    <2>2. more \in Nat
      BY <1>3, <2>1, Zenon
    <2> QED
      BY <1>1, <2>2, Zenon
  <1>5. InputOK(input) /\ count \in Nat
    BY DEF ReadInv
  <1>6. IsSeq(o.named.text)
    <2>1. IsObject(o) /\ o.kind = "object"
      BY <1>1, VisitWithin
    <2>2. Listed(o.named.text)
      BY <2>1 DEF IsObject
    <2> QED
      BY <2>2, ListedSeq
  <1>7. CASE step' = "close" /\ verdict' = "write failed"
    BY <1>4, <1>7 DEF FilesInv, Live
  <1>8. CASE files' = gs /\ offset' = longer /\ UNCHANGED <<step, verdict>>
    <2>1. Converts(files, gs, o)
      <3> HIDE DEF o
      <3> QED
        BY <1>3, <1>6, ConvertsAny
    <2> HIDE DEF gs, w
    <2>2. Agree(gs, first + more, longer)
      BY <2>1, Zenon DEF Converts
    <2>3. Agree(files, FirstRecords(input) + indexCount, offset)'
      BY <1>1, <1>8, <2>2
    <2>4. ASSUME SoundInput(input)
          PROVE  Contents(gs, first, CountedOf(input, count + 1), T, P)
      <3>1. count + 1 \in 1..Len(All(input.values)) /\ All(input.values)[count + 1] = o
        BY <1>1, <2>4, VisitWithin
      <3>2. /\ CountedOf(input, count + 1) = Append(CountedOf(input, count), o)
            /\ o \in ToSet(All(input.values))
        BY <1>5, <2>4, <3>1, CountedMore
      <3>3. (AsTag(o) <=> o \in T) /\ (AsPoint(o) <=> o \in P)
        <4> HIDE DEF o
        <4> QED
          BY <3>2, KindsAre
      <3>4. Contents(files, first, CountedOf(input, count), T, P)
        BY <1>3, <2>4
      <3> HIDE DEF o, T, P, first
      <3>5. Contents(gs, first, Append(CountedOf(input, count), o), T, P)
        BY <2>1, <3>3, <3>4, Zenon DEF Converts, first
      <3> QED
        BY <3>2, <3>5
    <2>5. SoundInput(input') => Contents(files, FirstRecords(input), CountedOf(input, count), TagsOf(input), PointsOf(input))'
      BY <1>1, <1>8, <2>4
    <2>6. step' = "read"
      BY <1>2, <1>8
    <2> QED
      BY <1>4, <2>3, <2>5, <2>6, Zenon DEF FilesInv
  <1> QED
    BY <1>1, <1>7, <1>8

(* What is flushed is in the file, and nothing of it in the buffer.         *)
LEMMA FlushedIs ==
  ASSUME NEW file, IsFile(file)
  PROVE  /\ IsFile(Flushed(file)) /\ Held(Flushed(file)) = Held(file)
         /\ Flushed(file).pending = <<>>
  <1> DEFINE p == file.pending
             s == file.stored
             w == Flushed(file)
  <1>1. /\ DOMAIN file = {"pending", "stored", "broken"} /\ IsSeq(p) /\ IsSeq(s) /\ ~file.broken
    BY DEF IsFile
  <1>2. /\ DOMAIN w = DOMAIN file /\ w.stored = s \o p /\ w.pending = <<>>
        /\ w.broken = file.broken
    BY <1>1 DEF Flushed
  <1>3. IsSeq(<<>>) /\ IsSeq(s \o p)
    <2>1. <<>> \in Seq({})
      OBVIOUS
    <2> QED
      BY <1>1, <2>1, ConcatSeq DEF IsSeq
  <1> HIDE DEF w
  <1>4. IsFile(w)
    BY <1>1, <1>2, <1>3, Zenon DEF IsFile
  <1>5. Held(w) = (s \o p) \o <<>>
    BY <1>2 DEF Held
  <1>6. (s \o p) \o <<>> = s \o p
    BY <1>3, ConcatNothing
  <1> QED
    BY <1>2, <1>4, <1>5, <1>6 DEF w, Held

(* The files are closed.                                                    *)
LEMMA CloseFiles ==
  ASSUME FilesInv, Close
  PROVE  FilesInv'
  <1> DEFINE first == FirstRecords(input)
             n == first + indexCount
  <1>1. /\ step = "close" /\ step' = "done"
        /\ UNCHANGED <<input, count, indexCount, offset>>
        /\ \E failing \in {{}} \union {{f} : f \in Files} \union {Files} :
              /\ files' = [f \in Files |-> IF files[f].broken \/ f \in failing THEN files[f]
                                           ELSE Flushed(files[f])]
              /\ verdict' = IF verdict = "ok" /\ failing # {} THEN "write failed" ELSE verdict
    BY CloseIs
  <1>2. indexCount \in Nat
    BY DEF FilesInv
  <1>3. CASE verdict' # "ok"
    BY <1>1, <1>2, <1>3 DEF FilesInv, Live
  <1>4. CASE verdict' = "ok"
    <2>1. /\ verdict = "ok"
          /\ files' = [f \in Files |-> IF files[f].broken THEN files[f] ELSE Flushed(files[f])]
      BY <1>1, <1>4
    <2>2. Live
      BY <1>1, <2>1 DEF Live
    <2>3. /\ Agree(files, n, offset)
          /\ SoundInput(input) => Contents(files, first, CountedOf(input, count),
                                           TagsOf(input), PointsOf(input))
      BY <2>2, Zenon DEF FilesInv
    <2> DEFINE gs == [f \in Files |-> IF files[f].broken THEN files[f] ELSE Flushed(files[f])]
    <2>4. AreFiles(files)
      BY <2>3, AgreeOffset
    <2>5. \A f \in Files : gs[f] = Flushed(files[f])
      BY <2>4, Zenon DEF AreFiles, IsFile
    <2>6. DOMAIN gs = Files
      OBVIOUS
    <2> HIDE DEF gs
    <2>7. \A f \in Files : /\ IsFile(gs[f]) /\ Held(gs[f]) = Held(files[f])
                           /\ gs[f].pending = <<>>
      <3> TAKE f \in Files
      <3>1. IsFile(files[f])
        BY <2>4 DEF AreFiles
      <3> QED
        BY <2>5, <3>1, FlushedIs
    <2>8. AreFiles(gs)
      BY <2>6, <2>7 DEF AreFiles
    <2>9. Agree(gs, n, offset)
      <3>1. Len(Held(files["map_points"])) = Len(Held(files["map_data"]))
        BY <2>3 DEF Agree
      <3>2. /\ \A f \in TagFiles : Held(gs[f]) = Held(files[f])
            /\ Len(Held(gs["map_points"])) = Len(Held(gs["map_data"]))
        BY <2>7, <3>1, TagFilesAre
      <3> QED
        BY <2>3, <2>8, <3>2, AgreeSame
    <2>10. SoundInput(input) => Contents(gs, first, CountedOf(input, count),
                                         TagsOf(input), PointsOf(input))
      BY <2>3, <2>7, ContentsSame
    <2>11. files' = gs
      BY <2>1 DEF gs
    <2>12. Agree(files, FirstRecords(input) + indexCount, offset)'
      BY <1>1, <2>9, <2>11
    <2>13. SoundInput(input') => Contents(files, FirstRecords(input), CountedOf(input, count),
                                          TagsOf(input), PointsOf(input))'
      BY <1>1, <2>10, <2>11
    <2>14. (\A f \in Files : files[f].pending = <<>>)'
      BY <2>7, <2>11
    <2> QED
      BY <1>1, <1>2, <2>12, <2>13, <2>14, Zenon DEF FilesInv
  <1> QED
    BY <1>3, <1>4

(* A step that reads and writes nothing keeps what the files hold.          *)
LEMMA KeepsFiles ==
  ASSUME FilesInv, UNCHANGED <<input, count, indexCount, offset, files>>,
         step = "read", step' \in {"read", "close"}
  PROVE  FilesInv'
  <1>1. Live
    BY DEF Live
  <1>2. /\ indexCount \in Nat /\ Agree(files, FirstRecords(input) + indexCount, offset)
        /\ SoundInput(input) => Contents(files, FirstRecords(input), CountedOf(input, count),
                                         TagsOf(input), PointsOf(input))
    BY <1>1, Zenon DEF FilesInv
  <1>3. indexCount' \in Nat
    BY <1>2
  <1>4. Agree(files, FirstRecords(input) + indexCount, offset)'
    BY <1>2
  <1>5. SoundInput(input') => Contents(files, FirstRecords(input), CountedOf(input, count),
                                       TagsOf(input), PointsOf(input))'
    BY <1>2
  <1>6. step' # "open" /\ step' # "done"
    OBVIOUS
  <1> QED
    BY <1>3, <1>4, <1>5, <1>6, Zenon DEF FilesInv

(* Most steps write nothing.                                                *)
LEMMA WritesNothing ==
  ASSUME ReadValue \/ ReadElement \/ ReadMember \/ EndObject \/ LimitReached \/ RefuseFeature
  PROVE  /\ UNCHANGED <<input, count, indexCount, offset, files>>
         /\ step = "read" /\ step' \in {"read", "close"}
  <1>1. \A v, below : Begin(v, below) => step' = step \/ step' = "close"
    BY DEF Begin, Stop
  <1>2. \A fr : EnterFeatures(fr) => step' = step \/ step' = "close"
    BY DEF EnterFeatures, Stop
  <1>3. CASE ReadValue
    BY <1>1, <1>3, Zenon DEF ReadValue, Stop
  <1>4. CASE ReadElement
    BY <1>1, <1>4, Zenon DEF ReadElement, Stop
  <1>5. CASE ReadMember
    BY <1>2, <1>5, Zenon DEF ReadMember, Stop
  <1>6. CASE EndObject
    BY <1>2, <1>6, Zenon DEF EndObject, AtEnd, Stop
  <1>7. CASE LimitReached
    BY <1>7, Zenon DEF LimitReached, Visits, AtEnd, Stop
  <1>8. CASE RefuseFeature
    BY <1>8, Zenon DEF RefuseFeature, Visits, AtEnd, Stop
  <1> QED
    BY <1>3, <1>4, <1>5, <1>6, <1>7, <1>8

(* Every step of the program keeps what the files hold.                     *)
LEMMA FilesStepInv ==
  ASSUME ReadInv, FilesInv, [FilesNext]_fileVars
  PROVE  FilesInv'
  <1>1. CASE Open
    BY <1>1, OpenFiles
  <1>2. CASE ReadValue \/ ReadElement \/ ReadMember \/ EndObject \/ LimitReached \/ RefuseFeature
    BY <1>2, WritesNothing, KeepsFiles
  <1>3. CASE ConvertFeature
    BY <1>3, ConvertFiles
  <1>4. CASE Close
    BY <1>4, CloseFiles
  <1>5. CASE UNCHANGED fileVars
    <2>1. UNCHANGED <<input, step, count, indexCount, offset, files, verdict>>
      BY <1>5 DEF fileVars
    <2> QED
      BY <2>1 DEF FilesInv, Live
  <1> QED
    BY <1>1, <1>2, <1>3, <1>4, <1>5, Zenon DEF FilesNext

(* It is so at first.                                                       *)
LEMMA FilesInitInv ==
  ASSUME NEW inputs, FilesInit(inputs)
  PROVE  FilesInv
  <1>1. step = "open" /\ indexCount = 0 /\ offset = 0
    BY Zenon DEF FilesInit
  <1> QED
    BY <1>1 DEF FilesInv, Live

(* What is between two places of a sequence.                                *)
LEMMA BetweenIs ==
  ASSUME NEW s, NEW a \in Nat, NEW m \in Nat
  PROVE  SubSeq(s, a + 1, a + m) = [j \in 1..m |-> s[a + j]]
  <1>1. ((a + m) - (a + 1)) + 1 = m /\ \A j \in 1..m : (j + (a + 1)) - 1 = a + j
    OBVIOUS
  <1> QED
    BY <1>1

(* The text of a tag is found at its offset.                                *)
LEMMA TagFound ==
  ASSUME NEW fs, NEW i, TagAt(fs, i)
  PROVE  LET at == Held(fs["tag_offset"])[i]
             name == Held(fs["tag_text"])[i]
         IN /\ SubSeq(FlattenSeq(Held(fs["tag_text"])), at + 1, at + Len(name)) = name
            /\ Held(fs["pre_offset"])[i] = at /\ Held(fs["tag_index"])[i] = i - 2
  <1> DEFINE at == Held(fs["tag_offset"])[i]
             name == Held(fs["tag_text"])[i]
             text == FlattenSeq(Held(fs["tag_text"]))
             k == Len(name)
  <1>1. /\ at \in Nat /\ IsSeq(name) /\ \A j \in 1..k : text[at + j] = name[j]
        /\ Held(fs["pre_offset"])[i] = at /\ Held(fs["tag_index"])[i] = i - 2
    BY DEF TagAt
  <1>2. k \in Nat /\ name = [j \in 1..k |-> name[j]]
    BY <1>1, SeqFacts
  <1> HIDE DEF at, name, text, k
  <1>3. SubSeq(text, at + 1, at + k) = [j \in 1..k |-> text[at + j]]
    <2>1. \A s : \A a, m \in Nat : SubSeq(s, a + 1, a + m) = [j \in 1..m |-> s[a + j]]
      BY BetweenIs
    <2>2. at \in Nat /\ k \in Nat
      BY <1>1, <1>2
    <2>3. \A a, m \in Nat : SubSeq(text, a + 1, a + m) = [j \in 1..m |-> text[a + j]]
      BY <2>1
    <2>4. \A m \in Nat : SubSeq(text, at + 1, at + m) = [j \in 1..m |-> text[at + j]]
      BY <2>2, <2>3
    <2> QED
      BY <2>2, <2>4
  <1>4. [j \in 1..k |-> text[at + j]] = [j \in 1..k |-> name[j]]
    BY <1>1
  <1>5. SubSeq(text, at + 1, at + k) = name
    BY <1>2, <1>3, <1>4
  <1> QED
    BY <1>1, <1>5 DEF at, name, text, k

(* What the files hold says it of them.                                     *)
LEMMA AgreeSays ==
  ASSUME Agree(files, FirstRecords(input) + indexCount, offset)
  PROVE  /\ \A f \in TagFiles : Len(Holds(f)) = Len(Holds("tag_text"))
         /\ Len(Holds("map_points")) = Len(Holds("map_data"))
         /\ LET text == FlattenSeq(Holds("tag_text")) IN
            /\ offset = Len(text)
            /\ \A i \in DOMAIN Holds("tag_text") :
                  LET at == Holds("tag_offset")[i]
                      name == Holds("tag_text")[i]
                  IN /\ SubSeq(text, at + 1, at + Len(name)) = name
                     /\ Holds("pre_offset")[i] = at /\ Holds("tag_index")[i] = i - 2
  <1> DEFINE n == FirstRecords(input) + indexCount
  <1>1. \A f : Holds(f) = Held(files[f])
    BY DEF Holds, Held
  <1> HIDE DEF n
  <1>2. Agree(files, n, offset)
    BY DEF n
  <1>3. /\ AreFiles(files) /\ \A f \in TagFiles : Len(Held(files[f])) = n
        /\ Len(Held(files["map_points"])) = Len(Held(files["map_data"]))
        /\ offset = Len(FlattenSeq(Held(files["tag_text"])))
        /\ \A i \in 1..n : TagAt(files, i)
    BY <1>2, Zenon DEF Agree
  <1>4. DOMAIN Held(files["tag_text"]) = 1..n
    <2>1. IsSeq(Held(files["tag_text"])) /\ Len(Held(files["tag_text"])) = n
      BY <1>3, HeldType, TagFilesAre
    <2> QED
      BY <2>1, SeqFacts
  <1>5. \A f \in TagFiles : Len(Holds(f)) = Len(Holds("tag_text"))
    BY <1>1, <1>3, TagFilesAre
  <1>6. \A i \in DOMAIN Holds("tag_text") :
          LET at == Holds("tag_offset")[i]
              name == Holds("tag_text")[i]
          IN /\ SubSeq(FlattenSeq(Holds("tag_text")), at + 1, at + Len(name)) = name
             /\ Holds("pre_offset")[i] = at /\ Holds("tag_index")[i] = i - 2
    <2> SUFFICES ASSUME NEW i \in DOMAIN Holds("tag_text")
                 PROVE  LET at == Held(files["tag_offset"])[i]
                            name == Held(files["tag_text"])[i]
                        IN /\ SubSeq(FlattenSeq(Held(files["tag_text"])), at + 1, at + Len(name)) = name
                           /\ Held(files["pre_offset"])[i] = at /\ Held(files["tag_index"])[i] = i - 2
      BY <1>1, Zenon
    <2>1. TagAt(files, i)
      BY <1>1, <1>3, <1>4
    <2> QED
      BY <2>1, TagFound, Zenon
  <1> QED
    BY <1>1, <1>3, <1>5, <1>6, Zenon

-----------------------------------------------------------------------------
(* Between writes, the six files of the tags have the same number of        *)
(* records, and the offset of each is where its text is found: however      *)
(* features are read, whatever fails (writeTag and convertEntirety).        *)
THEOREM TagsAreFound == Spec => []TagFilesAgree
<1> DEFINE IInv == ReadInv /\ FilesInv
<1>1. Init => IInv
  BY FilesInits, ReadInitInv, FilesInitInv, Zenon
<1>2. IInv /\ [Next]_vars => IInv'
  BY FilesSteps, ReadStepInv, FilesStepInv
<1>3. IInv => TagFilesAgree
  <2> SUFFICES ASSUME FilesInv, step = "read" PROVE TagFilesAgree
    BY Zenon DEF TagFilesAgree
  <2>1. Agree(files, FirstRecords(input) + indexCount, offset)
    BY Zenon DEF FilesInv, Live
  <2> QED
    BY <2>1, AgreeSays, Zenon DEF TagFilesAgree
<1> QED
  BY <1>1, <1>2, <1>3, PTL DEF Spec

(* Nothing is picked of what has nothing in C.                              *)
LEMMA PickedNone ==
  ASSUME NEW os, IsSeq(os)
  PROVE  Picked(os, {}) = <<>>
  <1> DEFINE n == Len(os)
             h == [i \in 1..n |-> <<>>]
             D == {k \in 0..n : Flat(h, k) = <<>>}
  <1>1. n \in Nat /\ DOMAIN os = 1..n
    BY SeqFacts
  <1>2. IsSeq(<<>>) /\ <<>> \o <<>> = <<>>
    <2>1. <<>> \in Seq({})
      OBVIOUS
    <2>2. IsSeq(<<>>)
      BY <2>1 DEF IsSeq
    <2> QED
      BY <2>2, ConcatNothing
  <1> HIDE DEF n
  <1>3. \A i \in 1..n : h[i] = <<>>
    OBVIOUS
  <1>4. [i \in 1..n |-> h[i]] = h
    OBVIOUS
  <1> HIDE DEF h
  <1>5. 0 \in D
    BY <1>1, FlatNothing
  <1>6. ASSUME NEW k \in 0..n - 1, k \in D  PROVE k + 1 \in D
    <2>1. k + 1 \in 1..n /\ k + 1 \in 0..n /\ k \in Nat
      BY <1>1
    <2>2. h[k + 1] = <<>> /\ IsSeq(h[k + 1])
      BY <1>2, <1>3, <2>1
    <2>3. Flat(h, k + 1) = Flat(h, k) \o h[k + 1]
      BY <2>1, <2>2, FlatMore
    <2>4. Flat(h, k) = <<>>
      BY <1>6
    <2> QED
      BY <1>2, <2>1, <2>2, <2>3, <2>4
  <1> HIDE DEF D
  <1>7. n \in D
    <2>1. \A k \in 0..n : k \in D
      BY <1>1, <1>5, <1>6, UpTo
    <2>2. n \in 0..n
      BY <1>1
    <2> QED
      BY <2>1, <2>2
  <1>8. Flat(h, n) = <<>>
    BY <1>7 DEF D
  <1>9. FlattenSeq(h) = <<>>
    BY <1>4, <1>8 DEF Flat
  <1>10. [i \in DOMAIN os |-> IF os[i] \in {} THEN <<os[i]>> ELSE <<>>] = h
    BY <1>1 DEF h
  <1> QED
    BY <1>9, <1>10 DEF Picked

(* The records of the tags.                                                 *)
TextOf(first, tags) ==
    [i \in DOMAIN first |-> Bytes(first[i])] \o [i \in DOMAIN tags |-> Bytes(tags[i].named.text)]

(* What is written before them, if anything is.                             *)
LeadOf(first) == IF first = 0 THEN <<>> ELSE <<FailText>>

HasTexts(s, first, tags) ==
    /\ Len(s) = first + Len(tags) /\ (first = 1 => s[1] = Bytes(FailText))
    /\ \A i \in 1..Len(tags) : s[first + i] = Bytes(tags[i].named.text)

(* What is in a file that has the texts of the tags behind the first.       *)
LEMMA TextIs ==
  ASSUME NEW s, IsSeq(s), NEW tags, IsSeq(tags), NEW first \in {0, 1}, HasTexts(s, first, tags)
  PROVE  s = TextOf(LeadOf(first), tags) /\ Len(LeadOf(first)) = first
  <1> DEFINE n == Len(tags)
             lead == LeadOf(first)
             a == [i \in DOMAIN lead |-> Bytes(lead[i])]
             b == [i \in DOMAIN tags |-> Bytes(tags[i].named.text)]
             m == Len(s)
  <1>0. /\ Len(s) = first + n /\ (first = 1 => s[1] = Bytes(FailText))
        /\ \A i \in 1..n : s[first + i] = Bytes(tags[i].named.text)
    BY DEF HasTexts
  <1>1. n \in Nat /\ DOMAIN tags = 1..n /\ m \in Nat /\ s = [i \in 1..m |-> s[i]]
    BY SeqFacts
  <1>2. Len(lead) = first /\ DOMAIN lead = 1..first /\ (first = 1 => lead[1] = FailText)
    <2>1. CASE first = 0
      <3>1. lead = <<>>
        BY <2>1 DEF LeadOf
      <3>2. Len(<<>>) = 0 /\ DOMAIN <<>> = 1..0
        OBVIOUS
      <3> QED
        BY <2>1, <3>1, <3>2
    <2>2. CASE first = 1
      <3>1. lead = <<FailText>>
        BY <2>2 DEF LeadOf
      <3>2. \A x : Len(<<x>>) = 1 /\ DOMAIN <<x>> = 1..1 /\ <<x>>[1] = x
        OBVIOUS
      <3> QED
        BY <2>2, <3>1, <3>2, Zenon
    <2> QED
      BY <2>1, <2>2
  <1>3. a = [i \in 1..first |-> Bytes(lead[i])] /\ b = [i \in 1..n |-> Bytes(tags[i].named.text)]
    BY <1>1, <1>2
  <1> HIDE DEF n, m, lead
  <1>4. /\ IsSeq(a) /\ Len(a) = first /\ \A i \in 1..first : a[i] = Bytes(lead[i])
        /\ IsSeq(b) /\ Len(b) = n /\ \A i \in 1..n : b[i] = Bytes(tags[i].named.text)
    <2> HIDE DEF a, b
    <2>1. first \in Nat
      OBVIOUS
    <2>2. /\ Len(a) = first /\ a \in Seq({Bytes(lead[i]) : i \in 1..first})
          /\ \A i \in 1..first : a[i] = Bytes(lead[i])
      BY <1>3, <2>1
    <2>3. /\ Len(b) = n /\ b \in Seq({Bytes(tags[i].named.text) : i \in 1..n})
          /\ \A i \in 1..n : b[i] = Bytes(tags[i].named.text)
      <3> DEFINE B(i) == Bytes(tags[i].named.text)
      <3>1. b = [i \in 1..n |-> B(i)]
        BY <1>3
      <3> HIDE DEF B
      <3>2. Len(b) = n /\ b \in Seq({B(i) : i \in 1..n}) /\ \A i \in 1..n : b[i] = B(i)
        BY <1>1, <3>1
      <3> QED
        BY <3>2 DEF B
    <2> QED
      BY <2>2, <2>3 DEF IsSeq
  <1> HIDE DEF a, b
  <1> DEFINE c == a \o b
  <1>5. /\ IsSeq(c) /\ Len(c) = first + n
        /\ \A i \in 1..first + n : c[i] = IF i <= first THEN a[i] ELSE b[i - first]
    BY <1>4, ConcatSeq
  <1> HIDE DEF c
  <1>6. m = first + n /\ c = [i \in 1..m |-> c[i]]
    <2>1. m = first + n
      BY <1>0 DEF m
    <2> QED
      BY <1>5, <2>1, SeqFacts
  <1>7. \A i \in 1..m : s[i] = c[i]
    <2> TAKE i \in 1..m
    <2>1. CASE i <= first
      <3>1. first = 1 /\ i = 1 /\ i \in 1..first /\ i \in 1..first + n
        BY <1>1, <1>6, <2>1
      <3>2. s[i] = Bytes(FailText)
        BY <1>0, <3>1
      <3> QED
        BY <1>2, <1>4, <1>5, <2>1, <3>1, <3>2
    <2>2. CASE ~(i <= first)
      <3>1. i - first \in 1..n /\ first + (i - first) = i /\ i \in 1..first + n
        BY <1>1, <1>6, <2>2
      <3>2. s[first + (i - first)] = Bytes(tags[i - first].named.text)
        BY <1>0, <3>1
      <3> QED
        BY <1>4, <1>5, <2>2, <3>1, <3>2
    <2> QED
      BY <2>1, <2>2
  <1>8. s = c
    BY <1>1, <1>6, <1>7
  <1> QED
    BY <1>2, <1>8 DEF TextOf, a, b, c, lead

(* The features that are counted are of all of them.                        *)
LEMMA CountedIs ==
  ASSUME NEW in, InputOK(in), SoundInput(in), NEW c \in 0..Len(All(in.values))
  PROVE  /\ IsSeq(CountedOf(in, c)) /\ DOMAIN CountedOf(in, c) = 1..c
         /\ \A i \in 1..c : CountedOf(in, c)[i] \in ToSet(All(in.values))
  <1> DEFINE s == All(in.values)
             t == [i \in 1..c |-> s[i]]
  <1>1. IsSeq(s) /\ Len(s) \in Nat /\ DOMAIN s = 1..Len(s)
    BY AllAre, SeqFacts
  <1> HIDE DEF s
  <1>2. c \in Nat /\ \A i \in 1..c : i \in 1..Len(s)
    BY <1>1 DEF s
  <1>3. SubSeq(s, 1, c) = t
    BY <1>2, FirstOnes
  <1>4. \A i \in 1..c : s[i] \in ToSet(s)
    BY <1>1, <1>2 DEF ToSet
  <1>5. t \in Seq(ToSet(s))
    BY <1>2, <1>4
  <1>6. IsSeq(t) /\ DOMAIN t = 1..c /\ \A i \in 1..c : t[i] \in ToSet(s)
    BY <1>4, <1>5 DEF IsSeq
  <1> QED
    BY <1>3, <1>6 DEF CountedOf, s

(* What is in the files of the tags and of the points.                      *)
Saying(fs, lead, tags, points) ==
    /\ fs["tag_text"].stored = TextOf(lead, tags)
    /\ fs["map_points"].stored = [i \in DOMAIN points |-> Place(points[i])]
    /\ \A f \in TagFiles : Len(fs[f].stored) = Len(tags) + Len(lead)
    /\ \A i \in DOMAIN tags : fs["tag_points"].stored[i + 1] = Place(tags[i])

(* What the files hold says it of what is in them, when no buffer has more. *)
LEMMA ContentsSay ==
  ASSUME NEW fs, NEW n, NEW off, Agree(fs, n, off), \A f \in Files : fs[f].pending = <<>>,
         NEW first, NEW os, NEW T, NEW P, Contents(fs, first, os, T, P), first = 0 => T = {},
         NEW tags, tags = Picked(os, T), NEW points, points = Picked(os, P)
  PROVE  Saying(fs, LeadOf(first), tags, points)
  <1> DEFINE lead == LeadOf(first)
  <1> HIDE DEF lead
  <1>1. /\ first \in {0, 1} /\ IsSeq(os)
        /\ first = 1 => Held(fs["tag_text"])[1] = Bytes(FailText)
        /\ Len(Held(fs["tag_text"])) = first + Len(tags)
        /\ \A i \in 1..Len(tags) :
              /\ Held(fs["tag_text"])[first + i] = Bytes(tags[i].named.text)
              /\ Held(fs["tag_points"])[first + i] = Place(tags[i])
        /\ Len(Held(fs["map_points"])) = Len(points)
        /\ \A i \in 1..Len(points) : Held(fs["map_points"])[i] = Place(points[i])
    BY Zenon DEF Contents
  <1>2. AreFiles(fs) /\ \A f \in TagFiles : Len(Held(fs[f])) = n
    BY Zenon DEF Agree
  <1>3. \A f \in Files : Held(fs[f]) = fs[f].stored /\ IsSeq(fs[f].stored)
    <2> TAKE f \in Files
    <2>1. IsSeq(fs[f].stored)
      BY <1>2 DEF AreFiles, IsFile
    <2>2. fs[f].stored \o <<>> = fs[f].stored
      BY <2>1, ConcatNothing
    <2>3. fs[f].pending = <<>>
      OBVIOUS
    <2> QED
      BY <2>1, <2>2, <2>3, Zenon DEF Held
  <1>4. IsSeq(tags) /\ IsSeq(points)
    BY <1>1, PickedIs
  <1>5. /\ DOMAIN tags = 1..Len(tags) /\ Len(tags) \in Nat
        /\ DOMAIN points = 1..Len(points) /\ Len(points) \in Nat
    BY <1>4, SeqFacts
  <1>6. fs["tag_text"].stored = TextOf(lead, tags) /\ Len(lead) = first
    <2> DEFINE s == fs["tag_text"].stored
    <2>1. s = Held(fs["tag_text"]) /\ IsSeq(s)
      BY <1>3, TagFilesAre
    <2> HIDE DEF s
    <2>2. HasTexts(s, first, tags)
      BY <1>1, <2>1 DEF HasTexts
    <2>3. s = TextOf(LeadOf(first), tags) /\ Len(LeadOf(first)) = first
      BY <1>1, <1>4, <2>1, <2>2, TextIs
    <2> QED
      BY <2>3 DEF s, lead
  <1>7. fs["map_points"].stored = [i \in DOMAIN points |-> Place(points[i])]
    <2> DEFINE s == fs["map_points"].stored
               m == Len(points)
    <2>1. s = Held(fs["map_points"]) /\ IsSeq(s)
      BY <1>3, TagFilesAre
    <2> HIDE DEF s
    <2>2. Len(s) = m /\ \A i \in 1..m : s[i] = Place(points[i])
      BY <1>1, <2>1
    <2>3. s = [i \in 1..m |-> s[i]]
      BY <2>1, <2>2, SeqFacts
    <2>4. DOMAIN points = 1..m
      BY <1>5
    <2> HIDE DEF m
    <2>5. s = [i \in 1..m |-> Place(points[i])]
      BY <2>2, <2>3
    <2> QED
      BY <2>4, <2>5 DEF s
  <1>8. ASSUME NEW f \in TagFiles  PROVE Len(fs[f].stored) = Len(tags) + Len(lead)
    <2>1. Len(Held(fs[f])) = Len(Held(fs["tag_text"])) /\ Held(fs[f]) = fs[f].stored
      BY <1>2, <1>3, TagFilesAre
    <2>2. Len(fs[f].stored) = first + Len(tags)
      BY <1>1, <2>1
    <2>3. \A a, b \in Nat : a + b = b + a
      OBVIOUS
    <2>4. first \in Nat
      BY <1>1
    <2> QED
      BY <1>5, <1>6, <2>2, <2>3, <2>4
  <1>9. ASSUME NEW i \in DOMAIN tags
        PROVE  fs["tag_points"].stored[i + 1] = Place(tags[i])
    <2>1. i \in 1..Len(tags) /\ Held(fs["tag_points"]) = fs["tag_points"].stored
      BY <1>3, <1>5, TagFilesAre
    <2>2. first = 1
      <3>1. ASSUME first = 0  PROVE FALSE
        <4>1. tags = <<>>
          BY <1>1, <3>1, PickedNone
        <4>2. DOMAIN <<>> = {}
          OBVIOUS
        <4> QED
          BY <4>1, <4>2
      <3> QED
        BY <1>1, <3>1
    <2>3. Held(fs["tag_points"])[first + i] = Place(tags[i]) /\ first + i = i + 1
      BY <1>1, <2>1, <2>2
    <2> QED
      BY <2>1, <2>3
  <1> QED
    BY <1>6, <1>7, <1>8, <1>9, Zenon DEF Saying, lead

(* The features that are counted, and those of them that have a record.     *)
LEMMA ThoseAre ==
  ASSUME InputOK(input), SoundInput(input), count \in 0..Len(All(input.values))
  PROVE  /\ Those(AsTag, Counted) = Picked(CountedOf(input, count), TagsOf(input))
         /\ Those(AsPoint, Counted) = Picked(CountedOf(input, count), PointsOf(input))
  <1> DEFINE os == CountedOf(input, count)
  <1>1. Counted = os
    BY Zenon DEF Counted, CountedOf, AllFeatures, All, Lists
  <1>2. \A i \in DOMAIN os : os[i] \in ToSet(All(input.values))
    BY CountedIs
  <1>3. \A i \in DOMAIN os : /\ AsTag(os[i]) <=> os[i] \in TagsOf(input)
                             /\ AsPoint(os[i]) <=> os[i] \in PointsOf(input)
    BY <1>2, KindsAre
  <1> HIDE DEF os
  <1>4. [i \in DOMAIN os |-> IF AsTag(os[i]) THEN <<os[i]>> ELSE <<>>]
          = [i \in DOMAIN os |-> IF os[i] \in TagsOf(input) THEN <<os[i]>> ELSE <<>>]
    BY <1>3
  <1>5. [i \in DOMAIN os |-> IF AsPoint(os[i]) THEN <<os[i]>> ELSE <<>>]
          = [i \in DOMAIN os |-> IF os[i] \in PointsOf(input) THEN <<os[i]>> ELSE <<>>]
    BY <1>3
  <1>6. Those(AsTag, os) = Picked(os, TagsOf(input))
    BY <1>4 DEF Those, Picked
  <1>7. Those(AsPoint, os) = Picked(os, PointsOf(input))
    BY <1>5 DEF Those, Picked
  <1> QED
    BY <1>1, <1>6, <1>7 DEF os

(* In the mode of points there is no tag.                                   *)
LEMMA NoTags == FirstRecords(input) = 0 => TagsOf(input) = {}
  BY DEF FirstRecords, TagsOf

-----------------------------------------------------------------------------
(* Of a program that succeeded the files are the records of the features,   *)
(* and nothing is left in a buffer (convertEntirety and                     *)
(* closeEntiretyOutputs).                                                   *)
THEOREM FilesHoldTheFeatures == Spec => []FilesAreTheFeatures
<1> DEFINE IInv == ReadInv /\ FilesInv
<1>1. Init => IInv
  BY FilesInits, ReadInitInv, FilesInitInv, Zenon
<1>2. IInv /\ [Next]_vars => IInv'
  BY FilesSteps, ReadStepInv, FilesStepInv
<1>3. IInv => FilesAreTheFeatures
  <2> SUFFICES ASSUME ReadInv, FilesInv, step = "done", verdict = "ok", Sound
               PROVE  LET tags == Those(AsTag, Counted)
                          points == Those(AsPoint, Counted)
                          first == IF PointsOnly THEN <<>> ELSE <<FailText>>
                      IN /\ files["tag_text"].stored
                              = [i \in DOMAIN first |-> Bytes(first[i])]
                                \o [i \in DOMAIN tags |-> Bytes(tags[i].named.text)]
                         /\ files["map_points"].stored =
                               [i \in DOMAIN points |-> <<points[i].latitude * 60, -60 * points[i].longitude>>]
                         /\ \A f \in Files : files[f].pending = <<>>
                         /\ \A f \in TagFiles : Len(files[f].stored) = Len(tags) + Len(first)
                         /\ \A i \in DOMAIN tags : files["tag_points"].stored[i + 1]
                                                   = <<tags[i].latitude * 60, -60 * tags[i].longitude>>
    BY Zenon DEF FilesAreTheFeatures
  <2> DEFINE os == CountedOf(input, count)
             T == TagsOf(input)
             P == PointsOf(input)
             first == FirstRecords(input)
             lead == LeadOf(first)
             n == first + indexCount
             tags == Those(AsTag, Counted)
             points == Those(AsPoint, Counted)
  <2>1. InputOK(input) /\ count \in Nat /\ Ended(input, count, verdict)
    BY Zenon DEF ReadInv
  <2>2. SoundInput(input)
    BY Zenon DEF Sound, SoundInput
  <2>3. count \in 0..Len(All(input.values))
    <3>1. Len(All(input.values)) \in Nat
      BY <2>1, <2>2, AllAre
    <3>2. count = Len(All(input.values)) \/ count \in 0..Len(All(input.values))
      BY <2>1, <2>2, Zenon DEF Ended
    <3> QED
      BY <3>1, <3>2
  <2>4. tags = Picked(os, T) /\ points = Picked(os, P)
    BY <2>1, <2>2, <2>3, ThoseAre
  <2>5. Live
    BY DEF Live
  <2>6. /\ Agree(files, first + indexCount, offset) /\ Contents(files, first, os, T, P)
        /\ \A f \in Files : files[f].pending = <<>>
    BY <2>2, <2>5, Zenon DEF FilesInv
  <2>7. lead = IF PointsOnly THEN <<>> ELSE <<FailText>>
    BY ModesAre DEF LeadOf
  <2>8. first = 0 => T = {}
    BY NoTags
  <2> HIDE DEF os, T, P, first, n, tags, points
  <2>9. Agree(files, n, offset)
    BY <2>6 DEF n
  <2>10. Saying(files, lead, tags, points)
    BY <2>4, <2>6, <2>8, <2>9, ContentsSay
  <2> HIDE DEF lead
  <2>11. /\ files["tag_text"].stored = TextOf(lead, tags)
         /\ files["map_points"].stored = [i \in DOMAIN points |-> Place(points[i])]
         /\ \A f \in TagFiles : Len(files[f].stored) = Len(tags) + Len(lead)
         /\ \A i \in DOMAIN tags : files["tag_points"].stored[i + 1] = Place(tags[i])
    BY <2>10, Zenon DEF Saying
  <2> QED
    BY <2>6, <2>7, <2>11, Zenon DEF TextOf, Place, tags, points
<1> QED
  BY <1>1, <1>2, <1>3, PTL DEF Spec

=============================================================================
