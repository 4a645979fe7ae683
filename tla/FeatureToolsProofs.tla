------------------------- MODULE FeatureToolsProofs -------------------------
(***************************************************************************)
(* Theorems about the reader and its tools, for every input, every size of *)
(* the buffer and every failure of the disk.                               *)
(*                                                                         *)
(*   The temporary file              FileInv                               *)
(*   What is accepted                ReaderInv                             *)
(*   The longitudes that are kept    RetainingInv                          *)
(*   The features that are given     DeliveringInv                         *)
(*   What the tools write            ToolInv                               *)
(*   What geojsoncheck reports       ReportInv                             *)
(*                                                                         *)
(* Each part begins with lemmas about the data, where no variable occurs;  *)
(* then one lemma for every place a step may lead to, which says what the  *)
(* invariant asks for there; then one lemma for every action.              *)
(***************************************************************************)
EXTENDS FeatureTools, FiniteSetTheorems, SequenceTheorems, WellFoundedInduction, TLAPS

(* No index is below the first.                                             *)
LEMMA NoIndex == 1..0 = {}
  OBVIOUS

(* Induction up to a bound, with a set in place of a predicate: the         *)
(* well-founded relation is that between the sets of what is above a        *)
(* number.                                                                  *)
LEMMA UpTo ==
  ASSUME NEW n \in Nat, NEW D, 0 \in D, \A k \in 0..n - 1 : k \in D => k + 1 \in D
  PROVE  \A k \in 0..n : k \in D
  <1> DEFINE Above(j) == {k \in 0..n : j <= k}
             R == StrictSubsetOrdering(0..n)
             F == FiniteSubsetsOf(0..n)
             T == {Above(j) : j \in {k \in 0..n : \A i \in 0..k : i \in D}}
  <1>1. IsFiniteSet(0..n)
    BY FS_Interval
  <1>2. F = SUBSET (0..n)
    BY <1>1, FS_FiniteSubsetsOfFinite
  <1>3. IsWellFoundedOn(R, F)
    BY FS_StrictSubsetOrderingWellFounded
  <1>4. Above(0) \in T
    OBVIOUS
  <1>5. T \subseteq F
    BY <1>2
  <1>6. PICK x \in T : \A y \in T : ~(<<y, x>> \in R)
    BY <1>3, <1>4, <1>5, WFMin
  <1>7. PICK j \in 0..n : x = Above(j) /\ \A i \in 0..j : i \in D
    BY <1>6
  <1>8. j = n
    <2> SUFFICES ASSUME j # n  PROVE FALSE
      OBVIOUS
    <2>1. j + 1 \in 0..n /\ j \in 0..n-1
      OBVIOUS
    <2>2. \A i \in 0..j + 1 : i \in D
      BY <1>7, <2>1
    <2>3. Above(j + 1) \in T
      BY <2>1, <2>2
    <2>4. Above(j + 1) \subseteq x /\ Above(j + 1) # x
      BY <1>7, <2>1
    <2>5. <<Above(j + 1), x>> \in R
      BY <2>3, <2>4, <1>2, <1>5, <1>6 DEF StrictSubsetOrdering
    <2> QED
      BY <1>6, <2>3, <2>5
  <1> QED
    BY <1>7, <1>8

-----------------------------------------------------------------------------
(* FlattenSeq. *)

(* The function it takes its value from.                                    *)
IsFlat(f, ss, n) == f = [i \in 1..n |-> IF i = 1 THEN ss[i] ELSE f[i - 1] \o ss[i]]

(* What such a function has at an index.                                    *)
LEMMA FlatAt ==
  ASSUME NEW ss, NEW n, NEW f, IsFlat(f, ss, n), NEW i \in 1..n
  PROVE  f[i] = IF i = 1 THEN ss[i] ELSE f[i - 1] \o ss[i]
  BY DEF IsFlat

(* There is such a function.                                                *)
LEMMA FlatExists ==
  ASSUME NEW ss, NEW n \in Nat
  PROVE  \E f : IsFlat(f, ss, n)
  <1> DEFINE D == {k \in 0..n : \E f : IsFlat(f, ss, k)}
  <1>1. 0 \in D
    <2>1. IsFlat([i \in 1..0 |-> ss[i]], ss, 0)
      BY DEF IsFlat
    <2> QED
      BY <2>1
  <1>2. ASSUME NEW k \in 0..n - 1, k \in D  PROVE k + 1 \in D
    <2>1. PICK f : IsFlat(f, ss, k)
      BY <1>2
    <2> DEFINE g == [i \in 1..k + 1 |-> IF i = 1 THEN ss[i] ELSE f[i - 1] \o ss[i]]
    <2>2. \A i \in 1..k : g[i] = f[i]
      <3>1. \A i \in 1..k : f[i] = IF i = 1 THEN ss[i] ELSE f[i - 1] \o ss[i]
        BY <2>1 DEF IsFlat
      <3>2. \A i \in 1..k : i \in 1..k + 1
        OBVIOUS
      <3> QED
        BY <3>1, <3>2
    <2>3. \A i \in 1..k + 1 : i # 1 => i - 1 \in 1..k
      OBVIOUS
    <2>4. g = [i \in 1..k + 1 |-> IF i = 1 THEN ss[i] ELSE g[i - 1] \o ss[i]]
      BY <2>2, <2>3
    <2> HIDE DEF g
    <2>5. IsFlat(g, ss, k + 1)
      BY <2>4 DEF IsFlat
    <2>6. k + 1 \in 0..n
      OBVIOUS
    <2> QED
      BY <2>5, <2>6
  <1> HIDE DEF D
  <1>3. n \in D
    BY <1>1, <1>2, UpTo
  <1> QED
    BY <1>3 DEF D

(* Two that begin with the same sequences begin alike.                      *)
LEMMA FlatAlike ==
  ASSUME NEW ss, NEW tt, NEW n \in Nat, NEW m \in Nat, m <= n,
         NEW f, NEW g, IsFlat(f, ss, n), IsFlat(g, tt, m),
         \A i \in 1..m : ss[i] = tt[i]
  PROVE  \A i \in 1..m : f[i] = g[i]
  <1> DEFINE D == {k \in 0..m : k = 0 \/ f[k] = g[k]}
  <1>1. \A i \in 1..n : f[i] = IF i = 1 THEN ss[i] ELSE f[i - 1] \o ss[i]
    BY DEF IsFlat
  <1>2. \A i \in 1..m : g[i] = IF i = 1 THEN tt[i] ELSE g[i - 1] \o tt[i]
    BY DEF IsFlat
  <1>3. ASSUME NEW k \in 0..m - 1, k \in D  PROVE k + 1 \in D
    <2>1. k + 1 \in 1..m /\ k + 1 \in 1..n /\ (k + 1) - 1 = k
      OBVIOUS
    <2>2. CASE k = 0
      BY <2>1, <2>2, <1>1, <1>2
    <2>3. CASE k # 0
      BY <2>1, <2>3, <1>1, <1>2, <1>3
    <2> QED
      BY <2>2, <2>3
  <1>4. 0 \in D
    OBVIOUS
  <1> HIDE DEF D
  <1>5. \A k \in 0..m : k \in D
    BY <1>3, <1>4, UpTo
  <1> QED
    BY <1>5 DEF D

(* What FlattenSeq is, without a choice.                                    *)
LEMMA FlattenIs ==
  ASSUME NEW ss, Len(ss) \in Nat, Len(ss) # 0
  PROVE  \E f : IsFlat(f, ss, Len(ss)) /\ FlattenSeq(ss) = f[Len(ss)]
  <1> DEFINE f == CHOOSE f : f = [i \in 1..Len(ss) |-> IF i = 1 THEN ss[i] ELSE f[i - 1] \o ss[i]]
  <1>1. \E g : g = [i \in 1..Len(ss) |-> IF i = 1 THEN ss[i] ELSE g[i - 1] \o ss[i]]
    BY FlatExists DEF IsFlat
  <1>2. IsFlat(f, ss, Len(ss))
    BY <1>1 DEF IsFlat
  <1>3. FlattenSeq(ss) = f[Len(ss)]
    BY DEF FlattenSeq
  <1> QED
    BY <1>2, <1>3

(* One sequence more is flattened at the end.                               *)
LEMMA FlattenGrows ==
  ASSUME NEW ss, NEW tt, NEW n \in Nat, n # 0, Len(ss) = n, Len(tt) = n + 1,
         \A i \in 1..n : ss[i] = tt[i]
  PROVE  FlattenSeq(tt) = FlattenSeq(ss) \o tt[n + 1]
  <1>1. PICK f : IsFlat(f, ss, n) /\ FlattenSeq(ss) = f[n]
    BY FlattenIs
  <1>2. PICK g : IsFlat(g, tt, n + 1) /\ FlattenSeq(tt) = g[n + 1]
    BY FlattenIs
  <1>3. \A i \in 1..n : g[i] = f[i]
    BY <1>1, <1>2, FlatAlike
  <1>4. n + 1 \in 1..n + 1 /\ n + 1 # 1 /\ (n + 1) - 1 = n /\ n \in 1..n
    OBVIOUS
  <1>5. g[n + 1] = IF n + 1 = 1 THEN tt[n + 1] ELSE g[(n + 1) - 1] \o tt[n + 1]
    <2>1. ASSUME NEW m \in 1..n + 1
          PROVE  g[m] = IF m = 1 THEN tt[m] ELSE g[m - 1] \o tt[m]
      BY <1>2, FlatAt
    <2> QED
      BY <1>4, <2>1
  <1>6. g[n + 1] = g[n] \o tt[n + 1] /\ g[n] = f[n]
    BY <1>3, <1>4, <1>5
  <1> QED
    BY <1>1, <1>2, <1>6

(* The first is itself, and with none there is nothing.                     *)
LEMMA FlattenOne ==
  ASSUME NEW ss, Len(ss) = 1
  PROVE  FlattenSeq(ss) = ss[1]
  <1>1. Len(ss) \in Nat /\ Len(ss) # 0
    OBVIOUS
  <1>2. PICK f : IsFlat(f, ss, Len(ss)) /\ FlattenSeq(ss) = f[Len(ss)]
    BY <1>1, FlattenIs
  <1>3. f[1] = IF 1 = 1 THEN ss[1] ELSE f[1 - 1] \o ss[1]
    BY <1>2, FlatAt
  <1> QED
    BY <1>2, <1>3

(* Of no sequences it makes nothing.                                        *)
LEMMA FlattenNone ==
  ASSUME NEW S, NEW ss \in Seq(S), Len(ss) = 0
  PROVE  FlattenSeq(ss) = <<>>
  BY DEF FlattenSeq

(* All of it is a sequence.                                                 *)
LEMMA FlattenType ==
  ASSUME NEW S, NEW n \in Nat, NEW ss, ss = [i \in 1..n |-> ss[i]], Len(ss) = n,
         \A i \in 1..n : ss[i] \in Seq(S)
  PROVE  FlattenSeq(ss) \in Seq(S)
  <1>1. CASE n = 0
    <2>1. ss = <<>>
      BY <1>1, SMT
    <2> QED
      BY <2>1 DEF FlattenSeq
  <1>2. CASE n # 0
    <2>1. PICK f : IsFlat(f, ss, n) /\ FlattenSeq(ss) = f[n]
      BY <1>2, FlattenIs
    <2> DEFINE D == {k \in 0..n : k = 0 \/ f[k] \in Seq(S)}
    <2>2. 0 \in D
      OBVIOUS
    <2>3. ASSUME NEW k \in 0..n - 1, k \in D  PROVE k + 1 \in D
      <3>1. k + 1 \in 1..n /\ (k + 1) - 1 = k
        OBVIOUS
      <3>2. f[k + 1] = IF k + 1 = 1 THEN ss[k + 1] ELSE f[k] \o ss[k + 1]
        BY <2>1, <3>1, FlatAt
      <3>3. ss[k + 1] \in Seq(S)
        BY <3>1
      <3>4. CASE k = 0
        BY <3>2, <3>3, <3>4, <3>1
      <3>5. CASE k # 0
        <4>1. f[k] \in Seq(S)
          BY <2>3, <3>5
        <4>2. k + 1 # 1
          BY <3>5
        <4>3. f[k + 1] = f[k] \o ss[k + 1]
          BY <4>2, <3>1, <3>2, Zenon
        <4>4. f[k + 1] \in Seq(S)
          BY <4>1, <4>3, <3>3, ConcatProperties
        <4> QED
          BY <4>4, <3>1
      <3> QED
        BY <3>4, <3>5
    <2> HIDE DEF D
    <2>4. n \in D
      BY <2>2, <2>3, UpTo
    <2> QED
      BY <2>1, <2>4, <1>2 DEF D
  <1> QED
    BY <1>1, <1>2

-----------------------------------------------------------------------------
(* What is left of a sequence that is read from its head.                   *)

IsSeq(s) == \E S : s \in Seq(S)

Gone(t, s) == Len(s) - Len(t)

IsRest(t, s) ==
    /\ IsSeq(s) /\ IsSeq(t) /\ Len(t) <= Len(s)
    /\ \A i \in 1..Len(t) : t[i] = s[Gone(t, s) + i]

(* A sequence has a length and a domain.                                    *)
LEMMA SeqFacts ==
  ASSUME NEW s, IsSeq(s)
  PROVE  /\ Len(s) \in Nat /\ DOMAIN s = 1..Len(s) /\ (s = <<>> <=> Len(s) = 0)
         /\ s = [i \in 1..Len(s) |-> s[i]]
  BY DEF IsSeq

(* At first all of it is left.                                              *)
LEMMA RestWhole ==
  ASSUME NEW s, IsSeq(s)
  PROVE  IsRest(s, s) /\ Gone(s, s) = 0
  BY SeqFacts DEF IsRest, Gone

(* At last nothing is.                                                      *)
LEMMA RestNone ==
  ASSUME NEW s, IsSeq(s)
  PROVE  IsRest(<<>>, s) /\ Gone(<<>>, s) = Len(s)
  <1>1. Len(s) \in Nat /\ Len(<<>>) = 0 /\ IsSeq(<<>>)
    <2>1. <<>> \in Seq({})
      OBVIOUS
    <2> QED
      BY <2>1, SeqFacts DEF IsSeq
  <1> QED
    BY <1>1, NoIndex DEF IsRest, Gone

(* How much of it is gone, and that nothing is left when all of it is.      *)
LEMMA RestBounds ==
  ASSUME NEW s, NEW t, IsRest(t, s)
  PROVE  /\ Gone(t, s) \in Nat /\ Gone(t, s) <= Len(s) /\ Len(s) \in Nat /\ Len(t) \in Nat
         /\ Len(s) = Gone(t, s) + Len(t)
         /\ t = <<>> <=> Gone(t, s) = Len(s)
         /\ DOMAIN s = 1..Len(s) /\ DOMAIN t = 1..Len(t)
  <1>1. /\ Len(s) \in Nat /\ Len(t) \in Nat /\ (t = <<>> <=> Len(t) = 0)
        /\ DOMAIN s = 1..Len(s) /\ DOMAIN t = 1..Len(t)
    BY SeqFacts DEF IsRest
  <1>2. Len(t) <= Len(s)
    BY DEF IsRest
  <1>3. Gone(t, s) = Len(s) - Len(t)
    BY DEF Gone
  <1> HIDE DEF Gone
  <1>4. \A a, b \in Nat : b <= a => /\ a - b \in Nat /\ a - b <= a /\ a = (a - b) + b
                                     /\ (b = 0 <=> a - b = a)
    OBVIOUS
  <1>5. /\ Gone(t, s) \in Nat /\ Gone(t, s) <= Len(s) /\ Len(s) = Gone(t, s) + Len(t)
        /\ (Len(t) = 0 <=> Gone(t, s) = Len(s))
    <2>1. Len(s) \in Nat /\ Len(t) \in Nat /\ Len(t) <= Len(s)
      BY <1>1, <1>2
    <2>2. /\ Len(s) - Len(t) \in Nat /\ Len(s) - Len(t) <= Len(s)
          /\ Len(s) = (Len(s) - Len(t)) + Len(t)
          /\ (Len(t) = 0 <=> Len(s) - Len(t) = Len(s))
      BY <2>1, <1>4, Zenon
    <2> QED
      BY <2>2, <1>3, Zenon
  <1> QED
    BY <1>1, <1>5

(* The head is the next one, and reading it leaves the tail.                *)
LEMMA RestTail ==
  ASSUME NEW s, NEW t, IsRest(t, s), t # <<>>
  PROVE  /\ IsRest(Tail(t), s) /\ Gone(Tail(t), s) = Gone(t, s) + 1
         /\ Gone(t, s) + 1 \in 1..Len(s) /\ Head(t) = s[Gone(t, s) + 1]
  <1>1. /\ Gone(t, s) \in Nat /\ Len(s) \in Nat /\ Len(t) \in Nat /\ Len(t) # 0
        /\ Len(s) = Gone(t, s) + Len(t)
    BY RestBounds, SeqFacts DEF IsRest
  <1>2. PICK S : t \in Seq(S)
    BY DEF IsRest, IsSeq
  <1>3. /\ Tail(t) \in Seq(S) /\ Len(Tail(t)) = Len(t) - 1
        /\ \A i \in 1..Len(Tail(t)) : Tail(t)[i] = t[i + 1]
    BY <1>2, HeadTailProperties
  <1>4. Head(t) = t[1]
    BY <1>2
  <1>5. Gone(Tail(t), s) = Gone(t, s) + 1
    BY <1>1, <1>3 DEF Gone
  <1>6. ASSUME NEW i \in 1..Len(Tail(t))  PROVE Tail(t)[i] = s[Gone(Tail(t), s) + i]
    <2>1. i + 1 \in 1..Len(t) /\ Gone(t, s) + (i + 1) = (Gone(t, s) + 1) + i
      BY <1>1, <1>3
    <2>2. t[i + 1] = s[Gone(t, s) + (i + 1)]
      BY <2>1 DEF IsRest
    <2> QED
      BY <2>1, <2>2, <1>3, <1>5
  <1>7. IsRest(Tail(t), s)
    <2>1. IsSeq(s) /\ IsSeq(Tail(t))
      BY <1>3 DEF IsRest, IsSeq
    <2>2. Len(Tail(t)) <= Len(s)
      BY <1>1, <1>3
    <2> QED
      BY <2>1, <2>2, <1>6 DEF IsRest
  <1>8. t[1] = s[Gone(t, s) + 1]
    BY <1>1 DEF IsRest
  <1> QED
    BY <1>1, <1>4, <1>5, <1>7, <1>8

-----------------------------------------------------------------------------
(* Sequences put one after another.                                         *)

(* One more at the end of the second is one more at the end.                *)
LEMMA AppendAfter ==
  ASSUME NEW S, NEW s \in Seq(S), NEW t \in Seq(S), NEW x \in S
  PROVE  s \o Append(t, x) = Append(s \o t, x)
  <1>1. <<x>> \in Seq(S) /\ s \o t \in Seq(S)
    BY ConcatProperties
  <1>2. Append(t, x) = t \o <<x>> /\ Append(s \o t, x) = (s \o t) \o <<x>>
    BY <1>1, AppendIsConcat
  <1>3. (s \o t) \o <<x>> = s \o (t \o <<x>>)
    BY <1>1, ConcatAssociative
  <1> QED
    BY <1>2, <1>3

(* What two sequences make end to end, item by item.                        *)
LEMMA ConcatSeq ==
  ASSUME NEW s, IsSeq(s), NEW t, IsSeq(t)
  PROVE  /\ IsSeq(s \o t) /\ Len(s \o t) = Len(s) + Len(t)
         /\ \A i \in 1..Len(s) + Len(t) :
              (s \o t)[i] = IF i <= Len(s) THEN s[i] ELSE t[i - Len(s)]
  <1>1. PICK S, T : s \in Seq(S) /\ t \in Seq(T)
    BY DEF IsSeq
  <1> DEFINE U == S \union T
  <1>2. s \in Seq(U) /\ t \in Seq(U)
    BY <1>1
  <1> HIDE DEF U
  <1> QED
    BY <1>2, ConcatProperties DEF IsSeq

(* Nothing before it and nothing after it leave it as it is.                *)
LEMMA ConcatNothing ==
  ASSUME NEW s, IsSeq(s)
  PROVE  s \o <<>> = s /\ <<>> \o s = s /\ IsSeq(<<>>)
  <1>1. PICK S : s \in Seq(S)
    BY DEF IsSeq
  <1>2. <<>> \in Seq(S)
    OBVIOUS
  <1> QED
    BY <1>1, <1>2, ConcatEmptySeq DEF IsSeq

(* It does not matter which two of three are put together first.            *)
LEMMA ConcatThree ==
  ASSUME NEW s, IsSeq(s), NEW t, IsSeq(t), NEW u, IsSeq(u)
  PROVE  (s \o t) \o u = s \o (t \o u)
  <1>1. PICK S, T, U : s \in Seq(S) /\ t \in Seq(T) /\ u \in Seq(U)
    BY DEF IsSeq
  <1> DEFINE V == S \union T \union U
  <1>2. s \in Seq(V) /\ t \in Seq(V) /\ u \in Seq(V)
    BY <1>1
  <1> HIDE DEF V
  <1> QED
    BY <1>2, ConcatAssociative

(* To append is to put a sequence of one after.                             *)
LEMMA AppendLast ==
  ASSUME NEW s, IsSeq(s), NEW x
  PROVE  Append(s, x) = s \o <<x>> /\ IsSeq(<<x>>)
  <1>1. PICK S : s \in Seq(S)
    BY DEF IsSeq
  <1> DEFINE T == S \union {x}
  <1>2. s \in Seq(T) /\ x \in T /\ <<x>> \in Seq(T)
    BY <1>1
  <1> HIDE DEF T
  <1> QED
    BY <1>2, AppendIsConcat DEF IsSeq

-----------------------------------------------------------------------------
(* One sequence begins another.                                             *)

Begins(s, t) == \E u : IsSeq(u) /\ t = s \o u

(* The first n of a sequence.                                               *)
LEMMA FirstOnes ==
  ASSUME NEW s, NEW n \in Nat
  PROVE  SubSeq(s, 1, n) = [i \in 1..n |-> s[i]]
  <1>1. (n - 1) + 1 = n /\ \A i \in 1..n : (i + 1) - 1 = i
    OBVIOUS
  <1> QED
    BY <1>1

(* To begin is to be a prefix.                                              *)
LEMMA BeginsPrefix ==
  ASSUME NEW s, IsSeq(s), NEW t, Begins(s, t)
  PROVE  IsPrefix(s, t)
  <1>1. PICK u : IsSeq(u) /\ t = s \o u
    BY DEF Begins
  <1>2. /\ IsSeq(t) /\ Len(t) = Len(s) + Len(u) /\ Len(s) \in Nat /\ Len(u) \in Nat
        /\ \A i \in 1..Len(s) + Len(u) : t[i] = IF i <= Len(s) THEN s[i] ELSE u[i - Len(s)]
    BY <1>1, ConcatSeq, SeqFacts
  <1>3. Len(s) <= Len(t) /\ \A i \in 1..Len(s) : t[i] = s[i]
    <2>1. \A i \in 1..Len(s) : i \in 1..Len(s) + Len(u) /\ i <= Len(s)
      BY <1>2
    <2> QED
      BY <1>2, <2>1
  <1>4. SubSeq(s, 1, Len(s)) = SubSeq(t, 1, Len(s))
    <2> DEFINE n == Len(s)
    <2>1. n \in Nat /\ \A i \in 1..n : t[i] = s[i]
      BY <1>2, <1>3
    <2> HIDE DEF n
    <2>2. SubSeq(s, 1, n) = [i \in 1..n |-> s[i]] /\ SubSeq(t, 1, n) = [i \in 1..n |-> t[i]]
      BY <2>1, FirstOnes
    <2> QED
      BY <2>1, <2>2 DEF n
  <1> QED
    BY <1>3, <1>4 DEF IsPrefix

(* A sequence begins itself, and nothing begins every sequence.             *)
LEMMA BeginsItself ==
  ASSUME NEW s, IsSeq(s)
  PROVE  Begins(s, s) /\ Begins(<<>>, s)
  BY ConcatNothing DEF Begins

(* What begins what begins a third begins the third.                        *)
LEMMA BeginsFurther ==
  ASSUME NEW s, IsSeq(s), NEW t, Begins(s, t), NEW u, Begins(t, u)
  PROVE  Begins(s, u)
  <1>1. PICK v : IsSeq(v) /\ t = s \o v
    BY DEF Begins
  <1>2. PICK w : IsSeq(w) /\ u = t \o w
    BY DEF Begins
  <1>3. (s \o v) \o w = s \o (v \o w)
    BY <1>1, <1>2, ConcatThree
  <1>4. IsSeq(v \o w)
    BY <1>1, <1>2, ConcatSeq
  <1> QED
    BY <1>1, <1>2, <1>3, <1>4 DEF Begins

(* Behind the same sequence one still begins the other.                     *)
LEMMA BeginsAfter ==
  ASSUME NEW r, IsSeq(r), NEW s, IsSeq(s), NEW t, Begins(s, t)
  PROVE  Begins(r \o s, r \o t)
  <1>1. PICK u : IsSeq(u) /\ t = s \o u
    BY DEF Begins
  <1>2. r \o t = (r \o s) \o u
    BY <1>1, ConcatThree
  <1> QED
    BY <1>1, <1>2 DEF Begins

(* A sequence begins whatever is put after it.                              *)
LEMMA BeginsLonger ==
  ASSUME NEW s, IsSeq(s), NEW t, IsSeq(t)
  PROVE  Begins(s, s \o t)
  BY DEF Begins

-----------------------------------------------------------------------------
(* The first n of some sequences, flattened.                                *)

Flat(ss, n) == FlattenSeq([i \in 1..n |-> ss[i]])

(* The first none of the sequences make nothing.                            *)
LEMMA FlatNothing == \A ss : Flat(ss, 0) = <<>>
  <1> SUFFICES ASSUME NEW ss  PROVE Flat(ss, 0) = <<>>
    OBVIOUS
  <1> DEFINE tt == [i \in 1..0 |-> ss[i]]
  <1>1. tt = <<>>
    BY NoIndex
  <1>2. tt \in Seq({}) /\ Len(tt) = 0
    BY <1>1
  <1> HIDE DEF tt
  <1>3. FlattenSeq(tt) = <<>>
    BY <1>2, FlattenNone
  <1> QED
    BY <1>3 DEF Flat, tt

(* The first n of the sequences make a sequence.                            *)
LEMMA FlatType ==
  ASSUME NEW ss, NEW n \in Nat, \A i \in 1..n : IsSeq(ss[i])
  PROVE  IsSeq(Flat(ss, n))
  <1> DEFINE tt == [i \in 1..n |-> ss[i]]
             S == UNION {ToSet(ss[i]) : i \in 1..n}
  <1>1. Len(tt) = n /\ tt = [i \in 1..n |-> tt[i]] /\ \A i \in 1..n : tt[i] = ss[i]
    OBVIOUS
  <1>2. ASSUME NEW i \in 1..n  PROVE ss[i] \in Seq(S)
    <2> DEFINE s == ss[i]
    <2>1. IsSeq(s)
      OBVIOUS
    <2>2. ToSet(s) \subseteq S
      OBVIOUS
    <2> HIDE DEF s, S
    <2>3. Len(s) \in Nat /\ DOMAIN s = 1..Len(s) /\ s = [k \in 1..Len(s) |-> s[k]]
      BY <2>1, SeqFacts
    <2>4. \A k \in 1..Len(s) : s[k] \in S
      BY <2>2, <2>3 DEF ToSet
    <2>5. s \in Seq(S)
      BY <2>3, <2>4, IsASeq
    <2> QED
      BY <2>5 DEF s
  <1> HIDE DEF S, tt
  <1>3. FlattenSeq(tt) \in Seq(S)
    BY <1>1, <1>2, FlattenType
  <1> QED
    BY <1>3 DEF Flat, tt, IsSeq

(* One more of the sequences puts its items after those of the others.      *)
LEMMA FlatMore ==
  ASSUME NEW ss, NEW n \in Nat, IsSeq(ss[n + 1])
  PROVE  Flat(ss, n + 1) = Flat(ss, n) \o ss[n + 1]
  <1> DEFINE s == [i \in 1..n |-> ss[i]]
             t == [i \in 1..n + 1 |-> ss[i]]
  <1>1. /\ Len(s) = n /\ Len(t) = n + 1 /\ t[n + 1] = ss[n + 1]
        /\ \A i \in 1..n : s[i] = t[i]
    OBVIOUS
  <1>2. CASE n = 0
    <2>1. Flat(ss, n) = <<>>
      BY <1>2, FlatNothing
    <2>2. Len(t) = 1 /\ t[1] = ss[n + 1]
      BY <1>1, <1>2
    <2> HIDE DEF t
    <2>3. FlattenSeq(t) = ss[n + 1]
      BY <2>2, FlattenOne
    <2>4. <<>> \o ss[n + 1] = ss[n + 1]
      BY ConcatNothing
    <2> QED
      BY <2>1, <2>3, <2>4 DEF Flat, t
  <1>3. CASE n # 0
    <2> HIDE DEF s, t
    <2>1. FlattenSeq(t) = FlattenSeq(s) \o t[n + 1]
      BY <1>1, <1>3, FlattenGrows
    <2> QED
      BY <1>1, <2>1 DEF Flat, s, t
  <1> QED
    BY <1>2, <1>3

(* Fewer of them begin what more of them make.                              *)
LEMMA FlatBegins ==
  ASSUME NEW ss, NEW m \in Nat, \A i \in 1..m : IsSeq(ss[i]), NEW n \in 0..m
  PROVE  Begins(Flat(ss, n), Flat(ss, m))
  <1> DEFINE D == {k \in 0..m - n : Begins(Flat(ss, n), Flat(ss, n + k))}
  <1>1. \A k \in 0..m : IsSeq(Flat(ss, k))
    <2> SUFFICES ASSUME NEW k \in 0..m  PROVE IsSeq(Flat(ss, k))
      OBVIOUS
    <2>1. k \in Nat /\ \A i \in 1..k : i \in 1..m
      OBVIOUS
    <2> QED
      BY <2>1, FlatType
  <1>2. 0 \in D
    <2>1. n + 0 = n /\ 0 \in 0..m - n
      OBVIOUS
    <2> QED
      BY <1>1, <2>1, BeginsItself
  <1>3. ASSUME NEW k \in 0..(m - n) - 1, k \in D  PROVE k + 1 \in D
    <2>1. /\ n + k \in Nat /\ n + (k + 1) = (n + k) + 1 /\ (n + k) + 1 \in 1..m
          /\ n + k \in 0..m /\ k + 1 \in 0..m - n
      OBVIOUS
    <2>2. Flat(ss, (n + k) + 1) = Flat(ss, n + k) \o ss[(n + k) + 1]
      BY <2>1, FlatMore
    <2>3. Begins(Flat(ss, n + k), Flat(ss, (n + k) + 1))
      BY <1>1, <2>1, <2>2, BeginsLonger
    <2>4. Begins(Flat(ss, n), Flat(ss, n + k))
      BY <1>3
    <2>5. Begins(Flat(ss, n), Flat(ss, (n + k) + 1))
      BY <1>1, <2>3, <2>4, BeginsFurther
    <2> QED
      BY <2>1, <2>5
  <1> HIDE DEF D
  <1>4. m - n \in Nat /\ n + (m - n) = m /\ m - n \in 0..m - n
    OBVIOUS
  <1>5. m - n \in D
    BY <1>2, <1>3, <1>4, UpTo
  <1> QED
    BY <1>4, <1>5 DEF D

-----------------------------------------------------------------------------
(* The items of sequences, and their first ones.                           *)

(* What a sequence has with one item more.                                  *)
LEMMA AppendSet ==
  ASSUME NEW S, NEW s \in Seq(S), NEW x \in S
  PROVE  ToSet(Append(s, x)) = ToSet(s) \union {x} /\ Append(s, x) \in Seq(S)
  <1>1. /\ Append(s, x) \in Seq(S) /\ Len(Append(s, x)) = Len(s) + 1
        /\ \A i \in 1..Len(s) : Append(s, x)[i] = s[i]
        /\ Append(s, x)[Len(s) + 1] = x
    BY AppendProperties
  <1>2. Len(s) \in Nat /\ DOMAIN s = 1..Len(s) /\ DOMAIN Append(s, x) = 1..Len(s) + 1
    BY <1>1
  <1>3. \A i : i \in 1..Len(s) + 1 <=> i \in 1..Len(s) \/ i = Len(s) + 1
    BY <1>2
  <1> QED
    BY <1>1, <1>2, <1>3 DEF ToSet

(* What two sequences have end to end.                                      *)
LEMMA ConcatSet ==
  ASSUME NEW S, NEW s \in Seq(S), NEW t \in Seq(S)
  PROVE  ToSet(s \o t) = ToSet(s) \union ToSet(t) /\ s \o t \in Seq(S)
  <1>1. /\ s \o t \in Seq(S) /\ Len(s \o t) = Len(s) + Len(t)
        /\ \A i \in 1..Len(s) + Len(t) :
             (s \o t)[i] = IF i <= Len(s) THEN s[i] ELSE t[i - Len(s)]
    BY ConcatProperties
  <1>2. /\ Len(s) \in Nat /\ Len(t) \in Nat /\ DOMAIN s = 1..Len(s) /\ DOMAIN t = 1..Len(t)
        /\ DOMAIN (s \o t) = 1..Len(s) + Len(t)
    BY <1>1
  <1> DEFINE u == s \o t
  <1> HIDE DEF u
  <1>3. \A i \in 1..Len(s) : i \in DOMAIN u /\ u[i] = s[i]
    BY <1>1, <1>2 DEF u
  <1>4. ASSUME NEW i \in 1..Len(t)  PROVE Len(s) + i \in DOMAIN u /\ u[Len(s) + i] = t[i]
    <2>1. Len(s) + i \in 1..Len(s) + Len(t) /\ ~(Len(s) + i <= Len(s)) /\ (Len(s) + i) - Len(s) = i
      BY <1>2
    <2> QED
      BY <2>1, <1>1, <1>2 DEF u
  <1>5. \A i \in DOMAIN u : (i \in 1..Len(s) /\ u[i] = s[i])
                            \/ (i - Len(s) \in 1..Len(t) /\ u[i] = t[i - Len(s)])
    BY <1>1, <1>2 DEF u
  <1>6. ToSet(u) = ToSet(s) \union ToSet(t)
    BY <1>2, <1>3, <1>4, <1>5 DEF ToSet
  <1> QED
    BY <1>1, <1>6 DEF u

(* The largest of the numbers up to a bound that have a property.           *)
LEMMA Largest ==
  ASSUME NEW n \in Nat, NEW S, S \subseteq 0..n, NEW m \in S
  PROVE  Max(S) \in S /\ m <= Max(S)
  <1> DEFINE D == {k \in 0..n : (\E x \in S : x <= k) =>
                                \E y \in S : \A x \in S : x <= k => x <= y}
  <1>1. 0 \in D
    <2>1. \A x \in S : x <= 0 => x = 0
      OBVIOUS
    <2> QED
      BY <2>1
  <1>2. ASSUME NEW k \in 0..n - 1, k \in D  PROVE k + 1 \in D
    <2>1. k + 1 \in 0..n /\ \A x \in S : x <= k + 1 <=> x <= k \/ x = k + 1
      OBVIOUS
    <2>2. CASE k + 1 \in S
      BY <2>1, <2>2
    <2>3. CASE k + 1 \notin S
      BY <1>2, <2>1, <2>3
    <2> QED
      BY <2>2, <2>3
  <1> HIDE DEF D
  <1>3. n \in 0..n /\ m <= n /\ \A x \in S : x <= n
    OBVIOUS
  <1>4. n \in D
    BY <1>1, <1>2, <1>3, UpTo
  <1>5. PICK y \in S : \A x \in S : x <= n => x <= y
    BY <1>3, <1>4 DEF D
  <1>6. \A x \in S : y >= x
    BY <1>3, <1>5
  <1>7. Max(S) \in S /\ \A x \in S : Max(S) >= x
    BY <1>6 DEF Max
  <1> QED
    BY <1>7

(* The first n items of a sequence.                                         *)
LEMMA FirstItems ==
  ASSUME NEW s, IsSeq(s), NEW n \in 0..Len(s)
  PROVE  /\ IsSeq(SubSeq(s, 1, n)) /\ Len(SubSeq(s, 1, n)) = n
         /\ \A i \in 1..n : SubSeq(s, 1, n)[i] = s[i]
         /\ SubSeq(s, 1, 0) = <<>> /\ SubSeq(s, 1, Len(s)) = s
  <1>1. Len(s) \in Nat /\ s = [i \in 1..Len(s) |-> s[i]] /\ n \in Nat
    BY SeqFacts
  <1>2. PICK S : s \in Seq(S)
    BY DEF IsSeq
  <1>3. \A i \in 1..n : s[i] \in S
    BY <1>1, <1>2
  <1>4. SubSeq(s, 1, n) = [i \in 1..n |-> s[i]]
    BY <1>1, FirstOnes
  <1>5. SubSeq(s, 1, n) \in Seq(S) /\ Len(SubSeq(s, 1, n)) = n
    BY <1>1, <1>3, <1>4, IsASeq
  <1>6. SubSeq(s, 1, Len(s)) = s
    BY <1>1, FirstOnes
  <1>7. SubSeq(s, 1, 0) = <<>>
    <2>1. SubSeq(s, 1, 0) = [i \in 1..0 |-> s[i]]
      BY FirstOnes
    <2> QED
      BY <2>1, NoIndex
  <1> QED
    BY <1>4, <1>5, <1>6, <1>7 DEF IsSeq

(* Fewer of its first ones begin more of them, and one more comes last.     *)
LEMMA FirstBegins ==
  ASSUME NEW s, IsSeq(s), NEW m \in 0..Len(s), NEW n \in 0..m
  PROVE  Begins(SubSeq(s, 1, n), SubSeq(s, 1, m))
  <1> DEFINE t == [i \in 1..m - n |-> s[n + i]]
  <1>1. Len(s) \in Nat /\ m \in Nat /\ n \in Nat /\ m - n \in Nat /\ n \in 0..Len(s)
    BY SeqFacts
  <1>2. PICK S : s \in Seq(S)
    BY DEF IsSeq
  <1>3. \A i \in 1..m - n : n + i \in 1..Len(s)
    BY <1>1
  <1>4. \A i \in 1..m - n : s[n + i] \in S
    BY <1>2, <1>3
  <1>5. t \in Seq(S) /\ Len(t) = m - n /\ \A i \in 1..m - n : t[i] = s[n + i]
    BY <1>1, <1>4, IsASeq
  <1> DEFINE a == SubSeq(s, 1, n)
             b == SubSeq(s, 1, m)
  <1>6. /\ IsSeq(a) /\ Len(a) = n /\ (\A i \in 1..n : a[i] = s[i])
        /\ IsSeq(b) /\ Len(b) = m /\ (\A i \in 1..m : b[i] = s[i])
    BY <1>1, FirstItems
  <1> HIDE DEF a, b, t
  <1>7. IsSeq(t)
    BY <1>5 DEF IsSeq
  <1>8. /\ IsSeq(a \o t) /\ Len(a \o t) = n + (m - n)
        /\ \A i \in 1..n + (m - n) : (a \o t)[i] = IF i <= n THEN a[i] ELSE t[i - n]
    <2>1. /\ IsSeq(a \o t) /\ Len(a \o t) = Len(a) + Len(t)
          /\ \A i \in 1..Len(a) + Len(t) :
               (a \o t)[i] = IF i <= Len(a) THEN a[i] ELSE t[i - Len(a)]
      BY <1>6, <1>7, ConcatSeq
    <2>2. Len(a) = n /\ Len(t) = m - n
      BY <1>5, <1>6
    <2> QED
      BY <2>1, <2>2
  <1>9. b = a \o t
    <2> DEFINE c == a \o t
    <2>1. n + (m - n) = m
      BY <1>1
    <2>2. IsSeq(c) /\ Len(c) = m /\ \A i \in 1..m : c[i] = IF i <= n THEN a[i] ELSE t[i - n]
      BY <1>8, <2>1
    <2> HIDE DEF c
    <2>3. \A i \in 1..m : /\ i <= n => i \in 1..n
                          /\ ~(i <= n) => i - n \in 1..m - n /\ n + (i - n) = i
      BY <1>1
    <2>4. \A i \in 1..m : c[i] = b[i]
      BY <1>5, <1>6, <2>2, <2>3
    <2>5. b = c
      BY <1>6, <2>2, <2>4, SeqFacts
    <2> QED
      BY <2>5 DEF c
  <1>10. Begins(a, b)
    BY <1>7, <1>9 DEF Begins
  <1> QED
    BY <1>10 DEF a, b

-----------------------------------------------------------------------------
(* The temporary file. *)

(* Where no object is in hand there is no file.                             *)
FileInv ==
    /\ pc \in {"start", "record", "value", "element"} => ~disk.there
    /\ pc = "done" => ~disk.there \/ verdict = "clean-up failed"

(* A cleared reader has no file.                                            *)
LEMMA NoFileThere == ~NoFile.there
  BY Zenon DEF NoFile

(* The steps between objects leave no file behind.                          *)
LEMMA BetweenObjects ==
  ASSUME FileInv, Start \/ ReadRecord \/ EndRecord \/ ReadValue \/ ReadElement
  PROVE  FileInv'
  <1>1. ~disk.there
    BY DEF FileInv, Start, ReadRecord, EndRecord, ReadValue, ReadElement
  <1>2. disk' = disk \/ disk' = NoFile
    BY DEF Start, ReadRecord, EndRecord, ReadValue, ReadElement, Begin
  <1> QED
    BY <1>1, <1>2, NoFileThere DEF FileInv

(* Inside an object no step returns: it stays in the object, or leaves by   *)
(* the deferred function.                                                   *)
LEMMA InsideObject ==
  ASSUME \/ ReadMember \/ EndObject \/ EnterFeature \/ ReadPosition \/ EndFeature
         \/ EndFeatures \/ Finish \/ Rewind \/ Reread
  PROVE  pc' \in {"member", "feature", "position", "finish", "rewind", "reread", "close"}
  <1>1. CASE ReadMember
    BY <1>1 DEF ReadMember, EnterFeatures, Leave
  <1>2. CASE EndObject
    BY <1>2 DEF EndObject, EnterFeatures, VisitObject, Leave
  <1>3. CASE EnterFeature \/ EndFeature \/ EndFeatures
    BY <1>3 DEF EnterFeature, EndFeature, EndFeatures, Leave
  <1>4. CASE ReadPosition
    BY <1>4 DEF ReadPosition, AddLongitude, Spill, Leave
  <1>5. CASE Finish \/ Rewind \/ Reread
    BY <1>5 DEF Finish, Rewind, Reread, Leave
  <1> QED
    BY <1>1, <1>2, <1>3, <1>4, <1>5

(* No temporary file outlives the object it was made for, on any path out   *)
(* of it, however the disk and the callback behave, unless its removal      *)
(* fails (the deferred bounds.close of visitJSONObject).                    *)
THEOREM TemporaryFileGoneCorrect == Spec => []TemporaryFileGone
  <1>1. Init => FileInv
    BY NoFileThere DEF Init, FileInv
  <1>2. ASSUME FileInv, [Next]_vars  PROVE FileInv'
    <2>1. CASE Start \/ ReadRecord \/ EndRecord \/ ReadValue \/ ReadElement
      BY <1>2, <2>1, BetweenObjects
    <2>2. CASE \/ ReadMember \/ EndObject \/ EnterFeature \/ ReadPosition \/ EndFeature
               \/ EndFeatures \/ Finish \/ Rewind \/ Reread
      BY <2>2, InsideObject DEF FileInv
    <2>3. CASE CloseBounds
      BY <2>3, NoFileThere DEF CloseBounds, Return, FileInv
    <2>4. CASE UNCHANGED vars
      BY <1>2, <2>4 DEF vars, FileInv
    <2> QED
      BY <1>2, <2>1, <2>2, <2>3, <2>4 DEF Next, Step, Returned
  <1>3. FileInv => TemporaryFileGone
    BY DEF FileInv, TemporaryFileGone
  <1> QED
    BY <1>1, <1>2, <1>3, PTL DEF Spec

-----------------------------------------------------------------------------
(* Summaries.                                                               *)

SummaryType == [dim : Nat, mixed : BOOLEAN,
                west : Int, east : Int, south : Int, north : Int]

(* What a summary says of a set of positions: nothing of none, that they    *)
(* have as many coordinates as each other or do not, and if they do the     *)
(* least box around them.                                                   *)
Summarises(s, ps) ==
    /\ s \in SummaryType /\ (s.dim = 0 <=> ps = {})
    /\ s.dim = 0 => ~s.mixed
    /\ s.dim # 0 =>
         /\ \E p \in ps : p.dim = s.dim
         /\ s.mixed => \E p, q \in ps : p.dim # q.dim
         /\ ~s.mixed =>
              /\ \A p \in ps : /\ p.dim = s.dim
                               /\ s.west <= p.lon /\ p.lon <= s.east
                               /\ s.south <= p.lat /\ p.lat <= s.north
              /\ \E p \in ps : p.lon = s.west
              /\ \E p \in ps : p.lon = s.east
              /\ \E p \in ps : p.lat = s.south
              /\ \E p \in ps : p.lat = s.north

ArePositions(ps) == \A p \in ps : IsPosition(p)

(* The fields of a summary, one at a time.                                  *)
LEMMA NothingFields == Nothing.dim = 0 /\ ~Nothing.mixed /\ Nothing \in SummaryType
  <1>1. Nothing.dim = 0 /\ ~Nothing.mixed
    BY Zenon DEF Nothing
  <1>2. 0 \in Nat /\ 0 \in Int
    OBVIOUS
  <1>3. Nothing \in SummaryType
    BY <1>2, Zenon DEF Nothing, SummaryType
  <1> QED
    BY <1>1, <1>3

(* The fields of the summary of one position.                               *)
LEMMA AloneFields ==
  ASSUME NEW p, IsPosition(p)
  PROVE  /\ Alone(p).dim = p.dim /\ ~Alone(p).mixed
         /\ Alone(p).west = p.lon /\ Alone(p).east = p.lon
         /\ Alone(p).south = p.lat /\ Alone(p).north = p.lat
         /\ Alone(p) \in SummaryType
  <1>1. p.dim \in Nat /\ p.lon \in Int /\ p.lat \in Int
    BY DEF IsPosition
  <1> QED
    BY <1>1, Zenon DEF Alone, SummaryType

(* What the fields of a summary are.                                        *)
LEMMA SummaryFields ==
  ASSUME NEW s \in SummaryType
  PROVE  s.dim \in Nat /\ s.mixed \in BOOLEAN /\ s.west \in Int /\ s.east \in Int
         /\ s.south \in Int /\ s.north \in Int
  BY Zenon DEF SummaryType

(* A summary with its mixed flag set.                                       *)
LEMMA Mixes ==
  ASSUME NEW s \in SummaryType, NEW m \in BOOLEAN
  PROVE  LET u == [s EXCEPT !.mixed = m] IN
         /\ u \in SummaryType /\ u.dim = s.dim /\ (u.mixed <=> m)
         /\ u.west = s.west /\ u.east = s.east /\ u.south = s.south /\ u.north = s.north
  BY Zenon DEF SummaryType

(* No position is summarised by Nothing, one by itself.                     *)
LEMMA NothingSummarises == Summarises(Nothing, {})
  BY NothingFields DEF Summarises

(* The summary of one position is that of the set of it.                    *)
LEMMA AloneSummarises ==
  ASSUME NEW p, IsPosition(p)
  PROVE  Summarises(Alone(p), {p})
  <1>1. /\ Alone(p).dim = p.dim /\ ~Alone(p).mixed
        /\ Alone(p).west = p.lon /\ Alone(p).east = p.lon
        /\ Alone(p).south = p.lat /\ Alone(p).north = p.lat
        /\ Alone(p) \in SummaryType
    BY AloneFields
  <1>2. p.dim \in Nat \ {0, 1} /\ p.lon \in Int /\ p.lat \in Int
    BY DEF IsPosition
  <1> QED
    BY <1>1, <1>2 DEF Summarises

(* Merge, case by case.                                                     *)
LEMMA MergeIs ==
  ASSUME NEW s \in SummaryType, NEW t \in SummaryType
  PROVE  /\ s.dim = 0 => Merge(s, t) = [t EXCEPT !.mixed = t.mixed \/ s.mixed]
         /\ s.dim # 0 /\ t.dim = 0 => Merge(s, t) = s
         /\ s.dim # 0 /\ t.dim # 0 /\ s.dim # t.dim => Merge(s, t) = [s EXCEPT !.mixed = TRUE]
         /\ s.dim # 0 /\ s.dim = t.dim =>
              Merge(s, t) =
                [dim |-> s.dim, mixed |-> s.mixed \/ t.mixed,
                 west |-> Lower(s.west, t.west), east |-> Upper(s.east, t.east),
                 south |-> Lower(s.south, t.south), north |-> Upper(s.north, t.north)]
  BY DEF Merge

(* The lesser and the greater of two numbers.                               *)
LEMMA LowerUpper ==
  ASSUME NEW a \in Int, NEW b \in Int
  PROVE  /\ Lower(a, b) \in {a, b} /\ Lower(a, b) <= a /\ Lower(a, b) <= b /\ Lower(a, b) \in Int
         /\ Upper(a, b) \in {a, b} /\ a <= Upper(a, b) /\ b <= Upper(a, b) /\ Upper(a, b) \in Int
  BY DEF Lower, Upper

(* A summary put together from its fields.                                  *)
LEMMA SummaryOf ==
  ASSUME NEW d \in Nat, NEW m \in BOOLEAN, NEW w \in Int, NEW e \in Int, NEW a \in Int, NEW b \in Int
  PROVE  LET u == [dim |-> d, mixed |-> m, west |-> w, east |-> e, south |-> a, north |-> b] IN
         /\ u \in SummaryType /\ u.dim = d /\ (u.mixed <=> m)
         /\ u.west = w /\ u.east = e /\ u.south = a /\ u.north = b
  BY Zenon DEF SummaryType

(* The fields of two summaries of as many coordinates, merged.              *)
LEMMA MergeFields ==
  ASSUME NEW s \in SummaryType, NEW t \in SummaryType, s.dim # 0, s.dim = t.dim
  PROVE  /\ Merge(s, t) \in SummaryType
         /\ Merge(s, t).dim = s.dim /\ (Merge(s, t).mixed <=> s.mixed \/ t.mixed)
         /\ Merge(s, t).west = Lower(s.west, t.west) /\ Merge(s, t).east = Upper(s.east, t.east)
         /\ Merge(s, t).south = Lower(s.south, t.south)
         /\ Merge(s, t).north = Upper(s.north, t.north)
  <1>1. /\ s.dim \in Nat /\ s.mixed \in BOOLEAN /\ t.mixed \in BOOLEAN
        /\ Lower(s.west, t.west) \in Int /\ Upper(s.east, t.east) \in Int
        /\ Lower(s.south, t.south) \in Int /\ Upper(s.north, t.north) \in Int
    BY SummaryFields, LowerUpper
  <1>2. Merge(s, t) = [dim |-> s.dim, mixed |-> s.mixed \/ t.mixed,
                 west |-> Lower(s.west, t.west), east |-> Upper(s.east, t.east),
                 south |-> Lower(s.south, t.south), north |-> Upper(s.north, t.north)]
    BY MergeIs
  <1>3. (s.mixed \/ t.mixed) \in BOOLEAN
    BY Zenon
  <1> DEFINE u == Merge(s, t)
  <1>4. u = [dim |-> s.dim, mixed |-> s.mixed \/ t.mixed,
                 west |-> Lower(s.west, t.west), east |-> Upper(s.east, t.east),
                 south |-> Lower(s.south, t.south), north |-> Upper(s.north, t.north)]
    BY <1>2
  <1> HIDE DEF u
  <1>5. /\ u \in SummaryType /\ u.dim = s.dim /\ (u.mixed <=> s.mixed \/ t.mixed)
        /\ u.west = Lower(s.west, t.west) /\ u.east = Upper(s.east, t.east)
        /\ u.south = Lower(s.south, t.south) /\ u.north = Upper(s.north, t.north)
    BY <1>1, <1>3, <1>4, SummaryOf, Zenon
  <1> QED
    BY <1>5 DEF u

(* The merged summary is that of the positions of both.                     *)
LEMMA MergeSummarises ==
  ASSUME NEW s, NEW t, NEW ps, NEW qs, Summarises(s, ps), Summarises(t, qs),
         ArePositions(ps), ArePositions(qs)
  PROVE  Summarises(Merge(s, t), ps \union qs)
  <1>1. s \in SummaryType /\ t \in SummaryType
    BY DEF Summarises
  <1>2. (s.dim = 0 <=> ps = {}) /\ (t.dim = 0 <=> qs = {}) /\ s.dim \in Nat /\ t.dim \in Nat
    BY <1>1, SummaryFields DEF Summarises
  <1>3. CASE s.dim = 0
    <2>1. ps \union qs = qs
      BY <1>2, <1>3
    <2> DEFINE u == [t EXCEPT !.mixed = t.mixed \/ s.mixed]
    <2>2. Merge(s, t) = u
      BY <1>1, <1>3, MergeIs
    <2>3. ~s.mixed
      BY <1>3 DEF Summarises
    <2>4. (t.mixed \/ s.mixed) \in BOOLEAN
      BY Zenon
    <2>5. /\ u \in SummaryType /\ u.dim = t.dim /\ (u.mixed <=> t.mixed)
          /\ u.west = t.west /\ u.east = t.east /\ u.south = t.south /\ u.north = t.north
      BY <1>1, <2>3, <2>4, Mixes
    <2> HIDE DEF u
    <2> QED
      BY <2>1, <2>2, <2>5 DEF Summarises
  <1>4. CASE s.dim # 0 /\ t.dim = 0
    <2>1. ps \union qs = ps /\ Merge(s, t) = s
      BY <1>1, <1>2, <1>4, MergeIs
    <2> QED
      BY <2>1
  <1>5. CASE s.dim # 0 /\ t.dim # 0 /\ s.dim # t.dim
    <2> DEFINE u == [s EXCEPT !.mixed = TRUE]
    <2>1. Merge(s, t) = u
      BY <1>1, <1>5, MergeIs
    <2>2. u \in SummaryType /\ u.dim = s.dim /\ u.mixed
      BY <1>1, Mixes
    <2> HIDE DEF u
    <2>3. PICK p \in ps : p.dim = s.dim
      BY <1>5 DEF Summarises
    <2>4. PICK q \in qs : q.dim = t.dim
      BY <1>5 DEF Summarises
    <2>5. \E p1, q1 \in ps \union qs : p1.dim # q1.dim
      BY <1>5, <2>3, <2>4
    <2> QED
      BY <2>1, <2>2, <2>3, <2>5, <1>5 DEF Summarises
  <1>6. CASE s.dim # 0 /\ s.dim = t.dim
    <2> DEFINE u == Merge(s, t)
    <2>1. /\ u \in SummaryType /\ u.dim = s.dim /\ (u.mixed <=> s.mixed \/ t.mixed)
          /\ u.west = Lower(s.west, t.west) /\ u.east = Upper(s.east, t.east)
          /\ u.south = Lower(s.south, t.south) /\ u.north = Upper(s.north, t.north)
      BY <1>1, <1>6, MergeFields
    <2> HIDE DEF u
    <2>2. CASE s.mixed \/ t.mixed
      <3>1. u.mixed
        BY <2>1, <2>2
      <3>2. \E p, q \in ps \union qs : p.dim # q.dim
        BY <1>6, <2>2 DEF Summarises
      <3>3. \E p \in ps \union qs : p.dim = u.dim
        BY <1>6, <2>1 DEF Summarises
      <3> QED
        BY <2>1, <3>1, <3>2, <3>3, <1>6, <1>2 DEF Summarises, u
    <2>3. CASE ~s.mixed /\ ~t.mixed
      <3>1. ~u.mixed
        BY <2>1, <2>3
      <3>2. /\ \A x \in {s, t} : x.west \in Int /\ x.east \in Int /\ x.south \in Int /\ x.north \in Int
            /\ u.west \in {s.west, t.west} /\ u.west <= s.west /\ u.west <= t.west /\ u.west \in Int
            /\ u.east \in {s.east, t.east} /\ s.east <= u.east /\ t.east <= u.east /\ u.east \in Int
            /\ u.south \in {s.south, t.south} /\ u.south <= s.south /\ u.south <= t.south /\ u.south \in Int
            /\ u.north \in {s.north, t.north} /\ s.north <= u.north /\ t.north <= u.north /\ u.north \in Int
        <4>1. /\ s.west \in Int /\ s.east \in Int /\ s.south \in Int /\ s.north \in Int
              /\ t.west \in Int /\ t.east \in Int /\ t.south \in Int /\ t.north \in Int
          BY <1>1, SummaryFields
        <4>2. /\ u.west \in {s.west, t.west} /\ u.west <= s.west
              /\ u.west <= t.west /\ u.west \in Int
          <5>1. u.west = Lower(s.west, t.west)
            BY <2>1
          <5> QED
            BY <5>1, <4>1 DEF Lower, Upper
        <4>3. /\ u.east \in {s.east, t.east} /\ s.east <= u.east
              /\ t.east <= u.east /\ u.east \in Int
          <5>1. u.east = Upper(s.east, t.east)
            BY <2>1
          <5> QED
            BY <5>1, <4>1 DEF Lower, Upper
        <4>4. /\ u.south \in {s.south, t.south} /\ u.south <= s.south
              /\ u.south <= t.south /\ u.south \in Int
          <5>1. u.south = Lower(s.south, t.south)
            BY <2>1
          <5> QED
            BY <5>1, <4>1 DEF Lower, Upper
        <4>5. /\ u.north \in {s.north, t.north} /\ s.north <= u.north
              /\ t.north <= u.north /\ u.north \in Int
          <5>1. u.north = Upper(s.north, t.north)
            BY <2>1
          <5> QED
            BY <5>1, <4>1 DEF Lower, Upper
        <4> QED
          BY <4>1, <4>2, <4>3, <4>4, <4>5
      <3>3. \A p \in ps : /\ p.dim = s.dim /\ s.west <= p.lon /\ p.lon <= s.east
                          /\ s.south <= p.lat /\ p.lat <= s.north
        BY <1>6, <2>3 DEF Summarises
      <3>4. \A p \in qs : /\ p.dim = t.dim /\ t.west <= p.lon /\ p.lon <= t.east
                          /\ t.south <= p.lat /\ p.lat <= t.north
        BY <1>6, <2>3 DEF Summarises
      <3>5. \A p \in ps \union qs : p.lon \in Int /\ p.lat \in Int
        BY DEF ArePositions, IsPosition
      <3>6. \A p \in ps \union qs : /\ p.dim = u.dim /\ u.west <= p.lon /\ p.lon <= u.east
                                    /\ u.south <= p.lat /\ p.lat <= u.north
        <4>1. \A p \in ps : /\ p.dim = u.dim /\ u.west <= p.lon /\ p.lon <= u.east
                            /\ u.south <= p.lat /\ p.lat <= u.north
          BY <3>2, <3>3, <3>5, <2>1
        <4>2. \A p \in qs : /\ p.dim = u.dim /\ u.west <= p.lon /\ p.lon <= u.east
                            /\ u.south <= p.lat /\ p.lat <= u.north
          BY <3>2, <3>4, <3>5, <2>1, <1>6
        <4> QED
          BY <4>1, <4>2
      <3>7. /\ \E p \in ps \union qs : p.lon = u.west
            /\ \E p \in ps \union qs : p.lon = u.east
            /\ \E p \in ps \union qs : p.lat = u.south
            /\ \E p \in ps \union qs : p.lat = u.north
        <4>1. /\ \E p \in ps : p.lon = s.west
              /\ \E p \in ps : p.lon = s.east
              /\ \E p \in ps : p.lat = s.south
              /\ \E p \in ps : p.lat = s.north
          BY <1>6, <2>3 DEF Summarises
        <4>2. /\ \E p \in qs : p.lon = t.west
              /\ \E p \in qs : p.lon = t.east
              /\ \E p \in qs : p.lat = t.south
              /\ \E p \in qs : p.lat = t.north
          BY <1>6, <2>3 DEF Summarises
        <4> QED
          BY <4>1, <4>2, <3>2
      <3>8. \E p \in ps \union qs : p.dim = u.dim
        BY <1>6, <2>1 DEF Summarises
      <3> QED
        BY <2>1, <3>1, <3>6, <3>7, <3>8, <1>2, <1>6 DEF Summarises, u
    <2> QED
      BY <2>2, <2>3
  <1> QED
    BY <1>2, <1>3, <1>4, <1>5, <1>6

(* A summary is mixed if two positions are.                                 *)
LEMMA MixedIs ==
  ASSUME NEW s, NEW ps, Summarises(s, ps)
  PROVE  s.mixed <=> \E p, q \in ps : p.dim # q.dim
  <1>1. CASE s.dim = 0
    BY <1>1 DEF Summarises
  <1>2. CASE s.dim # 0 /\ s.mixed
    BY <1>2 DEF Summarises
  <1>3. CASE s.dim # 0 /\ ~s.mixed
    BY <1>3 DEF Summarises
  <1> QED
    BY <1>1, <1>2, <1>3

(* Inside a box is not in its gap; the two tests of the code, of the        *)
(* summary and of the longitudes one by one, together say that all          *)
(* positions are inside.                                                    *)
LEMMA InsideNotInGap ==
  ASSUME NEW b, IsBBox(b), NEW p, IsPosition(p), Inside(b, p)
  PROVE  ~InGap(b, p.lon)
  <1>1. b.west \in Int /\ b.east \in Int /\ p.lon \in Int
    BY DEF IsBBox, IsPosition
  <1> QED
    BY <1>1 DEF Inside, InGap, Wraps

(* A box every position lies in encloses their summary.                     *)
LEMMA InsideEnclosed ==
  ASSUME NEW s, NEW ps, Summarises(s, ps), ArePositions(ps), NEW b, IsBBox(b),
         b.dim # 0, ps # {}, \A p \in ps : Inside(b, p)
  PROVE  Encloses(b, s)
  <1>1. ~s.mixed /\ s.dim # 0
    <2>1. \A p \in ps : p.dim = b.dim
      BY DEF Inside
    <2>2. ~s.mixed
      BY <2>1, MixedIs
    <2> QED
      BY <2>2 DEF Summarises
  <1>2. /\ \A p \in ps : p.dim = s.dim
        /\ \E p \in ps : p.lon = s.west
        /\ \E p \in ps : p.lon = s.east
        /\ \E p \in ps : p.lat = s.south
        /\ \E p \in ps : p.lat = s.north
    BY <1>1 DEF Summarises
  <1>3. b.dim = s.dim
    BY <1>2 DEF Inside
  <1>4. b.south <= s.south /\ s.north <= b.north
    BY <1>2 DEF Inside
  <1>5. b.west \in Int /\ b.east \in Int
    BY DEF IsBBox
  <1>6. Wraps(b) \/ (b.west <= s.west /\ s.east <= b.east)
    <2>1. CASE b.west <= b.east
      BY <1>2, <2>1 DEF Inside
    <2>2. CASE ~(b.west <= b.east)
      BY <1>5, <2>2 DEF Wraps
    <2> QED
      BY <2>1, <2>2
  <1> QED
    BY <1>1, <1>3, <1>4, <1>6 DEF Encloses

(* A box that encloses the summary of some positions has each of them       *)
(* inside, unless the gap of the box has its longitude.                     *)
LEMMA EnclosedInside ==
  ASSUME NEW s, NEW ps, Summarises(s, ps), ArePositions(ps), NEW b, IsBBox(b),
         b.dim # 0, Encloses(b, s), NEW p \in ps, ~InGap(b, p.lon)
  PROVE  Inside(b, p)
  <1>1. /\ b.dim = s.dim /\ ~s.mixed
        /\ Wraps(b) \/ (b.west <= s.west /\ s.east <= b.east)
        /\ b.south <= s.south /\ s.north <= b.north
    BY DEF Encloses
  <1>2. s.dim # 0 /\ s \in SummaryType
    BY DEF Summarises
  <1>3. /\ p.dim = s.dim /\ s.west <= p.lon /\ p.lon <= s.east
        /\ s.south <= p.lat /\ p.lat <= s.north
    BY <1>1, <1>2 DEF Summarises
  <1>4. /\ b.west \in Int /\ b.east \in Int /\ b.south \in Int /\ b.north \in Int
        /\ p.lon \in Int /\ p.lat \in Int
        /\ s.west \in Int /\ s.east \in Int /\ s.south \in Int /\ s.north \in Int
    BY <1>2, SummaryFields DEF IsBBox, IsPosition, ArePositions
  <1>5. b.south <= p.lat /\ p.lat <= b.north
    BY <1>1, <1>3, <1>4
  <1>6. CASE Wraps(b)
    <2>1. b.west > b.east /\ ~(p.lon < b.west /\ p.lon > b.east)
      BY <1>6 DEF Wraps, InGap
    <2>2. ~(b.west <= b.east) /\ (b.west <= p.lon \/ p.lon <= b.east)
      BY <2>1, <1>4
    <2> QED
      BY <2>2, <1>1, <1>3, <1>5 DEF Inside
  <1>7. CASE ~Wraps(b)
    <2>1. b.west <= b.east
      BY <1>7, <1>4 DEF Wraps
    <2>2. b.west <= p.lon /\ p.lon <= b.east
      BY <1>1, <1>3, <1>4, <1>7
    <2> QED
      BY <2>1, <2>2, <1>1, <1>3, <1>5 DEF Inside
  <1> QED
    BY <1>6, <1>7

-----------------------------------------------------------------------------
(* Where the reader is in its input: what has gone by is sound.             *)

SoundRecord(in, r) ==
    /\ in.framed => r.terminated /\ Len(r.values) = 1
    /\ r.values # <<>> /\ \A k \in DOMAIN r.values : SoundValue(r.values[k])

AtRecord(in, rs) ==
    /\ in \in Inputs /\ (in.mode = "seq" => in.framed)
    /\ IsRest(rs, in.records) /\ rs # <<>>
    /\ \A i \in 1..Gone(rs, in.records) : SoundRecord(in, in.records[i])

(* The values before this one, or before the next if n counts this one.     *)
AtValue(in, rs, vs, c, n) ==
    /\ AtRecord(in, rs)
    /\ in.framed => Head(rs).terminated /\ c <= 1
    /\ IsRest(vs, Head(rs).values) /\ c = Gone(vs, Head(rs).values)
    /\ \A k \in 1..n : SoundValue(Head(rs).values[k])

(* The value in hand.                                                       *)
InHand(rs, c) == Head(rs).values[c]

AtElement(in, rs, vs, c, es, n) ==
    /\ AtValue(in, rs, vs, c, c - 1) /\ c >= 1
    /\ InHand(rs, c).kind = "array" /\ IsRest(es, InHand(rs, c).elements)
    /\ \A i \in 1..n : SoundObject(InHand(rs, c).elements[i], FALSE)

AtObject(in, rs, vs, c, es, o, allowed) ==
    /\ o.kind = "object"
    /\ IF allowed THEN /\ AtValue(in, rs, vs, c, c - 1) /\ c >= 1
                       /\ o = InHand(rs, c)
       ELSE /\ AtElement(in, rs, vs, c, es, Gone(es, InHand(rs, c).elements) - 1)
            /\ Gone(es, InHand(rs, c).elements) >= 1
            /\ o = InHand(rs, c).elements[Gone(es, InHand(rs, c).elements)]

SoundIn(in) ==
    /\ in.mode = "seq" => in.framed
    /\ \A i \in DOMAIN in.records : SoundRecord(in, in.records[i])

(* The property of the runs is one of the input alone.                      *)
LEMMA SoundInputIs == SoundInput <=> SoundIn(input)
  BY DEF SoundInput, SoundIn, SoundRecord

(* An array is a sequence.                                                  *)
LEMMA ListedIsSeq ==
  ASSUME NEW s, Listed(s)
  PROVE  IsSeq(s)
  BY DEF Listed, IsSeq

(* What the assumption says of the parts of an input.                       *)
LEMMA RecordFacts ==
  ASSUME NEW in, NEW rs, AtRecord(in, rs)
  PROVE  /\ IsSeq(in.records) /\ IsSeq(Head(rs).values)
         /\ \A k \in DOMAIN Head(rs).values : IsValue(Head(rs).values[k])
         /\ Gone(rs, in.records) + 1 \in DOMAIN in.records
         /\ Head(rs) = in.records[Gone(rs, in.records) + 1]
         /\ ~in.framed => Len(in.records) = 1
  <1>1. IsInput(in)
    BY ReaderAssumption DEF AtRecord
  <1>2. /\ Gone(rs, in.records) + 1 \in 1..Len(in.records)
        /\ Head(rs) = in.records[Gone(rs, in.records) + 1]
    BY RestTail DEF AtRecord
  <1>3. DOMAIN in.records = 1..Len(in.records)
    BY RestBounds DEF AtRecord
  <1>4. Listed(in.records) /\ (~in.framed => Len(in.records) = 1)
    BY <1>1 DEF IsInput
  <1>5. /\ Listed(in.records[Gone(rs, in.records) + 1].values)
        /\ \A k \in DOMAIN in.records[Gone(rs, in.records) + 1].values :
             IsValue(in.records[Gone(rs, in.records) + 1].values[k])
    BY <1>1, <1>2, <1>3 DEF IsInput
  <1> QED
    BY <1>2, <1>3, <1>4, <1>5, ListedIsSeq

(* The value in hand is one of its record.                                  *)
LEMMA InHandFacts ==
  ASSUME NEW in, NEW rs, NEW vs, NEW c, NEW n, AtValue(in, rs, vs, c, n), c >= 1
  PROVE  c \in DOMAIN Head(rs).values /\ c \in Nat /\ IsValue(InHand(rs, c))
  <1>1. AtRecord(in, rs) /\ IsRest(vs, Head(rs).values) /\ c = Gone(vs, Head(rs).values)
    BY DEF AtValue
  <1>2. c \in Nat /\ c <= Len(Head(rs).values) /\ DOMAIN Head(rs).values = 1..Len(Head(rs).values)
        /\ Len(Head(rs).values) \in Nat
    BY <1>1, RestBounds
  <1>3. c \in DOMAIN Head(rs).values
    BY <1>2
  <1> QED
    BY <1>1, <1>2, <1>3, RecordFacts DEF InHand

(* One record that is not sound spoils the input, one value the record.     *)
LEMMA BadRecord ==
  ASSUME NEW in, NEW rs, AtRecord(in, rs), ~SoundRecord(in, Head(rs))
  PROVE  ~SoundIn(in)
  BY RecordFacts DEF SoundIn

(* One value that is not sound spoils the input.                            *)
LEMMA BadValue ==
  ASSUME NEW in, NEW rs, NEW vs, NEW c, NEW n, AtValue(in, rs, vs, c, n), c >= 1,
         ~SoundValue(InHand(rs, c))
  PROVE  ~SoundIn(in)
  <1>1. AtRecord(in, rs)
    BY DEF AtValue
  <1>2. c \in DOMAIN Head(rs).values
    BY InHandFacts
  <1>3. ~SoundRecord(in, Head(rs))
    BY <1>2 DEF SoundRecord, InHand
  <1> QED
    BY <1>1, <1>3, BadRecord

(* One element that is not sound spoils the input.                          *)
LEMMA BadElement ==
  ASSUME NEW in, NEW rs, NEW vs, NEW c, NEW es, NEW n, AtElement(in, rs, vs, c, es, n),
         NEW i \in DOMAIN InHand(rs, c).elements, ~SoundObject(InHand(rs, c).elements[i], FALSE)
  PROVE  ~SoundIn(in)
  <1>1. AtValue(in, rs, vs, c, c - 1) /\ c >= 1 /\ InHand(rs, c).kind = "array"
    BY DEF AtElement
  <1>2. ~SoundValue(InHand(rs, c))
    BY <1>1 DEF SoundValue
  <1> QED
    BY <1>1, <1>2, BadValue

(* One object that is not sound, where it stands, spoils the input.         *)
LEMMA BadObject ==
  ASSUME NEW in, NEW rs, NEW vs, NEW c, NEW es, NEW o, NEW a \in BOOLEAN,
         AtObject(in, rs, vs, c, es, o, a), ~SoundObject(o, a)
  PROVE  ~SoundIn(in)
  <1>1. CASE a
    <2>1. AtValue(in, rs, vs, c, c - 1) /\ c >= 1 /\ o = InHand(rs, c) /\ o.kind = "object"
      BY <1>1 DEF AtObject
    <2>2. ~SoundObject(o, TRUE)
      BY <1>1
    <2>3. ~SoundValue(InHand(rs, c))
      BY <2>1, <2>2 DEF SoundValue
    <2> QED
      BY <2>1, <2>3, BadValue
  <1>2. CASE ~a
    <2> DEFINE g == Gone(es, InHand(rs, c).elements)
    <2>1. AtElement(in, rs, vs, c, es, g - 1) /\ g >= 1 /\ o = InHand(rs, c).elements[g]
      BY <1>2 DEF AtObject
    <2>2. IsRest(es, InHand(rs, c).elements)
      BY <2>1 DEF AtElement
    <2>3. g \in DOMAIN InHand(rs, c).elements
      BY <2>1, <2>2, RestBounds
    <2>4. ~SoundObject(o, FALSE)
      BY <1>2
    <2> QED
      BY <2>1, <2>3, <2>4, BadElement
  <1> QED
    BY <1>1, <1>2

(* What is sound goes by.                                                   *)
LEMMA FirstRecord ==
  ASSUME NEW in \in Inputs, in.mode = "seq" => in.framed
  PROVE  AtRecord(in, in.records)
  <1>1. IsInput(in)
    BY ReaderAssumption
  <1>2. Listed(in.records) /\ in.records # <<>>
    BY <1>1 DEF IsInput
  <1> QED
    BY <1>2, RestWhole, ListedIsSeq DEF AtRecord

(* A record is begun before its first value.                                *)
LEMMA FirstValue ==
  ASSUME NEW in, NEW rs, AtRecord(in, rs), in.framed => Head(rs).terminated
  PROVE  AtValue(in, rs, Head(rs).values, 0, 0)
  <1>1. IsSeq(Head(rs).values)
    BY RecordFacts
  <1> QED
    BY <1>1, RestWhole DEF AtValue

(* The next value is the one behind those counted.                          *)
LEMMA NextValue ==
  ASSUME NEW in, NEW rs, NEW vs, NEW c, AtValue(in, rs, vs, c, c), vs # <<>>,
         ~(in.framed /\ c >= 1)
  PROVE  /\ AtValue(in, rs, Tail(vs), c + 1, (c + 1) - 1)
         /\ Head(vs) = InHand(rs, c + 1) /\ c + 1 >= 1
  <1>1. /\ AtRecord(in, rs) /\ (in.framed => Head(rs).terminated)
        /\ IsRest(vs, Head(rs).values) /\ c = Gone(vs, Head(rs).values)
        /\ \A k \in 1..c : SoundValue(Head(rs).values[k])
    BY DEF AtValue
  <1>2. c \in Nat
    BY <1>1, RestBounds
  <1>3. /\ IsRest(Tail(vs), Head(rs).values) /\ Gone(Tail(vs), Head(rs).values) = c + 1
        /\ Head(vs) = Head(rs).values[c + 1]
    BY <1>1, RestTail
  <1>4. (c + 1) - 1 = c /\ (in.framed => c + 1 <= 1) /\ c + 1 >= 1
    BY <1>2
  <1> QED
    BY <1>1, <1>3, <1>4 DEF AtValue, InHand

(* A value that is sound goes by.                                           *)
LEMMA ValueGoesBy ==
  ASSUME NEW in, NEW rs, NEW vs, NEW c, AtValue(in, rs, vs, c, c - 1), c >= 1,
         SoundValue(InHand(rs, c))
  PROVE  AtValue(in, rs, vs, c, c)
  <1>1. c \in Nat
    BY InHandFacts
  <1>2. \A k \in 1..c - 1 : SoundValue(Head(rs).values[k])
    BY DEF AtValue
  <1>3. \A k \in 1..c : k = c \/ k \in 1..c - 1
    BY <1>1
  <1>4. \A k \in 1..c : SoundValue(Head(rs).values[k])
    BY <1>2, <1>3 DEF InHand
  <1> QED
    BY <1>4 DEF AtValue

(* An array is begun before its first element.                              *)
LEMMA FirstElement ==
  ASSUME NEW in, NEW rs, NEW vs, NEW c, AtValue(in, rs, vs, c, c - 1), c >= 1,
         InHand(rs, c).kind = "array"
  PROVE  AtElement(in, rs, vs, c, InHand(rs, c).elements,
                   Gone(InHand(rs, c).elements, InHand(rs, c).elements))
  <1>1. IsValue(InHand(rs, c))
    BY InHandFacts
  <1>2. IsSeq(InHand(rs, c).elements)
    BY <1>1, ListedIsSeq DEF IsValue
  <1> DEFINE all == InHand(rs, c).elements
  <1>3. IsRest(all, all) /\ Gone(all, all) = 0
    BY <1>2, RestWhole
  <1>4. \A i \in 1..0 : SoundObject(all[i], FALSE)
    OBVIOUS
  <1>5. \A i \in 1..Gone(all, all) : SoundObject(all[i], FALSE)
    BY <1>3, <1>4
  <1> QED
    BY <1>3, <1>5 DEF AtElement

(* The next element is the one behind those gone by.                        *)
LEMMA NextElement ==
  ASSUME NEW in, NEW rs, NEW vs, NEW c, NEW es,
         AtElement(in, rs, vs, c, es, Gone(es, InHand(rs, c).elements)),
         es # <<>>
  PROVE  /\ Head(es).kind = "object" => /\ AtObject(in, rs, vs, c, Tail(es), Head(es), FALSE)
                                        /\ IsObject(Head(es))
         /\ Head(es).kind # "object" => ~SoundIn(in)
  <1> DEFINE all == InHand(rs, c).elements
  <1>1. /\ AtValue(in, rs, vs, c, c - 1) /\ c >= 1
        /\ InHand(rs, c).kind = "array" /\ IsRest(es, all)
        /\ \A i \in 1..Gone(es, all) : SoundObject(all[i], FALSE)
    BY DEF AtElement
  <1>2. /\ IsRest(Tail(es), all) /\ Gone(Tail(es), all) = Gone(es, all) + 1
        /\ Gone(es, all) + 1 \in 1..Len(all) /\ Head(es) = all[Gone(es, all) + 1]
    BY <1>1, RestTail
  <1>3. Gone(es, all) \in Nat /\ DOMAIN all = 1..Len(all)
    BY <1>1, RestBounds
  <1>4. (Gone(es, all) + 1) - 1 = Gone(es, all) /\ Gone(es, all) + 1 >= 1
    BY <1>3
  <1>5. IsObject(Head(es))
    <2>1. IsValue(InHand(rs, c))
      BY <1>1, InHandFacts
    <2> QED
      BY <2>1, <1>1, <1>2, <1>3 DEF IsValue
  <1>6. ASSUME Head(es).kind = "object"  PROVE AtObject(in, rs, vs, c, Tail(es), Head(es), FALSE)
    <2>1. AtElement(in, rs, vs, c, Tail(es), Gone(Tail(es), all) - 1)
      BY <1>1, <1>2, <1>4 DEF AtElement
    <2> QED
      BY <1>2, <1>4, <1>6, <2>1 DEF AtObject
  <1>7. ASSUME Head(es).kind # "object"  PROVE ~SoundIn(in)
    <2>1. ~SoundObject(all[Gone(es, all) + 1], FALSE)
      BY <1>2, <1>7 DEF SoundObject
    <2> QED
      BY <2>1, <1>2, <1>3, BadElement
  <1> QED
    BY <1>5, <1>6, <1>7

(* An array whose elements have all gone by has gone by.                    *)
LEMMA LastElement ==
  ASSUME NEW in, NEW rs, NEW vs, NEW c, NEW es,
         AtElement(in, rs, vs, c, es, Gone(es, InHand(rs, c).elements)), es = <<>>
  PROVE  AtValue(in, rs, vs, c, c)
  <1> DEFINE all == InHand(rs, c).elements
  <1>1. /\ AtValue(in, rs, vs, c, c - 1) /\ c >= 1
        /\ InHand(rs, c).kind = "array" /\ IsRest(es, all)
        /\ \A i \in 1..Gone(es, all) : SoundObject(all[i], FALSE)
    BY DEF AtElement
  <1>2. Gone(es, all) = Len(all) /\ DOMAIN all = 1..Len(all)
    BY <1>1, RestBounds
  <1>3. SoundValue(InHand(rs, c))
    BY <1>1, <1>2 DEF SoundValue
  <1> QED
    BY <1>1, <1>3, ValueGoesBy

(* An object that is sound, where it stands, goes by.                       *)
LEMMA ObjectGoesBy ==
  ASSUME NEW in, NEW rs, NEW vs, NEW c, NEW es, NEW o, NEW a \in BOOLEAN,
         AtObject(in, rs, vs, c, es, o, a), SoundObject(o, a)
  PROVE  /\ a => AtValue(in, rs, vs, c, c)
         /\ ~a => AtElement(in, rs, vs, c, es, Gone(es, InHand(rs, c).elements))
  <1>1. ASSUME a  PROVE AtValue(in, rs, vs, c, c)
    <2>1. AtValue(in, rs, vs, c, c - 1) /\ c >= 1 /\ o = InHand(rs, c) /\ o.kind = "object"
      BY <1>1 DEF AtObject
    <2>2. SoundObject(o, TRUE)
      BY <1>1
    <2>3. SoundValue(InHand(rs, c))
      BY <2>1, <2>2 DEF SoundValue
    <2> QED
      BY <2>1, <2>3, ValueGoesBy
  <1>2. ASSUME ~a  PROVE AtElement(in, rs, vs, c, es, Gone(es, InHand(rs, c).elements))
    <2> DEFINE all == InHand(rs, c).elements
               g == Gone(es, all)
    <2>1. AtElement(in, rs, vs, c, es, g - 1) /\ g >= 1 /\ o = all[g]
      BY <1>2 DEF AtObject
    <2>2. SoundObject(all[g], FALSE)
      BY <1>2, <2>1
    <2>3. g \in Nat
      BY <2>1, RestBounds DEF AtElement
    <2>4. \A i \in 1..g : i = g \/ i \in 1..g - 1
      BY <2>3
    <2>5. \A i \in 1..g - 1 : SoundObject(all[i], FALSE)
      BY <2>1 DEF AtElement
    <2>6. \A i \in 1..g : SoundObject(all[i], FALSE)
      BY <2>2, <2>4, <2>5
    <2> QED
      BY <2>1, <2>6 DEF AtElement
  <1> QED
    BY <1>1, <1>2

(* A record whose values have all gone by has gone by.                      *)
LEMMA RecordGoesBy ==
  ASSUME NEW in, NEW rs, NEW vs, NEW c, AtValue(in, rs, vs, c, c), vs = <<>>, c > 0
  PROVE  /\ in.framed /\ Len(rs) > 1 => AtRecord(in, Tail(rs))
         /\ ~(in.framed /\ Len(rs) > 1) => SoundIn(in)
  <1>1. /\ AtRecord(in, rs) /\ (in.framed => Head(rs).terminated /\ c <= 1)
        /\ IsRest(vs, Head(rs).values) /\ c = Gone(vs, Head(rs).values)
        /\ \A k \in 1..c : SoundValue(Head(rs).values[k])
    BY DEF AtValue
  <1>2. /\ c = Len(Head(rs).values) /\ DOMAIN Head(rs).values = 1..Len(Head(rs).values)
        /\ c \in Nat
    BY <1>1, RestBounds
  <1>3. Head(rs).values # <<>>
    BY <1>1, <1>2, RecordFacts, SeqFacts
  <1>4. in.framed => Len(Head(rs).values) = 1
    <2>1. ASSUME in.framed  PROVE Len(Head(rs).values) = 1
      <3>1. c <= 1
        BY <1>1, <2>1
      <3>2. \A n \in Nat : n > 0 /\ n <= 1 => n = 1
        OBVIOUS
      <3>3. c \in Nat /\ c = Len(Head(rs).values)
        BY <1>2
      <3> QED
        BY <3>1, <3>2, <3>3, Zenon
    <2> QED
      BY <2>1
  <1>5. SoundRecord(in, Head(rs))
    BY <1>1, <1>2, <1>3, <1>4 DEF SoundRecord
  <1> DEFINE all == in.records
             g == Gone(rs, all)
  <1>6. /\ in \in Inputs /\ (in.mode = "seq" => in.framed) /\ IsRest(rs, all) /\ rs # <<>>
        /\ \A i \in 1..g : SoundRecord(in, all[i])
    BY <1>1 DEF AtRecord
  <1>7. /\ IsRest(Tail(rs), all) /\ Gone(Tail(rs), all) = g + 1
        /\ g + 1 \in 1..Len(all) /\ Head(rs) = all[g + 1]
    BY <1>6, RestTail
  <1>8. g \in Nat /\ Len(all) \in Nat /\ Len(rs) \in Nat /\ Len(all) = g + Len(rs) /\ DOMAIN all = 1..Len(all)
    BY <1>6, RestBounds
  <1> HIDE DEF g
  <1>9. \A i \in 1..g + 1 : SoundRecord(in, all[i])
    <2>1. \A i \in 1..g + 1 : i = g + 1 \/ i \in 1..g
      BY <1>8
    <2> QED
      BY <2>1, <1>5, <1>6, <1>7
  <1>10. ASSUME Len(rs) > 1  PROVE AtRecord(in, Tail(rs))
    <2>1. Tail(rs) # <<>>
      <3>1. Gone(Tail(rs), all) # Len(all)
        BY <1>7, <1>8, <1>10
      <3> QED
        BY <3>1, <1>7, RestBounds
    <2> QED
      BY <2>1, <1>6, <1>7, <1>9 DEF AtRecord
  <1>11. ASSUME ~(in.framed /\ Len(rs) > 1)  PROVE SoundIn(in)
    <2>1. g + 1 = Len(all)
      <3>1. CASE in.framed
        BY <3>1, <1>11, <1>7, <1>8
      <3>2. CASE ~in.framed
        <4>1. Len(all) = 1
          BY <3>2, <1>1, RecordFacts
        <4> QED
          BY <4>1, <1>7, <1>8
      <3> QED
        BY <3>1, <3>2
    <2> QED
      BY <2>1, <1>6, <1>8, <1>9 DEF SoundIn
  <1> QED
    BY <1>10, <1>11

-----------------------------------------------------------------------------
(* The members of an object.                                                *)

Members(o, keys, seen) ==
    /\ IsRest(keys, o.keys)
    /\ seen = {o.keys[i] : i \in 1..Gone(keys, o.keys)}
    /\ \A i, j \in 1..Gone(keys, o.keys) : o.keys[i] = o.keys[j] => i = j

(* An object is begun with all its members ahead.                           *)
LEMMA MembersFirst ==
  ASSUME NEW o, IsObject(o), o.kind = "object"
  PROVE  Members(o, o.keys, {})
  <1>1. IsSeq(o.keys)
    BY ListedIsSeq DEF IsObject
  <1>2. IsRest(o.keys, o.keys) /\ Gone(o.keys, o.keys) = 0
    BY <1>1, RestWhole
  <1>3. {} = {o.keys[i] : i \in 1..0}
    OBVIOUS
  <1>4. \A i, j \in 1..0 : o.keys[i] = o.keys[j] => i = j
    OBVIOUS
  <1> QED
    BY <1>2, <1>3, <1>4 DEF Members

(* A member that is met again repeats; one that is not joins those seen.    *)
LEMMA MemberNext ==
  ASSUME NEW o, NEW keys, NEW seen, Members(o, keys, seen), keys # <<>>
  PROVE  /\ Head(keys) \in seen => ~Unrepeated(o)
         /\ Head(keys) \notin seen => Members(o, Tail(keys), seen \union {Head(keys)})
  <1> DEFINE g == Gone(keys, o.keys)
  <1>1. /\ IsRest(keys, o.keys) /\ seen = {o.keys[i] : i \in 1..g}
        /\ \A i, j \in 1..g : o.keys[i] = o.keys[j] => i = j
    BY DEF Members
  <1>2. /\ IsRest(Tail(keys), o.keys) /\ Gone(Tail(keys), o.keys) = g + 1
        /\ g + 1 \in 1..Len(o.keys) /\ Head(keys) = o.keys[g + 1]
    BY <1>1, RestTail
  <1>3. g \in Nat /\ DOMAIN o.keys = 1..Len(o.keys) /\ Len(o.keys) \in Nat
    BY <1>1, RestBounds
  <1> HIDE DEF g
  <1>4. /\ \A i \in 1..g : i \in 1..Len(o.keys) /\ i # g + 1 /\ i \in 1..g + 1
        /\ \A i \in 1..g + 1 : i \in 1..g \/ i = g + 1
        /\ g + 1 \in 1..g + 1
    BY <1>2, <1>3
  <1>5. ASSUME Head(keys) \in seen  PROVE ~Unrepeated(o)
    <2>1. PICK i \in 1..g : o.keys[i] = o.keys[g + 1]
      BY <1>1, <1>2, <1>5
    <2> QED
      BY <2>1, <1>2, <1>3, <1>4 DEF Unrepeated
  <1>6. ASSUME Head(keys) \notin seen  PROVE Members(o, Tail(keys), seen \union {Head(keys)})
    <2>1. seen \union {Head(keys)} = {o.keys[i] : i \in 1..g + 1}
      BY <1>1, <1>2, <1>4
    <2>2. \A i \in 1..g : o.keys[i] # o.keys[g + 1]
      BY <1>1, <1>2, <1>6
    <2>3. \A i, j \in 1..g + 1 : o.keys[i] = o.keys[j] => i = j
      BY <2>2, <1>1, <1>4
    <2> QED
      BY <2>1, <2>3, <1>2 DEF Members
  <1> QED
    BY <1>5, <1>6

(* Those seen are members, and at the end they are all the members.         *)
LEMMA MembersSeen ==
  ASSUME NEW o, NEW keys, NEW seen, Members(o, keys, seen)
  PROVE  /\ \A k \in seen : Named(o, k)
         /\ keys = <<>> => Unrepeated(o) /\ \A k : Named(o, k) <=> k \in seen
  <1> DEFINE g == Gone(keys, o.keys)
  <1>1. /\ IsRest(keys, o.keys) /\ seen = {o.keys[i] : i \in 1..g}
        /\ \A i, j \in 1..g : o.keys[i] = o.keys[j] => i = j
    BY DEF Members
  <1>2. /\ g \in Nat /\ g <= Len(o.keys) /\ DOMAIN o.keys = 1..Len(o.keys) /\ Len(o.keys) \in Nat
        /\ (keys = <<>> => g = Len(o.keys))
    BY <1>1, RestBounds
  <1> HIDE DEF g
  <1>3. \A i \in 1..g : i \in DOMAIN o.keys
    BY <1>2
  <1> QED
    BY <1>1, <1>2, <1>3 DEF Named, Unrepeated

-----------------------------------------------------------------------------
(* A feature is judged by its summary as it is by its positions.            *)

(* The positions of a feature are positions.                                *)
LEMMA FeaturePositions ==
  ASSUME NEW f, IsFeature(f)
  PROVE  /\ ArePositions(ToSet(f.positions)) /\ IsSeq(f.positions) /\ IsBBox(f.bbox)
         /\ (f.positions = <<>> <=> ToSet(f.positions) = {})
         /\ f.null => f.positions = <<>>
  <1>1. IsSeq(f.positions)
    BY ListedIsSeq DEF IsFeature
  <1>2. DOMAIN f.positions = 1..Len(f.positions) /\ Len(f.positions) \in Nat
        /\ (f.positions = <<>> <=> Len(f.positions) = 0)
    BY <1>1, SeqFacts
  <1>3. Len(f.positions) # 0 => 1 \in DOMAIN f.positions
    BY <1>2
  <1>4. f.positions = <<>> <=> ToSet(f.positions) = {}
    <2>1. f.positions = <<>> => ToSet(f.positions) = {}
      BY <1>2 DEF ToSet
    <2>2. f.positions # <<>> => f.positions[1] \in ToSet(f.positions)
      BY <1>2, <1>3 DEF ToSet
    <2> QED
      BY <2>1, <2>2
  <1> QED
    BY <1>1, <1>4 DEF IsFeature, ArePositions, ToSet

(* A feature refused at its first look is not sound.                        *)
LEMMA MalformedNotSound ==
  ASSUME NEW f, Malformed(f)
  PROVE  ~SoundFeature(f)
  BY DEF Malformed, SoundFeature

(* A feature one of whose longitudes lies in the gap of its box is not      *)
(* sound.                                                                   *)
LEMMA InGapNotSound ==
  ASSUME NEW f, IsFeature(f), NEW p \in ToSet(f.positions), InGap(f.bbox, p.lon)
  PROVE  ~SoundFeature(f)
  <1>1. ~f.null /\ IsBBox(f.bbox) /\ IsPosition(p)
    BY FeaturePositions DEF ArePositions
  <1>2. f.bbox.dim # 0 /\ ~Inside(f.bbox, p)
    BY <1>1, InsideNotInGap DEF InGap, Wraps
  <1>3. \E i \in DOMAIN f.positions : p = f.positions[i]
    BY DEF ToSet
  <1> QED
    BY <1>1, <1>2, <1>3 DEF SoundFeature

(* A feature refused at its end is not sound.                               *)
LEMMA UnsoundNotSound ==
  ASSUME NEW f, IsFeature(f), Summarises(geometry, ToSet(f.positions)), Unsound(f)
  PROVE  ~SoundFeature(f)
  <1>1. ~f.null
    BY DEF Unsound
  <1>2. CASE f.broken = "geometry"
    BY <1>1, <1>2 DEF SoundFeature
  <1>3. CASE geometry.mixed
    <2>1. PICK p, q \in ToSet(f.positions) : p.dim # q.dim
      BY <1>3, MixedIs
    <2>2. \E i, j \in DOMAIN f.positions : f.positions[i].dim # f.positions[j].dim
      BY <2>1 DEF ToSet
    <2> QED
      BY <1>1, <2>2 DEF SoundFeature
  <1>4. CASE ~Encloses(f.bbox, geometry)
    <2>1. f.bbox.dim # 0
      BY <1>4 DEF Encloses
    <2>2. /\ ArePositions(ToSet(f.positions)) /\ IsBBox(f.bbox)
          /\ (f.positions = <<>> <=> ToSet(f.positions) = {})
      BY FeaturePositions
    <2>3. f.positions = <<>> \/ \E p \in ToSet(f.positions) : ~Inside(f.bbox, p)
      BY <1>4, <2>1, <2>2, InsideEnclosed
    <2> QED
      BY <1>1, <2>1, <2>3 DEF SoundFeature, ToSet
  <1> QED
    BY <1>2, <1>3, <1>4 DEF Unsound

(* A feature no look refuses is sound.                                      *)
LEMMA OthersSound ==
  ASSUME NEW f, IsFeature(f), Summarises(geometry, ToSet(f.positions)),
         ~Malformed(f), ~Unsound(f), \A p \in ToSet(f.positions) : ~InGap(f.bbox, p.lon)
  PROVE  SoundFeature(f)
  <1>1. f.type = "Feature" /\ f.broken \notin {"members", "duplicate"} /\ ValidBox(f.bbox)
    BY DEF Malformed
  <1>2. CASE f.null
    BY <1>1, <1>2 DEF SoundFeature
  <1>3. CASE ~f.null
    <2>1. f.broken # "geometry" /\ ~geometry.mixed /\ Encloses(f.bbox, geometry)
      BY <1>3 DEF Unsound
    <2>2. /\ ArePositions(ToSet(f.positions)) /\ IsBBox(f.bbox)
          /\ (f.positions = <<>> <=> ToSet(f.positions) = {})
      BY FeaturePositions
    <2>3. \A i, j \in DOMAIN f.positions : f.positions[i].dim = f.positions[j].dim
      BY <2>1, MixedIs DEF ToSet
    <2>4. ASSUME f.bbox.dim # 0
          PROVE  f.positions # <<>> /\ \A i \in DOMAIN f.positions : Inside(f.bbox, f.positions[i])
      <3>1. \A p \in ToSet(f.positions) : Inside(f.bbox, p)
        BY <2>1, <2>2, <2>4, EnclosedInside
      <3>2. geometry.dim # 0
        BY <2>1, <2>4 DEF Encloses
      <3>3. ToSet(f.positions) # {}
        BY <3>2 DEF Summarises
      <3> QED
        BY <2>2, <3>1, <3>3 DEF ToSet
    <2> QED
      BY <1>1, <2>1, <2>3, <2>4 DEF SoundFeature
  <1> QED
    BY <1>2, <1>3

-----------------------------------------------------------------------------
(* Collections.                                                             *)

(* The positions of the first n features.                                   *)
PositionsOf(items, n) == UNION {ToSet(items[i].positions) : i \in 1..n}

(* The first none of the features have no positions.                        *)
LEMMA NoPositions == \A items : PositionsOf(items, 0) = {}
  BY DEF PositionsOf

(* One more feature adds its own positions.                                 *)
LEMMA MorePositions ==
  ASSUME NEW items, NEW n \in Nat
  PROVE  PositionsOf(items, n + 1) = PositionsOf(items, n) \union ToSet(items[n + 1].positions)
  <1>1. \A i \in 1..n + 1 : i \in 1..n \/ i = n + 1
    OBVIOUS
  <1>2. n + 1 \in 1..n + 1 /\ \A i \in 1..n : i \in 1..n + 1
    OBVIOUS
  <1> QED
    BY <1>1, <1>2 DEF PositionsOf

(* What the features of an object are.                                      *)
LEMMA CollectionFacts ==
  ASSUME NEW o, IsObject(o), o.kind = "object"
  PROVE  /\ IsSeq(o.features.items) /\ Len(o.features.items) \in Nat
         /\ DOMAIN o.features.items = 1..Len(o.features.items)
         /\ \A i \in DOMAIN o.features.items : IsFeature(o.features.items[i])
         /\ IsBBox(o.bbox) /\ ArePositions(PositionsOf(o.features.items, Len(o.features.items)))
  <1>1. /\ Listed(o.features.items) /\ IsBBox(o.bbox)
        /\ \A i \in DOMAIN o.features.items : IsFeature(o.features.items[i])
    BY DEF IsObject
  <1>2. /\ IsSeq(o.features.items) /\ Len(o.features.items) \in Nat
        /\ DOMAIN o.features.items = 1..Len(o.features.items)
    BY <1>1, ListedIsSeq, SeqFacts
  <1>3. \A i \in 1..Len(o.features.items) : ArePositions(ToSet(o.features.items[i].positions))
    BY <1>1, <1>2, FeaturePositions
  <1>4. ArePositions(PositionsOf(o.features.items, Len(o.features.items)))
    BY <1>3 DEF ArePositions, PositionsOf
  <1> QED
    BY <1>1, <1>2, <1>4

(* The bbox that has been read when the members seen are these.             *)
BoxSeen(o, seen) == IF "bbox" \in seen THEN o.bbox ELSE NoBox

(* The box read is that of the members seen.                                *)
LEMMA BoxReadIs == BoxRead = BoxSeen(object.value, object.seen)
  BY DEF BoxRead, BoxSeen

(* The box of an object without one.                                        *)
LEMMA NoBoxFields == NoBox.dim = 0 /\ IsBBox(NoBox)
  <1>1. /\ NoBox.dim = 0 /\ NoBox.west = 0 /\ NoBox.east = 0
        /\ NoBox.south = 0 /\ NoBox.north = 0
    BY Zenon DEF NoBox
  <1> QED
    BY <1>1 DEF IsBBox

(* The box read is none, or the one the object has.                         *)
LEMMA BoxSeenFacts ==
  ASSUME NEW o, IsObject(o), o.kind = "object", NEW seen
  PROVE  /\ IsBBox(BoxSeen(o, seen))
         /\ BoxSeen(o, seen).dim # 0 => "bbox" \in seen /\ BoxSeen(o, seen) = o.bbox
         /\ ~ValidBox(BoxSeen(o, seen)) => "bbox" \in seen /\ BoxSeen(o, seen) = o.bbox
  <1>1. IsBBox(o.bbox)
    BY DEF IsObject
  <1> QED
    BY <1>1, NoBoxFields DEF BoxSeen, ValidBox

(* What makes a collection unsound.                                         *)
LEMMA NotACollection ==
  ASSUME NEW o, NEW a, o.type = "FeatureCollection", ~SoundCollection(o)
  PROVE  ~SoundObject(o, a)
  BY DEF SoundObject

(* A box that is not valid spoils its collection.                           *)
LEMMA BoxNotValid ==
  ASSUME NEW o, IsObject(o), o.kind = "object", NEW keys, NEW seen, Members(o, keys, seen),
         ~ValidBox(BoxSeen(o, seen))
  PROVE  ~SoundCollection(o)
  BY BoxSeenFacts, MembersSeen DEF SoundCollection

(* A position outside the box spoils its collection.                        *)
LEMMA PositionOutside ==
  ASSUME NEW o, IsObject(o), o.kind = "object", NEW keys, NEW seen, Members(o, keys, seen),
         NEW p \in PositionsOf(o.features.items, Len(o.features.items)),
         BoxSeen(o, seen).dim # 0, ~Inside(BoxSeen(o, seen), p)
  PROVE  ~SoundCollection(o)
  <1>1. "bbox" \in seen /\ BoxSeen(o, seen) = o.bbox /\ Named(o, "bbox")
    BY BoxSeenFacts, MembersSeen
  <1>2. PICK i \in 1..Len(o.features.items) : p \in ToSet(o.features.items[i].positions)
    BY DEF PositionsOf
  <1>3. PICK k \in DOMAIN o.features.items[i].positions : p = o.features.items[i].positions[k]
    BY <1>2 DEF ToSet
  <1>4. i \in DOMAIN o.features.items
    BY CollectionFacts
  <1> QED
    BY <1>1, <1>3, <1>4 DEF SoundCollection

(* A longitude in the gap of the box spoils its collection.                 *)
LEMMA LongitudeOutside ==
  ASSUME NEW o, IsObject(o), o.kind = "object", NEW keys, NEW seen, Members(o, keys, seen),
         NEW p \in PositionsOf(o.features.items, Len(o.features.items)),
         InGap(BoxSeen(o, seen), p.lon)
  PROVE  ~SoundCollection(o)
  <1>1. BoxSeen(o, seen).dim # 0
    BY DEF InGap, Wraps
  <1>2. ~Inside(BoxSeen(o, seen), p)
    BY InsideNotInGap, BoxSeenFacts, CollectionFacts DEF ArePositions
  <1> QED
    BY <1>1, <1>2, PositionOutside

(* A box that does not enclose the summary spoils its collection.           *)
LEMMA SummaryOutside ==
  ASSUME NEW o, IsObject(o), o.kind = "object", NEW keys, NEW seen, Members(o, keys, seen),
         NEW s, Summarises(s, PositionsOf(o.features.items, Len(o.features.items))), s.dim # 0,
         ~Encloses(BoxSeen(o, seen), s)
  PROVE  ~SoundCollection(o)
  <1> DEFINE ps == PositionsOf(o.features.items, Len(o.features.items))
  <1>1. BoxSeen(o, seen).dim # 0
    BY DEF Encloses
  <1>2. ps # {}
    BY DEF Summarises
  <1>3. PICK p \in ps : ~Inside(BoxSeen(o, seen), p)
    BY <1>1, <1>2, InsideEnclosed, BoxSeenFacts, CollectionFacts
  <1> QED
    BY <1>1, <1>3, PositionOutside

(* And what makes it sound.                                                 *)
LEMMA CollectionSound ==
  ASSUME NEW o, IsObject(o), o.kind = "object", NEW seen, Members(o, <<>>, seen),
         "type" \in seen, "features" \in seen, o.type = "FeatureCollection", o.features.list,
         \A i \in DOMAIN o.features.items : SoundFeature(o.features.items[i]),
         NEW s, Summarises(s, PositionsOf(o.features.items, Len(o.features.items))),
         ValidBox(BoxSeen(o, seen)),
         s.dim # 0 => /\ Encloses(BoxSeen(o, seen), s)
                      /\ \A p \in PositionsOf(o.features.items, Len(o.features.items)) :
                            ~InGap(BoxSeen(o, seen), p.lon)
  PROVE  SoundObject(o, TRUE)
  <1> DEFINE ps == PositionsOf(o.features.items, Len(o.features.items))
             b == BoxSeen(o, seen)
  <1>1. Unrepeated(o) /\ \A k : Named(o, k) <=> k \in seen
    BY MembersSeen
  <1>2. ASSUME Named(o, "bbox")
        PROVE  /\ ValidBox(o.bbox)
               /\ o.bbox.dim # 0 => \A p \in ps : Inside(o.bbox, p)
    <2>1. b = o.bbox
      BY <1>1, <1>2 DEF BoxSeen
    <2>2. IsBBox(b) /\ ArePositions(ps)
      BY BoxSeenFacts, CollectionFacts
    <2>3. ASSUME o.bbox.dim # 0, NEW p \in ps  PROVE Inside(o.bbox, p)
      <3>1. s.dim # 0
        BY <2>3 DEF Summarises
      <3>2. Encloses(b, s) /\ ~InGap(b, p.lon)
        BY <3>1, <2>3
      <3> HIDE DEF b, ps
      <3> QED
        BY <2>1, <2>2, <2>3, <3>2, EnclosedInside DEF ps
    <2> QED
      BY <2>1, <2>3
  <1>3. \A i \in DOMAIN o.features.items : \A k \in DOMAIN o.features.items[i].positions :
           o.features.items[i].positions[k] \in ps
    BY CollectionFacts DEF PositionsOf, ToSet
  <1> HIDE DEF ps
  <1>4. SoundCollection(o)
    BY <1>2, <1>3 DEF SoundCollection
  <1> QED
    BY <1>1, <1>4 DEF SoundObject

-----------------------------------------------------------------------------
(* What the reader has gathered of a collection: every longitude is kept,   *)
(* or is known not to be in the gap of the bbox.                            *)

FileType == [there : BOOLEAN, data : Seq(Int), offset : Nat]

IsBounds(b) == b = [bbox |-> b.bbox, summary |-> b.summary, longitudes |-> b.longitudes]

Hoard(b, d) == ToSet(b.longitudes) \union ToSet(d.data)

Gathered(box, ps, b, d) ==
    /\ b.longitudes \in Seq(Int) /\ d \in FileType /\ (~d.there => d.data = <<>>)
    /\ b.bbox.dim # 0 => b.bbox = box
    /\ \A p \in ps : p.lon \in Hoard(b, d) \/ (b.bbox.dim # 0 /\ ~InGap(b.bbox, p.lon))
    /\ \A l \in Hoard(b, d) : \E p \in ps : p.lon = l

(* The features that have gone by are sound, and summarised.                *)
Streaming(items, fs, b) ==
    /\ IsRest(fs, items)
    /\ \A i \in 1..Gone(fs, items) : SoundFeature(items[i])
    /\ Summarises(b.summary, PositionsOf(items, Gone(fs, items)))

AllRead(items, b) ==
    /\ \A i \in DOMAIN items : SoundFeature(items[i])
    /\ Summarises(b.summary, PositionsOf(items, Len(items)))

(* The positions of the current feature that have gone by.                  *)
PartOf(f, ps) == {f.positions[i] : i \in 1..Gone(ps, f.positions)}

(* None is in the gap of the feature's own bbox, and all are summarised.    *)
Looking(f, ps, s) ==
    /\ ~Malformed(f) /\ IsRest(ps, f.positions)
    /\ Summarises(s, PartOf(f, ps))
    /\ \A p \in PartOf(f, ps) : ~InGap(f.bbox, p.lon)

-----------------------------------------------------------------------------
(* The invariant.                                                           *)

TheItems == object.value.features.items

InMembers == pc \in {"member", "feature", "position", "finish", "rewind", "reread"}
InObject == InMembers \/ pc = "close"

ObjectFields ==
    /\ object = [value |-> object.value, allowed |-> object.allowed, keys |-> object.keys,
                 seen |-> object.seen, streamed |-> object.streamed]
    /\ object.allowed \in BOOLEAN /\ object.streamed \in BOOLEAN

(* Where it is.                                                             *)
Place ==
    /\ input \in Inputs
    /\ pc \in {"start", "record", "value", "element", "done"} \/ InObject
    /\ pc = "start" => records = input.records /\ count = 0
    /\ pc = "record" => AtRecord(input, records) /\ input.framed
    /\ pc = "value" => AtValue(input, records, values, count, count)
    /\ pc = "element" => AtElement(input, records, values, count, elements,
                                   Gone(elements, InHand(records, count).elements))
    /\ InObject =>
         /\ ObjectFields /\ IsObject(object.value)
         /\ AtObject(input, records, values, count, elements, object.value, object.allowed)

(* What the verdict says.                                                   *)
Judged ==
    /\ pc \notin {"close", "done"} => verdict = ""
    /\ pc = "close" =>
         /\ verdict # ""
         /\ verdict = "ok" => SoundObject(object.value, object.allowed)
         /\ verdict \notin Failures \union {"ok"} => ~SoundObject(object.value, object.allowed)
    /\ AcceptsExactly

Collecting ==
    /\ "features" \in object.seen /\ "type" \in object.seen
    /\ IsCollection /\ object.allowed /\ object.value.features.list

(* What has been read of the object.                                        *)
MembersRead ==
    InMembers => /\ Members(object.value, object.keys, object.seen)
                 /\ IsBounds(bounds) /\ bounds.longitudes \in Seq(Int) /\ disk \in FileType

DeferredRead ==
    pc = "member" /\ ~object.streamed =>
      /\ Gathered(BoxRead, {}, bounds, disk) /\ Summarises(bounds.summary, {})
      /\ "features" \in object.seen /\ object.value.features.list =>
           \A i \in DOMAIN TheItems : TheItems[i].broken # "duplicate"

FeaturesRead ==
    /\ pc \in {"feature", "position"} =>
         /\ Collecting /\ Streaming(TheItems, features, bounds)
         /\ object.streamed \/ object.keys = <<>>
    /\ pc = "feature" =>
         Gathered(BoxRead, PositionsOf(TheItems, Gone(features, TheItems)), bounds, disk)
    /\ pc = "position" =>
         /\ features # <<>> /\ Looking(Head(features), positions, geometry)
         /\ Gathered(BoxRead, PositionsOf(TheItems, Gone(features, TheItems))
                              \union PartOf(Head(features), positions), bounds, disk)

CollectionRead ==
    (pc = "member" /\ object.streamed) \/ pc \in {"finish", "rewind", "reread"} =>
      /\ Collecting /\ AllRead(TheItems, bounds)
      /\ Gathered(BoxRead, PositionsOf(TheItems, Len(TheItems)), bounds, disk)

Finishing ==
    /\ pc \in {"finish", "rewind", "reread"} => object.keys = <<>>
    /\ pc \in {"rewind", "reread"} =>
         /\ ValidBox(BoxRead) /\ bounds.bbox = BoxRead /\ Encloses(BoxRead, bounds.summary)
         /\ \A l \in Retained : ~InGap(BoxRead, l)
    /\ pc = "reread" => /\ disk.offset <= Len(disk.data)
                        /\ \A i \in 1..disk.offset : ~InGap(BoxRead, disk.data[i])

ReaderInv ==
    /\ Place /\ Judged /\ MembersRead
    /\ DeferredRead /\ FeaturesRead /\ CollectionRead /\ Finishing

-----------------------------------------------------------------------------
(* Where a step may lead.                                                   *)

(* The object in hand is the next one of the input.                         *)
Holding ==
    /\ ObjectFields /\ IsObject(object.value)
    /\ AtObject(input, records, values, count, elements, object.value, object.allowed)

Counted ==
    /\ Members(object.value, object.keys, object.seen)
    /\ IsBounds(bounds) /\ bounds.longitudes \in Seq(Int) /\ disk \in FileType

(* What a step to the next record has to show.                              *)
LEMMA ToRecord ==
  ASSUME pc' = "record", verdict' = "", AtRecord(input, records)', input'.framed
  PROVE  ReaderInv'
  BY DEF ReaderInv, Place, Judged, MembersRead, DeferredRead, FeaturesRead, CollectionRead,
         Finishing, InObject, InMembers, AcceptsExactly, AtRecord

(* What a step to the next value has to show.                               *)
LEMMA ToValue ==
  ASSUME pc' = "value", verdict' = "", AtValue(input, records, values, count, count)'
  PROVE  ReaderInv'
  BY DEF ReaderInv, Place, Judged, MembersRead, DeferredRead, FeaturesRead, CollectionRead,
         Finishing, InObject, InMembers, AcceptsExactly, AtRecord, AtValue

(* What a step to the next element has to show.                             *)
LEMMA ToElement ==
  ASSUME pc' = "element", verdict' = "",
         AtElement(input, records, values, count, elements,
                   Gone(elements, InHand(records, count).elements))'
  PROVE  ReaderInv'
  BY DEF ReaderInv, Place, Judged, MembersRead, DeferredRead, FeaturesRead, CollectionRead,
         Finishing, InObject, InMembers, AcceptsExactly, AtRecord, AtValue, AtElement

(* What a step that returns has to show.                                    *)
LEMMA ToDone ==
  ASSUME pc' = "done", input' \in Inputs, verdict' = "ok" => SoundIn(input'),
         verdict' \notin Failures \union {"ok"} => ~SoundIn(input')
  PROVE  ReaderInv'
  <1>1. SoundInput' <=> SoundIn(input')
    BY DEF SoundInput, SoundIn, SoundRecord
  <1> QED
    BY <1>1 DEF ReaderInv, Place, Judged, MembersRead, DeferredRead, FeaturesRead, CollectionRead,
         Finishing, InObject, InMembers, AcceptsExactly

(* What a step that leaves an object has to show.                           *)
LEMMA ToClose ==
  ASSUME pc' = "close", Holding', verdict' # "",
         verdict' = "ok" => SoundObject(object.value, object.allowed)',
         verdict' \notin Failures \union {"ok"} => ~SoundObject(object.value, object.allowed)'
  PROVE  ReaderInv'
  <1>1. input' \in Inputs
    BY DEF Holding, ObjectFields, AtObject, AtElement, AtValue, AtRecord
  <1> QED
    BY <1>1 DEF ReaderInv, Place, Judged, MembersRead, DeferredRead, FeaturesRead, CollectionRead,
         Finishing, InObject, InMembers, AcceptsExactly, Holding

(* What a step within the members has to show before a collection is        *)
(* streamed.                                                                *)
LEMMA ToDeferred ==
  ASSUME pc' = "member", verdict' = "", Holding', Counted', ~object.streamed',
         Gathered(BoxRead, {}, bounds, disk)', Summarises(bounds.summary, {})',
         ("features" \in object.seen /\ object.value.features.list =>
            \A i \in DOMAIN TheItems : TheItems[i].broken # "duplicate")'
  PROVE  ReaderInv'
  <1>1. input' \in Inputs
    BY DEF Holding, ObjectFields, AtObject, AtElement, AtValue, AtRecord
  <1>2. Place' /\ Judged'
    BY <1>1 DEF Place, Judged, InObject, InMembers, AcceptsExactly, Holding
  <1>3. MembersRead' /\ DeferredRead'
    BY DEF MembersRead, DeferredRead, Counted
  <1>4. FeaturesRead' /\ CollectionRead' /\ Finishing'
    BY DEF FeaturesRead, CollectionRead, Finishing
  <1> QED
    BY <1>2, <1>3, <1>4 DEF ReaderInv

(* What a step within the members has to show once it is.                   *)
LEMMA ToStreamed ==
  ASSUME pc' = "member", verdict' = "", Holding', Counted', object.streamed',
         Collecting', AllRead(TheItems, bounds)',
         Gathered(BoxRead, PositionsOf(TheItems, Len(TheItems)), bounds, disk)'
  PROVE  ReaderInv'
  <1>1. input' \in Inputs
    BY DEF Holding, ObjectFields, AtObject, AtElement, AtValue, AtRecord
  <1>2. Place' /\ Judged'
    BY <1>1 DEF Place, Judged, InObject, InMembers, AcceptsExactly, Holding
  <1>3. MembersRead' /\ DeferredRead'
    BY DEF MembersRead, DeferredRead, Counted
  <1>4. FeaturesRead' /\ Finishing'
    BY DEF FeaturesRead, Finishing
  <1>5. CollectionRead'
    BY DEF CollectionRead
  <1> QED
    BY <1>2, <1>3, <1>4, <1>5 DEF ReaderInv

(* What a step to the next feature has to show.                             *)
LEMMA ToFeature ==
  ASSUME pc' = "feature", verdict' = "", Holding', Counted', Collecting',
         Streaming(TheItems, features, bounds)', (object.streamed \/ object.keys = <<>>)',
         Gathered(BoxRead, PositionsOf(TheItems, Gone(features, TheItems)), bounds, disk)'
  PROVE  ReaderInv'
  <1>1. input' \in Inputs
    BY DEF Holding, ObjectFields, AtObject, AtElement, AtValue, AtRecord
  <1>2. Place' /\ Judged'
    BY <1>1 DEF Place, Judged, InObject, InMembers, AcceptsExactly, Holding
  <1>3. MembersRead' /\ DeferredRead'
    BY DEF MembersRead, DeferredRead, Counted
  <1>4. CollectionRead' /\ Finishing'
    BY DEF CollectionRead, Finishing
  <1>5. FeaturesRead'
    BY DEF FeaturesRead
  <1> QED
    BY <1>2, <1>3, <1>4, <1>5 DEF ReaderInv

(* What a step to the next position has to show.                            *)
LEMMA ToPosition ==
  ASSUME pc' = "position", verdict' = "", Holding', Counted', Collecting',
         Streaming(TheItems, features, bounds)', (object.streamed \/ object.keys = <<>>)',
         features' # <<>>, Looking(Head(features), positions, geometry)',
         Gathered(BoxRead, PositionsOf(TheItems, Gone(features, TheItems))
                           \union PartOf(Head(features), positions), bounds, disk)'
  PROVE  ReaderInv'
  <1>1. input' \in Inputs
    BY DEF Holding, ObjectFields, AtObject, AtElement, AtValue, AtRecord
  <1>2. Place' /\ Judged'
    BY <1>1 DEF Place, Judged, InObject, InMembers, AcceptsExactly, Holding
  <1>3. MembersRead' /\ DeferredRead'
    BY DEF MembersRead, DeferredRead, Counted
  <1>4. CollectionRead' /\ Finishing'
    BY DEF CollectionRead, Finishing
  <1>5. FeaturesRead'
    BY DEF FeaturesRead
  <1> QED
    BY <1>2, <1>3, <1>4, <1>5 DEF ReaderInv

(* What a step of the check of the box has to show.                         *)
LEMMA ToFinishing ==
  ASSUME pc' \in {"finish", "rewind", "reread"}, verdict' = "", Holding', Counted',
         Collecting', AllRead(TheItems, bounds)',
         Gathered(BoxRead, PositionsOf(TheItems, Len(TheItems)), bounds, disk)', Finishing'
  PROVE  ReaderInv'
  <1>1. input' \in Inputs
    BY DEF Holding, ObjectFields, AtObject, AtElement, AtValue, AtRecord
  <1>2. Place' /\ Judged'
    BY <1>1 DEF Place, Judged, InObject, InMembers, AcceptsExactly, Holding
  <1>3. MembersRead' /\ DeferredRead'
    BY DEF MembersRead, DeferredRead, Counted
  <1>4. FeaturesRead'
    BY DEF FeaturesRead
  <1>5. CollectionRead'
    BY DEF CollectionRead
  <1> QED
    BY <1>2, <1>3, <1>4, <1>5 DEF ReaderInv

-----------------------------------------------------------------------------
(* Up to an object.                                                         *)

(* What a cleared reader has.                                               *)
LEMMA NoFileFields ==
  /\ NoFile \in FileType /\ ~NoFile.there /\ NoFile.data = <<>>
  /\ NoBounds.bbox.dim = 0 /\ NoBounds.longitudes = <<>> /\ NoBounds.summary = Nothing
  /\ IsBounds(NoBounds) /\ NoBounds.longitudes \in Seq(Int)
  <1>1. 0 \in Nat /\ <<>> \in Seq(Int)
    OBVIOUS
  <1>2. NoFile \in FileType /\ ~NoFile.there /\ NoFile.data = <<>>
    BY <1>1, Zenon DEF NoFile, FileType
  <1>3. NoBounds.bbox = NoBox /\ NoBounds.longitudes = <<>> /\ NoBounds.summary = Nothing
    BY Zenon DEF NoBounds
  <1>4. IsBounds(NoBounds)
    BY Zenon DEF NoBounds, IsBounds
  <1> QED
    BY <1>1, <1>2, <1>3, <1>4, NoBoxFields

(* Nothing has been gathered of it, of no positions.                        *)
LEMMA NothingGathered == \A box : Gathered(box, {}, NoBounds, NoFile)
  <1>1. Hoard(NoBounds, NoFile) = {}
    BY NoFileFields DEF Hoard, ToSet
  <1>2. <<>> \in Seq(Int)
    OBVIOUS
  <1> QED
    BY <1>1, <1>2, NoFileFields DEF Gathered

(* The fields of the object in hand.                                        *)
LEMMA ObjectOf ==
  ASSUME NEW v, NEW a, NEW k, NEW s, NEW t
  PROVE  LET o == [value |-> v, allowed |-> a, keys |-> k, seen |-> s, streamed |-> t] IN
         /\ o.value = v /\ o.allowed = a /\ o.keys = k /\ o.seen = s /\ o.streamed = t
         /\ o = [value |-> o.value, allowed |-> o.allowed, keys |-> o.keys,
                 seen |-> o.seen, streamed |-> o.streamed]
  BY Zenon

(* An object is begun where it stands.                                      *)
LEMMA BeginHolds ==
  ASSUME NEW v, NEW a \in BOOLEAN, Begin(v, a), verdict' = "", IsObject(v),
         AtObject(input', records', values', count', elements', v, a)
  PROVE  ReaderInv'
  <1>1. /\ pc' = "member" /\ bounds' = NoBounds /\ disk' = NoFile
        /\ object' = [value |-> v, allowed |-> a, keys |-> v.keys, seen |-> {}, streamed |-> FALSE]
    BY DEF Begin
  <1>2. /\ object'.value = v /\ object'.allowed = a /\ object'.keys = v.keys
        /\ object'.seen = {} /\ object'.streamed = FALSE
        /\ object' = [value |-> object'.value, allowed |-> object'.allowed, keys |-> object'.keys,
                      seen |-> object'.seen, streamed |-> object'.streamed]
    <2> DEFINE o == [value |-> v, allowed |-> a, keys |-> v.keys, seen |-> {}, streamed |-> FALSE]
    <2>1. /\ o.value = v /\ o.allowed = a /\ o.keys = v.keys /\ o.seen = {} /\ o.streamed = FALSE
          /\ o = [value |-> o.value, allowed |-> o.allowed, keys |-> o.keys,
                  seen |-> o.seen, streamed |-> o.streamed]
      BY ObjectOf
    <2>2. object' = o
      BY <1>1
    <2> HIDE DEF o
    <2> QED
      BY <2>1, <2>2, Zenon
  <1>3. object'.allowed \in BOOLEAN /\ object'.streamed \in BOOLEAN
    BY <1>2, Zenon
  <1>4. Holding'
    BY <1>2, <1>3 DEF Holding, ObjectFields
  <1>5. v.kind = "object"
    BY DEF AtObject
  <1>6. Members(v, v.keys, {})
    BY <1>5, MembersFirst
  <1>7. NoBounds.longitudes \in Seq(Int)
    BY NoFileFields
  <1>8. Counted'
    BY <1>1, <1>2, <1>6, <1>7, NoFileFields DEF Counted
  <1>9. Gathered(BoxRead, {}, bounds, disk)' /\ Summarises(bounds.summary, {})'
    BY <1>1, NothingGathered, NothingSummarises, NoFileFields
  <1>10. "features" \notin object'.seen /\ ~object'.streamed
    BY <1>2, Zenon
  <1> QED
    BY <1>1, <1>4, <1>8, <1>9, <1>10, ToDeferred

(* The reader starts in its place.                                          *)
LEMMA InitHolds ==
  ASSUME Init
  PROVE  ReaderInv
  BY DEF Init, ReaderInv, Place, Judged, MembersRead, DeferredRead, FeaturesRead, CollectionRead,
         Finishing, InObject, InMembers, AcceptsExactly

(* It is still there once the input is opened,                              *)
LEMMA StartHolds ==
  ASSUME ReaderInv, Start
  PROVE  ReaderInv'
  <1>1. /\ pc = "start" /\ input \in Inputs /\ records = input.records /\ count = 0 /\ verdict = ""
        /\ UNCHANGED <<input, records, count>>
    BY DEF ReaderInv, Place, Judged, Start
  <1>2. CASE input.mode = "seq" /\ ~input.framed /\ Return("no record separator")
    <2>1. ~SoundIn(input)
      BY <1>2 DEF SoundIn
    <2>2. pc' = "done" /\ verdict' # "ok"
      BY <1>2 DEF Return
    <2> QED
      BY <1>1, <2>1, <2>2, ToDone
  <1>3. CASE input.framed /\ pc' = "record" /\ UNCHANGED <<values, verdict>>
    <2>1. AtRecord(input, records)
      BY <1>1, <1>3, FirstRecord
    <2> QED
      BY <1>1, <1>3, <2>1, ToRecord
  <1>4. CASE /\ input.mode = "auto" /\ ~input.framed
             /\ pc' = "value" /\ values' = Head(records).values /\ UNCHANGED verdict
    <2>1. AtRecord(input, records)
      BY <1>1, <1>4, FirstRecord
    <2>2. AtValue(input, records, Head(records).values, 0, 0)
      BY <1>4, <2>1, FirstValue
    <2> QED
      BY <1>1, <1>4, <2>2, ToValue
  <1> QED
    BY <1>2, <1>3, <1>4 DEF Start

(* once a record is read,                                                   *)
LEMMA ReadRecordHolds ==
  ASSUME ReaderInv, ReadRecord
  PROVE  ReaderInv'
  <1>1. /\ pc = "record" /\ AtRecord(input, records) /\ input.framed /\ verdict = ""
        /\ UNCHANGED <<input, records>>
    BY DEF ReaderInv, Place, Judged, ReadRecord
  <1>2. CASE Head(records).terminated /\ Head(records).values # <<>>
    <2>1. AtValue(input, records, Head(records).values, 0, 0)
      BY <1>1, <1>2, FirstValue
    <2>2. pc' = "value" /\ values' = Head(records).values /\ count' = 0 /\ verdict' = ""
      BY <1>1, <1>2 DEF ReadRecord
    <2> QED
      BY <1>1, <2>1, <2>2, ToValue
  <1>3. CASE ~(Head(records).terminated /\ Head(records).values # <<>>)
    <2>1. ~SoundRecord(input, Head(records))
      BY <1>1, <1>3 DEF SoundRecord
    <2>2. ~SoundIn(input) /\ input \in Inputs
      BY <1>1, <2>1, BadRecord DEF AtRecord
    <2>3. pc' = "done" /\ verdict' = "bad record"
      BY <1>3 DEF ReadRecord, Return
    <2> QED
      BY <1>1, <2>2, <2>3, ToDone
  <1> QED
    BY <1>2, <1>3

(* A record is not sound if it holds no value, or two.                      *)
LEMMA EmptyRecord ==
  ASSUME NEW in, NEW rs, NEW vs, NEW c, AtValue(in, rs, vs, c, c), vs = <<>>, c = 0
  PROVE  ~SoundIn(in)
  <1>1. AtRecord(in, rs) /\ IsRest(vs, Head(rs).values) /\ c = Gone(vs, Head(rs).values)
    BY DEF AtValue
  <1>2. Len(Head(rs).values) = 0
    BY <1>1, RestBounds
  <1>3. Head(rs).values = <<>>
    BY <1>1, <1>2, SeqFacts, RecordFacts
  <1> QED
    BY <1>1, <1>3, BadRecord DEF SoundRecord

(* A second value in a framed record spoils the input.                      *)
LEMMA SecondValue ==
  ASSUME NEW in, NEW rs, NEW vs, NEW c, AtValue(in, rs, vs, c, c), vs # <<>>, in.framed, c >= 1
  PROVE  ~SoundIn(in)
  <1>1. AtRecord(in, rs) /\ IsRest(vs, Head(rs).values) /\ c = Gone(vs, Head(rs).values)
    BY DEF AtValue
  <1>2. /\ c \in Nat /\ Len(Head(rs).values) \in Nat /\ c # Len(Head(rs).values)
        /\ c <= Len(Head(rs).values)
    BY <1>1, RestBounds
  <1>3. \A m, n \in Nat : m <= n /\ m # n /\ m >= 1 => n # 1
    OBVIOUS
  <1>4. Len(Head(rs).values) # 1
    BY <1>2, <1>3, Zenon
  <1> QED
    BY <1>1, <1>4, BadRecord DEF SoundRecord

(* once the values of a record are over,                                    *)
LEMMA EndRecordHolds ==
  ASSUME ReaderInv, EndRecord
  PROVE  ReaderInv'
  <1>1. /\ AtValue(input, records, values, count, count) /\ verdict = "" /\ values = <<>>
        /\ UNCHANGED <<input, values, count>>
    BY DEF ReaderInv, Place, Judged, EndRecord
  <1>2. input \in Inputs /\ count \in Nat
    BY <1>1, RestBounds DEF AtValue, AtRecord
  <1>3. CASE count = 0
    <2>1. pc' = "done" /\ verdict' = "empty"
      BY <1>2, <1>3 DEF EndRecord, Return
    <2>2. ~SoundIn(input)
      BY <1>1, <1>3, EmptyRecord
    <2> QED
      BY <1>1, <1>2, <2>1, <2>2, ToDone
  <1>4. CASE count > 0 /\ input.framed /\ Len(records) > 1
    <2>0. count # 0
      BY <1>2, <1>4
    <2>1. pc' = "record" /\ records' = Tail(records) /\ verdict' = ""
      BY <1>1, <2>0, <1>4, Zenon DEF EndRecord
    <2>2. AtRecord(input, Tail(records))
      BY <1>1, <1>4, RecordGoesBy
    <2> QED
      BY <1>1, <1>4, <2>1, <2>2, ToRecord
  <1>5. CASE count > 0 /\ ~(input.framed /\ Len(records) > 1)
    <2>1. pc' = "done" /\ verdict' = "ok"
      BY <1>2, <1>5 DEF EndRecord, Return
    <2>2. SoundIn(input)
      BY <1>1, <1>5, RecordGoesBy
    <2> QED
      BY <1>1, <1>2, <2>1, <2>2, ToDone
  <1> QED
    BY <1>2, <1>3, <1>4, <1>5

(* once a value is read,                                                    *)
LEMMA ReadValueHolds ==
  ASSUME ReaderInv, ReadValue
  PROVE  ReaderInv'
  <1>1. /\ AtValue(input, records, values, count, count) /\ verdict = "" /\ values # <<>>
        /\ UNCHANGED <<input, records>>
    BY DEF ReaderInv, Place, Judged, ReadValue
  <1>2. input \in Inputs
    BY <1>1 DEF AtValue, AtRecord
  <1>3. CASE input.framed /\ count >= 1
    <2>1. pc' = "done" /\ verdict' = "second value"
      BY <1>3 DEF ReadValue, Return
    <2>2. ~SoundIn(input)
      BY <1>1, <1>3, SecondValue
    <2> QED
      BY <1>1, <1>2, <2>1, <2>2, ToDone
  <1>4. CASE ~(input.framed /\ count >= 1)
    <2> DEFINE v == Head(values)
    <2>1. /\ AtValue(input, records, Tail(values), count + 1, (count + 1) - 1)
          /\ v = InHand(records, count + 1) /\ count + 1 >= 1
      BY <1>1, <1>4, NextValue
    <2>2. IsValue(v)
      BY <2>1, InHandFacts
    <2>3. values' = Tail(values) /\ count' = count + 1
      BY <1>4 DEF ReadValue
    <2>4. CASE v.kind = "object"
      <3>1. Begin(v, TRUE) /\ UNCHANGED <<elements, verdict>>
        BY <1>4, <2>4 DEF ReadValue
      <3>2. AtObject(input, records, Tail(values), count + 1, elements, v, TRUE)
        BY <2>1, <2>4 DEF AtObject
      <3>3. IsObject(v)
        BY <2>2 DEF IsValue
      <3>4. AtObject(input', records', values', count', elements', v, TRUE)
        BY <1>1, <2>3, <3>1, <3>2
      <3> QED
        BY <1>1, <3>1, <3>3, <3>4, BeginHolds
    <2>5. CASE v.kind = "array"
      <3>1. pc' = "element" /\ elements' = v.elements /\ UNCHANGED verdict
        BY <1>4, <2>5 DEF ReadValue
      <3>2. AtElement(input, records, Tail(values), count + 1, v.elements,
                      Gone(v.elements, InHand(records, count + 1).elements))
        BY <2>1, <2>5, FirstElement
      <3> QED
        BY <1>1, <2>3, <3>1, <3>2, ToElement
    <2>6. CASE v.kind # "object" /\ v.kind # "array"
      <3>1. pc' = "done" /\ verdict' = "not an object"
        BY <1>4, <2>6 DEF ReadValue, Return
      <3>2. ~SoundValue(v)
        BY <2>6 DEF SoundValue
      <3>3. ~SoundIn(input)
        BY <2>1, <3>2, BadValue
      <3> QED
        BY <1>1, <1>2, <3>1, <3>3, ToDone
    <2> QED
      BY <2>4, <2>5, <2>6
  <1> QED
    BY <1>3, <1>4

(* once an element is read,                                                 *)
LEMMA ReadElementHolds ==
  ASSUME ReaderInv, ReadElement
  PROVE  ReaderInv'
  <1>1. /\ AtElement(input, records, values, count, elements,
                     Gone(elements, InHand(records, count).elements))
        /\ verdict = "" /\ UNCHANGED <<input, records, values, count>>
    BY DEF ReaderInv, Place, Judged, ReadElement
  <1>2. input \in Inputs
    BY <1>1 DEF AtElement, AtValue, AtRecord
  <1>3. CASE elements = <<>>
    <2>1. AtValue(input, records, values, count, count)
      BY <1>1, <1>3, LastElement
    <2>2. pc' = "value" /\ verdict' = ""
      BY <1>1, <1>3 DEF ReadElement
    <2> QED
      BY <1>1, <2>1, <2>2, ToValue
  <1>4. CASE elements # <<>>
    <2> DEFINE o == Head(elements)
    <2>1. /\ o.kind = "object" =>
               /\ AtObject(input, records, values, count, Tail(elements), o, FALSE)
               /\ IsObject(o)
          /\ o.kind # "object" => ~SoundIn(input)
      BY <1>1, <1>4, NextElement
    <2>2. elements' = Tail(elements)
      BY <1>4 DEF ReadElement
    <2>3. CASE o.kind = "object"
      <3>1. Begin(o, FALSE) /\ UNCHANGED verdict
        BY <1>4, <2>3 DEF ReadElement
      <3>2. AtObject(input', records', values', count', elements', o, FALSE)
        BY <1>1, <2>1, <2>2, <2>3
      <3> QED
        BY <1>1, <2>1, <2>3, <3>1, <3>2, BeginHolds
    <2>4. CASE o.kind # "object"
      <3>1. pc' = "done" /\ verdict' = "not an object"
        BY <1>4, <2>4 DEF ReadElement, Return
      <3> QED
        BY <1>1, <1>2, <2>1, <2>4, <3>1, ToDone
    <2> QED
      BY <2>3, <2>4
  <1> QED
    BY <1>3, <1>4

-----------------------------------------------------------------------------
(* The members of an object.                                                *)

(* Among the members an object is in hand.                                  *)
LEMMA NowHolding ==
  ASSUME ReaderInv, InMembers
  PROVE  Holding /\ Counted /\ verdict = ""
  BY DEF ReaderInv, Place, Judged, MembersRead, InObject, InMembers, Holding, Counted

(* It is still in hand while nothing about it changes.                      *)
LEMMA HoldingStays ==
  ASSUME Holding, UNCHANGED <<input, records, values, elements, count, object>>
  PROVE  Holding'
  BY DEF Holding, ObjectFields

(* The object in hand with one member less ahead.                           *)
LEMMA ObjectNext ==
  ASSUME NEW o, o = [value |-> o.value, allowed |-> o.allowed, keys |-> o.keys,
                     seen |-> o.seen, streamed |-> o.streamed],
         NEW k, NEW s, NEW t, NEW u, u = [o EXCEPT !.keys = k, !.seen = s, !.streamed = t]
  PROVE  /\ u.value = o.value /\ u.allowed = o.allowed
         /\ u.keys = k /\ u.seen = s /\ u.streamed = t
         /\ u = [value |-> u.value, allowed |-> u.allowed, keys |-> u.keys,
                 seen |-> u.seen, streamed |-> u.streamed]
  <1> DEFINE T == [value : {o.value}, allowed : {o.allowed}, keys : {o.keys, k},
                   seen : {o.seen, s}, streamed : {o.streamed, t}]
  <1>1. o \in T
    BY Zenon
  <1>2. /\ u.value = o.value /\ u.allowed = o.allowed
        /\ u.keys = k /\ u.seen = s /\ u.streamed = t /\ u \in T
    BY <1>1, Zenon
  <1>3. u = [value |-> u.value, allowed |-> u.allowed, keys |-> u.keys,
             seen |-> u.seen, streamed |-> u.streamed]
    BY <1>2, Zenon
  <1> QED
    BY <1>2, <1>3

(* What was gathered, with another box.                                     *)
LEMMA BoxNext ==
  ASSUME NEW b, IsBounds(b), NEW v, NEW u, u = [b EXCEPT !.bbox = v]
  PROVE  /\ u.bbox = v /\ u.summary = b.summary /\ u.longitudes = b.longitudes
         /\ IsBounds(u)
  <1> DEFINE T == [bbox : {v}, summary : {b.summary}, longitudes : {b.longitudes}]
             T0 == [bbox : {b.bbox}, summary : {b.summary}, longitudes : {b.longitudes}]
  <1>1. b \in T0
    BY Zenon DEF IsBounds
  <1>2. u.bbox = v /\ u.summary = b.summary /\ u.longitudes = b.longitudes /\ u \in T
    BY <1>1, Zenon
  <1>3. u = [bbox |-> u.bbox, summary |-> u.summary, longitudes |-> u.longitudes]
    BY <1>2, Zenon
  <1> QED
    BY <1>2, <1>3 DEF IsBounds

(* What was gathered, with another summary.                                 *)
LEMMA SummaryNext ==
  ASSUME NEW b, IsBounds(b), NEW v, NEW u, u = [b EXCEPT !.summary = v]
  PROVE  /\ u.bbox = b.bbox /\ u.summary = v /\ u.longitudes = b.longitudes
         /\ IsBounds(u)
  <1> DEFINE T == [bbox : {b.bbox}, summary : {v}, longitudes : {b.longitudes}]
             T0 == [bbox : {b.bbox}, summary : {b.summary}, longitudes : {b.longitudes}]
  <1>1. b \in T0
    BY Zenon DEF IsBounds
  <1>2. u.bbox = b.bbox /\ u.summary = v /\ u.longitudes = b.longitudes /\ u \in T
    BY <1>1, Zenon
  <1>3. u = [bbox |-> u.bbox, summary |-> u.summary, longitudes |-> u.longitudes]
    BY <1>2, Zenon
  <1> QED
    BY <1>2, <1>3 DEF IsBounds

(* What was gathered, with other longitudes.                                *)
LEMMA LongitudesNext ==
  ASSUME NEW b, IsBounds(b), NEW v, NEW u, u = [b EXCEPT !.longitudes = v]
  PROVE  /\ u.bbox = b.bbox /\ u.summary = b.summary /\ u.longitudes = v
         /\ IsBounds(u)
  <1> DEFINE T == [bbox : {b.bbox}, summary : {b.summary}, longitudes : {v}]
             T0 == [bbox : {b.bbox}, summary : {b.summary}, longitudes : {b.longitudes}]
  <1>1. b \in T0
    BY Zenon DEF IsBounds
  <1>2. u.bbox = b.bbox /\ u.summary = b.summary /\ u.longitudes = v /\ u \in T
    BY <1>1, Zenon
  <1>3. u = [bbox |-> u.bbox, summary |-> u.summary, longitudes |-> u.longitudes]
    BY <1>2, Zenon
  <1> QED
    BY <1>2, <1>3 DEF IsBounds

(* What has been gathered stays right when one member more is read.         *)
LEMMA BoxGrows ==
  ASSUME NEW o, NEW seen, NEW key, key \notin seen, NEW ps, NEW b, NEW d,
         Gathered(BoxSeen(o, seen), ps, b, d)
  PROVE  Gathered(BoxSeen(o, seen \union {key}), ps, b, d)
  <1>1. CASE "bbox" \in seen
    BY <1>1 DEF BoxSeen
  <1>2. CASE "bbox" \notin seen
    <2>1. b.bbox.dim = 0
      BY <1>2, NoBoxFields DEF Gathered, BoxSeen
    <2> QED
      BY <2>1 DEF Gathered
  <1> QED
    BY <1>1, <1>2

(* Of an empty set nothing is kept.                                         *)
LEMMA GatheredNone ==
  ASSUME NEW box, NEW b, NEW d, Gathered(box, {}, b, d)
  PROVE  Hoard(b, d) = {}
  BY DEF Gathered

(* The features of a collection are entered.                                *)
LEMMA EnterHolds ==
  ASSUME EnterFeatures, verdict = "", Holding', UNCHANGED disk, object'.value = object.value,
         Members(object.value, object.keys, object.seen)',
         BoxRead' = BoxRead, IsBounds(bounds), disk \in FileType,
         Gathered(BoxRead, {}, bounds, disk), Summarises(bounds.summary, {}),
         "features" \in object'.seen, "type" \in object'.seen, IsCollection, object'.allowed,
         (object.streamed \/ object.keys = <<>>)'
  PROVE  ReaderInv'
  <1> DEFINE o == object.value
  <1>1. o.kind = "object" /\ IsObject(o)
    BY DEF Holding, AtObject
  <1>2. BoxRead = BoxSeen(o, object'.seen)
    BY DEF BoxRead, BoxSeen
  <1>3. CASE ~ValidBox(BoxRead) \/ ~o.features.list
    <2>1. ~SoundCollection(o)
      <3>1. CASE ~ValidBox(BoxRead)
        BY <3>1, <1>1, <1>2, BoxNotValid
      <3>2. CASE ~o.features.list
        BY <3>2 DEF SoundCollection
      <3> QED
        BY <1>3, <3>1, <3>2
    <2>2. ~SoundObject(o, object'.allowed)
      BY <2>1, NotACollection DEF IsCollection
    <2>3. pc' = "close" /\ verdict' = "bad collection"
      BY <1>3 DEF EnterFeatures, Leave
    <2> QED
      BY <2>2, <2>3, ToClose
  <1>4. CASE ValidBox(BoxRead) /\ o.features.list
    <2> DEFINE items == o.features.items
    <2>1. /\ pc' = "feature" /\ features' = items /\ verdict' = ""
          /\ bounds' = [bounds EXCEPT !.bbox = BoxRead]
      BY <1>4 DEF EnterFeatures
    <2>2. /\ bounds'.bbox = BoxRead /\ bounds'.summary = bounds.summary
          /\ bounds'.longitudes = bounds.longitudes /\ IsBounds(bounds')
      <3>1. IsBounds(bounds) /\ bounds' = [bounds EXCEPT !.bbox = BoxRead]
        BY <2>1
      <3> HIDE DEF items
      <3>2. /\ bounds'.bbox = BoxRead /\ bounds'.summary = bounds.summary
            /\ bounds'.longitudes = bounds.longitudes /\ IsBounds(bounds')
        BY ONLY <3>1, BoxNext, SMT
      <3> QED
        BY <3>2
    <2>3. IsRest(items, items) /\ Gone(items, items) = 0 /\ PositionsOf(items, 0) = {}
      BY <1>1, CollectionFacts, RestWhole, NoPositions
    <2>4. /\ bounds.longitudes \in Seq(Int) /\ (~disk.there => disk.data = <<>>)
          /\ Hoard(bounds, disk) = {}
      BY GatheredNone DEF Gathered
    <2>5. Hoard(bounds', disk') = {}
      BY <2>2, <2>4 DEF Hoard
    <2>6. Gathered(BoxRead, {}, bounds, disk)'
      BY <2>2, <2>4, <2>5 DEF Gathered
    <2>7. Streaming(TheItems, features, bounds)'
      <3> HIDE DEF items
      <3>1. \A i \in 1..0 : SoundFeature(items[i])
        BY NoIndex
      <3>2. Streaming(items, items, bounds')
        BY <2>2, <2>3, <3>1 DEF Streaming
      <3> QED
        BY <2>1, <3>2 DEF TheItems, items
    <2>8. Gathered(BoxRead, PositionsOf(TheItems, Gone(features, TheItems)), bounds, disk)'
      BY <2>1, <2>3, <2>6 DEF TheItems
    <2>9. Collecting'
      BY <1>4 DEF Collecting, IsCollection
    <2>10. Counted'
      BY <2>2, <2>4 DEF Counted
    <2> QED
      BY <2>1, <2>7, <2>8, <2>9, <2>10, ToFeature
  <1> QED
    BY <1>3, <1>4

(* The reader is in its place once a member is read,                        *)
LEMMA ReadMemberHolds ==
  ASSUME ReaderInv, ReadMember
  PROVE  ReaderInv'
  <1> DEFINE o == object.value
             key == Head(object.keys)
  <1>1. /\ Holding /\ Counted /\ verdict = "" /\ pc = "member" /\ object.keys # <<>>
        /\ UNCHANGED <<input, records, values, elements, count, disk>>
        /\ object' = [object EXCEPT !.keys = Tail(@), !.seen = @ \union {key},
                                    !.streamed = @ \/ Streams(key)]
    <2>1. InMembers /\ pc = "member"
      BY DEF InMembers, ReadMember
    <2> QED
      BY <2>1, NowHolding DEF ReadMember, readerVars
  <1>2. /\ object'.value = o /\ object'.allowed = object.allowed
        /\ object'.keys = Tail(object.keys) /\ object'.seen = object.seen \union {key}
        /\ object'.streamed = (object.streamed \/ Streams(key))
        /\ object' = [value |-> object'.value, allowed |-> object'.allowed,
                      keys |-> object'.keys, seen |-> object'.seen,
                      streamed |-> object'.streamed]
    <2>1. object = [value |-> object.value, allowed |-> object.allowed,
                    keys |-> object.keys, seen |-> object.seen, streamed |-> object.streamed]
      BY <1>1 DEF Holding, ObjectFields
    <2> QED
      BY <1>1, <2>1, ObjectNext, Zenon
  <1>3. object'.allowed \in BOOLEAN /\ object'.streamed \in BOOLEAN
    <2>1. (object.streamed \/ Streams(key)) \in BOOLEAN
      BY Zenon
    <2>2. object.allowed \in BOOLEAN
      BY <1>1 DEF Holding, ObjectFields
    <2> QED
      BY <1>2, <2>1, <2>2, Zenon
  <1>4. Holding'
    <2>1. IsObject(o) /\ AtObject(input, records, values, count, elements, o, object.allowed)
      BY <1>1 DEF Holding
    <2> QED
      BY <1>1, <1>2, <1>3, <2>1 DEF Holding, ObjectFields
  <1>5. o.kind = "object" /\ IsObject(o)
    BY <1>1 DEF Holding, AtObject
  <1>6. /\ Members(o, object.keys, object.seen)
        /\ IsBounds(bounds) /\ bounds.longitudes \in Seq(Int) /\ disk \in FileType
    BY <1>1 DEF Counted
  <1>7. CASE key \in object.seen
    <2>1. ~SoundObject(o, object.allowed)
      BY <1>1, <1>6, <1>7, MemberNext DEF SoundObject
    <2>2. pc' = "close" /\ verdict' = "duplicate member"
      BY <1>7 DEF ReadMember, Leave
    <2> QED
      BY <1>2, <1>4, <2>1, <2>2, ToClose
  <1>8. CASE key \notin object.seen
    <2>1. Members(o, object'.keys, object'.seen)
      BY <1>1, <1>2, <1>6, <1>8, MemberNext
    <2>2. ~object.streamed =>
            /\ Gathered(BoxRead, {}, bounds, disk) /\ Summarises(bounds.summary, {})
            /\ "features" \in object.seen /\ o.features.list =>
                 \A i \in DOMAIN TheItems : TheItems[i].broken # "duplicate"
      BY <1>1 DEF ReaderInv, DeferredRead
    <2>3. object.streamed =>
            /\ Collecting /\ AllRead(TheItems, bounds)
            /\ Gathered(BoxRead, PositionsOf(TheItems, Len(TheItems)), bounds, disk)
      BY <1>1 DEF ReaderInv, CollectionRead
    <2>4. CASE Streams(key)
      <3>1. key = "features" /\ "type" \in object.seen /\ IsCollection
        BY <2>4 DEF Streams
      <3>2. ~object.streamed
        BY <1>8, <2>3, <3>1 DEF Collecting
      <3>3. CASE object.allowed
        <4>1. EnterFeatures
          BY <1>8, <2>4, <3>3 DEF ReadMember
        <4>2. "features" \in object'.seen /\ "type" \in object'.seen
          BY <1>2, <3>1
        <4>3. object'.allowed /\ object'.streamed
          BY <1>2, <2>4, <3>3, Zenon
        <4>4. BoxRead' = BoxRead
          <5>1. "bbox" \in object'.seen <=> "bbox" \in object.seen
            BY <1>2, <3>1
          <5> QED
            BY <1>2, <5>1 DEF BoxRead
        <4> QED
          BY <1>1, <1>2, <1>4, <1>6, <2>1, <2>2, <3>1, <3>2, <4>1, <4>2, <4>3, <4>4, EnterHolds
      <3>4. CASE ~object.allowed
        <4>1. pc' = "close" /\ verdict' = "nested collection"
          BY <1>8, <2>4, <3>4 DEF ReadMember, Leave
        <4>2. ~SoundObject(o, object.allowed)
          BY <3>1, <3>4 DEF SoundObject, IsCollection
        <4> QED
          BY <1>2, <1>4, <4>1, <4>2, ToClose
      <3> QED
        BY <3>3, <3>4
    <2>5. CASE ~Streams(key) /\ Repeats(key)
      <3>1. pc' = "close" /\ verdict' = "duplicate member"
        BY <1>8, <2>5 DEF ReadMember, Leave
      <3>2. /\ key = "features" /\ o.features.list
            /\ \E i \in DOMAIN o.features.items : o.features.items[i].broken = "duplicate"
        BY <2>5 DEF Repeats
      <3>3. Named(o, "features")
        BY <1>2, <2>1, <3>2, MembersSeen
      <3>4. ~SoundCollection(o)
        BY <3>2 DEF SoundCollection, SoundFeature
      <3>5. ~SoundObject(o, object.allowed)
        BY <3>2, <3>3, <3>4 DEF SoundObject
      <3> QED
        BY <1>2, <1>4, <3>1, <3>5, ToClose
    <2>6. CASE ~Streams(key) /\ ~Repeats(key)
      <3>1. UNCHANGED <<pc, verdict, bounds, features>>
        BY <1>8, <2>6 DEF ReadMember
      <3>2. Counted'
        BY <1>1, <1>2, <1>6, <2>1, <3>1 DEF Counted
      <3>3. object'.streamed = object.streamed
        <4>1. object.streamed \in BOOLEAN
          BY <1>1 DEF Holding, ObjectFields
        <4> QED
          BY <1>2, <2>6, <4>1, Zenon
      <3>4. \A ps : Gathered(BoxRead, ps, bounds, disk) => Gathered(BoxRead', ps, bounds, disk)
        <4>1. BoxRead = BoxSeen(o, object.seen) /\ BoxRead' = BoxSeen(o, object.seen \union {key})
          BY <1>2 DEF BoxRead, BoxSeen
        <4> QED
          BY <1>8, <4>1, BoxGrows
      <3>5. TheItems' = TheItems
        BY <1>2 DEF TheItems
      <3>6. CASE ~object.streamed
        <4>1. Gathered(BoxRead, {}, bounds, disk)' /\ Summarises(bounds.summary, {})'
          BY <1>1, <2>2, <3>1, <3>4, <3>6
        <4>2. ASSUME "features" \in object'.seen, o.features.list
              PROVE  \A i \in DOMAIN TheItems : TheItems[i].broken # "duplicate"
          <5>1. CASE key = "features"
            BY <5>1, <4>2, <2>6 DEF Repeats, TheItems
          <5>2. CASE key # "features"
            BY <5>2, <4>2, <2>2, <3>6, <1>2
          <5> QED
            BY <5>1, <5>2
        <4>3. pc' = "member" /\ verdict' = "" /\ ~object'.streamed
          BY <1>1, <3>1, <3>3, <3>6
        <4> QED
          BY <1>2, <1>4, <3>2, <3>5, <4>1, <4>2, <4>3, ToDeferred
      <3>7. CASE object.streamed
        <4>1. Collecting'
          BY <1>2, <2>3, <3>7 DEF Collecting, IsCollection
        <4>2. AllRead(TheItems, bounds)'
          BY <2>3, <3>1, <3>5, <3>7
        <4>3. Gathered(BoxRead, PositionsOf(TheItems, Len(TheItems)), bounds, disk)'
          BY <1>1, <2>3, <3>1, <3>4, <3>5, <3>7
        <4>4. pc' = "member" /\ verdict' = "" /\ object'.streamed
          BY <1>1, <3>1, <3>3, <3>7
        <4> QED
          BY <1>4, <3>2, <4>1, <4>2, <4>3, <4>4, ToStreamed
      <3> QED
        BY <3>6, <3>7
    <2> QED
      BY <2>4, <2>5, <2>6
  <1> QED
    BY <1>7, <1>8

(* once the members are over,                                               *)
LEMMA EndObjectHolds ==
  ASSUME ReaderInv, EndObject
  PROVE  ReaderInv'
  <1> DEFINE o == object.value
  <1>1. /\ Holding /\ Counted /\ verdict = "" /\ pc = "member" /\ object.keys = <<>>
        /\ UNCHANGED <<input, records, values, elements, count, object, disk>>
    <2>1. InMembers /\ pc = "member"
      BY DEF InMembers, EndObject
    <2> QED
      BY <2>1, NowHolding DEF EndObject, readerVars
  <1>2. Holding'
    BY <1>1, HoldingStays
  <1>3. /\ o.kind = "object" /\ IsObject(o)
        /\ object.allowed \in BOOLEAN /\ object.streamed \in BOOLEAN
    BY <1>1 DEF Holding, ObjectFields, AtObject
  <1>4. /\ Members(o, object.keys, object.seen)
        /\ IsBounds(bounds) /\ bounds.longitudes \in Seq(Int) /\ disk \in FileType
    BY <1>1 DEF Counted
  <1>5. Unrepeated(o) /\ \A k : Named(o, k) <=> k \in object.seen
    BY <1>1, <1>4, MembersSeen
  <1>6. ~object.streamed =>
          /\ Gathered(BoxRead, {}, bounds, disk) /\ Summarises(bounds.summary, {})
          /\ "features" \in object.seen /\ o.features.list =>
               \A i \in DOMAIN TheItems : TheItems[i].broken # "duplicate"
    BY <1>1 DEF ReaderInv, DeferredRead
  <1>7. object.streamed =>
          /\ Collecting /\ AllRead(TheItems, bounds)
          /\ Gathered(BoxRead, PositionsOf(TheItems, Len(TheItems)), bounds, disk)
    BY <1>1 DEF ReaderInv, CollectionRead
  <1>8. CASE "type" \notin object.seen \/ (~IsCollection /\ o.type # "Feature")
    <2>1. ~SoundObject(o, object.allowed)
      BY <1>5, <1>8 DEF SoundObject, IsCollection
    <2>2. pc' = "close" /\ verdict' = "unsupported"
      BY <1>8 DEF EndObject, Leave
    <2> QED
      BY <1>1, <1>2, <2>1, <2>2, ToClose
  <1>9. CASE "type" \in object.seen /\ IsCollection /\ object.streamed
    <2>1. pc' = "finish" /\ UNCHANGED <<verdict, bounds>>
      BY <1>9, Zenon DEF EndObject
    <2>2. Counted' /\ Collecting' /\ AllRead(TheItems, bounds)'
      BY <1>1, <1>7, <1>9, <2>1 DEF Counted, Collecting, IsCollection, TheItems
    <2>3. Gathered(BoxRead, PositionsOf(TheItems, Len(TheItems)), bounds, disk)'
      BY <1>1, <1>7, <1>9, <2>1 DEF BoxRead, TheItems
    <2>4. Finishing'
      BY <1>1, <2>1 DEF Finishing
    <2> QED
      BY <1>1, <1>2, <2>1, <2>2, <2>3, <2>4, ToFinishing
  <1>10. CASE "type" \in object.seen /\ IsCollection /\ ~object.streamed
    <2>1. CASE object.allowed /\ "features" \in object.seen
      <3>1. EnterFeatures
        BY <1>10, <2>1, Zenon DEF EndObject
      <3>2. BoxRead' = BoxRead
        BY <1>1 DEF BoxRead
      <3>3. Members(object.value, object.keys, object.seen)'
        BY <1>1, <1>4
      <3> QED
        BY <1>1, <1>2, <1>4, <1>6, <1>10, <2>1, <3>1, <3>2, <3>3, EnterHolds
    <2>2. CASE ~(object.allowed /\ "features" \in object.seen)
      <3>1. pc' = "close" /\ verdict' = "bad collection"
        BY <1>10, <2>2, Zenon DEF EndObject, Leave
      <3>2. ~SoundObject(o, object.allowed)
        BY <1>5, <1>10, <2>2 DEF SoundObject, IsCollection
      <3> QED
        BY <1>1, <1>2, <3>1, <3>2, ToClose
    <2> QED
      BY <2>1, <2>2
  <1>11. CASE "type" \in object.seen /\ ~IsCollection /\ o.type = "Feature"
    <2>1. VisitObject
      BY <1>11, Zenon DEF EndObject
    <2>2. pc' = "close" /\ verdict' \in {"ok", "refused"}
      BY <2>1 DEF VisitObject, Leave
    <2>3. ~object.streamed
      BY <1>7, <1>11 DEF Collecting
    <2>4. SoundObject(o, object.allowed)
      BY <1>3, <1>5, <1>6, <1>11, <2>3 DEF SoundObject, TheItems
    <2>5. "refused" \in Failures
      BY DEF Failures
    <2> QED
      BY <1>1, <1>2, <2>2, <2>4, <2>5, ToClose
  <1> QED
    BY <1>3, <1>8, <1>9, <1>10, <1>11

-----------------------------------------------------------------------------
(* The features of a collection.                                            *)

(* One feature that is not sound spoils the collection.                     *)
LEMMA FeatureSpoils ==
  ASSUME Collecting, NEW i \in DOMAIN TheItems, ~SoundFeature(TheItems[i])
  PROVE  ~SoundObject(object.value, object.allowed)
  <1>1. ~SoundCollection(object.value)
    BY DEF SoundCollection, TheItems
  <1> QED
    BY <1>1, NotACollection DEF Collecting, IsCollection

(* The feature in hand is the next of the collection.                       *)
LEMMA NextFeature ==
  ASSUME Holding, Streaming(TheItems, features, bounds), features # <<>>
  PROVE  /\ Gone(features, TheItems) + 1 \in DOMAIN TheItems /\ Gone(features, TheItems) \in Nat
         /\ Head(features) = TheItems[Gone(features, TheItems) + 1]
         /\ IsFeature(Head(features))
         /\ IsRest(Tail(features), TheItems)
         /\ Gone(Tail(features), TheItems) = Gone(features, TheItems) + 1
         /\ ArePositions(PositionsOf(TheItems, Len(TheItems)))
         /\ PositionsOf(TheItems, Gone(features, TheItems))
              \union ToSet(Head(features).positions)
              = PositionsOf(TheItems, Gone(features, TheItems) + 1)
         /\ PositionsOf(TheItems, Gone(features, TheItems) + 1)
              \subseteq PositionsOf(TheItems, Len(TheItems))
  <1> DEFINE items == TheItems
  <1>1. object.value.kind = "object" /\ IsObject(object.value)
    BY DEF Holding, AtObject
  <1>2. IsRest(features, items)
    BY DEF Streaming
  <1>3. /\ DOMAIN items = 1..Len(items) /\ Len(items) \in Nat
        /\ \A i \in DOMAIN items : IsFeature(items[i])
        /\ ArePositions(PositionsOf(items, Len(items)))
    BY <1>1, CollectionFacts DEF TheItems
  <1> HIDE DEF items
  <1>4. /\ IsRest(Tail(features), items) /\ Gone(Tail(features), items) = Gone(features, items) + 1
        /\ Gone(features, items) + 1 \in 1..Len(items)
        /\ Head(features) = items[Gone(features, items) + 1]
    BY <1>2, RestTail
  <1>5. Gone(features, items) \in Nat
    BY <1>2, RestBounds
  <1>6. PositionsOf(items, Gone(features, items) + 1)
          = PositionsOf(items, Gone(features, items)) \union ToSet(Head(features).positions)
    BY <1>4, <1>5, MorePositions
  <1>7. PositionsOf(items, Gone(features, items) + 1) \subseteq PositionsOf(items, Len(items))
    <2>1. \A m, n \in Nat : m <= n => PositionsOf(items, m) \subseteq PositionsOf(items, n)
      BY DEF PositionsOf
    <2> QED
      BY <2>1, <1>3, <1>4
  <1> QED
    BY <1>3, <1>4, <1>5, <1>6, <1>7 DEF items

(* once a feature is begun,                                                 *)
LEMMA EnterFeatureHolds ==
  ASSUME ReaderInv, EnterFeature
  PROVE  ReaderInv'
  <1>1. /\ Holding /\ Counted /\ verdict = "" /\ pc = "feature" /\ features # <<>>
        /\ UNCHANGED <<input, records, values, elements, count, object, features, bounds, disk>>
    <2>1. InMembers /\ pc = "feature"
      BY DEF InMembers, EnterFeature
    <2> QED
      BY <2>1, NowHolding DEF EnterFeature, readerVars
  <1>2. Holding' /\ Counted'
    BY <1>1, HoldingStays DEF Counted
  <1>3. /\ Collecting /\ Streaming(TheItems, features, bounds)
        /\ object.streamed \/ object.keys = <<>>
        /\ Gathered(BoxRead, PositionsOf(TheItems, Gone(features, TheItems)), bounds, disk)
    BY <1>1 DEF ReaderInv, FeaturesRead
  <1>4. /\ Gone(features, TheItems) + 1 \in DOMAIN TheItems
        /\ Head(features) = TheItems[Gone(features, TheItems) + 1]
        /\ IsFeature(Head(features))
    BY <1>1, <1>3, NextFeature
  <1>5. CASE Malformed(Head(features))
    <2>1. pc' = "close" /\ verdict' = "bad feature"
      BY <1>5 DEF EnterFeature, Leave
    <2>2. ~SoundObject(object.value, object.allowed)
      BY <1>3, <1>4, <1>5, MalformedNotSound, FeatureSpoils
    <2> QED
      BY <1>1, <1>2, <2>1, <2>2, ToClose
  <1>6. CASE ~Malformed(Head(features))
    <2> DEFINE f == Head(features)
    <2>1. pc' = "position" /\ positions' = f.positions /\ verdict' = "" /\ geometry' = Nothing
      BY <1>1, <1>6 DEF EnterFeature
    <2>2. IsSeq(f.positions)
      BY <1>4, FeaturePositions
    <2>3. IsRest(f.positions, f.positions) /\ Gone(f.positions, f.positions) = 0
      BY <2>2, RestWhole
    <2>4. PartOf(f, f.positions) = {}
      BY <2>3, NoIndex DEF PartOf
    <2>5. Looking(f, f.positions, Nothing)
      BY <1>6, <2>3, <2>4, NothingSummarises DEF Looking
    <2>6. Looking(Head(features), positions, geometry)'
      BY <1>1, <2>1, <2>5
    <2>7. Collecting' /\ Streaming(TheItems, features, bounds)'
      BY <1>1, <1>3 DEF Collecting, IsCollection, TheItems
    <2>8. PositionsOf(TheItems, Gone(features, TheItems)) \union PartOf(f, f.positions)
            = PositionsOf(TheItems, Gone(features, TheItems))
      BY <2>4
    <2>9. Gathered(BoxRead, PositionsOf(TheItems, Gone(features, TheItems))
                            \union PartOf(Head(features), positions), bounds, disk)'
      BY <1>1, <1>3, <2>1, <2>8 DEF BoxRead, TheItems
    <2> QED
      BY <1>1, <1>2, <1>3, <2>1, <2>6, <2>7, <2>9, ToPosition
  <1> QED
    BY <1>5, <1>6

(* One position more, whose longitude is known not to be in the gap.        *)
LEMMA GatheredMore ==
  ASSUME NEW box, NEW ps, NEW b, NEW d, Gathered(box, ps, b, d), NEW p,
         b.bbox.dim # 0, ~InGap(b.bbox, p.lon)
  PROVE  Gathered(box, ps \union {p}, b, d)
  BY DEF Gathered

(* One whose longitude is kept.                                             *)
LEMMA GatheredKept ==
  ASSUME NEW box, NEW ps, NEW b, NEW d, Gathered(box, ps, b, d), NEW p,
         NEW c, NEW e, c.longitudes \in Seq(Int), e \in FileType, ~e.there => e.data = <<>>,
         c.bbox = b.bbox, Hoard(c, e) = Hoard(b, d) \union {p.lon}
  PROVE  Gathered(box, ps \union {p}, c, e)
  BY DEF Gathered

(* A temporary file put together from its fields.                           *)
LEMMA FileFields ==
  ASSUME NEW t \in BOOLEAN, NEW a \in Seq(Int), NEW n \in Nat
  PROVE  LET d == [there |-> t, data |-> a, offset |-> n] IN
         d \in FileType /\ (d.there <=> t) /\ d.data = a /\ d.offset = n
  BY Zenon DEF FileType

(* A temporary file with another offset.                                    *)
LEMMA FileNext ==
  ASSUME NEW d \in FileType, NEW n \in Nat, NEW e, e = [d EXCEPT !.offset = n]
  PROVE  e \in FileType /\ e.there = d.there /\ e.data = d.data /\ e.offset = n
  BY Zenon DEF FileType

(* What the fields of a temporary file are.                                 *)
LEMMA FileParts ==
  ASSUME NEW d \in FileType
  PROVE  d.there \in BOOLEAN /\ d.data \in Seq(Int) /\ d.offset \in Nat
  BY Zenon DEF FileType

(* addLongitude, with what is kept and what is known.                       *)
LEMMA AddLongitudeGathers ==
  ASSUME NEW box, NEW ps, Gathered(box, ps, bounds, disk), IsBounds(bounds), NEW p,
         p.lon \in Int, AddLongitude(p.lon)
  PROVE  \/ pc' = "close" /\ verdict' = "outside bbox" /\ InGap(box, p.lon)
         \/ pc' = "close" /\ verdict' \in {"no temporary file", "write failed"}
         \/ /\ UNCHANGED <<pc, verdict>> /\ IsBounds(bounds') /\ bounds'.summary = bounds.summary
            /\ Gathered(box, ps \union {p}, bounds', disk')
  <1>1. CASE bounds.bbox.dim # 0
    <2>1. bounds.bbox = box /\ UNCHANGED <<bounds, disk>>
      BY <1>1 DEF Gathered, AddLongitude
    <2>2. CASE InGap(box, p.lon)
      BY <1>1, <2>1, <2>2 DEF AddLongitude, Leave
    <2>3. CASE ~InGap(box, p.lon)
      <3>1. Gathered(box, ps \union {p}, bounds, disk)
        BY <1>1, <2>1, <2>3, GatheredMore
      <3> QED
        BY <1>1, <2>1, <2>3, <3>1 DEF AddLongitude
    <2> QED
      BY <2>2, <2>3
  <1>2. CASE bounds.bbox.dim = 0
    <2> DEFINE k == Keep(p.lon)
    <2>1. /\ k.bbox = bounds.bbox /\ k.summary = bounds.summary
          /\ k.longitudes = Append(bounds.longitudes, p.lon) /\ IsBounds(k)
      <3> DEFINE l == Append(bounds.longitudes, p.lon)
      <3>1. IsBounds(bounds) /\ k = [bounds EXCEPT !.longitudes = l]
        BY DEF Keep
      <3> HIDE DEF k, l
      <3>2. /\ k.bbox = bounds.bbox /\ k.summary = bounds.summary
            /\ k.longitudes = l /\ IsBounds(k)
        BY ONLY <3>1, LongitudesNext, SMT
      <3> QED
        BY <3>2 DEF l
    <2> HIDE DEF k
    <2>2. bounds.longitudes \in Seq(Int) /\ disk \in FileType /\ (~disk.there => disk.data = <<>>)
      BY DEF Gathered
    <2>3. /\ k.longitudes \in Seq(Int)
          /\ ToSet(k.longitudes) = ToSet(bounds.longitudes) \union {p.lon}
      BY <2>1, <2>2, AppendSet
    <2>4. CASE bounds' = k /\ UNCHANGED <<pc, verdict, disk>>
      <3>1. Hoard(k, disk) = Hoard(bounds, disk) \union {p.lon}
        BY <2>3 DEF Hoard
      <3>2. Gathered(box, ps \union {p}, k, disk)
        BY <2>1, <2>2, <2>3, <3>1, GatheredKept
      <3> QED
        BY <2>1, <2>4, <3>2
    <2>5. CASE Spill(k)
      <3>1. CASE Leave("no temporary file") \/ Leave("write failed")
        BY <3>1 DEF Leave
      <3>2. CASE /\ disk' = [there |-> TRUE, data |-> disk.data \o k.longitudes,
                             offset |-> Len(disk.data \o k.longitudes)]
                 /\ bounds' = [k EXCEPT !.longitudes = <<>>] /\ UNCHANGED <<pc, verdict>>
        <4> DEFINE a == disk.data \o k.longitudes
        <4>1. disk.data \in Seq(Int)
          BY <2>2, FileParts
        <4>2. /\ a \in Seq(Int) /\ ToSet(a) = ToSet(disk.data) \union ToSet(k.longitudes)
          BY <2>3, <4>1, ConcatSet
        <4>3. disk' = [there |-> TRUE, data |-> a, offset |-> Len(a)]
          BY <3>2
        <4> HIDE DEF a
        <4>4. Len(a) \in Nat
          BY <4>2
        <4>5. disk' \in FileType /\ disk'.there /\ disk'.data = a
          BY <4>2, <4>3, <4>4, FileFields, Zenon
        <4>6. /\ bounds'.bbox = k.bbox /\ bounds'.summary = k.summary
              /\ bounds'.longitudes = <<>> /\ IsBounds(bounds')
          <5>1. IsBounds(k) /\ bounds' = [k EXCEPT !.longitudes = <<>>]
            BY <2>1, <3>2
          <5> QED
            BY ONLY <5>1, LongitudesNext, SMT
        <4>7. Hoard(bounds', disk') = Hoard(bounds, disk) \union {p.lon}
          <5>1. ToSet(<<>>) = {}
            BY DEF ToSet
          <5> QED
            BY <2>3, <4>2, <4>5, <4>6, <5>1 DEF Hoard
        <4>8. bounds'.longitudes \in Seq(Int)
          BY <4>6
        <4>9. Gathered(box, ps \union {p}, bounds', disk')
          BY <2>1, <4>5, <4>6, <4>7, <4>8, GatheredKept
        <4> QED
          BY <2>1, <3>2, <4>6, <4>9
      <3> QED
        BY <2>5, <3>1, <3>2 DEF Spill
    <2> QED
      BY <1>2, <2>4, <2>5 DEF AddLongitude, k
  <1>3. bounds.bbox.dim = 0 \/ bounds.bbox.dim # 0
    OBVIOUS
  <1> QED
    BY <1>1, <1>2, <1>3

(* The position in hand is the next of the feature.                         *)
LEMMA NextPosition ==
  ASSUME NEW f, IsFeature(f), NEW ps, IsRest(ps, f.positions), ps # <<>>
  PROVE  /\ IsRest(Tail(ps), f.positions) /\ Head(ps) \in ToSet(f.positions)
         /\ IsPosition(Head(ps)) /\ ArePositions(PartOf(f, ps))
         /\ PartOf(f, Tail(ps)) = PartOf(f, ps) \union {Head(ps)}
  <1> DEFINE g == Gone(ps, f.positions)
  <1>1. /\ IsRest(Tail(ps), f.positions) /\ Gone(Tail(ps), f.positions) = g + 1
        /\ g + 1 \in 1..Len(f.positions) /\ Head(ps) = f.positions[g + 1]
    BY RestTail
  <1>2. /\ g \in Nat /\ g <= Len(f.positions) /\ DOMAIN f.positions = 1..Len(f.positions)
        /\ Len(f.positions) \in Nat
    BY RestBounds
  <1>3. ArePositions(ToSet(f.positions))
    BY FeaturePositions
  <1>4. PartOf(f, ps) = {f.positions[i] : i \in 1..g}
        /\ PartOf(f, Tail(ps)) = {f.positions[i] : i \in 1..g + 1}
    BY <1>1 DEF PartOf
  <1> HIDE DEF g
  <1>5. \A i : i \in 1..g + 1 <=> i \in 1..g \/ i = g + 1
    BY <1>2
  <1>6. \A i \in 1..g : i \in DOMAIN f.positions
    BY <1>2
  <1>7. Head(ps) \in ToSet(f.positions) /\ PartOf(f, ps) \subseteq ToSet(f.positions)
    BY <1>1, <1>2, <1>4, <1>6 DEF ToSet
  <1>8. PartOf(f, Tail(ps)) = PartOf(f, ps) \union {Head(ps)}
    BY <1>1, <1>4, <1>5
  <1> QED
    BY <1>1, <1>3, <1>7, <1>8 DEF ArePositions

(* Once all positions of a feature have gone by, they are those of it.      *)
LEMMA AllOfIt ==
  ASSUME NEW f, IsFeature(f), NEW ps, IsRest(ps, f.positions), ps = <<>>
  PROVE  PartOf(f, ps) = ToSet(f.positions)
  <1>1. Gone(ps, f.positions) = Len(f.positions) /\ DOMAIN f.positions = 1..Len(f.positions)
    BY RestBounds
  <1> QED
    BY <1>1 DEF PartOf, ToSet

(* What the invariant says of the feature in hand.                          *)
LEMMA NowLooking ==
  ASSUME ReaderInv, pc = "position"
  PROVE  /\ Holding /\ Counted /\ verdict = ""
         /\ Collecting /\ Streaming(TheItems, features, bounds)
         /\ object.streamed \/ object.keys = <<>>
         /\ features # <<>> /\ Looking(Head(features), positions, geometry)
         /\ Gathered(BoxRead, PositionsOf(TheItems, Gone(features, TheItems))
                              \union PartOf(Head(features), positions), bounds, disk)
  <1>1. InMembers
    BY DEF InMembers
  <1>2. FeaturesRead
    BY DEF ReaderInv
  <1> QED
    BY <1>1, <1>2, NowHolding DEF FeaturesRead

(* The reader is in its place once a position is read,                      *)
LEMMA ReadPositionHolds ==
  ASSUME ReaderInv, ReadPosition
  PROVE  ReaderInv'
  <1> DEFINE f == Head(features)
             p == Head(positions)
             o == object.value
             gone == PositionsOf(TheItems, Gone(features, TheItems))
  <1>1. /\ pc = "position" /\ positions # <<>> /\ positions' = Tail(positions)
        /\ UNCHANGED <<input, records, values, elements, count, object, features>>
        /\ geometry' = Merge(geometry, Alone(p))
    BY DEF ReadPosition, readerVars
  <1>2. /\ Holding /\ Counted /\ verdict = ""
        /\ Collecting /\ Streaming(TheItems, features, bounds)
        /\ object.streamed \/ object.keys = <<>>
        /\ features # <<>> /\ Looking(f, positions, geometry)
        /\ Gathered(BoxRead, gone \union PartOf(f, positions), bounds, disk)
    BY <1>1, NowLooking
  <1>3. Holding'
    BY <1>1, <1>2, HoldingStays
  <1>4. /\ Gone(features, TheItems) + 1 \in DOMAIN TheItems
        /\ f = TheItems[Gone(features, TheItems) + 1] /\ IsFeature(f)
        /\ gone \union ToSet(f.positions) \subseteq PositionsOf(TheItems, Len(TheItems))
    BY <1>2, NextFeature
  <1>5. /\ ~Malformed(f) /\ IsRest(positions, f.positions)
        /\ Summarises(geometry, PartOf(f, positions))
        /\ \A q \in PartOf(f, positions) : ~InGap(f.bbox, q.lon)
    BY <1>2 DEF Looking
  <1>6. /\ IsRest(Tail(positions), f.positions) /\ p \in ToSet(f.positions)
        /\ IsPosition(p) /\ ArePositions(PartOf(f, positions))
        /\ PartOf(f, Tail(positions)) = PartOf(f, positions) \union {p}
    BY <1>1, <1>4, <1>5, NextPosition
  <1> HIDE DEF f, p, gone
  <1>7. CASE InGap(f.bbox, p.lon)
    <2>1. pc' = "close" /\ verdict' = "outside bbox"
      BY <1>7 DEF ReadPosition, Leave, f, p
    <2>2. ~SoundFeature(f)
      BY <1>4, <1>6, <1>7, InGapNotSound
    <2>3. ~SoundObject(o, object.allowed)
      BY <1>2, <1>4, <2>2, FeatureSpoils
    <2> QED
      BY <1>1, <1>3, <2>1, <2>3, ToClose
  <1>8. CASE ~InGap(f.bbox, p.lon)
    <2>1. AddLongitude(p.lon)
      BY <1>8 DEF ReadPosition, f, p
    <2>2. IsBounds(bounds) /\ p.lon \in Int
      BY <1>2, <1>6 DEF Counted, IsPosition
    <2> DEFINE ps == gone \union PartOf(f, positions)
    <2>3. ps \union {p} = gone \union PartOf(f, Tail(positions))
      BY <1>6
    <2>4. \/ pc' = "close" /\ verdict' = "outside bbox" /\ InGap(BoxRead, p.lon)
          \/ pc' = "close" /\ verdict' \in {"no temporary file", "write failed"}
          \/ /\ UNCHANGED <<pc, verdict>> /\ IsBounds(bounds') /\ bounds'.summary = bounds.summary
             /\ Gathered(BoxRead, ps \union {p}, bounds', disk')
      BY <1>2, <2>1, <2>2, AddLongitudeGathers
    <2> HIDE DEF ps
    <2>5. CASE pc' = "close" /\ verdict' = "outside bbox" /\ InGap(BoxRead, p.lon)
      <3>1. p \in PositionsOf(o.features.items, Len(o.features.items))
        BY <1>4, <1>6 DEF TheItems
      <3>2. IsObject(o) /\ o.kind = "object" /\ Members(o, object.keys, object.seen)
        BY <1>2 DEF Holding, AtObject, Counted
      <3>3. InGap(BoxSeen(o, object.seen), p.lon)
        BY <2>5, BoxReadIs
      <3>4. ~SoundCollection(o)
        BY <3>1, <3>2, <3>3, LongitudeOutside
      <3>5. ~SoundObject(o, object.allowed)
        BY <1>2, <3>4, NotACollection DEF Collecting, IsCollection
      <3> QED
        BY <1>1, <1>3, <2>5, <3>5, ToClose
    <2>6. CASE pc' = "close" /\ verdict' \in {"no temporary file", "write failed"}
      <3>1. {"no temporary file", "write failed"} \subseteq Failures
        BY DEF Failures
      <3> QED
        BY <1>3, <2>6, <3>1, ToClose
    <2>7. CASE /\ UNCHANGED <<pc, verdict>> /\ IsBounds(bounds') /\ bounds'.summary = bounds.summary
               /\ Gathered(BoxRead, ps \union {p}, bounds', disk')
      <3>1. pc' = "position" /\ verdict' = ""
        BY <1>1, <1>2, <2>7
      <3>2. Counted'
        BY <1>1, <1>2, <2>7 DEF Counted, Gathered
      <3>3. Collecting' /\ Streaming(TheItems, features, bounds)'
        BY <1>1, <1>2, <2>7 DEF Collecting, IsCollection, TheItems, Streaming
      <3>4. Summarises(Merge(geometry, Alone(p)), PartOf(f, Tail(positions)))
        <4>1. ArePositions({p})
          BY <1>6 DEF ArePositions
        <4> QED
          BY <1>5, <1>6, <4>1, AloneSummarises, MergeSummarises
      <3>5. Looking(f, Tail(positions), Merge(geometry, Alone(p)))
        BY <1>5, <1>6, <1>8, <3>4 DEF Looking
      <3>6. Looking(Head(features), positions, geometry)'
        BY <1>1, <3>5 DEF f
      <3>7. Gathered(BoxRead, gone \union PartOf(f, Tail(positions)), bounds', disk')
        BY <2>3, <2>7 DEF ps
      <3>8. Gathered(BoxRead, PositionsOf(TheItems, Gone(features, TheItems))
                              \union PartOf(Head(features), positions), bounds, disk)'
        BY <1>1, <3>7 DEF BoxRead, TheItems, gone, f
      <3>9. (object.streamed \/ object.keys = <<>>)' /\ features' # <<>>
        BY <1>1, <1>2
      <3> QED
        BY <1>3, <3>1, <3>2, <3>3, <3>6, <3>8, <3>9, ToPosition
    <2> QED
      BY <2>4, <2>5, <2>6, <2>7
  <1> QED
    BY <1>7, <1>8

(* once the positions of a feature are over,                                *)
LEMMA EndFeatureHolds ==
  ASSUME ReaderInv, EndFeature
  PROVE  ReaderInv'
  <1> DEFINE f == Head(features)
             n == Gone(features, TheItems)
  <1>1. /\ pc = "position" /\ positions = <<>>
        /\ UNCHANGED <<input, records, values, elements, count, object, disk>>
    BY DEF EndFeature, readerVars
  <1>2. /\ Holding /\ Counted /\ verdict = ""
        /\ Collecting /\ Streaming(TheItems, features, bounds)
        /\ object.streamed \/ object.keys = <<>>
        /\ features # <<>> /\ Looking(f, positions, geometry)
        /\ Gathered(BoxRead, PositionsOf(TheItems, n) \union PartOf(f, positions), bounds, disk)
    BY <1>1, NowLooking
  <1>3. Holding'
    BY <1>1, <1>2, HoldingStays
  <1>4. /\ n + 1 \in DOMAIN TheItems /\ n \in Nat /\ f = TheItems[n + 1] /\ IsFeature(f)
        /\ IsRest(Tail(features), TheItems) /\ Gone(Tail(features), TheItems) = n + 1
        /\ PositionsOf(TheItems, n) \union ToSet(f.positions) = PositionsOf(TheItems, n + 1)
        /\ PositionsOf(TheItems, n + 1) \subseteq PositionsOf(TheItems, Len(TheItems))
        /\ ArePositions(PositionsOf(TheItems, Len(TheItems)))
    BY <1>2, NextFeature
  <1>5. /\ ~Malformed(f) /\ IsRest(positions, f.positions)
        /\ Summarises(geometry, PartOf(f, positions))
        /\ \A q \in PartOf(f, positions) : ~InGap(f.bbox, q.lon)
    BY <1>2 DEF Looking
  <1>6. PartOf(f, positions) = ToSet(f.positions)
    BY <1>1, <1>4, <1>5, AllOfIt
  <1> HIDE DEF f, n
  <1>7. CASE Unsound(f)
    <2>1. ~SoundObject(object.value, object.allowed)
      BY <1>2, <1>4, <1>5, <1>6, <1>7, UnsoundNotSound, FeatureSpoils
    <2>2. pc' = "close" /\ verdict' = "bad feature"
      BY <1>7 DEF EndFeature, Leave, f
    <2> QED
      BY <1>1, <1>3, <2>1, <2>2, ToClose
  <1>8. CASE ~Unsound(f)
    <2>1. /\ bounds' = [bounds EXCEPT !.summary = Merge(bounds.summary, geometry)]
          /\ \/ features' = Tail(features) /\ pc' = "feature" /\ UNCHANGED verdict
             \/ pc' = "close" /\ verdict' = "refused"
      BY <1>8 DEF EndFeature, Leave, f
    <2>2. CASE pc' = "close" /\ verdict' = "refused"
      <3>1. "refused" \in Failures
        BY DEF Failures
      <3> QED
        BY <1>3, <2>2, <3>1, ToClose
    <2>3. CASE features' = Tail(features) /\ pc' = "feature" /\ UNCHANGED verdict
      <3> DEFINE m == Merge(bounds.summary, geometry)
      <3>1. /\ bounds'.bbox = bounds.bbox /\ bounds'.summary = m
            /\ bounds'.longitudes = bounds.longitudes /\ IsBounds(bounds')
        <4>1. IsBounds(bounds) /\ bounds' = [bounds EXCEPT !.summary = m]
          BY <1>2, <2>1 DEF Counted
        <4> HIDE DEF m
        <4> QED
          BY ONLY <4>1, SummaryNext, SMT
      <3>2. SoundFeature(f)
        BY <1>4, <1>5, <1>6, <1>8, OthersSound
      <3>3. Summarises(m, PositionsOf(TheItems, n + 1))
        <4>1. Summarises(bounds.summary, PositionsOf(TheItems, n))
          BY <1>2 DEF Streaming, n
        <4>2. ArePositions(PositionsOf(TheItems, n)) /\ ArePositions(ToSet(f.positions))
          BY <1>4 DEF ArePositions
        <4> QED
          BY <1>4, <1>5, <1>6, <4>1, <4>2, MergeSummarises
      <3> HIDE DEF m
      <3>4. \A i \in 1..n + 1 : SoundFeature(TheItems[i])
        <4>1. \A i \in 1..n : SoundFeature(TheItems[i])
          BY <1>2 DEF Streaming, n
        <4>2. \A i \in 1..n + 1 : i \in 1..n \/ i = n + 1
          BY <1>4
        <4> QED
          BY <1>4, <3>2, <4>1, <4>2
      <3>5. Streaming(TheItems, Tail(features), bounds')
        BY <1>4, <3>1, <3>3, <3>4 DEF Streaming
      <3>6. Streaming(TheItems, features, bounds)' /\ Collecting'
        BY <1>1, <1>2, <2>3, <3>5 DEF TheItems, Collecting, IsCollection
      <3>7. Counted'
        BY <1>1, <1>2, <3>1 DEF Counted
      <3>8. Gathered(BoxRead, PositionsOf(TheItems, Gone(Tail(features), TheItems)), bounds', disk)
        <4>1. Gathered(BoxRead, PositionsOf(TheItems, n + 1), bounds, disk)
          BY <1>2, <1>4, <1>6
        <4>2. Hoard(bounds', disk) = Hoard(bounds, disk)
          BY <3>1 DEF Hoard
        <4> QED
          BY <1>4, <3>1, <4>1, <4>2 DEF Gathered
      <3>9. Gathered(BoxRead, PositionsOf(TheItems, Gone(features, TheItems)), bounds, disk)'
        BY <1>1, <2>3, <3>8 DEF BoxRead, TheItems
      <3> QED
        BY <1>1, <1>2, <1>3, <2>3, <3>6, <3>7, <3>9, ToFeature
    <2> QED
      BY <2>1, <2>2, <2>3
  <1> QED
    BY <1>7, <1>8

(* and once the features are.                                               *)
LEMMA EndFeaturesHolds ==
  ASSUME ReaderInv, EndFeatures
  PROVE  ReaderInv'
  <1>1. /\ pc = "feature" /\ features = <<>> /\ pc' = IF object.streamed THEN "member" ELSE "finish"
        /\ UNCHANGED <<input, records, values, elements, count, object, features, bounds, disk, verdict>>
    BY DEF EndFeatures, readerVars, objectVars
  <1>2. Holding /\ Counted /\ verdict = ""
    <2>1. InMembers
      BY <1>1 DEF InMembers
    <2> QED
      BY <2>1, NowHolding
  <1>3. Holding' /\ Counted'
    BY <1>1, <1>2, HoldingStays DEF Counted
  <1>4. /\ Collecting /\ Streaming(TheItems, features, bounds)
        /\ object.streamed \/ object.keys = <<>>
        /\ Gathered(BoxRead, PositionsOf(TheItems, Gone(features, TheItems)), bounds, disk)
    BY <1>1 DEF ReaderInv, FeaturesRead
  <1>5. Gone(features, TheItems) = Len(TheItems) /\ DOMAIN TheItems = 1..Len(TheItems)
    BY <1>1, <1>4, RestBounds DEF Streaming
  <1>6. AllRead(TheItems, bounds)
    BY <1>4, <1>5 DEF Streaming, AllRead
  <1>7. Collecting' /\ AllRead(TheItems, bounds)'
    BY <1>1, <1>4, <1>6 DEF Collecting, IsCollection, TheItems
  <1>8. Gathered(BoxRead, PositionsOf(TheItems, Len(TheItems)), bounds, disk)'
    BY <1>1, <1>4, <1>5 DEF BoxRead, TheItems
  <1>9. CASE object.streamed
    BY <1>1, <1>2, <1>3, <1>7, <1>8, <1>9, ToStreamed
  <1>10. CASE ~object.streamed
    <2>1. pc' = "finish" /\ object'.keys = <<>>
      BY <1>1, <1>4, <1>10
    <2>2. Finishing'
      BY <2>1 DEF Finishing
    <2> QED
      BY <1>1, <1>2, <1>3, <1>7, <1>8, <2>1, <2>2, ToFinishing
  <1> QED
    BY <1>9, <1>10

-----------------------------------------------------------------------------
(* The bbox of the collection, and the way out of the object.               *)

(* In the check of the box the whole collection has been read.              *)
LEMMA NowFinishing ==
  ASSUME ReaderInv, pc \in {"finish", "rewind", "reread"}
  PROVE  /\ Holding /\ Counted /\ verdict = "" /\ Finishing /\ object.keys = <<>>
         /\ Collecting /\ AllRead(TheItems, bounds)
         /\ Gathered(BoxRead, PositionsOf(TheItems, Len(TheItems)), bounds, disk)
  <1>1. InMembers
    BY DEF InMembers
  <1>2. CollectionRead /\ Finishing
    BY DEF ReaderInv
  <1> QED
    BY <1>1, <1>2, NowHolding DEF CollectionRead, Finishing

(* What the summary and the longitudes say of the collection.               *)
LEMMA JudgedByBox ==
  ASSUME Holding, Counted, Collecting, AllRead(TheItems, bounds), object.keys = <<>>,
         Gathered(BoxRead, PositionsOf(TheItems, Len(TheItems)), bounds, disk)
  PROVE  /\ ~ValidBox(BoxRead) => ~SoundObject(object.value, object.allowed)
         /\ bounds.summary.dim # 0 /\ ~Encloses(BoxRead, bounds.summary) =>
              ~SoundObject(object.value, object.allowed)
         /\ (\E l \in Hoard(bounds, disk) : InGap(BoxRead, l)) =>
              ~SoundObject(object.value, object.allowed)
         /\ /\ ValidBox(BoxRead)
            /\ bounds.summary.dim # 0 =>
                 /\ Encloses(BoxRead, bounds.summary)
                 /\ \A l \in Hoard(bounds, disk) : ~InGap(BoxRead, l)
            => SoundObject(object.value, object.allowed)
  <1> DEFINE o == object.value
             seen == object.seen
             ps == PositionsOf(o.features.items, Len(o.features.items))
             s == bounds.summary
             b == BoxSeen(o, seen)
  <1>1. IsObject(o) /\ o.kind = "object" /\ Members(o, <<>>, seen)
    BY DEF Holding, AtObject, Counted
  <1>2. /\ o.type = "FeatureCollection" /\ object.allowed = TRUE /\ o.features.list
        /\ "type" \in seen /\ "features" \in seen
    <2>1. object.allowed \in BOOLEAN /\ object.allowed
      BY DEF Holding, ObjectFields, Collecting
    <2> QED
      BY <2>1 DEF Collecting, IsCollection
  <1>3. /\ \A i \in DOMAIN o.features.items : SoundFeature(o.features.items[i])
        /\ Summarises(s, ps)
    BY DEF AllRead, TheItems
  <1>4. Gathered(b, ps, bounds, disk) /\ BoxRead = b
    BY BoxReadIs DEF TheItems
  <1> HIDE DEF ps, s, b, o, seen
  <1>5. ~SoundCollection(o) => ~SoundObject(o, object.allowed)
    BY <1>2, NotACollection
  <1>6. ASSUME ~ValidBox(b)  PROVE ~SoundCollection(o)
    BY <1>1, <1>6, BoxNotValid DEF b
  <1>7. ASSUME s.dim # 0, ~Encloses(b, s)  PROVE ~SoundCollection(o)
    BY <1>1, <1>3, <1>7, SummaryOutside DEF b, ps
  <1>8. ASSUME NEW l \in Hoard(bounds, disk), InGap(b, l)  PROVE ~SoundCollection(o)
    <2>1. PICK p \in ps : p.lon = l
      BY <1>4 DEF Gathered
    <2> QED
      BY <1>1, <1>8, <2>1, LongitudeOutside DEF b, ps
  <1>9. ASSUME ValidBox(b),
               s.dim # 0 => Encloses(b, s) /\ \A l \in Hoard(bounds, disk) : ~InGap(b, l)
        PROVE  SoundObject(o, TRUE)
    <2>1. ASSUME s.dim # 0, NEW p \in ps  PROVE ~InGap(b, p.lon)
      BY <1>4, <1>9, <2>1 DEF Gathered
    <2> QED
      BY <1>1, <1>2, <1>3, <1>9, <2>1, CollectionSound DEF b, ps
  <1> QED
    BY <1>2, <1>4, <1>5, <1>6, <1>7, <1>8, <1>9 DEF o, s

(* The longitudes retained are those in memory and those in the file.       *)
LEMMA RetainedIs == Retained = ToSet(bounds.longitudes)
  BY DEF Retained, ToSet

(* The reader is in its place once what it holds in memory is checked,      *)
LEMMA FinishHolds ==
  ASSUME ReaderInv, Finish
  PROVE  ReaderInv'
  <1>1. /\ pc = "finish" /\ UNCHANGED <<input, records, values, elements, count, object, disk>>
    BY DEF Finish, readerVars, objectVars
  <1>2. /\ Holding /\ Counted /\ verdict = "" /\ object.keys = <<>>
        /\ Collecting /\ AllRead(TheItems, bounds)
        /\ Gathered(BoxRead, PositionsOf(TheItems, Len(TheItems)), bounds, disk)
    BY <1>1, NowFinishing
  <1>3. Holding'
    BY <1>1, <1>2, HoldingStays
  <1>4. /\ ~ValidBox(BoxRead) => ~SoundObject(object.value, object.allowed)
        /\ bounds.summary.dim # 0 /\ ~Encloses(BoxRead, bounds.summary) =>
             ~SoundObject(object.value, object.allowed)
        /\ (\E l \in Hoard(bounds, disk) : InGap(BoxRead, l)) =>
             ~SoundObject(object.value, object.allowed)
        /\ /\ ValidBox(BoxRead)
           /\ bounds.summary.dim # 0 =>
                /\ Encloses(BoxRead, bounds.summary)
                /\ \A l \in Hoard(bounds, disk) : ~InGap(BoxRead, l)
           => SoundObject(object.value, object.allowed)
    BY <1>2, JudgedByBox
  <1>5. Retained \subseteq Hoard(bounds, disk)
    BY RetainedIs DEF Hoard
  <1>6. CASE ~ValidBox(BoxRead)
    <2>1. pc' = "close" /\ verdict' = "bad bbox"
      BY <1>6 DEF Finish, Leave
    <2> QED
      BY <1>1, <1>3, <1>4, <1>6, <2>1, ToClose
  <1>7. CASE /\ ValidBox(BoxRead) /\ bounds.summary.dim # 0
             /\ \/ ~Encloses(BoxRead, bounds.summary)
                \/ \E l \in Retained : InGap(BoxRead, l)
    <2>1. pc' = "close" /\ verdict' = "outside bbox"
      BY <1>7 DEF Finish, Leave
    <2>2. ~SoundObject(object.value, object.allowed)
      BY <1>4, <1>5, <1>7
    <2> QED
      BY <1>1, <1>3, <2>1, <2>2, ToClose
  <1>8. CASE /\ ValidBox(BoxRead)
             /\ bounds.summary.dim # 0 => /\ Encloses(BoxRead, bounds.summary)
                                          /\ \A l \in Retained : ~InGap(BoxRead, l)
    <2>1. bounds' = [bounds EXCEPT !.bbox = BoxRead]
      BY <1>8 DEF Finish
    <2>2. /\ bounds'.bbox = BoxRead /\ bounds'.summary = bounds.summary
          /\ bounds'.longitudes = bounds.longitudes /\ IsBounds(bounds')
      <3>1. IsBounds(bounds) /\ bounds' = [bounds EXCEPT !.bbox = BoxRead]
        BY <1>2, <2>1 DEF Counted
      <3> QED
        BY ONLY <3>1, BoxNext, SMT
    <2>3. CASE bounds.summary.dim # 0 /\ Wraps(BoxRead) /\ disk.there
      <3>1. pc' = "rewind" /\ verdict' = ""
        BY <1>2, <1>8, <2>3 DEF Finish
      <3>2. Counted'
        BY <1>1, <1>2, <2>2 DEF Counted
      <3>3. Collecting' /\ AllRead(TheItems, bounds)'
        BY <1>1, <1>2, <2>2 DEF Collecting, IsCollection, TheItems, AllRead
      <3>4. Gathered(BoxRead, PositionsOf(TheItems, Len(TheItems)), bounds', disk)
        <4>1. Hoard(bounds', disk) = Hoard(bounds, disk)
          BY <2>2 DEF Hoard
        <4> QED
          BY <1>2, <2>2, <4>1 DEF Gathered
      <3>5. Gathered(BoxRead, PositionsOf(TheItems, Len(TheItems)), bounds, disk)'
        BY <1>1, <3>4 DEF BoxRead, TheItems
      <3>6. Finishing'
        <4>1. Retained' = Retained /\ BoxRead' = BoxRead
          BY <1>1, <2>2 DEF Retained, BoxRead
        <4> QED
          BY <1>1, <1>2, <1>8, <2>2, <2>3, <3>1, <4>1 DEF Finishing
      <3> QED
        BY <1>3, <3>1, <3>2, <3>3, <3>5, <3>6, ToFinishing
    <2>4. CASE ~(bounds.summary.dim # 0 /\ Wraps(BoxRead) /\ disk.there)
      <3>1. pc' = "close" /\ verdict' = "ok"
        BY <1>8, <2>4 DEF Finish, Leave
      <3>2. ASSUME bounds.summary.dim # 0, NEW l \in Hoard(bounds, disk)
            PROVE  ~InGap(BoxRead, l)
        <4>1. CASE Wraps(BoxRead)
          <5>1. disk.data = <<>>
            BY <1>2, <2>4, <3>2, <4>1 DEF Gathered
          <5>2. ToSet(disk.data) = {}
            BY <5>1 DEF ToSet
          <5>3. l \in Retained
            BY <5>2, RetainedIs, <3>2 DEF Hoard
          <5> QED
            BY <1>8, <3>2, <5>3
        <4>2. CASE ~Wraps(BoxRead)
          BY <4>2 DEF InGap
        <4> QED
          BY <4>1, <4>2
      <3>3. SoundObject(object.value, object.allowed)
        BY <1>4, <1>8, <3>2
      <3> QED
        BY <1>1, <1>3, <3>1, <3>3, ToClose
    <2> QED
      BY <2>3, <2>4
  <1> QED
    BY <1>6, <1>7, <1>8

(* While the file is read again nothing but its offset changes.             *)
LEMMA ReadingAgain ==
  ASSUME ReaderInv, pc \in {"rewind", "reread"}, pc' = "reread", verdict' = verdict,
         UNCHANGED <<input, records, values, elements, count, object, bounds>>,
         NEW n \in Nat, disk' = [disk EXCEPT !.offset = n], n <= Len(disk.data),
         \A i \in 1..n : ~InGap(BoxRead, disk.data[i])
  PROVE  ReaderInv'
  <1>1. /\ Holding /\ Counted /\ verdict = "" /\ object.keys = <<>> /\ Finishing
        /\ Collecting /\ AllRead(TheItems, bounds)
        /\ Gathered(BoxRead, PositionsOf(TheItems, Len(TheItems)), bounds, disk)
    BY NowFinishing
  <1>2. Holding'
    BY <1>1, HoldingStays
  <1>3. disk' \in FileType /\ disk'.there = disk.there /\ disk'.data = disk.data /\ disk'.offset = n
    <2>1. disk \in FileType /\ n \in Nat /\ disk' = [disk EXCEPT !.offset = n]
      BY <1>1 DEF Counted
    <2> QED
      BY ONLY <2>1, FileNext, SMT
  <1>4. Counted' /\ Collecting' /\ AllRead(TheItems, bounds)'
    BY <1>1, <1>3 DEF Counted, Collecting, IsCollection, TheItems
  <1>5. Gathered(BoxRead, PositionsOf(TheItems, Len(TheItems)), bounds, disk')
    <2>1. Hoard(bounds, disk') = Hoard(bounds, disk)
      BY <1>3 DEF Hoard
    <2> QED
      BY <1>1, <1>3, <2>1 DEF Gathered
  <1>6. Gathered(BoxRead, PositionsOf(TheItems, Len(TheItems)), bounds, disk)'
    BY <1>5 DEF BoxRead, TheItems
  <1>7. Finishing'
    <2>1. /\ ValidBox(BoxRead) /\ bounds.bbox = BoxRead /\ Encloses(BoxRead, bounds.summary)
          /\ \A l \in Retained : ~InGap(BoxRead, l)
      BY <1>1 DEF Finishing
    <2>2. BoxRead' = BoxRead /\ Retained' = Retained
      BY DEF BoxRead, Retained
    <2> QED
      BY <1>1, <1>3, <2>1, <2>2 DEF Finishing
  <1> QED
    BY <1>1, <1>2, <1>4, <1>6, <1>7, ToFinishing

(* once the file is rewound,                                                *)
LEMMA RewindHolds ==
  ASSUME ReaderInv, Rewind
  PROVE  ReaderInv'
  <1>1. /\ pc = "rewind" /\ UNCHANGED <<input, records, values, elements, count, object, bounds>>
    BY DEF Rewind, readerVars, objectVars
  <1>2. Holding /\ Counted
    BY <1>1, NowFinishing
  <1>3. CASE Leave("seek failed")
    <2>1. "seek failed" \in Failures
      BY DEF Failures
    <2>2. Holding'
      BY <1>1, <1>2, HoldingStays
    <2> QED
      BY <1>3, <2>1, <2>2, ToClose DEF Leave
  <1>4. CASE pc' = "reread" /\ disk' = [disk EXCEPT !.offset = 0] /\ UNCHANGED verdict
    <2>1. disk \in FileType
      BY <1>2 DEF Counted
    <2>2. disk.data \in Seq(Int)
      BY <2>1, FileParts
    <2>3. 0 \in Nat /\ 0 <= Len(disk.data)
      BY <2>2
    <2>4. \A i \in 1..0 : ~InGap(BoxRead, disk.data[i])
      BY NoIndex
    <2> QED
      BY <1>1, <1>4, <2>3, <2>4, ReadingAgain
  <1> QED
    BY <1>3, <1>4 DEF Rewind

(* once the file is read again,                                             *)
LEMMA RereadHolds ==
  ASSUME ReaderInv, Reread
  PROVE  ReaderInv'
  <1>1. /\ pc = "reread" /\ UNCHANGED <<input, records, values, elements, count, object, bounds>>
    BY DEF Reread, readerVars, objectVars
  <1>2. /\ Holding /\ Counted /\ verdict = "" /\ object.keys = <<>> /\ Finishing
        /\ Collecting /\ AllRead(TheItems, bounds)
        /\ Gathered(BoxRead, PositionsOf(TheItems, Len(TheItems)), bounds, disk)
    BY <1>1, NowFinishing
  <1>3. Holding'
    BY <1>1, <1>2, HoldingStays
  <1>4. /\ ValidBox(BoxRead) /\ bounds.bbox = BoxRead /\ Encloses(BoxRead, bounds.summary)
        /\ \A l \in Retained : ~InGap(BoxRead, l)
        /\ disk.offset <= Len(disk.data)
        /\ \A i \in 1..disk.offset : ~InGap(BoxRead, disk.data[i])
    BY <1>1, <1>2 DEF Finishing
  <1>5. disk.data \in Seq(Int) /\ disk.offset \in Nat
    BY <1>2, FileParts DEF Counted
  <1>6. Len(disk.data) \in Nat /\ DOMAIN disk.data = 1..Len(disk.data)
    BY <1>5
  <1>7. /\ (\E l \in Hoard(bounds, disk) : InGap(BoxRead, l)) =>
             ~SoundObject(object.value, object.allowed)
        /\ (\A l \in Hoard(bounds, disk) : ~InGap(BoxRead, l)) =>
             SoundObject(object.value, object.allowed)
    BY <1>2, <1>4, JudgedByBox
  <1>8. CASE Leave("read failed")
    <2>1. "read failed" \in Failures
      BY DEF Failures
    <2> QED
      BY <1>3, <1>8, <2>1, ToClose DEF Leave
  <1>9. CASE disk.offset = Len(disk.data) /\ Leave("ok")
    <2>1. \A l \in Hoard(bounds, disk) : ~InGap(BoxRead, l)
      BY <1>4, <1>6, <1>9, RetainedIs DEF Hoard, ToSet
    <2> QED
      BY <1>1, <1>3, <1>7, <1>9, <2>1, ToClose DEF Leave
  <1>10. CASE /\ disk.offset < Len(disk.data)
              /\ disk' = [disk EXCEPT !.offset = disk.offset + 1]
              /\ IF InGap(bounds.bbox, disk.data[disk.offset + 1])
                 THEN Leave("outside bbox") ELSE UNCHANGED <<pc, verdict>>
    <2>1. /\ disk.offset + 1 \in 1..Len(disk.data) /\ disk.offset + 1 \in Nat
          /\ disk.offset + 1 <= Len(disk.data)
          /\ \A i \in 1..disk.offset + 1 : i \in 1..disk.offset \/ i = disk.offset + 1
      <3>1. \A a, b \in Nat : a < b =>
              /\ a + 1 \in 1..b /\ a + 1 \in Nat /\ a + 1 <= b
              /\ \A i \in 1..a + 1 : i \in 1..a \/ i = a + 1
        OBVIOUS
      <3> QED
        BY <1>5, <1>6, <1>10, <3>1, Zenon
    <2>2. CASE InGap(BoxRead, disk.data[disk.offset + 1])
      <3>1. disk.data[disk.offset + 1] \in Hoard(bounds, disk)
        BY <1>6, <2>1 DEF Hoard, ToSet
      <3>2. ~SoundObject(object.value, object.allowed)
        BY <1>7, <2>2, <3>1
      <3> QED
        BY <1>1, <1>3, <1>4, <1>10, <2>2, <3>2, ToClose DEF Leave
    <2>3. CASE ~InGap(BoxRead, disk.data[disk.offset + 1])
      <3>1. pc' = "reread" /\ verdict' = verdict
        BY <1>1, <1>4, <1>10, <2>3
      <3>2. \A i \in 1..disk.offset + 1 : ~InGap(BoxRead, disk.data[i])
        BY <1>4, <2>1, <2>3
      <3> QED
        BY <1>1, <1>10, <2>1, <3>1, <3>2, ReadingAgain
    <2> QED
      BY <2>2, <2>3
  <1> QED
    BY <1>8, <1>9, <1>10 DEF Reread

(* and once the file is removed.                                            *)
LEMMA CloseBoundsHolds ==
  ASSUME ReaderInv, CloseBounds
  PROVE  ReaderInv'
  <1>1. /\ pc = "close" /\ UNCHANGED <<input, records, values, elements, count, object>>
    BY DEF CloseBounds, readerVars, objectVars
  <1>2. /\ input \in Inputs /\ object.allowed \in BOOLEAN
        /\ AtObject(input, records, values, count, elements, object.value, object.allowed)
        /\ verdict = "ok" => SoundObject(object.value, object.allowed)
        /\ verdict \notin Failures \union {"ok"} => ~SoundObject(object.value, object.allowed)
    BY <1>1 DEF ReaderInv, Place, Judged, InObject, ObjectFields
  <1>3. CASE Return("clean-up failed")
    <2>1. "clean-up failed" \in Failures
      BY DEF Failures
    <2> QED
      BY <1>1, <1>2, <1>3, <2>1, ToDone DEF Return
  <1>4. CASE /\ verdict = "ok" /\ verdict' = ""
             /\ pc' = (IF object.allowed THEN "value" ELSE "element")
    <2>1. /\ object.allowed => AtValue(input, records, values, count, count)
          /\ ~object.allowed => AtElement(input, records, values, count, elements,
                                          Gone(elements, InHand(records, count).elements))
      BY <1>2, <1>4, ObjectGoesBy
    <2>2. CASE object.allowed
      BY <1>1, <1>4, <2>1, <2>2, ToValue
    <2>3. CASE ~object.allowed
      BY <1>1, <1>4, <2>1, <2>3, ToElement
    <2> QED
      BY <2>2, <2>3
  <1>5. CASE verdict # "ok" /\ Return(verdict)
    <2>1. verdict \notin Failures \union {"ok"} => ~SoundIn(input)
      BY <1>2, BadObject
    <2> QED
      BY <1>1, <1>2, <1>5, <2>1, ToDone DEF Return
  <1> QED
    BY <1>3, <1>4, <1>5 DEF CloseBounds

-----------------------------------------------------------------------------
(* Nothing changes when nothing does.                                       *)
LEMMA StutterHolds ==
  ASSUME ReaderInv, UNCHANGED vars
  PROVE  ReaderInv'
  <1>1. UNCHANGED <<input, records, values, elements, count, pc, object, features, positions,
                    geometry, bounds, disk, verdict>>
    BY DEF vars, readerVars, objectVars
  <1>2. Place' <=> Place
    BY <1>1 DEF Place, InObject, InMembers, ObjectFields
  <1>3. Judged' <=> Judged
    BY <1>1 DEF Judged, AcceptsExactly, SoundInput
  <1>4. BoxRead' = BoxRead /\ TheItems' = TheItems /\ Retained' = Retained
        /\ (Collecting' <=> Collecting)
    BY <1>1 DEF BoxRead, TheItems, Retained, Collecting, IsCollection
  <1>5. (MembersRead' <=> MembersRead) /\ (DeferredRead' <=> DeferredRead)
    BY <1>1, <1>4 DEF MembersRead, DeferredRead, InMembers
  <1>6. (FeaturesRead' <=> FeaturesRead) /\ (CollectionRead' <=> CollectionRead)
    BY <1>1, <1>4 DEF FeaturesRead, CollectionRead
  <1>7. Finishing' <=> Finishing
    BY <1>1, <1>4 DEF Finishing
  <1> QED
    BY <1>2, <1>3, <1>5, <1>6, <1>7 DEF ReaderInv

(* Every step keeps the reader in its place.                                *)
LEMMA ReaderStep == ReaderInv /\ [Next]_vars => ReaderInv'
  <1> SUFFICES ASSUME ReaderInv, [Next]_vars  PROVE ReaderInv'
    OBVIOUS
  <1>1. CASE UNCHANGED vars
    BY <1>1, StutterHolds
  <1>2. CASE Next
    BY <1>1, <1>2, StartHolds, ReadRecordHolds, EndRecordHolds, ReadValueHolds, ReadElementHolds,
       ReadMemberHolds, EndObjectHolds, EnterFeatureHolds, ReadPositionHolds, EndFeatureHolds,
       EndFeaturesHolds, FinishHolds, RewindHolds, RereadHolds, CloseBoundsHolds, StutterHolds
       DEF Next, Step, Returned
  <1> QED
    BY <1>1, <1>2

(* Whatever the order of the members and however many longitudes had to be  *)
(* kept, reading succeeds exactly on what is sound as a whole, but for a    *)
(* failure of the callback, the disk or the clean-up (visitJSONObject).     *)
THEOREM AcceptsExactlyCorrect == Spec => []AcceptsExactly
  <1>1. Init => ReaderInv
    BY InitHolds
  <1>2. ReaderInv => AcceptsExactly
    BY DEF ReaderInv, Judged
  <1> QED
    BY <1>1, <1>2, ReaderStep, PTL DEF Spec

-----------------------------------------------------------------------------
(* The longitudes that have gone by, in order.                              *)

(* Those of the first n features, and of the part of the one in hand that   *)
(* has gone by.                                                             *)
Passes(items, n) == FlattenSeq([i \in 1..n |-> Longitudes(items[i].positions)])
Part(f, ps) == Longitudes(SubSeq(f.positions, 1, Gone(ps, f.positions)))

(* Longitudes are numbers.                                                  *)
LEMMA LongitudesType ==
  ASSUME NEW ps, IsSeq(ps), \A i \in DOMAIN ps : IsPosition(ps[i])
  PROVE  /\ Longitudes(ps) \in Seq(Int) /\ Len(Longitudes(ps)) = Len(ps)
         /\ \A i \in 1..Len(ps) : Longitudes(ps)[i] = ps[i].lon
  <1>1. Len(ps) \in Nat /\ DOMAIN ps = 1..Len(ps)
    BY SeqFacts
  <1>2. \A i \in 1..Len(ps) : ps[i].lon \in Int
    BY <1>1 DEF IsPosition
  <1>3. Longitudes(ps) = [i \in 1..Len(ps) |-> ps[i].lon]
    BY <1>1 DEF Longitudes
  <1>4. Longitudes(ps) \in Seq(Int)
    BY <1>1, <1>2, <1>3, IsASeq
  <1> QED
    BY <1>1, <1>3, <1>4, LenProperties

(* The first none of the features pass nothing.                             *)
LEMMA PassesNone == \A items : Passes(items, 0) = <<>>
  <1> SUFFICES ASSUME NEW items  PROVE Passes(items, 0) = <<>>
    OBVIOUS
  <1> DEFINE ss == [i \in 1..0 |-> Longitudes(items[i].positions)]
  <1>1. ss = <<>>
    BY NoIndex
  <1>2. ss \in Seq({}) /\ Len(ss) = 0
    BY <1>1
  <1> HIDE DEF ss
  <1>3. FlattenSeq(ss) = <<>>
    BY <1>2, FlattenNone
  <1> QED
    BY <1>3 DEF Passes, ss

(* What the first features pass are longitudes.                             *)
LEMMA PassesType ==
  ASSUME NEW items, NEW n \in Nat, \A i \in 1..n : IsFeature(items[i])
  PROVE  Passes(items, n) \in Seq(Int)
  <1> DEFINE ss == [i \in 1..n |-> Longitudes(items[i].positions)]
  <1>1. ASSUME NEW i \in 1..n  PROVE ss[i] \in Seq(Int)
    <2>1. IsFeature(items[i])
      OBVIOUS
    <2>2. IsSeq(items[i].positions) /\ \A k \in DOMAIN items[i].positions : IsPosition(items[i].positions[k])
      BY <2>1, FeaturePositions DEF IsFeature
    <2> QED
      BY <2>2, LongitudesType
  <1>2. Len(ss) = n /\ ss = [i \in 1..n |-> ss[i]]
    OBVIOUS
  <1> HIDE DEF ss
  <1>3. FlattenSeq(ss) \in Seq(Int)
    BY <1>1, <1>2, FlattenType
  <1> QED
    BY <1>3 DEF Passes, ss

(* One more feature passes its longitudes after those of the others.        *)
LEMMA PassesMore ==
  ASSUME NEW items, NEW n \in Nat, IsFeature(items[n + 1])
  PROVE  Passes(items, n + 1) = Passes(items, n) \o Longitudes(items[n + 1].positions)
  <1> DEFINE ss == [i \in 1..n |-> Longitudes(items[i].positions)]
             tt == [i \in 1..n + 1 |-> Longitudes(items[i].positions)]
  <1>1. /\ Len(ss) = n /\ Len(tt) = n + 1 /\ tt[n + 1] = Longitudes(items[n + 1].positions)
        /\ \A i \in 1..n : ss[i] = tt[i]
    OBVIOUS
  <1>2. CASE n = 0
    <2>1. Passes(items, n) = <<>>
      BY <1>2, PassesNone
    <2>2. Longitudes(items[n + 1].positions) \in Seq(Int)
      BY FeaturePositions, LongitudesType DEF IsFeature
    <2>3. Len(tt) = 1 /\ tt[1] = Longitudes(items[n + 1].positions)
      BY <1>1, <1>2
    <2> HIDE DEF tt
    <2>4. FlattenSeq(tt) = Longitudes(items[n + 1].positions)
      BY <2>3, FlattenOne
    <2>5. <<>> \o Longitudes(items[n + 1].positions) = Longitudes(items[n + 1].positions)
      BY <2>2, ConcatEmptySeq
    <2> QED
      BY <2>1, <2>4, <2>5 DEF Passes, tt
  <1>3. CASE n # 0
    <2> HIDE DEF ss, tt
    <2>1. FlattenSeq(tt) = FlattenSeq(ss) \o tt[n + 1]
      BY <1>1, <1>3, FlattenGrows
    <2> QED
      BY <1>1, <2>1 DEF Passes, ss, tt
  <1> QED
    BY <1>2, <1>3

(* The first n of some positions.                                           *)
Firsts(all, n) == Longitudes(SubSeq(all, 1, n))

(* The first longitudes of some positions, one by one.                      *)
LEMMA FirstsAre ==
  ASSUME NEW all, IsSeq(all), \A i \in DOMAIN all : IsPosition(all[i]), NEW n \in 0..Len(all)
  PROVE  /\ Firsts(all, n) = [i \in 1..n |-> all[i].lon]
         /\ Firsts(all, n) \in Seq(Int) /\ Len(Firsts(all, n)) = n
  <1>1. Len(all) \in Nat /\ DOMAIN all = 1..Len(all)
    BY SeqFacts
  <1>2. n \in Nat /\ \A i \in 1..n : i \in 1..Len(all)
    BY <1>1
  <1>3. SubSeq(all, 1, n) = [i \in 1..n |-> all[i]]
    <2>1. (n - 1) + 1 = n /\ \A i \in 1..n : (i + 1) - 1 = i
      BY <1>2
    <2> QED
      BY <2>1
  <1>4. Firsts(all, n) = [i \in 1..n |-> all[i].lon]
    <2> DEFINE s == [i \in 1..n |-> all[i]]
    <2>1. DOMAIN s = 1..n /\ \A i \in 1..n : s[i] = all[i]
      OBVIOUS
    <2>2. Longitudes(s) = [i \in 1..n |-> all[i].lon]
      BY <2>1 DEF Longitudes
    <2> QED
      BY <1>3, <2>2 DEF Firsts
  <1>5. \A i \in 1..n : all[i].lon \in Int
    BY <1>1, <1>2 DEF IsPosition
  <1>6. /\ [i \in 1..n |-> all[i].lon] \in Seq(Int)
        /\ Len([i \in 1..n |-> all[i].lon]) = n
    BY <1>2, <1>5, IsASeq
  <1> QED
    BY <1>4, <1>6

(* One position more adds its longitude.                                    *)
LEMMA FirstsMore ==
  ASSUME NEW all, IsSeq(all), \A i \in DOMAIN all : IsPosition(all[i]), NEW n \in Nat,
         n + 1 \in 1..Len(all)
  PROVE  Firsts(all, n + 1) = Append(Firsts(all, n), all[n + 1].lon)
  <1> DEFINE s == Firsts(all, n)
             t == Firsts(all, n + 1)
             x == all[n + 1].lon
  <1>1. Len(all) \in Nat /\ n \in 0..Len(all) /\ n + 1 \in 0..Len(all)
    BY SeqFacts
  <1>2. s = [i \in 1..n |-> all[i].lon] /\ s \in Seq(Int) /\ Len(s) = n
    BY <1>1, FirstsAre
  <1>3. t = [i \in 1..n + 1 |-> all[i].lon] /\ t \in Seq(Int) /\ Len(t) = n + 1
    BY <1>1, FirstsAre
  <1>4. /\ \A i \in 1..n : s[i] = all[i].lon
        /\ \A i \in 1..n + 1 : t[i] = all[i].lon
        /\ x \in Int
    <2>1. n + 1 \in DOMAIN all
      BY SeqFacts
    <2> QED
      BY <1>2, <1>3, <2>1 DEF IsPosition
  <1> HIDE DEF s, t, x
  <1>5. /\ Append(s, x) \in Seq(Int) /\ Len(Append(s, x)) = n + 1
        /\ \A i \in 1..n : Append(s, x)[i] = s[i]
        /\ Append(s, x)[n + 1] = x
    BY <1>2, <1>4, AppendProperties
  <1>6. \A i \in 1..n + 1 : t[i] = Append(s, x)[i]
    <2>1. \A i \in 1..n + 1 : i \in 1..n \/ i = n + 1
      OBVIOUS
    <2> QED
      BY <2>1, <1>4, <1>5 DEF x
  <1>7. t = Append(s, x)
    BY <1>3, <1>5, <1>6, SeqEqual
  <1> QED
    BY <1>7 DEF s, t, x

(* Of the feature in hand: at first nothing, then one more, at last all.    *)
LEMMA PartFacts ==
  ASSUME NEW f, IsFeature(f), NEW ps, IsRest(ps, f.positions)
  PROVE  /\ Part(f, ps) \in Seq(Int)
         /\ ps = <<>> => Part(f, ps) = Longitudes(f.positions)
         /\ ps = f.positions => Part(f, ps) = <<>>
         /\ ps # <<>> => Part(f, Tail(ps)) = Append(Part(f, ps), Head(ps).lon)
  <1> DEFINE all == f.positions
             g == Gone(ps, all)
  <1>1. /\ g \in Nat /\ g <= Len(all) /\ Len(all) \in Nat /\ DOMAIN all = 1..Len(all)
        /\ (ps = <<>> => g = Len(all))
    BY RestBounds
  <1>2. IsSeq(all) /\ \A i \in DOMAIN all : IsPosition(all[i])
    BY FeaturePositions DEF IsFeature
  <1>3. Part(f, ps) = Firsts(all, g)
    BY DEF Part, Firsts
  <1>4. ps = all => g = 0
    BY <1>2, RestWhole
  <1>5. ps # <<>> => /\ Gone(Tail(ps), all) = g + 1 /\ g + 1 \in 1..Len(all)
                     /\ Head(ps) = all[g + 1]
    BY RestTail
  <1>6. ps # <<>> => Part(f, Tail(ps)) = Firsts(all, g + 1)
    BY <1>5 DEF Part, Firsts
  <1> HIDE DEF g, all
  <1>7. g \in 0..Len(all) /\ Len(all) \in 0..Len(all)
    <2>1. \A a, b \in Nat : a <= b => a \in 0..b
      OBVIOUS
    <2>2. \A a \in Nat : a \in 0..a
      OBVIOUS
    <2> QED
      BY <1>1, <2>1, <2>2, Zenon DEF g, all
  <1>8. Firsts(all, g) \in Seq(Int) /\ Len(Firsts(all, g)) = g
    BY <1>2, <1>7, FirstsAre
  <1>9. ps = <<>> => Part(f, ps) = Longitudes(all)
    <2>1. Firsts(all, Len(all)) = [i \in 1..Len(all) |-> all[i].lon]
      BY <1>2, <1>7, FirstsAre
    <2> QED
      BY <1>1, <1>3, <2>1 DEF Longitudes
  <1>10. ps = all => Part(f, ps) = <<>>
    BY <1>3, <1>4, <1>8, EmptySeq
  <1>11. ps # <<>> => Part(f, Tail(ps)) = Append(Part(f, ps), Head(ps).lon)
    <2>1. SUFFICES ASSUME ps # <<>>
                   PROVE  Part(f, Tail(ps)) = Append(Part(f, ps), Head(ps).lon)
      OBVIOUS
    <2>2. g + 1 \in 1..Len(all) /\ Head(ps) = all[g + 1] /\ Part(f, Tail(ps)) = Firsts(all, g + 1)
      BY <1>5, <1>6, <2>1
    <2> QED
      BY <1>1, <1>2, <1>3, <2>2, FirstsMore
  <1> QED
    BY <1>3, <1>8, <1>9, <1>10, <1>11 DEF all

(* What has gone by, in terms of the features and the part of one.          *)
LEMMA PassedIs ==
  Passed = Passes(TheItems, Gone(features, TheItems))
           \o (IF pc = "position"
               THEN Part(TheItems[Gone(features, TheItems) + 1], positions) ELSE <<>>)
  BY DEF Passed, Passes, Part, Gone, TheItems

-----------------------------------------------------------------------------
(* What is kept is what has gone by, in order.                              *)

NothingKept == bounds.longitudes = <<>> /\ ~disk.there

(* Everything that has gone by is kept while no bbox is known, else nothing. *)
InOrder(passed, b, d) ==
    /\ Len(b.longitudes) < BufferSize
    /\ b.bbox.dim = 0 => d.data \o b.longitudes = passed
    /\ b.bbox.dim # 0 => b.longitudes = <<>> /\ ~d.there

RetainingInv ==
    /\ pc = "member" /\ ~object.streamed => NothingKept
    /\ pc \in {"feature", "position"} => bounds.bbox = BoxRead
    /\ pc = "feature" => InOrder(Passes(TheItems, Gone(features, TheItems)), bounds, disk)
    /\ pc = "position" => InOrder(Passes(TheItems, Gone(features, TheItems))
                                  \o Part(Head(features), positions), bounds, disk)
    /\ (pc = "member" /\ object.streamed) \/ pc = "finish" =>
         features = <<>> /\ InOrder(Passes(TheItems, Len(TheItems)), bounds, disk)
    /\ pc \in {"rewind", "reread"} =>
         features = <<>> /\ disk.data \o bounds.longitudes = Passes(TheItems, Len(TheItems))

-----------------------------------------------------------------------------
(* What the steps of an object do to what the invariants speak of.          *)

(* The next object is begun.                                                *)
LEMMA BeginDoes ==
  ASSUME NEW v, NEW a, Begin(v, a)
  PROVE  /\ pc' = "member" /\ object'.value = v /\ object'.allowed = a
         /\ object'.seen = {} /\ ~object'.streamed
         /\ bounds'.longitudes = <<>> /\ disk'.data = <<>> /\ ~disk'.there
  <1> DEFINE o == [value |-> v, allowed |-> a, keys |-> v.keys, seen |-> {}, streamed |-> FALSE]
  <1>1. /\ o.value = v /\ o.allowed = a /\ o.seen = {} /\ o.streamed = FALSE
    BY Zenon
  <1>2. pc' = "member" /\ object' = o /\ bounds' = NoBounds /\ disk' = NoFile
    BY DEF Begin
  <1> HIDE DEF o
  <1>3. object'.value = v /\ object'.allowed = a /\ object'.seen = {} /\ object'.streamed = FALSE
    BY <1>1, <1>2, Zenon
  <1>4. ~object'.streamed
    BY <1>3, Zenon
  <1> QED
    BY <1>2, <1>3, <1>4, NoFileFields

(* Its features are entered, or it fails.                                   *)
Entering ==
    /\ pc' = "feature" /\ features' = TheItems /\ bounds'.bbox = BoxRead
    /\ bounds'.longitudes = bounds.longitudes /\ disk' = disk /\ verdict' = verdict

Failing ==
    pc' = "close" /\ verdict' \notin {"", "ok"} /\ visited' = visited

(* What the entry of the features does, or that it leaves the object.       *)
LEMMA EnterDoes ==
  ASSUME EnterFeatures, IsBounds(bounds), UNCHANGED <<disk, visited>>
  PROVE  Entering \/ Failing
  <1>1. CASE ~ValidBox(BoxRead) \/ ~object.value.features.list
    BY <1>1 DEF EnterFeatures, Failing, Leave
  <1>2. CASE ~(~ValidBox(BoxRead) \/ ~object.value.features.list)
    <2>1. /\ pc' = "feature" /\ features' = TheItems /\ verdict' = verdict
          /\ bounds' = [bounds EXCEPT !.bbox = BoxRead]
      BY <1>2 DEF EnterFeatures, TheItems
    <2>2. IsBounds(bounds) /\ bounds' = [bounds EXCEPT !.bbox = BoxRead]
      BY <2>1
    <2>3. bounds'.bbox = BoxRead /\ bounds'.longitudes = bounds.longitudes
      BY ONLY <2>2, BoxNext, SMT
    <2> QED
      BY <2>1, <2>3 DEF Entering
  <1> QED
    BY <1>1, <1>2

(* One member is read.                                                      *)
LEMMA ReadMemberDoes ==
  ASSUME ReaderInv, ReadMember
  PROVE  /\ pc = "member" /\ visited' = visited
         /\ UNCHANGED <<input, records, values, elements, count>>
         /\ object'.value = object.value /\ object'.allowed = object.allowed
         /\ \/ Failing
            \/ ~object.streamed /\ Entering /\ BoxRead' = BoxRead /\ object.allowed /\ IsCollection
            \/ pc' = "member" /\ object'.streamed = object.streamed
               /\ UNCHANGED <<features, bounds, disk, verdict>>
  <1> DEFINE key == Head(object.keys)
  <1>1. /\ Holding /\ Counted /\ verdict = "" /\ pc = "member"
        /\ UNCHANGED <<input, records, values, elements, count, disk, visited>>
        /\ object' = [object EXCEPT !.keys = Tail(@), !.seen = @ \union {key},
                                    !.streamed = @ \/ Streams(key)]
    <2>1. InMembers /\ pc = "member"
      BY DEF InMembers, ReadMember
    <2> QED
      BY <2>1, NowHolding DEF ReadMember, readerVars
  <1>2. /\ object'.value = object.value /\ object'.allowed = object.allowed
        /\ object'.seen = object.seen \union {key}
        /\ object'.streamed = (object.streamed \/ Streams(key))
    <2>1. object = [value |-> object.value, allowed |-> object.allowed,
                    keys |-> object.keys, seen |-> object.seen, streamed |-> object.streamed]
      BY <1>1 DEF Holding, ObjectFields
    <2> QED
      BY <1>1, <2>1, ObjectNext, Zenon
  <1>3. CASE key \in object.seen \/ (~Streams(key) /\ Repeats(key))
            \/ (Streams(key) /\ ~object.allowed)
    <2>1. pc' = "close" /\ verdict' \in {"duplicate member", "nested collection"}
      BY <1>3 DEF ReadMember, Leave
    <2> QED
      BY <1>1, <1>2, <2>1 DEF Failing
  <1>4. CASE key \notin object.seen /\ Streams(key) /\ object.allowed
    <2>1. key = "features" /\ IsCollection
      BY <1>4 DEF Streams
    <2>2. ~object.streamed
      <3>1. object.streamed => Collecting
        BY <1>1 DEF ReaderInv, CollectionRead
      <3> QED
        BY <1>4, <2>1, <3>1 DEF Collecting
    <2>3. EnterFeatures
      BY <1>4 DEF ReadMember
    <2>4. BoxRead' = BoxRead
      <3>1. "bbox" \in object'.seen <=> "bbox" \in object.seen
        BY <1>2, <2>1
      <3> QED
        BY <1>2, <3>1 DEF BoxRead
    <2>5. IsBounds(bounds)
      BY <1>1 DEF Counted
    <2> QED
      BY <1>1, <1>2, <1>4, <2>1, <2>2, <2>3, <2>4, <2>5, EnterDoes
  <1>5. CASE key \notin object.seen /\ ~Streams(key) /\ ~Repeats(key)
    <2>1. UNCHANGED <<pc, verdict, bounds, features>>
      BY <1>5 DEF ReadMember
    <2>2. object'.streamed = object.streamed
      <3>1. object.streamed \in BOOLEAN
        BY <1>1 DEF Holding, ObjectFields
      <3> QED
        BY <1>2, <1>5, <3>1, Zenon
    <2> QED
      BY <1>1, <1>2, <2>1, <2>2
  <1> QED
    BY <1>3, <1>4, <1>5

(* The closing brace is read.                                               *)
LEMMA EndObjectDoes ==
  ASSUME ReaderInv, EndObject
  PROVE  /\ pc = "member" /\ UNCHANGED <<input, records, values, elements, count, object, disk>>
         /\ \/ Failing
            \/ ~object.streamed /\ Entering /\ visited' = visited /\ object.allowed /\ IsCollection
            \/ object.streamed /\ pc' = "finish"
               /\ UNCHANGED <<features, bounds, visited, verdict>>
            \/ /\ ~object.streamed /\ ~IsCollection /\ pc' = "close" /\ verdict' = "ok"
               /\ visited' = Append(visited, object.value.feature)
  <1>1. /\ Holding /\ Counted /\ verdict = "" /\ pc = "member"
        /\ UNCHANGED <<input, records, values, elements, count, object, disk>>
    <2>1. InMembers /\ pc = "member"
      BY DEF InMembers, EndObject
    <2> QED
      BY <2>1, NowHolding DEF EndObject, readerVars
  <1>2. object.streamed \in BOOLEAN /\ IsBounds(bounds)
    BY <1>1 DEF Holding, ObjectFields, Counted
  <1>3. object.streamed => IsCollection
    BY <1>1 DEF ReaderInv, CollectionRead, Collecting
  <1>4. CASE "type" \notin object.seen \/ (~IsCollection /\ object.value.type # "Feature")
    <2>1. pc' = "close" /\ verdict' = "unsupported" /\ visited' = visited
      BY <1>4 DEF EndObject, Leave
    <2> QED
      BY <1>1, <2>1 DEF Failing
  <1>5. CASE "type" \in object.seen /\ IsCollection /\ object.streamed
    <2>1. pc' = "finish" /\ UNCHANGED <<verdict, bounds, features, visited>>
      BY <1>5, Zenon DEF EndObject
    <2> QED
      BY <1>1, <1>5, <2>1
  <1>6. CASE "type" \in object.seen /\ IsCollection /\ ~object.streamed
    <2>1. CASE object.allowed /\ "features" \in object.seen
      <3>1. EnterFeatures /\ visited' = visited
        BY <1>6, <2>1, Zenon DEF EndObject
      <3> QED
        BY <1>1, <1>2, <1>6, <2>1, <3>1, EnterDoes
    <2>2. CASE ~(object.allowed /\ "features" \in object.seen)
      <3>1. pc' = "close" /\ verdict' = "bad collection" /\ visited' = visited
        BY <1>6, <2>2, Zenon DEF EndObject, Leave
      <3> QED
        BY <1>1, <3>1 DEF Failing
    <2> QED
      BY <2>1, <2>2
  <1>7. CASE "type" \in object.seen /\ ~IsCollection /\ object.value.type = "Feature"
    <2>1. VisitObject
      BY <1>7, Zenon DEF EndObject
    <2>2. CASE visited' = Append(visited, object.value.feature) /\ Leave("ok")
      BY <1>1, <1>2, <1>3, <1>7, <2>2 DEF Leave
    <2>3. CASE Leave("refused") /\ UNCHANGED visited
      BY <1>1, <2>3 DEF Failing, Leave
    <2> QED
      BY <2>1, <2>2, <2>3 DEF VisitObject
  <1> QED
    BY <1>2, <1>4, <1>5, <1>6, <1>7

(* One longitude more in the buffer.                                        *)
LEMMA KeepFields ==
  ASSUME IsBounds(bounds), NEW x
  PROVE  /\ Keep(x).bbox = bounds.bbox /\ Keep(x).summary = bounds.summary
         /\ Keep(x).longitudes = Append(bounds.longitudes, x) /\ IsBounds(Keep(x))
  <1> DEFINE k == Keep(x)
             l == Append(bounds.longitudes, x)
  <1>1. IsBounds(bounds) /\ k = [bounds EXCEPT !.longitudes = l]
    BY DEF Keep
  <1> HIDE DEF k, l
  <1>2. /\ k.bbox = bounds.bbox /\ k.summary = bounds.summary
        /\ k.longitudes = l /\ IsBounds(k)
    BY ONLY <1>1, LongitudesNext, SMT
  <1> QED
    BY <1>2 DEF k, l

(* addLongitude, with what is kept.                                         *)
LEMMA AddLongitudeKeeps ==
  ASSUME NEW passed \in Seq(Int), InOrder(passed, bounds, disk), IsBounds(bounds),
         bounds.longitudes \in Seq(Int), disk \in FileType, NEW x \in Int,
         AddLongitude(x), pc' # "close"
  PROVE  InOrder(Append(passed, x), bounds', disk') /\ bounds'.bbox = bounds.bbox
  <1>1. CASE bounds.bbox.dim # 0
    <2>1. UNCHANGED <<bounds, disk>>
      BY <1>1 DEF AddLongitude
    <2> QED
      BY <1>1, <2>1 DEF InOrder
  <1>2. CASE bounds.bbox.dim = 0
    <2> DEFINE k == Keep(x)
               l == Append(bounds.longitudes, x)
               a == disk.data \o l
    <2>1. k.bbox = bounds.bbox /\ k.longitudes = l /\ IsBounds(k)
      BY KeepFields
    <2>2. disk.data \in Seq(Int) /\ l \in Seq(Int) /\ Len(l) = Len(bounds.longitudes) + 1
      BY FileParts, AppendProperties
    <2>3. a = Append(passed, x) /\ a \in Seq(Int)
      <3>1. disk.data \o bounds.longitudes = passed
        BY <1>2 DEF InOrder
      <3>2. a = Append(disk.data \o bounds.longitudes, x)
        <4>1. \A s, t \in Seq(Int) : \A y \in Int : s \o Append(t, y) = Append(s \o t, y)
          BY AppendAfter
        <4> QED
          BY <2>2, <4>1
      <3>4. a = Append(passed, x)
        BY <3>1, <3>2
      <3>5. a \in Seq(Int)
        BY <2>2, ConcatProperties
      <3> QED
        BY <3>4, <3>5
    <2> HIDE DEF k, l
    <2>4. CASE Len(bounds.longitudes) + 1 < BufferSize
      <3>1. bounds' = k /\ UNCHANGED disk
        BY <1>2, <2>4 DEF AddLongitude, k
      <3> QED
        BY <1>2, <2>1, <2>2, <2>3, <2>4, <3>1 DEF InOrder
    <2>5. CASE ~(Len(bounds.longitudes) + 1 < BufferSize)
      <3>1. Spill(k)
        BY <1>2, <2>5 DEF AddLongitude, k
      <3>2. /\ disk' = [there |-> TRUE, data |-> a, offset |-> Len(a)]
            /\ bounds' = [k EXCEPT !.longitudes = <<>>]
        BY <2>1, <3>1 DEF Spill, Leave
      <3> HIDE DEF a
      <3>3. Len(a) \in Nat
        BY <2>3
      <3>4. disk'.data = a
        BY <2>3, <3>2, <3>3, FileFields, Zenon
      <3>5. bounds'.bbox = bounds.bbox /\ bounds'.longitudes = <<>>
        <4>1. IsBounds(k) /\ bounds' = [k EXCEPT !.longitudes = <<>>]
          BY <2>1, <3>2
        <4>2. bounds'.bbox = k.bbox /\ bounds'.longitudes = <<>>
          BY ONLY <4>1, LongitudesNext, SMT
        <4> QED
          BY <2>1, <4>2
      <3>6. a \o <<>> = a
        BY <2>3, ConcatEmptySeq
      <3>7. Len(<<>>) < BufferSize
        <4>1. Len(<<>>) = 0
          OBVIOUS
        <4> QED
          BY <4>1, ReaderAssumption
      <3> QED
        BY <1>2, <2>3, <3>4, <3>5, <3>6, <3>7 DEF InOrder
    <2> QED
      BY <2>4, <2>5
  <1> QED
    BY <1>1, <1>2

(* What has been kept of nothing is nothing.                                *)
LEMMA NothingInOrder ==
  ASSUME NEW b, NEW d, b.longitudes = <<>>, ~d.there, d.data = <<>>
  PROVE  InOrder(<<>>, b, d)
  <1>1. Len(<<>>) = 0 /\ <<>> \o <<>> = <<>>
    <2>1. <<>> \in Seq({})
      OBVIOUS
    <2> QED
      BY <2>1, ConcatEmptySeq
  <1> QED
    BY <1>1, ReaderAssumption DEF InOrder

(* Elsewhere there is nothing to be said.                                   *)
LEMMA RetainingElsewhere ==
  ASSUME pc' \notin {"member", "feature", "position", "finish", "rewind", "reread"}
  PROVE  RetainingInv'
  BY DEF RetainingInv

(* What is kept when the features are entered: nothing.                     *)
LEMMA RetainingEntered ==
  ASSUME Entering, NothingKept, Gathered(BoxRead, {}, bounds, disk), BoxRead' = BoxRead,
         object'.value = object.value, IsSeq(TheItems)
  PROVE  RetainingInv'
  <1>1. TheItems' = TheItems
    BY DEF TheItems
  <1>2. Gone(TheItems, TheItems) = 0
    BY RestWhole
  <1>3. bounds'.longitudes = <<>> /\ ~disk'.there /\ disk'.data = <<>>
    BY DEF Entering, NothingKept, Gathered
  <1>4. InOrder(<<>>, bounds', disk')
    BY <1>3, NothingInOrder
  <1>5. InOrder(Passes(TheItems, Gone(features, TheItems)), bounds, disk)'
    BY <1>1, <1>2, <1>4, PassesNone DEF Entering
  <1> QED
    BY <1>5 DEF RetainingInv, Entering

(* What has gone by is kept when a member is read,                          *)
LEMMA ReadMemberRetains ==
  ASSUME ReaderInv, RetainingInv, ReadMember
  PROVE  RetainingInv'
  <1>1. /\ pc = "member" /\ object'.value = object.value
        /\ \/ Failing
           \/ ~object.streamed /\ Entering /\ BoxRead' = BoxRead
           \/ pc' = "member" /\ object'.streamed = object.streamed
              /\ UNCHANGED <<features, bounds, disk>>
    BY ReadMemberDoes
  <1>2. Holding
    BY <1>1, NowHolding DEF InMembers
  <1>3. IsSeq(TheItems)
    BY <1>2, CollectionFacts DEF Holding, AtObject, TheItems
  <1>4. CASE Failing
    BY <1>4, RetainingElsewhere DEF Failing
  <1>5. CASE ~object.streamed /\ Entering /\ BoxRead' = BoxRead
    <2>1. NothingKept /\ Gathered(BoxRead, {}, bounds, disk)
      BY <1>1, <1>5 DEF RetainingInv, ReaderInv, DeferredRead
    <2> QED
      BY <1>1, <1>3, <1>5, <2>1, RetainingEntered
  <1>6. CASE pc' = "member" /\ object'.streamed = object.streamed
             /\ UNCHANGED <<features, bounds, disk>>
    <2>1. TheItems' = TheItems /\ (NothingKept' <=> NothingKept)
      BY <1>1, <1>6 DEF TheItems, NothingKept
    <2> QED
      BY <1>1, <1>6, <2>1 DEF RetainingInv
  <1> QED
    BY <1>1, <1>4, <1>5, <1>6

(* when the members are over,                                               *)
LEMMA EndObjectRetains ==
  ASSUME ReaderInv, RetainingInv, EndObject
  PROVE  RetainingInv'
  <1>1. /\ pc = "member" /\ object' = object /\ disk' = disk
        /\ \/ Failing
           \/ ~object.streamed /\ Entering
           \/ object.streamed /\ pc' = "finish" /\ UNCHANGED <<features, bounds>>
           \/ pc' = "close"
    BY EndObjectDoes
  <1>2. Holding
    BY <1>1, NowHolding DEF InMembers
  <1>3. IsSeq(TheItems)
    BY <1>2, CollectionFacts DEF Holding, AtObject, TheItems
  <1>4. BoxRead' = BoxRead /\ TheItems' = TheItems
    BY <1>1 DEF BoxRead, TheItems
  <1>5. CASE Failing \/ pc' = "close"
    BY <1>5, RetainingElsewhere DEF Failing
  <1>6. CASE ~object.streamed /\ Entering
    <2>1. NothingKept /\ Gathered(BoxRead, {}, bounds, disk)
      BY <1>1, <1>6 DEF RetainingInv, ReaderInv, DeferredRead
    <2> QED
      BY <1>1, <1>3, <1>4, <1>6, <2>1, RetainingEntered
  <1>7. CASE object.streamed /\ pc' = "finish" /\ UNCHANGED <<features, bounds>>
    BY <1>1, <1>4, <1>7 DEF RetainingInv
  <1> QED
    BY <1>1, <1>5, <1>6, <1>7

(* when an object is begun,                                                 *)
LEMMA BeginRetains ==
  ASSUME NEW v, NEW a, Begin(v, a)
  PROVE  RetainingInv'
  <1>1. pc' = "member" /\ ~object'.streamed /\ NothingKept'
    BY BeginDoes DEF NothingKept
  <1> QED
    BY <1>1 DEF RetainingInv

-----------------------------------------------------------------------------
(* Each feature in turn.                                                    *)

(* What the invariant says between two features.                            *)
LEMMA NowBetween ==
  ASSUME ReaderInv, pc = "feature"
  PROVE  /\ Holding /\ Counted /\ verdict = "" /\ Collecting
         /\ Streaming(TheItems, features, bounds)
  <1>1. InMembers
    BY DEF InMembers
  <1> QED
    BY <1>1, NowHolding DEF ReaderInv, FeaturesRead

(* The features of the object.                                              *)
LEMMA ItemsFacts ==
  ASSUME Holding
  PROVE  /\ IsSeq(TheItems) /\ Len(TheItems) \in Nat /\ DOMAIN TheItems = 1..Len(TheItems)
         /\ \A i \in 1..Len(TheItems) : IsFeature(TheItems[i])
  BY CollectionFacts DEF Holding, AtObject, TheItems

(* What has gone by in those before are numbers.                            *)
LEMMA PastType ==
  ASSUME Holding, Streaming(TheItems, features, bounds)
  PROVE  Passes(TheItems, Gone(features, TheItems)) \in Seq(Int)
  <1> DEFINE items == TheItems
             n == Gone(features, items)
  <1>1. n \in Nat /\ n <= Len(items) /\ Len(items) \in Nat
    BY RestBounds DEF Streaming
  <1>2. \A i \in 1..Len(items) : IsFeature(items[i])
    BY ItemsFacts
  <1> HIDE DEF items, n
  <1>3. \A i \in 1..n : IsFeature(items[i])
    BY <1>1, <1>2
  <1>4. Passes(items, n) \in Seq(Int)
    BY <1>1, <1>3, PassesType
  <1> QED
    BY <1>4 DEF items, n

(* The feature is judged.                                                   *)
LEMMA EndFeatureDoes ==
  ASSUME ReaderInv, EndFeature
  PROVE  /\ pc = "position" /\ positions = <<>>
         /\ UNCHANGED <<input, records, values, elements, count, object, disk>>
         /\ \/ Failing
            \/ /\ features' = Tail(features) /\ pc' = "feature" /\ verdict' = verdict
               /\ visited' = Append(visited, Head(features))
               /\ bounds'.bbox = bounds.bbox /\ bounds'.longitudes = bounds.longitudes
  <1> DEFINE m == Merge(bounds.summary, geometry)
  <1>1. /\ pc = "position" /\ positions = <<>>
        /\ UNCHANGED <<input, records, values, elements, count, object, disk>>
        /\ \/ pc' = "close" /\ verdict' = "bad feature" /\ visited' = visited
           \/ bounds' = [bounds EXCEPT !.summary = m]
    BY DEF EndFeature, readerVars, Leave
  <1>2. \/ pc' = "close" /\ verdict' = "bad feature" /\ visited' = visited
        \/ pc' = "close" /\ verdict' = "refused" /\ visited' = visited
        \/ /\ features' = Tail(features) /\ pc' = "feature" /\ verdict' = verdict
           /\ visited' = Append(visited, Head(features))
    BY DEF EndFeature, Leave
  <1>3. IsBounds(bounds)
    BY <1>1, NowLooking DEF Counted
  <1> HIDE DEF m
  <1>4. bounds' = [bounds EXCEPT !.summary = m] =>
          bounds'.bbox = bounds.bbox /\ bounds'.longitudes = bounds.longitudes
    <2> SUFFICES ASSUME bounds' = [bounds EXCEPT !.summary = m]
                 PROVE  bounds'.bbox = bounds.bbox /\ bounds'.longitudes = bounds.longitudes
      OBVIOUS
    <2>1. IsBounds(bounds) /\ bounds' = [bounds EXCEPT !.summary = m]
      BY <1>3
    <2> QED
      BY ONLY <2>1, SummaryNext, SMT
  <1>5. CASE pc' = "close"
    <2>1. verdict' \in {"bad feature", "refused"} /\ visited' = visited
      BY <1>2, <1>5
    <2> QED
      BY <1>1, <1>5, <2>1 DEF Failing
  <1>6. CASE pc' # "close"
    BY <1>1, <1>2, <1>4, <1>6
  <1> QED
    BY <1>5, <1>6

-----------------------------------------------------------------------------
(* What has gone by is kept when a feature is begun,                        *)
LEMMA EnterFeatureRetains ==
  ASSUME ReaderInv, RetainingInv, EnterFeature
  PROVE  RetainingInv'
  <1>1. /\ pc = "feature" /\ features # <<>> /\ UNCHANGED <<object, features, bounds, disk>>
        /\ pc' = "close" \/ (pc' = "position" /\ positions' = Head(features).positions)
    BY DEF EnterFeature, Leave
  <1>2. CASE pc' = "close"
    BY <1>2, RetainingElsewhere
  <1>3. CASE pc' = "position" /\ positions' = Head(features).positions
    <2> DEFINE f == Head(features)
               past == Passes(TheItems, Gone(features, TheItems))
    <2>1. Holding /\ Streaming(TheItems, features, bounds)
      BY <1>1, NowBetween
    <2>2. IsFeature(f)
      BY <1>1, <2>1, NextFeature
    <2>3. Part(f, f.positions) = <<>>
      <3>1. IsRest(f.positions, f.positions)
        BY <2>2, FeaturePositions, RestWhole
      <3> HIDE DEF f
      <3> QED
        BY <2>2, <3>1, PartFacts
    <2>4. past \in Seq(Int)
      BY <1>1, <2>1, PastType
    <2> HIDE DEF f, past
    <2>5. past \o Part(f, f.positions) = past
      BY <2>3, <2>4, ConcatEmptySeq
    <2>6. bounds.bbox = BoxRead /\ InOrder(past, bounds, disk)
      BY <1>1 DEF RetainingInv, past
    <2>7. BoxRead' = BoxRead /\ TheItems' = TheItems
      BY <1>1 DEF BoxRead, TheItems
    <2>8. InOrder(Passes(TheItems, Gone(features, TheItems)) \o Part(Head(features), positions),
                  bounds, disk)'
      BY <1>1, <1>3, <2>5, <2>6, <2>7 DEF past, f
    <2> QED
      BY <1>1, <1>3, <2>6, <2>7, <2>8 DEF RetainingInv
  <1> QED
    BY <1>1, <1>2, <1>3

(* when a position is read,                                                 *)
LEMMA ReadPositionRetains ==
  ASSUME ReaderInv, RetainingInv, ReadPosition
  PROVE  RetainingInv'
  <1> DEFINE f == Head(features)
             p == Head(positions)
             past == Passes(TheItems, Gone(features, TheItems))
  <1>1. /\ pc = "position" /\ positions # <<>> /\ positions' = Tail(positions)
        /\ UNCHANGED <<object, features>>
    BY DEF ReadPosition
  <1>2. /\ Holding /\ Streaming(TheItems, features, bounds) /\ features # <<>>
        /\ IsBounds(bounds) /\ bounds.longitudes \in Seq(Int) /\ disk \in FileType
        /\ IsRest(positions, f.positions)
    BY <1>1, NowLooking DEF Looking, Counted
  <1>3. IsFeature(f)
    BY <1>2, NextFeature
  <1>4. past \in Seq(Int)
    BY <1>2, PastType
  <1> HIDE DEF f, p, past
  <1>5. /\ Part(f, positions) \in Seq(Int)
        /\ Part(f, Tail(positions)) = Append(Part(f, positions), Head(positions).lon)
    BY <1>1, <1>2, <1>3, PartFacts
  <1>6. p.lon \in Int
    BY <1>1, <1>2, <1>3, NextPosition DEF IsPosition, p
  <1>7. bounds.bbox = BoxRead /\ InOrder(past \o Part(f, positions), bounds, disk)
    BY <1>1 DEF RetainingInv, past, f
  <1>8. past \o Part(f, positions) \in Seq(Int)
    BY <1>4, <1>5, ConcatProperties
  <1>9. past \o Part(f, Tail(positions)) = Append(past \o Part(f, positions), p.lon)
    <2> DEFINE t == Part(f, positions)
    <2>1. Part(f, Tail(positions)) = Append(t, p.lon) /\ t \in Seq(Int)
      BY <1>5 DEF p
    <2> HIDE DEF t
    <2>2. \A s, u \in Seq(Int) : \A y \in Int : s \o Append(u, y) = Append(s \o u, y)
      BY AppendAfter
    <2>3. past \o Append(t, p.lon) = Append(past \o t, p.lon)
      BY <1>4, <1>6, <2>1, <2>2
    <2> QED
      BY <2>1, <2>3 DEF t
  <1>10. CASE pc' = "close"
    BY <1>10, RetainingElsewhere
  <1>11. CASE pc' # "close"
    <2>1. AddLongitude(p.lon) /\ pc' = pc
      BY <1>11 DEF ReadPosition, AddLongitude, Spill, Leave, p
    <2>2. /\ InOrder(Append(past \o Part(f, positions), p.lon), bounds', disk')
          /\ bounds'.bbox = bounds.bbox
      BY <1>2, <1>6, <1>7, <1>8, <1>11, <2>1, AddLongitudeKeeps
    <2>3. BoxRead' = BoxRead /\ TheItems' = TheItems
      BY <1>1 DEF BoxRead, TheItems
    <2>4. InOrder(Passes(TheItems, Gone(features, TheItems)) \o Part(Head(features), positions),
                  bounds, disk)'
      BY <1>1, <1>9, <2>2, <2>3 DEF past, f
    <2> QED
      BY <1>1, <1>7, <2>1, <2>2, <2>3, <2>4 DEF RetainingInv
  <1> QED
    BY <1>10, <1>11

(* when the positions of a feature are over,                                *)
LEMMA EndFeatureRetains ==
  ASSUME ReaderInv, RetainingInv, EndFeature
  PROVE  RetainingInv'
  <1> DEFINE f == Head(features)
             n == Gone(features, TheItems)
  <1>1. /\ pc = "position" /\ positions = <<>> /\ UNCHANGED <<object, disk>>
        /\ \/ pc' = "close"
           \/ /\ features' = Tail(features) /\ pc' = "feature"
              /\ bounds'.bbox = bounds.bbox /\ bounds'.longitudes = bounds.longitudes
    BY EndFeatureDoes DEF Failing
  <1>2. CASE pc' = "close"
    BY <1>2, RetainingElsewhere
  <1>3. CASE /\ features' = Tail(features) /\ pc' = "feature"
             /\ bounds'.bbox = bounds.bbox /\ bounds'.longitudes = bounds.longitudes
    <2>1. /\ Holding /\ Streaming(TheItems, features, bounds) /\ features # <<>>
          /\ IsRest(positions, f.positions)
      BY <1>1, NowLooking DEF Looking
    <2>2. /\ n \in Nat /\ f = TheItems[n + 1] /\ IsFeature(f)
          /\ Gone(Tail(features), TheItems) = n + 1
      BY <2>1, NextFeature
    <2> HIDE DEF f, n
    <2>3. Part(f, positions) = Longitudes(f.positions)
      BY <1>1, <2>1, <2>2, PartFacts
    <2>4. Passes(TheItems, n + 1) = Passes(TheItems, n) \o Part(f, positions)
      BY <2>2, <2>3, PassesMore
    <2>5. bounds.bbox = BoxRead /\ InOrder(Passes(TheItems, n) \o Part(f, positions), bounds, disk)
      BY <1>1 DEF RetainingInv, n, f
    <2>6. BoxRead' = BoxRead /\ TheItems' = TheItems
      BY <1>1 DEF BoxRead, TheItems
    <2>7. InOrder(Passes(TheItems, n + 1), bounds', disk')
      BY <1>1, <1>3, <2>4, <2>5 DEF InOrder
    <2>8. InOrder(Passes(TheItems, Gone(features, TheItems)), bounds, disk)'
      BY <1>3, <2>2, <2>6, <2>7
    <2> QED
      BY <1>3, <2>5, <2>6, <2>8 DEF RetainingInv
  <1> QED
    BY <1>1, <1>2, <1>3

(* when the features are over,                                              *)
LEMMA EndFeaturesRetains ==
  ASSUME ReaderInv, RetainingInv, EndFeatures
  PROVE  RetainingInv'
  <1>1. /\ pc = "feature" /\ features = <<>> /\ pc' = IF object.streamed THEN "member" ELSE "finish"
        /\ UNCHANGED <<object, features, bounds, disk>>
    BY DEF EndFeatures, objectVars
  <1>2. Gone(features, TheItems) = Len(TheItems)
    BY <1>1, NowBetween, RestBounds DEF Streaming
  <1>3. InOrder(Passes(TheItems, Len(TheItems)), bounds, disk)
    BY <1>1, <1>2 DEF RetainingInv
  <1>4. TheItems' = TheItems
    BY <1>1 DEF TheItems
  <1>5. CASE object.streamed
    <2>1. pc' = "member" /\ object'.streamed
      BY <1>1, <1>5
    <2> QED
      BY <1>1, <1>3, <1>4, <2>1 DEF RetainingInv
  <1>6. CASE ~object.streamed
    <2>1. pc' = "finish"
      BY <1>1, <1>6
    <2> QED
      BY <1>1, <1>3, <1>4, <2>1 DEF RetainingInv
  <1> QED
    BY <1>5, <1>6

-----------------------------------------------------------------------------
(* The way out of the object.                                               *)

(* and in the check of the box.                                             *)
LEMMA FinishRetains ==
  ASSUME ReaderInv, RetainingInv, Finish
  PROVE  RetainingInv'
  <1>1. /\ pc = "finish" /\ UNCHANGED <<object, features, disk>>
        /\ pc' = "close" \/ (pc' = "rewind" /\ disk.there)
        /\ bounds' = [bounds EXCEPT !.bbox = BoxRead] \/ bounds' = bounds
    BY DEF Finish, Leave, objectVars
  <1>2. CASE pc' = "close"
    BY <1>2, RetainingElsewhere
  <1>3. CASE pc' = "rewind" /\ disk.there
    <2>1. features = <<>> /\ disk.data \o bounds.longitudes = Passes(TheItems, Len(TheItems))
      BY <1>1, <1>3 DEF RetainingInv, InOrder
    <2>2. bounds'.longitudes = bounds.longitudes
      <3>1. IsBounds(bounds)
        BY <1>1, NowFinishing DEF Counted
      <3>2. CASE bounds' = [bounds EXCEPT !.bbox = BoxRead]
        <4>1. IsBounds(bounds) /\ bounds' = [bounds EXCEPT !.bbox = BoxRead]
          BY <3>1, <3>2
        <4> QED
          BY ONLY <4>1, BoxNext, SMT
      <3> QED
        BY <1>1, <3>2
    <2>3. TheItems' = TheItems
      BY <1>1 DEF TheItems
    <2> QED
      BY <1>1, <1>3, <2>1, <2>2, <2>3 DEF RetainingInv
  <1> QED
    BY <1>1, <1>2, <1>3

(* Nor does reading the file again change what it holds.                    *)
LEMMA RereadRetains ==
  ASSUME ReaderInv, RetainingInv, Rewind \/ Reread
  PROVE  RetainingInv'
  <1>1. /\ pc \in {"rewind", "reread"} /\ UNCHANGED <<object, features, bounds>>
        /\ \/ pc' = "close"
           \/ /\ pc' = "reread"
              /\ \E n \in {0, disk.offset + 1} : disk' = [disk EXCEPT !.offset = n]
    BY DEF Rewind, Reread, Leave, objectVars
  <1>2. CASE pc' = "close"
    BY <1>2, RetainingElsewhere
  <1>3. CASE pc' = "reread" /\ \E n \in {0, disk.offset + 1} : disk' = [disk EXCEPT !.offset = n]
    <2>1. PICK n \in {0, disk.offset + 1} : disk' = [disk EXCEPT !.offset = n]
      BY <1>3
    <2>2. disk \in FileType
      BY <1>1, NowFinishing DEF Counted
    <2>3. disk.offset \in Nat
      BY <2>2, FileParts
    <2>4. n \in Nat
      BY <2>1, <2>3
    <2>5. disk'.data = disk.data
      <3>1. disk \in FileType /\ n \in Nat /\ disk' = [disk EXCEPT !.offset = n]
        BY <2>1, <2>2, <2>4
      <3> QED
        BY ONLY <3>1, FileNext, SMT
    <2>6. TheItems' = TheItems
      BY <1>1 DEF TheItems
    <2> QED
      BY <1>1, <1>3, <2>5, <2>6 DEF RetainingInv
  <1> QED
    BY <1>1, <1>2, <1>3

(* Nothing changes when nothing does.                                       *)
LEMMA RetainingStutters ==
  ASSUME RetainingInv, UNCHANGED vars
  PROVE  RetainingInv'
  <1>1. UNCHANGED <<pc, object, features, positions, bounds, disk>>
    BY DEF vars, objectVars
  <1>2. BoxRead' = BoxRead /\ TheItems' = TheItems /\ (NothingKept' <=> NothingKept)
    BY <1>1 DEF BoxRead, TheItems, NothingKept
  <1> QED
    BY <1>1, <1>2 DEF RetainingInv

(* Every step keeps what has gone by.                                       *)
LEMMA RetainingStep == ReaderInv /\ RetainingInv /\ [Next]_vars => RetainingInv'
  <1> SUFFICES ASSUME ReaderInv, RetainingInv, [Next]_vars  PROVE RetainingInv'
    OBVIOUS
  <1>1. CASE Start \/ ReadRecord \/ EndRecord \/ CloseBounds
    <2>1. pc' \in {"record", "value", "element", "done"}
      BY <1>1 DEF Start, ReadRecord, EndRecord, CloseBounds, Return
    <2> QED
      BY <2>1, RetainingElsewhere
  <1>2. CASE ReadValue \/ ReadElement
    <2>1. \/ pc' \in {"value", "element", "done"}
          \/ Begin(Head(values), TRUE) \/ Begin(Head(elements), FALSE)
      BY <1>2 DEF ReadValue, ReadElement, Return
    <2> QED
      BY <2>1, RetainingElsewhere, BeginRetains
  <1>3. CASE UNCHANGED vars
    BY <1>3, RetainingStutters
  <1> QED
    BY <1>1, <1>2, <1>3, ReadMemberRetains, EndObjectRetains, EnterFeatureRetains,
       ReadPositionRetains, EndFeatureRetains, EndFeaturesRetains, FinishRetains, RereadRetains
       DEF Next, Step, Returned

-----------------------------------------------------------------------------
(* While no bbox is known, the file and the buffer hold every longitude     *)
(* that has gone by, once and in order; once one is known nothing is kept.  *)

(* Between two features all that has gone by is that of those before.       *)
LEMMA PassedBetween ==
  ASSUME Holding, pc # "position", IsRest(features, TheItems)
  PROVE  Passed = Passes(TheItems, Gone(features, TheItems))
  <1> DEFINE items == TheItems
             n == Gone(features, items)
  <1>1. n \in Nat /\ n <= Len(items) /\ Len(items) \in Nat
    BY RestBounds
  <1>2. \A i \in 1..Len(items) : IsFeature(items[i])
    BY ItemsFacts
  <1> HIDE DEF items, n
  <1>3. \A i \in 1..n : IsFeature(items[i])
    BY <1>1, <1>2
  <1>4. Passes(items, n) \in Seq(Int)
    BY <1>1, <1>3, PassesType
  <1>5. Passes(items, n) \o <<>> = Passes(items, n)
    BY <1>4, ConcatEmptySeq
  <1>6. Passed = Passes(items, n) \o <<>>
    BY PassedIs DEF items, n
  <1> QED
    BY <1>5, <1>6 DEF items, n

(* What is kept is the property of the runs.                                *)
LEMMA RetainingIs == ReaderInv /\ RetainingInv => RetainedLongitudes
  <1> SUFFICES ASSUME ReaderInv, RetainingInv  PROVE RetainedLongitudes
    OBVIOUS
  <1>1. CASE pc \in {"feature", "position"}
    <2>1. /\ Holding /\ Streaming(TheItems, features, bounds)
          /\ ~disk.there => disk.data = <<>>
      BY <1>1, NowBetween, NowLooking DEF ReaderInv, FeaturesRead, Gathered
    <2>2. bounds.bbox = BoxRead /\ InOrder(Passed, bounds, disk)
      <3>1. CASE pc = "feature"
        <4>1. Passed = Passes(TheItems, Gone(features, TheItems))
          BY <2>1, <3>1, PassedBetween DEF Streaming
        <4> QED
          BY <3>1, <4>1 DEF RetainingInv
      <3>2. CASE pc = "position"
        <4>1. features # <<>>
          BY <3>2, NowLooking
        <4>2. Head(features) = TheItems[Gone(features, TheItems) + 1]
          BY <2>1, <4>1, NextFeature
        <4>3. Passed = Passes(TheItems, Gone(features, TheItems)) \o Part(Head(features), positions)
          BY <3>2, <4>2, PassedIs
        <4> QED
          BY <3>2, <4>3 DEF RetainingInv
      <3> QED
        BY <1>1, <3>1, <3>2
    <2>3. <<>> \o <<>> = <<>>
      <3>1. <<>> \in Seq({})
        OBVIOUS
      <3> QED
        BY <3>1, ConcatEmptySeq
    <2> QED
      BY <1>1, <2>1, <2>2, <2>3 DEF RetainedLongitudes, InOrder
  <1>2. CASE pc \in {"rewind", "reread"}
    <2>1. Holding
      BY <1>2, NowFinishing
    <2>2. features = <<>> /\ disk.data \o bounds.longitudes = Passes(TheItems, Len(TheItems))
      BY <1>2 DEF RetainingInv
    <2>3. IsRest(<<>>, TheItems) /\ Gone(<<>>, TheItems) = Len(TheItems)
      BY <2>1, ItemsFacts, RestNone
    <2>4. Passed = Passes(TheItems, Len(TheItems))
      BY <1>2, <2>1, <2>2, <2>3, PassedBetween
    <2> QED
      BY <1>2, <2>2, <2>4 DEF RetainedLongitudes
  <1>3. CASE pc \notin {"feature", "position", "rewind", "reread"}
    BY <1>3 DEF RetainedLongitudes
  <1> QED
    BY <1>1, <1>2, <1>3

(* The longitudes read so far are all kept, each once and in order, first   *)
(* in memory and beyond the limit in the file, for the box the reader may   *)
(* still meet (jsonFeatureCollectionBounds.addLongitude, spill).            *)
THEOREM RetainedLongitudesCorrect == Spec => []RetainedLongitudes
  <1>1. Init => ReaderInv /\ RetainingInv
    <2>1. Init => RetainingInv
      BY DEF Init, RetainingInv
    <2> QED
      BY <2>1, InitHolds
  <1>2. ReaderInv /\ RetainingInv /\ [Next]_vars => (ReaderInv /\ RetainingInv)'
    BY ReaderStep, RetainingStep
  <1> QED
    BY <1>1, <1>2, RetainingIs, PTL DEF Spec

-----------------------------------------------------------------------------
(* What the callback has been given.                                        *)

(* Of each element, value and record what it is to be given.                *)
ElementsGiven(v) == [i \in DOMAIN v.elements |-> Deliverable(v.elements[i], FALSE)]
ValuesGiven(r) == [k \in DOMAIN r.values |-> DeliverableValue(r.values[k])]
RecordsGiven(in) == [i \in DOMAIN in.records |-> FlattenSeq(ValuesGiven(in.records[i]))]

(* What it is to be given before the current record, and before the element *)
(* or the value after so many.                                              *)
BeforeRecord(in, rs) == Flat(RecordsGiven(in), Gone(rs, in.records))
BeforeValue(in, rs, n) == BeforeRecord(in, rs) \o Flat(ValuesGiven(Head(rs)), n)
BeforeElement(in, rs, c, n) ==
    BeforeValue(in, rs, c - 1) \o Flat(ElementsGiven(InHand(rs, c)), n)

BeforeObject(in, rs, c, es, allowed) ==
    IF allowed THEN BeforeValue(in, rs, c - 1)
    ELSE BeforeElement(in, rs, c, Gone(es, InHand(rs, c).elements) - 1)

Before == BeforeObject(input, records, count, elements, object.allowed)

DeliveringInv ==
    /\ pc = "start" => visited = <<>>
    /\ pc = "record" => visited = BeforeRecord(input, records)
    /\ pc = "value" => visited = BeforeValue(input, records, count)
    /\ pc = "element" =>
         visited = BeforeElement(input, records, count, Gone(elements, InHand(records, count).elements))
    /\ pc = "member" /\ ~object.streamed => visited = Before
    /\ pc \in {"feature", "position"} =>
         visited = Before \o SubSeq(TheItems, 1, Gone(features, TheItems))
    /\ (pc = "member" /\ object.streamed) \/ pc \in {"finish", "rewind", "reread"} =>
         visited = Before \o TheItems
    /\ pc = "close" =>
         /\ Begins(visited, Before \o Deliverable(object.value, object.allowed))
         /\ verdict = "ok" => visited = Before \o Deliverable(object.value, object.allowed)
    /\ VisitedInOrder

-----------------------------------------------------------------------------
(* An object.                                                               *)

(* What an object gives to the callback is a sequence: the feature itself   *)
(* where it is one.                                                         *)
LEMMA DeliverableFacts ==
  ASSUME NEW o, IsObject(o), NEW a
  PROVE  /\ IsSeq(Deliverable(o, a))
         /\ o.kind = "object" /\ o.type # "FeatureCollection" => Deliverable(o, a) = <<o.feature>>
  <1>1. IsSeq(<<>>) /\ IsSeq(<<o.feature>>)
    <2>1. <<>> \in Seq({}) /\ <<o.feature>> \in Seq({o.feature})
      OBVIOUS
    <2> QED
      BY <2>1 DEF IsSeq
  <1> DEFINE items == o.features.items
             sound == {n \in 0..Len(items) : \A i \in 1..n : SoundFeature(items[i])}
  <1>2. CASE o.kind = "object" /\ o.type = "FeatureCollection" /\ a /\ o.features.list
    <2>1. IsSeq(items) /\ Len(items) \in Nat
      BY <1>2, CollectionFacts
    <2>2. Deliverable(o, a) = SubSeq(items, 1, Max(sound))
      BY <1>2, Zenon DEF Deliverable
    <2>3. 0 \in sound /\ sound \subseteq 0..Len(items)
      <3> HIDE DEF items
      <3> QED
        BY <2>1, NoIndex
    <2> HIDE DEF items, sound
    <2>4. Max(sound) \in 0..Len(items)
      BY <2>1, <2>3, Largest
    <2> QED
      BY <1>2, <2>1, <2>2, <2>4, FirstItems
  <1> QED
    BY <1>1, <1>2 DEF Deliverable

(* The features of a collection up to one that is not sound.                *)
LEMMA DeliverableItems ==
  ASSUME NEW o, IsObject(o), o.kind = "object", o.type = "FeatureCollection",
         o.features.list, NEW n \in 0..Len(o.features.items),
         \A i \in 1..n : SoundFeature(o.features.items[i])
  PROVE  /\ Begins(SubSeq(o.features.items, 1, n), Deliverable(o, TRUE))
         /\ n = Len(o.features.items) => Deliverable(o, TRUE) = o.features.items
  <1> DEFINE items == o.features.items
             sound == {k \in 0..Len(items) : \A i \in 1..k : SoundFeature(items[i])}
  <1>1. IsSeq(items) /\ Len(items) \in Nat
    BY CollectionFacts
  <1>2. Deliverable(o, TRUE) = SubSeq(items, 1, Max(sound))
    BY Zenon DEF Deliverable
  <1>3. n \in sound /\ sound \subseteq 0..Len(items)
    OBVIOUS
  <1>4. n \in 0..Len(items)
    OBVIOUS
  <1> HIDE DEF items, sound
  <1>5. Max(sound) \in 0..Len(items) /\ n <= Max(sound)
    BY <1>1, <1>3, Largest
  <1>6. n \in 0..Max(sound)
    BY <1>1, <1>4, <1>5
  <1>7. Begins(SubSeq(items, 1, n), SubSeq(items, 1, Max(sound)))
    BY <1>1, <1>5, <1>6, FirstBegins
  <1>8. n = Len(items) => SubSeq(items, 1, Max(sound)) = items
    <2> SUFFICES ASSUME n = Len(items)  PROVE SubSeq(items, 1, Max(sound)) = items
      OBVIOUS
    <2>1. Max(sound) = Len(items)
      BY <1>1, <1>5
    <2> QED
      BY <1>1, <1>4, <2>1, FirstItems
  <1> QED
    BY <1>2, <1>7, <1>8 DEF items

-----------------------------------------------------------------------------
(* A value, a record and the whole input.                                   *)

(* An array is given what its elements are to be given.                     *)
LEMMA ElementsFacts ==
  ASSUME NEW v, IsValue(v), v.kind = "array"
  PROVE  /\ \A i \in 1..Len(v.elements) :
              /\ IsSeq(ElementsGiven(v)[i])
              /\ ElementsGiven(v)[i] = Deliverable(v.elements[i], FALSE)
         /\ DeliverableValue(v) = Flat(ElementsGiven(v), Len(v.elements))
         /\ Len(v.elements) \in Nat /\ IsSeq(DeliverableValue(v))
  <1>1. IsSeq(v.elements) /\ \A i \in DOMAIN v.elements : IsObject(v.elements[i])
    BY ListedIsSeq DEF IsValue
  <1>2. DOMAIN v.elements = 1..Len(v.elements) /\ Len(v.elements) \in Nat
    BY <1>1, SeqFacts
  <1>3. ASSUME NEW i \in 1..Len(v.elements)
        PROVE  /\ IsSeq(ElementsGiven(v)[i])
               /\ ElementsGiven(v)[i] = Deliverable(v.elements[i], FALSE)
    <2>1. ElementsGiven(v)[i] = Deliverable(v.elements[i], FALSE)
      BY <1>2 DEF ElementsGiven
    <2> QED
      BY <1>1, <1>2, <2>1, DeliverableFacts
  <1>4. DeliverableValue(v) = Flat(ElementsGiven(v), Len(v.elements))
    <2>1. [i \in 1..Len(v.elements) |-> ElementsGiven(v)[i]]
            = [i \in DOMAIN v.elements |-> Deliverable(v.elements[i], FALSE)]
      BY <1>2 DEF ElementsGiven
    <2> QED
      BY <2>1 DEF DeliverableValue, Flat
  <1>5. IsSeq(Flat(ElementsGiven(v), Len(v.elements)))
    BY <1>2, <1>3, FlatType
  <1> QED
    BY <1>2, <1>3, <1>4, <1>5

(* What a value gives is a sequence: that of its object where it is no      *)
(* array.                                                                   *)
LEMMA ValueFacts ==
  ASSUME NEW v, IsValue(v)
  PROVE  /\ IsSeq(DeliverableValue(v))
         /\ v.kind # "array" => DeliverableValue(v) = Deliverable(v, TRUE)
  <1>1. IsObject(v)
    BY DEF IsValue
  <1>2. v.kind # "array" => DeliverableValue(v) = Deliverable(v, TRUE)
    BY DEF DeliverableValue
  <1> QED
    BY <1>1, <1>2, ElementsFacts, DeliverableFacts

(* What the values of a record give, one by one and in all.                 *)
LEMMA ValuesFacts ==
  ASSUME NEW r, IsSeq(r.values), \A k \in DOMAIN r.values : IsValue(r.values[k])
  PROVE  /\ \A k \in 1..Len(r.values) :
              IsSeq(ValuesGiven(r)[k]) /\ ValuesGiven(r)[k] = DeliverableValue(r.values[k])
         /\ FlattenSeq(ValuesGiven(r)) = Flat(ValuesGiven(r), Len(r.values))
         /\ Len(r.values) \in Nat /\ IsSeq(FlattenSeq(ValuesGiven(r)))
  <1>1. DOMAIN r.values = 1..Len(r.values) /\ Len(r.values) \in Nat
    BY SeqFacts
  <1>2. ASSUME NEW k \in 1..Len(r.values)
        PROVE  IsSeq(ValuesGiven(r)[k]) /\ ValuesGiven(r)[k] = DeliverableValue(r.values[k])
    <2>1. ValuesGiven(r)[k] = DeliverableValue(r.values[k])
      BY <1>1 DEF ValuesGiven
    <2> QED
      BY <1>1, <2>1, ValueFacts
  <1>3. FlattenSeq(ValuesGiven(r)) = Flat(ValuesGiven(r), Len(r.values))
    <2>1. [k \in 1..Len(r.values) |-> ValuesGiven(r)[k]] = ValuesGiven(r)
      BY <1>1 DEF ValuesGiven
    <2> QED
      BY <2>1 DEF Flat
  <1>4. IsSeq(Flat(ValuesGiven(r), Len(r.values)))
    BY <1>1, <1>2, FlatType
  <1> QED
    BY <1>1, <1>2, <1>3, <1>4

(* The whole input.                                                         *)
GivenIn(in) == Flat(RecordsGiven(in), Len(in.records))

(* What the records of an input give, one by one.                           *)
LEMMA RecordsFacts ==
  ASSUME NEW in \in Inputs
  PROVE  /\ \A i \in 1..Len(in.records) :
              /\ IsSeq(RecordsGiven(in)[i])
              /\ RecordsGiven(in)[i] = FlattenSeq(ValuesGiven(in.records[i]))
         /\ Len(in.records) \in Nat /\ IsSeq(GivenIn(in))
  <1>1. IsInput(in)
    BY ReaderAssumption
  <1>2. IsSeq(in.records)
    BY <1>1, ListedIsSeq DEF IsInput
  <1>3. DOMAIN in.records = 1..Len(in.records) /\ Len(in.records) \in Nat
    BY <1>2, SeqFacts
  <1>4. ASSUME NEW i \in 1..Len(in.records)
        PROVE  /\ IsSeq(RecordsGiven(in)[i])
               /\ RecordsGiven(in)[i] = FlattenSeq(ValuesGiven(in.records[i]))
    <2>1. RecordsGiven(in)[i] = FlattenSeq(ValuesGiven(in.records[i]))
      BY <1>3 DEF RecordsGiven
    <2>2. /\ IsSeq(in.records[i].values)
          /\ \A k \in DOMAIN in.records[i].values : IsValue(in.records[i].values[k])
      BY <1>1, <1>3, ListedIsSeq DEF IsInput
    <2> QED
      BY <2>1, <2>2, ValuesFacts
  <1>5. IsSeq(GivenIn(in))
    BY <1>3, <1>4, FlatType DEF GivenIn
  <1> QED
    BY <1>3, <1>4, <1>5

(* What an input is to give is what its records give.                       *)
LEMMA DeliverableInputIs ==
  ASSUME NEW in \in Inputs
  PROVE  FlattenSeq(RecordsGiven(in)) = GivenIn(in)
  <1>1. DOMAIN in.records = 1..Len(in.records)
    <2>1. IsInput(in)
      BY ReaderAssumption
    <2> QED
      BY <2>1, ListedIsSeq, SeqFacts DEF IsInput
  <1>2. [i \in 1..Len(in.records) |-> RecordsGiven(in)[i]] = RecordsGiven(in)
    BY <1>1 DEF RecordsGiven
  <1> QED
    BY <1>2 DEF GivenIn, Flat

-----------------------------------------------------------------------------
(* What comes before begins what is to be given.                            *)

(* What is given before a record begins what the input is to give.          *)
LEMMA RecordBefore ==
  ASSUME NEW in, NEW rs, AtRecord(in, rs)
  PROVE  /\ IsSeq(BeforeRecord(in, rs)) /\ IsSeq(GivenIn(in))
         /\ Len(Head(rs).values) \in Nat
         /\ BeforeValue(in, rs, Len(Head(rs).values)) = BeforeRecord(in, Tail(rs))
         /\ Begins(BeforeValue(in, rs, Len(Head(rs).values)), GivenIn(in))
         /\ Len(rs) = 1 => BeforeValue(in, rs, Len(Head(rs).values)) = GivenIn(in)
  <1> DEFINE ss == RecordsGiven(in)
             n == Gone(rs, in.records)
             m == Len(in.records)
             r == Head(rs)
  <1>1. /\ m \in Nat /\ IsSeq(GivenIn(in))
        /\ \A i \in 1..m : IsSeq(ss[i]) /\ ss[i] = FlattenSeq(ValuesGiven(in.records[i]))
    BY RecordsFacts DEF AtRecord
  <1>2. n \in Nat /\ n + 1 \in 1..m /\ r = in.records[n + 1]
    BY RestBounds, RestTail DEF AtRecord
  <1>3. /\ Len(r.values) \in Nat
        /\ FlattenSeq(ValuesGiven(r)) = Flat(ValuesGiven(r), Len(r.values))
    BY RecordFacts, ValuesFacts
  <1>4. Len(rs) = 1 => n + 1 = m
    <2>1. Len(in.records) = Gone(rs, in.records) + Len(rs)
      BY RestBounds DEF AtRecord
    <2> QED
      BY <2>1, <1>2
  <1>5. GivenIn(in) = Flat(ss, m)
    BY DEF GivenIn
  <1>6. BeforeRecord(in, rs) = Flat(ss, n)
    BY DEF BeforeRecord
  <1>14. BeforeRecord(in, Tail(rs)) = Flat(ss, n + 1)
    <2>1. Gone(Tail(rs), in.records) = n + 1
      BY RestTail DEF AtRecord
    <2> QED
      BY <2>1 DEF BeforeRecord
  <1>7. BeforeValue(in, rs, Len(r.values)) = Flat(ss, n) \o Flat(ValuesGiven(r), Len(r.values))
    BY <1>6 DEF BeforeValue
  <1>8. ss[n + 1] = Flat(ValuesGiven(r), Len(r.values))
    BY <1>1, <1>2, <1>3
  <1> HIDE DEF ss, n, m, r
  <1>9. n + 1 \in 0..m /\ \A i \in 1..n : i \in 1..m
    BY <1>1, <1>2
  <1>10. IsSeq(Flat(ss, n))
    BY <1>1, <1>2, <1>9, FlatType
  <1>11. Flat(ss, n + 1) = Flat(ss, n) \o ss[n + 1]
    BY <1>1, <1>2, FlatMore
  <1>12. Begins(Flat(ss, n + 1), Flat(ss, m))
    BY <1>1, <1>9, FlatBegins
  <1>13. BeforeValue(in, rs, Len(r.values)) = Flat(ss, n + 1)
    BY <1>7, <1>8, <1>11
  <1> QED
    BY <1>1, <1>3, <1>4, <1>5, <1>6, <1>10, <1>12, <1>13, <1>14 DEF ss, n, r

(* The values before one, that one, and those after it.                     *)
LEMMA ValueBefore ==
  ASSUME NEW in, NEW rs, AtRecord(in, rs), NEW n \in 0..Len(Head(rs).values)
  PROVE  /\ IsSeq(BeforeValue(in, rs, n)) /\ Begins(BeforeValue(in, rs, n), GivenIn(in))
         /\ BeforeValue(in, rs, 0) = BeforeRecord(in, rs)
         /\ n # 0 => BeforeValue(in, rs, n)
                       = BeforeValue(in, rs, n - 1) \o DeliverableValue(InHand(rs, n))
  <1> DEFINE ss == ValuesGiven(Head(rs))
             m == Len(Head(rs).values)
             b == BeforeRecord(in, rs)
  <1>1. /\ m \in Nat
        /\ \A i \in 1..m : IsSeq(ss[i]) /\ ss[i] = DeliverableValue(InHand(rs, i))
    BY RecordFacts, ValuesFacts DEF InHand
  <1>2. /\ IsSeq(b) /\ IsSeq(GivenIn(in)) /\ Begins(BeforeValue(in, rs, m), GivenIn(in))
    BY RecordBefore
  <1>3. \A k : BeforeValue(in, rs, k) = b \o Flat(ss, k)
    BY DEF BeforeValue
  <1>4. n \in 0..m
    OBVIOUS
  <1> HIDE DEF ss, m, b
  <1>5. n \in Nat /\ \A i \in 1..n : i \in 1..m
    BY <1>1, <1>4
  <1>6. IsSeq(Flat(ss, n)) /\ IsSeq(Flat(ss, m))
    BY <1>1, <1>5, FlatType
  <1>7. IsSeq(BeforeValue(in, rs, n)) /\ IsSeq(BeforeValue(in, rs, m))
    BY <1>2, <1>3, <1>6, ConcatSeq
  <1>8. Begins(Flat(ss, n), Flat(ss, m))
    BY <1>1, <1>4, FlatBegins
  <1>9. Begins(BeforeValue(in, rs, n), BeforeValue(in, rs, m))
    BY <1>2, <1>3, <1>6, <1>8, BeginsAfter
  <1>10. Begins(BeforeValue(in, rs, n), GivenIn(in))
    BY <1>2, <1>7, <1>9, BeginsFurther
  <1>11. BeforeValue(in, rs, 0) = b
    <2>1. Flat(ss, 0) = <<>> /\ b \o <<>> = b
      BY <1>2, FlatNothing, ConcatNothing
    <2> QED
      BY <1>3, <2>1
  <1>12. ASSUME n # 0
         PROVE  BeforeValue(in, rs, n) = BeforeValue(in, rs, n - 1) \o DeliverableValue(InHand(rs, n))
    <2> DEFINE k == n - 1
    <2>1. k \in Nat /\ k + 1 = n /\ n \in 1..m /\ \A i \in 1..k + 1 : i \in 1..m
      BY <1>1, <1>4, <1>12
    <2> HIDE DEF k
    <2>2. IsSeq(ss[k + 1]) /\ ss[k + 1] = DeliverableValue(InHand(rs, n))
      BY <1>1, <2>1
    <2>3. \A i \in 1..k + 1 : IsSeq(ss[i])
      BY <1>1, <2>1
    <2>4. b \o Flat(ss, k + 1) = (b \o Flat(ss, k)) \o ss[k + 1]
      <3> DEFINE s == ss[k + 1]
                 t == Flat(ss, k)
      <3>1. \A i \in 1..k : i \in 1..k + 1
        BY <2>1
      <3>2. IsSeq(s) /\ IsSeq(t) /\ Flat(ss, k + 1) = t \o s
        BY <2>1, <2>2, <2>3, <3>1, FlatType, FlatMore
      <3> HIDE DEF s, t
      <3>3. (b \o t) \o s = b \o (t \o s)
        BY <1>2, <3>2, ConcatThree
      <3> QED
        BY <3>2, <3>3 DEF s, t
    <2>6. BeforeValue(in, rs, k + 1) = BeforeValue(in, rs, k) \o ss[k + 1]
      BY <1>3, <2>4
    <2> QED
      BY <2>1, <2>2, <2>6 DEF k
  <1> QED
    BY <1>7, <1>10, <1>11, <1>12 DEF b

(* One sequence and then another.                                          *)
Follows(s, d, t) == t = s \o d

(* The elements before one, that one, and those after it.                   *)
LEMMA ElementBefore ==
  ASSUME NEW in, NEW rs, AtRecord(in, rs), NEW c \in 1..Len(Head(rs).values),
         IsValue(InHand(rs, c)), InHand(rs, c).kind = "array",
         NEW n \in 0..Len(InHand(rs, c).elements)
  PROVE  /\ IsSeq(BeforeElement(in, rs, c, n))
         /\ Begins(BeforeElement(in, rs, c, n), GivenIn(in))
         /\ BeforeElement(in, rs, c, 0) = BeforeValue(in, rs, c - 1)
         /\ BeforeElement(in, rs, c, Len(InHand(rs, c).elements)) = BeforeValue(in, rs, c)
         /\ n # 0 => Follows(BeforeElement(in, rs, c, n - 1),
                             Deliverable(InHand(rs, c).elements[n], FALSE),
                             BeforeElement(in, rs, c, n))
  <1> DEFINE v == InHand(rs, c)
             ss == ElementsGiven(v)
             m == Len(v.elements)
             b == BeforeValue(in, rs, c - 1)
  <1>1. /\ m \in Nat /\ DeliverableValue(v) = Flat(ss, m)
        /\ \A i \in 1..m : IsSeq(ss[i]) /\ ss[i] = Deliverable(v.elements[i], FALSE)
    BY ElementsFacts
  <1>2. /\ IsSeq(b) /\ IsSeq(BeforeValue(in, rs, c))
        /\ IsSeq(GivenIn(in)) /\ Begins(BeforeValue(in, rs, c), GivenIn(in))
        /\ BeforeValue(in, rs, c) = b \o DeliverableValue(v)
    <2>1. Len(Head(rs).values) \in Nat /\ IsSeq(GivenIn(in))
      BY RecordBefore
    <2>2. c \in 0..Len(Head(rs).values) /\ c - 1 \in 0..Len(Head(rs).values) /\ c # 0
      BY <2>1
    <2> QED
      BY <2>1, <2>2, ValueBefore
  <1>3. \A k : BeforeElement(in, rs, c, k) = b \o Flat(ss, k)
    BY DEF BeforeElement
  <1>4. n \in 0..m
    OBVIOUS
  <1> HIDE DEF ss, m, b, v
  <1>5. n \in Nat /\ \A i \in 1..n : i \in 1..m
    BY <1>1, <1>4
  <1>6. IsSeq(Flat(ss, n)) /\ IsSeq(Flat(ss, m))
    BY <1>1, <1>5, FlatType
  <1>7. IsSeq(BeforeElement(in, rs, c, n))
    BY <1>2, <1>3, <1>6, ConcatSeq
  <1>8. BeforeElement(in, rs, c, m) = BeforeValue(in, rs, c)
    BY <1>1, <1>2, <1>3
  <1>9. Begins(Flat(ss, n), Flat(ss, m))
    BY <1>1, <1>4, FlatBegins
  <1>10. Begins(BeforeElement(in, rs, c, n), BeforeElement(in, rs, c, m))
    BY <1>2, <1>3, <1>6, <1>9, BeginsAfter
  <1>11. Begins(BeforeElement(in, rs, c, n), GivenIn(in))
    BY <1>2, <1>7, <1>8, <1>10, BeginsFurther
  <1>12. BeforeElement(in, rs, c, 0) = b
    <2>1. Flat(ss, 0) = <<>> /\ b \o <<>> = b
      BY <1>2, FlatNothing, ConcatNothing
    <2> QED
      BY <1>3, <2>1
  <1>13. ASSUME n # 0
         PROVE  Follows(BeforeElement(in, rs, c, n - 1), Deliverable(v.elements[n], FALSE),
                        BeforeElement(in, rs, c, n))
    <2> DEFINE k == n - 1
    <2>1. k \in Nat /\ k + 1 = n /\ n \in 1..m /\ \A i \in 1..k + 1 : i \in 1..m
      BY <1>1, <1>4, <1>13
    <2> HIDE DEF k
    <2>2. IsSeq(ss[k + 1]) /\ ss[k + 1] = Deliverable(v.elements[n], FALSE)
      BY <1>1, <2>1
    <2>3. \A i \in 1..k + 1 : IsSeq(ss[i])
      BY <1>1, <2>1
    <2>4. b \o Flat(ss, k + 1) = (b \o Flat(ss, k)) \o ss[k + 1]
      <3> DEFINE s == ss[k + 1]
                 t == Flat(ss, k)
      <3>1. \A i \in 1..k : i \in 1..k + 1
        BY <2>1
      <3>2. IsSeq(s) /\ IsSeq(t) /\ Flat(ss, k + 1) = t \o s
        BY <2>1, <2>2, <2>3, <3>1, FlatType, FlatMore
      <3> HIDE DEF s, t
      <3>3. (b \o t) \o s = b \o (t \o s)
        <4>1. IsSeq(b) /\ IsSeq(s) /\ IsSeq(t)
          BY <1>2, <3>2
        <4> QED
          BY ONLY <4>1, ConcatThree
      <3> QED
        BY <3>2, <3>3 DEF s, t
    <2>6. BeforeElement(in, rs, c, k + 1) = BeforeElement(in, rs, c, k) \o ss[k + 1]
      BY <1>3, <2>4
    <2> QED
      BY <2>1, <2>2, <2>6 DEF k, Follows
  <1> QED
    BY <1>7, <1>8, <1>11, <1>12, <1>13 DEF b, m, v

(* What comes before an object, the object, and what comes after it.        *)
LEMMA ObjectBefore ==
  ASSUME NEW in, NEW rs, NEW vs, NEW c, NEW es, NEW o, NEW a \in BOOLEAN,
         AtObject(in, rs, vs, c, es, o, a)
  PROVE  LET b == BeforeObject(in, rs, c, es, a)
             d == Deliverable(o, a)
         IN /\ IsSeq(b) /\ IsSeq(d) /\ IsSeq(b \o d) /\ Begins(b \o d, GivenIn(in))
            /\ a => BeforeValue(in, rs, c) = b \o d
            /\ ~a => BeforeElement(in, rs, c, Gone(es, InHand(rs, c).elements)) = b \o d
  <1> DEFINE b == BeforeObject(in, rs, c, es, a)
             d == Deliverable(o, a)
             v == InHand(rs, c)
             g == Gone(es, v.elements)
  <1>1. AtValue(in, rs, vs, c, c - 1) /\ c >= 1 /\ AtRecord(in, rs) /\ o.kind = "object"
    BY DEF AtObject, AtElement, AtValue
  <1>2. c \in DOMAIN Head(rs).values /\ c \in Nat /\ IsValue(v)
    BY <1>1, InHandFacts
  <1>3. DOMAIN Head(rs).values = 1..Len(Head(rs).values) /\ Len(Head(rs).values) \in Nat
    BY <1>1, RecordFacts, SeqFacts
  <1>4. c \in 1..Len(Head(rs).values) /\ c \in 0..Len(Head(rs).values)
        /\ c - 1 \in 0..Len(Head(rs).values) /\ c # 0
    BY <1>2, <1>3
  <1>5. CASE a
    <2>1. o = v /\ b = BeforeValue(in, rs, c - 1)
      BY <1>5 DEF AtObject, BeforeObject
    <2>2. IsObject(o) /\ d = DeliverableValue(v)
      BY <1>1, <1>2, <1>5, <2>1, ValueFacts, Zenon DEF IsValue
    <2>3. IsSeq(d)
      BY <1>2, <2>2, ValueFacts
    <2>4. IsSeq(b) /\ BeforeValue(in, rs, c) = b \o d /\ IsSeq(BeforeValue(in, rs, c))
          /\ Begins(BeforeValue(in, rs, c), GivenIn(in))
      <3> HIDE DEF d, v, b
      <3>1. IsSeq(BeforeValue(in, rs, c - 1))
        BY <1>1, <1>4, ValueBefore
      <3>2. /\ IsSeq(BeforeValue(in, rs, c)) /\ Begins(BeforeValue(in, rs, c), GivenIn(in))
            /\ BeforeValue(in, rs, c) = BeforeValue(in, rs, c - 1) \o DeliverableValue(InHand(rs, c))
        BY <1>1, <1>4, ValueBefore
      <3> QED
        BY <2>1, <2>2, <3>1, <3>2 DEF v
    <2> QED
      BY <1>5, <2>3, <2>4
  <1>6. CASE ~a
    <2>1. /\ AtElement(in, rs, vs, c, es, g - 1) /\ g >= 1 /\ o = v.elements[g]
      BY <1>6 DEF AtObject
    <2>2. v.kind = "array" /\ IsRest(es, v.elements)
      BY <2>1 DEF AtElement
    <2>3. g \in Nat /\ g <= Len(v.elements) /\ Len(v.elements) \in Nat
          /\ DOMAIN v.elements = 1..Len(v.elements)
      BY <2>2, RestBounds
    <2>4. b = BeforeElement(in, rs, c, g - 1)
      BY <1>6 DEF BeforeObject
    <2> HIDE DEF g
    <2>5. g \in 1..Len(v.elements) /\ g \in 0..Len(v.elements) /\ g - 1 \in 0..Len(v.elements)
          /\ g # 0
      BY <2>1, <2>3
    <2>6. d = Deliverable(v.elements[g], FALSE)
      BY <1>6, <2>1
    <2>7. IsSeq(d)
      <3>1. IsObject(o)
        BY <1>2, <2>1, <2>2, <2>3, <2>5 DEF IsValue
      <3> QED
        BY <3>1, DeliverableFacts
    <2> HIDE DEF d, b, v
    <2>8. IsSeq(BeforeElement(in, rs, c, g - 1))
      BY <1>1, <1>2, <1>4, <2>2, <2>5, ElementBefore DEF v
    <2>9. /\ IsSeq(BeforeElement(in, rs, c, g)) /\ Begins(BeforeElement(in, rs, c, g), GivenIn(in))
          /\ BeforeElement(in, rs, c, g)
               = BeforeElement(in, rs, c, g - 1) \o Deliverable(InHand(rs, c).elements[g], FALSE)
      <3>1. /\ AtRecord(in, rs) /\ c \in 1..Len(Head(rs).values) /\ IsValue(InHand(rs, c))
            /\ InHand(rs, c).kind = "array" /\ g \in 0..Len(InHand(rs, c).elements) /\ g # 0
        BY <1>1, <1>2, <1>4, <2>2, <2>5 DEF v
      <3>2. IsSeq(BeforeElement(in, rs, c, g))
        BY <3>1, ElementBefore
      <3>3. Begins(BeforeElement(in, rs, c, g), GivenIn(in))
        BY <3>1, ElementBefore
      <3>4. Follows(BeforeElement(in, rs, c, g - 1),
                    Deliverable(InHand(rs, c).elements[g], FALSE), BeforeElement(in, rs, c, g))
        BY <3>1, ElementBefore
      <3> QED
        BY <3>2, <3>3, <3>4 DEF Follows
    <2>10. BeforeElement(in, rs, c, g) = b \o d
      BY <2>4, <2>6, <2>9 DEF v
    <2> QED
      BY <1>6, <2>4, <2>7, <2>8, <2>9, <2>10 DEF b, d, g, v
  <1> QED
    BY <1>5, <1>6

-----------------------------------------------------------------------------
(* What the callback has been given, at each point of the reader.           *)

(* What it has to have been given for VisitedInOrder to hold.               *)
LEMMA Ordered ==
  ASSUME input' \in Inputs, NEW v, visited' = v, IsSeq(v), Begins(v, GivenIn(input')),
         pc' = "done" /\ verdict' = "ok" => v = GivenIn(input')
  PROVE  VisitedInOrder'
  <1>1. DeliverableInput' = FlattenSeq(RecordsGiven(input'))
    BY DEF DeliverableInput, RecordsGiven, ValuesGiven
  <1>2. DeliverableInput' = GivenIn(input')
    BY <1>1, DeliverableInputIs
  <1>3. IsPrefix(v, GivenIn(input'))
    BY BeginsPrefix
  <1> QED
    BY <1>2, <1>3 DEF VisitedInOrder

(* As long as nothing is given the order is kept.                           *)
LEMMA OrderedStays ==
  ASSUME VisitedInOrder, input' = input, visited' = visited,
         ~(pc' = "done" /\ verdict' = "ok")
  PROVE  VisitedInOrder'
  <1>1. DeliverableInput' = DeliverableInput
    BY DEF DeliverableInput
  <1> QED
    BY <1>1 DEF VisitedInOrder

(* Where there is no object in hand.                                        *)
LEMMA ToDoneOrdered ==
  ASSUME pc' = "done", VisitedInOrder'
  PROVE  DeliveringInv'
  BY DEF DeliveringInv

(* What a step to the next record has to show.                              *)
LEMMA ToRecordOrdered ==
  ASSUME pc' = "record", AtRecord(input', records'), NEW v, visited' = v,
         v = BeforeRecord(input', records')
  PROVE  DeliveringInv'
  <1>1. AtRecord(input', records') /\ IsSeq(v)
    BY RecordBefore
  <1>2. Len(Head(records').values) \in Nat
    BY RecordBefore
  <1>3. Begins(v, GivenIn(input'))
    <2>1. 0 \in 0..Len(Head(records').values)
      BY <1>2
    <2> QED
      BY <2>1, ValueBefore
  <1>4. VisitedInOrder'
    BY <1>1, <1>3, Ordered DEF AtRecord
  <1> QED
    BY <1>4 DEF DeliveringInv

(* What a step to the next value has to show.                               *)
LEMMA ToValueOrdered ==
  ASSUME pc' = "value", AtRecord(input', records'),
         count' \in 0..Len(Head(records').values), NEW v, visited' = v,
         v = BeforeValue(input', records', count')
  PROVE  DeliveringInv'
  <1>1. IsSeq(v) /\ Begins(v, GivenIn(input'))
    BY ValueBefore
  <1>2. VisitedInOrder'
    BY <1>1, Ordered DEF AtRecord
  <1> QED
    BY <1>2 DEF DeliveringInv

(* What a step to the next element has to show.                             *)
LEMMA ToElementOrdered ==
  ASSUME pc' = "element",
         AtElement(input', records', values', count', elements',
                   Gone(elements', InHand(records', count').elements)),
         NEW v, visited' = v,
         v = BeforeElement(input', records', count',
                           Gone(elements', InHand(records', count').elements))
  PROVE  DeliveringInv'
  <1> DEFINE g == Gone(elements', InHand(records', count').elements)
  <1>1. /\ AtRecord(input', records') /\ InHand(records', count').kind = "array"
        /\ IsRest(elements', InHand(records', count').elements)
        /\ AtValue(input', records', values', count', count' - 1) /\ count' >= 1
    BY DEF AtElement, AtValue
  <1>2. /\ count' \in 1..Len(Head(records').values) /\ IsValue(InHand(records', count'))
    <2>1. /\ count' \in DOMAIN Head(records').values /\ count' \in Nat
          /\ IsValue(InHand(records', count'))
      BY <1>1, InHandFacts
    <2>2. DOMAIN Head(records').values = 1..Len(Head(records').values)
      BY <1>1, RecordFacts, SeqFacts
    <2> QED
      BY <2>1, <2>2
  <1>3. g \in 0..Len(InHand(records', count').elements)
    <2>1. g \in Nat /\ g <= Len(InHand(records', count').elements)
          /\ Len(InHand(records', count').elements) \in Nat
      BY <1>1, RestBounds
    <2> HIDE DEF g
    <2> QED
      BY <2>1
  <1> HIDE DEF g
  <1>4. IsSeq(v) /\ Begins(v, GivenIn(input'))
    BY <1>1, <1>2, <1>3, ElementBefore DEF g
  <1>5. VisitedInOrder'
    BY <1>1, <1>4, Ordered DEF AtRecord
  <1> QED
    BY <1>5 DEF DeliveringInv

-----------------------------------------------------------------------------
(* Where there is one.                                                      *)

(* Its features up to one that is not sound.                                *)
LEMMA CollectionGives ==
  ASSUME NEW b, IsSeq(b), NEW o, IsObject(o), o.kind = "object", o.type = "FeatureCollection",
         o.features.list, NEW n \in 0..Len(o.features.items),
         \A i \in 1..n : SoundFeature(o.features.items[i])
  PROVE  /\ IsSeq(b \o SubSeq(o.features.items, 1, n))
         /\ Begins(b \o SubSeq(o.features.items, 1, n), b \o Deliverable(o, TRUE))
         /\ n = Len(o.features.items) =>
              IsSeq(b \o o.features.items) /\ b \o o.features.items = b \o Deliverable(o, TRUE)
  <1> DEFINE items == o.features.items
             s == SubSeq(items, 1, n)
             d == Deliverable(o, TRUE)
  <1>1. IsSeq(items)
    BY CollectionFacts
  <1>2. IsSeq(d)
    BY DeliverableFacts
  <1>3. IsSeq(s)
    BY <1>1, FirstItems
  <1>4. Begins(s, d) /\ (n = Len(items) => d = items)
    BY DeliverableItems
  <1> HIDE DEF items, s, d
  <1>5. IsSeq(b \o s) /\ Begins(b \o s, b \o d)
    BY <1>3, <1>4, ConcatSeq, BeginsAfter
  <1>6. n = Len(items) => IsSeq(b \o items) /\ b \o items = b \o d
    BY <1>1, <1>4, ConcatSeq
  <1> QED
    BY <1>5, <1>6 DEF items, s, d

(* What a step within an object has to show.                                *)
LEMMA ObjectOrdered ==
  ASSUME pc' # "done", object'.allowed \in BOOLEAN,
         AtObject(input', records', values', count', elements', object'.value, object'.allowed),
         NEW v, visited' = v, IsSeq(v), NEW w, Begins(v, w),
         w = BeforeObject(input', records', count', elements', object'.allowed)
               \o Deliverable(object'.value, object'.allowed)
  PROVE  VisitedInOrder'
  <1>1. Begins(w, GivenIn(input'))
    BY ObjectBefore
  <1>2. Begins(v, GivenIn(input'))
    BY <1>1, BeginsFurther
  <1>3. input' \in Inputs
    BY DEF AtObject, AtElement, AtValue, AtRecord
  <1> QED
    BY <1>2, <1>3, Ordered

(* What is given before the object in hand, and what it gives.              *)
LEMMA HoldingGives ==
  ASSUME Holding
  PROVE  LET d == Deliverable(object.value, object.allowed)
         IN IsSeq(Before) /\ IsSeq(d) /\ IsSeq(Before \o d) /\ Begins(Before, Before \o d)
  <1> DEFINE b == Before
             d == Deliverable(object.value, object.allowed)
  <1>1. IsSeq(b) /\ IsSeq(d)
    BY ObjectBefore DEF Holding, ObjectFields, Before
  <1> HIDE DEF b, d
  <1>2. IsSeq(b \o d) /\ Begins(b, b \o d)
    BY <1>1, ConcatSeq, BeginsLonger
  <1> QED
    BY <1>1, <1>2 DEF b, d

(* The features of the collection in hand.                                  *)
LEMMA CollectingGives ==
  ASSUME Holding, Collecting, NEW n \in 0..Len(TheItems),
         \A i \in 1..n : SoundFeature(TheItems[i])
  PROVE  /\ IsSeq(Before \o SubSeq(TheItems, 1, n))
         /\ Begins(Before \o SubSeq(TheItems, 1, n),
                   Before \o Deliverable(object.value, object.allowed))
         /\ n = Len(TheItems) =>
              /\ IsSeq(Before \o TheItems)
              /\ Before \o TheItems = Before \o Deliverable(object.value, object.allowed)
  <1> DEFINE o == object.value
             b == Before
  <1>1. IsSeq(b) /\ IsObject(o) /\ o.kind = "object"
    BY HoldingGives DEF Holding, AtObject
  <1>2. o.type = "FeatureCollection" /\ o.features.list /\ TheItems = o.features.items
    BY DEF Collecting, IsCollection, TheItems
  <1>3. object.allowed = TRUE
    BY DEF Collecting, Holding, ObjectFields
  <1> HIDE DEF o, b
  <1>4. /\ n \in 0..Len(o.features.items)
        /\ \A i \in 1..n : SoundFeature(o.features.items[i])
    BY <1>2
  <1>5. /\ IsSeq(b \o SubSeq(o.features.items, 1, n))
        /\ Begins(b \o SubSeq(o.features.items, 1, n), b \o Deliverable(o, TRUE))
        /\ n = Len(o.features.items) =>
             IsSeq(b \o o.features.items) /\ b \o o.features.items = b \o Deliverable(o, TRUE)
    BY <1>1, <1>2, <1>4, CollectionGives
  <1> QED
    BY <1>2, <1>3, <1>5 DEF o, b

(* What has been given of the object in hand begins what it is to be given. *)
LEMMA SoFar ==
  ASSUME ReaderInv, DeliveringInv, InMembers
  PROVE  /\ IsSeq(visited) /\ Begins(visited, Before \o Deliverable(object.value, object.allowed))
         /\ Holding /\ VisitedInOrder
  <1>1. Holding /\ VisitedInOrder
    BY NowHolding DEF DeliveringInv
  <1>2. CASE pc = "member" /\ ~object.streamed
    BY <1>1, <1>2, HoldingGives DEF DeliveringInv
  <1>3. CASE pc \in {"feature", "position"}
    <2>1. Collecting /\ Streaming(TheItems, features, bounds)
      BY <1>3 DEF ReaderInv, FeaturesRead
    <2> DEFINE n == Gone(features, TheItems)
    <2>2. n \in 0..Len(TheItems) /\ \A i \in 1..n : SoundFeature(TheItems[i])
      <3>1. n \in Nat /\ n <= Len(TheItems) /\ Len(TheItems) \in Nat
        BY <2>1, RestBounds DEF Streaming
      <3>2. \A i \in 1..n : SoundFeature(TheItems[i])
        BY <2>1 DEF Streaming
      <3> HIDE DEF n
      <3> QED
        BY <3>1, <3>2
    <2>3. visited = Before \o SubSeq(TheItems, 1, n)
      BY <1>3 DEF DeliveringInv
    <2> HIDE DEF n
    <2> QED
      BY <1>1, <2>1, <2>2, <2>3, CollectingGives
  <1>4. CASE (pc = "member" /\ object.streamed) \/ pc \in {"finish", "rewind", "reread"}
    <2>1. Collecting /\ AllRead(TheItems, bounds)
      BY <1>4 DEF ReaderInv, CollectionRead
    <2> DEFINE n == Len(TheItems)
    <2>2. n \in Nat /\ DOMAIN TheItems = 1..n /\ IsSeq(Before \o Deliverable(object.value, object.allowed))
      BY <1>1, ItemsFacts, HoldingGives
    <2>3. \A i \in 1..n : SoundFeature(TheItems[i])
      BY <2>1, <2>2 DEF AllRead
    <2>4. visited = Before \o TheItems
      BY <1>4 DEF DeliveringInv
    <2>5. n \in 0..Len(TheItems) /\ n = Len(TheItems)
      BY <2>2
    <2> HIDE DEF n
    <2>6. /\ IsSeq(Before \o TheItems)
          /\ Before \o TheItems = Before \o Deliverable(object.value, object.allowed)
      BY <1>1, <2>1, <2>3, <2>5, CollectingGives
    <2> QED
      BY <1>1, <2>2, <2>4, <2>6, BeginsItself
  <1> QED
    BY <1>1, <1>2, <1>3, <1>4 DEF InMembers

(* An object that is left, with an error or without.                        *)
LEMMA ToCloseOrdered ==
  ASSUME ReaderInv, DeliveringInv, InMembers, pc' = "close", visited' = visited,
         UNCHANGED <<input, records, count, elements>>,
         object'.value = object.value, object'.allowed = object.allowed,
         verdict' = "ok" => visited = Before \o Deliverable(object.value, object.allowed)
  PROVE  DeliveringInv'
  <1>1. Begins(visited, Before \o Deliverable(object.value, object.allowed)) /\ VisitedInOrder
    BY SoFar
  <1>2. VisitedInOrder'
    BY <1>1, OrderedStays
  <1>3. Before' = Before
    BY DEF Before
  <1> QED
    BY <1>1, <1>2, <1>3 DEF DeliveringInv

(* Its features are entered, none of which has been given.                  *)
LEMMA EnteredOrdered ==
  ASSUME ReaderInv, DeliveringInv, pc = "member", ~object.streamed, Entering, visited' = visited,
         UNCHANGED <<input, records, count, elements>>,
         object'.value = object.value, object'.allowed = object.allowed
  PROVE  DeliveringInv'
  <1>1. InMembers
    BY DEF InMembers
  <1>2. Holding /\ VisitedInOrder
    BY <1>1, SoFar
  <1>3. IsSeq(TheItems) /\ IsSeq(Before)
    BY <1>2, ItemsFacts, HoldingGives
  <1>4. Before' = Before /\ TheItems' = TheItems
    BY DEF Before, TheItems
  <1>5. SubSeq(TheItems, 1, 0) = <<>>
    <2>1. 0 \in 0..Len(TheItems)
      BY <1>2, ItemsFacts
    <2> QED
      BY <1>3, <2>1, FirstItems
  <1>6. Gone(TheItems, TheItems) = 0
    BY <1>3, RestWhole
  <1>7. visited = Before \o SubSeq(TheItems, 1, Gone(TheItems, TheItems))
    <2>1. visited = Before
      BY DEF DeliveringInv
    <2> QED
      BY <1>3, <1>5, <1>6, <2>1, ConcatNothing
  <1>8. VisitedInOrder'
    BY <1>2, OrderedStays DEF Entering
  <1> QED
    BY <1>4, <1>7, <1>8 DEF DeliveringInv, Entering

-----------------------------------------------------------------------------
(* What the steps do to it.                                                 *)

(* At the start nothing has been given.                                     *)
LEMMA InitOrdered ==
  ASSUME Init
  PROVE  DeliveringInv
  <1>1. input \in Inputs /\ visited = <<>> /\ pc = "start"
    BY DEF Init
  <1>2. DeliverableInput = GivenIn(input)
    <2>1. DeliverableInput = FlattenSeq(RecordsGiven(input))
      BY DEF DeliverableInput, RecordsGiven, ValuesGiven
    <2> QED
      BY <1>1, <2>1, DeliverableInputIs
  <1>3. IsPrefix(<<>>, GivenIn(input))
    <2>1. IsSeq(GivenIn(input))
      BY <1>1, RecordsFacts
    <2>2. IsSeq(<<>>) /\ Begins(<<>>, GivenIn(input))
      BY <2>1, BeginsItself, ConcatNothing
    <2> QED
      BY <2>2, BeginsPrefix
  <1> QED
    BY <1>1, <1>2, <1>3 DEF DeliveringInv, VisitedInOrder

(* The order is kept once the input is opened,                              *)
LEMMA StartOrdered ==
  ASSUME ReaderInv, DeliveringInv, Start
  PROVE  DeliveringInv'
  <1>1. /\ pc = "start" /\ input' = input /\ records' = records /\ count' = count
        /\ visited' = visited /\ visited = <<>> /\ VisitedInOrder
        /\ records = input.records /\ count = 0
    BY DEF Start, DeliveringInv, ReaderInv, Place
  <1>2. ReaderInv'
    BY StartHolds
  <1>3. \/ pc' = "done" /\ verdict' = "no record separator"
        \/ pc' = "record" /\ AtRecord(input', records')
        \/ pc' = "value" /\ AtRecord(input', records')
    BY <1>2 DEF Start, Return, ReaderInv, Place, AtValue
  <1>4. ASSUME AtRecord(input', records')
        PROVE  <<>> = BeforeRecord(input', records') /\ <<>> = BeforeValue(input', records', 0)
               /\ 0 \in 0..Len(Head(records').values)
    <2>1. Gone(records', input'.records) = 0
      BY <1>1, <1>4, RestWhole DEF AtRecord, IsRest
    <2>2. BeforeRecord(input', records') = <<>>
      BY <2>1, FlatNothing DEF BeforeRecord
    <2>3. Len(Head(records').values) \in Nat
      BY <1>4, RecordBefore
    <2>4. 0 \in 0..Len(Head(records').values)
      BY <2>3
    <2> QED
      BY <1>4, <2>2, <2>4, ValueBefore
  <1>5. CASE pc' = "done"
    <2>1. VisitedInOrder'
      BY <1>1, <1>3, <1>5, OrderedStays
    <2> QED
      BY <1>5, <2>1, ToDoneOrdered
  <1>6. CASE pc' = "record"
    BY <1>1, <1>3, <1>4, <1>6, ToRecordOrdered
  <1>7. CASE pc' = "value"
    BY <1>1, <1>3, <1>4, <1>7, ToValueOrdered
  <1> QED
    BY <1>3, <1>5, <1>6, <1>7

(* once a record is read,                                                   *)
LEMMA ReadRecordOrdered ==
  ASSUME ReaderInv, DeliveringInv, ReadRecord
  PROVE  DeliveringInv'
  <1>1. /\ pc = "record" /\ input' = input /\ records' = records /\ visited' = visited
        /\ AtRecord(input, records) /\ visited = BeforeRecord(input, records) /\ VisitedInOrder
        /\ \/ pc' = "value" /\ count' = 0
           \/ pc' = "done" /\ verdict' = "bad record"
    BY DEF ReadRecord, Return, DeliveringInv, ReaderInv, Place
  <1>2. CASE pc' = "done" /\ verdict' = "bad record"
    <2>1. VisitedInOrder'
      BY <1>1, <1>2, OrderedStays
    <2> QED
      BY <1>2, <2>1, ToDoneOrdered
  <1>3. CASE pc' = "value" /\ count' = 0
    <2>1. Len(Head(records).values) \in Nat
      BY <1>1, RecordBefore
    <2>2. 0 \in 0..Len(Head(records).values)
      BY <2>1
    <2>3. visited = BeforeValue(input, records, 0)
      BY <1>1, <2>2, ValueBefore
    <2> QED
      BY <1>1, <1>3, <2>2, <2>3, ToValueOrdered
  <1> QED
    BY <1>1, <1>2, <1>3

(* and once the values of a record are over.                                *)
LEMMA EndRecordOrdered ==
  ASSUME ReaderInv, DeliveringInv, EndRecord
  PROVE  DeliveringInv'
  <1>1. /\ pc = "value" /\ values = <<>> /\ input' = input /\ visited' = visited
        /\ AtValue(input, records, values, count, count)
        /\ visited = BeforeValue(input, records, count) /\ VisitedInOrder
    BY DEF EndRecord, DeliveringInv, ReaderInv, Place
  <1>2. AtRecord(input, records) /\ count = Len(Head(records).values)
    <2>1. AtRecord(input, records) /\ IsSeq(Head(records).values)
      BY <1>1, RecordFacts DEF AtValue
    <2> QED
      BY <1>1, <2>1, RestNone DEF AtValue
  <1>3. /\ IsSeq(visited) /\ Begins(visited, GivenIn(input))
        /\ visited = BeforeRecord(input, Tail(records))
        /\ Len(records) = 1 => visited = GivenIn(input)
    <2> DEFINE w == BeforeValue(input, records, Len(Head(records).values))
    <2>1. visited = w
      BY <1>1, <1>2
    <2>3. IsSeq(w)
      <3>1. Len(Head(records).values) \in Nat
        BY <1>2, RecordBefore
      <3>2. Len(Head(records).values) \in 0..Len(Head(records).values)
        BY <3>1
      <3> QED
        BY <1>2, <3>2, ValueBefore
    <2>2. /\ Begins(w, GivenIn(input))
          /\ w = BeforeRecord(input, Tail(records))
          /\ Len(records) = 1 => w = GivenIn(input)
      BY <1>2, RecordBefore
    <2> HIDE DEF w
    <2> QED
      BY <2>1, <2>2, <2>3
  <1>4. CASE count = 0
    <2>1. pc' = "done" /\ verdict' = "empty"
      BY <1>4 DEF EndRecord, Return
    <2>2. VisitedInOrder'
      BY <1>1, <2>1, OrderedStays
    <2> QED
      BY <2>1, <2>2, ToDoneOrdered
  <1>5. count # 0 => count > 0
    <2>1. count \in Nat
      BY <1>2, RecordBefore
    <2> QED
      BY <2>1
  <1>6. CASE count > 0 /\ input.framed /\ Len(records) > 1
    <2>1. pc' = "record" /\ records' = Tail(records)
      <3>1. ~(count = 0)
        BY <1>6
      <3> QED
        BY <1>6, <3>1, Zenon DEF EndRecord
    <2>2. AtRecord(input', records')
      <3>1. ReaderInv'
        BY EndRecordHolds
      <3> QED
        BY <2>1, <3>1 DEF ReaderInv, Place
    <2> QED
      BY <1>1, <1>3, <2>1, <2>2, ToRecordOrdered
  <1>7. CASE count # 0 /\ ~(count > 0 /\ input.framed /\ Len(records) > 1)
    <2>1. pc' = "done" /\ verdict' = "ok"
      BY <1>7, Zenon DEF EndRecord, Return
    <2>2. Len(records) = 1
      <3>1. IsSeq(records) /\ records # <<>> /\ IsSeq(input.records)
            /\ Len(records) <= Len(input.records)
            /\ (~input.framed => Len(input.records) = 1)
        BY <1>2, RecordFacts DEF AtRecord, IsRest
      <3>2. Len(records) \in Nat /\ Len(records) # 0
        BY <3>1, SeqFacts
      <3>3. CASE input.framed
        <4>1. ~(Len(records) > 1)
          BY <1>5, <1>7, <3>3
        <4>2. \A n \in Nat : n # 0 /\ ~(n > 1) => n = 1
          OBVIOUS
        <4> QED
          BY <3>2, <4>1, <4>2, Zenon
      <3>4. CASE ~input.framed
        <4>1. Len(records) <= 1
          BY <3>1, <3>4
        <4>2. \A n \in Nat : n # 0 /\ n <= 1 => n = 1
          OBVIOUS
        <4> QED
          BY <3>2, <4>1, <4>2, Zenon
      <3> QED
        BY <3>3, <3>4, Zenon
    <2>3. visited = GivenIn(input)
      BY <1>3, <2>2
    <2>4. VisitedInOrder'
      BY <1>1, <1>2, <1>3, <2>1, <2>3, Ordered DEF AtRecord
    <2> QED
      BY <2>1, <2>4, ToDoneOrdered
  <1> QED
    BY <1>4, <1>6, <1>7

(* An object is begun.                                                      *)
LEMMA BeginOrdered ==
  ASSUME VisitedInOrder, NEW v, NEW a \in BOOLEAN, Begin(v, a), input' = input, visited' = visited,
         visited = BeforeObject(input', records', count', elements', a)
  PROVE  DeliveringInv'
  <1>1. pc' = "member" /\ object'.allowed = a /\ ~object'.streamed
    BY BeginDoes
  <1>2. visited' = Before'
    BY <1>1 DEF Before
  <1>3. VisitedInOrder'
    BY <1>1, OrderedStays
  <1> QED
    BY <1>1, <1>2, <1>3 DEF DeliveringInv

(* The order is kept once a value is read,                                  *)
LEMMA ReadValueOrdered ==
  ASSUME ReaderInv, DeliveringInv, ReadValue
  PROVE  DeliveringInv'
  <1>1. /\ pc = "value" /\ values # <<>> /\ input' = input /\ visited' = visited /\ records' = records
        /\ AtValue(input, records, values, count, count)
        /\ visited = BeforeValue(input, records, count) /\ VisitedInOrder
    BY DEF ReadValue, DeliveringInv, ReaderInv, Place
  <1>2. CASE pc' = "done" /\ verdict' # "ok"
    <2>1. VisitedInOrder'
      BY <1>1, <1>2, OrderedStays
    <2> QED
      BY <1>2, <2>1, ToDoneOrdered
  <1>3. \/ pc' = "done" /\ verdict' # "ok"
        \/ /\ ~(input.framed /\ count >= 1) /\ count' = count + 1
           /\ \/ Begin(Head(values), TRUE)
              \/ /\ Head(values).kind = "array" /\ pc' = "element"
                 /\ elements' = Head(values).elements
    BY DEF ReadValue, Return
  <1>4. count \in Nat
    BY <1>1, RestBounds DEF AtValue
  <1>5. (count + 1) - 1 = count
    BY <1>4
  <1>6. CASE Begin(Head(values), TRUE) /\ count' = count + 1
    <2>1. BeforeObject(input', records', count', elements', TRUE) = BeforeValue(input, records, count)
      BY <1>1, <1>5, <1>6 DEF BeforeObject
    <2> QED
      BY <1>1, <1>6, <2>1, BeginOrdered
  <1>7. CASE /\ ~(input.framed /\ count >= 1) /\ count' = count + 1
             /\ Head(values).kind = "array" /\ pc' = "element"
             /\ elements' = Head(values).elements
    <2>1. ReaderInv'
      BY ReadValueHolds
    <2>2. AtElement(input', records', values', count', elements',
                    Gone(elements', InHand(records', count').elements))
      BY <1>7, <2>1 DEF ReaderInv, Place
    <2>3. Head(values) = InHand(records, count + 1)
      BY <1>1, <1>7, NextValue
    <2>4. elements' = InHand(records', count').elements
      BY <1>1, <1>7, <2>3
    <2>5. Gone(elements', InHand(records', count').elements) = 0
      BY <2>2, <2>4, RestWhole DEF AtElement, IsRest
    <2>6. BeforeElement(input', records', count', 0) = BeforeValue(input', records', count' - 1)
      <3>1. /\ AtRecord(input', records') /\ InHand(records', count').kind = "array"
            /\ AtValue(input', records', values', count', count' - 1) /\ count' >= 1
            /\ IsRest(elements', InHand(records', count').elements)
        BY <2>2 DEF AtElement, AtValue
      <3>2. /\ count' \in DOMAIN Head(records').values /\ IsValue(InHand(records', count'))
        BY <3>1, InHandFacts
      <3>3. DOMAIN Head(records').values = 1..Len(Head(records').values)
        BY <3>1, RecordFacts, SeqFacts
      <3>4. Len(InHand(records', count').elements) \in Nat
        BY <3>1, RestBounds
      <3>5. 0 \in 0..Len(InHand(records', count').elements)
            /\ count' \in 1..Len(Head(records').values)
        BY <3>2, <3>3, <3>4
      <3> QED
        BY <3>1, <3>2, <3>5, ElementBefore
    <2>7. visited = BeforeElement(input', records', count',
                                  Gone(elements', InHand(records', count').elements))
      BY <1>1, <1>5, <1>7, <2>5, <2>6
    <2> QED
      BY <1>1, <1>7, <2>2, <2>7, ToElementOrdered
  <1> QED
    BY <1>2, <1>3, <1>6, <1>7

(* and once an element is read.                                             *)
LEMMA ReadElementOrdered ==
  ASSUME ReaderInv, DeliveringInv, ReadElement
  PROVE  DeliveringInv'
  <1> DEFINE all == InHand(records, count).elements
  <1>1. /\ pc = "element" /\ input' = input /\ visited' = visited /\ records' = records
        /\ count' = count
        /\ AtElement(input, records, values, count, elements, Gone(elements, all))
        /\ visited = BeforeElement(input, records, count, Gone(elements, all)) /\ VisitedInOrder
    BY DEF ReadElement, DeliveringInv, ReaderInv, Place
  <1>2. /\ AtRecord(input, records) /\ InHand(records, count).kind = "array"
        /\ AtValue(input, records, values, count, count - 1) /\ count >= 1
        /\ IsRest(elements, all)
    BY <1>1 DEF AtElement, AtValue
  <1>3. /\ count \in 1..Len(Head(records).values) /\ IsValue(InHand(records, count))
        /\ count \in 0..Len(Head(records).values)
    <2>1. /\ count \in DOMAIN Head(records).values /\ IsValue(InHand(records, count))
      BY <1>2, InHandFacts
    <2>2. DOMAIN Head(records).values = 1..Len(Head(records).values)
      BY <1>2, RecordFacts, SeqFacts
    <2> QED
      BY <2>1, <2>2
  <1>4. CASE elements = <<>> /\ pc' = "value"
    <2>1. Gone(elements, all) = Len(all) /\ Len(all) \in 0..Len(all)
      BY <1>2, <1>4, RestBounds
    <2>2. BeforeElement(input, records, count, Len(all)) = BeforeValue(input, records, count)
      BY <1>2, <1>3, <2>1, ElementBefore
    <2>3. visited = BeforeValue(input, records, count)
      BY <1>1, <2>1, <2>2
    <2> QED
      BY <1>1, <1>2, <1>3, <1>4, <2>3, ToValueOrdered
  <1>5. CASE elements # <<>> /\ elements' = Tail(elements) /\ Begin(Head(elements), FALSE)
    <2>1. Gone(elements, all) \in Nat
      BY <1>2, RestBounds
    <2>2. Gone(Tail(elements), all) = Gone(elements, all) + 1
      BY <1>2, <1>5, RestTail
    <2>3. Gone(elements', all) - 1 = Gone(elements, all)
      BY <1>5, <2>1, <2>2
    <2>4. BeforeObject(input', records', count', elements', FALSE)
            = BeforeElement(input, records, count, Gone(elements, all))
      BY <1>1, <2>3 DEF BeforeObject
    <2> QED
      BY <1>1, <1>5, <2>4, BeginOrdered
  <1>6. CASE pc' = "done" /\ verdict' # "ok"
    <2>1. VisitedInOrder'
      BY <1>1, <1>6, OrderedStays
    <2> QED
      BY <1>6, <2>1, ToDoneOrdered
  <1>7. \/ elements = <<>> /\ pc' = "value"
        \/ elements # <<>> /\ elements' = Tail(elements) /\ Begin(Head(elements), FALSE)
        \/ pc' = "done" /\ verdict' # "ok"
    BY DEF ReadElement, Return
  <1> QED
    BY <1>4, <1>5, <1>6, <1>7

(* The order is kept once a member is read,                                 *)
LEMMA ReadMemberOrdered ==
  ASSUME ReaderInv, DeliveringInv, ReadMember
  PROVE  DeliveringInv'
  <1>1. /\ pc = "member" /\ visited' = visited
        /\ UNCHANGED <<input, records, values, elements, count>>
        /\ object'.value = object.value /\ object'.allowed = object.allowed
        /\ \/ Failing
           \/ ~object.streamed /\ Entering
           \/ pc' = "member" /\ object'.streamed = object.streamed
    BY ReadMemberDoes
  <1>2. InMembers
    BY <1>1 DEF InMembers
  <1>3. CASE Failing
    BY <1>1, <1>2, <1>3, ToCloseOrdered DEF Failing
  <1>4. CASE ~object.streamed /\ Entering
    BY <1>1, <1>4, EnteredOrdered
  <1>5. CASE pc' = "member" /\ object'.streamed = object.streamed
    <2>1. Before' = Before /\ TheItems' = TheItems
      BY <1>1 DEF Before, TheItems
    <2>2. VisitedInOrder'
      BY <1>1, <1>5, OrderedStays DEF DeliveringInv
    <2> QED
      BY <1>1, <1>5, <2>1, <2>2 DEF DeliveringInv
  <1> QED
    BY <1>1, <1>3, <1>4, <1>5

(* once the members are over,                                               *)
LEMMA EndObjectOrdered ==
  ASSUME ReaderInv, DeliveringInv, EndObject
  PROVE  DeliveringInv'
  <1> DEFINE d == Deliverable(object.value, object.allowed)
  <1>1. /\ pc = "member" /\ UNCHANGED <<input, records, values, elements, count, object, disk>>
        /\ \/ Failing
           \/ ~object.streamed /\ Entering /\ visited' = visited
           \/ object.streamed /\ pc' = "finish"
              /\ UNCHANGED <<features, bounds, visited, verdict>>
           \/ /\ ~object.streamed /\ ~IsCollection /\ pc' = "close" /\ verdict' = "ok"
              /\ visited' = Append(visited, object.value.feature)
    BY EndObjectDoes
  <1>2. InMembers
    BY <1>1 DEF InMembers
  <1>3. CASE Failing
    BY <1>1, <1>2, <1>3, ToCloseOrdered DEF Failing
  <1>4. CASE ~object.streamed /\ Entering /\ visited' = visited
    BY <1>1, <1>4, EnteredOrdered
  <1>5. CASE object.streamed /\ pc' = "finish" /\ UNCHANGED visited
    <2>1. Before' = Before /\ TheItems' = TheItems
      BY <1>1 DEF Before, TheItems
    <2>2. VisitedInOrder'
      BY <1>1, <1>5, OrderedStays DEF DeliveringInv
    <2> QED
      BY <1>1, <1>5, <2>1, <2>2 DEF DeliveringInv
  <1>6. CASE /\ ~object.streamed /\ ~IsCollection /\ pc' = "close"
             /\ visited' = Append(visited, object.value.feature)
    <2>1. visited = Before /\ Holding
      BY <1>1, <1>2, <1>6, SoFar DEF DeliveringInv
    <2>2. d = <<object.value.feature>>
      BY <1>6, <2>1, DeliverableFacts DEF Holding, AtObject, IsCollection
    <2>3. IsSeq(Before) /\ IsSeq(Before \o d)
      BY <2>1, HoldingGives
    <2> HIDE DEF d
    <2>4. Append(Before, object.value.feature) = Before \o <<object.value.feature>>
      BY <2>3, AppendLast
    <2>5. visited' = Before \o d
      BY <1>6, <2>1, <2>2, <2>4
    <2>6. Begins(Before \o d, Before \o d)
      BY <2>3, BeginsItself
    <2>7. Before' = Before /\ d' = d
      BY <1>1 DEF Before, d
    <2>8. VisitedInOrder'
      <3>1. object'.allowed \in BOOLEAN
            /\ AtObject(input', records', values', count', elements', object'.value, object'.allowed)
        BY <1>1, <2>1 DEF Holding, ObjectFields
      <3>2. pc' # "done" /\ Before \o d = BeforeObject(input', records', count', elements', object'.allowed)
                               \o Deliverable(object'.value, object'.allowed)
        BY <1>1, <1>6 DEF Before, d
      <3> QED
        BY <2>3, <2>5, <2>6, <3>1, <3>2, ObjectOrdered
    <2> QED
      BY <1>6, <2>5, <2>6, <2>7, <2>8 DEF DeliveringInv, d
  <1> QED
    BY <1>1, <1>3, <1>4, <1>5, <1>6

(* and inside a feature.                                                    *)
LEMMA FeatureOrdered ==
  ASSUME ReaderInv, DeliveringInv, EnterFeature \/ ReadPosition
  PROVE  DeliveringInv'
  <1>1. /\ pc \in {"feature", "position"} /\ UNCHANGED <<object, features, visited>>
        /\ UNCHANGED <<input, records, values, elements, count>>
        /\ pc' \in {"feature", "position"} \/ (pc' = "close" /\ verdict' # "ok")
    BY DEF EnterFeature, ReadPosition, AddLongitude, Spill, Leave, readerVars
  <1>2. InMembers
    BY <1>1 DEF InMembers
  <1>3. CASE pc' = "close" /\ verdict' # "ok"
    BY <1>1, <1>2, <1>3, ToCloseOrdered
  <1>4. CASE pc' \in {"feature", "position"}
    <2>1. Before' = Before /\ TheItems' = TheItems
      BY <1>1 DEF Before, TheItems
    <2>2. VisitedInOrder'
      BY <1>1, <1>4, OrderedStays DEF DeliveringInv
    <2>3. visited = Before \o SubSeq(TheItems, 1, Gone(features, TheItems))
      BY <1>1 DEF DeliveringInv
    <2>4. visited' = Before' \o SubSeq(TheItems', 1, Gone(features', TheItems'))
      BY <1>1, <2>1, <2>3
    <2> QED
      BY <1>4, <2>2, <2>4 DEF DeliveringInv
  <1> QED
    BY <1>1, <1>3, <1>4

(* One more of the first features of a collection.                          *)
LEMMA OneMore ==
  ASSUME NEW b, IsSeq(b), NEW s, IsSeq(s), NEW n \in Nat, n + 1 \in 1..Len(s)
  PROVE  Append(b \o SubSeq(s, 1, n), s[n + 1]) = b \o SubSeq(s, 1, n + 1)
  <1> DEFINE x == s[n + 1]
             t == SubSeq(s, 1, n)
             u == SubSeq(s, 1, n + 1)
  <1>1. Len(s) \in Nat /\ n \in 0..Len(s) /\ n + 1 \in 0..Len(s)
    BY SeqFacts
  <1>2. /\ IsSeq(t) /\ Len(t) = n /\ (\A i \in 1..n : t[i] = s[i])
    BY <1>1, FirstItems
  <1>3. /\ IsSeq(u) /\ Len(u) = n + 1 /\ (\A i \in 1..n + 1 : u[i] = s[i])
    <2> DEFINE m == n + 1
    <2>1. m \in 0..Len(s)
      BY <1>1
    <2> HIDE DEF m
    <2>2. /\ IsSeq(SubSeq(s, 1, m)) /\ Len(SubSeq(s, 1, m)) = m
          /\ (\A i \in 1..m : SubSeq(s, 1, m)[i] = s[i])
      BY <2>1, FirstItems
    <2> QED
      BY <2>2 DEF m
  <1> HIDE DEF t, u
  <1>4. u = Append(t, x)
    <2>1. PICK S : t \in Seq(S)
      BY <1>2 DEF IsSeq
    <2> DEFINE T == S \union {x}
    <2>2. t \in Seq(T) /\ x \in T
      BY <2>1
    <2> HIDE DEF T, x
    <2> DEFINE w == Append(t, x)
    <2>3. /\ w \in Seq(T) /\ Len(w) = n + 1 /\ w[n + 1] = x /\ \A i \in 1..n : w[i] = t[i]
      BY <1>2, <2>2, AppendProperties
    <2> HIDE DEF w
    <2>4. \A i \in 1..n + 1 : i \in 1..n \/ i = n + 1
      OBVIOUS
    <2>5. \A i \in 1..n + 1 : u[i] = w[i]
      BY <1>2, <1>3, <2>3, <2>4 DEF x
    <2>6. IsSeq(w)
      BY <2>3 DEF IsSeq
    <2>7. u = w
      BY <1>3, <2>3, <2>5, <2>6, SeqFacts
    <2> QED
      BY <2>7 DEF w
  <1> HIDE DEF x
  <1>5. Append(t, x) = t \o <<x>> /\ IsSeq(<<x>>)
    BY <1>2, AppendLast
  <1>6. IsSeq(b \o t)
    BY <1>2, ConcatSeq
  <1>7. Append(b \o t, x) = (b \o t) \o <<x>>
    BY <1>6, AppendLast
  <1>8. (b \o t) \o <<x>> = b \o (t \o <<x>>)
    <2> DEFINE y == <<x>>
    <2>1. IsSeq(y)
      BY <1>5
    <2> HIDE DEF y
    <2>2. (b \o t) \o y = b \o (t \o y)
      <3>1. IsSeq(b) /\ IsSeq(t) /\ IsSeq(y)
        BY <1>2, <2>1
      <3> QED
        BY ONLY <3>1, ConcatThree
    <2> QED
      BY <2>2 DEF y
  <1> QED
    BY <1>4, <1>5, <1>7, <1>8 DEF x, t, u

(* A feature is given after those before it.                                *)
LEMMA EndFeatureOrdered ==
  ASSUME ReaderInv, DeliveringInv, EndFeature
  PROVE  DeliveringInv'
  <1> DEFINE n == Gone(features, TheItems)
             d == Deliverable(object.value, object.allowed)
  <1>1. /\ pc = "position" /\ UNCHANGED <<input, records, values, elements, count, object>>
        /\ \/ Failing
           \/ /\ features' = Tail(features) /\ pc' = "feature"
              /\ visited' = Append(visited, Head(features))
    BY EndFeatureDoes
  <1>2. InMembers
    BY <1>1 DEF InMembers
  <1>3. CASE Failing
    BY <1>1, <1>2, <1>3, ToCloseOrdered DEF Failing
  <1>4. CASE /\ features' = Tail(features) /\ pc' = "feature"
             /\ visited' = Append(visited, Head(features))
    <2>1. /\ Holding /\ Collecting /\ Streaming(TheItems, features, bounds) /\ features # <<>>
      BY <1>1, NowLooking
    <2>2. /\ n \in Nat /\ Head(features) = TheItems[n + 1] /\ n + 1 \in DOMAIN TheItems
          /\ Gone(Tail(features), TheItems) = n + 1
      BY <2>1, NextFeature
    <2>3. /\ IsSeq(TheItems) /\ DOMAIN TheItems = 1..Len(TheItems) /\ Len(TheItems) \in Nat
          /\ IsSeq(Before)
      BY <2>1, ItemsFacts, HoldingGives
    <2>4. visited = Before \o SubSeq(TheItems, 1, n)
      BY <1>1 DEF DeliveringInv
    <2>5. Before' = Before /\ TheItems' = TheItems /\ d' = d
      BY <1>1 DEF Before, TheItems
    <2>6. \A i \in 1..n + 1 : SoundFeature(TheItems[i])
      <3>1. ReaderInv'
        BY EndFeatureHolds
      <3>2. Streaming(TheItems', features', bounds')
        BY <1>4, <3>1 DEF ReaderInv, FeaturesRead
      <3>3. Gone(features', TheItems') = n + 1
        BY <1>4, <2>2, <2>5
      <3> HIDE DEF n
      <3> QED
        BY <2>5, <3>2, <3>3 DEF Streaming
    <2> HIDE DEF n, d
    <2> DEFINE m == n + 1
               w == Before \o SubSeq(TheItems, 1, m)
    <2>7. visited' = w
      BY <1>4, <2>2, <2>3, <2>4, OneMore
    <2>8. m \in 0..Len(TheItems) /\ \A i \in 1..m : SoundFeature(TheItems[i])
      BY <2>2, <2>3, <2>6
    <2>11. visited' = Before' \o SubSeq(TheItems', 1, Gone(features', TheItems'))
      BY <1>4, <2>2, <2>5, <2>7
    <2> HIDE DEF m
    <2>9. IsSeq(w) /\ Begins(w, Before \o d)
      BY <2>1, <2>8, CollectingGives DEF d
    <2> HIDE DEF w
    <2>10. VisitedInOrder'
      <3>1. object'.allowed \in BOOLEAN
            /\ AtObject(input', records', values', count', elements', object'.value, object'.allowed)
        BY <1>1, <2>1 DEF Holding, ObjectFields
      <3>2. pc' # "done" /\ Before \o d = BeforeObject(input', records', count', elements', object'.allowed)
                               \o Deliverable(object'.value, object'.allowed)
        BY <1>1, <1>4 DEF Before, d
      <3> QED
        BY <2>7, <2>9, <3>1, <3>2, ObjectOrdered
    <2> QED
      BY <1>4, <2>10, <2>11 DEF DeliveringInv
  <1> QED
    BY <1>1, <1>3, <1>4

(* The order is kept once the features are over,                            *)
LEMMA EndFeaturesOrdered ==
  ASSUME ReaderInv, DeliveringInv, EndFeatures
  PROVE  DeliveringInv'
  <1>1. /\ pc = "feature" /\ features = <<>> /\ pc' = IF object.streamed THEN "member" ELSE "finish"
        /\ UNCHANGED <<input, records, values, elements, count, object, visited>>
    BY DEF EndFeatures, objectVars, readerVars
  <1>2. /\ Holding /\ Streaming(TheItems, features, bounds)
    BY <1>1, NowBetween
  <1>3. Gone(features, TheItems) = Len(TheItems) /\ IsSeq(TheItems) /\ Len(TheItems) \in 0..Len(TheItems)
    BY <1>1, <1>2, RestBounds, ItemsFacts DEF Streaming
  <1>4. SubSeq(TheItems, 1, Len(TheItems)) = TheItems
    BY <1>3, FirstItems
  <1>5. visited = Before \o TheItems
    BY <1>1, <1>3, <1>4 DEF DeliveringInv
  <1>6. Before' = Before /\ TheItems' = TheItems
    BY <1>1 DEF Before, TheItems
  <1>7. VisitedInOrder'
    <2>1. pc' # "done"
      BY <1>1
    <2> QED
      BY <1>1, <2>1, OrderedStays DEF DeliveringInv
  <1>8. CASE object.streamed
    <2>1. pc' = "member" /\ object'.streamed
      BY <1>1, <1>8
    <2> QED
      BY <1>1, <1>5, <1>6, <1>7, <2>1 DEF DeliveringInv
  <1>9. CASE ~object.streamed
    <2>1. pc' = "finish"
      BY <1>1, <1>9
    <2> QED
      BY <1>1, <1>5, <1>6, <1>7, <2>1 DEF DeliveringInv
  <1> QED
    BY <1>8, <1>9

(* in the check of the box,                                                 *)
LEMMA FinishOrdered ==
  ASSUME ReaderInv, DeliveringInv, Finish \/ Rewind \/ Reread
  PROVE  DeliveringInv'
  <1>1. /\ pc \in {"finish", "rewind", "reread"}
        /\ UNCHANGED <<input, records, values, elements, count, object, visited>>
        /\ pc' \in {"rewind", "reread"} \/ pc' = "close"
    BY DEF Finish, Rewind, Reread, Leave, objectVars, readerVars
  <1>2. InMembers /\ visited = Before \o TheItems
    BY <1>1 DEF InMembers, DeliveringInv
  <1>3. CASE pc' = "close"
    <2>1. Holding /\ Collecting /\ AllRead(TheItems, bounds)
      BY <1>1, NowFinishing
    <2>2. /\ Len(TheItems) \in 0..Len(TheItems)
          /\ \A i \in 1..Len(TheItems) : SoundFeature(TheItems[i])
      BY <2>1, ItemsFacts DEF AllRead
    <2>3. Before \o TheItems = Before \o Deliverable(object.value, object.allowed)
      BY <2>1, <2>2, CollectingGives
    <2>4. visited = Before \o Deliverable(object.value, object.allowed)
      BY <1>2, <2>3
    <2> QED
      BY <1>1, <1>2, <1>3, <2>4, ToCloseOrdered
  <1>4. CASE pc' \in {"rewind", "reread"}
    <2>1. Before' = Before /\ TheItems' = TheItems
      BY <1>1 DEF Before, TheItems
    <2>2. VisitedInOrder'
      BY <1>1, <1>4, OrderedStays DEF DeliveringInv
    <2> QED
      BY <1>1, <1>2, <1>4, <2>1, <2>2 DEF DeliveringInv
  <1> QED
    BY <1>1, <1>3, <1>4

(* and once the file is removed.                                            *)
LEMMA CloseBoundsOrdered ==
  ASSUME ReaderInv, DeliveringInv, CloseBounds
  PROVE  DeliveringInv'
  <1> DEFINE d == Deliverable(object.value, object.allowed)
  <1>1. /\ pc = "close" /\ UNCHANGED <<input, records, values, elements, count, object, visited>>
        /\ \/ pc' = "done" /\ verdict' # "ok"
           \/ verdict = "ok" /\ pc' = (IF object.allowed THEN "value" ELSE "element")
    BY DEF CloseBounds, Return, readerVars, objectVars
  <1>2. /\ object.allowed \in BOOLEAN /\ VisitedInOrder
        /\ AtObject(input, records, values, count, elements, object.value, object.allowed)
        /\ verdict = "ok" => visited = Before \o d
    BY <1>1 DEF ReaderInv, Place, InObject, ObjectFields, DeliveringInv
  <1>3. /\ object.allowed => BeforeValue(input, records, count) = Before \o d
        /\ ~object.allowed =>
             BeforeElement(input, records, count, Gone(elements, InHand(records, count).elements))
               = Before \o d
    BY <1>2, ObjectBefore DEF Before
  <1> HIDE DEF d
  <1>4. CASE pc' = "done" /\ verdict' # "ok"
    <2>1. VisitedInOrder'
      BY <1>1, <1>2, <1>4, OrderedStays
    <2> QED
      BY <1>4, <2>1, ToDoneOrdered
  <1>5. CASE verdict = "ok" /\ pc' = (IF object.allowed THEN "value" ELSE "element")
    <2>1. ReaderInv'
      BY CloseBoundsHolds
    <2>2. CASE object.allowed
      <3>1. pc' = "value" /\ visited = BeforeValue(input, records, count)
        BY <1>2, <1>3, <1>5, <2>2
      <3>2. AtValue(input', records', values', count', count')
        BY <2>1, <3>1 DEF ReaderInv, Place
      <3>3. AtRecord(input', records') /\ count' \in 0..Len(Head(records').values)
        <4>1. AtRecord(input', records') /\ IsRest(values', Head(records').values)
              /\ count' = Gone(values', Head(records').values)
          BY <3>2 DEF AtValue
        <4> QED
          BY <4>1, RestBounds
      <3> QED
        BY <1>1, <3>1, <3>3, ToValueOrdered
    <2>3. CASE ~object.allowed
      <3>1. pc' = "element" /\ visited = BeforeElement(input, records, count,
                                  Gone(elements, InHand(records, count).elements))
        BY <1>2, <1>3, <1>5, <2>3
      <3>2. AtElement(input', records', values', count', elements',
                      Gone(elements', InHand(records', count').elements))
        BY <2>1, <3>1 DEF ReaderInv, Place
      <3> QED
        BY <1>1, <3>1, <3>2, ToElementOrdered
    <2> QED
      BY <2>2, <2>3
  <1> QED
    BY <1>1, <1>4, <1>5

(* Nothing changes when nothing does.                                       *)
LEMMA OrderStutters ==
  ASSUME DeliveringInv, UNCHANGED vars
  PROVE  DeliveringInv'
  <1>1. UNCHANGED <<input, records, values, elements, count, pc, object, features, visited, verdict>>
    BY DEF vars, readerVars, objectVars
  <1>2. Before' = Before /\ TheItems' = TheItems /\ DeliverableInput' = DeliverableInput
    BY <1>1 DEF Before, TheItems, DeliverableInput
  <1>3. VisitedInOrder'
    BY <1>1, <1>2 DEF DeliveringInv, VisitedInOrder
  <1> QED
    BY <1>1, <1>2, <1>3 DEF DeliveringInv

(* Every step keeps the order.                                              *)
LEMMA DeliveringStep == ReaderInv /\ DeliveringInv /\ [Next]_vars => DeliveringInv'
  BY StartOrdered, ReadRecordOrdered, EndRecordOrdered, ReadValueOrdered, ReadElementOrdered,
     ReadMemberOrdered, EndObjectOrdered, FeatureOrdered, EndFeatureOrdered, EndFeaturesOrdered,
     FinishOrdered, CloseBoundsOrdered, OrderStutters DEF Next, Step, Returned

(* The callback is given the features in order, none twice, none of a       *)
(* nested collection, none at or after one that is not sound; and on        *)
(* success all of them (visitFeatureArray, bounds.add before visit).        *)
THEOREM VisitedInOrderCorrect == Spec => []VisitedInOrder
  <1>1. Init => ReaderInv /\ DeliveringInv
    BY InitHolds, InitOrdered
  <1>2. ReaderInv /\ DeliveringInv /\ [Next]_vars => (ReaderInv /\ DeliveringInv)'
    BY ReaderStep, DeliveringStep
  <1>3. DeliveringInv => VisitedInOrder
    BY DEF DeliveringInv
  <1> QED
    BY <1>1, <1>2, <1>3, PTL DEF Spec

-----------------------------------------------------------------------------
(* The tools.                                                               *)

(* Each program is a use of the reader: whatever its callback answers, what *)
(* the reader does is one of its own behaviours.                            *)
THEOREM ToolsUseTheReader == ToolSpec => Spec
  <1>1. ToolInit => Init
    BY DEF ToolInit
  <1>2. [ToolNext]_<<vars, toolVars>> => [Next]_vars
    BY DEF ToolNext, StartTool, Read, CloseTool, ToolReturned, Next
  <1> QED
    BY <1>1, <1>2, PTL DEF ToolSpec, Spec

(* So neither geojsonseq, geofilter nor geojsoncheck leaves a file behind.  *)
THEOREM ToolsLeaveNoFile == ToolSpec => []TemporaryFileGone
  BY ToolsUseTheReader, TemporaryFileGoneCorrect, PTL

(* And each of them is given exactly what is sound, every feature of it     *)
(* once and in order, whatever it answers.                                  *)
THEOREM ToolsReadTheInput == ToolSpec => [](AcceptsExactly /\ VisitedInOrder)
  BY ToolsUseTheReader, AcceptsExactlyCorrect, VisitedInOrderCorrect, PTL

-----------------------------------------------------------------------------
(* The summary of a feature.                                                *)

(* The function that FoldLeft takes it from: on sets of indices, of which   *)
(* the last one is taken away.                                              *)
IsSummary(g, ps, n) ==
    g = [s \in SUBSET (1..n) |->
           IF s = {} THEN Nothing ELSE Merge(g[s \ {Max(s)}], Alone(ps[Max(s)]))]

(* The last of a set of indices.                                            *)
LEMMA LastIndex ==
  ASSUME NEW n \in Nat, NEW s \in SUBSET (1..n), n \in s
  PROVE  Max(s) = n
  <1>1. s \subseteq 0..n
    OBVIOUS
  <1>2. Max(s) \in s /\ n <= Max(s)
    BY <1>1, Largest
  <1>3. Max(s) \in 1..n
    BY <1>2
  <1> QED
    BY <1>2, <1>3

(* There is such a function.                                                *)
LEMMA SummaryExists ==
  ASSUME NEW ps, NEW n \in Nat
  PROVE  \E g : IsSummary(g, ps, n)
  <1> DEFINE D == {k \in 0..n : \E g : IsSummary(g, ps, k)}
  <1>1. 0 \in D
    <2> DEFINE g == [s \in SUBSET (1..0) |-> Nothing]
    <2>1. \A s \in SUBSET (1..0) : s = {}
      BY NoIndex
    <2>2. g = [s \in SUBSET (1..0) |->
                 IF s = {} THEN Nothing ELSE Merge(g[s \ {Max(s)}], Alone(ps[Max(s)]))]
      BY <2>1
    <2> HIDE DEF g
    <2>3. IsSummary(g, ps, 0)
      BY <2>2 DEF IsSummary
    <2> QED
      BY <2>3
  <1>2. ASSUME NEW k \in 0..n - 1, k \in D  PROVE k + 1 \in D
    <2>1. PICK h : IsSummary(h, ps, k)
      BY <1>2
    <2> DEFINE m == k + 1
               g == [s \in SUBSET (1..m) |->
                       IF s \in SUBSET (1..k) THEN h[s]
                       ELSE Merge(h[s \ {m}], Alone(ps[m]))]
    <2>2. \A s \in SUBSET (1..k) :
             h[s] = IF s = {} THEN Nothing ELSE Merge(h[s \ {Max(s)}], Alone(ps[Max(s)]))
      BY <2>1 DEF IsSummary
    <2>3. k \in Nat /\ m \in Nat /\ m \in 0..n /\ \A i : i \in 1..m <=> i \in 1..k \/ i = m
      OBVIOUS
    <2>4. ASSUME NEW s \in SUBSET (1..k)  PROVE s \in SUBSET (1..m) /\ g[s] = h[s]
      BY <2>3
    <2>5. ASSUME NEW s \in SUBSET (1..m)
          PROVE  g[s] = IF s = {} THEN Nothing ELSE Merge(g[s \ {Max(s)}], Alone(ps[Max(s)]))
      <3>1. CASE s \in SUBSET (1..k)
        <4>1. s \ {Max(s)} \in SUBSET (1..k)
          BY <3>1
        <4>2. g[s] = h[s] /\ g[s \ {Max(s)}] = h[s \ {Max(s)}]
          BY <3>1, <4>1, <2>4
        <4> HIDE DEF g
        <4> QED
          BY <3>1, <4>2, <2>2
      <3>2. CASE s \notin SUBSET (1..k)
        <4>1. m \in s /\ s # {} /\ s \ {m} \in SUBSET (1..k)
          BY <3>2, <2>3
        <4>2. Max(s) = m
          BY <4>1, <2>3, LastIndex
        <4>3. g[s] = Merge(h[s \ {m}], Alone(ps[m]))
          BY <3>2
        <4>4. g[s \ {m}] = h[s \ {m}]
          BY <4>1, <2>4
        <4> HIDE DEF g, m
        <4> QED
          BY <4>1, <4>2, <4>3, <4>4
      <3> QED
        BY <3>1, <3>2
    <2>6. g = [s \in SUBSET (1..m) |-> g[s]]
      OBVIOUS
    <2> HIDE DEF g, m
    <2>7. IsSummary(g, ps, m)
      BY <2>5, <2>6 DEF IsSummary
    <2> QED
      BY <2>3, <2>7 DEF m
  <1> HIDE DEF D
  <1>3. n \in D
    BY <1>1, <1>2, UpTo
  <1> QED
    BY <1>3 DEF D

(* The positions of a feature.                                              *)
LEMMA PositionFacts ==
  ASSUME NEW f, IsFeature(f)
  PROVE  /\ IsSeq(f.positions) /\ DOMAIN f.positions = 1..Len(f.positions)
         /\ Len(f.positions) \in Nat /\ \A i \in 1..Len(f.positions) : IsPosition(f.positions[i])
  <1>1. IsSeq(f.positions) /\ \A i \in DOMAIN f.positions : IsPosition(f.positions[i])
    BY ListedIsSeq DEF IsFeature
  <1> QED
    BY <1>1, SeqFacts

(* What it is, without a choice.                                            *)
LEMMA SummaryFold ==
  ASSUME NEW f, IsFeature(f)
  PROVE  \E g : /\ IsSummary(g, f.positions, Len(f.positions))
                /\ Summary(f) = g[1..Len(f.positions)]
  <1> DEFINE ps == f.positions
             n == Len(ps)
             g == CHOOSE g : g = [s \in SUBSET (1..n) |->
                    IF s = {} THEN Nothing ELSE Merge(g[s \ {Max(s)}], Alone(ps[Max(s)]))]
  <1>1. DOMAIN ps = 1..n /\ n \in Nat
    BY PositionFacts
  <1>2. \E h : h = [s \in SUBSET (1..n) |->
                    IF s = {} THEN Nothing ELSE Merge(h[s \ {Max(s)}], Alone(ps[Max(s)]))]
    BY <1>1, SummaryExists DEF IsSummary
  <1>3. IsSummary(g, ps, n)
    BY <1>2 DEF IsSummary
  <1>4. Summary(f) = g[1..n]
    BY <1>1 DEF Summary, FoldLeft, MapThenFoldSet
  <1> QED
    BY <1>3, <1>4

(* It is that of the set of its positions.                                  *)
LEMMA SummaryIs ==
  ASSUME NEW f, IsFeature(f)
  PROVE  Summarises(Summary(f), ToSet(f.positions)) /\ ArePositions(ToSet(f.positions))
  <1> DEFINE ps == f.positions
             n == Len(ps)
             Of(k) == {ps[i] : i \in 1..k}
  <1>1. DOMAIN ps = 1..n /\ n \in Nat /\ \A i \in 1..n : IsPosition(ps[i])
    BY PositionFacts
  <1>2. PICK g : IsSummary(g, ps, n) /\ Summary(f) = g[1..n]
    BY SummaryFold
  <1> DEFINE D == {k \in 0..n : Summarises(g[1..k], Of(k))}
  <1>3. \A s \in SUBSET (1..n) :
           g[s] = IF s = {} THEN Nothing ELSE Merge(g[s \ {Max(s)}], Alone(ps[Max(s)]))
    BY <1>2 DEF IsSummary
  <1> HIDE DEF n, ps
  <1>4. 0 \in D
    <2>1. 1..0 = {} /\ Of(0) = {} /\ 0 \in 0..n
      BY <1>1, NoIndex
    <2>2. g[1..0] = Nothing
      BY <2>1, <1>3
    <2> QED
      BY <2>1, <2>2, NothingSummarises
  <1>5. ASSUME NEW k \in 0..n - 1, k \in D  PROVE k + 1 \in D
    <2>1. k \in Nat /\ k + 1 \in Nat /\ k + 1 \in 1..n /\ k + 1 \in 0..n
          /\ 1..k + 1 \in SUBSET (1..n) /\ k + 1 \in 1..k + 1
          /\ (1..k + 1) \ {k + 1} = 1..k
          /\ \A i : i \in 1..k + 1 <=> i \in 1..k \/ i = k + 1
      BY <1>1
    <2>2. Max(1..k + 1) = k + 1
      BY <2>1, LastIndex
    <2>3. g[1..k + 1] = Merge(g[1..k], Alone(ps[k + 1]))
      BY <2>1, <2>2, <1>3
    <2>4. IsPosition(ps[k + 1])
      BY <2>1, <1>1
    <2>5. Summarises(Alone(ps[k + 1]), {ps[k + 1]}) /\ ArePositions({ps[k + 1]})
      BY <2>4, AloneSummarises DEF ArePositions
    <2>6. Summarises(g[1..k], Of(k)) /\ ArePositions(Of(k))
      BY <1>5, <1>1, <2>1 DEF ArePositions
    <2>7. Of(k + 1) = Of(k) \union {ps[k + 1]}
      BY <2>1
    <2> HIDE DEF Of
    <2>8. Summarises(Merge(g[1..k], Alone(ps[k + 1])), Of(k) \union {ps[k + 1]})
      BY <2>5, <2>6, MergeSummarises
    <2> QED
      BY <2>1, <2>3, <2>7, <2>8
  <1> HIDE DEF D, Of
  <1>6. n \in D
    <2>1. n \in Nat /\ n \in 0..n
      BY <1>1
    <2>2. \A k \in 0..n : k \in D
      BY <1>4, <1>5, <2>1, UpTo
    <2> QED
      BY <2>1, <2>2
  <1> USE DEF Of
  <1>7. ToSet(ps) = Of(n)
    BY <1>1 DEF ToSet
  <1>8. ArePositions(Of(n))
    BY <1>1 DEF ArePositions
  <1>9. Summarises(g[1..n], Of(n))
    BY <1>6 DEF D
  <1> HIDE DEF Of
  <1> QED
    BY <1>2, <1>7, <1>8, <1>9 DEF n, ps

-----------------------------------------------------------------------------
(* The filter keeps what is wanted.                                         *)

(* A stretch and an interval meet if they have a point in common.           *)
LEMMA Meets ==
  ASSUME NEW a \in Int, NEW c \in Int, NEW w \in Int, NEW e \in Int, w <= e
  PROVE  (Lower(a, c) <= e /\ Upper(a, c) >= w)
           <=> \E x \in Lower(a, c)..Upper(a, c) : w <= x /\ x <= e
  <1>1. Lower(a, c) \in Int /\ Upper(a, c) \in Int /\ Lower(a, c) <= Upper(a, c)
    BY DEF Lower, Upper
  <1>2. \A l, u \in Int : l <= u => (l <= e /\ u >= w <=> \E x \in l..u : w <= x /\ x <= e)
    <2> SUFFICES ASSUME NEW l \in Int, NEW u \in Int, l <= u
                 PROVE  l <= e /\ u >= w <=> \E x \in l..u : w <= x /\ x <= e
      OBVIOUS
    <2>1. CASE l <= w
      <3>1. u >= w => w \in l..u /\ w <= w /\ w <= e
        BY <2>1
      <3> QED
        BY <2>1, <3>1
    <2>2. CASE ~(l <= w)
      <3>1. l <= e => l \in l..u /\ w <= l /\ l <= e
        BY <2>2
      <3> QED
        BY <2>2, <3>1
    <2> QED
      BY <2>1, <2>2
  <1> QED
    BY <1>1, <1>2

(* The position where the stretch from one ends.                            *)
LastOf(f, i) == IF f.shape = "LineString" THEN i + 1 ELSE i

(* Where a feature is, stretch by stretch.                                  *)
LEMMA PlacesAre ==
  ASSUME NEW f, IsFeature(f), NEW place
  PROVE  place \in Places(f) <=>
           \E i \in DOMAIN f.positions :
             /\ LastOf(f, i) \in DOMAIN f.positions
             /\ \E x \in Lower(f.positions[i].lon, f.positions[LastOf(f, i)].lon)
                         ..Upper(f.positions[i].lon, f.positions[LastOf(f, i)].lon) :
                  place = <<x, f.positions[i].lat>>
  <1> DEFINE ps == f.positions
             n == Len(ps)
  <1>1. DOMAIN ps = 1..n /\ n \in Nat /\ \A i \in 1..n : ps[i].lon \in Int
    BY PositionFacts DEF IsPosition
  <1>2. CASE f.shape = "LineString"
    <2>1. \A i : i \in 1..n - 1 <=> i \in 1..n /\ i + 1 \in 1..n
      <3> HIDE DEF n
      <3> QED
        BY <1>1
    <2>2. Places(f) = UNION {{<<lon, ps[i].lat>> : lon \in Lower(ps[i].lon, ps[i + 1].lon)
                                             ..Upper(ps[i].lon, ps[i + 1].lon)} : i \in 1..n - 1}
      BY <1>2 DEF Places
    <2> HIDE DEF n, ps
    <2>3. place \in Places(f) <=>
            \E i \in 1..n - 1 : \E x \in Lower(ps[i].lon, ps[i + 1].lon)
                                          ..Upper(ps[i].lon, ps[i + 1].lon) :
               place = <<x, ps[i].lat>>
      BY <2>2
    <2>4. \A i : LastOf(f, i) = i + 1
      BY <1>2 DEF LastOf
    <2>5. place \in Places(f) <=>
            \E i \in 1..n : i + 1 \in 1..n /\ \E x \in Lower(ps[i].lon, ps[i + 1].lon)
                                          ..Upper(ps[i].lon, ps[i + 1].lon) :
               place = <<x, ps[i].lat>>
      BY <2>1, <2>3
    <2> QED
      BY <1>1, <2>4, <2>5 DEF ps
  <1>3. CASE f.shape # "LineString"
    <2>1. Places(f) = {<<ps[i].lon, ps[i].lat>> : i \in DOMAIN ps}
      BY <1>3 DEF Places
    <2>2. \A i : LastOf(f, i) = i
      BY <1>3 DEF LastOf
    <2>3. \A i \in 1..n : Lower(ps[i].lon, ps[i].lon)..Upper(ps[i].lon, ps[i].lon) = {ps[i].lon}
      <3> SUFFICES ASSUME NEW a \in Int  PROVE Lower(a, a)..Upper(a, a) = {a}
        BY <1>1
      <3> QED
        BY DEF Lower, Upper
    <2> HIDE DEF n, ps
    <2>4. place \in Places(f) <=> \E i \in 1..n : place = <<ps[i].lon, ps[i].lat>>
      BY <1>1, <2>1
    <2> QED
      BY <1>1, <2>2, <2>3, <2>4 DEF ps
  <1> QED
    BY <1>2, <1>3

(* The stretch of a position, and the box.                                  *)
LEMMA BoundMeets ==
  ASSUME NEW f, IsFeature(f), NEW b, NEW w \in Int, NEW e \in Int, w <= e
  PROVE  IntersectsBound(f, w, e, b) <=>
           \E place \in Places(f) : /\ w <= place[1] /\ place[1] <= e
                                    /\ b.south <= place[2] /\ place[2] <= b.north
  <1> DEFINE ps == f.positions
             Low(i) == Lower(ps[i].lon, ps[LastOf(f, i)].lon)
             High(i) == Upper(ps[i].lon, ps[LastOf(f, i)].lon)
             There(i) == /\ i \in DOMAIN ps /\ LastOf(f, i) \in DOMAIN ps
                         /\ b.south <= ps[i].lat /\ ps[i].lat <= b.north
  <1>1. \A i \in DOMAIN ps : ps[i].lon \in Int
    BY PositionFacts DEF IsPosition
  <1>2. IntersectsBound(f, w, e, b) <=> \E i : There(i) /\ Low(i) <= e /\ High(i) >= w
    BY DEF IntersectsBound, LastOf
  <1>3. ASSUME NEW i, There(i)
        PROVE  Low(i) <= e /\ High(i) >= w <=> \E x \in Low(i)..High(i) : w <= x /\ x <= e
    BY <1>1, <1>3, Meets
  <1>4. IntersectsBound(f, w, e, b)
          <=> \E i : There(i) /\ \E x \in Low(i)..High(i) : w <= x /\ x <= e
    <2> HIDE DEF There, Low, High
    <2> QED
      BY <1>2, <1>3
  <1>5. ASSUME NEW i, There(i), NEW x \in Low(i)..High(i), w <= x, x <= e
        PROVE  \E place \in Places(f) : /\ w <= place[1] /\ place[1] <= e
                                        /\ b.south <= place[2] /\ place[2] <= b.north
    <2> DEFINE place == <<x, ps[i].lat>>
    <2>1. place \in Places(f)
      BY <1>5, PlacesAre
    <2>2. place[1] = x /\ place[2] = ps[i].lat
      OBVIOUS
    <2> HIDE DEF place
    <2> QED
      BY <1>5, <2>1, <2>2
  <1>6. ASSUME NEW place \in Places(f), w <= place[1], place[1] <= e,
               b.south <= place[2], place[2] <= b.north
        PROVE  \E i : There(i) /\ \E x \in Low(i)..High(i) : w <= x /\ x <= e
    <2>1. PICK i \in DOMAIN ps :
            /\ LastOf(f, i) \in DOMAIN ps
            /\ \E x \in Low(i)..High(i) : place = <<x, ps[i].lat>>
      BY PlacesAre
    <2>2. PICK x \in Low(i)..High(i) : place = <<x, ps[i].lat>>
      BY <2>1
    <2>3. place[1] = x /\ place[2] = ps[i].lat
      BY <2>2
    <2> HIDE DEF Low, High, ps
    <2> QED
      BY <1>6, <2>1, <2>3
  <1> HIDE DEF There, Low, High
  <1> QED
    BY <1>4, <1>5, <1>6

(* What it is for a point to be inside a plane box.                         *)
LEMMA InsidePlane ==
  ASSUME NEW b, b.dim = 2, NEW x, NEW y
  PROVE  Inside(b, [dim |-> 2, lon |-> x, lat |-> y]) <=>
           /\ b.south <= y /\ y <= b.north
           /\ IF b.west <= b.east THEN b.west <= x /\ x <= b.east ELSE b.west <= x \/ x <= b.east
  BY Zenon DEF Inside

(* Where there is a place, there are positions around it.                   *)
LEMMA PlaceBetween ==
  ASSUME NEW f, IsFeature(f), NEW place \in Places(f)
  PROVE  /\ place[1] \in Int /\ place[2] \in Int
         /\ \E h, i, j \in DOMAIN f.positions :
              /\ f.positions[h].lon <= place[1] /\ place[1] <= f.positions[j].lon
              /\ place[2] = f.positions[i].lat
  <1> DEFINE ps == f.positions
  <1>1. \A i \in DOMAIN ps : ps[i].lon \in Int /\ ps[i].lat \in Int
    BY PositionFacts DEF IsPosition
  <1>2. PICK i \in DOMAIN ps :
            /\ LastOf(f, i) \in DOMAIN ps
            /\ \E x \in Lower(ps[i].lon, ps[LastOf(f, i)].lon)
                         ..Upper(ps[i].lon, ps[LastOf(f, i)].lon) : place = <<x, ps[i].lat>>
    BY PlacesAre
  <1> DEFINE a == ps[i].lon
             c == ps[LastOf(f, i)].lon
  <1>3. PICK x \in Lower(a, c)..Upper(a, c) : place = <<x, ps[i].lat>>
    BY <1>2
  <1>4. place[1] = x /\ place[2] = ps[i].lat /\ x \in Int
    BY <1>3
  <1>5. a \in Int /\ c \in Int
    BY <1>1, <1>2
  <1> HIDE DEF a, c, ps
  <1>6. (a <= x /\ x <= c) \/ (c <= x /\ x <= a)
    BY <1>3, <1>5 DEF Lower, Upper
  <1>7. CASE a <= x /\ x <= c
    BY <1>1, <1>2, <1>4, <1>7 DEF a, c, ps
  <1>8. CASE c <= x /\ x <= a
    BY <1>1, <1>2, <1>4, <1>8 DEF a, c, ps
  <1> QED
    BY <1>6, <1>7, <1>8

(* Of a feature that is valid, the summary encloses the places.             *)
LEMMA PlaceEnclosed ==
  ASSUME NEW f, IsFeature(f), SoundFeature(f), NEW place \in Places(f)
  PROVE  /\ ~f.null /\ Summary(f).dim # 0
         /\ Summary(f).west <= place[1] /\ place[1] <= Summary(f).east
         /\ Summary(f).south <= place[2] /\ place[2] <= Summary(f).north
         /\ Summary(f) \in SummaryType
  <1> DEFINE s == Summary(f)
             ps == f.positions
  <1>1. place[1] \in Int /\ place[2] \in Int
    BY PlaceBetween
  <1>2. PICK h, i, j \in DOMAIN ps : /\ ps[h].lon <= place[1] /\ place[1] <= ps[j].lon
                                    /\ place[2] = ps[i].lat
    BY PlaceBetween
  <1>3. Summarises(s, ToSet(ps)) /\ ps[h] \in ToSet(ps) /\ ps[i] \in ToSet(ps) /\ ps[j] \in ToSet(ps)
    BY <1>2, SummaryIs DEF ToSet
  <1>4. ~f.null
    <2>1. f.null => ps = <<>>
      BY DEF IsFeature
    <2> QED
      BY <1>2, <2>1
  <1>5. \A k, l \in DOMAIN ps : ps[k].dim = ps[l].dim
    BY <1>4 DEF SoundFeature
  <1>6. ps[h].lon \in Int /\ ps[i].lat \in Int /\ ps[j].lon \in Int
    BY <1>2, PositionFacts DEF IsPosition
  <1> HIDE DEF s, ps
  <1>7. s.dim # 0 /\ s \in SummaryType
    BY <1>3 DEF Summarises
  <1>8. ~s.mixed
    <2>1. \A p, q \in ToSet(ps) : p.dim = q.dim
      BY <1>5 DEF ToSet
    <2> QED
      BY <1>3, <2>1, MixedIs
  <1>9. \A p \in ToSet(ps) : /\ s.west <= p.lon /\ p.lon <= s.east
                            /\ s.south <= p.lat /\ p.lat <= s.north
    BY <1>3, <1>7, <1>8 DEF Summarises
  <1>10. /\ s.west \in Int /\ s.east \in Int
    BY <1>7, SummaryFields
  <1>11. s.west <= place[1] /\ place[1] <= s.east
    <2>1. s.west <= ps[h].lon /\ ps[j].lon <= s.east
      BY <1>3, <1>9
    <2> QED
      BY <1>1, <1>2, <1>6, <1>10, <2>1
  <1> QED
    BY <1>2, <1>3, <1>4, <1>7, <1>9, <1>11 DEF s

(* A place in the box is found, whether or not the box wraps.               *)
LEMMA BoxMeets ==
  ASSUME NEW f, IsFeature(f), NEW b, IsBBox(b), b.dim = 2,
         b.west \in -World..World, b.east \in -World..World,
         \A i \in DOMAIN f.positions : f.positions[i].lon \in -World..World
  PROVE  GeometryIntersectsBBox(f, b) <=>
           \E place \in Places(f) : Inside(b, [dim |-> 2, lon |-> place[1], lat |-> place[2]])
  <1>1. World \in Nat
    BY ToolsAssumption
  <1>2. /\ b.west \in Int /\ b.east \in Int /\ b.west <= World /\ -World <= b.east
        /\ World \in Int /\ -World \in Int
    BY <1>1
  <1>3. ASSUME NEW place \in Places(f)
        PROVE  place[1] \in Int /\ place[2] \in Int /\ -World <= place[1] /\ place[1] <= World
    <2>1. PICK h, j \in DOMAIN f.positions : /\ f.positions[h].lon <= place[1]
                                            /\ place[1] <= f.positions[j].lon
      BY PlaceBetween
    <2>2. f.positions[h].lon \in -World..World /\ f.positions[j].lon \in -World..World
      BY <2>1
    <2>3. place[1] \in Int /\ place[2] \in Int
      BY PlaceBetween
    <2> QED
      BY <1>1, <2>1, <2>2, <2>3
  <1>4. \A place \in Places(f) :
           Inside(b, [dim |-> 2, lon |-> place[1], lat |-> place[2]]) <=>
             /\ b.south <= place[2] /\ place[2] <= b.north
             /\ IF b.west <= b.east THEN b.west <= place[1] /\ place[1] <= b.east
                ELSE b.west <= place[1] \/ place[1] <= b.east
    BY InsidePlane
  <1>5. CASE b.west <= b.east
    <2>1. IntersectsBound(f, b.west, b.east, b) <=>
           \E place \in Places(f) : /\ b.west <= place[1] /\ place[1] <= b.east
                                    /\ b.south <= place[2] /\ place[2] <= b.north
      BY <1>2, <1>5, BoundMeets
    <2> QED
      BY <1>4, <1>5, <2>1 DEF GeometryIntersectsBBox
  <1>6. CASE ~(b.west <= b.east)
    <2>1. IntersectsBound(f, b.west, World, b) <=>
           \E place \in Places(f) : /\ b.west <= place[1] /\ place[1] <= World
                                    /\ b.south <= place[2] /\ place[2] <= b.north
      BY <1>2, BoundMeets
    <2>2. IntersectsBound(f, -World, b.east, b) <=>
           \E place \in Places(f) : /\ -World <= place[1] /\ place[1] <= b.east
                                    /\ b.south <= place[2] /\ place[2] <= b.north
      BY <1>2, BoundMeets
    <2>3. GeometryIntersectsBBox(f, b) <=>
            IntersectsBound(f, b.west, World, b) \/ IntersectsBound(f, -World, b.east, b)
      BY <1>6 DEF GeometryIntersectsBBox
    <2> QED
      BY <1>3, <1>4, <1>6, <2>1, <2>2, <2>3
  <1> QED
    BY <1>5, <1>6

(* A place in the box is enough for the bounds to meet it.                  *)
LEMMA BoundsMeet ==
  ASSUME NEW f, IsFeature(f), SoundFeature(f), NEW b, IsBBox(b), b.dim = 2,
         NEW place \in Places(f), Inside(b, [dim |-> 2, lon |-> place[1], lat |-> place[2]])
  PROVE  Summary(f).dim # 0 /\ BoundsIntersect(Summary(f), b)
  <1> DEFINE s == Summary(f)
             x == place[1]
             y == place[2]
  <1>1. /\ s.dim # 0 /\ s.west <= x /\ x <= s.east /\ s.south <= y /\ y <= s.north
        /\ s \in SummaryType
    BY PlaceEnclosed
  <1>2. x \in Int /\ y \in Int
    BY PlaceBetween
  <1>3. /\ b.south <= y /\ y <= b.north
        /\ IF b.west <= b.east THEN b.west <= x /\ x <= b.east ELSE b.west <= x \/ x <= b.east
    BY InsidePlane
  <1>4. b.west \in Int /\ b.east \in Int /\ b.south \in Int /\ b.north \in Int
    BY DEF IsBBox
  <1> HIDE DEF s, x, y
  <1>5. s.west \in Int /\ s.east \in Int /\ s.south \in Int /\ s.north \in Int
    BY <1>1, SummaryFields
  <1>6. s.south <= b.north /\ b.south <= s.north
    BY <1>1, <1>2, <1>3, <1>4, <1>5
  <1>7. IF b.west > b.east THEN s.east >= b.west \/ s.west <= b.east
        ELSE s.west <= b.east /\ s.east >= b.west
    BY <1>1, <1>2, <1>3, <1>4, <1>5
  <1>8. BoundsIntersect(s, b)
    BY <1>6, <1>7 DEF BoundsIntersect
  <1> QED
    BY <1>1, <1>8 DEF s

(* What passes the tests of geofilter, in their order, is what is wanted.   *)
LEMMA KeepsWanted ==
  ASSUME input \in Inputs, tool.program = "filter", NEW f, IsFeature(f), Validated(f)
  PROVE  Keeps(f) <=> Wanted(f)
  <1> DEFINE b == tool.box
  <1>1. IsTool(tool)
    BY ToolsAssumption DEF tool
  <1>2. /\ IsBBox(b) /\ b.dim \in {0, 2} /\ ~tool.outOfRange
        /\ b.dim # 0 => b.west \in -World..World /\ b.east \in -World..World
    BY <1>1 DEF IsTool
  <1>3. SoundFeature(f)
    BY DEF Validated
  <1>4. \A i \in DOMAIN f.positions : f.positions[i].lon \in -World..World
    <2>1. f.null => f.positions = <<>>
      BY DEF IsFeature
    <2>2. f.null \/ ~OutOfRange(f)
      BY <1>2 DEF Validated
    <2> QED
      BY <2>1, <2>2 DEF OutOfRange
  <1>5. ASSUME b.dim # 0
        PROVE  Summary(f).dim # 0 /\ BoundsIntersect(Summary(f), b) /\ GeometryIntersectsBBox(f, b)
                 <=> \E place \in Places(f) :
                        Inside(b, [dim |-> 2, lon |-> place[1], lat |-> place[2]])
    <2>1. b.dim = 2
      BY <1>2, <1>5
    <2> HIDE DEF b
    <2>2. GeometryIntersectsBBox(f, b) <=>
           \E place \in Places(f) : Inside(b, [dim |-> 2, lon |-> place[1], lat |-> place[2]])
      BY <1>2, <1>4, <1>5, <2>1, BoxMeets
    <2>3. ASSUME NEW place \in Places(f), Inside(b, [dim |-> 2, lon |-> place[1], lat |-> place[2]])
          PROVE  Summary(f).dim # 0 /\ BoundsIntersect(Summary(f), b)
      BY <1>2, <1>3, <2>1, <2>3, BoundsMeet
    <2> QED
      BY <2>2, <2>3
  <1> QED
    BY <1>5, Zenon DEF Keeps, Wanted

-----------------------------------------------------------------------------
(* What the FeatureWriter has taken.                                        *)

(* The text of some features, but for its end.                              *)
Began(o, fs) ==
    CASE o = "collection" ->
           Mark("header") \o (IF fs = <<>> THEN <<>> ELSE Text(fs[1]))
           \o FlattenSeq([i \in 1..Len(fs) - 1 |-> Mark("comma") \o Text(fs[i + 1])])
      [] o = "seq" ->
           FlattenSeq([i \in DOMAIN fs |-> Mark("separator") \o Text(fs[i]) \o Mark("newline")])
      [] o = "jsonl" ->
           FlattenSeq([i \in DOMAIN fs |-> Text(fs[i]) \o Mark("newline")])

(* ... and with it.                                                         *)
Finished(o, fs) == IF o = "collection" THEN Began(o, fs) \o Mark("end") ELSE Began(o, fs)

(* What is written for one feature more after n.                            *)
TokensFor(o, n, f) ==
    CASE o = "collection" -> (IF n > 0 THEN Mark("comma") ELSE <<>>) \o Text(f)
      [] o = "seq" -> Mark("separator") \o Text(f) \o Mark("newline")
      [] o = "jsonl" -> Text(f) \o Mark("newline")

Outputs == {"jsonl", "collection", "seq"}

(* The tokens are sequences.                                                *)
LEMMA TokensAre ==
  /\ IsSeq(<<>>) /\ \A t : IsSeq(Mark(t)) /\ \A f : IsSeq(Text(f))
  <1>1. IsSeq(<<>>)
    <2>1. <<>> \in Seq({})
      OBVIOUS
    <2> QED
      BY <2>1 DEF IsSeq
  <1>2. ASSUME NEW x  PROVE IsSeq(<<x>>)
    <2>1. <<x>> \in Seq({x})
      OBVIOUS
    <2> QED
      BY <2>1 DEF IsSeq
  <1> QED
    BY <1>1, <1>2 DEF Mark, Text

(* The first of two sequences of sequences that agree.                      *)
LEMMA FlatAgree ==
  ASSUME NEW ss, NEW tt, NEW n, \A i \in 1..n : ss[i] = tt[i]
  PROVE  Flat(ss, n) = Flat(tt, n)
  BY DEF Flat

(* A sequence with an item more.                                            *)
LEMMA AppendItems ==
  ASSUME NEW s, IsSeq(s), NEW x
  PROVE  /\ IsSeq(Append(s, x)) /\ Len(Append(s, x)) = Len(s) + 1 /\ Len(s) \in Nat
         /\ \A i \in 1..Len(s) : Append(s, x)[i] = s[i]
         /\ Append(s, x)[Len(s) + 1] = x /\ Append(s, x) # <<>>
  <1>1. PICK S : s \in Seq(S)
    BY DEF IsSeq
  <1> DEFINE T == S \union {x}
             t == Append(s, x)
  <1>2. s \in Seq(T) /\ x \in T
    BY <1>1
  <1> HIDE DEF T
  <1>3. /\ t \in Seq(T) /\ Len(t) = Len(s) + 1 /\ t[Len(s) + 1] = x
        /\ \A i \in 1..Len(s) : t[i] = s[i]
    BY <1>2, AppendProperties
  <1>4. Len(s) \in Nat
    BY <1>2
  <1> HIDE DEF t
  <1>5. t # <<>>
    BY <1>3, <1>4
  <1>6. IsSeq(t)
    BY <1>3 DEF IsSeq
  <1> QED
    BY <1>3, <1>4, <1>5, <1>6 DEF t

(* A feature in a text of lines or of records.                              *)
Frame(o, f) ==
    IF o = "seq" THEN Mark("separator") \o Text(f) \o Mark("newline") ELSE Text(f) \o Mark("newline")

(* It is a sequence of tokens.                                              *)
LEMMA FrameIs == \A o, f : IsSeq(Frame(o, f))
  <1> SUFFICES ASSUME NEW o, NEW f  PROVE IsSeq(Frame(o, f))
    OBVIOUS
  <1> DEFINE a == Mark("separator")
             b == Text(f)
             c == Mark("newline")
  <1>1. IsSeq(a) /\ IsSeq(b) /\ IsSeq(c)
    BY TokensAre
  <1> HIDE DEF a, b, c
  <1>2. IsSeq(a \o b) /\ IsSeq(b \o c)
    BY <1>1, ConcatSeq
  <1>3. IsSeq((a \o b) \o c)
    BY <1>1, <1>2, ConcatSeq
  <1> QED
    BY <1>2, <1>3 DEF Frame, a, b, c

(* One feature more in such a text.                                         *)
LEMMA FramesGrow ==
  ASSUME NEW fs, IsSeq(fs), NEW f, NEW o
  PROVE  FlattenSeq([i \in DOMAIN Append(fs, f) |-> Frame(o, Append(fs, f)[i])])
           = FlattenSeq([i \in DOMAIN fs |-> Frame(o, fs[i])]) \o Frame(o, f)
  <1> DEFINE gs == Append(fs, f)
             n == Len(fs)
             ss == [i \in 1..n |-> Frame(o, fs[i])]
             tt == [i \in 1..n + 1 |-> Frame(o, gs[i])]
  <1>1. /\ IsSeq(gs) /\ Len(gs) = n + 1 /\ n \in Nat /\ gs[n + 1] = f
        /\ \A i \in 1..n : gs[i] = fs[i]
    BY AppendItems
  <1> HIDE DEF gs, n
  <1>2. \A i \in 1..n : ss[i] = tt[i]
    BY <1>1
  <1>3. tt[n + 1] = Frame(o, f)
    BY <1>1
  <1>4. IsSeq(tt[n + 1])
    BY <1>3, FrameIs
  <1> HIDE DEF ss, tt
  <1>5. Flat(tt, n) = Flat(ss, n)
    BY <1>2, FlatAgree
  <1>6. Flat(tt, n + 1) = Flat(tt, n) \o tt[n + 1]
    BY <1>1, <1>4, FlatMore
  <1>7. FlattenSeq([i \in DOMAIN fs |-> Frame(o, fs[i])]) = Flat(ss, n)
    <2>1. DOMAIN fs = 1..n
      BY SeqFacts DEF n
    <2>2. [i \in 1..n |-> ss[i]] = ss
      BY DEF ss
    <2> QED
      BY <2>1, <2>2 DEF Flat, ss
  <1>8. FlattenSeq([i \in DOMAIN gs |-> Frame(o, gs[i])]) = Flat(tt, n + 1)
    <2>1. DOMAIN gs = 1..n + 1
      BY <1>1, SeqFacts
    <2>2. [i \in 1..n + 1 |-> tt[i]] = tt
      BY DEF tt
    <2> QED
      BY <2>1, <2>2 DEF Flat, tt
  <1> QED
    BY <1>3, <1>5, <1>6, <1>7, <1>8 DEF gs

(* What stands between the header of a collection and its end.              *)
First(fs) == IF fs = <<>> THEN <<>> ELSE Text(fs[1])
Others(fs) == FlattenSeq([i \in 1..Len(fs) - 1 |-> Mark("comma") \o Text(fs[i + 1])])

(* A list of no feature or of one has no comma.                             *)
LEMMA NoOthers ==
  ASSUME NEW fs, Len(fs) \in {0, 1}
  PROVE  Others(fs) = <<>>
  <1> DEFINE n == Len(fs)
             tt == [i \in 1..n - 1 |-> Mark("comma") \o Text(fs[i + 1])]
  <1>1. n = 0 \/ n = 1
    OBVIOUS
  <1> HIDE DEF n
  <1>2. 1..n - 1 = {}
    BY <1>1
  <1>3. tt \in Seq({}) /\ Len(tt) = 0
    <2>1. tt = <<>>
      BY <1>2
    <2> HIDE DEF tt
    <2> QED
      BY <2>1
  <1> HIDE DEF tt
  <1>4. FlattenSeq(tt) = <<>>
    BY <1>3, FlattenNone
  <1> QED
    BY <1>4 DEF Others, tt, n

(* One feature more in a list that has one.                                 *)
LEMMA OthersGrow ==
  ASSUME NEW fs, IsSeq(fs), fs # <<>>, NEW f
  PROVE  /\ Others(Append(fs, f)) = Others(fs) \o (Mark("comma") \o Text(f))
         /\ IsSeq(Others(fs)) /\ IsSeq(Mark("comma") \o Text(f))
  <1> DEFINE gs == Append(fs, f)
             n == Len(fs)
             m == n - 1
             ss == [i \in 1..m |-> Mark("comma") \o Text(fs[i + 1])]
             tt == [i \in 1..n |-> Mark("comma") \o Text(gs[i + 1])]
  <1>1. /\ IsSeq(gs) /\ Len(gs) = n + 1 /\ n \in Nat /\ gs[n + 1] = f
        /\ \A i \in 1..n : gs[i] = fs[i]
    BY AppendItems
  <1>2. n # 0
    BY SeqFacts
  <1>3. m \in Nat /\ m + 1 = n /\ \A i \in 1..m : i \in 1..n /\ i + 1 \in 1..n
    BY <1>1, <1>2
  <1>4. Len(gs) - 1 = n
    BY <1>1
  <1>5. \A x : IsSeq(Mark("comma") \o Text(x))
    <2> SUFFICES ASSUME NEW x  PROVE IsSeq(Mark("comma") \o Text(x))
      OBVIOUS
    <2> DEFINE a == Mark("comma")
               b == Text(x)
    <2>1. IsSeq(a) /\ IsSeq(b)
      BY TokensAre
    <2> HIDE DEF a, b
    <2>2. IsSeq(a \o b)
      BY <2>1, ConcatSeq
    <2> QED
      BY <2>2 DEF a, b
  <1>6. n \in 1..n
    BY <1>1, <1>2
  <1> HIDE DEF gs
  <1>7. \A i \in 1..m : ss[i] = tt[i]
    BY <1>1, <1>3
  <1>8. tt[n] = Mark("comma") \o Text(f)
    BY <1>1, <1>6
  <1>9. \A i \in 1..m : IsSeq(ss[i])
    BY <1>5
  <1>10. Others(fs) = Flat(ss, m)
    BY DEF Others, Flat
  <1>11. Others(gs) = Flat(tt, n)
    BY <1>4 DEF Others, Flat
  <1>12. IsSeq(tt[n])
    BY <1>5, <1>8
  <1> HIDE DEF ss, tt, m, n
  <1>13. Flat(tt, m) = Flat(ss, m)
    BY <1>7, FlatAgree
  <1>14. Flat(tt, m + 1) = Flat(tt, m) \o tt[m + 1]
    BY <1>3, <1>12, FlatMore
  <1>15. IsSeq(Flat(ss, m))
    BY <1>3, <1>9, FlatType
  <1> QED
    BY <1>3, <1>5, <1>8, <1>10, <1>11, <1>13, <1>14, <1>15 DEF gs

(* The text of no feature.                                                  *)
LEMMA BeganNone ==
  ASSUME NEW o \in Outputs
  PROVE  Began(o, <<>>) = IF o = "collection" THEN Mark("header") ELSE <<>>
  <1>1. Others(<<>>) = <<>> /\ First(<<>>) = <<>>
    BY NoOthers DEF First
  <1>2. IsSeq(Mark("header")) /\ (\A s : IsSeq(s) => s \o <<>> = s)
    BY TokensAre, ConcatNothing
  <1>3. (Mark("header") \o First(<<>>)) \o Others(<<>>) = Mark("header")
    BY <1>1, <1>2
  <1>4. \A p : FlattenSeq([i \in DOMAIN <<>> |-> Frame(p, <<>>[i])]) = <<>>
    <2> SUFFICES ASSUME NEW p
                 PROVE  FlattenSeq([i \in DOMAIN <<>> |-> Frame(p, <<>>[i])]) = <<>>
      OBVIOUS
    <2> DEFINE tt == [i \in DOMAIN <<>> |-> Frame(p, <<>>[i])]
    <2>1. tt = <<>>
      OBVIOUS
    <2>2. tt \in Seq({}) /\ Len(tt) = 0
      BY <2>1
    <2> HIDE DEF tt
    <2> QED
      BY <2>2, FlattenNone DEF tt
  <1>5. CASE o = "collection"
    BY <1>3, <1>5 DEF Began, First, Others
  <1>6. CASE o = "seq"
    BY <1>4, <1>6 DEF Began, Frame
  <1>7. CASE o = "jsonl"
    BY <1>4, <1>7 DEF Began, Frame
  <1> QED
    BY <1>5, <1>6, <1>7 DEF Outputs

(* The text of one feature more.                                            *)
LEMMA BeganMore ==
  ASSUME NEW o \in Outputs, NEW fs, IsSeq(fs), NEW f
  PROVE  Began(o, Append(fs, f)) = Began(o, fs) \o TokensFor(o, Len(fs), f)
  <1> DEFINE gs == Append(fs, f)
  <1>1. /\ IsSeq(gs) /\ Len(gs) = Len(fs) + 1 /\ Len(fs) \in Nat /\ gs[Len(fs) + 1] = f
        /\ gs # <<>> /\ \A i \in 1..Len(fs) : gs[i] = fs[i]
    BY AppendItems
  <1>2. CASE o = "collection"
    <2> DEFINE h == Mark("header")
    <2>1. IsSeq(h) /\ IsSeq(Text(f)) /\ IsSeq(First(fs)) /\ IsSeq(<<>>)
      BY TokensAre DEF First
    <2>2. Began(o, fs) = (h \o First(fs)) \o Others(fs)
      BY <1>2 DEF Began, First, Others
    <2>3. Began(o, gs) = (h \o First(gs)) \o Others(gs)
      BY <1>2 DEF Began, First, Others
    <2>4. TokensFor(o, Len(fs), f) = (IF Len(fs) > 0 THEN Mark("comma") ELSE <<>>) \o Text(f)
      BY <1>2 DEF TokensFor
    <2>5. CASE fs = <<>>
      <3>1. Len(fs) = 0 /\ Len(gs) = 1 /\ gs[1] = f
        BY <1>1, <2>5
      <3>2. Others(fs) = <<>> /\ Others(gs) = <<>> /\ First(fs) = <<>> /\ First(gs) = Text(f)
        BY <1>1, <2>5, <3>1, NoOthers DEF First
      <3>3. TokensFor(o, Len(fs), f) = Text(f)
        <4>1. TokensFor(o, Len(fs), f) = <<>> \o Text(f)
          BY <2>4, <3>1
        <4> QED
          BY <2>1, <4>1, ConcatNothing
      <3> DEFINE t == Text(f)
      <3>4. IsSeq(h \o t) /\ IsSeq(t) /\ IsSeq(h)
        BY <2>1, ConcatSeq
      <3> HIDE DEF h, t
      <3>5. (h \o t) \o <<>> = h \o t /\ h \o <<>> = h
        BY <3>4, ConcatNothing
      <3> QED
        BY <2>2, <2>3, <3>2, <3>3, <3>5 DEF t, gs
    <2>6. CASE fs # <<>>
      <3> DEFINE c == Mark("comma") \o Text(f)
                 a == h \o First(fs)
                 b == Others(fs)
      <3>1. Others(gs) = b \o c /\ IsSeq(b) /\ IsSeq(c)
        BY <2>6, OthersGrow
      <3>2. First(gs) = First(fs)
        <4>1. 1 \in 1..Len(fs)
          BY <1>1, <2>6, SeqFacts
        <4> QED
          BY <1>1, <2>6, <4>1 DEF First
      <3>3. TokensFor(o, Len(fs), f) = c
        <4>1. Len(fs) > 0
          BY <1>1, <2>6, SeqFacts
        <4> QED
          BY <2>4, <4>1
      <3>4. IsSeq(a)
        BY <2>1, ConcatSeq
      <3>5. Began(o, fs) = a \o b /\ Began(o, gs) = a \o (b \o c)
        BY <2>2, <2>3, <3>1, <3>2
      <3> HIDE DEF a, b, c
      <3>6. (a \o b) \o c = a \o (b \o c)
        BY <3>1, <3>4, ConcatThree
      <3> QED
        BY <3>3, <3>5, <3>6 DEF gs
    <2> QED
      BY <2>5, <2>6
  <1>3. CASE o = "seq"
    <2>1. TokensFor(o, Len(fs), f) = Frame(o, f)
      BY <1>3 DEF TokensFor, Frame
    <2>2. /\ Began(o, fs) = FlattenSeq([i \in DOMAIN fs |-> Frame(o, fs[i])])
          /\ Began(o, gs) = FlattenSeq([i \in DOMAIN gs |-> Frame(o, gs[i])])
      BY <1>3 DEF Began, Frame
    <2> QED
      BY <2>1, <2>2, FramesGrow
  <1>4. CASE o = "jsonl"
    <2>1. TokensFor(o, Len(fs), f) = Frame(o, f)
      BY <1>4 DEF TokensFor, Frame
    <2>2. /\ Began(o, fs) = FlattenSeq([i \in DOMAIN fs |-> Frame(o, fs[i])])
          /\ Began(o, gs) = FlattenSeq([i \in DOMAIN gs |-> Frame(o, gs[i])])
      BY <1>4 DEF Began, Frame
    <2> QED
      BY <2>1, <2>2, FramesGrow
  <1> QED
    BY <1>2, <1>3, <1>4 DEF Outputs

-----------------------------------------------------------------------------
(* When the reader calls the callback.                                      *)

(* A feature that may come next.                                            *)
Handed(f) ==
    IsFeature(f) /\ IsSeq(visited) /\ Begins(Append(visited, f), GivenIn(input))

(* What is asked of a step that calls it.                                   *)
Calls ==
    /\ Called /\ verdict = "" /\ Handed(Current)
    /\ \/ visited' = Append(visited, Current) /\ verdict' # "refused"
       \/ visited' = visited /\ verdict' = "refused" /\ pc' = "close"

(* ... and of one that does not.                                            *)
Goes == ~Called /\ visited' = visited /\ (verdict' = "refused" => verdict = "refused")

(* A feature of a collection is handed to the callback.                     *)
LEMMA EndFeatureCalls ==
  ASSUME ReaderInv, DeliveringInv, EndFeature
  PROVE  Calls \/ Goes
  <1> DEFINE f == Head(features)
             n == Gone(features, TheItems)
             m == n + 1
             w == Before \o SubSeq(TheItems, 1, m)
             d == Deliverable(object.value, object.allowed)
  <1>1. /\ pc = "position" /\ positions = <<>> /\ Current = f
        /\ \/ pc' = "close" /\ verdict' = "bad feature" /\ visited' = visited
           \/ /\ ~Unsound(f)
              /\ \/ visited' = Append(visited, f) /\ UNCHANGED verdict
                 \/ visited' = visited /\ verdict' = "refused" /\ pc' = "close"
    BY DEF EndFeature, Leave, Current
  <1>2. /\ Holding /\ verdict = "" /\ Collecting /\ Streaming(TheItems, features, bounds)
        /\ features # <<>> /\ Looking(f, positions, geometry)
    BY <1>1, NowLooking
  <1>3. /\ m \in DOMAIN TheItems /\ n \in Nat /\ f = TheItems[m] /\ IsFeature(f)
    BY <1>2, NextFeature
  <1>4. CASE pc' = "close" /\ verdict' = "bad feature" /\ visited' = visited
    BY <1>2, <1>4 DEF Goes, Called
  <1>5. CASE /\ ~Unsound(f)
             /\ \/ visited' = Append(visited, f) /\ UNCHANGED verdict
                \/ visited' = visited /\ verdict' = "refused" /\ pc' = "close"
    <2>1. /\ ~Malformed(f) /\ IsRest(positions, f.positions)
          /\ Summarises(geometry, PartOf(f, positions))
          /\ \A q \in PartOf(f, positions) : ~InGap(f.bbox, q.lon)
      BY <1>2 DEF Looking
    <2>2. PartOf(f, positions) = ToSet(f.positions)
      BY <1>1, <1>3, <2>1, AllOfIt
    <2>3. SoundFeature(f)
      BY <1>3, <1>5, <2>1, <2>2, OthersSound
    <2>4. \A i \in 1..m : SoundFeature(TheItems[i])
      <3>1. \A i \in 1..n : SoundFeature(TheItems[i])
        BY <1>2 DEF Streaming
      <3> HIDE DEF n, f
      <3>2. \A i \in 1..m : i \in 1..n \/ i = m
        BY <1>3
      <3> QED
        BY <1>3, <2>3, <3>1, <3>2
    <2>5. /\ IsSeq(TheItems) /\ DOMAIN TheItems = 1..Len(TheItems) /\ Len(TheItems) \in Nat
          /\ IsSeq(Before)
      BY <1>2, ItemsFacts, HoldingGives
    <2>6. visited = Before \o SubSeq(TheItems, 1, n)
      BY <1>1 DEF DeliveringInv
    <2>7. n + 1 \in 1..Len(TheItems) /\ m \in 0..Len(TheItems)
      BY <1>3, <2>5
    <2>8. Append(visited, f) = w
      <3> HIDE DEF n
      <3>1. Append(Before \o SubSeq(TheItems, 1, n), TheItems[n + 1])
              = Before \o SubSeq(TheItems, 1, n + 1)
        BY <1>3, <2>5, <2>7, OneMore
      <3> QED
        BY <1>3, <2>6, <3>1
    <2> HIDE DEF m
    <2>9. IsSeq(w) /\ Begins(w, Before \o d)
      BY <1>2, <2>4, <2>7, CollectingGives
    <2>10. Begins(Before \o d, GivenIn(input))
      BY <1>2, ObjectBefore DEF Holding, ObjectFields, Before
    <2> HIDE DEF w, d, f, n
    <2>11. Begins(w, GivenIn(input))
      BY <2>9, <2>10, BeginsFurther
    <2>12. IsSeq(visited)
      <3>1. InMembers
        BY <1>1 DEF InMembers
      <3> QED
        BY <3>1, SoFar
    <2>13. Handed(f)
      BY <1>3, <2>8, <2>11, <2>12 DEF Handed
    <2>14. Append(visited, f) # visited
      <3>1. Len(Append(visited, f)) = Len(visited) + 1 /\ Len(visited) \in Nat
        BY <2>12, AppendItems
      <3> HIDE DEF Handed
      <3> QED
        BY <3>1
    <2> QED
      BY <1>1, <1>2, <1>5, <2>13, <2>14 DEF Calls, Called
  <1> QED
    BY <1>1, <1>4, <1>5

(* A lone feature is.                                                       *)
LEMMA EndObjectCalls ==
  ASSUME ReaderInv, DeliveringInv, EndObject
  PROVE  Calls \/ Goes
  <1> DEFINE f == object.value.feature
             d == Deliverable(object.value, object.allowed)
  <1>1. InMembers /\ pc = "member" /\ Current = f
    BY DEF InMembers, EndObject, Current
  <1>2. Holding /\ verdict = "" /\ object.streamed \in BOOLEAN
    BY <1>1, NowHolding DEF Holding, ObjectFields
  <1>3. CASE \/ "type" \notin object.seen \/ (~IsCollection /\ object.value.type # "Feature")
             \/ "type" \in object.seen /\ IsCollection
    <2>1. visited' = visited /\ verdict' # "refused"
      <3>1. CASE "type" \notin object.seen \/ (~IsCollection /\ object.value.type # "Feature")
        BY <3>1 DEF EndObject, Leave
      <3>2. CASE "type" \in object.seen /\ IsCollection /\ object.streamed
        <4>1. verdict' = verdict /\ visited' = visited
          BY <3>2, Zenon DEF EndObject
        <4> QED
          BY <1>2, <4>1
      <3>3. CASE "type" \in object.seen /\ IsCollection /\ ~object.streamed
        <4>1. visited' = visited /\ (EnterFeatures \/ verdict' = "bad collection")
          BY <3>3, Zenon DEF EndObject, Leave
        <4>2. EnterFeatures => verdict' = "bad collection" \/ verdict' = verdict
          BY DEF EnterFeatures, Leave
        <4> QED
          BY <1>2, <4>1, <4>2
      <3> QED
        BY <1>2, <1>3, <3>1, <3>2, <3>3
    <2> QED
      BY <1>2, <2>1 DEF Goes, Called
  <1>4. CASE "type" \in object.seen /\ ~IsCollection /\ object.value.type = "Feature"
    <2>1. VisitObject
      BY <1>4, Zenon DEF EndObject
    <2>2. \/ visited' = Append(visited, f) /\ verdict' = "ok"
          \/ visited' = visited /\ verdict' = "refused" /\ pc' = "close"
      BY <2>1 DEF VisitObject, Leave
    <2>3. ~object.streamed
      BY <1>1, <1>2, <1>4 DEF ReaderInv, CollectionRead, Collecting
    <2>4. visited = Before /\ IsSeq(visited)
      BY <1>1, <2>3, SoFar DEF DeliveringInv
    <2>5. d = <<f>>
      BY <1>2, <1>4, DeliverableFacts DEF Holding, AtObject, IsCollection
    <2>6. IsSeq(Before) /\ IsSeq(Before \o d)
      BY <1>2, HoldingGives
    <2>7. Append(Before, f) = Before \o d
      BY <2>5, <2>6, AppendLast
    <2>8. Begins(Before \o d, GivenIn(input))
      BY <1>2, ObjectBefore DEF Holding, ObjectFields, Before
    <2>9. IsFeature(f)
      BY <1>2 DEF Holding, AtObject, IsObject
    <2>10. Handed(f)
      BY <2>4, <2>7, <2>8, <2>9 DEF Handed
    <2> HIDE DEF f, d
    <2>11. Append(visited, f) # visited
      <3>1. Len(Append(visited, f)) = Len(visited) + 1 /\ Len(visited) \in Nat
        BY <2>4, AppendItems
      <3> QED
        BY <3>1
    <2> QED
      BY <1>1, <1>2, <2>2, <2>10, <2>11 DEF Calls, Called
  <1> QED
    BY <1>3, <1>4

(* Nothing else is handed to it; and what becomes of an object that is left *)
(* because it refused.                                                      *)
LEMMA StepCalls ==
  ASSUME ReaderInv, DeliveringInv, Step
  PROVE  /\ input' = input /\ pc # "done"
         /\ Calls \/ Goes
         /\ pc = "close" /\ verdict = "refused" =>
              pc' = "done" /\ verdict' \in {"refused", "clean-up failed"}
  <1>1. pc \notin {"close", "done"} => verdict = ""
    BY DEF ReaderInv, Judged
  <1>2. CASE Start \/ ReadRecord \/ EndRecord
    BY <1>1, <1>2 DEF Start, ReadRecord, EndRecord, Return, Goes, Called
  <1>3. CASE ReadValue
    BY <1>1, <1>3 DEF ReadValue, Begin, Return, Goes, Called
  <1>4. CASE ReadElement
    BY <1>1, <1>4 DEF ReadElement, Begin, Return, Goes, Called
  <1>5. CASE ReadMember
    BY <1>1, <1>5 DEF ReadMember, EnterFeatures, Leave, readerVars, Goes, Called
  <1>6. CASE EndObject
    <2>1. input' = input /\ pc = "member"
      BY <1>6 DEF EndObject, readerVars
    <2> QED
      BY <1>6, <2>1, EndObjectCalls
  <1>7. CASE EnterFeature \/ EndFeatures
    BY <1>1, <1>7 DEF EnterFeature, EndFeatures, Leave, readerVars, Goes, Called
  <1>8. CASE ReadPosition
    BY <1>1, <1>8 DEF ReadPosition, AddLongitude, Spill, Leave, readerVars, Goes, Called
  <1>9. CASE EndFeature
    <2>1. input' = input /\ pc = "position"
      BY <1>9 DEF EndFeature, readerVars
    <2> QED
      BY <1>9, <2>1, EndFeatureCalls
  <1>10. CASE Finish \/ Rewind \/ Reread
    BY <1>1, <1>10 DEF Finish, Rewind, Reread, Leave, readerVars, Goes, Called
  <1>11. CASE CloseBounds
    BY <1>11 DEF CloseBounds, Return, readerVars, Goes, Called
  <1> QED
    BY <1>2, <1>3, <1>4, <1>5, <1>6, <1>7, <1>8, <1>9, <1>10, <1>11 DEF Step

-----------------------------------------------------------------------------
(* The tools.                                                               *)

(* What the callback is to be given, which of them it accepts, and what it  *)
(* writes of each.                                                          *)
Given == GivenIn(input)
Agreed == {i \in 1..Len(Given) : Answers(Given[i])}
Yields == [i \in 1..Len(Given) |-> Yield(Given[i])]

(* How many it has done with, the one at the limit included.                *)
Taken == Len(visited) + (IF why = "limit" THEN 1 ELSE 0)
Output == Flat(Yields, Taken)

(* Nothing is done before the first feature, nor with a limit of 0.         *)
Untouched ==
    stage = "start" \/ Unread => why = "" /\ wrote = 0 /\ visited = <<>>

Written ==
    tool.program # "check" =>
      /\ wrote = Len(Output)
      /\ tokens = CASE stage = "start" -> <<>>
                    [] stage = "read" -> Began(tool.output, Output)
                    [] stage = "done" -> Finished(tool.output, Output)

Limited ==
    /\ tool.limit >= 0 /\ ~Unread =>
         IF why = "limit" THEN wrote = tool.limit ELSE wrote < tool.limit
    /\ why = "limit" => tool.program = "filter" /\ tool.limit >= 0

(* Why the callback has refused a feature, and what the reader does then.   *)
Refused ==
    /\ why \in {"", "invalid", "limit", "write failed"}
    /\ why = "invalid" => Len(visited) + 1 \in 1..Len(Given) \ Agreed
    /\ why = "write failed" => broken
    /\ why = "" => verdict # "refused"
    /\ why # "" => \/ pc = "close" /\ verdict = "refused"
                   \/ pc = "done" /\ verdict \in {"refused", "clean-up failed"}

Ended ==
    stage = "done" => /\ Unread \/ pc = "done"
                      /\ exit = IF Succeeded /\ ~broken THEN "ok" ELSE "failed"

ToolInv ==
    /\ stage \in {"start", "read", "done"} /\ Taken \in Nat /\ 1..Taken \subseteq Agreed
    /\ Untouched /\ Written /\ Limited /\ Refused /\ Ended

-----------------------------------------------------------------------------
(* What is given to the callback does not change.                           *)
LEMMA SameInput ==
  ASSUME input' = input
  PROVE  /\ Given' = Given /\ Yields' = Yields /\ Agreed' = Agreed
         /\ tool' = tool /\ (Unread' <=> Unread)
  <1>1. Given' = Given
    BY DEF Given
  <1>2. tool' = tool /\ (Unread' <=> Unread)
    BY DEF tool, Unread
  <1>3. Agreed' = Agreed
    BY <1>1, <1>2 DEF Agreed, Answers, Validated
  <1>4. Yields' = Yields
    BY <1>1, <1>2 DEF Yields, Yield, Wanted, Selected, PropertiesMatch
  <1> QED
    BY <1>1, <1>2, <1>3, <1>4

(* What is given, and what is written of it, are sequences.                 *)
LEMMA GivenFacts ==
  ASSUME input \in Inputs
  PROVE  /\ IsSeq(Given) /\ Len(Given) \in Nat /\ DOMAIN Given = 1..Len(Given)
         /\ \A i \in 1..Len(Given) : IsSeq(Yields[i]) /\ Yields[i] = Yield(Given[i])
         /\ \A n \in 0..Len(Given) : IsSeq(Flat(Yields, n))
         /\ IsTool(tool) /\ tool.output \in Outputs
  <1>1. IsSeq(Given) /\ Len(Given) \in Nat /\ DOMAIN Given = 1..Len(Given)
    BY RecordsFacts, SeqFacts DEF Given
  <1>2. \A f : IsSeq(Yield(f))
    <2>1. \A x : <<x>> \in Seq({x})
      OBVIOUS
    <2>2. (\A x : IsSeq(<<x>>)) /\ IsSeq(<<>>)
      BY <2>1, TokensAre DEF IsSeq
    <2> QED
      BY <2>2 DEF Yield
  <1>3. \A i \in 1..Len(Given) : IsSeq(Yields[i]) /\ Yields[i] = Yield(Given[i])
    BY <1>2 DEF Yields
  <1>4. \A n \in 0..Len(Given) : IsSeq(Flat(Yields, n))
    <2> DEFINE m == Len(Given)
    <2> SUFFICES ASSUME NEW n \in 0..m  PROVE IsSeq(Flat(Yields, n))
      OBVIOUS
    <2>1. n \in Nat /\ \A i \in 1..n : i \in 1..m
      <3>1. m \in Nat
        BY <1>1
      <3> HIDE DEF m
      <3> QED
        BY <3>1
    <2>2. \A i \in 1..n : IsSeq(Yields[i])
      BY <1>3, <2>1
    <2> QED
      BY <2>1, <2>2, FlatType
  <1>5. IsTool(tool)
    BY ToolsAssumption DEF tool
  <1>6. tool.output \in Outputs
    BY <1>5 DEF IsTool, Outputs
  <1> QED
    BY <1>1, <1>3, <1>4, <1>5, <1>6

(* The feature that is handed to the callback is the next that is given.    *)
LEMMA NextGiven ==
  ASSUME input \in Inputs, NEW f, Handed(f), NEW k, k = Len(visited) + 1
  PROVE  /\ k \in 1..Len(Given) /\ Given[k] = f /\ IsFeature(f)
         /\ Len(visited) \in Nat /\ Len(visited) \in 0..Len(Given)
         /\ k \in Agreed <=> Answers(f)
         /\ Yields[k] = Yield(f)
         /\ IsSeq(visited) /\ Len(Append(visited, f)) = k
         /\ Flat(Yields, k) = Flat(Yields, Len(visited)) \o Yield(f)
  <1> DEFINE w == Append(visited, f)
             n == Len(visited)
  <1>1. IsFeature(f) /\ IsSeq(visited) /\ Begins(w, Given)
    BY DEF Handed, Given
  <1>2. IsSeq(w) /\ Len(w) = n + 1 /\ n \in Nat /\ w[n + 1] = f
    BY <1>1, AppendItems
  <1> HIDE DEF w, n
  <1>3. PICK u : IsSeq(u) /\ Given = w \o u
    BY <1>1 DEF Begins
  <1>4. /\ Len(Given) = Len(w) + Len(u) /\ Len(u) \in Nat
        /\ \A i \in 1..Len(w) + Len(u) : Given[i] = IF i <= Len(w) THEN w[i] ELSE u[i - Len(w)]
    BY <1>2, <1>3, ConcatSeq, SeqFacts
  <1>5. k = n + 1
    BY DEF n
  <1>6. k \in 1..Len(Given) /\ Given[k] = f /\ n \in 0..Len(Given)
    <2>1. k \in 1..Len(Given) /\ n \in 0..Len(Given)
      BY <1>2, <1>4, <1>5
    <2>2. k \in 1..Len(w) + Len(u) /\ k <= Len(w)
      BY <1>2, <1>4, <1>5
    <2>3. Given[k] = w[k]
      BY <1>4, <2>2
    <2> QED
      BY <1>2, <1>5, <2>1, <2>3
  <1>7. k \in Agreed <=> Answers(f)
    BY <1>6 DEF Agreed
  <1>8. Yields[k] = Yield(f) /\ IsSeq(Yields[k])
    BY <1>6, GivenFacts
  <1>9. Flat(Yields, k) = Flat(Yields, n) \o Yields[k]
    BY <1>2, <1>5, <1>8, FlatMore
  <1> QED
    BY <1>1, <1>2, <1>5, <1>6, <1>7, <1>8, <1>9 DEF w, n

(* At the start nothing is written.                                         *)
LEMMA ToolStarts ==
  ASSUME ToolInit
  PROVE  ToolInv
  <1>1. /\ stage = "start" /\ tokens = <<>> /\ wrote = 0 /\ why = "" /\ verdict = ""
        /\ visited = <<>> /\ input \in Inputs
    BY DEF ToolInit, Init
  <1>2. Taken = 0
    <2>1. Len(visited) = 0 /\ why # "limit"
      BY <1>1
    <2> QED
      BY ONLY <2>1 DEF Taken
  <1>3. Output = <<>>
    BY <1>2, FlatNothing DEF Output
  <1>4. Limited
    <2>1. IsTool(tool)
      BY <1>1, GivenFacts
    <2>2. tool.limit \in Nat \union {-1} /\ (tool.program # "filter" => tool.limit = -1)
      BY <2>1 DEF IsTool
    <2> DEFINE limit == tool.limit
    <2>3. ~Unread /\ limit # -1 => limit # 0
      BY <2>2 DEF Unread
    <2>4. limit \in Nat \union {-1} /\ wrote = 0
      BY <1>1, <2>2
    <2> HIDE DEF limit
    <2>5. limit >= 0 /\ ~Unread => wrote < limit
      BY <2>3, <2>4
    <2> QED
      BY <1>1, <2>5 DEF Limited, limit
  <1>5. Taken \in Nat /\ 1..Taken \subseteq Agreed
    BY <1>2, NoIndex
  <1>6. Written
    BY <1>1, <1>3 DEF Written
  <1> QED
    BY <1>1, <1>4, <1>5, <1>6 DEF ToolInv, Untouched, Refused, Ended

(* The invariant as it is after a step, said of what the step leaves.       *)
LEMMA ToolGoesOn ==
  ASSUME input' = input, NEW n \in Nat, Taken' = n, 1..n \subseteq Agreed,
         stage' = "read", Refused',
         Unread => why' = "" /\ wrote' = 0 /\ visited' = <<>>,
         tool.program # "check" =>
           wrote' = Len(Flat(Yields, n)) /\ tokens' = Began(tool.output, Flat(Yields, n)),
         tool.limit >= 0 /\ ~Unread =>
           IF why' = "limit" THEN wrote' = tool.limit ELSE wrote' < tool.limit,
         why' = "limit" => tool.program = "filter" /\ tool.limit >= 0
  PROVE  ToolInv'
  <1>1. /\ Yields' = Yields /\ Agreed' = Agreed /\ tool' = tool /\ (Unread' <=> Unread)
    BY SameInput
  <1>2. Output' = Flat(Yields, n)
    BY <1>1 DEF Output
  <1>3. Written'
    BY <1>1, <1>2 DEF Written
  <1>4. Limited'
    BY <1>1 DEF Limited
  <1>5. Untouched' /\ Ended'
    BY <1>1 DEF Untouched, Ended
  <1>6. (1..Taken)' \subseteq Agreed'
    BY <1>1
  <1> QED
    BY <1>3, <1>4, <1>5, <1>6 DEF ToolInv

(* When the callback is called it has not refused anything.                 *)
Calling ==
    /\ ToolInv /\ input \in Inputs /\ stage = "read" /\ stage' = "read" /\ ~Unread
    /\ input' = input /\ Calls /\ (verdict' = "refused" <=> why' # "")

(* What the invariant says then.                                            *)
LEMMA CallingFacts ==
  ASSUME Calling, NEW k, k = Len(visited) + 1
  PROVE  /\ why = "" /\ Taken = Len(visited) /\ Output = Flat(Yields, Len(visited))
         /\ Len(visited) \in Nat /\ k \in 1..Len(Given) /\ k \in Nat /\ IsFeature(Current)
         /\ k \in Agreed <=> Answers(Current)
         /\ Answers(Current) => 1..k \subseteq Agreed
         /\ 1..Len(visited) \subseteq Agreed
         /\ Flat(Yields, k) = Flat(Yields, Len(visited)) \o Yield(Current)
         /\ IsSeq(Flat(Yields, Len(visited)))
         /\ \/ visited' = Append(visited, Current) /\ Len(visited') = k /\ why' = ""
            \/ visited' = visited /\ verdict' = "refused" /\ pc' = "close" /\ why' # ""
  <1> DEFINE n == Len(visited)
             f == Current
  <1>1. /\ ToolInv /\ input \in Inputs /\ Calls /\ verdict = ""
        /\ Handed(f) /\ (verdict' = "refused" <=> why' # "")
    BY DEF Calling, Calls
  <1>2. why = ""
    BY <1>1 DEF ToolInv, Refused
  <1> HIDE DEF f
  <1>3. /\ k \in 1..Len(Given) /\ IsFeature(f) /\ n \in Nat /\ n \in 0..Len(Given)
        /\ k \in Agreed <=> Answers(f)
        /\ IsSeq(visited) /\ Len(Append(visited, f)) = k
        /\ Flat(Yields, k) = Flat(Yields, n) \o Yield(f)
    BY <1>1, NextGiven
  <1> HIDE DEF n
  <1>4. Taken = n
    <2>1. why # "limit"
      BY <1>2
    <2> QED
      BY ONLY <1>3, <2>1 DEF Taken, n
  <1>5. Output = Flat(Yields, n)
    BY <1>4 DEF Output
  <1>6. 1..n \subseteq Agreed
    BY <1>1, <1>4 DEF ToolInv
  <1>7. Answers(f) => 1..k \subseteq Agreed
    <2>1. k = n + 1
      BY DEF n
    <2>2. \A i \in 1..k : i \in 1..n \/ i = k
      BY <1>3, <2>1
    <2> QED
      BY <1>3, <1>6, <2>2
  <1>8. IsSeq(Flat(Yields, n))
    BY <1>1, <1>3, GivenFacts
  <1>9. \/ visited' = Append(visited, f) /\ Len(visited') = k /\ why' = ""
        \/ visited' = visited /\ verdict' = "refused" /\ pc' = "close" /\ why' # ""
    BY <1>1, <1>3 DEF Calls, f
  <1>10. k \in Nat
    BY <1>3 DEF n
  <1> QED
    BY <1>2, <1>3, <1>4, <1>5, <1>6, <1>7, <1>8, <1>9, <1>10 DEF n, f

(* A feature that it does not take.                                         *)
LEMMA NotTaken ==
  ASSUME Calling, UNCHANGED <<tokens, wrote>>,
         \/ why' = "invalid" /\ ~Answers(Current)
         \/ why' = "write failed" /\ broken'
  PROVE  ToolInv'
  <1> DEFINE n == Len(visited)
             k == n + 1
  <1>1. /\ why = "" /\ Taken = n /\ Output = Flat(Yields, n) /\ n \in Nat /\ k \in 1..Len(Given)
        /\ k \in Agreed <=> Answers(Current)
        /\ 1..n \subseteq Agreed
        /\ visited' = visited /\ verdict' = "refused" /\ pc' = "close" /\ why' # ""
    BY CallingFacts
  <1>2. /\ ToolInv /\ stage = "read" /\ stage' = "read" /\ ~Unread /\ input' = input
    BY DEF Calling
  <1>3. Given' = Given /\ Agreed' = Agreed
    BY <1>2, SameInput
  <1>4. Refused'
    BY <1>1, <1>3 DEF Refused
  <1>5. Taken' = n
    <2>1. Len(visited') = n /\ why' # "limit"
      BY <1>1
    <2> QED
      BY ONLY <1>1, <2>1 DEF Taken
  <1>6. tool.program # "check" => wrote = Len(Flat(Yields, n)) /\ tokens = Began(tool.output, Flat(Yields, n))
    BY <1>1, <1>2 DEF ToolInv, Written
  <1>7. tool.limit >= 0 /\ ~Unread => wrote < tool.limit
    BY <1>1, <1>2 DEF ToolInv, Limited
  <1> HIDE DEF n
  <1> QED
    BY <1>1, <1>2, <1>4, <1>5, <1>6, <1>7, ToolGoesOn

(* A feature that it takes.                                                 *)
LEMMA IsTaken ==
  ASSUME Calling, Answers(Current), why' \in {"", "limit"},
         NEW k, k = Len(visited) + 1,
         tool.program # "check" =>
           wrote' = Len(Flat(Yields, k)) /\ tokens' = Began(tool.output, Flat(Yields, k)),
         tool.limit >= 0 /\ ~Unread =>
           IF why' = "limit" THEN wrote' = tool.limit ELSE wrote' < tool.limit,
         why' = "limit" => tool.program = "filter" /\ tool.limit >= 0
  PROVE  ToolInv'
  <1> DEFINE n == Len(visited)
  <1>1. /\ n \in Nat /\ k \in Nat /\ 1..k \subseteq Agreed
        /\ \/ visited' = Append(visited, Current) /\ Len(visited') = k /\ why' = ""
           \/ visited' = visited /\ verdict' = "refused" /\ pc' = "close" /\ why' # ""
    BY CallingFacts
  <1>2. /\ stage' = "read" /\ ~Unread /\ input' = input /\ (verdict' = "refused" <=> why' # "")
    BY DEF Calling
  <1>3. Refused'
    BY <1>1, <1>2 DEF Refused
  <1>4. Taken' = k
    <2>1. /\ why' = "limit" => Len(visited') = n
          /\ why' # "limit" => Len(visited') = k
      BY <1>1
    <2>2. k = n + 1
      OBVIOUS
    <2> HIDE DEF n
    <2>3. CASE why' = "limit"
      <3>1. Taken' = n + 1
        BY ONLY <2>1, <2>3 DEF Taken
      <3> QED
        BY <2>2, <3>1
    <2>4. CASE why' # "limit"
      <3>1. Taken' = k + 0 /\ k \in Nat
        <4>1. k \in Nat
          BY <1>1
        <4> QED
          BY ONLY <2>1, <2>4, <4>1 DEF Taken
      <3> QED
        BY ONLY <3>1
    <2> QED
      BY <2>3, <2>4
  <1> QED
    BY <1>1, <1>2, <1>3, <1>4, ToolGoesOn

(* No limit, and one that is reached or not.                                *)
LEMMA LimitFacts ==
  ASSUME NEW l \in Nat \union {-1}
  PROVE  (l >= 0 <=> l # -1) /\ (l # -1 => l \in Nat)
  <1>1. CASE l = -1
    BY <1>1
  <1>2. CASE l \in Nat
    BY <1>2
  <1> QED
    BY <1>1, <1>2

(* One feature more under a limit that is not reached reaches it, or is not  *)
(* the last.                                                                *)
LEMMA LimitReached ==
  ASSUME NEW l \in Nat, NEW w \in Nat, w < l
  PROVE  IF w + 1 >= l THEN w + 1 = l ELSE w + 1 < l
  OBVIOUS

(* A feature that it writes: what it has written, and whether that was the  *)
(* last that the limit allows.                                              *)
LEMMA IsWritten ==
  ASSUME Calling, Answers(Current), tool.program # "check", NEW g, Yield(Current) = <<g>>,
         NEW answer \in {"", "limit"}, WriterWrite(g, answer),
         answer = "limit" <=> tool.limit >= 0 /\ wrote + 1 >= tool.limit
  PROVE  ToolInv'
  <1> DEFINE n == Len(visited)
             k == n + 1
             out == Flat(Yields, n)
             more == Flat(Yields, k)
  <1>1. /\ Output = out /\ why = "" /\ n \in Nat /\ IsSeq(out) /\ more = out \o Yield(Current)
    BY CallingFacts
  <1>2. /\ ToolInv /\ stage = "read" /\ ~Unread /\ input \in Inputs
    BY DEF Calling
  <1>3. wrote = Len(out) /\ tokens = Began(tool.output, out)
    BY <1>1, <1>2 DEF ToolInv, Written
  <1>4. tool.limit >= 0 => wrote < tool.limit
    BY <1>1, <1>2 DEF ToolInv, Limited
  <1>5. /\ tool.output \in Outputs /\ tool.limit \in Nat \union {-1}
        /\ tool.limit >= 0 => tool.program = "filter"
    <2>1. IsTool(tool) /\ tool.output \in Outputs
      BY <1>2, GivenFacts
    <2>2. tool.limit \in Nat \union {-1} /\ (tool.program # "filter" => tool.limit = -1)
      BY <2>1 DEF IsTool
    <2>3. tool.limit >= 0 <=> tool.limit # -1
      BY <2>2, LimitFacts
    <2> QED
      BY <2>1, <2>2, <2>3
  <1> HIDE DEF out, more
  <1>6. more = Append(out, g) /\ Len(more) = Len(out) + 1 /\ Len(out) \in Nat
    <2>1. more = Append(out, g)
      BY <1>1, AppendLast
    <2>2. Len(Append(out, g)) = Len(out) + 1 /\ Len(out) \in Nat
      BY <1>1, AppendItems
    <2> QED
      BY <2>1, <2>2
  <1>7. CASE why' = "write failed" /\ broken' /\ UNCHANGED <<tokens, wrote>>
    BY <1>7, NotTaken
  <1>8. CASE tokens' = tokens \o WriterTokens(g) /\ wrote' = wrote + 1 /\ why' = answer
    <2>1. WriterTokens(g) = TokensFor(tool.output, Len(out), g)
      BY <1>3 DEF WriterTokens, TokensFor
    <2>2. Began(tool.output, more) = Began(tool.output, out) \o TokensFor(tool.output, Len(out), g)
      BY <1>1, <1>5, <1>6, BeganMore
    <2>3. wrote' = Len(more) /\ tokens' = Began(tool.output, more)
      BY <1>3, <1>6, <1>8, <2>1, <2>2
    <2> DEFINE limit == tool.limit
    <2>4. /\ wrote \in Nat /\ limit \in Nat \union {-1} /\ (limit >= 0 => wrote < limit)
          /\ (why' = "limit" <=> limit >= 0 /\ wrote + 1 >= limit) /\ wrote' = wrote + 1
      BY <1>3, <1>4, <1>5, <1>6, <1>8
    <2> HIDE DEF limit
    <2>5. /\ limit >= 0 => IF why' = "limit" THEN wrote' = limit ELSE wrote' < limit
          /\ why' = "limit" => limit >= 0
      <3>1. CASE limit = -1
        BY <2>4, <3>1, LimitFacts
      <3>2. CASE limit # -1
        <4>1. limit \in Nat /\ wrote \in Nat /\ wrote < limit /\ limit >= 0
          BY <2>4, <3>2, LimitFacts
        <4>2. IF wrote + 1 >= limit THEN wrote + 1 = limit ELSE wrote + 1 < limit
          BY <4>1, LimitReached
        <4> QED
          BY <2>4, <4>1, <4>2
      <3> QED
        BY <3>1, <3>2
    <2> HIDE DEF n
    <2>6. /\ tool.limit >= 0 /\ ~Unread =>
              IF why' = "limit" THEN wrote' = tool.limit ELSE wrote' < tool.limit
          /\ why' = "limit" => tool.program = "filter" /\ tool.limit >= 0
      BY <1>5, <2>5 DEF limit
    <2> HIDE DEF k, limit
    <2> QED
      BY <1>8, <2>3, <2>6, IsTaken DEF k, more, n
  <1> QED
    BY <1>7, <1>8 DEF WriterWrite

(* What the callback of each tool does.                                     *)
LEMMA CallbackHolds ==
  ASSUME Calling,
         CASE tool.program = "seq" -> WriterWrite(Current, "")
           [] tool.program = "filter" -> FilterCallback(Current)
           [] tool.program = "check" -> CheckCallback(Current)
  PROVE  ToolInv'
  <1> DEFINE f == Current
  <1>1. /\ IsTool(tool) /\ input \in Inputs /\ IsFeature(f) /\ ToolInv /\ stage = "read" /\ ~Unread
        /\ why = ""
    BY CallingFacts, GivenFacts DEF Calling
  <1>2. /\ tool.program \in {"seq", "filter", "check"} /\ tool.limit \in Nat \union {-1}
        /\ tool.program # "filter" => tool.limit = -1
    BY <1>1 DEF IsTool
  <1>3. CASE tool.program = "seq"
    <2>1. WriterWrite(f, "")
      BY <1>3, Zenon
    <2>2. Yield(f) = <<f>> /\ Answers(f) /\ ~(tool.limit >= 0)
      BY <1>2, <1>3, LimitFacts DEF Yield, Answers
    <2> HIDE DEF f
    <2> QED
      BY <1>3, <2>1, <2>2, IsWritten DEF f
  <1>4. CASE tool.program = "filter"
    <2>1. FilterCallback(f)
      BY <1>4, Zenon
    <2>2. Answers(f) <=> Validated(f)
      BY <1>4 DEF Answers
    <2>3. CASE ~Validated(f)
      BY <2>1, <2>2, <2>3, NotTaken DEF FilterCallback
    <2>4. CASE Validated(f)
      <3>1. Keeps(f) <=> Wanted(f)
        BY <1>1, <1>4, <2>4, KeepsWanted
      <3>2. CASE ~Keeps(f)
        <4>1. why' = "" /\ UNCHANGED <<tokens, wrote>>
          BY <2>1, <2>4, <3>2 DEF FilterCallback
        <4>2. Yield(f) = <<>>
          BY <1>4, <3>1, <3>2 DEF Yield
        <4> DEFINE n == Len(visited)
                   k == n + 1
        <4>3. /\ Output = Flat(Yields, n) /\ IsSeq(Flat(Yields, n))
              /\ Flat(Yields, k) = Flat(Yields, n) \o Yield(f)
          BY CallingFacts
        <4> HIDE DEF n, k
        <4>4. Flat(Yields, k) = Flat(Yields, n)
          BY <4>2, <4>3, ConcatNothing
        <4>5. wrote' = Len(Flat(Yields, k)) /\ tokens' = Began(tool.output, Flat(Yields, k))
          BY <1>1, <1>4, <4>1, <4>3, <4>4 DEF ToolInv, Written
        <4>6. tool.limit >= 0 /\ ~Unread => wrote' < tool.limit
          BY <1>1, <4>1 DEF ToolInv, Limited
        <4> QED
          BY <2>2, <2>4, <4>1, <4>5, <4>6, IsTaken DEF k, n
      <3>3. CASE Keeps(f)
        <4> DEFINE answer == IF tool.limit >= 0 /\ wrote + 1 >= tool.limit THEN "limit" ELSE ""
        <4>1. WriterWrite(Selected(f), answer)
          BY <2>1, <2>4, <3>3 DEF FilterCallback
        <4>2. Yield(f) = <<Selected(f)>>
          BY <1>4, <3>1, <3>3 DEF Yield
        <4>3. answer \in {"", "limit"} /\ (answer = "limit" <=> tool.limit >= 0 /\ wrote + 1 >= tool.limit)
          OBVIOUS
        <4> HIDE DEF answer, f
        <4> QED
          BY <1>4, <2>2, <2>4, <4>1, <4>2, <4>3, IsWritten DEF f
      <3> QED
        BY <3>2, <3>3
    <2> QED
      BY <2>3, <2>4
  <1>5. CASE tool.program = "check"
    <2>1. CheckCallback(f)
      BY <1>5, Zenon
    <2>2. Answers(f) <=> Validated(f)
      BY <1>5 DEF Answers
    <2>3. CASE ~Validated(f)
      <3>1. why' = "invalid" /\ UNCHANGED <<tokens, wrote>>
        BY <2>1, <2>3 DEF CheckCallback
      <3> QED
        BY <2>2, <2>3, <3>1, NotTaken
    <2>4. CASE Validated(f)
      <3>1. why' = "" /\ UNCHANGED <<tokens, wrote>>
        BY <2>1, <2>4 DEF CheckCallback
      <3>2. ~(tool.limit >= 0)
        BY <1>2, <1>5, LimitFacts
      <3> QED
        BY <1>5, <2>2, <2>4, <3>1, <3>2, IsTaken
    <2> QED
      BY <2>3, <2>4
  <1> QED
    BY <1>2, <1>3, <1>4, <1>5

(* A step that reaches no feature.                                          *)
LEMMA NotCalled ==
  ASSUME ToolInv, ReaderInv, DeliveringInv, stage = "read", ~Unread, Step, ~Called,
         UNCHANGED <<stage, tokens, wrote, broken, why>>
  PROVE  ToolInv'
  <1>1. /\ input' = input /\ pc # "done" /\ visited' = visited
        /\ verdict' = "refused" => verdict = "refused"
        /\ pc = "close" /\ verdict = "refused" =>
              pc' = "done" /\ verdict' \in {"refused", "clean-up failed"}
    BY StepCalls DEF Calls, Goes
  <1>2. Given' = Given /\ Agreed' = Agreed
    BY <1>1, SameInput
  <1>3. Refused'
    <2>1. Refused
      BY DEF ToolInv
    <2> QED
      BY <1>1, <1>2, <2>1 DEF Refused
  <1>4. Taken' = Taken /\ Taken \in Nat /\ 1..Taken \subseteq Agreed
    BY <1>1 DEF ToolInv, Taken
  <1>5. tool.program # "check" => wrote = Len(Output) /\ tokens = Began(tool.output, Output)
    BY DEF ToolInv, Written
  <1>6. Limited
    BY DEF ToolInv
  <1> QED
    BY <1>1, <1>3, <1>4, <1>5, <1>6, ToolGoesOn DEF Output, Limited

(* The tool starts,                                                         *)
LEMMA StartToolHolds ==
  ASSUME ToolInv, input \in Inputs, StartTool
  PROVE  ToolInv'
  <1>1. /\ stage = "start" /\ stage' = "read" /\ input' = input
        /\ UNCHANGED <<visited, pc, verdict, wrote, broken, why>>
        /\ tokens' = IF tool.program = "check" THEN <<>> ELSE WriterStart
    BY DEF StartTool, vars, readerVars
  <1>2. why = "" /\ wrote = 0 /\ visited = <<>>
    BY <1>1 DEF ToolInv, Untouched
  <1>3. Taken' = 0 /\ 1..0 \subseteq Agreed
    <2>1. Len(visited') = 0 /\ why' # "limit"
      BY <1>1, <1>2
    <2>2. Taken' = 0
      BY ONLY <2>1 DEF Taken
    <2> QED
      BY <2>2, NoIndex
  <1>4. Flat(Yields, 0) = <<>> /\ tool.output \in Outputs
    BY FlatNothing, GivenFacts
  <1>5. tool.program # "check" => wrote' = Len(Flat(Yields, 0))
                                  /\ tokens' = Began(tool.output, Flat(Yields, 0))
    BY <1>1, <1>2, <1>4, BeganNone DEF WriterStart
  <1>6. Refused'
    <2>1. Given' = Given /\ Agreed' = Agreed
      BY <1>1, SameInput
    <2> QED
      BY <1>1, <2>1 DEF ToolInv, Refused
  <1>7. Limited
    BY DEF ToolInv
  <1> QED
    BY <1>1, <1>2, <1>3, <1>5, <1>6, <1>7, ToolGoesOn DEF Limited

(* it reads,                                                                *)
LEMMA ReadHolds ==
  ASSUME ToolInv, ReaderInv, DeliveringInv, Read
  PROVE  ToolInv'
  <1>1. stage = "read" /\ stage' = "read" /\ ~Unread /\ Step
    BY DEF Read
  <1>2. input \in Inputs
    BY DEF ReaderInv, Place
  <1>3. CASE ~Called
    BY <1>1, <1>3, NotCalled DEF Read
  <1>4. CASE Called
    <2>1. /\ (CASE tool.program = "seq" -> WriterWrite(Current, "") /\ UNCHANGED report
                [] tool.program = "filter" -> FilterCallback(Current) /\ UNCHANGED report
                [] tool.program = "check" -> CheckCallback(Current))
          /\ (verdict' = "refused" <=> why' # "")
      BY <1>4, Zenon DEF Read
    <2>2. Calls /\ input' = input
      BY <1>1, <1>4, StepCalls DEF Goes
    <2>3. Calling
      BY <1>1, <1>2, <2>1, <2>2 DEF Calling
    <2>4. tool.program \in {"seq", "filter", "check"}
      BY <1>2, GivenFacts DEF IsTool
    <2>5. (CASE tool.program = "seq" -> WriterWrite(Current, "")
             [] tool.program = "filter" -> FilterCallback(Current)
             [] tool.program = "check" -> CheckCallback(Current))
      <3>1. CASE tool.program = "seq"
        BY <2>1, <3>1, Zenon
      <3>2. CASE tool.program = "filter"
        BY <2>1, <3>2, Zenon
      <3>3. CASE tool.program = "check"
        BY <2>1, <3>3, Zenon
      <3> QED
        BY <2>4, <3>1, <3>2, <3>3
    <2> QED
      BY <2>3, <2>5, CallbackHolds
  <1> QED
    BY <1>3, <1>4

(* it ends,                                                                 *)
LEMMA CloseToolHolds ==
  ASSUME ToolInv, CloseTool
  PROVE  ToolInv'
  <1>1. /\ stage = "read" /\ stage' = "done" /\ input' = input /\ (Unread \/ pc = "done")
        /\ UNCHANGED <<visited, pc, verdict, wrote, why>>
        /\ tokens' = IF tool.program # "check" /\ tool.output = "collection"
                     THEN tokens \o Mark("end") ELSE tokens
        /\ broken' \in {broken, TRUE}
        /\ exit' = IF Succeeded /\ ~broken' THEN "ok" ELSE "failed"
    BY DEF CloseTool, vars, readerVars
  <1>2. /\ Given' = Given /\ Agreed' = Agreed /\ Yields' = Yields /\ tool' = tool
        /\ (Unread' <=> Unread)
    BY <1>1, SameInput
  <1>3. Taken' = Taken /\ Output' = Output /\ (Succeeded' <=> Succeeded)
    BY <1>1, <1>2 DEF Taken, Output, Succeeded
  <1>4. Written'
    <2>1. Written
      BY DEF ToolInv
    <2> QED
      BY <1>1, <1>2, <1>3, <2>1 DEF Written, Finished
  <1>5. Refused'
    <2>1. Refused
      BY DEF ToolInv
    <2> QED
      BY <1>1, <1>2, <2>1 DEF Refused
  <1>6. Untouched' /\ Limited' /\ Ended'
    <2>1. Untouched /\ Limited
      BY DEF ToolInv
    <2> QED
      BY <1>1, <1>2, <1>3, <2>1 DEF Untouched, Limited, Ended
  <1> QED
    BY <1>1, <1>2, <1>3, <1>4, <1>5, <1>6 DEF ToolInv

(* and nothing happens after.                                               *)
LEMMA ToolStutters ==
  ASSUME ToolInv, UNCHANGED <<vars, toolVars>>
  PROVE  ToolInv'
  <1>1. /\ input' = input
        /\ UNCHANGED <<visited, pc, verdict, stage, tokens, wrote, broken, why, exit>>
    BY DEF vars, readerVars, toolVars
  <1>2. /\ Given' = Given /\ Agreed' = Agreed /\ Yields' = Yields /\ tool' = tool
        /\ (Unread' <=> Unread)
    BY <1>1, SameInput
  <1>3. Taken' = Taken /\ Output' = Output /\ (Succeeded' <=> Succeeded)
    BY <1>1, <1>2 DEF Taken, Output, Succeeded
  <1>4. Untouched' /\ Written' /\ Limited' /\ Refused' /\ Ended'
    <2>1. Untouched /\ Written /\ Limited /\ Refused /\ Ended
      BY DEF ToolInv
    <2> QED
      BY <1>1, <1>2, <1>3, <2>1 DEF Untouched, Written, Limited, Refused, Ended
  <1> QED
    BY <1>1, <1>2, <1>3, <1>4 DEF ToolInv

(* The invariant is inductive.                                              *)
LEMMA ToolStep ==
  ToolInv /\ ReaderInv /\ DeliveringInv /\ [ToolNext]_<<vars, toolVars>> => ToolInv'
  <1> SUFFICES ASSUME ToolInv, ReaderInv, DeliveringInv, [ToolNext]_<<vars, toolVars>>
               PROVE  ToolInv'
    OBVIOUS
  <1>1. input \in Inputs
    BY DEF ReaderInv, Place
  <1>2. StartTool \/ Read \/ CloseTool \/ UNCHANGED <<vars, toolVars>>
    BY DEF ToolNext, ToolReturned
  <1> QED
    BY <1>1, <1>2, StartToolHolds, ReadHolds, CloseToolHolds, ToolStutters

-----------------------------------------------------------------------------
(* What is to be written.                                                   *)

(* A sequence that begins another is the first part of it.                  *)
LEMMA BeginsFirst ==
  ASSUME NEW s, IsSeq(s), NEW t, Begins(s, t)
  PROVE  SubSeq(t, 1, Len(s)) = s /\ Len(s) \in 0..Len(t) /\ IsSeq(t) /\ Len(t) \in Nat
  <1>1. PICK u : IsSeq(u) /\ t = s \o u
    BY DEF Begins
  <1> DEFINE n == Len(s)
             w == SubSeq(t, 1, n)
  <1>2. /\ IsSeq(t) /\ Len(t) = n + Len(u) /\ n \in Nat /\ Len(u) \in Nat
        /\ \A i \in 1..n + Len(u) : t[i] = IF i <= n THEN s[i] ELSE u[i - n]
    BY <1>1, ConcatSeq, SeqFacts
  <1>3. s = [i \in 1..n |-> s[i]]
    BY SeqFacts
  <1> HIDE DEF n
  <1>4. n \in 0..Len(t) /\ Len(t) \in Nat
    BY <1>2
  <1>5. w = [i \in 1..n |-> t[i]]
    BY <1>2, FirstOnes
  <1>6. \A i \in 1..n : t[i] = s[i]
    <2>1. \A i \in 1..n : i \in 1..n + Len(u) /\ i <= n
      BY <1>2
    <2> QED
      BY <1>2, <2>1
  <1> HIDE DEF w
  <1>7. w = s
    BY <1>3, <1>5, <1>6
  <1> QED
    BY <1>2, <1>4, <1>7 DEF n, w

(* The text of what is written, with its end.                               *)
LEMMA FramedIs ==
  ASSUME tool.output \in Outputs, NEW fs
  PROVE  Framed(fs) = Finished(tool.output, fs)
  <1>1. CASE tool.output = "collection"
    BY <1>1 DEF Framed, Finished, Began
  <1>2. CASE tool.output = "seq"
    BY <1>2 DEF Framed, Finished, Began
  <1>3. CASE tool.output = "jsonl"
    BY <1>3 DEF Framed, Finished, Began
  <1> QED
    BY <1>1, <1>2, <1>3 DEF Outputs

Cap(n) == IF tool.limit >= 0 THEN Lower(tool.limit, n) ELSE n

(* The features up to one that is refused, and what is to be written of     *)
(* them.                                                                    *)
LEMMA ExpectedIs ==
  ASSUME input \in Inputs
  PROVE  /\ DeliverableInput = Given
         /\ \E m \in 0..Len(Given) :
              /\ 1..m \subseteq Agreed
              /\ \A n \in 0..Len(Given) : 1..n \subseteq Agreed => n <= m
              /\ Answered = DeliverableInput <=> m = Len(Given)
              /\ Expected = SubSeq(Flat(Yields, m), 1, Cap(Len(Flat(Yields, m))))
  <1> DEFINE all == Given
             S == {n \in 0..Len(all) : \A i \in 1..n : Answers(all[i])}
             m == Max(S)
  <1>1. DeliverableInput = all
    <2>1. DeliverableInput = FlattenSeq(RecordsGiven(input))
      BY DEF DeliverableInput, RecordsGiven, ValuesGiven
    <2> QED
      BY <2>1, DeliverableInputIs DEF Given
  <1>2. IsSeq(all) /\ Len(all) \in Nat /\ (\A i \in 1..Len(all) : Yields[i] = Yield(all[i]))
    BY GivenFacts
  <1>3. Answered = SubSeq(all, 1, m)
    BY <1>1 DEF Answered
  <1>4. Agreed = {i \in 1..Len(all) : Answers(all[i])}
    BY DEF Agreed
  <1> HIDE DEF all
  <1>5. \A n \in 0..Len(all) : n \in S <=> 1..n \subseteq Agreed
    <2> SUFFICES ASSUME NEW n \in 0..Len(all)  PROVE n \in S <=> 1..n \subseteq Agreed
      OBVIOUS
    <2>1. \A i \in 1..n : i \in 1..Len(all)
      BY <1>2
    <2> QED
      BY <1>4, <2>1
  <1>6. 0 \in S /\ S \subseteq 0..Len(all)
    BY <1>2, NoIndex
  <1> HIDE DEF S, m
  <1>7. m \in S /\ \A n \in S : n <= m
    BY <1>2, <1>6, Largest DEF m
  <1>8. m \in 0..Len(all) /\ m \in Nat
    BY <1>2, <1>6, <1>7
  <1>9. /\ IsSeq(Answered) /\ Len(Answered) = m /\ (\A i \in 1..m : Answered[i] = all[i])
        /\ SubSeq(all, 1, Len(all)) = all
    BY <1>2, <1>3, <1>8, FirstItems
  <1>10. Answered = DeliverableInput <=> m = Len(all)
    BY <1>1, <1>3, <1>9
  <1>11. FlattenSeq([i \in DOMAIN Answered |-> Yield(Answered[i])]) = Flat(Yields, m)
    <2>1. DOMAIN Answered = 1..m
      BY <1>9, SeqFacts
    <2>2. \A i \in 1..m : i \in 1..Len(all)
      BY <1>2, <1>8
    <2>3. \A i \in 1..m : Yield(Answered[i]) = Yields[i]
      BY <1>2, <1>9, <2>2
    <2>4. [i \in DOMAIN Answered |-> Yield(Answered[i])] = [i \in 1..m |-> Yields[i]]
      BY <2>1, <2>3
    <2> QED
      BY <2>4 DEF Flat
  <1>12. Expected = SubSeq(Flat(Yields, m), 1, Cap(Len(Flat(Yields, m))))
    BY <1>11 DEF Expected, Cap
  <1>13. \A n \in 0..Len(all) : 1..n \subseteq Agreed => n <= m
    BY <1>5, <1>7
  <1>14. 1..m \subseteq Agreed
    BY <1>5, <1>7, <1>8
  <1>15. \E k \in 0..Len(all) :
           /\ 1..k \subseteq Agreed
           /\ \A n \in 0..Len(all) : 1..n \subseteq Agreed => n <= k
           /\ Answered = DeliverableInput <=> k = Len(all)
           /\ Expected = SubSeq(Flat(Yields, k), 1, Cap(Len(Flat(Yields, k))))
    BY <1>8, <1>10, <1>12, <1>13, <1>14
  <1> QED
    BY <1>1, <1>15 DEF all

(* What has been written is what is to be written up to there.              *)
LEMMA OutputBegins ==
  ASSUME ToolInv, input \in Inputs, tool.program # "check"
  PROVE  /\ wrote \in 0..Len(Expected) /\ SubSeq(Expected, 1, wrote) = Output
         /\ Len(Expected) \in Nat /\ tool.output \in Outputs
         /\ tool.limit >= 0 /\ (why = "limit" \/ Unread) =>
              Len(Expected) = wrote /\ Len(Expected) = tool.limit
         /\ Answered = DeliverableInput /\ Taken = Len(Given)
              /\ ~(tool.limit >= 0 /\ (why = "limit" \/ Unread)) => Len(Expected) = wrote
  <1>1. PICK m \in 0..Len(Given) :
              /\ 1..m \subseteq Agreed
              /\ \A n \in 0..Len(Given) : 1..n \subseteq Agreed => n <= m
              /\ Answered = DeliverableInput <=> m = Len(Given)
              /\ Expected = SubSeq(Flat(Yields, m), 1, Cap(Len(Flat(Yields, m))))
    BY ExpectedIs
  <1> DEFINE out == Output
             kept == Flat(Yields, m)
             n == Taken
             c == Cap(Len(kept))
             limit == tool.limit
  <1>2. /\ Len(Given) \in Nat /\ (\A i \in 1..Len(Given) : IsSeq(Yields[i]))
        /\ (\A k \in 0..Len(Given) : IsSeq(Flat(Yields, k)))
        /\ IsTool(tool) /\ tool.output \in Outputs
    BY GivenFacts
  <1>3. limit \in Nat \union {-1} /\ (tool.program # "filter" => limit = -1)
    BY <1>2 DEF IsTool
  <1>4. /\ n \in Nat /\ 1..n \subseteq Agreed /\ wrote = Len(out)
    BY DEF ToolInv, Written
  <1>5. out = Flat(Yields, n)
    BY DEF Output
  <1> HIDE DEF out, n
  <1>6. n \in 0..m /\ m \in Nat /\ n \in 0..Len(Given)
    <2>1. n \in 0..Len(Given)
      <3>1. n # 0 => n \in 1..n
        BY <1>4
      <3>2. n # 0 => n \in 1..Len(Given)
        BY <1>4, <3>1 DEF Agreed
      <3> QED
        BY <1>2, <1>4, <3>2
    <2>2. n <= m
      BY <1>1, <1>4, <2>1
    <2>3. m \in Nat
      BY <1>2
    <2> QED
      BY <1>4, <2>1, <2>2, <2>3
  <1>7. IsSeq(out) /\ IsSeq(kept)
    BY <1>2, <1>5, <1>6
  <1>8. Begins(out, kept)
    <2>1. \A i \in 1..m : IsSeq(Yields[i])
      <3>1. \A i \in 1..m : i \in 1..Len(Given)
        BY <1>2
      <3> QED
        BY <1>2, <3>1
    <2> QED
      BY <1>5, <1>6, <2>1, FlatBegins
  <1>13. n = Len(Given) /\ m = Len(Given) => out = kept
    BY <1>5
  <1>15. /\ limit >= 0 /\ ~Unread => IF why = "limit" THEN wrote = limit ELSE wrote < limit
         /\ Unread => limit = 0 /\ wrote = 0
    BY DEF ToolInv, Limited, Untouched, Unread
  <1> HIDE DEF kept, limit
  <1>9. /\ SubSeq(kept, 1, Len(out)) = out /\ Len(out) \in 0..Len(kept) /\ Len(kept) \in Nat
    BY <1>7, <1>8, BeginsFirst
  <1>10. c \in 0..Len(kept) /\ Len(out) \in 0..c
         /\ (limit >= 0 /\ (why = "limit" \/ Unread) => c = wrote /\ c = limit)
         /\ (~(limit >= 0 /\ (why = "limit" \/ Unread)) /\ out = kept => c = wrote)
    <2> DEFINE l == Len(kept)
    <2>1. l \in Nat /\ wrote \in 0..l /\ wrote = Len(out)
      BY <1>4, <1>9
    <2>2. CASE limit = -1
      <3>1. c = l /\ ~(limit >= 0)
        BY <2>2, LimitFacts DEF Cap, limit
      <3> HIDE DEF c, l
      <3> QED
        BY <2>1, <3>1 DEF l
    <2>3. CASE limit # -1
      <3>1. limit \in Nat /\ limit >= 0
        BY <1>3, <2>3, LimitFacts
      <3>2. c = Lower(limit, l)
        BY <3>1 DEF Cap, limit
      <3> HIDE DEF c, l
      <3>3. c = IF limit < l THEN limit ELSE l
        BY <3>2 DEF Lower
      <3>4. /\ why = "limit" \/ Unread => wrote = limit
            /\ ~(why = "limit" \/ Unread) => wrote < limit
        BY <1>15, <3>1
      <3>5. out = kept => wrote = l
        BY <2>1 DEF l
      <3>6. /\ c \in 0..l /\ wrote \in 0..c
            /\ (why = "limit" \/ Unread) => c = wrote /\ c = limit
            /\ ~(why = "limit" \/ Unread) /\ out = kept => c = wrote
        BY ONLY <2>1, <3>1, <3>3, <3>4, <3>5
      <3> QED
        BY <2>1, <3>1, <3>6 DEF l
    <2> QED
      BY <2>2, <2>3
  <1>11. Expected = SubSeq(kept, 1, c)
    BY <1>1 DEF kept
  <1> HIDE DEF c
  <1>12. IsSeq(Expected) /\ Len(Expected) = c
    BY <1>7, <1>10, <1>11, FirstItems
  <1>16. Begins(out, Expected)
    BY <1>7, <1>9, <1>10, <1>11, FirstBegins
  <1>17. SubSeq(Expected, 1, Len(out)) = out
    BY <1>7, <1>16, BeginsFirst
  <1>18. c \in Nat
    BY <1>9, <1>10
  <1> QED
    BY <1>1, <1>2, <1>4, <1>10, <1>12, <1>13, <1>17, <1>18 DEF out, n, limit

(* All are answered if the callback accepts all of them.                    *)
LEMMA AnsweredAll ==
  ASSUME input \in Inputs
  PROVE  Answered = DeliverableInput <=> 1..Len(Given) \subseteq Agreed
  <1>1. PICK m \in 0..Len(Given) :
              /\ 1..m \subseteq Agreed
              /\ \A n \in 0..Len(Given) : 1..n \subseteq Agreed => n <= m
              /\ Answered = DeliverableInput <=> m = Len(Given)
    BY ExpectedIs
  <1> DEFINE k == Len(Given)
  <1>2. k \in Nat
    BY GivenFacts
  <1>3. m \in 0..k /\ k \in 0..k
    BY <1>2
  <1> HIDE DEF k
  <1>4. k <= m => m = k
    BY <1>2, <1>3
  <1> QED
    BY <1>1, <1>3, <1>4 DEF k

(* What the invariant says of a tool that has ended.                        *)
LEMMA EndedFacts ==
  ASSUME ToolInv, input \in Inputs, AcceptsExactly, VisitedInOrder, Returns
  PROVE  /\ exit = "ok" <=> Succeeded
         /\ exit \in {"ok", "failed"}
         /\ ~Unread => pc = "done"
         /\ ~Unread /\ verdict = "ok" => /\ why = "" /\ Taken = Len(Given) /\ SoundInput
                                        /\ visited = Given /\ Answered = DeliverableInput
         /\ ~Unread /\ verdict # "ok" /\ why # "limit" => ~Whole \/ verdict \in Disk
         /\ why = "limit" => tool.program = "filter" /\ tool.limit >= 0
  <1>1. /\ ~broken /\ stage = "done"
        /\ Unread \/ pc = "done"
        /\ exit = IF Succeeded THEN "ok" ELSE "failed"
    BY DEF Returns, ToolInv, Ended
  <1>2. Refused /\ (why = "limit" => tool.program = "filter" /\ tool.limit >= 0)
    BY DEF ToolInv, Limited
  <1>3. ASSUME ~Unread, verdict = "ok"
        PROVE  /\ why = "" /\ Taken = Len(Given) /\ SoundInput /\ visited = Given
               /\ Answered = DeliverableInput
    <2>1. why = ""
      BY <1>2, <1>3 DEF Refused
    <2>2. pc = "done" /\ SoundInput /\ visited = DeliverableInput
      BY <1>1, <1>3 DEF AcceptsExactly, VisitedInOrder
    <2>3. visited = Given /\ Len(Given) \in Nat
      BY <2>2, ExpectedIs, GivenFacts
    <2>4. Taken = Len(Given)
      <3>1. why # "limit" /\ Len(visited) = Len(Given) /\ Len(Given) \in Nat
        BY <2>1, <2>3
      <3> QED
        BY ONLY <3>1 DEF Taken
    <2>5. 1..Len(Given) \subseteq Agreed
      BY <2>4 DEF ToolInv
    <2> QED
      BY <2>1, <2>2, <2>3, <2>4, <2>5, AnsweredAll
  <1>4. ASSUME ~Unread, verdict # "ok", why # "limit", verdict \notin Disk
        PROVE  ~Whole
    <2>1. pc = "done"
      BY <1>1, <1>3, <1>4
    <2>2. CASE verdict = "refused"
      <3>1. why = "invalid"
        BY <1>1, <1>2, <1>4, <2>2 DEF Refused
      <3>2. Len(visited) + 1 \in 1..Len(Given) \ Agreed
        BY <1>2, <3>1 DEF Refused
      <3> QED
        BY <3>2, AnsweredAll DEF Whole
    <2>3. CASE verdict # "refused"
      <3>1. verdict \notin Failures \union {"ok"}
        BY <1>4, <2>3 DEF Disk
      <3> QED
        BY <2>1, <3>1 DEF AcceptsExactly, Whole
    <2> QED
      BY <2>2, <2>3
  <1> QED
    BY <1>1, <1>2, <1>3, <1>4

(* What is to be left is.                                                   *)
LEMMA OutputHolds ==
  ASSUME ToolInv, input \in Inputs, AcceptsExactly, VisitedInOrder
  PROVE  OutputIsFiltered
  <1> SUFFICES ASSUME Returns, tool.program # "check"
      PROVE /\ \E n \in 0..Len(Expected) :
                  /\ tokens = Framed(SubSeq(Expected, 1, n))
                  /\ exit = "ok" => n = Len(Expected)
            /\ exit = "ok" => Whole \/ (tool.limit >= 0 /\ Len(Expected) = tool.limit)
            /\ exit = "failed" => ~Whole \/ verdict \in Disk
    BY DEF OutputIsFiltered
  <1> DEFINE limited == tool.limit >= 0 /\ (why = "limit" \/ Unread)
  <1>1. /\ wrote \in 0..Len(Expected) /\ SubSeq(Expected, 1, wrote) = Output
        /\ Len(Expected) \in Nat /\ tool.output \in Outputs
        /\ limited => Len(Expected) = wrote /\ Len(Expected) = tool.limit
        /\ Answered = DeliverableInput /\ Taken = Len(Given) /\ ~limited => Len(Expected) = wrote
    BY OutputBegins
  <1>2. /\ exit = "ok" <=> Succeeded
        /\ exit \in {"ok", "failed"}
        /\ ~Unread /\ verdict = "ok" => /\ why = "" /\ Taken = Len(Given) /\ SoundInput
                                       /\ Answered = DeliverableInput
        /\ ~Unread /\ verdict # "ok" /\ why # "limit" => ~Whole \/ verdict \in Disk
        /\ why = "limit" => tool.limit >= 0
    BY EndedFacts
  <1>3. tokens = Framed(SubSeq(Expected, 1, wrote))
    <2>1. tokens = Finished(tool.output, Output)
      BY DEF ToolInv, Written, Returns
    <2> QED
      BY <1>1, <2>1, FramedIs
  <1>4. Unread => limited
    <2>1. Unread => tool.limit = 0
      BY DEF Unread
    <2>2. tool.limit = 0 => tool.limit >= 0
      OBVIOUS
    <2> QED
      BY <2>1, <2>2
  <1>5. why = "limit" => limited
    BY <1>2
  <1>6. exit = "ok" => \/ limited
                       \/ ~limited /\ Taken = Len(Given) /\ Whole
    BY <1>2, <1>5, <1>4 DEF Succeeded, Whole
  <1>7. exit = "failed" => ~Whole \/ verdict \in Disk
    BY <1>2 DEF Succeeded
  <1>8. exit = "ok" => wrote = Len(Expected)
    BY <1>1, <1>6 DEF Whole
  <1>9. exit = "ok" => Whole \/ (tool.limit >= 0 /\ Len(Expected) = tool.limit)
    BY <1>1, <1>6
  <1> HIDE DEF limited
  <1> QED
    BY <1>1, <1>3, <1>7, <1>8, <1>9

(* The invariant of the reader and that of the tools hold together.         *)
ToolsInv == ReaderInv /\ DeliveringInv /\ ToolInv

(* At the start,                                                            *)
LEMMA ToolsStart == ToolInit => ToolsInv
  <1>1. ToolInit => Init
    BY DEF ToolInit
  <1> QED
    BY <1>1, InitHolds, InitOrdered, ToolStarts DEF ToolsInv

(* and after every step.                                                    *)
LEMMA ToolsGoOn == ToolsInv /\ [ToolNext]_<<vars, toolVars>> => ToolsInv'
  <1>1. [ToolNext]_<<vars, toolVars>> => [Next]_vars
    BY DEF ToolNext, StartTool, Read, CloseTool, ToolReturned, Next
  <1> QED
    BY <1>1, ReaderStep, DeliveringStep, ToolStep DEF ToolsInv

(* What geojsonseq and geofilter leave is a text in the form asked for, of  *)
(* the features that are wanted, for every input, whatever the form, the    *)
(* flags and the limit; and they fail only on what is not sound, or because *)
(* of the disk.                                                             *)
THEOREM OutputIsFilteredCorrect == ToolSpec => []OutputIsFiltered
  <1>1. ToolsInv => OutputIsFiltered
    <2>1. ToolsInv => ToolInv /\ input \in Inputs /\ AcceptsExactly /\ VisitedInOrder
      BY DEF ToolsInv, ReaderInv, Place, Judged, DeliveringInv
    <2> QED
      BY <2>1, OutputHolds
  <1> QED
    BY <1>1, ToolsStart, ToolsGoOn, PTL DEF ToolSpec

-----------------------------------------------------------------------------
(* The report of geojsoncheck.                                              *)

(* The least and the largest of some numbers.                               *)
IsLeast(x, S) == x \in S /\ \A y \in S : x <= y
IsMost(x, S) == x \in S /\ \A y \in S : y <= x

(* They are what the property says they are,                                *)
LEMMA LeastAndMost ==
  ASSUME NEW S, S \subseteq Int, NEW x
  PROVE  /\ IsLeast(x, S) => Min(S) = x
         /\ IsMost(x, S) => Max(S) = x
  <1>1. ASSUME IsLeast(x, S)  PROVE Min(S) = x
    <2>1. x \in S /\ \A y \in S : x =< y
      BY <1>1 DEF IsLeast
    <2>2. Min(S) \in S /\ \A y \in S : Min(S) =< y
      BY <2>1 DEF Min
    <2>3. Min(S) \in Int /\ x \in Int /\ x <= Min(S) /\ Min(S) <= x
      BY <2>1, <2>2
    <2> QED
      BY ONLY <2>3
  <1>2. ASSUME IsMost(x, S)  PROVE Max(S) = x
    <2>1. x \in S /\ \A y \in S : x >= y
      BY <1>2 DEF IsMost
    <2>2. Max(S) \in S /\ \A y \in S : Max(S) >= y
      BY <2>1 DEF Max
    <2>3. Max(S) \in Int /\ x \in Int /\ x <= Max(S) /\ Max(S) <= x
      BY <2>1, <2>2
    <2> QED
      BY ONLY <2>3
  <1> QED
    BY <1>1, <1>2

(* and those of two sets of numbers.                                        *)
LEMMA LeastOfBoth ==
  ASSUME NEW S, S \subseteq Int, NEW T, T \subseteq Int, NEW x, NEW y
  PROVE  /\ IsLeast(x, S) /\ IsLeast(y, T) => IsLeast(Lower(x, y), S \union T)
         /\ IsMost(x, S) /\ IsMost(y, T) => IsMost(Upper(x, y), S \union T)
  <1>1. ASSUME IsLeast(x, S), IsLeast(y, T)  PROVE IsLeast(Lower(x, y), S \union T)
    <2>1. x \in Int /\ y \in Int /\ x \in S /\ y \in T
      BY <1>1 DEF IsLeast
    <2>2. Lower(x, y) \in {x, y} /\ Lower(x, y) <= x /\ Lower(x, y) <= y /\ Lower(x, y) \in Int
      BY <2>1, LowerUpper
    <2>3. \A z \in S \union T : Lower(x, y) <= z
      <3>1. \A z \in S : x <= z /\ z \in Int
        BY <1>1 DEF IsLeast
      <3>2. \A z \in T : y <= z /\ z \in Int
        BY <1>1 DEF IsLeast
      <3> DEFINE l == Lower(x, y)
      <3>3. l \in Int /\ l <= x /\ l <= y
        BY <2>2
      <3> HIDE DEF l
      <3>4. \A z \in S \union T : l <= z
        BY <2>1, <3>1, <3>2, <3>3
      <3> QED
        BY <3>4 DEF l
    <2> QED
      BY <2>1, <2>2, <2>3 DEF IsLeast
  <1>2. ASSUME IsMost(x, S), IsMost(y, T)  PROVE IsMost(Upper(x, y), S \union T)
    <2>1. x \in Int /\ y \in Int /\ x \in S /\ y \in T
      BY <1>2 DEF IsMost
    <2>2. Upper(x, y) \in {x, y} /\ x <= Upper(x, y) /\ y <= Upper(x, y) /\ Upper(x, y) \in Int
      BY <2>1, LowerUpper
    <2>3. \A z \in S \union T : z <= Upper(x, y)
      <3>1. \A z \in S : z <= x /\ z \in Int
        BY <1>2 DEF IsMost
      <3>2. \A z \in T : z <= y /\ z \in Int
        BY <1>2 DEF IsMost
      <3> DEFINE l == Upper(x, y)
      <3>3. l \in Int /\ x <= l /\ y <= l
        BY <2>2
      <3> HIDE DEF l
      <3>4. \A z \in S \union T : z <= l
        BY <2>1, <3>1, <3>2, <3>3
      <3> QED
        BY <3>4 DEF l
    <2> QED
      BY <2>1, <2>2, <2>3 DEF IsMost
  <1> QED
    BY <1>1, <1>2

(* A bbox is the smallest around some positions.                            *)
Lons(ps) == {p.lon : p \in ps}
Lats(ps) == {p.lat : p \in ps}

Bounding(w, a, e, n, ps) ==
    /\ IsLeast(w, Lons(ps)) /\ IsLeast(a, Lats(ps))
    /\ IsMost(e, Lons(ps)) /\ IsMost(n, Lats(ps))

Spans(b, ps) ==
    IF ps = {} THEN b = <<>>
    ELSE \E w, a, e, n \in Int : b = <<w, a, e, n>> /\ Bounding(w, a, e, n, ps)

(* Positions have numbers for coordinates.                                  *)
LEMMA Coordinates ==
  ASSUME NEW ps, ArePositions(ps), NEW qs
  PROVE  /\ Lons(ps) \subseteq Int /\ Lats(ps) \subseteq Int
         /\ Lons(ps \union qs) = Lons(ps) \union Lons(qs)
         /\ Lats(ps \union qs) = Lats(ps) \union Lats(qs)
  BY DEF ArePositions, IsPosition, Lons, Lats

(* The bounds of a summary are that bbox.                                   *)
LEMMA SummaryBounds ==
  ASSUME NEW s, NEW ps, Summarises(s, ps), ArePositions(ps), ~s.mixed, ps # {}
  PROVE  /\ {s.west, s.south, s.east, s.north} \subseteq Int
         /\ Bounding(s.west, s.south, s.east, s.north, ps)
  <1>1. /\ s \in SummaryType
        /\ \A p \in ps : /\ s.west <= p.lon /\ p.lon <= s.east
                         /\ s.south <= p.lat /\ p.lat <= s.north
        /\ \E p \in ps : p.lon = s.west
        /\ \E p \in ps : p.lon = s.east
        /\ \E p \in ps : p.lat = s.south
        /\ \E p \in ps : p.lat = s.north
    BY DEF Summarises
  <1>2. {s.west, s.south, s.east, s.north} \subseteq Int
    BY <1>1, SummaryFields
  <1>3. IsLeast(s.west, Lons(ps)) /\ IsMost(s.east, Lons(ps))
    BY <1>1 DEF IsLeast, IsMost, Lons
  <1>4. IsLeast(s.south, Lats(ps)) /\ IsMost(s.north, Lats(ps))
    BY <1>1 DEF IsLeast, IsMost, Lats
  <1> QED
    BY <1>2, <1>3, <1>4 DEF Bounding

(* Those around some positions and others.                                  *)
LEMMA BoundingBoth ==
  ASSUME NEW ps, ArePositions(ps), NEW qs, ArePositions(qs),
         NEW w, NEW a, NEW e, NEW n, Bounding(w, a, e, n, ps),
         NEW w2, NEW a2, NEW e2, NEW n2, Bounding(w2, a2, e2, n2, qs)
  PROVE  Bounding(Lower(w, w2), Lower(a, a2), Upper(e, e2), Upper(n, n2), ps \union qs)
  <1> DEFINE rs == ps \union qs
             A == Lons(ps)
             B == Lons(qs)
             C == Lats(ps)
             D == Lats(qs)
  <1>1. /\ IsLeast(w, A) /\ IsLeast(a, C) /\ IsMost(e, A) /\ IsMost(n, C)
        /\ IsLeast(w2, B) /\ IsLeast(a2, D) /\ IsMost(e2, B) /\ IsMost(n2, D)
    BY DEF Bounding
  <1>2. /\ A \subseteq Int /\ B \subseteq Int /\ Lons(rs) = A \union B
        /\ C \subseteq Int /\ D \subseteq Int /\ Lats(rs) = C \union D
    BY Coordinates
  <1> HIDE DEF A, B, C, D, rs
  <1>3. IsLeast(Lower(w, w2), A \union B)
    BY <1>1, <1>2, LeastOfBoth
  <1>4. IsLeast(Lower(a, a2), C \union D)
    BY <1>1, <1>2, LeastOfBoth
  <1>5. IsMost(Upper(e, e2), A \union B)
    BY <1>1, <1>2, LeastOfBoth
  <1>6. IsMost(Upper(n, n2), C \union D)
    BY <1>1, <1>2, LeastOfBoth
  <1>7. Bounding(Lower(w, w2), Lower(a, a2), Upper(e, e2), Upper(n, n2), rs)
    BY <1>2, <1>3, <1>4, <1>5, <1>6 DEF Bounding
  <1> QED
    BY <1>7 DEF rs

(* The bbox of the report is extended by a feature.                         *)
LEMMA SpansMore ==
  ASSUME NEW b, NEW ps, Spans(b, ps), ArePositions(ps),
         NEW s, NEW qs, Summarises(s, qs), ArePositions(qs), ~s.mixed
  PROVE  Spans(Extended(b, s), ps \union qs)
  <1>1. s.dim = 0 <=> qs = {}
    BY DEF Summarises
  <1>2. CASE qs = {}
    <2>1. Extended(b, s) = b /\ ps \union qs = ps
      BY <1>1, <1>2 DEF Extended
    <2> QED
      BY <2>1
  <1>3. CASE qs # {}
    <2>1. /\ {s.west, s.south, s.east, s.north} \subseteq Int
          /\ Bounding(s.west, s.south, s.east, s.north, qs)
      BY <1>3, SummaryBounds
    <2>2. CASE ps = {}
      <3>1. b = <<>> /\ ps \union qs = qs
        BY <2>2 DEF Spans
      <3>2. Extended(b, s) = <<s.west, s.south, s.east, s.north>>
        BY <1>1, <1>3, <3>1 DEF Extended, Bounds
      <3>3. \E w, a, e, n \in Int : Extended(b, s) = <<w, a, e, n>> /\ Bounding(w, a, e, n, qs)
        BY <2>1, <3>2
      <3>4. Spans(Extended(b, s), qs)
        BY <1>3, <3>3 DEF Spans
      <3> QED
        BY <3>1, <3>4
    <2>3. CASE ps # {}
      <3>1. PICK w \in Int, a \in Int, e \in Int, n \in Int :
              b = <<w, a, e, n>> /\ Bounding(w, a, e, n, ps)
        BY <2>3 DEF Spans
      <3>2. b # <<>> /\ b[1] = w /\ b[2] = a /\ b[3] = e /\ b[4] = n
        BY <3>1
      <3>3. Extended(b, s) = <<Lower(w, s.west), Lower(a, s.south),
                               Upper(e, s.east), Upper(n, s.north)>>
        BY <1>1, <1>3, <3>2 DEF Extended
      <3> DEFINE rs == ps \union qs
                 w2 == Lower(w, s.west)
                 a2 == Lower(a, s.south)
                 e2 == Upper(e, s.east)
                 n2 == Upper(n, s.north)
      <3>5. w2 \in Int /\ a2 \in Int /\ e2 \in Int /\ n2 \in Int
        BY <2>1, LowerUpper
      <3>6. Bounding(w2, a2, e2, n2, rs)
        BY <2>1, <3>1, BoundingBoth
      <3>8. rs # {}
        BY <2>3
      <3> HIDE DEF w2, a2, e2, n2, rs
      <3>10. Extended(b, s) = <<w2, a2, e2, n2>>
        BY <3>3 DEF w2, a2, e2, n2
      <3>11. Spans(Extended(b, s), rs)
        BY <3>5, <3>6, <3>8, <3>10 DEF Spans
      <3> QED
        BY <3>11 DEF rs
    <2> QED
      BY <2>2, <2>3
  <1> QED
    BY <1>2, <1>3

(* What the bbox of the report is, in the words of the property.            *)
LEMMA SpansIs ==
  ASSUME NEW b, NEW ps, Spans(b, ps), ArePositions(ps)
  PROVE  b = IF ps = {} THEN <<>>
             ELSE <<Min({p.lon : p \in ps}), Min({p.lat : p \in ps}),
                    Max({p.lon : p \in ps}), Max({p.lat : p \in ps})>>
  <1>1. CASE ps = {}
    BY <1>1 DEF Spans
  <1>2. CASE ps # {}
    <2>1. PICK w \in Int, a \in Int, e \in Int, n \in Int :
            b = <<w, a, e, n>> /\ Bounding(w, a, e, n, ps)
      BY <1>2 DEF Spans
    <2>2. Lons(ps) \subseteq Int /\ Lats(ps) \subseteq Int
      BY Coordinates
    <2>3. w = Min(Lons(ps)) /\ e = Max(Lons(ps))
      BY <2>1, <2>2, LeastAndMost DEF Bounding
    <2>4. a = Min(Lats(ps)) /\ n = Max(Lats(ps))
      BY <2>1, <2>2, LeastAndMost DEF Bounding
    <2>5. b = <<Min(Lons(ps)), Min(Lats(ps)), Max(Lons(ps)), Max(Lats(ps))>>
      BY <2>1, <2>3, <2>4
    <2> QED
      BY <1>2, <2>5 DEF Lons, Lats
  <1> QED
    BY <1>1, <1>2

(* The features of each type.                                               *)
Alike(all, n, t) == {i \in 1..n : Type(all[i]) = t}

Tally(types, all, n) ==
    /\ DOMAIN types = {Type(all[i]) : i \in 1..n}
    /\ \A t \in DOMAIN types : types[t] = Cardinality(Alike(all, n, t))

(* One feature more.                                                        *)
LEMMA TallyMore ==
  ASSUME NEW types, NEW all, NEW n \in Nat, Tally(types, all, n), NEW t, t = Type(all[n + 1])
  PROVE  Tally(Tallied(types, t), all, n + 1)
  <1> DEFINE k == n + 1
             c == IF t \in DOMAIN types THEN types[t] ELSE 0
             more == Tallied(types, t)
  <1>1. \A i : i \in 1..k <=> i \in 1..n \/ i = k
    OBVIOUS
  <1>2. k \notin 1..n
    OBVIOUS
  <1>3. \A u : IsFiniteSet(Alike(all, n, u))
    <2> SUFFICES ASSUME NEW u  PROVE IsFiniteSet(Alike(all, n, u))
      OBVIOUS
    <2>1. Alike(all, n, u) \in SUBSET (1..n)
      BY DEF Alike
    <2>2. 1 \in Int /\ n \in Int
      OBVIOUS
    <2>3. IsFiniteSet(1..n)
      BY <2>2, FS_Interval
    <2> QED
      BY <2>1, <2>3, FS_Subset
  <1>4. /\ DOMAIN more = {t} \union DOMAIN types
        /\ more[t] = c + 1
        /\ \A u \in DOMAIN types : u # t => more[u] = types[u]
    <2> DEFINE old(u) == IF u \in DOMAIN types THEN types[u] ELSE 0
               one(u) == IF u = t THEN 1 ELSE 0
    <2>1. more = [u \in DOMAIN types \union {t} |-> old(u) + one(u)]
      BY DEF Tallied
    <2>2. more[t] = c + 1
      <3>1. old(t) = c /\ one(t) = 1
        OBVIOUS
      <3> HIDE DEF old, one, c, more
      <3> QED
        BY <2>1, <3>1
    <2>3. ASSUME NEW u \in DOMAIN types, u # t  PROVE more[u] = types[u]
      <3>1. old(u) = types[u] /\ one(u) = 0
        BY <2>3
      <3>2. types[u] \in Nat
        <4>1. types[u] = Cardinality(Alike(all, n, u))
          BY DEF Tally
        <4> QED
          BY <1>3, <4>1, FS_CardinalityType
      <3> HIDE DEF old, one, more
      <3>3. more[u] = types[u] + 0
        BY <2>1, <3>1
      <3> QED
        BY ONLY <3>2, <3>3
    <2> HIDE DEF old, one
    <2>4. DOMAIN more = {t} \union DOMAIN types
      BY <2>1
    <2> QED
      BY <2>2, <2>3, <2>4
  <1>5. c = Cardinality(Alike(all, n, t))
    <2>1. CASE t \in DOMAIN types
      BY <2>1 DEF Tally
    <2>2. CASE t \notin DOMAIN types
      <3>1. Alike(all, n, t) = {}
        BY <2>2 DEF Tally, Alike
      <3> QED
        BY <2>2, <3>1, FS_EmptySet
    <2> QED
      BY <2>1, <2>2
  <1> HIDE DEF k, more, c
  <1>6. Alike(all, k, t) = Alike(all, n, t) \union {k} /\ k \notin Alike(all, n, t)
    BY <1>1, <1>2 DEF Alike, k
  <1>7. Cardinality(Alike(all, k, t)) = c + 1
    BY <1>3, <1>5, <1>6, FS_AddElement
  <1>8. \A u : u # t => Alike(all, k, u) = Alike(all, n, u)
    BY <1>1 DEF Alike, k
  <1>9. DOMAIN more = {Type(all[i]) : i \in 1..k}
    BY <1>1, <1>4 DEF Tally, k
  <1>10. \A u \in DOMAIN more : more[u] = Cardinality(Alike(all, k, u))
    BY <1>4, <1>7, <1>8 DEF Tally
  <1>11. Tally(more, all, k)
    BY <1>9, <1>10 DEF Tally
  <1> QED
    BY <1>11 DEF more, k

-----------------------------------------------------------------------------
(* The positions of some features, feature by feature.                      *)
Spots(all) == [i \in 1..Len(all) |-> all[i].positions]

(* A report is that of the first n.                                         *)
Reports(r, all, n) ==
    /\ r.features = n /\ r.positions = Len(Flat(Spots(all), n))
    /\ Tally(r.types, all, n) /\ Spans(r.bbox, PositionsOf(all, n))
    /\ \A i \in 1..n : IsFeature(all[i])

(* That of none,                                                            *)
LEMMA ReportNothing == \A all : Reports(NoReport, all, 0)
  <1> SUFFICES ASSUME NEW all  PROVE Reports(NoReport, all, 0)
    OBVIOUS
  <1>1. /\ NoReport.features = 0 /\ NoReport.positions = 0
        /\ NoReport.types = <<>> /\ NoReport.bbox = <<>>
    BY DEF NoReport
  <1>2. Flat(Spots(all), 0) = <<>> /\ PositionsOf(all, 0) = {}
    BY FlatNothing, NoPositions
  <1>3. Tally(<<>>, all, 0)
    BY NoIndex DEF Tally
  <1>4. Spans(<<>>, {})
    BY DEF Spans
  <1>5. NoReport.positions = Len(Flat(Spots(all), 0))
    BY <1>1, <1>2
  <1> QED
    BY <1>1, <1>2, <1>3, <1>4, <1>5, NoIndex DEF Reports

(* and that of one more, which is sound.                                    *)
LEMMA ReportMore ==
  ASSUME NEW all, IsSeq(all), NEW n \in Nat, NEW k, k = n + 1, k \in 1..Len(all),
         NEW r, Reports(r, all, n), NEW f, f = all[k], IsFeature(f), SoundFeature(f),
         NEW q, q.features = r.features + 1, q.positions = r.positions + Len(f.positions),
         q.types = Tallied(r.types, Type(f)), q.bbox = Extended(r.bbox, Summary(f))
  PROVE  Reports(q, all, k)
  <1> DEFINE spots == Spots(all)
             ps == PositionsOf(all, n)
             qs == ToSet(f.positions)
             here == f.positions
             s == Summary(f)
  <1>1. /\ r.features = n /\ r.positions = Len(Flat(spots, n)) /\ Tally(r.types, all, n)
        /\ Spans(r.bbox, ps) /\ \A i \in 1..n : IsFeature(all[i])
    BY DEF Reports
  <1>2. \A i \in 1..k : i \in 1..Len(all) /\ (i \in 1..n \/ i = k)
    <2>1. Len(all) \in Nat
      BY SeqFacts
    <2> QED
      BY <2>1
  <1>3. \A i \in 1..k : IsFeature(all[i]) /\ spots[i] = all[i].positions
    BY <1>1, <1>2 DEF Spots
  <1>4. \A i \in 1..k : IsSeq(spots[i])
    BY <1>3, FeaturePositions
  <1>5. k \in 1..k /\ \A i \in 1..n : i \in 1..k
    OBVIOUS
  <1>6. IsSeq(here) /\ IsSeq(Flat(spots, n)) /\ Flat(spots, k) = Flat(spots, n) \o here
    <2>1. IsSeq(spots[k]) /\ spots[k] = here
      BY <1>3, <1>4, <1>5
    <2>2. IsSeq(Flat(spots, n))
      BY <1>4, <1>5, FlatType
    <2> HIDE DEF spots, here
    <2>3. Flat(spots, k) = Flat(spots, n) \o spots[k]
      BY <2>1, FlatMore
    <2> QED
      BY <2>1, <2>2, <2>3
  <1>7. q.positions = Len(Flat(spots, k))
    <2>1. Len(Flat(spots, n) \o here) = Len(Flat(spots, n)) + Len(here)
      BY <1>6, ConcatSeq
    <2> QED
      BY <1>1, <1>6, <2>1
  <1>8. Tally(q.types, all, k)
    BY <1>1, TallyMore
  <1>9. PositionsOf(all, k) = ps \union qs
    BY MorePositions
  <1>10. ArePositions(ps)
    <2>1. \A i \in 1..n : ArePositions(ToSet(all[i].positions))
      BY <1>1, FeaturePositions
    <2> QED
      BY <2>1 DEF ArePositions, PositionsOf
  <1>11. Summarises(s, qs) /\ ArePositions(qs)
    BY SummaryIs
  <1>12. ~s.mixed
    <2>1. \A p, o \in qs : p.dim = o.dim
      <3>1. CASE f.null
        <4>1. here = <<>>
          BY <3>1 DEF IsFeature
        <4> QED
          BY <4>1 DEF ToSet
      <3>2. CASE ~f.null
        BY <3>2 DEF SoundFeature, ToSet
      <3> QED
        BY <3>1, <3>2
    <2> HIDE DEF qs, s
    <2> QED
      BY <1>11, <2>1, MixedIs
  <1>13. Spans(q.bbox, PositionsOf(all, k))
    <2> HIDE DEF ps, qs, s
    <2>1. Spans(Extended(r.bbox, s), ps \union qs)
      BY <1>1, <1>10, <1>11, <1>12, SpansMore
    <2> QED
      BY <1>9, <2>1 DEF s
  <1>14. q.features = k
    BY <1>1
  <1> QED
    BY <1>3, <1>7, <1>8, <1>13, <1>14 DEF Reports

(* The report is that of the features that have been accepted.              *)
ReportInv == tool.program = "check" => Reports(report, Given, Len(visited))

(* The callback of geojsoncheck.                                            *)
LEMMA CheckHolds ==
  ASSUME ReportInv, Calling, tool.program = "check", CheckCallback(Current)
  PROVE  ReportInv'
  <1> DEFINE n == Len(visited)
             k == n + 1
  <1>1. /\ input \in Inputs /\ Handed(Current) /\ input' = input
        /\ Reports(report, Given, n)
    BY DEF Calling, Calls, ReportInv
  <1>2. Given' = Given /\ tool' = tool
    BY <1>1, SameInput
  <1>3. /\ n \in Nat /\ k \in 1..Len(Given) /\ IsFeature(Current)
        /\ \/ visited' = Append(visited, Current) /\ Len(visited') = k /\ why' = ""
           \/ visited' = visited /\ why' # ""
    BY CallingFacts
  <1> DEFINE f == Current
  <1>4. Given[k] = f /\ IsSeq(Given)
    <2>1. Handed(f)
      BY <1>1
    <2> HIDE DEF f
    <2> QED
      BY <1>1, <2>1, NextGiven, GivenFacts
  <1>5. CASE Validated(f)
    <2>1. PICK q : q = report'
      OBVIOUS
    <2>2. /\ q = [features |-> report.features + 1,
                  positions |-> report.positions + Len(f.positions),
                  types |-> Tallied(report.types, Type(f)),
                  bbox |-> Extended(report.bbox, Summary(f))]
          /\ why' = ""
      BY <1>5, <2>1 DEF CheckCallback
    <2>3. SoundFeature(f)
      BY <1>5 DEF Validated
    <2>4. Len(visited') = k
      BY <1>3, <2>2
    <2> HIDE DEF f, n
    <2>5. /\ q.features = report.features + 1
          /\ q.positions = report.positions + Len(f.positions)
          /\ q.types = Tallied(report.types, Type(f))
          /\ q.bbox = Extended(report.bbox, Summary(f))
      BY <2>2
    <2> HIDE DEF k
    <2>6. IsFeature(f)
      BY <1>3 DEF f
    <2>7. Reports(q, Given, k)
      BY <1>1, <1>3, <1>4, <2>3, <2>5, <2>6, ReportMore DEF k
    <2> QED
      BY <1>2, <2>1, <2>4, <2>7 DEF ReportInv
  <1>6. CASE ~Validated(f)
    <2>1. report' = report /\ why' = "invalid"
      BY <1>6 DEF CheckCallback
    <2>2. visited' = visited
      BY <1>3, <2>1
    <2> QED
      BY <1>1, <1>2, <2>1, <2>2 DEF ReportInv
  <1> QED
    BY <1>5, <1>6

(* No other step changes the report, nor what has been accepted.            *)
LEMMA ReportStands ==
  ASSUME ReportInv, input' = input, report' = report, visited' = visited
  PROVE  ReportInv'
  <1>1. Given' = Given /\ tool' = tool
    BY SameInput
  <1> QED
    BY <1>1 DEF ReportInv

(* The invariant is inductive.                                              *)
LEMMA ReportStep ==
  ReportInv /\ ToolsInv /\ [ToolNext]_<<vars, toolVars>> => ReportInv'
  <1> SUFFICES ASSUME ReportInv, ToolsInv, [ToolNext]_<<vars, toolVars>>
               PROVE  ReportInv'
    OBVIOUS
  <1>1. ToolInv /\ ReaderInv /\ DeliveringInv /\ input \in Inputs
    BY DEF ToolsInv, ReaderInv, Place
  <1>2. StartTool \/ Read \/ CloseTool \/ UNCHANGED <<vars, toolVars>>
    BY DEF ToolNext, ToolReturned
  <1>3. CASE StartTool \/ CloseTool \/ UNCHANGED <<vars, toolVars>>
    <2>1. UNCHANGED <<input, report, visited>>
      BY <1>3 DEF StartTool, CloseTool, vars, readerVars, toolVars
    <2> QED
      BY <2>1, ReportStands
  <1>4. CASE Read
    <2>1. stage = "read" /\ stage' = "read" /\ ~Unread /\ Step
      BY <1>4 DEF Read
    <2>2. CASE ~Called
      <3>1. report' = report
        BY <1>4, <2>2 DEF Read
      <3>2. input' = input /\ visited' = visited
        BY <1>1, <2>1, <2>2, StepCalls DEF Goes, Calls
      <3> QED
        BY <3>1, <3>2, ReportStands
    <2>3. CASE Called
      <3>1. /\ (CASE tool.program = "seq" -> WriterWrite(Current, "") /\ UNCHANGED report
                  [] tool.program = "filter" -> FilterCallback(Current) /\ UNCHANGED report
                  [] tool.program = "check" -> CheckCallback(Current))
            /\ (verdict' = "refused" <=> why' # "")
        BY <1>4, <2>3, Zenon DEF Read
      <3>2. Calls /\ input' = input
        BY <1>1, <2>1, <2>3, StepCalls DEF Goes
      <3>3. Calling
        BY <1>1, <2>1, <3>1, <3>2 DEF Calling
      <3>4. CASE tool.program = "check"
        <4>1. CheckCallback(Current)
          BY <3>1, <3>4, Zenon
        <4> QED
          BY <3>3, <3>4, <4>1, CheckHolds
      <3>5. CASE tool.program # "check"
        <4>1. tool' = tool
          BY <3>2, SameInput
        <4> QED
          BY <3>5, <4>1 DEF ReportInv
      <3> QED
        BY <3>4, <3>5
    <2> QED
      BY <2>2, <2>3
  <1> QED
    BY <1>2, <1>3, <1>4

(* The report of an accepted input is exact.                                *)
LEMMA ReportHolds ==
  ASSUME ToolInv, ReportInv, input \in Inputs, AcceptsExactly, VisitedInOrder
  PROVE  ReportIsExact
  <1> DEFINE all == DeliverableInput
             at == UNION {ToSet(all[i].positions) : i \in DOMAIN all}
             n == Len(all)
  <1> SUFFICES ASSUME Returns, tool.program = "check"
      PROVE /\ exit = "ok" <=> Whole /\ verdict \notin Disk
            /\ exit = "ok" =>
                 /\ report.features = Len(all)
                 /\ report.positions = Len(FlattenSeq([i \in DOMAIN all |-> all[i].positions]))
                 /\ \A t \in DOMAIN report.types :
                       report.types[t] = Cardinality({i \in DOMAIN all : Type(all[i]) = t})
                 /\ {Type(all[i]) : i \in DOMAIN all} = DOMAIN report.types
                 /\ report.bbox = IF at = {} THEN <<>>
                                  ELSE <<Min({p.lon : p \in at}), Min({p.lat : p \in at}),
                                         Max({p.lon : p \in at}), Max({p.lat : p \in at})>>
    BY DEF ReportIsExact
  <1>1. /\ exit = "ok" <=> Succeeded
        /\ ~Unread /\ verdict = "ok" => SoundInput /\ visited = Given /\ Answered = DeliverableInput
        /\ ~Unread /\ verdict # "ok" /\ why # "limit" => ~Whole \/ verdict \in Disk
        /\ why = "limit" => tool.program = "filter"
    BY EndedFacts
  <1>2. ~Unread /\ why # "limit"
    BY <1>1 DEF Unread
  <1>3. exit = "ok" <=> verdict = "ok"
    BY <1>1, <1>2 DEF Succeeded
  <1>4. "ok" \notin Disk
    BY DEF Disk, Failures
  <1>5. exit = "ok" <=> Whole /\ verdict \notin Disk
    BY <1>1, <1>2, <1>3, <1>4, SMTT(30) DEF Whole
  <1>6. all = Given /\ DOMAIN all = 1..n
    BY ExpectedIs, GivenFacts
  <1>7. ASSUME exit = "ok"
        PROVE  /\ report.features = n
               /\ report.positions = Len(FlattenSeq([i \in DOMAIN all |-> all[i].positions]))
               /\ \A t \in DOMAIN report.types :
                     report.types[t] = Cardinality({i \in DOMAIN all : Type(all[i]) = t})
               /\ {Type(all[i]) : i \in DOMAIN all} = DOMAIN report.types
               /\ report.bbox = IF at = {} THEN <<>>
                                ELSE <<Min({p.lon : p \in at}), Min({p.lat : p \in at}),
                                       Max({p.lon : p \in at}), Max({p.lat : p \in at})>>
    <2>1. Reports(report, all, n)
      BY <1>1, <1>2, <1>3, <1>6, <1>7 DEF ReportInv
    <2>2. at = PositionsOf(all, n)
      BY <1>6 DEF PositionsOf
    <2>3. [i \in DOMAIN all |-> all[i].positions] = [i \in 1..n |-> Spots(all)[i]]
      BY <1>6 DEF Spots
    <2> HIDE DEF all, n
    <2>4. /\ report.features = n /\ report.positions = Len(Flat(Spots(all), n))
          /\ Tally(report.types, all, n) /\ Spans(report.bbox, PositionsOf(all, n))
          /\ \A i \in 1..n : IsFeature(all[i])
      BY <2>1 DEF Reports
    <2>5. FlattenSeq([i \in DOMAIN all |-> all[i].positions]) = Flat(Spots(all), n)
      BY <2>3 DEF Flat
    <2>6. \A t : {i \in DOMAIN all : Type(all[i]) = t} = Alike(all, n, t)
      BY <1>6 DEF Alike
    <2>7. {Type(all[i]) : i \in DOMAIN all} = DOMAIN report.types
      BY <1>6, <2>4 DEF Tally
    <2>8. \A t \in DOMAIN report.types :
             report.types[t] = Cardinality({i \in DOMAIN all : Type(all[i]) = t})
      BY <2>4, <2>6 DEF Tally
    <2>9. ArePositions(at)
      <3>1. \A i \in 1..n : ArePositions(ToSet(all[i].positions))
        BY <2>4, FeaturePositions
      <3>2. ArePositions(PositionsOf(all, n))
        BY <3>1 DEF ArePositions, PositionsOf
      <3> QED
        BY <2>2, <3>2
    <2>10. Spans(report.bbox, at)
      BY <2>2, <2>4
    <2> HIDE DEF at
    <2>11. report.bbox = IF at = {} THEN <<>>
                         ELSE <<Min({p.lon : p \in at}), Min({p.lat : p \in at}),
                                Max({p.lon : p \in at}), Max({p.lat : p \in at})>>
      BY <2>9, <2>10, SpansIs
    <2> QED
      BY <2>4, <2>5, <2>7, <2>8, <2>11
  <1> HIDE DEF all, at, n
  <1> QED
    BY <1>5, <1>7 DEF n

(* Of an input that it accepts, however much there is of it, geojsoncheck   *)
(* counts every feature, position and type, and finds the smallest bbox.    *)
THEOREM ReportIsExactCorrect == ToolSpec => []ReportIsExact
  <1> DEFINE Inv == ToolsInv /\ ReportInv
  <1>1. ToolInit => Inv
    <2>1. ToolInit => ReportInv
      <3> SUFFICES ASSUME ToolInit  PROVE ReportInv
        OBVIOUS
      <3>1. report = NoReport /\ visited = <<>>
        BY DEF ToolInit, Init
      <3>2. Len(visited) = 0
        BY <3>1
      <3> QED
        BY <3>1, <3>2, ReportNothing DEF ReportInv
    <2> QED
      BY <2>1, ToolsStart
  <1>2. Inv /\ [ToolNext]_<<vars, toolVars>> => Inv'
    BY ToolsGoOn, ReportStep
  <1>3. Inv => ReportIsExact
    <2>1. ToolsInv => ToolInv /\ input \in Inputs /\ AcceptsExactly /\ VisitedInOrder
      BY DEF ToolsInv, ReaderInv, Place, Judged, DeliveringInv
    <2> QED
      BY <2>1, ReportHolds
  <1> QED
    BY <1>1, <1>2, <1>3, PTL DEF ToolSpec

=============================================================================
