-------------------------- MODULE GeoParquetProofs --------------------------
(***************************************************************************)
(* Theorems about GeoParquet, for every sequence of features, every        *)
(* setting and every failure: boxes and what is gathered of the geometries *)
(* in a column; the columns of the properties, which take no reserved      *)
(* name; what every step of the two encoders and of the decoder keeps; and *)
(* that a feature comes back: its geometry out of nested lists, its        *)
(* properties out of their columns, and so each row out of the file.       *)
(***************************************************************************)
EXTENDS GeoParquet, FiniteSetTheorems, WellFoundedInduction, TLAPS

-----------------------------------------------------------------------------
(* Induction up to a bound, with a set in place of a predicate: the         *)
(* well-founded relation is that between the sets of what is above a        *)
(* number.                                                                  *)
LEMMA UpTo ==
  ASSUME NEW n \in Nat, NEW D, 0 \in D, \A k \in 0..n - 1 : k \in D => k + 1 \in D
  PROVE  \A k \in 0..n : k \in D
  <1> DEFINE Above(j) == {k \in 0..n : j <= k}
             R == StrictSubsetOrdering(0..n)
             F == FiniteSubsetsOf(0..n)
             T == {Above(j) : j \in {k \in 0..n : \A i \in 0..k : i \in D}}
  <1>1. IsFiniteSet(0..n)
    BY FS_Interval
  <1>2. F = SUBSET (0..n)
    BY <1>1, FS_FiniteSubsetsOfFinite
  <1>3. IsWellFoundedOn(R, F)
    BY FS_StrictSubsetOrderingWellFounded
  <1>4. Above(0) \in T
    OBVIOUS
  <1>5. T \subseteq F
    BY <1>2
  <1>6. PICK x \in T : \A y \in T : ~(<<y, x>> \in R)
    BY <1>3, <1>4, <1>5, WFMin
  <1>7. PICK j \in 0..n : x = Above(j) /\ \A i \in 0..j : i \in D
    BY <1>6
  <1>8. j = n
    <2> SUFFICES ASSUME j # n  PROVE FALSE
      OBVIOUS
    <2>1. j + 1 \in 0..n /\ j \in 0..n-1
      OBVIOUS
    <2>2. \A i \in 0..j + 1 : i \in D
      BY <1>7, <2>1
    <2>3. Above(j + 1) \in T
      BY <2>1, <2>2
    <2>4. Above(j + 1) \subseteq x /\ Above(j + 1) # x
      BY <1>7, <2>1
    <2>5. <<Above(j + 1), x>> \in R
      BY <2>3, <2>4, <1>2, <1>5, <1>6 DEF StrictSubsetOrdering
    <2> QED
      BY <1>6, <2>3, <2>5
  <1> QED
    BY <1>7, <1>8


-----------------------------------------------------------------------------
(* The least and the greatest of a set.                                     *)

IsLeast(m, S) == m \in S /\ \A x \in S : m <= x
IsGreatest(m, S) == m \in S /\ \A x \in S : x <= m

(* A set of integers has one least and one greatest element.                *)
LEMMA LeastIs ==
  ASSUME NEW S, S \subseteq Int, NEW m
  PROVE  /\ IsLeast(m, S) => Min(S) = m
         /\ IsGreatest(m, S) => Max(S) = m
  <1>1. \A x, y \in Int : (x <= y /\ y <= x => x = y) /\ (x <= y <=> y >= x)
    OBVIOUS
  <1>2. ASSUME IsLeast(m, S)  PROVE Min(S) = m
    <2>1. Min(S) \in S /\ \A x \in S : Min(S) <= x
      BY <1>2 DEF IsLeast, Min
    <2> QED
      BY <1>1, <1>2, <2>1 DEF IsLeast
  <1>3. ASSUME IsGreatest(m, S)  PROVE Max(S) = m
    <2>1. \A x \in S : m >= x
      BY <1>1, <1>3 DEF IsGreatest
    <2>2. Max(S) \in S /\ \A x \in S : Max(S) >= x
      BY <1>3, <2>1 DEF IsGreatest, Max
    <2> QED
      BY <1>1, <1>3, <2>2 DEF IsGreatest
  <1> QED
    BY <1>2, <1>3

(* A set of natural numbers below a bound has a least and a greatest.       *)
LEMMA BoundedHas ==
  ASSUME NEW n \in Nat, NEW S, S \subseteq 0..n, NEW e \in S
  PROVE  /\ \E y : IsGreatest(y, S)
         /\ \E y : IsLeast(y, S)
  <1> DEFINE D == {k \in 0..n : (\E x \in S : x <= k) =>
                                \E y \in S : \A x \in S : x <= k => x <= y}
             E == {k \in 0..n : (\E x \in S : x <= k) => \E y \in S : \A x \in S : y <= x}
  <1>1. 0 \in D /\ 0 \in E
    <2>1. \A x \in S : x <= 0 => x = 0
      OBVIOUS
    <2>2. \A x \in S : 0 <= x
      OBVIOUS
    <2> QED
      BY <2>1, <2>2
  <1>2. ASSUME NEW k \in 0..n - 1, k \in D  PROVE k + 1 \in D
    <2>1. k + 1 \in 0..n /\ \A x \in S : x <= k + 1 <=> x <= k \/ x = k + 1
      OBVIOUS
    <2>2. CASE k + 1 \in S
      BY <2>1, <2>2
    <2>3. CASE k + 1 \notin S
      BY <1>2, <2>1, <2>3
    <2> QED
      BY <2>2, <2>3
  <1>3. ASSUME NEW k \in 0..n - 1, k \in E  PROVE k + 1 \in E
    <2>1. k + 1 \in 0..n /\ \A x \in S : x <= k + 1 <=> x <= k \/ x = k + 1
      OBVIOUS
    <2>2. CASE \E x \in S : x <= k
      BY <1>3, <2>1, <2>2
    <2>3. CASE ~\E x \in S : x <= k
      <3>1. \A x \in S : k + 1 <= x
        BY <2>3
      <3> QED
        BY <2>1, <2>3, <3>1
    <2> QED
      BY <2>2, <2>3
  <1> HIDE DEF D, E
  <1>4. n \in 0..n /\ \A x \in S : x <= n
    OBVIOUS
  <1>5. n \in D
    BY <1>1, <1>2, <1>4, UpTo
  <1>6. n \in E
    BY <1>1, <1>3, <1>4, UpTo
  <1>7. \E y \in S : \A x \in S : x <= n => x <= y
    BY <1>4, <1>5 DEF D
  <1>8. \E y \in S : \A x \in S : y <= x
    BY <1>4, <1>6 DEF E
  <1> QED
    BY <1>4, <1>7, <1>8 DEF IsLeast, IsGreatest

(* So has a set of integers between bounds.                                 *)
LEMMA BetweenHas ==
  ASSUME NEW n \in Nat, NEW S, S \subseteq -n..n, NEW e \in S
  PROVE  /\ IsLeast(Min(S), S)
         /\ IsGreatest(Max(S), S)
         /\ Min(S) \in Int /\ Max(S) \in Int
  <1> DEFINE T == {x + n : x \in S}
             m == n + n
  <1>1. m \in Nat /\ T \subseteq 0..m /\ e + n \in T /\ S \subseteq Int
    OBVIOUS
  <1>2. (\E y : IsGreatest(y, T)) /\ (\E y : IsLeast(y, T))
    BY <1>1, BoundedHas
  <1>3. PICK g : IsGreatest(g, T)
    BY <1>2
  <1>4. PICK l : IsLeast(l, T)
    BY <1>2
  <1>5. PICK a \in S : g = a + n
    BY <1>3 DEF IsGreatest
  <1>6. PICK b \in S : l = b + n
    BY <1>4 DEF IsLeast
  <1>7. IsGreatest(a, S)
    <2>1. \A x \in S : x + n <= a + n
      BY <1>3, <1>5 DEF IsGreatest
    <2>2. \A x, y \in Int : x + n <= y + n => x <= y
      OBVIOUS
    <2> QED
      BY <1>1, <2>1, <2>2 DEF IsGreatest
  <1>8. IsLeast(b, S)
    <2>1. \A x \in S : b + n <= x + n
      BY <1>4, <1>6 DEF IsLeast
    <2>2. \A x, y \in Int : x + n <= y + n => x <= y
      OBVIOUS
    <2> QED
      BY <1>1, <2>1, <2>2 DEF IsLeast
  <1>9. Min(S) = b /\ Max(S) = a
    BY <1>1, <1>7, <1>8, LeastIs
  <1> QED
    BY <1>1, <1>7, <1>8, <1>9

(* The positions of a geometry.                                             *)
LEMMA PositionsAre ==
  ASSUME NEW g, IsNested(g)
  PROVE  /\ Positions(g) \subseteq Coordinates
         /\ HasNoEmptyPart(g) /\ g.parts # <<>> => Positions(g) # {}
  <1>1. Positions(g) \subseteq Coordinates
    BY DEF IsNested, Positions
  <1>2. ASSUME HasNoEmptyPart(g), g.parts # <<>>  PROVE Positions(g) # {}
    <2>1. \A s : IsList(s) /\ s # <<>> => s[1] \in Elements(s)
      BY DEF IsList, Elements
    <2>2. IsList(g.parts)
      BY DEF IsNested
    <2>3. g.parts[1] \in Elements(g.parts)
      BY <1>2, <2>1, <2>2
    <2> DEFINE polygon == g.parts[1]
               ring == polygon[1]
    <2>4. IsList(polygon) /\ polygon # <<>>
      BY <1>2, <2>3 DEF IsNested, HasNoEmptyPart
    <2>5. ring \in Elements(polygon)
      BY <2>1, <2>4
    <2>6. IsList(ring) /\ ring # <<>>
      BY <1>2, <2>3, <2>5 DEF IsNested, HasNoEmptyPart
    <2>7. ring[1] \in Elements(ring)
      BY <2>1, <2>6
    <2> HIDE DEF ring, polygon
    <2>8. ring[1] \in UNION {Elements(r) : r \in Elements(polygon)}
      BY <2>5, <2>7
    <2> DEFINE Of(p) == UNION {Elements(r) : r \in Elements(p)}
    <2>9. ring[1] \in Of(polygon) /\ polygon \in Elements(g.parts)
      BY <2>3, <2>8 DEF polygon
    <2>10. Positions(g) = UNION {Of(p) : p \in Elements(g.parts)}
      BY DEF Positions
    <2> QED
      BY <2>9, <2>10
  <1> QED
    BY <1>1, <1>2

-----------------------------------------------------------------------------
(* Boxes.                                                                   *)

(* The positions of geometries.                                             *)
PlacesOf(S) == UNION {Positions(g) : g \in S}

(* Geometries as the encoder takes them.                                    *)
AreGeometries(S) == \A g \in S : IsNested(g) /\ Encodable(g) /\ g # NoGeometry

(* A box is around all geometries of a set.                                 *)
IsBoxOf(b, S) ==
    \/ S = {} /\ b = NoBox
    \/ /\ S # {} /\ b = [dim |-> b.dim, low |-> b.low, high |-> b.high]
       /\ b.dim \in {g.dim : g \in S}
       /\ IsLeast(b.low, PlacesOf(S) \union {Infinity})
       /\ IsGreatest(b.high, PlacesOf(S) \union {-Infinity})

(* Where they are.                                                          *)
LEMMA PlacesIn ==
  ASSUME NEW S, AreGeometries(S)
  PROVE  /\ PlacesOf(S) \subseteq Coordinates /\ Infinity \in Nat
         /\ Coordinates \subseteq Int
         /\ PlacesOf(S) \union {Infinity} \subseteq -Infinity..Infinity
         /\ PlacesOf(S) \union {-Infinity} \subseteq -Infinity..Infinity
  <1>1. Infinity \in Nat
    BY GeoParquetAssumption
  <1>2. \A n \in Nat : -n + 1 .. n - 1 \subseteq -n..n /\ n \in -n..n /\ -n \in -n..n
                       /\ -n..n \subseteq Int
    OBVIOUS
  <1>3. Coordinates \subseteq -Infinity..Infinity /\ Coordinates \subseteq Int
    BY <1>1, <1>2 DEF Coordinates
  <1>4. PlacesOf(S) \subseteq Coordinates
    BY PositionsAre DEF AreGeometries, PlacesOf
  <1> QED
    BY <1>1, <1>2, <1>3, <1>4

(* The bounds of one geometry are its box,                                  *)
LEMMA BoundsAre ==
  ASSUME NEW g, AreGeometries({g})
  PROVE  IsBoxOf(Bounds(g), {g})
  <1> DEFINE P == Positions(g)
             n == Infinity
             b == Bounds(g)
  <1>1. PlacesOf({g}) = P
    BY DEF PlacesOf
  <1>2. n \in Nat /\ P \union {n} \subseteq -n..n /\ P \union {-n} \subseteq -n..n
    BY <1>1, PlacesIn
  <1>3. b = [dim |-> g.dim, low |-> Min(P \union {n}), high |-> Max(P \union {-n})]
    BY DEF Bounds
  <1> HIDE DEF P, n, b
  <1>4. IsLeast(Min(P \union {n}), P \union {n})
    <2>1. n \in P \union {n}
      OBVIOUS
    <2> QED
      BY <1>2, <2>1, BetweenHas
  <1>5. IsGreatest(Max(P \union {-n}), P \union {-n})
    <2>1. -n \in P \union {-n}
      OBVIOUS
    <2> QED
      BY <1>2, <2>1, BetweenHas
  <1>6. IsBoxOf(b, {g})
    BY <1>1, <1>3, <1>4, <1>5 DEF IsBoxOf, n
  <1> QED
    BY <1>6 DEF b

(* and boxes merge to a box of both sets.                                   *)
LEMMA MergedIs ==
  ASSUME NEW a, NEW b, NEW S, NEW T, AreGeometries(S), AreGeometries(T), T # {},
         IsBoxOf(a, S), IsBoxOf(b, T)
  PROVE  IsBoxOf(Merged(a, b), S \union T)
  <1>1. CASE S = {}
    <2>1. a = NoBox /\ S \union T = T
      BY <1>1 DEF IsBoxOf
    <2> QED
      BY <2>1 DEF Merged
  <1>2. CASE S # {}
    <2> DEFINE P == PlacesOf(S)
               Q == PlacesOf(T)
               R == PlacesOf(S \union T)
               n == Infinity
               c == Merged(a, b)
    <2>1. /\ a = [dim |-> a.dim, low |-> a.low, high |-> a.high] /\ a.dim \in {g.dim : g \in S}
          /\ IsLeast(a.low, P \union {n}) /\ IsGreatest(a.high, P \union {-n})
          /\ IsLeast(b.low, Q \union {n}) /\ IsGreatest(b.high, Q \union {-n})
      BY <1>2 DEF IsBoxOf
    <2>2. R = P \union Q
      BY DEF PlacesOf
    <2>3. P \subseteq Int /\ Q \subseteq Int /\ n \in Int
      BY PlacesIn
    <2>4. a # NoBox
      <3>1. a.dim # 0
        BY <2>1 DEF AreGeometries, Encodable
      <3> QED
        BY <3>1 DEF NoBox
    <2>5. c = [a EXCEPT !.low = Min({a.low, b.low}), !.high = Max({a.high, b.high})]
      BY <2>4 DEF Merged
    <2>6. c = [dim |-> a.dim, low |-> Min({a.low, b.low}), high |-> Max({a.high, b.high})]
      BY <2>1, <2>5
    <2> HIDE DEF P, Q, R, n, c
    <2>7. a.low \in Int /\ b.low \in Int /\ a.high \in Int /\ b.high \in Int
      BY <2>1, <2>3 DEF IsLeast, IsGreatest
    <2>8. \A x, y \in Int : /\ IsLeast(x, {x, y}) \/ IsLeast(y, {x, y})
                            /\ IsGreatest(x, {x, y}) \/ IsGreatest(y, {x, y})
                            /\ {x, y} \subseteq Int
      BY DEF IsLeast, IsGreatest
    <2>9. IsLeast(Min({a.low, b.low}), {a.low, b.low})
      BY <2>7, <2>8, LeastIs
    <2>10. IsGreatest(Max({a.high, b.high}), {a.high, b.high})
      BY <2>7, <2>8, LeastIs
    <2>11. IsLeast(c.low, R \union {n})
      <3>1. c.low = Min({a.low, b.low})
        BY <2>6
      <3>2. R \union {n} = (P \union {n}) \union (Q \union {n})
        BY <2>2
      <3> QED
        BY <3>1, <3>2, <2>1, <2>3, <2>7, <2>9 DEF IsLeast
    <2>12. IsGreatest(c.high, R \union {-n})
      <3>1. c.high = Max({a.high, b.high})
        BY <2>6
      <3>2. R \union {-n} = (P \union {-n}) \union (Q \union {-n})
        BY <2>2
      <3> QED
        BY <3>1, <3>2, <2>1, <2>3, <2>7, <2>10 DEF IsGreatest
    <2>13. c.dim \in {g.dim : g \in S \union T} /\ c = [dim |-> c.dim, low |-> c.low, high |-> c.high]
      BY <2>1, <2>6
    <2>14. IsBoxOf(c, S \union T)
      BY <1>2, <2>11, <2>12, <2>13 DEF IsBoxOf, R, n
    <2> QED
      BY <2>14 DEF c
  <1> QED
    BY <1>1, <1>2

(* A box that encoding/json cannot write is around no position.             *)
LEMMA InfiniteIs ==
  ASSUME NEW b, NEW S, AreGeometries(S), IsBoxOf(b, S), ~Finite(b)
  PROVE  S # {} /\ PlacesOf(S) = {}
  <1>1. b # NoBox /\ ~(b.low < Infinity)
    BY DEF Finite
  <1>2. S # {} /\ IsLeast(b.low, PlacesOf(S) \union {Infinity})
    BY <1>1 DEF IsBoxOf
  <1>3. PlacesOf(S) \subseteq Coordinates /\ Infinity \in Nat /\ PlacesOf(S) \subseteq Int
    BY PlacesIn
  <1>4. \A n \in Nat : \A x \in -n + 1 .. n - 1 : x < n
    OBVIOUS
  <1>5. \A x \in PlacesOf(S) : x < Infinity
    BY <1>3, <1>4 DEF Coordinates
  <1>6. \A x \in PlacesOf(S) : FALSE
    BY <1>1, <1>2, <1>3, <1>5 DEF IsLeast
  <1> QED
    BY <1>2, <1>6

(* One that it can is as the metadata should have it.                       *)
LEMMA FiniteIs ==
  ASSUME NEW b, NEW S, AreGeometries(S), IsBoxOf(b, S), Finite(b), S # {},
         \A g, h \in S : g.dim = h.dim
  PROVE  /\ Cardinality({g.dim : g \in S}) = 1
         /\ b = [dim |-> Max({g.dim : g \in S}), low |-> Min(PlacesOf(S)), high |-> Max(PlacesOf(S))]
  <1> DEFINE P == PlacesOf(S)
             n == Infinity
             dims == {g.dim : g \in S}
  <1>1. /\ b = [dim |-> b.dim, low |-> b.low, high |-> b.high] /\ b.dim \in dims
        /\ IsLeast(b.low, P \union {n}) /\ IsGreatest(b.high, P \union {-n})
    BY DEF IsBoxOf
  <1>2. dims = {b.dim}
    BY <1>1
  <1>3. P \subseteq Coordinates /\ n \in Nat /\ P \subseteq Int
    BY PlacesIn
  <1>4. b # NoBox
    <2>1. b.dim # 0
      BY <1>1 DEF AreGeometries, Encodable
    <2> QED
      BY <2>1 DEF NoBox
  <1>5. b.low < n
    BY <1>4 DEF Finite
  <1>6. \A m \in Nat : \A x \in -m + 1 .. m - 1 : -m < x
    OBVIOUS
  <1>7. \A x \in P : -n < x
    BY <1>3, <1>6 DEF Coordinates
  <1>8. Cardinality(dims) = 1
    BY <1>2, FS_Singleton
  <1>9. Max(dims) = b.dim
    <2>1. b.dim \in Int
      BY <1>1 DEF AreGeometries, Encodable
    <2> QED
      BY <1>2, <2>1, LeastIs DEF IsGreatest
  <1> HIDE DEF P, n, dims
  <1>10. b.low # n
    BY <1>3, <1>5
  <1>11. IsLeast(b.low, P)
    BY <1>1, <1>10 DEF IsLeast
  <1>12. IsGreatest(b.high, P)
    <2>1. b.low \in P /\ -n < b.low
      BY <1>7, <1>11 DEF IsLeast
    <2>2. b.high # -n
      BY <2>1, <1>1, <1>3 DEF IsGreatest
    <2> QED
      BY <1>1, <2>2 DEF IsGreatest
  <1>13. Min(P) = b.low /\ Max(P) = b.high
    BY <1>3, <1>11, <1>12, LeastIs
  <1> QED
    BY <1>1, <1>8, <1>9, <1>13 DEF P, dims

-----------------------------------------------------------------------------
(* The geometries of a column.                                              *)

(* Those among the features that are read so far.                           *)
InRead(column, n) == {InColumn(input.features[i], column) : i \in 1..n} \ {NoGeometry}

Columns == {Geometry} \union Secondary

(* The features so far are as the encoder takes them.                       *)
ReadInv ==
    /\ Geometry \notin Secondary /\ count \in Nat /\ count <= Len(input.features)
    /\ \A i \in 1..count : IsFeature(input.features[i]) /\ ~Refused(input.features[i])

(* A feature that is not refused has geometries that can be encoded.        *)
LEMMA TakenGeometry ==
  ASSUME NEW f, IsFeature(f), ~Refused(f), Geometry \notin Secondary, NEW column \in Columns,
         InColumn(f, column) # NoGeometry
  PROVE  AreGeometries({InColumn(f, column)})
  <1>1. CASE column = Geometry
    <2>1. InColumn(f, column) = f.geometry
      BY <1>1 DEF InColumn
    <2> QED
      BY <2>1 DEF AreGeometries, IsFeature, Refused, IsGeometry
  <1>2. CASE column # Geometry
    <2>1. column \in Secondary
      BY <1>2 DEF Columns
    <2>2. InColumn(f, column) = SecondaryGeometry(f, column)
      BY <1>2 DEF InColumn
    <2>3. ~IsNull(f.properties[column]) /\ InColumn(f, column) = f.properties[column].geometry
      BY <2>2 DEF SecondaryGeometry
    <2>4. /\ column \in DOMAIN f.properties /\ f.properties[column].form = "geometry"
          /\ Encodable(f.properties[column].geometry)
      BY <2>1, <2>3 DEF Refused
    <2>5. IsNested(f.properties[column].geometry)
      BY <2>4 DEF IsFeature
    <2> QED
      BY <2>3, <2>4, <2>5 DEF AreGeometries
  <1> QED
    BY <1>1, <1>2

(* Its own geometry has a position.                                         *)
LEMMA TakenPosition ==
  ASSUME NEW f, IsFeature(f), ~Refused(f), f.geometry # NoGeometry
  PROVE  Positions(f.geometry) # {}
  <1>1. f.valid /\ f.geometry.parts # <<>>
    BY DEF Refused, IsGeometry
  <1>2. IsNested(f.geometry) /\ HasNoEmptyPart(f.geometry)
    BY <1>1 DEF IsFeature
  <1> QED
    BY <1>1, <1>2, PositionsAre

(* So a column has such geometries,                                         *)
LEMMA ReadGeometries ==
  ASSUME ReadInv, NEW column \in Columns, NEW n \in 0..count
  PROVE  AreGeometries(InRead(column, n))
  <1> SUFFICES ASSUME NEW i \in 1..n, InColumn(input.features[i], column) # NoGeometry
               PROVE  AreGeometries({InColumn(input.features[i], column)})
    BY DEF InRead, AreGeometries
  <1>1. i \in 1..count
    BY DEF ReadInv
  <1> QED
    BY <1>1, TakenGeometry DEF ReadInv

(* none at first,                                                           *)
LEMMA ReadNone ==
  ASSUME NEW column
  PROVE  InRead(column, 0) = {}
  <1>1. 1..0 = {}
    OBVIOUS
  <1> QED
    BY <1>1 DEF InRead

(* one more with each feature.                                              *)
LEMMA ReadMore ==
  ASSUME NEW column, NEW n \in Nat
  PROVE  InRead(column, n + 1) =
           (InRead(column, n) \union {InColumn(input.features[n + 1], column)}) \ {NoGeometry}
  <1>1. \A i : i \in 1..n + 1 <=> i \in 1..n \/ i = n + 1
    OBVIOUS
  <1> QED
    BY <1>1 DEF InRead

-----------------------------------------------------------------------------
(* What is gathered of a column.                                            *)

Mixed(S) == \E g, h \in S : g.dim # h.dim

TypesOf(S) == {<<g.type, g.dim>> : g \in S}

(* The box of geometries that may have several dimensions.                  *)
IsBoxIfAny(b, S) ==
    /\ Mixed(S) => b = NoBox
    /\ ~Mixed(S) => IsBoxOf(b, S)

Gathered(s, S) ==
    /\ s.types = TypesOf(S)
    /\ S = {} => s.dim = 0
    /\ S # {} => s.dim \in {g.dim : g \in S}
    /\ s.mixed <=> Mixed(S)
    /\ IsBoxIfAny(s.bbox, S)

(* What a description has.                                                  *)
LEMMA DescribedFields ==
  ASSUME NEW s, NEW encoded
  PROVE  Described(s, encoded).types = s.types /\ Described(s, encoded).bbox = s.bbox
  BY DEF Described

(* At first there is nothing.                                               *)
LEMMA NothingGathered == Gathered(NoStats, {})
  <1>1. NoStats.types = {} /\ NoStats.dim = 0 /\ ~NoStats.mixed /\ NoStats.bbox = NoBox
    BY Zenon DEF NoStats
  <1> QED
    BY <1>1 DEF Gathered, Mixed, TypesOf, IsBoxIfAny, IsBoxOf

(* The fields of a record.                                                  *)
LEMMA StatsFields ==
  ASSUME NEW a, NEW b, NEW m, NEW c
  PROVE  LET u == [types |-> a, dim |-> b, mixed |-> m, bbox |-> c] IN
         u.types = a /\ u.dim = b /\ u.mixed = m /\ u.bbox = c
  BY Zenon

(* The fields of what Add makes.                                            *)
LEMMA AddFields ==
  ASSUME NEW s, NEW g, g # NoGeometry
  PROVE  /\ Add(s, g).types = s.types \union {<<g.type, g.dim>>}
         /\ Add(s, g).dim = (IF s.dim = 0 THEN g.dim ELSE s.dim)
         /\ Add(s, g).mixed <=> (s.mixed \/ s.dim \notin {0, g.dim})
         /\ (s.mixed \/ s.dim \notin {0, g.dim}) => Add(s, g).bbox = NoBox
         /\ ~(s.mixed \/ s.dim \notin {0, g.dim}) => Add(s, g).bbox = Merged(s.bbox, Bounds(g))
  <1> DEFINE m == s.mixed \/ s.dim \notin {0, g.dim}
  <1>1. Add(s, g) = [types |-> s.types \union {<<g.type, g.dim>>},
                     dim |-> IF s.dim = 0 THEN g.dim ELSE s.dim,
                     mixed |-> m,
                     bbox |-> IF m THEN NoBox ELSE Merged(s.bbox, Bounds(g))]
    BY Zenon DEF Add, IsGeometry
  <1> HIDE DEF m
  <1> DEFINE a == s.types \union {<<g.type, g.dim>>}
             b == IF s.dim = 0 THEN g.dim ELSE s.dim
             c == IF m THEN NoBox ELSE Merged(s.bbox, Bounds(g))
  <1>2. Add(s, g) = [types |-> a, dim |-> b, mixed |-> m, bbox |-> c]
    BY <1>1, Zenon
  <1> HIDE DEF a, b, c
  <1>3. Add(s, g).types = a /\ Add(s, g).dim = b /\ Add(s, g).mixed = m /\ Add(s, g).bbox = c
    <2> DEFINE u == [types |-> a, dim |-> b, mixed |-> m, bbox |-> c]
    <2>1. u.types = a /\ u.dim = b /\ u.mixed = m /\ u.bbox = c
      BY StatsFields, Zenon
    <2>2. Add(s, g) = u
      BY <1>2
    <2> HIDE DEF u
    <2> QED
      BY <2>1, <2>2, Zenon
  <1> QED
    BY <1>3, Zenon DEF m, a, b, c

(* A geometry more.                                                         *)
LEMMA AddGathers ==
  ASSUME NEW s, NEW S, NEW g, Gathered(s, S), AreGeometries(S),
         g # NoGeometry => AreGeometries({g})
  PROVE  Gathered(Add(s, g), (S \union {g}) \ {NoGeometry})
  <1>1. CASE g = NoGeometry
    <2>1. Add(s, g) = s
      BY <1>1, Zenon DEF Add, IsGeometry
    <2>2. (S \union {g}) \ {NoGeometry} = S
      BY <1>1 DEF AreGeometries
    <2> QED
      BY <2>1, <2>2
  <1>2. CASE g # NoGeometry
    <2> DEFINE T == S \union {g}
               t == Add(s, g)
    <2>1. T = (S \union {g}) \ {NoGeometry} /\ AreGeometries({g})
      BY <1>2 DEF AreGeometries
    <2>2. /\ t.types = s.types \union {<<g.type, g.dim>>}
          /\ t.dim = (IF s.dim = 0 THEN g.dim ELSE s.dim)
          /\ t.mixed <=> (s.mixed \/ s.dim \notin {0, g.dim})
          /\ (s.mixed \/ s.dim \notin {0, g.dim}) => t.bbox = NoBox
          /\ ~(s.mixed \/ s.dim \notin {0, g.dim}) => t.bbox = Merged(s.bbox, Bounds(g))
      BY <1>2, AddFields
    <2> HIDE DEF t
    <2>3. g.dim # 0 /\ \A h \in S : h.dim # 0
      BY <2>1 DEF AreGeometries, Encodable
    <2>4. S = {} <=> s.dim = 0
      BY <2>3 DEF Gathered
    <2>5. t.types = TypesOf(T)
      BY <2>2 DEF Gathered, TypesOf
    <2>6. t.dim \in {h.dim : h \in T}
      BY <2>2, <2>4 DEF Gathered
    <2>7. (s.mixed \/ s.dim \notin {0, g.dim}) <=> Mixed(T)
      <3>1. CASE Mixed(S)
        BY <3>1 DEF Gathered, Mixed
      <3>2. CASE ~Mixed(S)
        <4>1. ~s.mixed
          BY <3>2 DEF Gathered
        <4>2. CASE S = {}
          BY <4>1, <4>2, <2>4 DEF Mixed
        <4>3. CASE S # {}
          <5>1. PICK h \in S : s.dim = h.dim
            BY <4>3 DEF Gathered
          <5>2. \A x \in S : x.dim = s.dim
            BY <3>2, <5>1 DEF Mixed
          <5>3. s.dim \notin {0, g.dim} <=> s.dim # g.dim
            BY <2>4, <4>3
          <5>4. s.dim # g.dim <=> Mixed(T)
            BY <5>1, <5>2 DEF Mixed
          <5> QED
            BY <4>1, <5>3, <5>4
        <4> QED
          BY <4>2, <4>3
      <3> QED
        BY <3>1, <3>2
    <2>8. t.mixed <=> Mixed(T)
      BY <2>2, <2>7
    <2>9. IsBoxIfAny(t.bbox, T)
      <3>1. CASE Mixed(T)
        BY <3>1, <2>2, <2>7 DEF IsBoxIfAny
      <3>2. CASE ~Mixed(T)
        <4>1. ~Mixed(S)
          BY <3>2 DEF Mixed
        <4>2. t.bbox = Merged(s.bbox, Bounds(g))
          BY <3>2, <2>2, <2>7
        <4>3. IsBoxOf(s.bbox, S)
          BY <4>1 DEF Gathered, IsBoxIfAny
        <4>4. IsBoxOf(Bounds(g), {g})
          BY <2>1, BoundsAre
        <4>5. IsBoxOf(Merged(s.bbox, Bounds(g)), S \union {g})
          BY <2>1, <4>3, <4>4, MergedIs
        <4> QED
          BY <3>2, <4>2, <4>5 DEF IsBoxIfAny
      <3> QED
        BY <3>1, <3>2
    <2> HIDE DEF T
    <2>10. Gathered(t, T)
      BY <2>5, <2>6, <2>8, <2>9 DEF Gathered, T
    <2> QED
      BY <2>1, <2>10 DEF t
  <1> QED
    BY <1>1, <1>2

(* What the metadata should say of a column.                                *)
ColumnRight(d, S) ==
    /\ d.types = TypesOf(S)
    /\ d.bbox = IF Cardinality({g.dim : g \in S}) # 1 THEN NoBox
                ELSE [dim |-> Max({g.dim : g \in S}), low |-> Min(PlacesOf(S)),
                      high |-> Max(PlacesOf(S))]

(* It does if its box can be written.                                       *)
LEMMA RightIfFinite ==
  ASSUME NEW d, NEW S, AreGeometries(S), d.types = TypesOf(S), IsBoxIfAny(d.bbox, S),
         Finite(d.bbox)
  PROVE  ColumnRight(d, S)
  <1> DEFINE dims == {g.dim : g \in S}
  <1>1. IsFiniteSet(dims)
    <2>1. dims \subseteq 2..3
      BY DEF AreGeometries, Encodable
    <2>2. IsFiniteSet(2..3)
      <3>1. 2 \in Int /\ 3 \in Int
        OBVIOUS
      <3> QED
        BY <3>1, FS_Interval
    <2> QED
      BY <2>1, <2>2, FS_Subset
  <1>2. Cardinality(dims) = 1 <=> \E x : dims = {x}
    BY <1>1, FS_Singleton
  <1>3. CASE Mixed(S)
    <2>1. ~\E x : dims = {x}
      BY <1>3 DEF Mixed
    <2> QED
      BY <1>2, <1>3, <2>1 DEF ColumnRight, IsBoxIfAny
  <1>4. CASE S = {}
    <2>1. dims = {} /\ d.bbox = NoBox
      BY <1>4 DEF IsBoxIfAny, IsBoxOf, Mixed
    <2> QED
      BY <1>2, <2>1 DEF ColumnRight
  <1>5. CASE ~Mixed(S) /\ S # {}
    <2>1. IsBoxOf(d.bbox, S) /\ \A g, h \in S : g.dim = h.dim
      BY <1>5 DEF IsBoxIfAny, Mixed
    <2>2. Cardinality(dims) = 1
      BY <1>5, <2>1, FiniteIs
    <2>3. d.bbox = [dim |-> Max(dims), low |-> Min(PlacesOf(S)), high |-> Max(PlacesOf(S))]
      BY <1>5, <2>1, FiniteIs
    <2> QED
      BY <2>2, <2>3 DEF ColumnRight
  <1> QED
    BY <1>3, <1>4, <1>5

(* If it cannot, it is around no position.                                  *)
LEMMA UnboundedIfNot ==
  ASSUME NEW b, NEW S, AreGeometries(S), IsBoxIfAny(b, S), ~Finite(b)
  PROVE  S # {} /\ PlacesOf(S) = {}
  <1>1. b # NoBox
    BY DEF Finite
  <1>2. IsBoxOf(b, S)
    BY <1>1 DEF IsBoxIfAny
  <1> QED
    BY <1>2, InfiniteIs

-----------------------------------------------------------------------------
(* The metadata of the two-pass encoder.                                    *)

(* What it gathers of a secondary column, feature by feature.               *)
IsSeen(f, name, n) ==
    f = [i \in 0..n |-> IF i = 0 THEN NoStats
                        ELSE Add(f[i - 1], SecondaryGeometry(input.features[i], name))]

(* There is such a function.                                                *)
LEMMA SeenExists ==
  ASSUME NEW name, NEW n \in Nat
  PROVE  \E f : IsSeen(f, name, n)
  <1> DEFINE D == {k \in 0..n : \E f : IsSeen(f, name, k)}
             G(i) == SecondaryGeometry(input.features[i], name)
  <1>1. 0 \in D
    <2> DEFINE f == [i \in 0..0 |-> NoStats]
    <2>1. \A i \in 0..0 : i = 0
      OBVIOUS
    <2>2. f = [i \in 0..0 |-> IF i = 0 THEN NoStats ELSE Add(f[i - 1], G(i))]
      BY <2>1
    <2> HIDE DEF f
    <2>3. IsSeen(f, name, 0)
      BY <2>2 DEF IsSeen
    <2> QED
      BY <2>3
  <1>2. ASSUME NEW k \in 0..n - 1, k \in D  PROVE k + 1 \in D
    <2>1. PICK f : IsSeen(f, name, k)
      BY <1>2
    <2> HIDE DEF G
    <2>2. \A i \in 0..k : f[i] = IF i = 0 THEN NoStats ELSE Add(f[i - 1], G(i))
      BY <2>1 DEF IsSeen, G
    <2> DEFINE g == [i \in 0..k + 1 |-> IF i = 0 THEN NoStats ELSE Add(f[i - 1], G(i))]
    <2>3. k \in Nat /\ \A i \in 0..k + 1 : i # 0 => i - 1 \in 0..k /\ i - 1 \in 0..k + 1
      OBVIOUS
    <2>4. \A i \in 0..k : i \in 0..k + 1 /\ g[i] = f[i]
      BY <2>2, <2>3
    <2>5. g = [i \in 0..k + 1 |-> IF i = 0 THEN NoStats ELSE Add(g[i - 1], G(i))]
      BY <2>3, <2>4
    <2> HIDE DEF g
    <2>6. IsSeen(g, name, k + 1)
      BY <2>5 DEF IsSeen, G
    <2>7. k + 1 \in 0..n
      OBVIOUS
    <2> QED
      BY <2>6, <2>7
  <1> HIDE DEF D
  <1>3. n \in D
    BY <1>1, <1>2, UpTo
  <1> QED
    BY <1>3 DEF D

(* What it has gathered in the end is what there is.                        *)
LEMMA SecondaryIs ==
  ASSUME ReadInv, NEW name \in Secondary
  PROVE  /\ SecondaryColumn(name).types = TypesOf(InRead(name, count))
         /\ IsBoxIfAny(SecondaryColumn(name).bbox, InRead(name, count))
  <1> DEFINE seen == CHOOSE f : IsSeen(f, name, count)
  <1>1. count \in Nat /\ name # Geometry /\ name \in Columns
    BY DEF ReadInv, Columns
  <1>2. IsSeen(seen, name, count)
    BY <1>1, SeenExists
  <1>3. SecondaryColumn(name) = Described(seen[count], "WKB")
    BY DEF SecondaryColumn, IsSeen
  <1> HIDE DEF seen
  <1> DEFINE D == {k \in 0..count : Gathered(seen[k], InRead(name, k))}
  <1>4. \A i \in 0..count :
           seen[i] = IF i = 0 THEN NoStats
                     ELSE Add(seen[i - 1], SecondaryGeometry(input.features[i], name))
    BY <1>2 DEF IsSeen
  <1>5. 0 \in D
    <2>1. seen[0] = NoStats /\ InRead(name, 0) = {}
      BY <1>1, <1>4, ReadNone
    <2> QED
      BY <1>1, <2>1, NothingGathered
  <1>6. ASSUME NEW k \in 0..count - 1, k \in D  PROVE k + 1 \in D
    <2> DEFINE m == k + 1
               g == InColumn(input.features[m], name)
    <2>1. k \in Nat /\ m \in 0..count /\ m # 0 /\ m - 1 = k /\ m \in 1..count /\ k \in 0..count
      BY <1>1
    <2>2. g = SecondaryGeometry(input.features[m], name)
      BY <1>1 DEF InColumn
    <2> HIDE DEF m
    <2>3. seen[m] = Add(seen[k], g)
      BY <1>4, <2>1, <2>2
    <2>4. g # NoGeometry => AreGeometries({g})
      BY <2>1, <1>1, TakenGeometry DEF ReadInv
    <2>5. AreGeometries(InRead(name, k))
      BY <1>1, <2>1, ReadGeometries
    <2>6. Gathered(seen[k], InRead(name, k))
      BY <1>6
    <2> HIDE DEF g
    <2>7. Gathered(Add(seen[k], g), (InRead(name, k) \union {g}) \ {NoGeometry})
      BY <2>4, <2>5, <2>6, AddGathers
    <2>8. InRead(name, m) = (InRead(name, k) \union {g}) \ {NoGeometry}
      BY <2>1, ReadMore DEF m, g
    <2>9. m \in D
      BY <2>1, <2>3, <2>7, <2>8
    <2> QED
      BY <2>9 DEF m
  <1> HIDE DEF D
  <1>7. count \in D
    <2>1. \A k \in 0..count : k \in D
      BY <1>1, <1>5, <1>6, UpTo
    <2>2. count \in 0..count
      BY <1>1
    <2> QED
      BY <2>1, <2>2
  <1>8. Gathered(seen[count], InRead(name, count))
    BY <1>7 DEF D
  <1> DEFINE s == seen[count]
  <1>9. SecondaryColumn(name).types = s.types /\ SecondaryColumn(name).bbox = s.bbox
    BY <1>3, DescribedFields
  <1> QED
    BY <1>8, <1>9 DEF Gathered

-----------------------------------------------------------------------------
(* Its primary column.                                                      *)

(* The box, feature by feature.                                             *)
IsBoxed(f, n) ==
    f = [i \in 0..n |-> IF i = 0 THEN NoBox
                        ELSE IF i \notin Present THEN f[i - 1]
                        ELSE Merged(f[i - 1], Bounds(input.features[i].geometry))]

(* There is such a function.                                                *)
LEMMA BoxedExists ==
  ASSUME NEW n \in Nat
  PROVE  \E f : IsBoxed(f, n)
  <1> DEFINE D == {k \in 0..n : \E f : IsBoxed(f, k)}
             G(b, i) == IF i \notin Present THEN b
                        ELSE Merged(b, Bounds(input.features[i].geometry))
  <1>1. 0 \in D
    <2> DEFINE f == [i \in 0..0 |-> NoBox]
    <2>1. \A i \in 0..0 : i = 0
      OBVIOUS
    <2>2. f = [i \in 0..0 |-> IF i = 0 THEN NoBox ELSE G(f[i - 1], i)]
      BY <2>1
    <2> HIDE DEF f
    <2>3. IsBoxed(f, 0)
      BY <2>2 DEF IsBoxed
    <2> QED
      BY <2>3
  <1>2. ASSUME NEW k \in 0..n - 1, k \in D  PROVE k + 1 \in D
    <2>1. PICK f : IsBoxed(f, k)
      BY <1>2
    <2>2. \A i \in 0..k : f[i] = IF i = 0 THEN NoBox ELSE G(f[i - 1], i)
      BY <2>1 DEF IsBoxed
    <2> HIDE DEF G
    <2> DEFINE g == [i \in 0..k + 1 |-> IF i = 0 THEN NoBox ELSE G(f[i - 1], i)]
    <2>3. k \in Nat /\ \A i \in 0..k + 1 : i # 0 => i - 1 \in 0..k /\ i - 1 \in 0..k + 1
      OBVIOUS
    <2>4. \A i \in 0..k : i \in 0..k + 1 /\ g[i] = f[i]
      BY <2>2, <2>3
    <2>5. g = [i \in 0..k + 1 |-> IF i = 0 THEN NoBox ELSE G(g[i - 1], i)]
      BY <2>3, <2>4
    <2> HIDE DEF g
    <2>6. IsBoxed(g, k + 1)
      BY <2>5 DEF IsBoxed, G
    <2>7. k + 1 \in 0..n
      OBVIOUS
    <2> QED
      BY <2>6, <2>7
  <1> HIDE DEF D
  <1>3. n \in D
    BY <1>1, <1>2, UpTo
  <1> QED
    BY <1>3 DEF D

(* The features that have a geometry, in the terms of the column.           *)
LEMMA PresentIs ==
  ASSUME ReadInv
  PROVE  /\ InRead(Geometry, count) = {input.features[i].geometry : i \in Present}
         /\ \A i \in 1..count : /\ InColumn(input.features[i], Geometry) = input.features[i].geometry
                                /\ i \in Present <=> input.features[i].geometry # NoGeometry
         /\ TypesOf(InRead(Geometry, count)) = {Form(i) : i \in Present}
  <1>1. \A i \in 1..count : /\ InColumn(input.features[i], Geometry) = input.features[i].geometry
                            /\ i \in Present <=> input.features[i].geometry # NoGeometry
    BY DEF InColumn, Present, IsGeometry
  <1>2. InRead(Geometry, count) = {input.features[i].geometry : i \in Present}
    BY <1>1 DEF InRead, Present
  <1>3. TypesOf(InRead(Geometry, count)) = {Form(i) : i \in Present}
    BY <1>2 DEF TypesOf, Form
  <1> QED
    BY <1>1, <1>2, <1>3

(* The first of them is one of them.                                        *)
LEMMA FirstIs ==
  ASSUME ReadInv, Present # {}
  PROVE  Min(Present) \in Present /\ First = input.features[Min(Present)].geometry
         /\ First \in InRead(Geometry, count)
  <1>1. Present \subseteq -count..count /\ count \in Nat
    BY DEF Present, ReadInv
  <1>2. Min(Present) \in Present
    BY <1>1, BetweenHas DEF IsLeast
  <1> QED
    BY <1>2, PresentIs DEF First

(* Present geometries have no dimension in common if there are several.     *)
LEMMA DimensionIs ==
  ASSUME ReadInv
  PROVE  Dimension = 0 <=> Mixed(InRead(Geometry, count))
  <1> DEFINE S == InRead(Geometry, count)
  <1>1. S = {input.features[i].geometry : i \in Present}
    BY PresentIs
  <1>2. CASE Present = {}
    BY <1>1, <1>2 DEF Mixed, Dimension
  <1>3. CASE Present # {}
    <2>1. First \in S
      BY <1>3, FirstIs
    <2>2. count \in 0..count /\ Geometry \in Columns
      BY DEF ReadInv, Columns
    <2>3. First.dim # 0
      BY <2>1, <2>2, ReadGeometries DEF AreGeometries, Encodable
    <2>4. Dimension = 0 <=> ~\A i \in Present : Form(i)[2] = First.dim
      BY <1>3, <2>3 DEF Dimension
    <2>5. \A i \in Present : Form(i)[2] = input.features[i].geometry.dim
      BY DEF Form
    <2> QED
      BY <1>1, <2>1, <2>4, <2>5 DEF Mixed
  <1> QED
    BY <1>2, <1>3

(* What it says of the primary column is what there is.                     *)
LEMMA PrimaryIs ==
  ASSUME ReadInv
  PROVE  /\ PrimaryColumn.types = TypesOf(InRead(Geometry, count))
         /\ IsBoxIfAny(PrimaryColumn.bbox, InRead(Geometry, count))
  <1> DEFINE box == CHOOSE f : IsBoxed(f, count)
  <1>1. count \in Nat /\ Geometry \in Columns
    BY DEF ReadInv, Columns
  <1>2. IsBoxed(box, count)
    BY <1>1, BoxedExists
  <1>3. PrimaryColumn = [encoded |-> IF input.native THEN First.type ELSE "WKB",
                         types |-> {Form(i) : i \in Present},
                         bbox |-> IF Dimension = 0 THEN NoBox ELSE box[count]]
    BY DEF PrimaryColumn, IsBoxed
  <1> HIDE DEF box
  <1> DEFINE D == {k \in 0..count : IsBoxOf(box[k], InRead(Geometry, k))}
  <1>4. \A i \in 0..count :
           box[i] = IF i = 0 THEN NoBox
                    ELSE IF i \notin Present THEN box[i - 1]
                    ELSE Merged(box[i - 1], Bounds(input.features[i].geometry))
    BY <1>2 DEF IsBoxed
  <1>5. 0 \in D
    <2>1. box[0] = NoBox /\ InRead(Geometry, 0) = {}
      BY <1>1, <1>4, ReadNone
    <2> QED
      BY <1>1, <2>1 DEF IsBoxOf
  <1>6. ASSUME NEW k \in 0..count - 1, k \in D  PROVE k + 1 \in D
    <2> DEFINE m == k + 1
               g == input.features[m].geometry
               S == InRead(Geometry, k)
    <2>1. k \in Nat /\ m \in 0..count /\ m # 0 /\ m - 1 = k /\ m \in 1..count /\ k \in 0..count
      BY <1>1
    <2>2. InColumn(input.features[m], Geometry) = g
      BY DEF InColumn
    <2>3. InRead(Geometry, m) = (S \union {g}) \ {NoGeometry}
      BY <2>1, <2>2, ReadMore
    <2>4. m \in Present <=> g # NoGeometry
      BY <2>1, PresentIs
    <2> HIDE DEF m
    <2>5. box[m] = IF m \notin Present THEN box[k] ELSE Merged(box[k], Bounds(g))
      BY <1>4, <2>1
    <2>6. g # NoGeometry => AreGeometries({g})
      BY <2>1, <2>2, <1>1, TakenGeometry DEF ReadInv
    <2>7. AreGeometries(S)
      BY <1>1, <2>1, ReadGeometries
    <2>8. IsBoxOf(box[k], S)
      BY <1>6
    <2> HIDE DEF g, S
    <2>9. CASE g = NoGeometry
      <3>1. (S \union {g}) \ {NoGeometry} = S
        BY <2>7, <2>9 DEF AreGeometries
      <3>2. m \in D
        BY <2>1, <2>3, <2>4, <2>5, <2>8, <2>9, <3>1
      <3> QED
        BY <3>2 DEF m
    <2>10. CASE g # NoGeometry
      <3>1. (S \union {g}) \ {NoGeometry} = S \union {g}
        BY <2>7, <2>10 DEF AreGeometries
      <3>2. IsBoxOf(Bounds(g), {g})
        BY <2>6, <2>10, BoundsAre
      <3>3. IsBoxOf(Merged(box[k], Bounds(g)), S \union {g})
        BY <2>6, <2>7, <2>8, <2>10, <3>2, MergedIs
      <3>4. m \in D
        BY <2>1, <2>3, <2>4, <2>5, <2>10, <3>1, <3>3
      <3> QED
        BY <3>4 DEF m
    <2> QED
      BY <2>9, <2>10
  <1> HIDE DEF D
  <1>7. count \in D
    <2>1. \A k \in 0..count : k \in D
      BY <1>1, <1>5, <1>6, UpTo
    <2>2. count \in 0..count
      BY <1>1
    <2> QED
      BY <2>1, <2>2
  <1>8. IsBoxOf(box[count], InRead(Geometry, count))
    BY <1>7 DEF D
  <1>9. /\ PrimaryColumn.types = {Form(i) : i \in Present}
        /\ PrimaryColumn.bbox = IF Dimension = 0 THEN NoBox ELSE box[count]
    BY <1>3
  <1> QED
    BY <1>8, <1>9, DimensionIs, PresentIs DEF IsBoxIfAny

(* So it is of every column.                                                *)
LEMMA MetadataIs ==
  ASSUME ReadInv, NEW column \in Columns
  PROVE  /\ Metadata[column].types = TypesOf(InRead(column, count))
         /\ IsBoxIfAny(Metadata[column].bbox, InRead(column, count))
  <1>1. Metadata[column] = IF column = Geometry THEN PrimaryColumn ELSE SecondaryColumn(column)
    BY DEF Metadata, Columns
  <1>2. CASE column = Geometry
    BY <1>1, <1>2, PrimaryIs
  <1>3. CASE column # Geometry
    <2>1. column \in Secondary
      BY <1>3 DEF Columns
    <2> QED
      BY <1>1, <1>3, <2>1, SecondaryIs
  <1> QED
    BY <1>2, <1>3

-----------------------------------------------------------------------------
(* The columns of properties.                                               *)

(* What a finite set has is finite in number, however it is made of it.     *)
LEMMA ImageFinite ==
  ASSUME NEW S, IsFiniteSet(S), NEW f
  PROVE  IsFiniteSet({f[x] : x \in S})
  <1> DEFINE T == {f[x] : x \in S}
             g == [x \in S |-> f[x]]
  <1>1. g \in Surjection(S, T)
    BY DEF Surjection
  <1> QED
    BY <1>1, FS_Surjection

(* So are the columns that have their names from the beginning.             *)
LEMMA ReservedFinite == IsFiniteSet(Reserved)
  <1>1. IsFiniteSet({})
    BY FS_EmptySet
  <1>2. \A S, x : IsFiniteSet(S) => IsFiniteSet(S \union {x})
    BY FS_AddElement
  <1> DEFINE A == {} \union {Geometry}
             B == A \union {Covering}
             C == B \union {Nulls}
             D == C \union {PropertiesNull}
             E == D \union {Properties}
             F == E \union {MemberColumn("id")}
             G == F \union {MemberColumn("feature_bbox")}
             H == G \union {MemberColumn("foreign")}
  <1>3. Reserved = H
    BY DEF Reserved, Members
  <1>4. IsFiniteSet(A)
    BY <1>1, <1>2
  <1>5. IsFiniteSet(B)
    BY <1>2, <1>4
  <1>6. IsFiniteSet(C)
    BY <1>2, <1>5
  <1>7. IsFiniteSet(D)
    BY <1>2, <1>6
  <1>8. IsFiniteSet(E)
    BY <1>2, <1>7
  <1>9. IsFiniteSet(F)
    BY <1>2, <1>8
  <1>10. IsFiniteSet(G)
    BY <1>2, <1>9
  <1>11. IsFiniteSet(H)
    BY <1>2, <1>10
  <1> QED
    BY <1>3, <1>11

(* A name is free after as many prefixes as there are names, and with none  *)
(* if it is free itself.                                                    *)
LEMMA FreeIsFree ==
  ASSUME NEW name, name[1] \in Nat, NEW used, IsFiniteSet(used)
  PROVE  /\ Free(name, used) \notin used
         /\ \E n \in Nat : Free(name, used) = <<name[1] + n, name[2]>>
         /\ name = <<name[1], name[2]>> /\ name \notin used => Free(name, used) = name
  <1> DEFINE c == Cardinality(used)
             At(n) == <<name[1] + n, name[2]>>
             free == {n \in 0..c : At(n) \notin used}
  <1>1. c \in Nat
    BY FS_CardinalityType
  <1> HIDE DEF c
  <1>2. \E n \in 0..c : At(n) \notin used
    <2> SUFFICES ASSUME \A n \in 0..c : At(n) \in used  PROVE FALSE
      OBVIOUS
    <2> DEFINE f == [n \in 0..c |-> At(n)]
    <2>1. f \in [0..c -> used]
      OBVIOUS
    <2>2. IsFiniteSet(0..c) /\ Cardinality(0..c) = c + 1
      <3>1. 0 \in Int /\ c \in Int /\ ~(0 > c) /\ c - 0 + 1 = c + 1
        BY <1>1
      <3> QED
        BY <3>1, FS_Interval
    <2>3. Cardinality(used) < Cardinality(0..c)
      BY <1>1, <2>2 DEF c
    <2> HIDE DEF f
    <2>4. PICK x, y \in 0..c : x # y /\ f[x] = f[y]
      BY <2>1, <2>2, <2>3, FS_PigeonHole
    <2>5. At(x) = At(y)
      BY <2>4 DEF f
    <2>6. name[1] + x = name[1] + y
      BY <2>5
    <2> QED
      BY <1>1, <2>4, <2>6
  <1>3. PICK n \in 0..c : n \in free
    BY <1>2
  <1>4. free \subseteq -c..c /\ free \subseteq Nat /\ (0 \in free <=> At(0) \notin used)
    BY <1>1
  <1> HIDE DEF free
  <1>5. Min(free) \in free
    BY <1>1, <1>3, <1>4, BetweenHas DEF IsLeast
  <1>6. Free(name, used) = At(Min(free))
    BY DEF Free, free, c
  <1>7. At(Min(free)) \notin used
    BY <1>5 DEF free
  <1>8. ASSUME name = <<name[1], name[2]>>, name \notin used  PROVE Free(name, used) = name
    <2>1. At(0) = name
      BY <1>8
    <2>2. IsLeast(0, free) /\ free \subseteq Int
      BY <1>4, <1>8, <2>1 DEF IsLeast
    <2>3. Min(free) = 0
      BY <2>2, LeastIs
    <2> QED
      BY <1>6, <2>1, <2>3
  <1> QED
    BY <1>4, <1>5, <1>6, <1>7, <1>8

(* What a column does not take before another.                              *)
Placed(f, k) == {f[m] : m \in {j \in 1..k - 1 : Names[j] \in DOMAIN kinds}}

(* The function that gives columns to names.                                *)
IsPlacing(f, n) ==
    f = [k \in 1..n |-> Free(Names[k], Reserved \union Secondary \union Placed(f, k))]

(* There is one.                                                            *)
LEMMA PlacingExists ==
  ASSUME NEW n \in Nat
  PROVE  \E f : IsPlacing(f, n)
  <1> DEFINE D == {k \in 0..n : \E f : IsPlacing(f, k)}
             G(k, used) == Free(Names[k], Reserved \union Secondary \union used)
  <1>1. 0 \in D
    <2> DEFINE f == [k \in 1..0 |-> 0]
    <2>1. 1..0 = {}
      OBVIOUS
    <2>2. f = [k \in 1..0 |-> G(k, Placed(f, k))]
      BY <2>1
    <2> HIDE DEF f
    <2>3. IsPlacing(f, 0)
      BY <2>2 DEF IsPlacing
    <2> QED
      BY <2>3
  <1>2. ASSUME NEW n0 \in 0..n - 1, n0 \in D  PROVE n0 + 1 \in D
    <2>1. PICK f : IsPlacing(f, n0)
      BY <1>2
    <2>2. \A k \in 1..n0 : f[k] = G(k, Placed(f, k))
      BY <2>1 DEF IsPlacing
    <2> HIDE DEF G
    <2> DEFINE g == [k \in 1..n0 + 1 |-> G(k, Placed(f, k))]
    <2>3. n0 \in Nat /\ \A k \in 1..n0 + 1 : \A j \in 1..k - 1 : j \in 1..n0
      OBVIOUS
    <2>4. \A k \in 1..n0 : k \in 1..n0 + 1 /\ g[k] = f[k]
      BY <2>2, <2>3
    <2>5. ASSUME NEW k \in 1..n0 + 1  PROVE Placed(f, k) = Placed(g, k)
      <3> HIDE DEF g
      <3>1. \A j \in 1..k - 1 : g[j] = f[j]
        BY <2>3, <2>4
      <3> QED
        BY <3>1 DEF Placed
    <2>6. g = [k \in 1..n0 + 1 |-> G(k, Placed(g, k))]
      BY <2>5
    <2> HIDE DEF g
    <2>7. IsPlacing(g, n0 + 1)
      BY <2>6 DEF IsPlacing, G
    <2>8. n0 + 1 \in 0..n
      OBVIOUS
    <2> QED
      BY <2>7, <2>8
  <1> HIDE DEF D
  <1>3. n \in D
    BY <1>1, <1>2, UpTo
  <1> QED
    BY <1>3 DEF D

(* What is used before a column is placed is finite.                        *)
LEMMA UsedFinite ==
  ASSUME input \in Inputs, NEW f, NEW k \in Nat
  PROVE  IsFiniteSet(Reserved \union Secondary \union Placed(f, k))
  <1> DEFINE J == {j \in 1..k - 1 : Names[j] \in DOMAIN kinds}
  <1>1. IsFiniteSet(Secondary)
    <2>1. IsList(input.secondary)
      BY GeoParquetAssumption
    <2>2. DOMAIN input.secondary = 1..Len(input.secondary) /\ Len(input.secondary) \in Nat
      BY <2>1 DEF IsList
    <2>3. IsFiniteSet(DOMAIN input.secondary)
      <3>1. 1 \in Int /\ Len(input.secondary) \in Int
        BY <2>2
      <3> QED
        BY <2>2, <3>1, FS_Interval
    <2> QED
      BY <2>3, ImageFinite DEF Secondary, Elements
  <1>2. IsFiniteSet(1..k - 1)
    <2>1. 1 \in Int /\ k - 1 \in Int
      OBVIOUS
    <2> QED
      BY <2>1, FS_Interval
  <1>3. J \in SUBSET (1..k - 1)
    OBVIOUS
  <1>4. IsFiniteSet(J)
    BY <1>2, <1>3, FS_Subset
  <1> HIDE DEF J
  <1>5. IsFiniteSet({f[m] : m \in J})
    BY <1>4, ImageFinite
  <1>6. IsFiniteSet(Placed(f, k))
    BY <1>5 DEF Placed, J
  <1> QED
    BY <1>1, <1>6, ReservedFinite, FS_Union

(* Every property that has a kind has a column of its own, and it is none   *)
(* of those that have their names from the beginning.                       *)
LEMMA ColumnsAre ==
  ASSUME input \in Inputs, DOMAIN kinds \subseteq Elements(Names)
  PROVE  /\ DOMAIN PropertyColumns = DOMAIN kinds
         /\ \A p \in DOMAIN kinds : PropertyColumns[p] \notin Reserved \union Secondary
         /\ \A p, q \in DOMAIN kinds : p # q => PropertyColumns[p] # PropertyColumns[q]
  <1> DEFINE n == Len(Names)
             column == CHOOSE f : IsPlacing(f, n)
             At(name) == CHOOSE k \in DOMAIN Names : Names[k] = name
  <1>1. IsList(Names) /\ DOMAIN Names = 1..n /\ n \in Nat
    BY GeoParquetAssumption DEF IsList
  <1>2. IsPlacing(column, n)
    BY <1>1, PlacingExists
  <1>3. PropertyColumns = [name \in DOMAIN kinds |-> column[At(name)]]
    BY <1>1, SMT DEF PropertyColumns, IsPlacing, Placed
  <1> HIDE DEF column
  <1>5. ASSUME NEW k \in 1..n
        PROVE  column[k] \notin Reserved \union Secondary \union Placed(column, k)
    <2>1. column[k] = Free(Names[k], Reserved \union Secondary \union Placed(column, k))
      BY <1>2 DEF IsPlacing
    <2>3. IsFiniteSet(Reserved \union Secondary \union Placed(column, k))
      BY <1>1, UsedFinite
    <2>4. Names[k] \in Elements(Names)
      BY <1>1 DEF Elements
    <2>5. Names[k][1] \in Nat
      BY <2>4, GeoParquetAssumption
    <2> QED
      BY <2>1, <2>3, <2>5, FreeIsFree
  <1>6. \A p \in DOMAIN kinds : At(p) \in 1..n /\ Names[At(p)] = p /\ PropertyColumns[p] = column[At(p)]
    <2>1. \A p \in DOMAIN kinds : \E k \in 1..n : Names[k] = p
      BY <1>1 DEF Elements
    <2> QED
      BY <1>1, <1>3, <2>1
  <1> HIDE DEF At, n
  <1>7. ASSUME NEW p \in DOMAIN kinds, NEW q \in DOMAIN kinds, At(p) < At(q)
        PROVE  PropertyColumns[p] # PropertyColumns[q]
    <2>1. At(p) \in 1..At(q) - 1
      BY <1>1, <1>6, <1>7
    <2>2. column[At(p)] \in Placed(column, At(q))
      BY <1>6, <2>1 DEF Placed
    <2> QED
      BY <1>5, <1>6, <2>2
  <1>8. \A p, q \in DOMAIN kinds : p # q => At(p) < At(q) \/ At(q) < At(p)
    <2>1. \A p, q \in DOMAIN kinds : p # q => At(p) # At(q) /\ At(p) \in 1..n /\ At(q) \in 1..n
      BY <1>6
    <2>2. \A a, b \in 1..n : a # b => a < b \/ b < a
      BY <1>1
    <2> QED
      BY <2>1, <2>2
  <1>9. DOMAIN PropertyColumns = DOMAIN kinds
    BY <1>3
  <1>10. \A p \in DOMAIN kinds : PropertyColumns[p] \notin Reserved \union Secondary
    BY <1>5, <1>6
  <1>11. \A p, q \in DOMAIN kinds : p # q => PropertyColumns[p] # PropertyColumns[q]
    BY <1>7, <1>8
  <1> QED
    BY <1>9, <1>10, <1>11

-----------------------------------------------------------------------------
(* Rows.                                                                    *)

(* A column that neither of two parts of a row has is not in the row,       *)
LEMMA OverNeither ==
  ASSUME NEW f, NEW g, NEW x, x \notin DOMAIN f, x \notin DOMAIN g
  PROVE  x \notin DOMAIN Over(f, g)
  BY DEF Over

(* and one that the second does not have is the first one's.                *)
LEMMA OverFirst ==
  ASSUME NEW f, NEW g, NEW x, x \in DOMAIN Over(f, g), x \notin DOMAIN g
  PROVE  x \in DOMAIN f /\ Over(f, g)[x] = f[x]
  BY DEF Over

(* The column of boxes is none of the others.                               *)
LEMMA CoveringAlone ==
  ASSUME NEW f, f.members \subseteq Members, Covering \notin Secondary
  PROVE  /\ Covering \notin DOMAIN BaseRow(f) /\ Covering # Nulls /\ Covering # Properties
         /\ Covering \in Reserved
  <1>1. Covering \notin {Geometry, Nulls, PropertiesNull, Properties}
    BY DEF Covering, Geometry, Nulls, PropertiesNull, Properties, Named
  <1>2. \A m \in Members : MemberColumn(m) # Covering
    <2>1. /\ MemberColumn("id") # Covering /\ MemberColumn("feature_bbox") # Covering
          /\ MemberColumn("foreign") # Covering
      BY DEF MemberColumn, Covering, Named
    <2> QED
      BY <2>1 DEF Members
  <1> DEFINE A == [c \in {c \in {Geometry} : IsGeometry(f.geometry)} |-> GeometryCell(f.geometry)]
             B == [c \in {n \in Secondary : IsGeometry(SecondaryGeometry(f, n))} |->
                     [wkb |-> SecondaryGeometry(f, c)]]
             C == [c \in {MemberColumn(m) : m \in f.members} |-> "present"]
             D == [c \in {n \in {PropertiesNull} : f.null} |-> "true"]
  <1>3. Covering \notin DOMAIN A /\ Covering \notin DOMAIN B /\ Covering \notin DOMAIN C
        /\ Covering \notin DOMAIN D
    BY <1>1, <1>2
  <1>4. BaseRow(f) = Over(A, Over(B, Over(C, D)))
    BY DEF BaseRow
  <1> DEFINE E == Over(C, D)
             F == Over(B, E)
  <1> HIDE DEF A, B, C, D
  <1>5. Covering \notin DOMAIN E
    BY <1>3, OverNeither
  <1> HIDE DEF E
  <1>6. Covering \notin DOMAIN F
    BY <1>3, <1>5, OverNeither
  <1> HIDE DEF F
  <1>7. Covering \notin DOMAIN BaseRow(f)
    <2>1. BaseRow(f) = Over(A, F)
      BY <1>4 DEF E, F
    <2> QED
      BY <1>3, <1>6, <2>1, OverNeither
  <1> QED
    BY <1>1, <1>7 DEF Reserved

(* A row has the box of its own geometry, if any.                           *)
LEMMA RowBox ==
  ASSUME NEW f, f.members \subseteq Members, Covering \notin Secondary, NEW columns, NEW dimension,
         \A p \in DOMAIN Plain(f) \ NullProperties(f) :
            p \in DOMAIN columns /\ columns[p] \notin Reserved,
         Held(Row(f, columns, dimension), Covering)
  PROVE  Row(f, columns, dimension)[Covering] = Bounds(f.geometry)
  <1> DEFINE ps == DOMAIN Plain(f) \ NullProperties(f)
             A == [c \in {n \in {Covering} : dimension # 0 /\ IsGeometry(f.geometry)} |->
                     Bounds(f.geometry)]
             B == [c \in {columns[p] : p \in ps} |->
                     LET p == CHOOSE p \in ps : columns[p] = c IN Stored(f.properties[p], kinds[p])]
             C == [c \in {n \in {Nulls} : NullProperties(f) # {}} |-> NullProperties(f)]
  <1>1. Row(f, columns, dimension) = Over(A, Over(B, Over(C, BaseRow(f))))
    BY DEF Row
  <1>2. Covering \notin DOMAIN BaseRow(f) /\ Covering # Nulls /\ Covering \in Reserved
    BY CoveringAlone
  <1>3. Covering \notin DOMAIN B /\ Covering \notin DOMAIN C
    BY <1>2
  <1>4. Covering \in DOMAIN A => A[Covering] = Bounds(f.geometry)
    OBVIOUS
  <1> DEFINE D == BaseRow(f)
             E == Over(C, D)
             F == Over(B, E)
             row == Row(f, columns, dimension)
  <1>5. Covering \notin DOMAIN D /\ Covering \in DOMAIN row
    BY <1>2 DEF Held
  <1> HIDE DEF A, B, C, D, row
  <1>6. Covering \notin DOMAIN E
    BY <1>3, <1>5, OverNeither
  <1> HIDE DEF E
  <1>7. Covering \notin DOMAIN F
    BY <1>3, <1>6, OverNeither
  <1> HIDE DEF F
  <1>8. row = Over(A, F)
    BY <1>1 DEF D, E, F, row
  <1>9. Covering \in DOMAIN A /\ row[Covering] = A[Covering]
    BY <1>5, <1>7, <1>8, OverFirst
  <1> QED
    BY <1>4, <1>9 DEF row

(* A streamed row has none.                                                 *)
LEMMA StreamingRowBox ==
  ASSUME NEW f, f.members \subseteq Members, Covering \notin Secondary
  PROVE  ~Held(StreamingRow(f), Covering)
  <1> DEFINE A == [c \in {Properties} |-> IF f.null THEN NullValue ELSE [json |-> Plain(f)]]
  <1>1. StreamingRow(f) = Over(A, BaseRow(f)) /\ Covering # Properties
    BY CoveringAlone DEF StreamingRow
  <1>2. Covering \notin DOMAIN A
    BY <1>1
  <1> DEFINE D == BaseRow(f)
             row == StreamingRow(f)
  <1>3. Covering \notin DOMAIN D
    BY CoveringAlone
  <1>4. row = Over(A, D)
    BY <1>1
  <1> HIDE DEF A, D, row
  <1>5. Covering \notin DOMAIN row
    BY <1>2, <1>3, <1>4, OverNeither
  <1> QED
    BY <1>5 DEF Held, row

-----------------------------------------------------------------------------
IsSeq(s) == \E S : s \in Seq(S)

(* A sequence of anything grows by one.                                     *)
LEMMA AppendGrows ==
  ASSUME NEW s, NEW e, IsSeq(s)
  PROVE  /\ IsSeq(Append(s, e)) /\ Len(s) \in Nat
         /\ Len(Append(s, e)) = Len(s) + 1
  <1>1. PICK S : s \in Seq(S)
    BY DEF IsSeq
  <1>2. s \in Seq(S \union {e})
    BY <1>1
  <1>3. Append(s, e) \in Seq(S \union {e}) /\ Len(Append(s, e)) = Len(s) + 1
    BY <1>2
  <1> QED
    BY <1>1, <1>3 DEF IsSeq

Fields == {"footer", "schema", "dimension", "geo", "tool", "rows"}

FileType == DOMAIN file = Fields /\ IsSeq(file.rows)

(* Only a stream that has come to its end is called GeoParquet, and it has  *)
(* a row for each feature then.                                             *)
StreamInv ==
    input.streaming =>
      /\ pc # "rows"
      /\ pc \in {"start", "read"} => file.geo = NoGeo /\ Len(file.rows) = count
      /\ file.geo # NoGeo => Len(file.rows) = Len(input.features)

(* The decoder has put out a feature for each row that it has passed.       *)
DecodeInv ==
    /\ next \in Nat \ {0} /\ IsSeq(output) /\ Len(output) = next - 1
    /\ next <= Len(file.rows) + 1
    /\ pc \notin {"decode", "done"} => next = 1 /\ decoding = ""
    /\ pc = "decode" => file.geo # NoGeo /\ decoding = ""
    /\ decoding = "ok" => pc = "done" /\ file.geo # NoGeo /\ next > Len(file.rows)

WholeInv == FileType /\ count \in Nat /\ StreamInv /\ DecodeInv

(* The steps of the decoder.                                                *)
LEMMA DecoderKeeps ==
  ASSUME WholeInv, Open \/ DecodeRow \/ DecodeFails \/ EndOfFile
  PROVE  WholeInv'
  <1>1. UNCHANGED <<input, count, file>> /\ pc \in {"encoded", "decode"}
        /\ pc' \in {"encoded", "decode", "done"} \ {"encoded"}
    BY DEF Open, DecodeRow, DecodeFails, EndOfFile, encoderVars
  <1>2. FileType' /\ count' \in Nat /\ StreamInv'
    BY <1>1 DEF WholeInv, FileType, StreamInv
  <1>3. DecodeInv'
    <2>1. CASE Open
      BY <1>1, <2>1 DEF Open, WholeInv, DecodeInv
    <2>2. CASE DecodeRow
      <3>1. CASE UNCHANGED <<next, output>>
        BY <1>1, <2>2, <3>1 DEF DecodeRow, WholeInv, DecodeInv
      <3>2. CASE ~UNCHANGED <<next, output>>
        <4>1. PICK x : output' = Append(output, x)
          BY <2>2, <3>2 DEF DecodeRow
        <4>2. next' = next + 1 /\ pc' = pc /\ decoding' = decoding /\ next <= Len(file.rows)
              /\ pc = "decode"
          BY <2>2, <3>2 DEF DecodeRow
        <4>3. IsSeq(output)' /\ Len(output') = Len(output) + 1
          BY <4>1, AppendGrows DEF WholeInv, DecodeInv, IsSeq
        <4>4. Len(file.rows) \in Nat
          BY AppendGrows DEF WholeInv, FileType
        <4>5. /\ next \in Nat \ {0} /\ Len(output) = next - 1 /\ file.geo # NoGeo
              /\ decoding = ""
          BY <4>2 DEF WholeInv, DecodeInv
        <4>6. /\ next' \in Nat \ {0} /\ Len(output') = next' - 1
              /\ next' <= Len(file.rows) + 1
          <5> DEFINE n == next
                     m == Len(file.rows)
          <5>1. n \in Nat /\ n # 0 /\ m \in Nat /\ n <= m /\ next' = n + 1
            BY <4>2, <4>4, <4>5
          <5>2. Len(output') = (n - 1) + 1
            BY <4>3, <4>5
          <5> HIDE DEF n, m
          <5>3. n + 1 \in Nat \ {0} /\ (n - 1) + 1 = (n + 1) - 1 /\ n + 1 <= m + 1
            BY <5>1
          <5> QED
            BY <5>1, <5>2, <5>3 DEF m
        <4> QED
          BY <1>1, <4>2, <4>3, <4>5, <4>6 DEF DecodeInv
      <3> QED
        BY <3>1, <3>2
    <2>3. CASE DecodeFails
      BY <1>1, <2>3 DEF DecodeFails, WholeInv, DecodeInv
    <2>4. CASE EndOfFile
      BY <1>1, <2>4 DEF EndOfFile, WholeInv, DecodeInv
    <2> QED
      BY <2>1, <2>2, <2>3, <2>4
  <1> QED
    BY <1>2, <1>3 DEF WholeInv

(* The steps of the encoder that add a row, describe the file or end.       *)
LEMMA EncoderKeeps ==
  ASSUME WholeInv, \/ Start \/ Collect \/ Stream \/ ReadFails \/ Describe \/ WriteRow
                   \/ EndOfRows \/ DescribeStream \/ CloseWriter
  PROVE  /\ UNCHANGED <<input, next, output, decoding>>
         /\ pc \in {"start", "read", "rows", "close"}
         /\ pc' \in {"start", "read", "rows", "close", "encoded"}
  <1>1. CASE Start
    BY <1>1 DEF Start, Return, decoderVars
  <1>2. CASE Collect
    BY <1>2 DEF Collect, Return, decoderVars
  <1>3. CASE Stream
    BY <1>3 DEF Stream, CloseAfter, decoderVars
  <1>4. CASE ReadFails
    BY <1>4 DEF ReadFails, Fail, Return, CloseAfter, decoderVars
  <1>5. CASE Describe
    BY <1>5 DEF Describe, Return, decoderVars
  <1>6. CASE WriteRow
    BY <1>6 DEF WriteRow, CloseAfter, decoderVars
  <1>7. CASE EndOfRows \/ DescribeStream
    BY <1>7 DEF EndOfRows, DescribeStream, CloseAfter, decoderVars
  <1>8. CASE CloseWriter
    BY <1>8 DEF CloseWriter, decoderVars
  <1> QED
    BY <1>1, <1>2, <1>3, <1>4, <1>5, <1>6, <1>7, <1>8

(* One row more.                                                            *)
LEMMA AddRowAdds ==
  ASSUME FileType, NEW row, AddRow(row)
  PROVE  FileType' /\ file'.geo = file.geo /\ Len(file'.rows) = Len(file.rows) + 1
  <1>1. file' = [file EXCEPT !.rows = Append(file.rows, row)]
    BY DEF AddRow
  <1>2. /\ DOMAIN file' = Fields /\ file'.rows = Append(file.rows, row)
        /\ file'.geo = file.geo
    BY <1>1 DEF FileType, Fields
  <1> QED
    BY <1>2, AppendGrows DEF FileType, IsSeq

(* What the encoder does to the file.                                       *)
LEMMA FileKeeps ==
  ASSUME WholeInv, \/ Start \/ Collect \/ Stream \/ ReadFails \/ Describe \/ WriteRow
                   \/ EndOfRows \/ DescribeStream \/ CloseWriter
  PROVE  FileType' /\ count' \in Nat /\ StreamInv'
  <1>0. FileType /\ count \in Nat /\ StreamInv /\ input' = input
    BY EncoderKeeps DEF WholeInv
  <1>1. CASE Start
    <2>1. /\ pc = "start" /\ pc' \in {"encoded", "read"} /\ count' = count
      BY <1>1 DEF Start, Return
    <2>2. DOMAIN file' = Fields /\ file'.rows = file.rows /\ file'.geo = file.geo
      <3>1. CASE file' = file
        BY <1>0, <3>1 DEF FileType
      <3>2. CASE file' # file
        <4> DEFINE f == [file EXCEPT !.tool.streaming = TRUE]
        <4>1. file' = [f EXCEPT !.schema = StreamingSchema]
          BY <1>1, <3>2, Zenon DEF Start
        <4>2. DOMAIN f = Fields /\ f.rows = file.rows /\ f.geo = file.geo
          BY <1>0 DEF FileType, Fields
        <4> HIDE DEF f
        <4> QED
          BY <4>1, <4>2 DEF Fields
      <3> QED
        BY <3>1, <3>2
    <2> QED
      BY <1>0, <2>1, <2>2 DEF FileType, StreamInv
  <1>2. CASE Collect
    <2>1. ~input.streaming /\ file' = file /\ count' \in {count, count + 1}
      BY <1>2 DEF Collect
    <2> QED
      BY <1>0, <2>1 DEF FileType, StreamInv
  <1>3. CASE Stream
    <2>1. /\ input.streaming /\ pc = "read"
          /\ \/ pc' = "close" /\ file' = file /\ count' \in {count, count + 1}
             \/ pc' = "read" /\ count' = count + 1 /\ \E row : AddRow(row)
      BY <1>3, Zenon DEF Stream, CloseAfter
    <2>2. CASE pc' = "close" /\ file' = file
      BY <1>0, <2>1, <2>2 DEF FileType, StreamInv
    <2>3. CASE ~(pc' = "close" /\ file' = file)
      BY <1>0, <2>1, <2>3, AddRowAdds DEF StreamInv
    <2> QED
      BY <2>2, <2>3
  <1>4. CASE ReadFails \/ EndOfRows \/ CloseWriter
    <2>1. /\ count' = count /\ file'.geo = file.geo /\ file'.rows = file.rows
          /\ DOMAIN file' = Fields /\ pc' \in {"close", "encoded"}
      BY <1>0, <1>4 DEF ReadFails, EndOfRows, CloseWriter, Fail, Return, CloseAfter,
                       FileType, Fields
    <2> QED
      BY <1>0, <2>1 DEF FileType, StreamInv
  <1>5. CASE Describe
    <2>1. ~input.streaming /\ count' = count
      BY <1>5 DEF Describe
    <2>2. DOMAIN file' = Fields /\ file'.rows = file.rows
      <3>1. CASE file' = file
        BY <1>0, <3>1 DEF FileType
      <3>2. CASE file' # file
        <4> DEFINE f == [file EXCEPT !.geo = Metadata]
                   g == [f EXCEPT !.dimension = Dimension]
                   h == [g EXCEPT !.tool.columns = PropertyColumns]
        <4>1. file' = [h EXCEPT !.schema = Schema(PropertyColumns, Dimension)]
          BY <1>5, <3>2, Zenon DEF Describe
        <4>2. DOMAIN f = Fields /\ f.rows = file.rows
          BY <1>0 DEF FileType, Fields
        <4> HIDE DEF f
        <4>3. DOMAIN g = Fields /\ g.rows = file.rows
          BY <4>2 DEF Fields
        <4> HIDE DEF g
        <4>4. DOMAIN h = Fields /\ h.rows = file.rows
          BY <4>3 DEF Fields
        <4> HIDE DEF h
        <4> QED
          BY <4>1, <4>4 DEF Fields
      <3> QED
        BY <3>1, <3>2
    <2> QED
      BY <1>0, <2>1, <2>2 DEF FileType, StreamInv
  <1>6. CASE WriteRow
    <2>1. /\ pc = "rows" /\ count' = count /\ (file' = file \/ \E row : AddRow(row))
      BY <1>6, Zenon DEF WriteRow
    <2>2. ~input.streaming
      BY <1>0, <2>1 DEF StreamInv
    <2> QED
      BY <1>0, <2>1, <2>2, AddRowAdds DEF FileType, StreamInv
  <1>7. CASE DescribeStream
    <2>1. /\ pc = "read" /\ pc' = "close" /\ count' = count /\ count = Len(input.features)
          /\ input.streaming
          /\ file' = file \/ file' = [file EXCEPT !.geo = StreamingMetadata]
      BY <1>7 DEF DescribeStream, CloseAfter
    <2>2. DOMAIN file' = Fields /\ file'.rows = file.rows
      BY <1>0, <2>1 DEF FileType, Fields
    <2> QED
      BY <1>0, <2>1, <2>2 DEF FileType, StreamInv
  <1> QED
    BY <1>1, <1>2, <1>3, <1>4, <1>5, <1>6, <1>7

(* It holds at first,                                                       *)
LEMMA WholeBegins == ASSUME Init  PROVE WholeInv
  <1>1. /\ file = EmptyFile /\ count = 0 /\ pc = "start" /\ next = 1 /\ output = <<>>
        /\ decoding = ""
    BY DEF Init
  <1>2. DOMAIN file = Fields /\ file.rows = <<>> /\ file.geo = NoGeo
    BY <1>1 DEF EmptyFile, Fields
  <1>3. IsSeq(<<>>) /\ Len(<<>>) = 0
    BY DEF IsSeq
  <1>4. FileType /\ count \in Nat /\ StreamInv
    BY <1>1, <1>2, <1>3 DEF FileType, StreamInv
  <1>5. DecodeInv
    <2>1. 1 \in Nat \ {0} /\ 0 = 1 - 1 /\ 1 <= 0 + 1
      OBVIOUS
    <2>2. Len(file.rows) = 0 /\ Len(output) = 0 /\ IsSeq(output)
      BY <1>1, <1>2, <1>3
    <2>3. next \in Nat \ {0} /\ Len(output) = next - 1 /\ next <= Len(file.rows) + 1
      BY <1>1, <2>1, <2>2
    <2> QED
      BY <1>1, <2>2, <2>3 DEF DecodeInv
  <1> QED
    BY <1>4, <1>5 DEF WholeInv

(* and every step keeps it.                                                 *)
LEMMA WholeStep == ASSUME WholeInv, [Next]_vars  PROVE WholeInv'
  <1>1. CASE Open \/ DecodeRow \/ DecodeFails \/ EndOfFile
    BY <1>1, DecoderKeeps
  <1>2. CASE \/ Start \/ Collect \/ Stream \/ ReadFails \/ Describe \/ WriteRow
             \/ EndOfRows \/ DescribeStream \/ CloseWriter
    <2>1. FileType' /\ count' \in Nat /\ StreamInv'
      BY <1>2, FileKeeps
    <2>2. Len(file'.rows) \in Nat
      BY <2>1, AppendGrows DEF FileType, IsSeq
    <2>3. DecodeInv'
      <3>1. /\ next' = 1 /\ output' = output /\ decoding' = ""
            /\ pc' \notin {"decode", "done"} /\ IsSeq(output) /\ Len(output) = 1 - 1
        BY <1>2, EncoderKeeps DEF WholeInv, DecodeInv
      <3>2. 1 \in Nat \ {0} /\ 1 <= Len(file'.rows) + 1
        BY <2>2
      <3>3. /\ next' \in Nat \ {0} /\ Len(output') = next' - 1
            /\ next' <= Len(file'.rows) + 1 /\ IsSeq(output)'
        BY <3>1, <3>2 DEF IsSeq
      <3> QED
        BY <3>1, <3>3 DEF DecodeInv
    <2> QED
      BY <2>1, <2>3 DEF WholeInv
  <1>3. CASE UNCHANGED vars
    BY <1>3 DEF vars, encoderVars, decoderVars, WholeInv, FileType, StreamInv,
                      DecodeInv, IsSeq
  <1> QED
    BY <1>1, <1>2, <1>3 DEF Next, Returned

(* Whatever fails, and wherever: what a stream leaves is called GeoParquet  *)
(* only if it has a row for each feature, so that decoding it succeeds only *)
(* with all of them (encodeStreamingGeoParquet, which sets the metadata     *)
(* after the last feature and closes the writer on every path).             *)
THEOREM StreamedFileIsWholeCorrect == Spec => []StreamedFileIsWhole
  <1>1. ASSUME WholeInv  PROVE StreamedFileIsWhole
    <2> SUFFICES ASSUME input.streaming, decoding = "ok"
                 PROVE  Len(output) = Len(input.features)
      BY DEF StreamedFileIsWhole
    <2>1. Len(file.rows) = Len(input.features) /\ Len(file.rows) \in Nat
      BY <1>1, AppendGrows DEF WholeInv, FileType, StreamInv, DecodeInv
    <2> QED
      BY <1>1, <2>1 DEF WholeInv, DecodeInv
  <1> QED
    BY <1>1, WholeBegins, WholeStep, PTL DEF Spec

-----------------------------------------------------------------------------
(* What the encoder knows while it reads.                                   *)

(* The properties of a feature that have a value.                           *)
Valued(f) == DOMAIN Plain(f) \ NullProperties(f)

(* The first n features are not refused,                                    *)
Taken(n) ==
    /\ n \in Nat /\ n <= Len(input.features)
    /\ \A i \in 1..n : ~Refused(input.features[i])

(* their properties have kinds that they can be stored as,                  *)
KindsFit(n, ks) ==
    /\ DOMAIN ks \subseteq Elements(Names)
    /\ \A i \in 1..n : \A p \in Valued(input.features[i]) :
          p \in DOMAIN ks /\ ks[p] \in {Kind(input.features[i].properties[p]), "json"}

(* and their geometries are gathered.                                       *)
StatsFit(n, st) ==
    DOMAIN st = Columns /\ \A c \in Columns : Gathered(st[c], InRead(c, n))

(* What the metadata says is so,                                            *)
GeoFits(geo) == \A c \in DOMAIN geo : ColumnRight(geo[c], AllIn(c))

(* and a row has the box of its geometry.                                   *)
RowsFit(rows) ==
    \A i \in 1..Len(rows) :
       Held(rows[i], Covering) => rows[i][Covering] = Bounds(input.features[i].geometry)

(* The encoder may return this.                                             *)
Excused(why) ==
    /\ why = "bad feature" => \E f \in Elements(input.features) : ~Representable(f)
    /\ why = "not native" => ~UniformTypes
    /\ why = "bad metadata" => \E column \in Secondary : Unbounded(column)
    /\ why # "bad row"
    /\ why = "ok" => /\ \A f \in Elements(input.features) : Representable(f)
                     /\ input.native => UniformTypes

(* All of it depends on nothing but the input.                              *)
LEMMA SecondarySame ==
  ASSUME input' = input
  PROVE  /\ Secondary' = Secondary /\ Columns' = Columns
         /\ SecondaryRefused' <=> SecondaryRefused
         /\ \A f, c : InColumn(f, c)' = InColumn(f, c)
         /\ \A f : Refused(f)' <=> Refused(f)
         /\ \A f : Valued(f)' = Valued(f)
         /\ \A f : Representable(f)' <=> Representable(f)
  <1>1. Secondary' = Secondary
    BY DEF Secondary
  <1>2. Columns' = Columns
    BY <1>1 DEF Columns
  <1>3. SecondaryRefused' <=> SecondaryRefused
    BY <1>1 DEF SecondaryRefused
  <1>4. \A f, c : InColumn(f, c)' = InColumn(f, c)
    BY DEF InColumn, SecondaryGeometry
  <1>5. \A f : Refused(f)' <=> Refused(f)
    BY <1>1 DEF Refused
  <1>6. \A f : Valued(f)' = Valued(f)
    BY <1>1 DEF Valued, Plain, NullProperties
  <1>7. \A f : Representable(f)' <=> Representable(f)
    BY <1>1 DEF Representable
  <1> QED
    BY <1>1, <1>2, <1>3, <1>4, <1>5, <1>6, <1>7

(* So it stays if the input stays.                                          *)
LEMMA InputSame ==
  ASSUME input' = input
  PROVE  /\ \A n : Taken(n)' <=> Taken(n)
         /\ \A n, ks : KindsFit(n, ks)' <=> KindsFit(n, ks)
         /\ \A n, st : StatsFit(n, st)' <=> StatsFit(n, st)
         /\ \A geo : GeoFits(geo)' <=> GeoFits(geo)
         /\ \A rows : RowsFit(rows)' <=> RowsFit(rows)
         /\ \A why : Excused(why)' <=> Excused(why)
  <1>1. \A n : Taken(n)' <=> Taken(n)
    BY SecondarySame DEF Taken
  <1>2. \A n, ks : KindsFit(n, ks)' <=> KindsFit(n, ks)
    BY SecondarySame DEF KindsFit
  <1>3. \A c, n : InRead(c, n)' = InRead(c, n)
    BY SecondarySame DEF InRead
  <1>4. \A n, st : StatsFit(n, st)' <=> StatsFit(n, st)
    BY <1>3, SecondarySame DEF StatsFit
  <1>5. \A c : AllIn(c)' = AllIn(c)
    BY SecondarySame DEF AllIn
  <1>6. \A geo : GeoFits(geo)' <=> GeoFits(geo)
    BY <1>5 DEF GeoFits
  <1>7. \A rows : RowsFit(rows)' <=> RowsFit(rows)
    BY DEF RowsFit
  <1>8. UniformTypes' <=> UniformTypes
    BY DEF UniformTypes
  <1>9. \A c : Unbounded(c)' <=> Unbounded(c)
    BY <1>5 DEF Unbounded
  <1>10. \A why : Excused(why)' <=> Excused(why)
    BY <1>8, <1>9, SecondarySame DEF Excused
  <1> QED
    BY <1>1, <1>2, <1>4, <1>6, <1>7, <1>10

-----------------------------------------------------------------------------
(* The features.                                                            *)

(* They are a list of features.                                             *)
LEMMA FeaturesAre ==
  ASSUME input \in Inputs
  PROVE  /\ Len(input.features) \in Nat /\ DOMAIN input.features = 1..Len(input.features)
         /\ \A i \in 1..Len(input.features) : /\ IsFeature(input.features[i])
                                              /\ input.features[i] \in Elements(input.features)
         /\ \A f \in Elements(input.features) :
               IsFeature(f) /\ \E i \in 1..Len(input.features) : f = input.features[i]
  <1>1. IsList(input.features) /\ \A f \in Elements(input.features) : IsFeature(f)
    BY GeoParquetAssumption
  <1>2. Len(input.features) \in Nat /\ DOMAIN input.features = 1..Len(input.features)
    BY <1>1 DEF IsList
  <1>3. /\ \A i \in 1..Len(input.features) : input.features[i] \in Elements(input.features)
        /\ \A f \in Elements(input.features) : \E i \in 1..Len(input.features) : f = input.features[i]
    BY <1>2 DEF Elements
  <1> QED
    BY <1>1, <1>2, <1>3

(* A feature is refused exactly if it cannot be represented.                *)
LEMMA RefusedIs ==
  ASSUME NEW f, IsFeature(f)
  PROVE  Refused(f) <=> ~Representable(f)
  <1>0. NullValue.form = "null"
    BY DEF NullValue
  <1>1. ASSUME Representable(f)  PROVE ~Refused(f)
    <2>1. f.valid
      BY <1>1 DEF Representable
    <2>2. ~(IsGeometry(f.geometry) /\ (~Encodable(f.geometry) \/ f.geometry.parts = <<>>))
      <3>1. \A g : g.parts = <<>> => Positions(g) = {}
        BY DEF Positions, Elements
      <3> QED
        BY <1>1, <3>1 DEF Representable, IsGeometry, Encodable
    <2>3. ASSUME NEW name \in Secondary
          PROVE  /\ name \in DOMAIN f.properties
                 /\ ~IsNull(f.properties[name]) =>
                      /\ f.properties[name].form = "geometry"
                      /\ Encodable(f.properties[name].geometry)
      BY <1>1 DEF Representable, IsNull, Encodable, IsFeature
    <2> QED
      BY <2>1, <2>2, <2>3 DEF Refused
  <1>2. ASSUME ~Refused(f)  PROVE Representable(f)
    <2>1. f.valid
      BY <1>2 DEF Refused
    <2>2. f.geometry # NoGeometry => f.geometry.dim \in {2, 3} /\ Positions(f.geometry) # {}
      BY <1>2, TakenPosition DEF Refused, IsGeometry, Encodable
    <2>3. ASSUME NEW name \in Secondary
          PROVE  /\ ~f.null /\ name \in DOMAIN f.properties
                 /\ f.properties[name].form \in {"null", "geometry"}
                 /\ f.properties[name].form = "geometry" => f.properties[name].geometry.dim \in {2, 3}
      <3>1. name \in DOMAIN f.properties
        BY <1>2 DEF Refused
      <3>2. ~f.null
        BY <3>1 DEF IsFeature
      <3>3. CASE IsNull(f.properties[name])
        <4>1. f.properties[name].form = "null"
          BY <1>0, <3>3 DEF IsNull
        <4> QED
          BY <3>1, <3>2, <4>1
      <3>4. CASE ~IsNull(f.properties[name])
        <4>1. f.properties[name].form = "geometry" /\ Encodable(f.properties[name].geometry)
          BY <1>2, <3>4 DEF Refused
        <4> QED
          BY <3>1, <3>2, <4>1 DEF Encodable
      <3> QED
        BY <3>3, <3>4
    <2> QED
      BY <2>1, <2>2, <2>3 DEF Representable
  <1> QED
    BY <1>1, <1>2

(* What is known of the features that are read.                             *)
LEMMA ReadIs ==
  ASSUME input \in Inputs, Taken(count), ~SecondaryRefused
  PROVE  /\ ReadInv
         /\ count = Len(input.features) => \A c : AllIn(c) = InRead(c, count)
  <1>1. Geometry \notin Secondary
    BY DEF SecondaryRefused, Reserved
  <1>2. \A i \in 1..count : i \in 1..Len(input.features)
    BY FeaturesAre DEF Taken
  <1>3. ReadInv
    BY <1>1, <1>2, FeaturesAre DEF ReadInv, Taken
  <1>4. ASSUME count = Len(input.features), NEW c  PROVE AllIn(c) = InRead(c, count)
    BY <1>4, FeaturesAre DEF AllIn, InRead
  <1> QED
    BY <1>3, <1>4

(* Native lists are refused exactly if the types are not uniform.           *)
LEMMA NativeIs ==
  ASSUME input \in Inputs, Taken(count), ~SecondaryRefused, count = Len(input.features)
  PROVE  NativeRefused <=> ~UniformTypes
  <1> DEFINE F == {<<f.geometry.type, f.geometry.dim>> : f \in Elements(input.features)}
                  \ {<<"null", 0>>}
             T == {Form(i) : i \in Present}
             n == Len(input.features)
             first == <<First.type, First.dim>>
  <1>1. ReadInv
    BY ReadIs
  <1>2. NoGeometry.type = "null" /\ NoGeometry.dim = 0
    BY DEF NoGeometry
  <1>3. \A i \in 1..n : /\ Form(i) = <<input.features[i].geometry.type, input.features[i].geometry.dim>>
                        /\ i \in Present <=> Form(i) # <<"null", 0>>
    <2> SUFFICES ASSUME NEW i \in 1..n  PROVE i \in Present <=> Form(i) # <<"null", 0>>
      BY DEF Form
    <2> DEFINE g == input.features[i].geometry
    <2>1. g.type = "null" => g = NoGeometry
      BY FeaturesAre DEF IsFeature, IsNested
    <2>2. i \in Present <=> g # NoGeometry
      BY <1>1, PresentIs
    <2>3. Form(i) = <<g.type, g.dim>>
      BY DEF Form
    <2> HIDE DEF g
    <2> QED
      BY <1>2, <2>1, <2>2, <2>3
  <1>4. Present \subseteq 1..n
    BY DEF Present
  <1>5. F = T
    <2>1. ASSUME NEW t \in F  PROVE t \in T
      <3>1. PICK f \in Elements(input.features) : t = <<f.geometry.type, f.geometry.dim>>
        OBVIOUS
      <3>2. PICK i \in 1..n : f = input.features[i]
        BY FeaturesAre
      <3>3. t = Form(i) /\ t # <<"null", 0>>
        BY <1>3, <3>1, <3>2
      <3> QED
        BY <1>3, <3>3
    <2>2. ASSUME NEW i \in Present  PROVE Form(i) \in F
      <3>1. i \in 1..n /\ Form(i) # <<"null", 0>>
        BY <1>3, <1>4
      <3>2. input.features[i] \in Elements(input.features)
        BY <3>1, FeaturesAre
      <3>3. Form(i) = <<input.features[i].geometry.type, input.features[i].geometry.dim>>
        BY <1>3, <3>1
      <3> QED
        BY <3>1, <3>2, <3>3
    <2> HIDE DEF F
    <2> QED
      BY <2>1, <2>2
  <1>6. IsFiniteSet(T)
    <2>1. n \in Nat
      BY FeaturesAre
    <2>2. IsFiniteSet(1..n)
      <3>1. 1 \in Int /\ n \in Int
        BY <2>1
      <3> QED
        BY <3>1, FS_Interval
    <2>3. IsFiniteSet(Present)
      BY <1>4, <2>2, FS_Subset
    <2> DEFINE form == [i \in Present |-> Form(i)]
    <2>4. T = {form[i] : i \in Present}
      OBVIOUS
    <2> HIDE DEF form, T
    <2>5. IsFiniteSet({form[i] : i \in Present})
      BY <2>3, ImageFinite
    <2> QED
      BY <2>4, <2>5
  <1>7. Cardinality(T) = 1 <=> \E x : T = {x}
    BY <1>6, FS_Singleton
  <1>8. UniformTypes <=> /\ \A f \in Elements(input.features) : f.geometry.type # "GeometryCollection"
                         /\ \E x : T = {x}
    BY <1>5, <1>7 DEF UniformTypes
  <1>9. CASE Present = {}
    BY <1>8, <1>9 DEF NativeRefused
  <1>10. CASE Present # {}
    <2>1. Min(Present) \in Present /\ Form(Min(Present)) = first
      BY <1>1, <1>10, FirstIs DEF Form
    <2>2. (\E x : T = {x}) <=> \A i \in Present : Form(i) = first
      <3> HIDE DEF first
      <3>1. first \in T
        BY <2>1
      <3>2. ASSUME NEW x, T = {x}, NEW i \in Present  PROVE Form(i) = first
        <4>1. Form(i) \in T
          OBVIOUS
        <4> HIDE DEF T
        <4> QED
          BY <3>1, <3>2, <4>1
      <3>3. ASSUME \A i \in Present : Form(i) = first  PROVE T = {first}
        BY <3>1, <3>3
      <3> QED
        BY <3>2, <3>3
    <2>3. ASSUME \A i \in Present : Form(i) = first
          PROVE  First.type # "GeometryCollection"
                   <=> \A f \in Elements(input.features) : f.geometry.type # "GeometryCollection"
      <3>1. \A i \in 1..n : i \notin Present => input.features[i].geometry = NoGeometry
        BY <1>1, PresentIs
      <3>2. \A i \in Present : input.features[i].geometry.type = First.type
        BY <2>3 DEF Form
      <3>3. First = input.features[Min(Present)].geometry /\ Min(Present) \in 1..n
        BY <1>1, <1>4, <1>10, FirstIs
      <3>4. input.features[Min(Present)] \in Elements(input.features)
        BY <3>3, FeaturesAre
      <3>5. \A f \in Elements(input.features) : f.geometry.type \in {"null", First.type}
        <4> SUFFICES ASSUME NEW f \in Elements(input.features)
                     PROVE  f.geometry.type \in {"null", First.type}
          OBVIOUS
        <4>1. PICK i \in 1..n : f = input.features[i]
          BY FeaturesAre
        <4>2. CASE i \in Present
          BY <4>1, <4>2, <3>2
        <4>3. CASE i \notin Present
          BY <4>1, <4>3, <3>1, <1>2
        <4> QED
          BY <4>2, <4>3
      <3> QED
        BY <3>3, <3>4, <3>5
    <2> QED
      BY <1>8, <1>10, <2>2, <2>3 DEF NativeRefused
  <1> QED
    BY <1>9, <1>10

(* Metadata that says what is gathered can be written, and is right, or a   *)
(* secondary column has a geometry without a position.                      *)
LEMMA MarshalsIf ==
  ASSUME input \in Inputs, Taken(count), ~SecondaryRefused, count = Len(input.features),
         NEW geo, DOMAIN geo = Columns,
         \A c \in Columns : /\ geo[c].types = TypesOf(InRead(c, count))
                            /\ IsBoxIfAny(geo[c].bbox, InRead(c, count))
  PROVE  /\ Marshals(geo) => GeoFits(geo)
         /\ ~Marshals(geo) => \E column \in Secondary : Unbounded(column)
  <1>1. ReadInv /\ \A c : AllIn(c) = InRead(c, count)
    BY ReadIs
  <1>2. count \in 0..count
    BY <1>1 DEF ReadInv
  <1>3. \A c \in Columns : AreGeometries(InRead(c, count))
    BY <1>1, <1>2, ReadGeometries
  <1>4. ASSUME Marshals(geo)  PROVE GeoFits(geo)
    <2> SUFFICES ASSUME NEW c \in Columns  PROVE ColumnRight(geo[c], AllIn(c))
      BY DEF GeoFits
    <2>1. Finite(geo[c].bbox)
      BY <1>4 DEF Marshals
    <2> QED
      BY <1>1, <1>3, <2>1, RightIfFinite
  <1>5. ASSUME ~Marshals(geo)  PROVE \E column \in Secondary : Unbounded(column)
    <2>1. PICK c \in Columns : ~Finite(geo[c].bbox)
      BY <1>5 DEF Marshals
    <2> DEFINE S == InRead(c, count)
    <2>2. S # {} /\ PlacesOf(S) = {}
      BY <1>3, <2>1, UnboundedIfNot
    <2>3. PICK g \in S : Positions(g) = {}
      BY <2>2 DEF PlacesOf
    <2>4. c # Geometry
      <3> SUFFICES ASSUME c = Geometry  PROVE FALSE
        OBVIOUS
      <3>1. PICK i \in Present : g = input.features[i].geometry
        BY <1>1, <2>3, PresentIs
      <3>2. i \in 1..count /\ g # NoGeometry
        BY <3>1 DEF Present, IsGeometry
      <3>3. Positions(g) # {}
        BY <1>1, <3>1, <3>2, TakenPosition DEF ReadInv
      <3> QED
        BY <2>3, <3>3
    <2>5. c \in Secondary /\ g \in AllIn(c)
      BY <1>1, <2>4 DEF Columns
    <2> QED
      BY <2>3, <2>5 DEF Unbounded
  <1> QED
    BY <1>4, <1>5

-----------------------------------------------------------------------------
(* The invariant.                                                           *)

(* The columns are given and every value has one.                           *)
RowsReady ==
    /\ ~input.streaming /\ count = Len(input.features)
    /\ file.tool.columns = PropertyColumns
    /\ file.schema = Schema(PropertyColumns, Dimension)
    /\ input.native => ~NativeRefused

(* What the encoder has settled,                                            *)
Settled ==
    /\ input \in Inputs
    /\ pc \in {"start", "read", "rows"} => encoding = ""
    /\ pc \in {"read", "rows"} => ~SecondaryRefused /\ ~(input.streaming /\ input.native)

(* what it knows of the features,                                           *)
Known ==
    /\ Taken(count) /\ (pc = "start" => count = 0)
    /\ ~input.streaming => KindsFit(count, kinds)
    /\ input.streaming /\ pc = "read" => StatsFit(count, stats)

(* and what it has written.                                                 *)
Written ==
    /\ pc = "start" \/ (pc = "read" /\ ~input.streaming) => file = EmptyFile
    /\ pc = "rows" => RowsReady
    /\ GeoFits(file.geo) /\ RowsFit(file.rows)

EncoderInv == Settled /\ Known /\ Written /\ Excused(encoding)

-----------------------------------------------------------------------------
(* What stays.                                                              *)

(* Each part, in the next state.                                            *)
LEMMA NextParts ==
  ASSUME input' = input
  PROVE  /\ Taken(count)' <=> Taken(count')
         /\ KindsFit(count, kinds)' <=> KindsFit(count', kinds')
         /\ StatsFit(count, stats)' <=> StatsFit(count', stats')
         /\ GeoFits(file.geo)' <=> GeoFits(file'.geo)
         /\ RowsFit(file.rows)' <=> RowsFit(file'.rows)
         /\ Excused(encoding)' <=> Excused(encoding')
         /\ SecondaryRefused' <=> SecondaryRefused
  BY InputSame, SecondarySame

(* The columns and the dimension do not change with the rows.               *)
LEMMA ReadySame ==
  ASSUME input' = input, count' = count, kinds' = kinds
  PROVE  /\ PropertyColumns' = PropertyColumns /\ Dimension' = Dimension
         /\ NativeRefused' <=> NativeRefused
         /\ Schema(PropertyColumns, Dimension)' = Schema(PropertyColumns, Dimension)
  <1>1. PropertyColumns' = PropertyColumns
    BY SecondarySame DEF PropertyColumns
  <1>2. Present' = Present
    BY DEF Present
  <1>3. First' = First
    BY <1>2 DEF First
  <1>4. \A i : Form(i)' = Form(i)
    BY DEF Form
  <1>5. Dimension' = Dimension
    BY <1>2, <1>3, <1>4 DEF Dimension
  <1>6. NativeRefused' <=> NativeRefused
    BY <1>2, <1>3, <1>4 DEF NativeRefused
  <1>7. Schema(PropertyColumns, Dimension)' = Schema(PropertyColumns, Dimension)
    BY <1>1, <1>5, SecondarySame DEF Schema
  <1> QED
    BY <1>1, <1>5, <1>6, <1>7

(* A reason that is not the encoder's own.                                  *)
LEMMA OthersExcused ==
  ASSUME NEW why, why \notin {"bad feature", "not native", "bad metadata", "bad row", "ok"}
  PROVE  Excused(why)
  BY DEF Excused

(* A step after the encoder has read and described.                         *)
LEMMA LaterKeeps ==
  ASSUME EncoderInv, input' = input, count' = count, kinds' = kinds, stats' = stats,
         pc' \notin {"start", "read", "rows"}, GeoFits(file'.geo), RowsFit(file'.rows),
         Excused(encoding')
  PROVE  EncoderInv'
  <1>1. Settled'
    BY DEF EncoderInv, Settled
  <1>2. Known'
    BY NextParts DEF EncoderInv, Known
  <1>3. Written'
    BY NextParts DEF Written
  <1> QED
    BY <1>1, <1>2, <1>3, NextParts DEF EncoderInv

(* The steps of the decoder,                                                *)
LEMMA DecoderStays ==
  ASSUME EncoderInv, Open \/ DecodeRow \/ DecodeFails \/ EndOfFile
  PROVE  EncoderInv'
  <1>1. /\ UNCHANGED <<input, count, kinds, stats, file, encoding>>
        /\ pc' \notin {"start", "read", "rows"}
    BY DEF Open, DecodeRow, DecodeFails, EndOfFile, encoderVars
  <1>2. GeoFits(file'.geo) /\ RowsFit(file'.rows) /\ Excused(encoding')
    BY <1>1 DEF EncoderInv, Written
  <1> QED
    BY <1>1, <1>2, LaterKeeps

(* a failure to read or write, and the end of the file.                     *)
LEMMA EndKeeps ==
  ASSUME EncoderInv, FileType, ReadFails \/ CloseWriter
  PROVE  EncoderInv'
  <1>1. /\ UNCHANGED <<input, count, kinds, stats>>
        /\ pc' \notin {"start", "read", "rows"}
    BY DEF ReadFails, CloseWriter, Fail, Return, CloseAfter
  <1>2. file' \in {file, [file EXCEPT !.footer = TRUE]}
    BY DEF ReadFails, CloseWriter
  <1>3. file'.geo = file.geo /\ file'.rows = file.rows
    BY <1>2 DEF FileType, Fields
  <1>4. encoding' \in {encoding, "read failed", "close failed"}
    BY DEF ReadFails, CloseWriter, Fail, Return, CloseAfter
  <1>5. Excused(encoding')
    BY <1>4, OthersExcused DEF EncoderInv
  <1> QED
    BY <1>1, <1>3, <1>5, LaterKeeps DEF EncoderInv, Written

-----------------------------------------------------------------------------
(* The start.                                                               *)

(* What an empty file has.                                                  *)
LEMMA EmptyFits ==
  /\ DOMAIN EmptyFile = Fields /\ EmptyFile.geo = <<>> /\ EmptyFile.rows = <<>>
  /\ EmptyFile.tool = NoTool /\ GeoFits(<<>>) /\ RowsFit(<<>>)
  <1>1. /\ DOMAIN EmptyFile = Fields /\ EmptyFile.geo = <<>> /\ EmptyFile.rows = <<>>
        /\ EmptyFile.tool = NoTool
    BY Zenon DEF EmptyFile, Fields, NoGeo
  <1>2. GeoFits(<<>>)
    BY DEF GeoFits
  <1>3. RowsFit(<<>>)
    <2>1. Len(<<>>) = 0 /\ 1..0 = {}
      OBVIOUS
    <2> QED
      BY <2>1 DEF RowsFit
  <1> QED
    BY <1>1, <1>2, <1>3

(* At first nothing is known.                                               *)
LEMMA EncoderBegins == ASSUME Init  PROVE EncoderInv
  <1>1. /\ input \in Inputs /\ pc = "start" /\ count = 0 /\ kinds = <<>> /\ file = EmptyFile
        /\ encoding = ""
    BY DEF Init
  <1>2. 1..0 = {} /\ 0 \in Nat /\ \A n \in Nat : 0 <= n
    OBVIOUS
  <1>3. Taken(count)
    BY <1>1, <1>2, FeaturesAre DEF Taken
  <1>4. KindsFit(count, kinds)
    <2>1. DOMAIN <<>> = {}
      OBVIOUS
    <2> QED
      BY <1>1, <1>2, <2>1 DEF KindsFit
  <1>5. Known
    BY <1>1, <1>3, <1>4 DEF Known
  <1>6. Written
    BY <1>1, EmptyFits DEF Written
  <1> QED
    BY <1>1, <1>5, <1>6, OthersExcused DEF EncoderInv, Settled

(* The settings are good or the encoder returns.                            *)
LEMMA StartKeeps ==
  ASSUME EncoderInv, Start
  PROVE  EncoderInv'
  <1>1. pc = "start" /\ input' = input /\ count' = count /\ kinds' = kinds /\ file = EmptyFile
    BY DEF Start, EncoderInv, Written
  <1>2. CASE SecondaryRefused \/ (input.streaming /\ input.native)
    <2>1. pc' = "encoded" /\ encoding' = "bad settings" /\ stats' = stats /\ file' = file
      BY <1>2, Zenon DEF Start, Return
    <2> QED
      BY <1>1, <2>1, LaterKeeps, OthersExcused DEF EncoderInv, Written
  <1>3. CASE ~(SecondaryRefused \/ (input.streaming /\ input.native))
    <2>1. /\ pc' = "read" /\ encoding' = encoding
          /\ stats' = [column \in Columns |-> NoStats]
          /\ file' = IF input.streaming
                     THEN [file EXCEPT !.tool.streaming = TRUE, !.schema = StreamingSchema]
                     ELSE file
      BY <1>3, Zenon DEF Start, Columns
    <2>2. encoding = "" /\ input \in Inputs /\ Taken(count)
      BY <1>1 DEF EncoderInv, Settled, Known
    <2>3. StatsFit(count, stats')
      <3>0. count = 0
        BY <1>1 DEF EncoderInv, Known
      <3>1. \A c \in Columns : stats'[c] = NoStats
        BY <2>1
      <3>2. DOMAIN stats' = Columns
        BY <2>1
      <3> QED
        BY <3>0, <3>1, <3>2, ReadNone, NothingGathered DEF StatsFit
    <2>4. file'.geo = <<>> /\ file'.rows = <<>>
      <3>1. CASE ~input.streaming
        BY <1>1, <2>1, <3>1, EmptyFits
      <3>2. CASE input.streaming
        <4> DEFINE f == [file EXCEPT !.tool.streaming = TRUE]
        <4>1. file' = [f EXCEPT !.schema = StreamingSchema]
          BY <2>1, <3>2, Zenon
        <4>2. DOMAIN f = Fields /\ f.rows = file.rows /\ f.geo = file.geo
          BY <1>1, EmptyFits DEF Fields
        <4> HIDE DEF f
        <4>3. file'.geo = file.geo /\ file'.rows = file.rows
          BY <4>1, <4>2 DEF Fields
        <4> QED
          BY <1>1, <4>3, EmptyFits
      <3> QED
        BY <3>1, <3>2
    <2>5. Settled'
      BY <1>1, <1>3, <2>1, <2>2, SecondarySame DEF Settled
    <2>6. Written'
      BY <1>1, <2>1, <2>4, EmptyFits, NextParts DEF Written
    <2>7. Excused(encoding)'
      BY <1>1, <2>1, NextParts DEF EncoderInv
    <2>8. Known'
      BY <1>1, <2>1, <2>3, NextParts DEF EncoderInv, Known
    <2> QED
      BY <2>5, <2>6, <2>7, <2>8 DEF EncoderInv
  <1> QED
    BY <1>2, <1>3

-----------------------------------------------------------------------------
(* A feature is read.                                                       *)

(* A value can be stored as what it is, or as JSON.                         *)
LEMMA StorableAs ==
  ASSUME NEW v, v.form \in {"bool", "number", "string", "json", "geometry"},
         NEW kind \in {Kind(v), "json"}
  PROVE  Storable(v, kind)
  <1>1. CASE kind = "json"
    BY <1>1 DEF Storable
  <1>2. CASE kind = Kind(v) /\ v.form = "number" /\ ~v.point
    <2>1. kind = IF Fits(v.value) THEN "int" ELSE "json"
      BY <1>2 DEF Kind
    <2> QED
      BY <1>2, <2>1 DEF Storable
  <1>3. CASE kind = Kind(v) /\ v.form = "number" /\ v.point
    <2>1. kind = IF Rounded(v.value) = v.value THEN "double" ELSE "json"
      BY <1>3 DEF Kind
    <2> QED
      BY <1>3, <2>1 DEF Storable
  <1>4. CASE kind = Kind(v) /\ v.form = "geometry"
    <2>1. kind = "json"
      BY <1>4 DEF Kind
    <2> QED
      BY <2>1 DEF Storable
  <1>5. CASE kind = Kind(v) /\ v.form \in {"bool", "string", "json"}
    <2>1. kind = v.form
      BY <1>5 DEF Kind
    <2> QED
      BY <1>5, <2>1 DEF Storable
  <1> QED
    BY <1>1, <1>2, <1>3, <1>4, <1>5

(* A value that is not null has one of these forms, and a name that is      *)
(* listed.                                                                  *)
LEMMA ValuedIs ==
  ASSUME NEW f, IsFeature(f), NEW p \in Valued(f)
  PROVE  /\ f.properties[p].form \in {"bool", "number", "string", "json", "geometry"}
         /\ p \in Elements(Names) /\ p \notin Secondary
  <1>1. p \in DOMAIN f.properties /\ p \notin Secondary /\ ~IsNull(f.properties[p])
    BY DEF Valued, Plain, NullProperties
  <1> QED
    BY <1>1 DEF IsFeature, IsNull

(* One feature more is taken.                                               *)
LEMMA TakenMore ==
  ASSUME input \in Inputs, NEW n, Taken(n), n < Len(input.features),
         ~Refused(input.features[n + 1])
  PROVE  Taken(n + 1)
  <1>1. n \in Nat /\ Len(input.features) \in Nat
    BY FeaturesAre DEF Taken
  <1>2. n + 1 \in Nat /\ n + 1 <= Len(input.features)
    BY <1>1
  <1>3. \A i \in 1..n + 1 : i \in 1..n \/ i = n + 1
    BY <1>1
  <1> QED
    BY <1>2, <1>3 DEF Taken

(* The kinds that are promoted fit one feature more.                        *)
LEMMA CountsFit ==
  ASSUME input \in Inputs, NEW n \in Nat, n < Len(input.features), KindsFit(n, kinds),
         Counts(input.features[n + 1])
  PROVE  KindsFit(n + 1, kinds')
  <1> DEFINE f == input.features[n + 1]
             new == Valued(f)
             K(p) == Kind(f.properties[p])
  <1>1. n + 1 \in 1..Len(input.features) /\ Len(input.features) \in Nat
    BY FeaturesAre
  <1>2. IsFeature(f)
    BY <1>1, FeaturesAre
  <1>3. kinds' = [name \in DOMAIN kinds \union new |->
                    IF name \in new THEN Promoted(name, K(name)) ELSE kinds[name]]
    BY DEF Counts, Valued
  <1>4. new \subseteq Elements(Names)
    BY <1>2, ValuedIs
  <1> HIDE DEF new, K
  <1>5. DOMAIN kinds' = DOMAIN kinds \union new
    BY <1>3
  <1>6. \A p \in new : kinds'[p] \in {K(p), "json"}
    BY <1>3 DEF Promoted
  <1>7. \A p \in DOMAIN kinds : kinds'[p] \in {kinds[p], "json"}
    BY <1>3 DEF Promoted
  <1>8. ASSUME NEW i \in 1..n + 1, NEW p \in Valued(input.features[i])
        PROVE  p \in DOMAIN kinds' /\ kinds'[p] \in {Kind(input.features[i].properties[p]), "json"}
    <2>1. CASE i = n + 1
      <3>1. p \in new
        BY <1>8, <2>1 DEF new
      <3> QED
        BY <2>1, <3>1, <1>5, <1>6 DEF K
    <2>2. CASE i # n + 1
      <3>1. i \in 1..n
        BY <2>2
      <3>2. p \in DOMAIN kinds /\ kinds[p] \in {Kind(input.features[i].properties[p]), "json"}
        BY <1>8, <3>1 DEF KindsFit
      <3> QED
        BY <3>2, <1>5, <1>7
    <2> QED
      BY <2>1, <2>2
  <1>9. DOMAIN kinds' \subseteq Elements(Names)
    BY <1>4, <1>5 DEF KindsFit
  <1> QED
    BY <1>8, <1>9 DEF KindsFit

(* The two-pass encoder takes a feature or returns.                         *)
LEMMA CollectKeeps ==
  ASSUME EncoderInv, Collect
  PROVE  EncoderInv'
  <1> DEFINE f == input.features[count + 1]
  <1>1. /\ pc = "read" /\ ~input.streaming /\ count < Len(input.features)
        /\ input' = input /\ stats' = stats /\ file' = file
    BY DEF Collect
  <1>2. /\ input \in Inputs /\ Taken(count) /\ KindsFit(count, kinds) /\ file = EmptyFile
        /\ encoding = "" /\ ~SecondaryRefused /\ GeoFits(file.geo) /\ RowsFit(file.rows)
    BY <1>1 DEF EncoderInv, Settled, Known, Written
  <1>3. count \in Nat /\ count + 1 \in 1..Len(input.features)
    <2>1. \A a, b \in Nat : a < b => a + 1 \in 1..b
      OBVIOUS
    <2>2. count \in Nat /\ Len(input.features) \in Nat
      BY <1>2, FeaturesAre DEF Taken
    <2> HIDE DEF f
    <2> QED
      BY <1>1, <2>1, <2>2
  <1>4. IsFeature(f) /\ f \in Elements(input.features)
    BY <1>2, <1>3, FeaturesAre
  <1>5. CASE Refused(f)
    <2>1. pc' = "encoded" /\ encoding' = "bad feature" /\ count' = count /\ kinds' = kinds
      BY <1>5 DEF Collect, Return
    <2>2. Excused(encoding')
      BY <2>1, <1>4, <1>5, RefusedIs DEF Excused
    <2> QED
      BY <1>1, <1>2, <2>1, <2>2, LaterKeeps
  <1>6. CASE ~Refused(f)
    <2>1. Counts(f) /\ count' = count + 1 /\ pc' = pc /\ encoding' = encoding
      BY <1>6 DEF Collect
    <2>2. Taken(count')
      BY <1>1, <1>2, <1>6, <2>1, TakenMore
    <2>3. KindsFit(count', kinds')
      BY <1>1, <1>2, <1>3, <2>1, CountsFit
    <2>4. Settled'
      BY <1>1, <1>2, <2>1, SecondarySame DEF Settled
    <2>5. Known'
      BY <1>1, <2>1, <2>2, <2>3, NextParts DEF Known
    <2>6. Written'
      BY <1>1, <1>2, <2>1, NextParts DEF Written
    <2> QED
      BY <1>1, <2>1, <2>4, <2>5, <2>6, NextParts DEF EncoderInv
  <1> QED
    BY <1>5, <1>6

(* What is gathered grows with each feature.                                *)
LEMMA StatsMore ==
  ASSUME input \in Inputs, ~SecondaryRefused, Taken(count), count < Len(input.features),
         ~Refused(input.features[count + 1]), StatsFit(count, stats),
         NEW st, st = [c \in DOMAIN stats |-> Add(stats[c], InColumn(input.features[count + 1], c))]
  PROVE  StatsFit(count + 1, st)
  <1> DEFINE m == count + 1
  <1>1. /\ ReadInv /\ count \in Nat /\ count \in 0..count /\ m \in 1..Len(input.features)
    BY ReadIs, FeaturesAre DEF Taken
  <1>2. DOMAIN stats = Columns /\ \A c \in Columns : Gathered(stats[c], InRead(c, count))
    BY DEF StatsFit
  <1>3. ASSUME NEW c \in Columns  PROVE Gathered(st[c], InRead(c, m))
    <2> DEFINE g == InColumn(input.features[m], c)
               S == InRead(c, count)
    <2>1. st[c] = Add(stats[c], g)
      BY <1>2
    <2>2. InRead(c, m) = (S \union {g}) \ {NoGeometry}
      BY <1>1, ReadMore
    <2>3. AreGeometries(S)
      BY <1>1, ReadGeometries
    <2>4. IsFeature(input.features[m])
      BY <1>1, FeaturesAre
    <2>5. g # NoGeometry => AreGeometries({g})
      BY <1>1, <2>4, TakenGeometry DEF ReadInv
    <2>6. Gathered(stats[c], S)
      BY <1>2
    <2> HIDE DEF g, S
    <2>7. Gathered(Add(stats[c], g), (S \union {g}) \ {NoGeometry})
      BY <2>3, <2>5, <2>6, AddGathers
    <2> QED
      BY <2>1, <2>2, <2>7
  <1>4. DOMAIN st = Columns
    BY <1>2
  <1> QED
    BY <1>3, <1>4 DEF StatsFit

(* One row more.                                                            *)
LEMMA RowsMore ==
  ASSUME NEW rows, IsSeq(rows), RowsFit(rows), NEW row,
         Held(row, Covering) => row[Covering] = Bounds(input.features[Len(rows) + 1].geometry)
  PROVE  RowsFit(Append(rows, row))
  <1> DEFINE n == Len(rows)
             more == Append(rows, row)
  <1>1. PICK S : rows \in Seq(S)
    BY DEF IsSeq
  <1>2. rows \in Seq(S \union {row}) /\ n \in Nat
    BY <1>1
  <1>3. Len(more) = n + 1 /\ more[n + 1] = row /\ \A i \in 1..n : more[i] = rows[i]
    BY <1>2
  <1> HIDE DEF more, n
  <1>4. \A i \in 1..n + 1 : i \in 1..n \/ i = n + 1
    BY <1>2
  <1>5. RowsFit(more)
    BY <1>3, <1>4 DEF RowsFit, n
  <1> QED
    BY <1>5 DEF more

(* What a row more leaves of the file.                                      *)
LEMMA AddRowLeaves ==
  ASSUME FileType, NEW row, AddRow(row)
  PROVE  /\ file'.rows = Append(file.rows, row) /\ file'.geo = file.geo
         /\ file'.tool = file.tool /\ file'.schema = file.schema
         /\ file'.dimension = file.dimension
  BY DEF AddRow, FileType, Fields

(* The one-pass encoder takes a feature and writes its row, or ends.        *)
LEMMA StreamKeeps ==
  ASSUME EncoderInv, FileType, Stream
  PROVE  EncoderInv'
  <1> DEFINE f == input.features[count + 1]
             st == [c \in DOMAIN stats |-> Add(stats[c], InColumn(f, c))]
  <1>1. /\ pc = "read" /\ input.streaming /\ count < Len(input.features)
        /\ input' = input /\ kinds' = kinds
    BY DEF Stream
  <1>2. /\ input \in Inputs /\ Taken(count) /\ StatsFit(count, stats)
        /\ encoding = "" /\ ~SecondaryRefused /\ ~input.native /\ GeoFits(file.geo) /\ RowsFit(file.rows)
    BY <1>1 DEF EncoderInv, Settled, Known, Written
  <1>3. count \in Nat /\ count + 1 \in 1..Len(input.features)
    <2>1. \A a, b \in Nat : a < b => a + 1 \in 1..b
      OBVIOUS
    <2>2. count \in Nat /\ Len(input.features) \in Nat
      BY <1>2, FeaturesAre DEF Taken
    <2> HIDE DEF f
    <2> QED
      BY <1>1, <2>1, <2>2
  <1>4. IsFeature(f) /\ f \in Elements(input.features)
    BY <1>2, <1>3, FeaturesAre
  <1>5. CASE Refused(f)
    <2>1. pc' = "close" /\ encoding' = "bad feature" /\ count' = count /\ stats' = stats
          /\ file' = file
      BY <1>5 DEF Stream, CloseAfter
    <2>2. Excused(encoding')
      BY <2>1, <1>4, <1>5, RefusedIs DEF Excused
    <2> QED
      BY <1>1, <1>2, <2>1, <2>2, LaterKeeps
  <1>6. CASE ~Refused(f)
    <2>1. /\ stats' = st /\ count' = count + 1
          /\ \/ AddRow(StreamingRow(f)) /\ pc' = pc /\ encoding' = encoding
             \/ pc' = "close" /\ encoding' = "write failed" /\ file' = file
      BY <1>6, Zenon DEF Stream, CloseAfter
    <2>2. Taken(count')
      BY <1>1, <1>2, <1>6, <2>1, TakenMore
    <2>3. StatsFit(count', stats')
      BY <1>1, <1>2, <1>6, <2>1, StatsMore
    <2>4. Settled'
      BY <1>1, <1>2, <2>1, SecondarySame DEF Settled
    <2>5. Known'
      BY <1>1, <1>3, <2>1, <2>2, <2>3, NextParts DEF Known
    <2>6. Excused(encoding)'
      BY <1>1, <1>2, <2>1, OthersExcused, NextParts
    <2>7. GeoFits(file'.geo) /\ RowsFit(file'.rows)
      <3>1. CASE file' = file
        BY <1>2, <3>1
      <3>2. CASE AddRow(StreamingRow(f))
        <4>1. file'.rows = Append(file.rows, StreamingRow(f)) /\ file'.geo = file.geo
          BY <3>2, AddRowLeaves
        <4>2. f.members \subseteq Members /\ Covering \notin Secondary
          BY <1>2, <1>4 DEF IsFeature, SecondaryRefused, Reserved
        <4>3. ~Held(StreamingRow(f), Covering)
          BY <4>2, StreamingRowBox
        <4>4. RowsFit(Append(file.rows, StreamingRow(f)))
          BY <1>2, <4>3, RowsMore DEF FileType
        <4> QED
          BY <1>2, <4>1, <4>4
      <3> QED
        BY <2>1, <3>1, <3>2
    <2>8. Written'
      BY <1>1, <2>1, <2>7, NextParts DEF Written
    <2> QED
      BY <2>4, <2>5, <2>6, <2>8 DEF EncoderInv
  <1> QED
    BY <1>5, <1>6

-----------------------------------------------------------------------------
(* The file is described.                                                   *)

(* What Describe writes.                                                    *)
LEMMA DescribedFile ==
  ASSUME file = EmptyFile, NEW geo, NEW dimension, NEW columns, NEW schema,
         file' = [file EXCEPT !.geo = geo, !.dimension = dimension,
                              !.tool.columns = columns, !.schema = schema]
  PROVE  /\ file'.geo = geo /\ file'.rows = <<>>
         /\ file'.tool.columns = columns /\ file'.schema = schema
         /\ file'.dimension = dimension /\ file'.tool = [NoTool EXCEPT !.columns = columns]
  <1> DEFINE f == [file EXCEPT !.geo = geo]
             g == [f EXCEPT !.dimension = dimension]
             h == [g EXCEPT !.tool.columns = columns]
  <1>1. file' = [h EXCEPT !.schema = schema]
    BY Zenon
  <1>2. DOMAIN file = Fields /\ file.rows = <<>> /\ file.tool = NoTool
    BY EmptyFits
  <1>3. DOMAIN NoTool = {"columns", "streaming"}
    BY Zenon DEF NoTool
  <1>4. DOMAIN f = Fields /\ f.rows = <<>> /\ f.tool = NoTool /\ f.geo = geo
    BY <1>2 DEF Fields
  <1> HIDE DEF f
  <1>5. /\ DOMAIN g = Fields /\ g.rows = <<>> /\ g.tool = NoTool /\ g.geo = geo
        /\ g.dimension = dimension
    BY <1>4 DEF Fields
  <1> HIDE DEF g
  <1>6. /\ DOMAIN h = Fields /\ h.rows = <<>> /\ h.geo = geo /\ h.dimension = dimension
        /\ h.tool = [NoTool EXCEPT !.columns = columns]
    BY <1>5 DEF Fields
  <1>7. h.tool.columns = columns
    BY <1>3, <1>6
  <1> HIDE DEF h
  <1>8. /\ file'.geo = geo /\ file'.rows = <<>> /\ file'.tool = h.tool
        /\ file'.schema = schema /\ file'.dimension = dimension
    BY <1>1, <1>6 DEF Fields
  <1> QED
    BY <1>6, <1>7, <1>8

(* The columns and the metadata are found, or why there are none.           *)
LEMMA DescribeKeeps ==
  ASSUME EncoderInv, Describe
  PROVE  EncoderInv'
  <1>1. /\ pc = "read" /\ ~input.streaming /\ count = Len(input.features)
        /\ input' = input /\ count' = count /\ kinds' = kinds /\ stats' = stats
    BY DEF Describe
  <1>2. /\ input \in Inputs /\ Taken(count) /\ KindsFit(count, kinds) /\ file = EmptyFile
        /\ encoding = "" /\ ~SecondaryRefused /\ GeoFits(file.geo) /\ RowsFit(file.rows)
    BY <1>1 DEF EncoderInv, Settled, Known, Written
  <1>3. /\ Marshals(Metadata) => GeoFits(Metadata)
        /\ ~Marshals(Metadata) => \E column \in Secondary : Unbounded(column)
    <2>1. DOMAIN Metadata = Columns
      BY DEF Metadata, Columns
    <2>2. ReadInv
      BY <1>2, ReadIs
    <2> QED
      BY <1>1, <1>2, <2>1, <2>2, MetadataIs, MarshalsIf
  <1>4. CASE input.native /\ NativeRefused
    <2>1. pc' = "encoded" /\ encoding' = "not native" /\ file' = file
      BY <1>4, Zenon DEF Describe, Return
    <2>2. Excused(encoding')
      BY <1>1, <1>2, <1>4, <2>1, NativeIs DEF Excused
    <2> QED
      BY <1>1, <1>2, <2>1, <2>2, LaterKeeps
  <1>5. CASE ~(input.native /\ NativeRefused) /\ ~Marshals(Metadata)
    <2>1. pc' = "encoded" /\ encoding' = "bad metadata" /\ file' = file
      BY <1>5, Zenon DEF Describe, Return
    <2>2. Excused(encoding')
      BY <1>3, <1>5, <2>1 DEF Excused
    <2> QED
      BY <1>1, <1>2, <2>1, <2>2, LaterKeeps
  <1>6. CASE ~(input.native /\ NativeRefused) /\ Marshals(Metadata)
    <2>1. /\ pc' = "rows" /\ encoding' = encoding
          /\ file' = [file EXCEPT !.geo = Metadata, !.dimension = Dimension,
                                  !.tool.columns = PropertyColumns,
                                  !.schema = Schema(PropertyColumns, Dimension)]
      BY <1>6, Zenon DEF Describe
    <2>2. /\ file'.geo = Metadata /\ file'.rows = <<>>
          /\ file'.tool.columns = PropertyColumns
          /\ file'.schema = Schema(PropertyColumns, Dimension)
      BY <1>2, <2>1, DescribedFile
    <2>3. RowsReady'
      BY <1>1, <1>6, <2>2, ReadySame DEF RowsReady
    <2>4. Settled'
      BY <1>1, <1>2, <2>1, SecondarySame DEF Settled
    <2>5. Known'
      BY <1>1, <1>2, <2>1, NextParts DEF Known
    <2>6. Written'
      BY <1>1, <1>3, <1>6, <2>1, <2>2, <2>3, EmptyFits, NextParts DEF Written
    <2>7. Excused(encoding)'
      BY <1>1, <2>1, NextParts DEF EncoderInv
    <2> QED
      BY <2>4, <2>5, <2>6, <2>7 DEF EncoderInv
  <1> QED
    BY <1>4, <1>5, <1>6

-----------------------------------------------------------------------------
(* The rows are written.                                                    *)

(* No property is without a column, and no column refuses its value.        *)
LEMMA RowsDoNotFail ==
  ASSUME input \in Inputs, KindsFit(count, kinds), RowsReady, NEW i \in 1..count
  PROVE  ~RowFails(input.features[i])
  <1> DEFINE f == input.features[i]
  <1>1. i \in 1..Len(input.features)
    BY DEF RowsReady
  <1>2. IsFeature(f)
    BY <1>1, FeaturesAre
  <1>3. DOMAIN PropertyColumns = DOMAIN kinds
    BY ColumnsAre DEF KindsFit
  <1>4. ASSUME NEW p \in Valued(f)
        PROVE  /\ p \in DOMAIN file.tool.columns /\ file.tool.columns[p] \in file.schema
               /\ Storable(f.properties[p], kinds[p])
    <2>1. p \in DOMAIN kinds /\ kinds[p] \in {Kind(f.properties[p]), "json"}
      BY <1>4 DEF KindsFit
    <2>2. f.properties[p].form \in {"bool", "number", "string", "json", "geometry"}
      BY <1>2, <1>4, ValuedIs
    <2>3. Storable(f.properties[p], kinds[p])
      BY <2>1, <2>2, StorableAs
    <2>4. file.tool.columns = PropertyColumns /\ file.schema = Schema(PropertyColumns, Dimension)
      BY DEF RowsReady
    <2>5. PropertyColumns[p] \in Schema(PropertyColumns, Dimension)
      BY <1>3, <2>1 DEF Schema
    <2> QED
      BY <1>3, <2>1, <2>3, <2>4, <2>5
  <1> HIDE DEF f
  <1>5. ~RowFails(f)
    BY <1>4 DEF RowFails, Valued
  <1> QED
    BY <1>5 DEF f

(* The two-pass encoder writes a row.                                       *)
LEMMA WriteRowKeeps ==
  ASSUME EncoderInv, FileType, WriteRow
  PROVE  EncoderInv'
  <1> DEFINE n == Len(file.rows)
             f == input.features[n + 1]
             row == Row(f, file.tool.columns, file.dimension)
  <1>1. /\ pc = "rows" /\ n < count
        /\ input' = input /\ count' = count /\ kinds' = kinds /\ stats' = stats
    BY DEF WriteRow
  <1>2. /\ input \in Inputs /\ Taken(count) /\ KindsFit(count, kinds) /\ RowsReady
        /\ encoding = "" /\ ~SecondaryRefused /\ GeoFits(file.geo) /\ RowsFit(file.rows)
    BY <1>1 DEF EncoderInv, Settled, Known, Written, RowsReady
  <1>3. n + 1 \in 1..count
    <2>1. n \in Nat
      BY AppendGrows DEF FileType
    <2>2. count \in Nat
      BY <1>2 DEF Taken
    <2>3. \A a, b \in Nat : a < b => a + 1 \in 1..b
      OBVIOUS
    <2> HIDE DEF n
    <2> QED
      BY <1>1, <2>1, <2>2, <2>3
  <1>4. IsFeature(f) /\ ~RowFails(f)
    <2>1. n + 1 \in 1..Len(input.features)
      BY <1>2, <1>3 DEF RowsReady
    <2> QED
      BY <1>2, <1>3, <2>1, FeaturesAre, RowsDoNotFail
  <1>5. \/ pc' = "close" /\ encoding' = "write failed" /\ file' = file
        \/ AddRow(row) /\ pc' = pc /\ encoding' = encoding
    BY <1>4, Zenon DEF WriteRow, CloseAfter
  <1>6. CASE pc' = "close" /\ encoding' = "write failed" /\ file' = file
    BY <1>1, <1>2, <1>6, LaterKeeps, OthersExcused
  <1>7. CASE AddRow(row) /\ pc' = pc /\ encoding' = encoding
    <2>1. /\ file'.rows = Append(file.rows, row) /\ file'.geo = file.geo
          /\ file'.tool = file.tool /\ file'.schema = file.schema
      BY <1>7, AddRowLeaves
    <2>2. Held(row, Covering) => row[Covering] = Bounds(f.geometry)
      <3>1. f.members \subseteq Members /\ Covering \notin Secondary
        BY <1>2, <1>4 DEF IsFeature, SecondaryRefused, Reserved
      <3>2. ASSUME NEW p \in DOMAIN Plain(f) \ NullProperties(f)
            PROVE  p \in DOMAIN file.tool.columns /\ file.tool.columns[p] \notin Reserved
        <4>1. p \in DOMAIN kinds
          BY <1>2, <1>3, <3>2 DEF KindsFit, Valued
        <4>2. DOMAIN kinds \subseteq Elements(Names)
          BY <1>2 DEF KindsFit
        <4>3. file.tool.columns = PropertyColumns
          BY <1>2 DEF RowsReady
        <4> QED
          BY <1>2, <4>1, <4>2, <4>3, ColumnsAre
      <3> HIDE DEF f
      <3> QED
        BY <3>1, <3>2, RowBox, SMTT(30)
    <2>3. RowsFit(file'.rows)
      <3>1. IsSeq(file.rows)
        BY DEF FileType
      <3> HIDE DEF row
      <3> QED
        BY <1>2, <2>1, <2>2, <3>1, RowsMore
    <2>4. RowsReady'
      BY <1>1, <1>2, <2>1, ReadySame DEF RowsReady
    <2>5. Settled'
      BY <1>1, <1>2, <1>7, SecondarySame DEF EncoderInv, Settled
    <2>6. Known'
      BY <1>1, <1>2, <1>7, NextParts DEF Known
    <2>7. Written'
      BY <1>1, <1>2, <1>7, <2>1, <2>3, <2>4, NextParts DEF Written
    <2>8. Excused(encoding)'
      BY <1>1, <1>7, NextParts DEF EncoderInv
    <2> QED
      BY <2>5, <2>6, <2>7, <2>8 DEF EncoderInv
  <1> QED
    BY <1>5, <1>6, <1>7

-----------------------------------------------------------------------------
(* The encoder succeeds.                                                    *)

(* With every feature taken and uniform types, it may.                      *)
LEMMA OkExcused ==
  ASSUME input \in Inputs, Taken(count), ~SecondaryRefused, count = Len(input.features),
         input.native => ~NativeRefused
  PROVE  Excused("ok")
  <1>1. ASSUME NEW f \in Elements(input.features)  PROVE Representable(f)
    <2>1. PICK i \in 1..Len(input.features) : f = input.features[i]
      BY FeaturesAre
    <2> QED
      BY <2>1, FeaturesAre, RefusedIs DEF Taken
  <1>2. input.native => UniformTypes
    BY NativeIs
  <1> QED
    BY <1>1, <1>2 DEF Excused

(* All rows are written.                                                    *)
LEMMA EndOfRowsKeeps ==
  ASSUME EncoderInv, EndOfRows
  PROVE  EncoderInv'
  <1>1. /\ pc = "rows" /\ pc' = "close" /\ encoding' = "ok" /\ file' = file
        /\ input' = input /\ count' = count /\ kinds' = kinds /\ stats' = stats
    BY DEF EndOfRows, CloseAfter
  <1>2. /\ input \in Inputs /\ Taken(count) /\ RowsReady
        /\ ~SecondaryRefused /\ GeoFits(file.geo) /\ RowsFit(file.rows)
    BY <1>1 DEF EncoderInv, Settled, Known, Written
  <1>3. Excused("ok")
    BY <1>2, OkExcused DEF RowsReady
  <1> QED
    BY <1>1, <1>2, <1>3, LaterKeeps

(* A stream is described by what was gathered.                              *)
LEMMA DescribeStreamKeeps ==
  ASSUME EncoderInv, FileType, DescribeStream
  PROVE  EncoderInv'
  <1>1. /\ pc = "read" /\ pc' = "close" /\ input.streaming /\ count = Len(input.features)
        /\ input' = input /\ count' = count /\ kinds' = kinds /\ stats' = stats
    BY DEF DescribeStream, CloseAfter
  <1>2. /\ input \in Inputs /\ Taken(count) /\ StatsFit(count, stats)
        /\ ~SecondaryRefused /\ ~input.native /\ GeoFits(file.geo) /\ RowsFit(file.rows)
    BY <1>1 DEF EncoderInv, Settled, Known, Written
  <1>3. /\ Marshals(StreamingMetadata) => GeoFits(StreamingMetadata)
        /\ ~Marshals(StreamingMetadata) => \E column \in Secondary : Unbounded(column)
    <2>1. DOMAIN StreamingMetadata = Columns
      BY <1>2 DEF StreamingMetadata, StatsFit
    <2>2. ASSUME NEW c \in Columns
          PROVE  /\ StreamingMetadata[c].types = TypesOf(InRead(c, count))
                 /\ IsBoxIfAny(StreamingMetadata[c].bbox, InRead(c, count))
      <3>1. StreamingMetadata[c] = Described(stats[c], "WKB")
        BY <1>2 DEF StreamingMetadata, StatsFit
      <3>2. Gathered(stats[c], InRead(c, count))
        BY <1>2 DEF StatsFit
      <3> QED
        BY <3>1, <3>2, DescribedFields DEF Gathered
    <2> QED
      BY <1>1, <1>2, <2>1, <2>2, MarshalsIf
  <1>4. CASE Marshals(StreamingMetadata)
    <2>1. encoding' = "ok" /\ file' = [file EXCEPT !.geo = StreamingMetadata]
      BY <1>4, Zenon DEF DescribeStream, CloseAfter
    <2>2. file'.geo = StreamingMetadata /\ file'.rows = file.rows
      BY <2>1 DEF FileType, Fields
    <2>3. Excused("ok")
      BY <1>1, <1>2, OkExcused
    <2> QED
      BY <1>1, <1>2, <1>3, <1>4, <2>1, <2>2, <2>3, LaterKeeps
  <1>5. CASE ~Marshals(StreamingMetadata)
    <2>1. encoding' = "bad metadata" /\ file' = file
      BY <1>5, Zenon DEF DescribeStream, CloseAfter
    <2>2. Excused(encoding')
      BY <1>3, <1>5, <2>1 DEF Excused
    <2> QED
      BY <1>1, <1>2, <2>1, <2>2, LaterKeeps
  <1> QED
    BY <1>4, <1>5

-----------------------------------------------------------------------------
(* Every step keeps the invariant.                                          *)
LEMMA EncoderStep ==
  ASSUME EncoderInv, FileType, [Next]_vars
  PROVE  EncoderInv'
  <1>1. CASE Open \/ DecodeRow \/ DecodeFails \/ EndOfFile
    BY <1>1, DecoderStays
  <1>2. CASE ReadFails \/ CloseWriter
    BY <1>2, EndKeeps
  <1>3. CASE Start
    BY <1>3, StartKeeps
  <1>4. CASE Collect
    BY <1>4, CollectKeeps
  <1>5. CASE Stream
    BY <1>5, StreamKeeps
  <1>6. CASE Describe
    BY <1>6, DescribeKeeps
  <1>7. CASE WriteRow
    BY <1>7, WriteRowKeeps
  <1>8. CASE EndOfRows
    BY <1>8, EndOfRowsKeeps
  <1>9. CASE DescribeStream
    BY <1>9, DescribeStreamKeeps
  <1>10. CASE UNCHANGED vars
    <2>1. UNCHANGED <<input, pc, count, kinds, stats, file, encoding>>
      BY <1>10 DEF vars, encoderVars
    <2>2. Settled'
      BY <2>1, SecondarySame DEF EncoderInv, Settled
    <2>3. Known'
      BY <2>1, NextParts DEF EncoderInv, Known
    <2>4. RowsReady => RowsReady'
      BY <2>1, ReadySame DEF RowsReady
    <2>5. Written'
      BY <2>1, <2>4, NextParts DEF EncoderInv, Written
    <2>6. Excused(encoding)'
      BY <2>1, NextParts DEF EncoderInv
    <2> QED
      BY <2>2, <2>3, <2>5, <2>6 DEF EncoderInv
  <1> QED
    BY <1>1, <1>2, <1>3, <1>4, <1>5, <1>6, <1>7, <1>8, <1>9, <1>10 DEF Next, Returned

(* Whatever is read: an encoder fails by itself only on a feature that it   *)
(* cannot represent, on geometries that differ where lists are wanted, or   *)
(* on a column of empty geometries; no row that it makes is refused, and    *)
(* if it succeeds every feature can be represented                          *)
(* (encodeGeoParquetWithSettings and encodeStreamingGeoParquet).            *)
THEOREM RefusesOnlyCorrect == Spec => []RefusesOnly
  <1>1. ASSUME EncoderInv  PROVE RefusesOnly
    BY <1>1 DEF EncoderInv, Excused, RefusesOnly
  <1>2. ASSUME WholeInv  PROVE FileType
    BY <1>2 DEF WholeInv
  <1> QED
    BY <1>1, <1>2, WholeBegins, WholeStep, EncoderBegins, EncoderStep, PTL DEF Spec

(* The metadata of a file that was written without an error is that of all  *)
(* of its features, gathered at the end or row by row, and the box beside a *)
(* geometry is its own (buildGeoParquetMetadata, geoParquetGeometryStats    *)
(* and buildGeoParquetRow).                                                 *)
THEOREM MetadataAgreesCorrect == Spec => []MetadataAgrees
  <1>1. ASSUME EncoderInv, FileType  PROVE MetadataAgrees
    <2>1. GeoFits(file.geo) /\ RowsFit(file.rows)
      BY <1>1 DEF EncoderInv, Written
    <2>2. DOMAIN file.rows = 1..Len(file.rows)
      <3>1. PICK S : file.rows \in Seq(S)
        BY <1>1 DEF FileType, IsSeq
      <3> QED
        BY <3>1
    <2>3. ASSUME NEW c \in DOMAIN file.geo  PROVE ColumnRight(file.geo[c], AllIn(c))
      BY <2>1 DEF GeoFits
    <2> QED
      BY <2>1, <2>2, <2>3, Zenon DEF MetadataAgrees, ColumnRight, TypesOf, PlacesOf, RowsFit
  <1>2. ASSUME WholeInv  PROVE FileType
    BY <1>2 DEF WholeInv
  <1> QED
    BY <1>1, <1>2, WholeBegins, WholeStep, EncoderBegins, EncoderStep, PTL DEF Spec

-----------------------------------------------------------------------------
(* Lists.                                                                   *)

(* A list is a sequence.                                                    *)
LEMMA ListIs ==
  ASSUME NEW s, IsList(s)
  PROVE  s \in Seq(Elements(s)) /\ DOMAIN s = 1..Len(s) /\ Len(s) \in Nat
  <1>1. s = [i \in 1..Len(s) |-> s[i]] /\ Len(s) \in Nat
    BY DEF IsList
  <1>2. DOMAIN s = 1..Len(s)
    BY <1>1
  <1>3. \A i \in 1..Len(s) : s[i] \in Elements(s)
    BY <1>2 DEF Elements
  <1> DEFINE n == Len(s)
  <1>4. s \in [1..n -> Elements(s)] /\ n \in Nat
    BY <1>1, <1>3
  <1> HIDE DEF n
  <1>5. s \in Seq(Elements(s))
    BY <1>4
  <1> QED
    BY <1>1, <1>2, <1>5

(* A sequence is a list.                                                    *)
LEMMA SequenceIs ==
  ASSUME NEW S, NEW s \in Seq(S)
  PROVE  IsList(s)
  BY DEF IsList

(* Lists with the same elements are the same.                               *)
LEMMA ListsEqual ==
  ASSUME NEW s, NEW t, IsList(s), IsList(t), Len(s) = Len(t),
         \A i \in 1..Len(s) : s[i] = t[i]
  PROVE  s = t
  BY DEF IsList

(* A list that is made of a function.                                       *)
LEMMA MadeList ==
  ASSUME NEW n \in Nat, NEW f
  PROVE  LET s == [i \in 1..n |-> f[i]] IN
         IsList(s) /\ Len(s) = n /\ \A i \in 1..n : s[i] = f[i]
  <1> DEFINE s == [i \in 1..n |-> f[i]]
             S == {f[i] : i \in 1..n}
  <1>1. s \in [1..n -> S]
    OBVIOUS
  <1>2. \A i \in 1..n : s[i] = f[i]
    OBVIOUS
  <1> HIDE DEF s, S
  <1>3. s \in Seq(S) /\ Len(s) = n
    BY <1>1
  <1>4. IsList(s)
    BY <1>3, SequenceIs
  <1> QED
    BY <1>2, <1>3, <1>4 DEF s

(* Two lists, one after the other.                                          *)
LEMMA Joined ==
  ASSUME NEW s, NEW t, IsList(s), IsList(t)
  PROVE  /\ IsList(s \o t) /\ Len(s \o t) = Len(s) + Len(t)
         /\ \A i \in 1..Len(s) : (s \o t)[i] = s[i]
         /\ \A i \in 1..Len(t) : (s \o t)[Len(s) + i] = t[i]
         /\ s = <<>> => s \o t = t
         /\ t = <<>> => s \o t = s
  <1> DEFINE S == Elements(s) \union Elements(t)
  <1>1. s \in Seq(S) /\ t \in Seq(S)
    BY ListIs
  <1> HIDE DEF S
  <1>2. s \o t \in Seq(S) /\ Len(s \o t) = Len(s) + Len(t)
    BY <1>1
  <1>3. \A i \in 1..Len(s) : (s \o t)[i] = s[i]
    BY <1>1
  <1>4. \A i \in 1..Len(t) : (s \o t)[Len(s) + i] = t[i]
    BY <1>1
  <1>5. (s = <<>> => s \o t = t) /\ (t = <<>> => s \o t = s)
    BY <1>1
  <1> QED
    BY <1>2, <1>3, <1>4, <1>5, SequenceIs

(* A list and one element more.                                             *)
LEMMA Longer ==
  ASSUME NEW s, NEW e, IsList(s)
  PROVE  /\ IsList(Append(s, e)) /\ Len(Append(s, e)) = Len(s) + 1
         /\ \A i \in 1..Len(s) : Append(s, e)[i] = s[i]
         /\ Append(s, e)[Len(s) + 1] = e
  <1> DEFINE S == Elements(s) \union {e}
  <1>1. s \in Seq(S) /\ e \in S
    BY ListIs
  <1> HIDE DEF S
  <1>2. Append(s, e) \in Seq(S) /\ Len(Append(s, e)) = Len(s) + 1
    BY <1>1
  <1>3. /\ \A i \in 1..Len(s) : Append(s, e)[i] = s[i]
        /\ Append(s, e)[Len(s) + 1] = e
    BY <1>1
  <1> QED
    BY <1>2, <1>3, SequenceIs

(* The first elements of a list.                                            *)
Upto(s, n) == [i \in 1..n |-> s[i]]

(* They are a list, and one of them more is appended.                       *)
LEMMA UptoIs ==
  ASSUME NEW s, NEW n \in Nat
  PROVE  /\ IsList(Upto(s, n)) /\ Len(Upto(s, n)) = n
         /\ \A i \in 1..n : Upto(s, n)[i] = s[i]
         /\ Upto(s, n + 1) = Append(Upto(s, n), s[n + 1])
         /\ IsList(s) /\ n = Len(s) => Upto(s, n) = s
  <1>1. /\ \A m \in Nat : /\ IsList(Upto(s, m)) /\ Len(Upto(s, m)) = m
                          /\ \A i \in 1..m : Upto(s, m)[i] = s[i]
    BY MadeList DEF Upto
  <1> DEFINE a == Upto(s, n)
             b == Upto(s, n + 1)
             c == Append(a, s[n + 1])
  <1>2. IsList(b) /\ Len(b) = n + 1 /\ \A i \in 1..n + 1 : b[i] = s[i]
    BY <1>1
  <1>3. IsList(a) /\ Len(a) = n /\ \A i \in 1..n : a[i] = s[i]
    BY <1>1
  <1>4. IsList(c) /\ Len(c) = n + 1 /\ (\A i \in 1..n : c[i] = a[i]) /\ c[n + 1] = s[n + 1]
    BY <1>3, Longer
  <1>5. \A i \in 1..n + 1 : i \in 1..n \/ i = n + 1
    OBVIOUS
  <1>6. b = c
    <2> HIDE DEF a, b, c
    <2>1. \A i \in 1..n + 1 : b[i] = c[i]
      BY <1>2, <1>3, <1>4, <1>5
    <2> QED
      BY <1>2, <1>4, <2>1, ListsEqual
  <1>7. IsList(s) /\ n = Len(s) => a = s
    BY DEF IsList, Upto
  <1> QED
    BY <1>3, <1>6, <1>7

-----------------------------------------------------------------------------
(* A list of lists, made one.                                               *)

(* The function that FlattenSeq defines.                                    *)
IsFlat(f, C, n) == f = [i \in 1..n |-> IF i = 1 THEN C[i] ELSE f[i - 1] \o C[i]]

(* There is one.                                                            *)
LEMMA FlatExists ==
  ASSUME NEW C, NEW n \in Nat
  PROVE  \E f : IsFlat(f, C, n)
  <1> DEFINE D == {k \in 0..n : \E f : IsFlat(f, C, k)}
             G(b, i) == IF i = 1 THEN C[i] ELSE b \o C[i]
  <1>1. 0 \in D
    <2> DEFINE f == [i \in 1..0 |-> 0]
    <2>1. 1..0 = {}
      OBVIOUS
    <2>2. f = [i \in 1..0 |-> G(f[i - 1], i)]
      BY <2>1
    <2> HIDE DEF f
    <2>3. IsFlat(f, C, 0)
      BY <2>2 DEF IsFlat
    <2> QED
      BY <2>3
  <1>2. ASSUME NEW k \in 0..n - 1, k \in D  PROVE k + 1 \in D
    <2>1. PICK f : IsFlat(f, C, k)
      BY <1>2
    <2>2. \A i \in 1..k : f[i] = G(f[i - 1], i)
      BY <2>1 DEF IsFlat
    <2>0. \A b, c : G(b, 1) = G(c, 1)
      OBVIOUS
    <2> HIDE DEF G
    <2> DEFINE g == [i \in 1..k + 1 |-> G(f[i - 1], i)]
    <2>3. k \in Nat /\ \A i \in 1..k + 1 : i # 1 => i - 1 \in 1..k /\ i - 1 \in 1..k + 1
      OBVIOUS
    <2>4. \A i \in 1..k : i \in 1..k + 1 /\ g[i] = f[i]
      BY <2>2, <2>3
    <2>5. \A i \in 1..k + 1 : G(f[i - 1], i) = G(g[i - 1], i)
      <3> HIDE DEF g
      <3> QED
        BY <2>0, <2>3, <2>4
    <2>6. g = [i \in 1..k + 1 |-> G(g[i - 1], i)]
      BY <2>5
    <2> HIDE DEF g
    <2>7. IsFlat(g, C, k + 1)
      BY <2>6 DEF IsFlat, G
    <2>8. k + 1 \in 0..n
      OBVIOUS
    <2> QED
      BY <2>7, <2>8
  <1> HIDE DEF D
  <1>3. n \in D
    BY <1>1, <1>2, UpTo
  <1> QED
    BY <1>3 DEF D

(* What FlattenSeq makes of the first of them.                              *)
Flat(C, p) == (CHOOSE f : IsFlat(f, C, Len(C)))[p]

(* It is as if all were written one after the other.                        *)
LEMMA FlatIs ==
  ASSUME NEW C, IsList(C), C # <<>>
  PROVE  /\ FlattenSeq(C) = Flat(C, Len(C)) /\ Len(C) \in Nat \ {0}
         /\ Flat(C, 1) = C[1]
         /\ \A p \in 1..Len(C) - 1 : Flat(C, p + 1) = Flat(C, p) \o C[p + 1]
  <1>1. Len(C) \in Nat \ {0}
    BY ListIs
  <1> DEFINE f == CHOOSE f : IsFlat(f, C, Len(C))
  <1>2. IsFlat(f, C, Len(C))
    BY <1>1, FlatExists
  <1>3. FlattenSeq(C) = f[Len(C)]
    BY <1>1 DEF FlattenSeq, IsFlat
  <1> HIDE DEF f
  <1>4. f[1] = C[1]
    BY <1>1, <1>2 DEF IsFlat
  <1>5. ASSUME NEW p \in 1..Len(C) - 1  PROVE f[p + 1] = f[p] \o C[p + 1]
    <2>1. p + 1 \in 1..Len(C) /\ p + 1 # 1 /\ (p + 1) - 1 = p
      BY <1>1
    <2> QED
      BY <1>2, <2>1 DEF IsFlat
  <1> QED
    BY <1>1, <1>3, <1>4, <1>5 DEF Flat, f

-----------------------------------------------------------------------------
(* A list, split where levels begin anew.                                   *)

(* A cell more begins a part, or goes on with the last one.                 *)
Extended(parts, cell, level) ==
    IF cell.repetition <= level THEN Append(parts, <<cell>>)
    ELSE [parts EXCEPT ![Len(parts)] = Append(@, cell)]

(* The function that Split defines.                                         *)
IsSplit(f, cells, level, n) ==
    f = [m \in 1..n |-> IF m = 1 THEN <<<<cells[1]>>>> ELSE Extended(f[m - 1], cells[m], level)]

(* There is one.                                                            *)
LEMMA SplitExists ==
  ASSUME NEW cells, NEW level, NEW n \in Nat
  PROVE  \E f : IsSplit(f, cells, level, n)
  <1> DEFINE D == {k \in 0..n : \E f : IsSplit(f, cells, level, k)}
             G(b, m) == IF m = 1 THEN <<<<cells[1]>>>> ELSE Extended(b, cells[m], level)
  <1>1. 0 \in D
    <2> DEFINE f == [m \in 1..0 |-> 0]
    <2>1. 1..0 = {}
      OBVIOUS
    <2>2. f = [m \in 1..0 |-> G(f[m - 1], m)]
      BY <2>1
    <2> HIDE DEF f
    <2>3. IsSplit(f, cells, level, 0)
      BY <2>2 DEF IsSplit
    <2> QED
      BY <2>3
  <1>2. ASSUME NEW k \in 0..n - 1, k \in D  PROVE k + 1 \in D
    <2>1. PICK f : IsSplit(f, cells, level, k)
      BY <1>2
    <2>2. \A m \in 1..k : f[m] = G(f[m - 1], m)
      BY <2>1 DEF IsSplit
    <2>0. \A b, c : G(b, 1) = G(c, 1)
      OBVIOUS
    <2> HIDE DEF G
    <2> DEFINE g == [m \in 1..k + 1 |-> G(f[m - 1], m)]
    <2>3. k \in Nat /\ \A m \in 1..k + 1 : m # 1 => m - 1 \in 1..k /\ m - 1 \in 1..k + 1
      OBVIOUS
    <2>4. \A m \in 1..k : m \in 1..k + 1 /\ g[m] = f[m]
      BY <2>2, <2>3
    <2>5. \A m \in 1..k + 1 : G(f[m - 1], m) = G(g[m - 1], m)
      <3> HIDE DEF g
      <3> QED
        BY <2>0, <2>3, <2>4
    <2>6. g = [m \in 1..k + 1 |-> G(g[m - 1], m)]
      BY <2>5
    <2> HIDE DEF g
    <2>7. IsSplit(g, cells, level, k + 1)
      BY <2>6 DEF IsSplit, G
    <2>8. k + 1 \in 0..n
      OBVIOUS
    <2> QED
      BY <2>7, <2>8
  <1> HIDE DEF D
  <1>3. n \in D
    BY <1>1, <1>2, UpTo
  <1> QED
    BY <1>3 DEF D

(* What Split is.                                                           *)
LEMMA SplitIs ==
  ASSUME NEW s, NEW level, Len(s) \in Nat
  PROVE  \E f : IsSplit(f, s, level, Len(s)) /\ Split(s, level) = f[Len(s)]
  <1> DEFINE f == CHOOSE f : IsSplit(f, s, level, Len(s))
  <1>1. IsSplit(f, s, level, Len(s))
    BY SplitExists
  <1>2. Split(s, level) = f[Len(s)]
    BY DEF Split, IsSplit, Extended
  <1> QED
    BY <1>1, <1>2

(* One cell is one part,                                                    *)
LEMMA SplitOne ==
  ASSUME NEW e, NEW level
  PROVE  Split(<<e>>, level) = <<<<e>>>>
  <1>1. Len(<<e>>) = 1 /\ 1 \in Nat /\ 1 \in 1..1 /\ <<e>>[1] = e
    OBVIOUS
  <1>2. PICK f : IsSplit(f, <<e>>, level, 1) /\ Split(<<e>>, level) = f[1]
    BY <1>1, SplitIs
  <1> QED
    BY <1>1, <1>2 DEF IsSplit

(* and a cell more extends the parts.                                       *)
LEMMA SplitMore ==
  ASSUME NEW s, NEW e, NEW level, IsList(s), s # <<>>
  PROVE  Split(Append(s, e), level) = Extended(Split(s, level), e, level)
  <1> DEFINE n == Len(s)
             t == Append(s, e)
  <1>1. n \in Nat /\ n # 0
    BY ListIs
  <1>2. IsList(t) /\ Len(t) = n + 1 /\ (\A i \in 1..n : t[i] = s[i]) /\ t[n + 1] = e
    BY Longer
  <1>3. PICK f : IsSplit(f, s, level, n) /\ Split(s, level) = f[n]
    BY <1>1, SplitIs
  <1> HIDE DEF n, t
  <1>4. Len(t) \in Nat
    BY <1>1, <1>2
  <1>5. PICK g : IsSplit(g, t, level, n + 1) /\ Split(t, level) = g[n + 1]
    BY <1>2, <1>4, SplitIs
  <1> DEFINE G(b, u, m) == IF m = 1 THEN <<<<u[1]>>>> ELSE Extended(b, u[m], level)
             D == {k \in 0..n - 1 : f[k + 1] = g[k + 1]}
  <1>6. /\ \A m \in 1..n : f[m] = G(f[m - 1], s, m)
        /\ \A m \in 1..n + 1 : g[m] = G(g[m - 1], t, m)
    BY <1>3, <1>5 DEF IsSplit
  <1>7. 0 \in D
    <2>1. 1 \in 1..n /\ 1 \in 1..n + 1 /\ 0 \in 0..n - 1 /\ 0 + 1 = 1
      BY <1>1
    <2> QED
      BY <1>2, <1>6, <2>1
  <1>8. ASSUME NEW k \in 0..n - 2, k \in D  PROVE k + 1 \in D
    <2>1. k + 2 \in 1..n /\ k + 2 \in 1..n + 1 /\ k + 2 # 1 /\ (k + 2) - 1 = k + 1
          /\ k + 1 \in 0..n - 1 /\ (k + 1) + 1 = k + 2
      BY <1>1
    <2>2. f[k + 2] = Extended(f[k + 1], s[k + 2], level)
      BY <1>6, <2>1
    <2>3. g[k + 2] = Extended(g[k + 1], t[k + 2], level)
      BY <1>6, <2>1
    <2>4. f[k + 1] = g[k + 1] /\ t[k + 2] = s[k + 2]
      BY <1>2, <1>8, <2>1
    <2>5. f[k + 2] = g[k + 2]
      BY <2>2, <2>3, <2>4
    <2> QED
      BY <2>1, <2>5
  <1>9. n - 1 \in D
    <2> DEFINE m == n - 1
    <2>1. m \in Nat /\ m - 1 = n - 2 /\ m \in 0..m
      BY <1>1
    <2>2. \A k \in 0..m - 1 : k \in D => k + 1 \in D
      BY <1>8, <2>1
    <2> HIDE DEF D, m
    <2>3. \A k \in 0..m : k \in D
      BY <1>7, <2>1, <2>2, UpTo
    <2> QED
      BY <2>1, <2>3 DEF m
  <1>10. f[n] = g[n]
    <2>1. (n - 1) + 1 = n
      BY <1>1
    <2> QED
      BY <1>9, <2>1
  <1>11. g[n + 1] = Extended(g[n], t[n + 1], level)
    <2>1. n + 1 \in 1..n + 1 /\ n + 1 # 1 /\ (n + 1) - 1 = n
      BY <1>1
    <2> QED
      BY <1>6, <2>1
  <1> QED
    BY <1>2, <1>3, <1>5, <1>10, <1>11 DEF t

(* The empty list.                                                          *)
LEMMA EmptyList ==
  IsList(<<>>) /\ \A e : Append(<<>>, e) = <<e>>
  <1>1. <<>> \in Seq({})
    OBVIOUS
  <1>2. IsList(<<>>)
    BY <1>1, SequenceIs
  <1>3. ASSUME NEW e  PROVE Append(<<>>, e) = <<e>>
    <2> DEFINE S == {e}
    <2>1. <<>> \in Seq(S) /\ e \in S /\ <<e>> \in Seq(S) /\ Len(<<e>>) = 1 /\ <<e>>[1] = e
      OBVIOUS
    <2>2. IsList(<<e>>)
      BY <2>1, SequenceIs
    <2>3. /\ IsList(Append(<<>>, e)) /\ Len(Append(<<>>, e)) = 0 + 1
          /\ Append(<<>>, e)[0 + 1] = e
      <3>1. Len(<<>>) = 0
        OBVIOUS
      <3> QED
        BY <1>2, <3>1, Longer
    <2>4. 0 + 1 = 1 /\ \A i \in 1..1 : i = 1
      OBVIOUS
    <2> QED
      BY <2>1, <2>2, <2>3, <2>4, ListsEqual
  <1> QED
    BY <1>2, <1>3

(* A part goes on at the end.                                               *)
LEMMA ExtendsLast ==
  ASSUME NEW parts, IsList(parts), NEW part, NEW e, NEW level, ~(e.repetition <= level)
  PROVE  Extended(Append(parts, part), e, level) = Append(parts, Append(part, e))
  <1> DEFINE n == Len(parts)
             s == Append(parts, part)
             t == Append(parts, Append(part, e))
             u == [s EXCEPT ![n + 1] = Append(part, e)]
  <1>1. n \in Nat
    BY ListIs
  <1>2. IsList(s) /\ Len(s) = n + 1 /\ (\A i \in 1..n : s[i] = parts[i]) /\ s[n + 1] = part
    BY Longer
  <1>3. /\ IsList(t) /\ Len(t) = n + 1 /\ (\A i \in 1..n : t[i] = parts[i])
        /\ t[n + 1] = Append(part, e)
    BY Longer
  <1> HIDE DEF n, s, t
  <1>4. Extended(s, e, level) = u
    <2>1. Extended(s, e, level) = [s EXCEPT ![Len(s)] = Append(s[Len(s)], e)]
      BY DEF Extended
    <2> QED
      BY <1>2, <2>1
  <1>5. s = [i \in 1..n + 1 |-> s[i]] /\ t = [i \in 1..n + 1 |-> t[i]]
    BY <1>2, <1>3 DEF IsList
  <1>6. u = [i \in 1..n + 1 |-> IF i = n + 1 THEN Append(part, e) ELSE s[i]]
    BY <1>5
  <1>7. \A i \in 1..n + 1 : (IF i = n + 1 THEN Append(part, e) ELSE s[i]) = t[i]
    <2>1. \A i \in 1..n + 1 : i \in 1..n \/ i = n + 1
      BY <1>1
    <2>2. \A i \in 1..n : i # n + 1
      BY <1>1
    <2> QED
      BY <1>2, <1>3, <2>1, <2>2
  <1>8. u = t
    BY <1>5, <1>6, <1>7
  <1> QED
    BY <1>4, <1>8 DEF s, t

-----------------------------------------------------------------------------
(* Parts that are written one after the other are found again.              *)

(* A part: a level that begins anew is at its start, if anywhere.           *)
IsPart(c, level) ==
    IsList(c) /\ c # <<>> /\ \A k \in 2..Len(c) : ~(c[k].repetition <= level)

(* The first part.                                                          *)
LEMMA SplitFirst ==
  ASSUME NEW c, NEW level, IsPart(c, level)
  PROVE  Split(c, level) = <<c>>
  <1> DEFINE m == Len(c) - 1
             D == {k \in 0..m : Split(Upto(c, k + 1), level) = <<Upto(c, k + 1)>>}
  <1>1. IsList(c) /\ Len(c) \in Nat /\ Len(c) # 0 /\ m \in Nat /\ m + 1 = Len(c)
    <2>1. IsList(c) /\ Len(c) \in Nat /\ Len(c) # 0
      BY ListIs DEF IsPart
    <2> QED
      BY <2>1
  <1> HIDE DEF m
  <1>2. 0 \in D
    <2>1. Upto(c, 1) = <<c[1]>>
      BY DEF Upto
    <2>2. 0 \in 0..m /\ 0 + 1 = 1
      BY <1>1
    <2> QED
      BY <2>1, <2>2, SplitOne
  <1>3. ASSUME NEW k \in 0..m - 1, k \in D  PROVE k + 1 \in D
    <2> DEFINE n == k + 1
               s == Upto(c, n)
               e == c[n + 1]
    <2>1. n \in Nat /\ n # 0 /\ n \in 0..m /\ n + 1 \in 2..Len(c)
      BY <1>1
    <2>2. Split(s, level) = <<s>>
      BY <1>3
    <2>3. IsList(s) /\ Len(s) = n
      BY <2>1, UptoIs
    <2>4. s # <<>>
      BY <2>1, <2>3
    <2>5. Upto(c, n + 1) = Append(s, e)
      BY <2>1, UptoIs
    <2> HIDE DEF s
    <2>6. ~(e.repetition <= level)
      BY <2>1 DEF IsPart
    <2> HIDE DEF e, n
    <2>7. Split(Append(s, e), level) = Extended(<<s>>, e, level)
      BY <2>2, <2>3, <2>4, SplitMore
    <2>8. Extended(<<s>>, e, level) = <<Append(s, e)>>
      <3>1. IsList(<<>>) /\ Append(<<>>, s) = <<s>> /\ Append(<<>>, Append(s, e)) = <<Append(s, e)>>
        BY EmptyList
      <3>2. \A p : IsList(p) => Extended(Append(p, s), e, level) = Append(p, Append(s, e))
        BY <2>6, ExtendsLast
      <3> QED
        BY <3>1, <3>2, Zenon
    <2> QED
      BY <2>1, <2>5, <2>7, <2>8 DEF n
  <1>4. m \in D
    <2>1. m \in 0..m
      BY <1>1
    <2> HIDE DEF D
    <2> QED
      BY <1>1, <1>2, <1>3, <2>1, UpTo
  <1>5. Upto(c, Len(c)) = c
    BY <1>1, UptoIs
  <1> QED
    BY <1>1, <1>4, <1>5

(* One part more.                                                           *)
LEMMA SplitPart ==
  ASSUME NEW s, NEW c, NEW level, IsList(s), s # <<>>, IsPart(c, level),
         c[1].repetition <= level, IsList(Split(s, level))
  PROVE  Split(s \o c, level) = Append(Split(s, level), c)
  <1> DEFINE S == Split(s, level)
             m == Len(c) - 1
             D == {k \in 0..m : Split(s \o Upto(c, k + 1), level) = Append(S, Upto(c, k + 1))}
  <1>1. IsList(c) /\ Len(c) \in Nat /\ Len(c) # 0 /\ m \in Nat /\ m + 1 = Len(c)
    <2>1. IsList(c) /\ Len(c) \in Nat /\ Len(c) # 0
      BY ListIs DEF IsPart
    <2> QED
      BY <2>1
  <1>0. \A t, e : IsList(t) => s \o Append(t, e) = Append(s \o t, e) /\ IsList(s \o t) /\ s \o t # <<>>
    <2> SUFFICES ASSUME NEW t, NEW e, IsList(t)
                 PROVE  s \o Append(t, e) = Append(s \o t, e) /\ IsList(s \o t) /\ s \o t # <<>>
      OBVIOUS
    <2> DEFINE T == Elements(s) \union Elements(t) \union {e}
    <2>1. s \in Seq(T) /\ t \in Seq(T) /\ e \in T
      BY ListIs
    <2> HIDE DEF T
    <2>2. s \o t \in Seq(T) /\ Len(s \o t) = Len(s) + Len(t) /\ Len(s) \in Nat /\ Len(t) \in Nat
      BY <2>1
    <2>3. Len(s) # 0
      BY <2>1
    <2>4. s \o t # <<>>
      BY <2>2, <2>3
    <2> DEFINE a == s \o Append(t, e)
               b == Append(s \o t, e)
               n == Len(s) + Len(t)
    <2>5. Append(t, e) \in Seq(T) /\ Len(Append(t, e)) = Len(t) + 1
      BY <2>1
    <2>6. a \in Seq(T) /\ b \in Seq(T) /\ Len(a) = n + 1 /\ Len(b) = n + 1
      BY <2>1, <2>2, <2>5
    <2>7. ASSUME NEW i \in 1..n + 1  PROVE a[i] = b[i]
      BY <2>1, <2>2, <2>5
    <2> HIDE DEF a, b, n
    <2>8. a = b
      BY <2>6, <2>7, SequenceIs, ListsEqual
    <2> QED
      BY <2>2, <2>4, <2>8, SequenceIs DEF a, b
  <1> HIDE DEF m, S
  <1>2. 0 \in D
    <2>1. Upto(c, 1) = <<c[1]>> /\ Append(<<>>, c[1]) = <<c[1]>> /\ IsList(<<>>) /\ s \o <<>> = s
      <3>1. IsList(<<>>) /\ Append(<<>>, c[1]) = <<c[1]>>
        BY EmptyList
      <3>2. s \o <<>> = s
        BY <3>1, Joined
      <3>3. Upto(c, 1) = <<c[1]>>
        BY DEF Upto
      <3> QED
        BY <3>1, <3>2, <3>3
    <2>2. 0 \in 0..m /\ 0 + 1 = 1
      BY <1>1
    <2>3. s \o <<c[1]>> = Append(s, c[1])
      BY <1>0, <2>1
    <2>4. Split(Append(s, c[1]), level) = Append(S, <<c[1]>>)
      BY SplitMore DEF Extended, S
    <2> QED
      BY <2>1, <2>2, <2>3, <2>4
  <1>3. ASSUME NEW k \in 0..m - 1, k \in D  PROVE k + 1 \in D
    <2> DEFINE n == k + 1
               u == Upto(c, n)
               e == c[n + 1]
    <2>1. n \in Nat /\ n # 0 /\ n \in 0..m /\ n + 1 \in 2..Len(c)
      BY <1>1
    <2>2. Split(s \o u, level) = Append(S, u)
      BY <1>3
    <2>3. IsList(u) /\ Len(u) = n
      BY <2>1, UptoIs
    <2>5. Upto(c, n + 1) = Append(u, e)
      BY <2>1, UptoIs
    <2> HIDE DEF u
    <2>6. ~(e.repetition <= level)
      BY <2>1 DEF IsPart
    <2> HIDE DEF e, n
    <2>7. Split(s \o Append(u, e), level) = Extended(Append(S, u), e, level)
      <3>1. /\ IsList(s \o u) /\ s \o u # <<>>
            /\ s \o Append(u, e) = Append(s \o u, e)
        BY <1>0, <2>3
      <3> DEFINE v == s \o u
      <3>2. IsList(v) /\ v # <<>> /\ Split(v, level) = Append(S, u)
        BY <2>2, <3>1
      <3> HIDE DEF v
      <3>3. Split(Append(v, e), level) = Extended(Append(S, u), e, level)
        BY <3>2, SplitMore
      <3> QED
        BY <3>1, <3>3 DEF v
    <2>8. Extended(Append(S, u), e, level) = Append(S, Append(u, e))
      BY <2>6, ExtendsLast DEF S
    <2> QED
      BY <2>1, <2>5, <2>7, <2>8 DEF n
  <1>4. m \in D
    <2>1. m \in 0..m
      BY <1>1
    <2> HIDE DEF D
    <2> QED
      BY <1>1, <1>2, <1>3, <2>1, UpTo
  <1>5. Upto(c, Len(c)) = c
    BY <1>1, UptoIs
  <1> QED
    BY <1>1, <1>4, <1>5 DEF S

(* All of them.                                                             *)
LEMMA SplitFlat ==
  ASSUME NEW C, NEW level, IsList(C), C # <<>>, \A p \in 1..Len(C) : IsPart(C[p], level),
         \A p \in 2..Len(C) : C[p][1].repetition <= level
  PROVE  Split(FlattenSeq(C), level) = C
  <1> DEFINE m == Len(C) - 1
             D == {k \in 0..m : /\ IsList(Flat(C, k + 1)) /\ Flat(C, k + 1) # <<>>
                                /\ Split(Flat(C, k + 1), level) = Upto(C, k + 1)}
  <1>1. Len(C) \in Nat /\ Len(C) # 0 /\ m \in Nat /\ m + 1 = Len(C)
    <2>1. Len(C) \in Nat /\ Len(C) # 0
      BY ListIs
    <2> QED
      BY <2>1
  <1>2. /\ FlattenSeq(C) = Flat(C, Len(C)) /\ Flat(C, 1) = C[1]
        /\ \A p \in 1..Len(C) - 1 : Flat(C, p + 1) = Flat(C, p) \o C[p + 1]
    BY FlatIs
  <1> HIDE DEF m
  <1>3. 0 \in D
    <2>1. 1 \in 1..Len(C) /\ 0 \in 0..m /\ 0 + 1 = 1
      BY <1>1
    <2>2. Upto(C, 1) = <<C[1]>>
      BY DEF Upto
    <2>3. IsPart(C[1], level)
      BY <2>1
    <2> QED
      BY <1>2, <2>1, <2>2, <2>3, SplitFirst DEF IsPart
  <1>4. ASSUME NEW k \in 0..m - 1, k \in D  PROVE k + 1 \in D
    <2> DEFINE n == k + 1
               s == Flat(C, n)
               c == C[n + 1]
    <2>1. n \in Nat /\ n # 0 /\ n \in 0..m /\ n + 1 \in 2..Len(C) /\ n + 1 \in 1..Len(C)
          /\ n \in 1..Len(C) - 1
      BY <1>1
    <2>2. IsList(s) /\ s # <<>> /\ Split(s, level) = Upto(C, n)
      BY <1>4
    <2>3. IsPart(c, level) /\ c[1].repetition <= level
      BY <2>1
    <2>4. Flat(C, n + 1) = s \o c
      BY <1>2, <2>1
    <2>5. IsList(Upto(C, n)) /\ Upto(C, n + 1) = Append(Upto(C, n), c)
      BY <2>1, UptoIs
    <2> HIDE DEF s, c, n
    <2>6. Split(s \o c, level) = Append(Upto(C, n), c)
      BY <2>2, <2>3, <2>5, SplitPart
    <2>7. IsList(s \o c) /\ s \o c # <<>>
      <3>1. IsList(s) /\ IsList(c) /\ Len(s) \in Nat /\ Len(c) \in Nat /\ Len(s) # 0
        BY <2>2, <2>3, ListIs DEF IsPart
      <3>2. IsList(s \o c) /\ Len(s \o c) = Len(s) + Len(c)
        BY <3>1, Joined
      <3>3. Len(s) + Len(c) # 0
        BY <3>1
      <3> QED
        BY <3>2, <3>3
    <2> QED
      BY <2>1, <2>4, <2>5, <2>6, <2>7 DEF n
  <1>5. m \in D
    <2>1. m \in 0..m
      BY <1>1
    <2> HIDE DEF D
    <2> QED
      BY <1>1, <1>3, <1>4, <2>1, UpTo
  <1>6. Upto(C, Len(C)) = C
    BY <1>1, UptoIs
  <1> QED
    BY <1>1, <1>2, <1>5, <1>6

-----------------------------------------------------------------------------
(* A geometry that is spelled out as lists is found again.                  *)

(* Parts one after the other are a part, if none begins a level anew.       *)
LEMMA FlatPart ==
  ASSUME NEW C, NEW level, IsList(C), C # <<>>, \A p \in 1..Len(C) : IsPart(C[p], level),
         \A p \in 2..Len(C) : ~(C[p][1].repetition <= level)
  PROVE  IsPart(FlattenSeq(C), level) /\ FlattenSeq(C)[1] = C[1][1]
  <1> DEFINE m == Len(C) - 1
             D == {k \in 0..m : IsPart(Flat(C, k + 1), level) /\ Flat(C, k + 1)[1] = C[1][1]}
  <1>1. Len(C) \in Nat /\ Len(C) # 0 /\ m \in Nat /\ m + 1 = Len(C)
    <2>1. Len(C) \in Nat /\ Len(C) # 0
      BY ListIs
    <2> QED
      BY <2>1
  <1>2. /\ FlattenSeq(C) = Flat(C, Len(C)) /\ Flat(C, 1) = C[1]
        /\ \A p \in 1..Len(C) - 1 : Flat(C, p + 1) = Flat(C, p) \o C[p + 1]
    BY FlatIs
  <1> HIDE DEF m
  <1>3. 0 \in D
    <2>1. 1 \in 1..Len(C) /\ 0 \in 0..m /\ 0 + 1 = 1
      BY <1>1
    <2> QED
      BY <1>2, <2>1
  <1>4. ASSUME NEW k \in 0..m - 1, k \in D  PROVE k + 1 \in D
    <2> DEFINE n == k + 1
               s == Flat(C, n)
               c == C[n + 1]
               u == s \o c
    <2>1. n \in Nat /\ n # 0 /\ n \in 0..m /\ n + 1 \in 2..Len(C) /\ n + 1 \in 1..Len(C)
          /\ n \in 1..Len(C) - 1
      BY <1>1
    <2>2. IsPart(s, level) /\ s[1] = C[1][1]
      BY <1>4
    <2>3. IsPart(c, level) /\ ~(c[1].repetition <= level)
      BY <2>1
    <2>4. Flat(C, n + 1) = u
      BY <1>2, <2>1
    <2> HIDE DEF s, c, n
    <2>5. IsList(s) /\ IsList(c) /\ Len(s) \in Nat /\ Len(c) \in Nat /\ Len(s) # 0 /\ Len(c) # 0
      BY <2>2, <2>3, ListIs DEF IsPart
    <2>6. /\ IsList(u) /\ Len(u) = Len(s) + Len(c)
          /\ \A i \in 1..Len(s) : u[i] = s[i]
          /\ \A i \in 1..Len(c) : u[Len(s) + i] = c[i]
      BY <2>5, Joined
    <2> HIDE DEF u
    <2>7. u # <<>> /\ u[1] = s[1]
      <3>1. Len(u) # 0 /\ 1 \in 1..Len(s)
        BY <2>5, <2>6
      <3> QED
        BY <2>6, <3>1
    <2>8. ASSUME NEW i \in 2..Len(u)  PROVE ~(u[i].repetition <= level)
      <3>1. CASE i <= Len(s)
        <4>1. i \in 2..Len(s) /\ i \in 1..Len(s)
          BY <2>5, <3>1
        <4>2. u[i] = s[i]
          BY <2>6, <4>1
        <4> QED
          BY <2>2, <4>1, <4>2 DEF IsPart
      <3>2. CASE i = Len(s) + 1
        <4>1. 1 \in 1..Len(c)
          BY <2>5
        <4>2. u[i] = c[1]
          BY <2>6, <3>2, <4>1
        <4> QED
          BY <2>3, <4>2
      <3>3. CASE ~(i <= Len(s)) /\ i # Len(s) + 1
        <4> DEFINE j == i - Len(s)
        <4>1. j \in 1..Len(c) /\ j \in 2..Len(c) /\ i = Len(s) + j
          BY <2>5, <2>6, <3>3
        <4> HIDE DEF j
        <4>2. u[i] = c[j]
          BY <2>6, <4>1
        <4> QED
          BY <2>3, <4>1, <4>2 DEF IsPart
      <3> QED
        BY <3>1, <3>2, <3>3
    <2>9. IsPart(u, level)
      BY <2>6, <2>7, <2>8 DEF IsPart
    <2> QED
      BY <2>1, <2>2, <2>4, <2>7, <2>9 DEF n
  <1>5. m \in D
    <2>1. m \in 0..m
      BY <1>1
    <2> HIDE DEF D
    <2> QED
      BY <1>1, <1>3, <1>4, <2>1, UpTo
  <1> QED
    BY <1>1, <1>2, <1>5

(* One list stays as it is.                                                 *)
LEMMA FlatOne ==
  ASSUME NEW C, IsList(C), Len(C) = 1
  PROVE  FlattenSeq(C) = C[1]
  <1>1. C # <<>>
    OBVIOUS
  <1> QED
    BY <1>1, FlatIs

(* The cells of a ring, of a polygon, and of all.                           *)
RingCells(g, p, r) ==
    [k \in DOMAIN g.parts[p][r] |->
        [at |-> g.parts[p][r][k], repetition |-> Repetition(g.type, p, r, k)]]
PolygonCells(g, p) == [r \in DOMAIN g.parts[p] |-> RingCells(g, p, r)]
AllCells(g) == [p \in DOMAIN g.parts |-> FlattenSeq(PolygonCells(g, p))]

(* A geometry that is encoded as lists.                                     *)
IsSpelled(g) ==
    /\ IsNested(g) /\ HasNoEmptyPart(g) /\ g.parts # <<>>
    /\ g.type \notin {"null", "GeometryCollection"}

(* What its polygons are,                                                   *)
LEMMA PolygonIs ==
  ASSUME NEW g, IsSpelled(g), NEW p \in DOMAIN g.parts
  PROVE  /\ IsList(g.parts[p]) /\ Len(g.parts[p]) \in Nat \ {0}
         /\ DOMAIN g.parts[p] = 1..Len(g.parts[p])
         /\ \A ring \in Elements(g.parts[p]) : IsList(ring) /\ ring # <<>>
  <1> DEFINE polygon == g.parts[p]
  <1>1. polygon \in Elements(g.parts)
    BY DEF Elements
  <1>2. IsList(polygon) /\ polygon # <<>> /\ \A ring \in Elements(polygon) : IsList(ring) /\ ring # <<>>
    BY <1>1 DEF IsSpelled, IsNested, HasNoEmptyPart
  <1> HIDE DEF polygon
  <1>3. Len(polygon) \in Nat \ {0} /\ DOMAIN polygon = 1..Len(polygon)
    BY <1>2, ListIs
  <1> QED
    BY <1>2, <1>3 DEF polygon

(* and its rings.                                                           *)
LEMMA RingIs ==
  ASSUME NEW g, IsSpelled(g), NEW p \in DOMAIN g.parts, NEW r \in DOMAIN g.parts[p]
  PROVE  /\ IsList(g.parts[p][r]) /\ Len(g.parts[p][r]) \in Nat \ {0}
         /\ DOMAIN g.parts[p][r] = 1..Len(g.parts[p][r])
  <1> DEFINE ring == g.parts[p][r]
  <1>1. ring \in Elements(g.parts[p])
    BY DEF Elements
  <1>2. IsList(ring) /\ ring # <<>>
    BY <1>1, PolygonIs
  <1> HIDE DEF ring
  <1>3. Len(ring) \in Nat \ {0} /\ DOMAIN ring = 1..Len(ring)
    BY <1>2, ListIs
  <1> QED
    BY <1>2, <1>3 DEF ring

(* What its parts are.                                                      *)
LEMMA SpelledIs ==
  ASSUME NEW g, IsSpelled(g)
  PROVE  /\ IsList(g.parts) /\ Len(g.parts) \in Nat \ {0} /\ DOMAIN g.parts = 1..Len(g.parts)
         /\ Depth(g.type) \in {0, 1, 2} => Len(g.parts) = 1
         /\ Depth(g.type) \in {0, 1} => \A p \in 1..Len(g.parts) : Len(g.parts[p]) = 1
         /\ Depth(g.type) \in {0, 1, 2, 3}
  <1>1. IsList(g.parts) /\ g.parts # <<>>
    BY DEF IsSpelled, IsNested
  <1>2. Len(g.parts) \in Nat \ {0} /\ DOMAIN g.parts = 1..Len(g.parts)
    BY <1>1, ListIs
  <1>4. g.type \in {"Point", "LineString", "MultiPoint", "Polygon", "MultiLineString", "MultiPolygon"}
    BY DEF IsSpelled, IsNested, Types
  <1>5. Depth(g.type) \in {0, 1, 2, 3}
    BY <1>4 DEF Depth
  <1>6. Depth(g.type) \in {0, 1, 2} => Len(g.parts) = 1
    <2>1. Depth(g.type) \in {0, 1, 2} =>
             g.type \in {"Point", "LineString", "MultiPoint", "Polygon", "MultiLineString"}
      BY <1>4 DEF Depth
    <2>2. Depth(g.type) \in {0, 1, 2} => Len(g.parts) <= 1
      BY <2>1 DEF IsSpelled, IsNested
    <2>3. \A n \in Nat \ {0} : n <= 1 => n = 1
      OBVIOUS
    <2> QED
      BY <1>2, <2>2, <2>3
  <1>7. ASSUME Depth(g.type) \in {0, 1}, NEW p \in 1..Len(g.parts)
        PROVE  Len(g.parts[p]) = 1
    <2>1. g.type \in {"Point", "LineString", "MultiPoint"}
      BY <1>4, <1>7 DEF Depth
    <2>2. g.parts[p] \in Elements(g.parts)
      BY <1>2 DEF Elements
    <2> QED
      BY <2>1, <2>2 DEF IsSpelled, IsNested
  <1> QED
    BY <1>1, <1>2, <1>5, <1>6, <1>7

(* The cells are lists, of which the places are the positions.              *)
LEMMA CellsAre ==
  ASSUME NEW g, IsSpelled(g), NEW p \in 1..Len(g.parts)
  PROVE  /\ IsList(PolygonCells(g, p)) /\ PolygonCells(g, p) # <<>>
         /\ Len(PolygonCells(g, p)) = Len(g.parts[p])
         /\ \A r \in 1..Len(g.parts[p]) :
               /\ PolygonCells(g, p)[r] = RingCells(g, p, r)
               /\ IsList(RingCells(g, p, r)) /\ RingCells(g, p, r) # <<>>
               /\ Places(RingCells(g, p, r)) = g.parts[p][r]
               /\ RingCells(g, p, r)[1].repetition = Repetition(g.type, p, r, 1)
               /\ \A k \in 2..Len(RingCells(g, p, r)) :
                     RingCells(g, p, r)[k].repetition = Depth(g.type)
  <1> DEFINE polygon == g.parts[p]
             n == Len(polygon)
  <1>1. /\ IsList(polygon) /\ n \in Nat \ {0} /\ DOMAIN polygon = 1..n
        /\ \A r \in 1..n : /\ IsList(polygon[r]) /\ Len(polygon[r]) \in Nat \ {0}
                           /\ DOMAIN polygon[r] = 1..Len(polygon[r])
    <2>1. p \in DOMAIN g.parts
      BY SpelledIs
    <2>2. IsList(polygon) /\ n \in Nat \ {0} /\ DOMAIN polygon = 1..n
      BY <2>1, PolygonIs
    <2>3. ASSUME NEW r \in DOMAIN g.parts[p]
          PROVE  /\ IsList(polygon[r]) /\ Len(polygon[r]) \in Nat \ {0}
                 /\ DOMAIN polygon[r] = 1..Len(polygon[r])
      BY <2>1, RingIs
    <2> QED
      BY <2>2, <2>3
  <1>2. PolygonCells(g, p) = [r \in 1..n |-> RingCells(g, p, r)]
    BY <1>1 DEF PolygonCells
  <1>3. IsList(PolygonCells(g, p)) /\ Len(PolygonCells(g, p)) = n
        /\ \A r \in 1..n : PolygonCells(g, p)[r] = RingCells(g, p, r)
    <2> DEFINE f == PolygonCells(g, p)
    <2>1. f = [r \in 1..n |-> f[r]]
      BY <1>2
    <2> HIDE DEF f, n
    <2>2. IsList(f) /\ Len(f) = n
      BY <1>1, <2>1, MadeList
    <2> QED
      BY <1>2, <2>2 DEF f
  <1>4. PolygonCells(g, p) # <<>>
    <2>1. n # 0
      BY <1>1
    <2> HIDE DEF n, polygon
    <2> QED
      BY <1>3, <2>1
  <1>5. ASSUME NEW r \in 1..n
        PROVE  /\ IsList(RingCells(g, p, r)) /\ RingCells(g, p, r) # <<>>
               /\ Places(RingCells(g, p, r)) = polygon[r]
               /\ RingCells(g, p, r)[1].repetition = Repetition(g.type, p, r, 1)
               /\ \A k \in 2..Len(RingCells(g, p, r)) :
                     RingCells(g, p, r)[k].repetition = Depth(g.type)
    <2> DEFINE ring == polygon[r]
               l == Len(ring)
               c == RingCells(g, p, r)
    <2>1. IsList(ring) /\ l \in Nat \ {0} /\ DOMAIN ring = 1..l
      BY <1>1
    <2>2. c = [k \in 1..l |-> [at |-> ring[k], repetition |-> Repetition(g.type, p, r, k)]]
      BY <2>1 DEF RingCells
    <2>3. /\ c = [k \in 1..l |-> c[k]]
          /\ \A k \in 1..l : c[k].at = ring[k] /\ c[k].repetition = Repetition(g.type, p, r, k)
      BY <2>2
    <2> HIDE DEF c, l, ring
    <2>4. IsList(c) /\ Len(c) = l
      BY <2>1, <2>3, MadeList
    <2>5. c # <<>> /\ DOMAIN c = 1..l /\ 1 \in 1..l
      <3>1. l # 0 /\ 1 \in 1..l
        BY <2>1
      <3> QED
        BY <2>3, <2>4, <3>1
    <2>6. Places(c) = ring
      <3>1. Places(c) = [k \in 1..l |-> ring[k]]
        BY <2>3, <2>5 DEF Places
      <3> QED
        BY <2>1, <3>1 DEF IsList, l
    <2>7. ASSUME NEW k \in 2..l  PROVE c[k].repetition = Depth(g.type)
      <3>1. k \in 1..l /\ k > 1 /\ k # 1
        BY <2>1
      <3>2. Repetition(g.type, p, r, k) = Depth(g.type)
        BY <3>1 DEF Repetition
      <3> QED
        BY <2>3, <3>1, <3>2
    <2> QED
      BY <2>3, <2>4, <2>5, <2>6, <2>7 DEF c, ring
  <1> QED
    BY <1>3, <1>4, <1>5

(* The repetition levels at the start of a ring.                            *)
LEMMA RepetitionIs ==
  ASSUME NEW type, NEW d \in {2, 3}, Depth(type) = d, NEW p \in Nat \ {0}
  PROVE  /\ \A r \in Nat : r > 1 => Repetition(type, p, r, 1) = d - 1
         /\ p > 1 => Repetition(type, p, 1, 1) = 1
  <1>1. ASSUME NEW r \in Nat, r > 1  PROVE Repetition(type, p, r, 1) = d - 1
    <2>1. r # 1 /\ ~(1 > 1)
      BY <1>1
    <2> QED
      BY <1>1, <2>1 DEF Repetition
  <1>2. ASSUME p > 1  PROVE Repetition(type, p, 1, 1) = 1
    <2>1. p # 1 /\ ~(1 > 1)
      BY <1>2
    <2> QED
      BY <1>2, <2>1 DEF Repetition
  <1> QED
    BY <1>1, <1>2

(* The rings of a polygon are found.                                        *)
LEMMA RingsFound ==
  ASSUME NEW g, IsSpelled(g), NEW d \in {2, 3}, Depth(g.type) = d, NEW p \in 1..Len(g.parts)
  PROVE  Rings(FlattenSeq(PolygonCells(g, p)), d - 1) = g.parts[p]
  <1> DEFINE C == PolygonCells(g, p)
             n == Len(g.parts[p])
  <1>1. /\ IsList(C) /\ C # <<>> /\ Len(C) = n
        /\ \A r \in 1..n :
               /\ C[r] = RingCells(g, p, r)
               /\ IsList(RingCells(g, p, r)) /\ RingCells(g, p, r) # <<>>
               /\ Places(RingCells(g, p, r)) = g.parts[p][r]
               /\ RingCells(g, p, r)[1].repetition = Repetition(g.type, p, r, 1)
               /\ \A k \in 2..Len(RingCells(g, p, r)) :
                     RingCells(g, p, r)[k].repetition = Depth(g.type)
    BY CellsAre
  <1>2. IsList(g.parts[p]) /\ n \in Nat \ {0} /\ Len(g.parts) \in Nat
    BY SpelledIs, PolygonIs
  <1> HIDE DEF C
  <1>3. ~(d <= d - 1) /\ d - 1 <= d - 1
    OBVIOUS
  <1>4. ASSUME NEW r \in 1..n  PROVE IsPart(C[r], d - 1)
    <2> DEFINE c == C[r]
               level == d - 1
    <2>1. IsList(c) /\ c # <<>>
      BY <1>1
    <2>2. ~(Depth(g.type) <= level)
      BY <1>3
    <2>3. \A k \in 2..Len(c) : c[k].repetition = Depth(g.type)
      BY <1>1
    <2> HIDE DEF c, level
    <2>4. IsPart(c, level)
      BY <2>1, <2>2, <2>3 DEF IsPart
    <2> QED
      BY <2>4 DEF c, level
  <1>5. ASSUME NEW r \in 2..n  PROVE C[r][1].repetition <= d - 1
    <2>1. r \in 1..n /\ r \in Nat /\ r > 1 /\ p \in Nat \ {0}
      BY <1>2
    <2>2. Repetition(g.type, p, r, 1) = d - 1
      BY <2>1, RepetitionIs
    <2> QED
      BY <1>1, <1>3, <2>1, <2>2
  <1>6. Split(FlattenSeq(C), d - 1) = C
    BY <1>1, <1>4, <1>5, SplitFlat
  <1>7. DOMAIN C = 1..n
    BY <1>1, ListIs
  <1>8. Rings(FlattenSeq(C), d - 1) = [r \in 1..n |-> g.parts[p][r]]
    BY <1>1, <1>6, <1>7 DEF Rings
  <1>9. g.parts[p] = [r \in 1..n |-> g.parts[p][r]]
    BY <1>2 DEF IsList
  <1> QED
    BY <1>8, <1>9 DEF C

(* In one list for each polygon.                                            *)
LEMMA AllCellsAre ==
  ASSUME NEW g, IsSpelled(g)
  PROVE  /\ IsList(AllCells(g)) /\ AllCells(g) # <<>> /\ Len(AllCells(g)) = Len(g.parts)
         /\ \A p \in 1..Len(g.parts) : AllCells(g)[p] = FlattenSeq(PolygonCells(g, p))
         /\ NativeCoordinates(g) = FlattenSeq(AllCells(g))
  <1> DEFINE n == Len(g.parts)
             C == AllCells(g)
  <1>1. DOMAIN g.parts = 1..n /\ n \in Nat \ {0}
    BY SpelledIs
  <1>2. C = [p \in 1..n |-> FlattenSeq(PolygonCells(g, p))]
    BY <1>1 DEF AllCells
  <1>3. C = [p \in 1..n |-> C[p]] /\ \A p \in 1..n : C[p] = FlattenSeq(PolygonCells(g, p))
    BY <1>2
  <1>4. NativeCoordinates(g) = FlattenSeq(C)
    BY DEF NativeCoordinates, AllCells, PolygonCells, RingCells
  <1> HIDE DEF C, n
  <1>5. IsList(C) /\ Len(C) = n
    BY <1>1, <1>3, MadeList
  <1>6. C # <<>>
    BY <1>1, <1>5
  <1> QED
    BY <1>3, <1>4, <1>5, <1>6 DEF C, n

(* A geometry comes back from its lists.                                    *)
LEMMA NativeIsSame ==
  ASSUME NEW g, IsSpelled(g)
  PROVE  NativeGeometry(g.type, g.dim, NativeCoordinates(g)) = g
  <1> DEFINE n == Len(g.parts)
             C == AllCells(g)
             cells == NativeCoordinates(g)
             d == Depth(g.type)
             h == NativeGeometry(g.type, g.dim, cells)
  <1>1. IsList(C) /\ C # <<>> /\ Len(C) = n /\ cells = FlattenSeq(C)
        /\ \A p \in 1..n : C[p] = FlattenSeq(PolygonCells(g, p))
    BY AllCellsAre
  <1>2. /\ IsList(g.parts) /\ n \in Nat \ {0}
        /\ d \in {0, 1, 2} => n = 1
        /\ d \in {0, 1} => \A p \in 1..n : Len(g.parts[p]) = 1
        /\ d \in {0, 1, 2, 3}
    BY SpelledIs
  <1>3. \A p \in 1..n : IsList(g.parts[p])
    BY SpelledIs, PolygonIs
  <1>4. g = [type |-> g.type, dim |-> g.dim, parts |-> g.parts]
    BY DEF IsSpelled, IsNested
  <1>5. g.parts = [p \in 1..n |-> g.parts[p]]
    BY <1>2 DEF IsList
  <1> HIDE DEF n, C, cells, d
  <1>6. \A s : IsList(s) /\ Len(s) = 1 => s = <<s[1]>>
    <2> SUFFICES ASSUME NEW s, IsList(s), Len(s) = 1  PROVE s = <<s[1]>>
      OBVIOUS
    <2>1. s = [i \in 1..1 |-> s[i]]
      BY DEF IsList
    <2> QED
      BY <2>1
  <1>7. n = 1 => g.parts = <<g.parts[1]>> /\ cells = FlattenSeq(PolygonCells(g, 1))
    <2> SUFFICES ASSUME n = 1  PROVE g.parts = <<g.parts[1]>> /\ cells = FlattenSeq(PolygonCells(g, 1))
      OBVIOUS
    <2>1. g.parts = <<g.parts[1]>>
      BY <1>2, <1>6 DEF n
    <2>2. cells = C[1]
      BY <1>1, FlatOne
    <2>3. 1 \in 1..n
      OBVIOUS
    <2> QED
      BY <1>1, <2>1, <2>2, <2>3
  <1>8. CASE d <= 1
    <2> DEFINE P == PolygonCells(g, 1)
    <2>1. d \in {0, 1} /\ n = 1 /\ 1 \in 1..n
      BY <1>2, <1>8
    <2>2. Len(g.parts[1]) = 1 /\ IsList(g.parts[1]) /\ 1 \in 1..Len(g.parts[1])
      BY <1>2, <1>3, <2>1
    <2>3. IsList(P) /\ Len(P) = 1 /\ P[1] = RingCells(g, 1, 1)
          /\ Places(RingCells(g, 1, 1)) = g.parts[1][1]
      BY <2>1, <2>2, CellsAre DEF n
    <2> HIDE DEF P
    <2>4. FlattenSeq(P) = RingCells(g, 1, 1)
      BY <2>3, FlatOne
    <2>5. g.parts[1] = <<g.parts[1][1]>>
      BY <1>6, <2>2
    <2>6. cells = RingCells(g, 1, 1)
      BY <1>7, <2>1, <2>4 DEF P
    <2>7. <<<<Places(cells)>>>> = g.parts
      BY <1>7, <2>1, <2>3, <2>5, <2>6
    <2>8. h = [type |-> g.type, dim |-> g.dim, parts |-> <<<<Places(cells)>>>>]
      <3>1. Depth(g.type) <= 1 /\ Depth(g.type) # 2 /\ Depth(g.type) # 3
        BY <1>8, <2>1 DEF d
      <3> QED
        BY <3>1 DEF NativeGeometry
    <2> QED
      BY <1>4, <2>7, <2>8 DEF cells
  <1>9. CASE d = 2
    <2>1. n = 1 /\ 1 \in 1..n /\ 2 - 1 = 1
      BY <1>2, <1>9
    <2>2. Rings(FlattenSeq(PolygonCells(g, 1)), 2 - 1) = g.parts[1]
      BY <1>9, <2>1, RingsFound DEF d, n
    <2>3. <<Rings(cells, 1)>> = g.parts
      BY <1>7, <2>1, <2>2
    <2>4. h = [type |-> g.type, dim |-> g.dim, parts |-> <<Rings(cells, 1)>>]
      <3>1. ~(Depth(g.type) <= 1) /\ Depth(g.type) = 2 /\ Depth(g.type) # 3
        BY <1>9 DEF d
      <3> QED
        BY <3>1 DEF NativeGeometry
    <2> QED
      BY <1>4, <2>3, <2>4 DEF cells
  <1>10. CASE d = 3
    <2>1. \A p \in 1..n : Rings(C[p], 2) = g.parts[p]
      <3> SUFFICES ASSUME NEW p \in 1..n  PROVE Rings(C[p], 2) = g.parts[p]
        OBVIOUS
      <3>1. Rings(FlattenSeq(PolygonCells(g, p)), 3 - 1) = g.parts[p]
        BY <1>10, RingsFound DEF d, n
      <3>2. 3 - 1 = 2
        OBVIOUS
      <3> QED
        BY <1>1, <3>1, <3>2
    <2>2. ASSUME NEW p \in 1..n
          PROVE  /\ IsPart(C[p], 1)
                 /\ p > 1 => C[p][1].repetition <= 1
      <3> DEFINE P == PolygonCells(g, p)
                 m == Len(g.parts[p])
      <3>1. /\ IsList(P) /\ P # <<>> /\ Len(P) = m
            /\ \A r \in 1..m :
                  /\ P[r] = RingCells(g, p, r)
                  /\ IsList(P[r]) /\ P[r] # <<>>
                  /\ P[r][1].repetition = Repetition(g.type, p, r, 1)
                  /\ \A k \in 2..Len(P[r]) : P[r][k].repetition = d
        <4>1. /\ IsList(P) /\ P # <<>> /\ Len(P) = m
              /\ \A r \in 1..m :
                    /\ P[r] = RingCells(g, p, r)
                    /\ IsList(RingCells(g, p, r)) /\ RingCells(g, p, r) # <<>>
                    /\ RingCells(g, p, r)[1].repetition = Repetition(g.type, p, r, 1)
                    /\ \A k \in 2..Len(RingCells(g, p, r)) : RingCells(g, p, r)[k].repetition = d
          BY CellsAre DEF d, n
        <4> HIDE DEF P, m, d
        <4> QED
          BY <4>1
      <3>2. m \in Nat \ {0}
        BY SpelledIs, PolygonIs DEF n
      <3> HIDE DEF P, m
      <3>3. ~(3 <= 1) /\ ~(2 <= 1) /\ 1 <= 1 /\ 3 - 1 = 2
        OBVIOUS
      <3>4. \A r \in 1..m : IsPart(P[r], 1)
        BY <1>10, <3>1, <3>3 DEF IsPart
      <3>5. p \in Nat \ {0} /\ Depth(g.type) = 3
        BY <1>2, <1>10 DEF d
      <3>6. ASSUME NEW r \in 2..m  PROVE ~(P[r][1].repetition <= 1)
        <4>1. r \in 1..m /\ r \in Nat /\ r > 1
          BY <3>2
        <4>2. Repetition(g.type, p, r, 1) = 2
          BY <3>3, <3>5, <4>1, RepetitionIs
        <4> QED
          BY <3>1, <3>3, <4>1, <4>2
      <3>7. IsPart(FlattenSeq(P), 1) /\ FlattenSeq(P)[1] = P[1][1]
        BY <3>1, <3>4, <3>6, FlatPart
      <3>8. ASSUME p > 1  PROVE P[1][1].repetition <= 1
        <4>1. 1 \in 1..m
          BY <3>2
        <4>2. Repetition(g.type, p, 1, 1) = 1
          BY <3>5, <3>8, RepetitionIs
        <4> QED
          BY <3>1, <3>3, <4>1, <4>2
      <3>9. C[p] = FlattenSeq(P)
        BY <1>1 DEF P
      <3> QED
        BY <3>7, <3>8, <3>9
    <2>3. Split(cells, 1) = C
      <3>1. \A p \in 2..n : p \in 1..n /\ p > 1
        BY <1>2
      <3>2. \A p \in 2..n : C[p][1].repetition <= 1
        BY <2>2, <3>1
      <3>3. \A p \in 1..n : IsPart(C[p], 1)
        BY <2>2
      <3> QED
        BY <1>1, <3>2, <3>3, SplitFlat
    <2>4. DOMAIN C = 1..n
      BY <1>1, ListIs
    <2>5. [p \in DOMAIN C |-> Rings(C[p], 2)] = g.parts
      BY <1>5, <2>1, <2>4
    <2>6. h = [type |-> g.type, dim |-> g.dim, parts |-> [p \in DOMAIN C |-> Rings(C[p], 2)]]
      <3>1. ~(Depth(g.type) <= 1) /\ Depth(g.type) # 2 /\ Depth(g.type) = 3
        BY <1>10 DEF d
      <3> QED
        BY <2>3, <3>1 DEF NativeGeometry
    <2> QED
      BY <1>4, <2>5, <2>6 DEF cells
  <1> QED
    BY <1>2, <1>8, <1>9, <1>10

-----------------------------------------------------------------------------
(* The column without a name.                                               *)

(* It is that of the property without a name, and of no other.              *)
LEMMA NamelessColumn ==
  ASSUME input \in Inputs, DOMAIN kinds \subseteq Elements(Names), ~SecondaryRefused,
         NEW p \in DOMAIN kinds
  PROVE  PropertyColumns[p] = Named("") <=> p = Named("")
  <1> DEFINE n == Len(Names)
             column == CHOOSE f : IsPlacing(f, n)
             At(name) == CHOOSE k \in DOMAIN Names : Names[k] = name
             used(k) == Reserved \union Secondary \union Placed(column, k)
  <1>1. IsList(Names) /\ DOMAIN Names = 1..n /\ n \in Nat
    BY GeoParquetAssumption DEF IsList
  <1>2. IsPlacing(column, n)
    BY <1>1, PlacingExists
  <1>3. PropertyColumns = [name \in DOMAIN kinds |-> column[At(name)]]
    BY <1>1, SMT DEF PropertyColumns, IsPlacing, Placed
  <1> HIDE DEF column
  <1>4. \A k \in 1..n : column[k] = Free(Names[k], used(k))
    BY <1>2 DEF IsPlacing
  <1>6. \A k \in 1..n : IsFiniteSet(used(k))
    BY <1>1, UsedFinite
  <1>7. \A k \in 1..n : Names[k][1] \in Nat /\ Names[k] = <<Names[k][1], Names[k][2]>>
    <2>1. \A k \in 1..n : Names[k] \in Elements(Names)
      BY <1>1 DEF Elements
    <2> QED
      BY <2>1, GeoParquetAssumption
  <1> DEFINE k0 == At(p)
  <1>8. k0 \in 1..n /\ Names[k0] = p /\ PropertyColumns[p] = column[k0]
    BY <1>1, <1>3 DEF Elements
  <1> HIDE DEF At, k0, n, used
  <1>9. ASSUME NEW k \in 1..n, column[k] = Named("")  PROVE Names[k] = Named("")
    <2>1. column[k] = <<0, "">>
      BY <1>9 DEF Named
    <2> DEFINE name == Names[k]
               column_k == column[k]
    <2>0. column_k = Free(name, used(k)) /\ IsFiniteSet(used(k)) /\ name[1] \in Nat
      BY <1>4, <1>6, <1>7
    <2> HIDE DEF name
    <2>2. PICK m \in Nat : column_k = <<name[1] + m, name[2]>>
      BY <2>0, FreeIsFree
    <2>3. Names[k][1] + m = 0 /\ Names[k][2] = ""
      <3>1. \A a, b : <<a, b>> = <<0, "">> => a = 0 /\ b = ""
        OBVIOUS
      <3> QED
        BY <2>1, <2>2, <3>1 DEF name
    <2>4. \A a, b \in Nat : a + b = 0 => a = 0
      OBVIOUS
    <2>5. Names[k][1] = 0
      BY <1>7, <2>3, <2>4
    <2> QED
      BY <1>7, <2>3, <2>5 DEF Named
  <1>10. PropertyColumns[p] = Named("") => p = Named("")
    BY <1>8, <1>9
  <1>11. \A j \in 1..k0 - 1 : j \in 1..n /\ j # k0
    <2>1. \A a, b \in Nat : \A i \in 1..b - 1 : b <= a => i \in 1..a /\ i # b
      OBVIOUS
    <2>2. n \in Nat /\ k0 \in Nat /\ k0 <= n
      BY <1>1, <1>8
    <2> QED
      BY <2>1, <2>2
  <1>12. ASSUME p = Named("")  PROVE PropertyColumns[p] = Named("")
    <2>1. Named("") \notin Secondary
      BY DEF SecondaryRefused
    <2>2. Named("") \notin Reserved
      BY DEF Reserved, Members, MemberColumn, Named, Geometry, Covering, Nulls,
             PropertiesNull, Properties
    <2>3. Named("") \notin Placed(column, k0)
      <3> SUFFICES ASSUME NEW j \in 1..k0 - 1, column[j] = Named("")  PROVE FALSE
        BY DEF Placed
      <3>1. j \in 1..n /\ j # k0
        BY <1>11
      <3>2. Names[j] = Names[k0]
        BY <1>8, <1>9, <1>12, <3>1
      <3>3. IsInjective(Names)
        BY GeoParquetAssumption
      <3> QED
        BY <1>1, <1>8, <3>1, <3>2, <3>3 DEF IsInjective
    <2>4. Names[k0] \notin used(k0)
      BY <1>8, <1>12, <2>1, <2>2, <2>3 DEF used
    <2>5. Free(Names[k0], used(k0)) = Names[k0]
      BY <1>6, <1>7, <1>8, <2>4, FreeIsFree
    <2> QED
      BY <1>4, <1>8, <1>12, <2>5
  <1> QED
    BY <1>10, <1>12

-----------------------------------------------------------------------------
(* What is in a row.                                                        *)

(* Of two parts, a row has what the first has, and the rest of the second.  *)
LEMMA OverIs ==
  ASSUME NEW f, NEW g, NEW x
  PROVE  /\ x \in DOMAIN Over(f, g) <=> x \in DOMAIN f \/ x \in DOMAIN g
         /\ x \in DOMAIN f => Over(f, g)[x] = f[x]
         /\ x \in DOMAIN g /\ x \notin DOMAIN f => Over(f, g)[x] = g[x]
  BY DEF Over

(* The columns of members, and those of members and secondary geometries.   *)
MemberColumns == {MemberColumn(m) : m \in Members}
Base == {Geometry, PropertiesNull} \union MemberColumns \union Secondary

(* The columns with names from the beginning are different columns.         *)
LEMMA ColumnsDiffer ==
  /\ Geometry # PropertiesNull /\ Geometry \notin MemberColumns /\ PropertiesNull \notin MemberColumns
  /\ \A c \in {Covering, Nulls, Properties} : c \notin {Geometry, PropertiesNull} \union MemberColumns
  /\ Covering # Nulls
  /\ \A m, n \in Members : MemberColumn(m) = MemberColumn(n) => m = n
  /\ {Geometry, PropertiesNull, Covering, Nulls, Properties} \union MemberColumns = Reserved
  <1> DEFINE id == MemberColumn("id")
             box == MemberColumn("feature_bbox")
             foreign == MemberColumn("foreign")
  <1>1. /\ id = Named("__geotools_id") /\ box = Named("__geotools_feature_bbox")
        /\ foreign = Named("__geotools_foreign")
    BY DEF MemberColumn
  <1>2. MemberColumns = {id, box, foreign}
    BY DEF MemberColumns, Members
  <1>3. \A a, b : Named(a) = Named(b) => a = b
    BY DEF Named
  <1>4. /\ id # box /\ id # foreign /\ box # foreign
        /\ {id, box, foreign} \intersect {Geometry, PropertiesNull, Covering, Nulls, Properties} = {}
    BY <1>1, <1>3 DEF Geometry, PropertiesNull, Covering, Nulls, Properties
  <1>5. /\ Geometry # PropertiesNull /\ Covering # Nulls
        /\ \A c \in {Covering, Nulls, Properties} : c \notin {Geometry, PropertiesNull}
    BY <1>3 DEF Geometry, PropertiesNull, Covering, Nulls, Properties
  <1>6. \A m, n \in Members : MemberColumn(m) = MemberColumn(n) => m = n
    BY <1>4 DEF Members
  <1>7. {Geometry, PropertiesNull, Covering, Nulls, Properties} \union MemberColumns = Reserved
    BY DEF Reserved, MemberColumns
  <1> HIDE DEF id, box, foreign
  <1> QED
    BY <1>2, <1>4, <1>5, <1>6, <1>7

(* What every row has: its geometries, and marks for what else is there.    *)
LEMMA BaseRowIs ==
  ASSUME NEW f, IsFeature(f), ~SecondaryRefused
  PROVE  /\ Held(BaseRow(f), Geometry) <=> IsGeometry(f.geometry)
         /\ Held(BaseRow(f), Geometry) => BaseRow(f)[Geometry] = GeometryCell(f.geometry)
         /\ \A n \in Secondary :
               /\ Held(BaseRow(f), n) <=> IsGeometry(SecondaryGeometry(f, n))
               /\ Held(BaseRow(f), n) => BaseRow(f)[n] = [wkb |-> SecondaryGeometry(f, n)]
         /\ \A m \in Members : Held(BaseRow(f), MemberColumn(m)) <=> m \in f.members
         /\ Held(BaseRow(f), PropertiesNull) <=> f.null
         /\ DOMAIN BaseRow(f) \subseteq Base
  <1> DEFINE A == [c \in {c \in {Geometry} : IsGeometry(f.geometry)} |-> GeometryCell(f.geometry)]
             B == [c \in {n \in Secondary : IsGeometry(SecondaryGeometry(f, n))} |->
                     [wkb |-> SecondaryGeometry(f, c)]]
             C == [c \in {MemberColumn(m) : m \in f.members} |-> "present"]
             D == [c \in {n \in {PropertiesNull} : f.null} |-> "true"]
             E == Over(C, D)
             F == Over(B, E)
             row == BaseRow(f)
  <1>1. row = Over(A, F)
    BY DEF BaseRow
  <1>2. f.members \subseteq Members
    BY DEF IsFeature
  <1>3. Secondary \intersect Reserved = {}
    BY DEF SecondaryRefused
  <1>4. /\ DOMAIN A \subseteq {Geometry} /\ (Geometry \in DOMAIN A <=> IsGeometry(f.geometry))
        /\ Geometry \in DOMAIN A => A[Geometry] = GeometryCell(f.geometry)
    OBVIOUS
  <1>5. /\ DOMAIN B \subseteq Secondary
        /\ \A n \in Secondary : n \in DOMAIN B <=> IsGeometry(SecondaryGeometry(f, n))
        /\ \A n \in DOMAIN B : B[n] = [wkb |-> SecondaryGeometry(f, n)]
    OBVIOUS
  <1>6. /\ DOMAIN C \subseteq MemberColumns
        /\ \A m \in Members : MemberColumn(m) \in DOMAIN C <=> m \in f.members
    BY <1>2, ColumnsDiffer DEF MemberColumns
  <1>7. DOMAIN D \subseteq {PropertiesNull} /\ (PropertiesNull \in DOMAIN D <=> f.null)
    BY Zenon
  <1>8. \A m \in Members : MemberColumn(m) \in MemberColumns
    BY DEF MemberColumns
  <1>9. /\ Secondary \intersect ({Geometry, PropertiesNull} \union MemberColumns) = {}
        /\ Geometry # PropertiesNull /\ Geometry \notin MemberColumns
        /\ PropertiesNull \notin MemberColumns
    BY <1>3, ColumnsDiffer
  <1> DEFINE isGeometry == IsGeometry(f.geometry)
             isNull == f.null
  <1> HIDE DEF A, B, C, D, row, isNull
  <1>10. \A c : /\ c \in DOMAIN E <=> c \in DOMAIN C \/ c \in DOMAIN D
                /\ c \in DOMAIN F <=> c \in DOMAIN B \/ c \in DOMAIN E
                /\ c \in DOMAIN row <=> c \in DOMAIN A \/ c \in DOMAIN F
    BY <1>1, OverIs
  <1>11. \A c : c \in DOMAIN row <=>
                   c \in DOMAIN A \/ c \in DOMAIN B \/ c \in DOMAIN C \/ c \in DOMAIN D
    BY <1>10
  <1>12. /\ Geometry \in DOMAIN row <=> Geometry \in DOMAIN A
         /\ \A n \in Secondary : n \in DOMAIN row <=> n \in DOMAIN B
         /\ \A m \in Members : MemberColumn(m) \in DOMAIN row <=> MemberColumn(m) \in DOMAIN C
         /\ PropertiesNull \in DOMAIN row <=> PropertiesNull \in DOMAIN D
         /\ DOMAIN row \subseteq Base
    <2>1. DOMAIN D \subseteq {PropertiesNull}
      BY <1>7
    <2> QED
      BY <1>4, <1>5, <1>6, <2>1, <1>8, <1>9, <1>11 DEF Base
  <1>13. Geometry \in DOMAIN A => row[Geometry] = A[Geometry]
    BY <1>1, OverIs
  <1>14. ASSUME NEW n \in DOMAIN B  PROVE row[n] = B[n]
    <2>1. n \in DOMAIN F /\ F[n] = B[n] /\ n \notin DOMAIN A
      BY <1>4, <1>5, <1>9, OverIs
    <2> HIDE DEF F
    <2> QED
      BY <1>1, <2>1, OverIs
  <1>15. Held(row, PropertiesNull) <=> f.null
    BY <1>7, <1>12, Zenon DEF Held
  <1>16. Held(row, Geometry) <=> IsGeometry(f.geometry)
    BY <1>4, <1>12 DEF Held
  <1>17. Held(row, Geometry) => row[Geometry] = GeometryCell(f.geometry)
    BY <1>4, <1>12, <1>13 DEF Held
  <1>18. \A n \in Secondary :
            /\ Held(row, n) <=> IsGeometry(SecondaryGeometry(f, n))
            /\ Held(row, n) => row[n] = [wkb |-> SecondaryGeometry(f, n)]
    BY <1>5, <1>12, <1>14 DEF Held
  <1>19. \A m \in Members : Held(row, MemberColumn(m)) <=> m \in f.members
    BY <1>6, <1>12 DEF Held
  <1> QED
    BY <1>12, <1>15, <1>16, <1>17, <1>18, <1>19, Zenon DEF row

(* A row has the same in these columns.                                     *)
Extends(row, base) ==
    \A c \in Base : (Held(row, c) <=> Held(base, c)) /\ (Held(base, c) => row[c] = base[c])

(* With columns that are not reserved, one for each property that has a     *)
(* value, a row has these values and the names of the others.               *)
LEMMA RowIs ==
  ASSUME NEW f, IsFeature(f), ~SecondaryRefused, NEW columns, NEW dimension,
         Valued(f) \subseteq DOMAIN columns,
         \A p \in DOMAIN columns : columns[p] \notin Reserved \union Secondary,
         \A p, q \in DOMAIN columns : p # q => columns[p] # columns[q]
  PROVE  /\ Extends(Row(f, columns, dimension), BaseRow(f))
         /\ Held(Row(f, columns, dimension), Nulls) <=> NullProperties(f) # {}
         /\ Held(Row(f, columns, dimension), Nulls) =>
               Row(f, columns, dimension)[Nulls] = NullProperties(f)
         /\ \A p \in DOMAIN columns :
               /\ Held(Row(f, columns, dimension), columns[p]) <=> p \in Valued(f)
               /\ p \in Valued(f) =>
                     Row(f, columns, dimension)[columns[p]] = Stored(f.properties[p], kinds[p])
  <1> DEFINE ps == Valued(f)
             A == [c \in {n \in {Covering} : dimension # 0 /\ IsGeometry(f.geometry)} |->
                     Bounds(f.geometry)]
             Of(c) == CHOOSE p \in ps : columns[p] = c
             B == [c \in {columns[p] : p \in ps} |-> Stored(f.properties[Of(c)], kinds[Of(c)])]
             C == [c \in {n \in {Nulls} : NullProperties(f) # {}} |-> NullProperties(f)]
             D == BaseRow(f)
             E == Over(C, D)
             F == Over(B, E)
             row == Row(f, columns, dimension)
  <1>1. row = Over(A, F)
    BY DEF Row, Valued
  <1>2. Secondary \intersect Reserved = {}
    BY DEF SecondaryRefused
  <1>3. DOMAIN A \subseteq {Covering}
    OBVIOUS
  <1>4. DOMAIN B = {columns[p] : p \in ps}
    OBVIOUS
  <1>5. ASSUME NEW p \in ps  PROVE B[columns[p]] = Stored(f.properties[p], kinds[p])
    <2>1. Of(columns[p]) \in ps /\ columns[Of(columns[p])] = columns[p]
      OBVIOUS
    <2>2. Of(columns[p]) = p
      BY <2>1
    <2> QED
      BY <2>2
  <1>6. /\ DOMAIN C \subseteq {Nulls} /\ (Nulls \in DOMAIN C <=> NullProperties(f) # {})
        /\ Nulls \in DOMAIN C => C[Nulls] = NullProperties(f)
    OBVIOUS
  <1>7. DOMAIN D \subseteq Base
    BY BaseRowIs
  <1>8. /\ Covering \notin Base /\ Nulls \notin Base /\ Covering # Nulls
        /\ Base \subseteq Reserved \union Secondary /\ Covering \in Reserved /\ Nulls \in Reserved
    BY <1>2, ColumnsDiffer DEF Base
  <1>9. \A p \in DOMAIN columns : columns[p] \in DOMAIN B <=> p \in ps
    BY <1>4
  <1>10. /\ \A p \in DOMAIN columns : columns[p] \notin Base /\ columns[p] # Nulls /\ columns[p] # Covering
         /\ \A c \in DOMAIN B : \E p \in DOMAIN columns : c = columns[p]
    BY <1>4, <1>8
  <1> HIDE DEF A, B, C, D, row, ps
  <1>11. \A c : /\ c \in DOMAIN E <=> c \in DOMAIN C \/ c \in DOMAIN D
                /\ c \in DOMAIN F <=> c \in DOMAIN B \/ c \in DOMAIN E
                /\ c \in DOMAIN row <=> c \in DOMAIN A \/ c \in DOMAIN F
    BY <1>1, OverIs
  <1>12. \A c : c \in DOMAIN row <=>
                   c \in DOMAIN A \/ c \in DOMAIN B \/ c \in DOMAIN C \/ c \in DOMAIN D
    BY <1>11
  <1>13. \A c : /\ c \in DOMAIN D /\ c \notin DOMAIN C => E[c] = D[c]
                /\ c \in DOMAIN C => E[c] = C[c]
    BY OverIs
  <1>14. \A c : /\ c \in DOMAIN E /\ c \notin DOMAIN B => F[c] = E[c]
                /\ c \in DOMAIN B => F[c] = B[c]
    <2> HIDE DEF E
    <2> QED
      BY OverIs
  <1>15. \A c : c \in DOMAIN F /\ c \notin DOMAIN A => row[c] = F[c]
    <2> HIDE DEF F
    <2> QED
      BY <1>1, OverIs
  <1> HIDE DEF E, F
  <1>16. ASSUME NEW c \in Base
         PROVE  (Held(row, c) <=> Held(D, c)) /\ (Held(D, c) => row[c] = D[c])
    <2>1. c \notin DOMAIN A /\ c \notin DOMAIN C /\ c \notin DOMAIN B
      BY <1>3, <1>6, <1>8, <1>10
    <2>2. c \in DOMAIN row <=> c \in DOMAIN D
      BY <1>12, <2>1
    <2>3. ASSUME c \in DOMAIN D  PROVE row[c] = D[c]
      BY <1>11, <1>13, <1>14, <1>15, <2>1, <2>3
    <2> QED
      BY <2>2, <2>3 DEF Held
  <1>17. /\ Held(row, Nulls) <=> NullProperties(f) # {}
         /\ Held(row, Nulls) => row[Nulls] = NullProperties(f)
    <2>1. Nulls \notin DOMAIN A /\ Nulls \notin DOMAIN B /\ Nulls \notin DOMAIN D
      BY <1>3, <1>7, <1>8, <1>10
    <2>2. Nulls \in DOMAIN row <=> Nulls \in DOMAIN C
      BY <1>12, <2>1
    <2>3. ASSUME Nulls \in DOMAIN C  PROVE row[Nulls] = C[Nulls]
      BY <1>11, <1>13, <1>14, <1>15, <2>1, <2>3
    <2> QED
      BY <1>6, <2>2, <2>3 DEF Held
  <1>18. ASSUME NEW p \in DOMAIN columns
         PROVE  /\ Held(row, columns[p]) <=> p \in ps
                /\ p \in ps => row[columns[p]] = Stored(f.properties[p], kinds[p])
    <2> DEFINE c == columns[p]
    <2>1. c \notin DOMAIN A /\ c \notin DOMAIN C /\ c \notin DOMAIN D
      BY <1>3, <1>6, <1>7, <1>10
    <2>2. c \in DOMAIN row <=> c \in DOMAIN B
      BY <1>12, <2>1
    <2>3. ASSUME c \in DOMAIN B  PROVE row[c] = B[c]
      BY <1>11, <1>14, <1>15, <2>1, <2>3
    <2> QED
      BY <1>5, <1>9, <2>2, <2>3 DEF Held
  <1>19. Extends(row, D)
    BY <1>16 DEF Extends
  <1> QED
    BY <1>17, <1>18, <1>19 DEF row, D, ps

(* A streamed row has the properties as one value.                          *)
LEMMA StreamingRowIs ==
  ASSUME NEW f, IsFeature(f), ~SecondaryRefused
  PROVE  /\ Extends(StreamingRow(f), BaseRow(f))
         /\ StreamingRow(f)[Properties] = IF f.null THEN NullValue ELSE [json |-> Plain(f)]
  <1> DEFINE A == [c \in {Properties} |-> IF f.null THEN NullValue ELSE [json |-> Plain(f)]]
             D == BaseRow(f)
             row == StreamingRow(f)
  <1>1. row = Over(A, D)
    BY DEF StreamingRow
  <1>2. Properties \in DOMAIN A /\ DOMAIN A = {Properties}
    OBVIOUS
  <1>3. A[Properties] = IF f.null THEN NullValue ELSE [json |-> Plain(f)]
    BY Zenon
  <1>4. Properties \notin Base
    BY ColumnsDiffer DEF Base, SecondaryRefused
  <1> HIDE DEF A, D, row
  <1>5. row[Properties] = A[Properties]
    BY <1>1, <1>2, OverIs
  <1>6. ASSUME NEW c \in Base
        PROVE  (Held(row, c) <=> Held(D, c)) /\ (Held(D, c) => row[c] = D[c])
    BY <1>1, <1>2, <1>4, OverIs DEF Held
  <1>7. Extends(row, D)
    BY <1>6 DEF Extends
  <1> QED
    BY <1>3, <1>5, <1>7 DEF row, D

-----------------------------------------------------------------------------
(* A row is decoded.                                                        *)

(* The metadata says how each column is encoded.                            *)
GeoTells ==
    /\ DOMAIN file.geo = Columns /\ \A c \in Secondary : file.geo[c].encoded = "WKB"
    /\ file.geo[Geometry].encoded = IF input.native THEN First.type ELSE "WKB"

(* Everything is read, and there are lists only of one type and dimension.  *)
AllRead ==
    /\ input \in Inputs /\ ~SecondaryRefused
    /\ count = Len(input.features) /\ Taken(count)
    /\ input.native => ~NativeRefused /\ file.dimension = Dimension

(* The geometries of a row are those of its feature.                        *)
LEMMA GeometriesDecoded ==
  ASSUME AllRead, GeoTells, NEW i \in 1..Len(input.features), NEW row,
         Extends(row, BaseRow(input.features[i]))
  PROVE  /\ DecodedGeometry(row, Geometry) = input.features[i].geometry
         /\ \A n \in Secondary : DecodedGeometry(row, n) = SecondaryGeometry(input.features[i], n)
  <1> DEFINE f == input.features[i]
             g == f.geometry
             base == BaseRow(f)
  <1>1. IsFeature(f) /\ ~SecondaryRefused /\ ~Refused(f)
    BY FeaturesAre DEF AllRead, Taken
  <1> HIDE DEF f
  <1>2. /\ Held(base, Geometry) <=> IsGeometry(g)
        /\ Held(base, Geometry) => base[Geometry] = GeometryCell(g)
        /\ \A n \in Secondary :
               /\ Held(base, n) <=> IsGeometry(SecondaryGeometry(f, n))
               /\ Held(base, n) => base[n] = [wkb |-> SecondaryGeometry(f, n)]
    BY <1>1, BaseRowIs
  <1>3. \A c \in Base : (Held(row, c) <=> Held(base, c)) /\ (Held(base, c) => row[c] = base[c])
    BY DEF Extends, f
  <1>4. Geometry \in Base /\ Secondary \subseteq Base
    BY DEF Base
  <1> HIDE DEF base
  <1>5. ASSUME NEW n \in Secondary  PROVE DecodedGeometry(row, n) = SecondaryGeometry(f, n)
    <2>1. file.geo[n].encoded = "WKB"
      BY DEF GeoTells
    <2>2. CASE IsGeometry(SecondaryGeometry(f, n))
      <3>1. Held(row, n) /\ row[n] = [wkb |-> SecondaryGeometry(f, n)]
        BY <1>2, <1>3, <1>4, <2>2
      <3> QED
        BY <2>1, <3>1 DEF DecodedGeometry
    <2>3. CASE ~IsGeometry(SecondaryGeometry(f, n))
      <3>1. ~Held(row, n) /\ SecondaryGeometry(f, n) = NoGeometry
        BY <1>2, <1>3, <1>4, <2>3 DEF IsGeometry
      <3> QED
        BY <3>1 DEF DecodedGeometry
    <2> QED
      BY <2>2, <2>3
  <1> SUFFICES DecodedGeometry(row, Geometry) = g
    BY <1>5 DEF f
  <1>6. CASE ~IsGeometry(g)
    <2>1. ~Held(row, Geometry) /\ g = NoGeometry
      BY <1>2, <1>3, <1>4, <1>6 DEF IsGeometry
    <2> QED
      BY <2>1 DEF DecodedGeometry, f
  <1>7. CASE IsGeometry(g) /\ ~input.native
    <2>1. Held(row, Geometry) /\ row[Geometry] = [wkb |-> g]
      BY <1>2, <1>3, <1>4, <1>7 DEF GeometryCell
    <2>2. file.geo[Geometry].encoded = "WKB"
      BY <1>7, Zenon DEF GeoTells
    <2> QED
      BY <2>1, <2>2 DEF DecodedGeometry, f
  <1>8. CASE IsGeometry(g) /\ input.native
    <2>1. Held(row, Geometry) /\ row[Geometry] = [native |-> NativeCoordinates(g)]
      BY <1>2, <1>3, <1>4, <1>8 DEF GeometryCell
    <2>2. file.geo[Geometry].encoded = First.type
      BY <1>8, Zenon DEF GeoTells
    <2>3. ~NativeRefused /\ file.dimension = Dimension
      BY <1>8 DEF AllRead
    <2>4. i \in Present
      BY <1>8 DEF Present, AllRead, f
    <2>5. /\ First.type # "GeometryCollection"
          /\ \A k \in Present : Form(k) = <<First.type, First.dim>>
      BY <2>3 DEF NativeRefused
    <2>6. g.type = First.type /\ g.dim = First.dim
      BY <2>4, <2>5 DEF Form, f
    <2>7. Dimension = First.dim
      <3>1. \A k \in Present : Form(k)[2] = First.dim
        BY <2>5
      <3> QED
        BY <2>4, <3>1 DEF Dimension
    <2>8. IsSpelled(g)
      <3>1. IsNested(g) /\ f.valid => HasNoEmptyPart(g)
        BY <1>1 DEF IsFeature
      <3>2. f.valid /\ g.parts # <<>>
        BY <1>1, <1>8 DEF Refused
      <3>3. IsNested(g)
        BY <1>1 DEF IsFeature
      <3>4. g.type # "null"
        BY <1>8, <3>3 DEF IsNested, IsGeometry
      <3>5. HasNoEmptyPart(g)
        BY <1>1, <3>2, Zenon DEF IsFeature
      <3> QED
        BY <2>5, <2>6, <3>2, <3>3, <3>4, <3>5 DEF IsSpelled
    <2>9. First.type # "WKB"
      BY <2>6, <2>8 DEF IsSpelled, IsNested, Types
    <2>10. DecodedGeometry(row, Geometry) = NativeGeometry(First.type, file.dimension, NativeCoordinates(g))
      BY <2>1, <2>2, <2>9 DEF DecodedGeometry
    <2>11. NativeGeometry(g.type, g.dim, NativeCoordinates(g)) = g
      BY <2>8, NativeIsSame
    <2> QED
      BY <2>3, <2>6, <2>7, <2>10, <2>11 DEF f
  <1> QED
    BY <1>6, <1>7, <1>8

(* A value that was stored says the same.                                   *)
LEMMA StoredSame ==
  ASSUME NEW f, IsFeature(f), NEW p \in Valued(f), NEW kind \in {Kind(f.properties[p]), "json"}
  PROVE  SameValue(f.properties[p], Stored(f.properties[p], kind))
  <1> DEFINE v == f.properties[p]
  <1>1. v.form \in {"bool", "number", "string", "json", "geometry"}
    BY ValuedIs
  <1>2. v.form = "number" => v = [form |-> "number", point |-> v.point, value |-> v.value]
    <2>1. p \in DOMAIN f.properties
      BY DEF Valued, Plain, NullProperties
    <2> QED
      BY <2>1, Zenon DEF IsFeature
  <1> HIDE DEF v
  <1>3. CASE kind # "double"
    <2>1. Stored(v, kind) = v
      BY <1>3 DEF Stored
    <2> QED
      BY <2>1 DEF SameValue, v
  <1>4. CASE kind = "double"
    <2>1. kind = Kind(v)
      BY <1>4 DEF v
    <2>2. v.form = "number"
      <3>1. CASE v.form = "geometry"
        BY <1>4, <2>1, <3>1 DEF Kind
      <3>2. CASE v.form \in {"bool", "string", "json"}
        <4>1. Kind(v) = v.form
          BY <3>2 DEF Kind
        <4> QED
          BY <1>4, <2>1, <3>2, <4>1
      <3> QED
        BY <1>1, <3>1, <3>2
    <2>3. Rounded(v.value) = v.value
      <3>1. CASE v.point
        <4>1. Kind(v) = IF Rounded(v.value) = v.value THEN "double" ELSE "json"
          BY <2>2, <3>1 DEF Kind
        <4> QED
          BY <1>4, <2>1, <4>1
      <3>2. CASE ~v.point
        <4>1. Kind(v) = IF Fits(v.value) THEN "int" ELSE "json"
          BY <2>2, <3>2 DEF Kind
        <4> QED
          BY <1>4, <2>1, <4>1
      <3> QED
        BY <3>1, <3>2
    <2>4. Stored(v, kind) = [v EXCEPT !.value = Rounded(v.value)]
      BY <1>4 DEF Stored
    <2>5. Stored(v, kind).form = v.form /\ Stored(v, kind).value = v.value
      <3> DEFINE r == Rounded(v.value)
      <3>1. DOMAIN v = {"form", "point", "value"}
        BY <1>2, <2>2, Zenon
      <3>2. r = v.value
        BY <2>3
      <3> HIDE DEF r
      <3>3. [v EXCEPT !.value = r].form = v.form /\ [v EXCEPT !.value = r].value = r
        BY <3>1
      <3> QED
        BY <2>4, <3>2, <3>3 DEF r
    <2> QED
      BY <2>2, <2>5 DEF SameValue, v
  <1> QED
    BY <1>3, <1>4

(* A property without a name has a column without a name, which the decoder *)
(* takes for none: if it has a value, that is lost.                         *)
Lost(f) ==
    {name \in DOMAIN f.properties \intersect {Named("")} :
        ~input.streaming /\ ~IsNull(f.properties[name])}

(* So g has all of f that is not lost.                                      *)
KeepsFeature(f, g) ==
    /\ f.geometry = g.geometry /\ f.members = g.members /\ f.null = g.null
    /\ DOMAIN g.properties = DOMAIN f.properties \ Lost(f)
    /\ \A name \in DOMAIN g.properties : SameValue(f.properties[name], g.properties[name])

(* The ordinary properties of a row are those of its feature.               *)
PropertiesSame(f, row) ==
    /\ WithoutProperties(row) <=> f.null
    /\ f.null \/ /\ DOMAIN DecodedProperties(row) = (DOMAIN f.properties \ Secondary) \ Lost(f)
                 /\ \A p \in DOMAIN DecodedProperties(row) :
                       SameValue(f.properties[p], DecodedProperties(row)[p])

(* What the tool says of its file with the one pass, and with two.          *)
StreamTool == [columns |-> <<>>, streaming |-> TRUE]
TableTool == [columns |-> PropertyColumns, streaming |-> FALSE]

(* In the one value that the one-pass encoder writes.                       *)
LEMMA StreamedProperties ==
  ASSUME NEW f, IsFeature(f), ~SecondaryRefused, input.streaming, file.tool = StreamTool
  PROVE  PropertiesSame(f, StreamingRow(f))
  <1> DEFINE row == StreamingRow(f)
             plain == Plain(f)
  <1>1. row[Properties] = IF f.null THEN NullValue ELSE [json |-> plain]
    BY StreamingRowIs
  <1>2. file.tool.streaming
    <2>1. StreamTool.streaming = TRUE
      BY Zenon DEF StreamTool
    <2> QED
      BY <2>1
  <1> HIDE DEF row, plain
  <1>3. [json |-> plain] # NullValue
    <2>1. "json" \in DOMAIN [json |-> plain] /\ "json" \notin DOMAIN NullValue
      BY DEF NullValue
    <2> QED
      BY <2>1
  <1>4. IsNull(row[Properties]) <=> f.null
    BY <1>1, <1>3, Zenon DEF IsNull
  <1>5. WithoutProperties(row) <=> f.null
    BY <1>2, <1>4, Zenon DEF WithoutProperties
  <1>6. ASSUME ~f.null
        PROVE  /\ DOMAIN DecodedProperties(row) = (DOMAIN f.properties \ Secondary) \ Lost(f)
               /\ \A p \in DOMAIN DecodedProperties(row) :
                     SameValue(f.properties[p], DecodedProperties(row)[p])
    <2>1. row[Properties] = [json |-> plain]
      BY <1>1, <1>6, Zenon
    <2>2. DecodedProperties(row) = row[Properties].json
      BY <1>2, <1>4, <1>6, Zenon DEF DecodedProperties
    <2>3. DecodedProperties(row) = plain
      BY <2>1, <2>2
    <2>4. Lost(f) = {}
      BY Zenon DEF Lost
    <2>5. DOMAIN plain = DOMAIN f.properties \ Secondary
          /\ \A p \in DOMAIN plain : plain[p] = f.properties[p]
      BY DEF plain, Plain
    <2> QED
      BY <2>3, <2>4, <2>5 DEF SameValue
  <1> QED
    BY <1>5, <1>6, Zenon DEF PropertiesSame, row

(* In the columns that the two-pass encoder gives them, except that of the  *)
(* property without a name.                                                 *)
LEMMA TableProperties ==
  ASSUME input \in Inputs, ~SecondaryRefused, ~input.streaming, count = Len(input.features),
         KindsFit(count, kinds), file.tool = TableTool,
         NEW i \in 1..Len(input.features), NEW dimension
  PROVE  PropertiesSame(input.features[i], Row(input.features[i], PropertyColumns, dimension))
  <1> DEFINE f == input.features[i]
             columns == PropertyColumns
             row == Row(f, columns, dimension)
             rest == Valued(f) \ {Named("")}
  <1>1. IsFeature(f)
    BY FeaturesAre
  <1>2. \A p \in Valued(f) : p \in DOMAIN kinds /\ kinds[p] \in {Kind(f.properties[p]), "json"}
    BY DEF KindsFit
  <1>3. /\ DOMAIN columns = DOMAIN kinds
        /\ \A p \in DOMAIN kinds : columns[p] \notin Reserved \union Secondary
        /\ \A p, q \in DOMAIN kinds : p # q => columns[p] # columns[q]
        /\ \A p \in DOMAIN kinds : columns[p] = Named("") <=> p = Named("")
    BY ColumnsAre, NamelessColumn DEF KindsFit
  <1>4. Valued(f) \subseteq DOMAIN columns
    BY <1>2, <1>3
  <1>5. file.tool.columns = columns /\ ~file.tool.streaming
    <2>1. TableTool.streaming = FALSE
      BY Zenon DEF TableTool
    <2>2. TableTool.columns = columns
      BY Zenon DEF TableTool
    <2> QED
      BY <2>1, <2>2, Zenon
  <1> HIDE DEF f, columns
  <1>6. /\ Extends(row, BaseRow(f))
        /\ Held(row, Nulls) <=> NullProperties(f) # {}
        /\ Held(row, Nulls) => row[Nulls] = NullProperties(f)
        /\ \A p \in DOMAIN columns :
               /\ Held(row, columns[p]) <=> p \in Valued(f)
               /\ p \in Valued(f) => row[columns[p]] = Stored(f.properties[p], kinds[p])
    <2>1. /\ \A p \in DOMAIN columns : columns[p] \notin Reserved \union Secondary
          /\ \A p, q \in DOMAIN columns : p # q => columns[p] # columns[q]
      BY <1>3
    <2>2. Extends(row, BaseRow(f))
      BY <1>1, <1>4, <2>1, RowIs
    <2>3. /\ Held(row, Nulls) <=> NullProperties(f) # {}
          /\ Held(row, Nulls) => row[Nulls] = NullProperties(f)
      BY <1>1, <1>4, <2>1, RowIs
    <2>4. ASSUME NEW p \in DOMAIN columns
          PROVE  /\ Held(row, columns[p]) <=> p \in Valued(f)
                 /\ p \in Valued(f) => row[columns[p]] = Stored(f.properties[p], kinds[p])
      BY <1>1, <1>4, <2>1, RowIs
    <2> QED
      BY <2>2, <2>3, <2>4
  <1> HIDE DEF row
  <1>7. WithoutProperties(row) <=> f.null
    <2>1. Held(BaseRow(f), PropertiesNull) <=> f.null
      BY <1>1, BaseRowIs
    <2>2. Held(row, PropertiesNull) <=> Held(BaseRow(f), PropertiesNull)
      BY <1>6 DEF Extends, Base
    <2> QED
      BY <1>5, <2>1, <2>2, Zenon DEF WithoutProperties
  <1>8. Filled(row) = rest
    BY <1>2, <1>3, <1>4, <1>5, <1>6 DEF Filled
  <1> DEFINE A == [p \in NullProperties(f) |-> NullValue]
             B == [p \in rest |-> row[columns[p]]]
             decoded == DecodedProperties(row)
  <1>9. decoded = Over(A, B)
    <2>1. (IF Held(row, Nulls) THEN row[Nulls] ELSE {}) = NullProperties(f)
      BY <1>6
    <2>2. DecodedProperties(row) =
            Over([p \in (IF Held(row, Nulls) THEN row[Nulls] ELSE {}) |-> NullValue],
                 [p \in Filled(row) |-> row[file.tool.columns[p]]])
      BY <1>5, Zenon DEF DecodedProperties
    <2> QED
      BY <1>5, <1>8, <2>1, <2>2
  <1>10. DOMAIN decoded = NullProperties(f) \union rest
    BY <1>9 DEF Over
  <1>11. NullProperties(f) \union rest = (DOMAIN f.properties \ Secondary) \ Lost(f)
    <2>1. DOMAIN Plain(f) = DOMAIN f.properties \ Secondary
          /\ \A p \in DOMAIN Plain(f) : Plain(f)[p] = f.properties[p]
      BY DEF Plain
    <2>2. \A p : p \in NullProperties(f) <=> p \in DOMAIN f.properties \ Secondary /\ IsNull(f.properties[p])
      BY <2>1 DEF NullProperties
    <2>3. \A p : p \in Valued(f) <=> p \in DOMAIN f.properties \ Secondary /\ ~IsNull(f.properties[p])
      BY <2>1, <2>2 DEF Valued
    <2>4. Named("") \notin Secondary
      BY DEF SecondaryRefused
    <2>5. \A p : p \in Lost(f) <=> p \in DOMAIN f.properties /\ p = Named("") /\ ~IsNull(f.properties[p])
      BY DEF Lost
    <2> QED
      BY <2>2, <2>3, <2>4, <2>5
  <1>12. ASSUME NEW p \in NullProperties(f)  PROVE SameValue(f.properties[p], decoded[p])
    <2>1. f.properties[p] = NullValue
      BY DEF NullProperties, Plain, IsNull
    <2>2. decoded[p] = NullValue
      BY <1>9 DEF Over
    <2> QED
      BY <2>1, <2>2 DEF SameValue, NullValue
  <1>13. ASSUME NEW p \in rest  PROVE SameValue(f.properties[p], decoded[p])
    <2>1. p \notin NullProperties(f) /\ p \in Valued(f)
      BY DEF Valued
    <2>2. decoded[p] = row[columns[p]]
      BY <1>9, <2>1 DEF Over
    <2>3. row[columns[p]] = Stored(f.properties[p], kinds[p])
      BY <1>4, <1>6, <2>1
    <2>4. kinds[p] \in {Kind(f.properties[p]), "json"}
      BY <1>2, <2>1
    <2> QED
      BY <1>1, <2>1, <2>2, <2>3, <2>4, StoredSame
  <1> HIDE DEF decoded, rest
  <1>14. DOMAIN decoded = (DOMAIN f.properties \ Secondary) \ Lost(f)
         /\ \A p \in DOMAIN decoded : SameValue(f.properties[p], decoded[p])
    BY <1>10, <1>11, <1>12, <1>13
  <1> QED
    BY <1>7, <1>14, Zenon DEF PropertiesSame, f, row, columns, decoded

(* A row that keeps both is decoded to its feature, and not refused.        *)
LEMMA RowDecodes ==
  ASSUME AllRead, GeoTells, NEW i \in 1..Len(input.features), NEW row,
         Extends(row, BaseRow(input.features[i])), PropertiesSame(input.features[i], row),
         \A p \in DOMAIN file.tool.columns : file.tool.columns[p] \in file.schema,
         file.tool.streaming => Properties \in file.schema
  PROVE  KeepsFeature(input.features[i], DecodedFeature(row)) /\ ~RowRefused(row)
  <1> DEFINE f == input.features[i]
             restored == Restored(row)
             decoded == DecodedProperties(row)
             h == DecodedFeature(row)
             both == Over(restored, decoded)
  <1>1. IsFeature(f) /\ ~SecondaryRefused /\ ~Refused(f)
    BY FeaturesAre DEF AllRead, Taken
  <1>2. /\ DecodedGeometry(row, Geometry) = f.geometry
        /\ \A n \in Secondary : DecodedGeometry(row, n) = SecondaryGeometry(f, n)
    BY GeometriesDecoded
  <1>3. /\ WithoutProperties(row) <=> f.null
        /\ f.null \/ /\ DOMAIN decoded = (DOMAIN f.properties \ Secondary) \ Lost(f)
                     /\ \A p \in DOMAIN decoded : SameValue(f.properties[p], decoded[p])
    BY Zenon DEF PropertiesSame
  <1>4. Extends(row, BaseRow(f))
    OBVIOUS
  <1> HIDE DEF f, decoded
  <1>5. restored = [n \in Secondary |-> GeometryValue(SecondaryGeometry(f, n))]
    <2>1. DOMAIN file.geo \ {Geometry} = Secondary
      BY <1>1 DEF GeoTells, Columns, SecondaryRefused, Reserved
    <2> QED
      BY <1>2, <2>1 DEF Restored
  <1>6. \A n \in Secondary :
           /\ n \in DOMAIN f.properties
           /\ \/ IsNull(f.properties[n])
              \/ f.properties[n].form = "geometry" /\ f.properties[n].geometry # NoGeometry
    BY <1>1 DEF Refused, IsFeature
  <1>7. ASSUME NEW n \in Secondary  PROVE SameValue(f.properties[n], restored[n])
    <2>1. restored[n] = GeometryValue(SecondaryGeometry(f, n))
      BY <1>5
    <2>2. CASE IsNull(f.properties[n])
      <3>1. f.properties[n] = NullValue /\ SecondaryGeometry(f, n) = NoGeometry
        BY <2>2 DEF IsNull, SecondaryGeometry
      <3>2. restored[n] = NullValue
        BY <2>1, <3>1 DEF GeometryValue, IsGeometry
      <3> QED
        BY <3>1, <3>2 DEF SameValue, NullValue
    <2>3. CASE ~IsNull(f.properties[n])
      <3> DEFINE g == f.properties[n].geometry
      <3>1. f.properties[n].form = "geometry" /\ g # NoGeometry
        BY <1>6, <2>3
      <3>2. SecondaryGeometry(f, n) = g
        BY <2>3 DEF SecondaryGeometry
      <3> HIDE DEF g
      <3>3. restored[n] = [form |-> "geometry", geometry |-> g]
        BY <2>1, <3>1, <3>2 DEF GeometryValue, IsGeometry
      <3> QED
        BY <3>1, <3>3 DEF SameValue, g
    <2> QED
      BY <2>2, <2>3
  <1>8. DOMAIN restored = Secondary
    BY <1>5
  <1> HIDE DEF restored
  <1>9. h.geometry = f.geometry
    BY <1>2 DEF DecodedFeature
  <1>10. h.members = f.members
    <2>1. f.members \subseteq Members
      BY <1>1 DEF IsFeature
    <2>2. \A m \in Members : Held(row, MemberColumn(m)) <=> m \in f.members
      <3>1. \A m \in Members : Held(BaseRow(f), MemberColumn(m)) <=> m \in f.members
        BY <1>1, BaseRowIs
      <3>2. \A m \in Members : Held(row, MemberColumn(m)) <=> Held(BaseRow(f), MemberColumn(m))
        BY <1>4 DEF Extends, Base, MemberColumns
      <3> QED
        BY <3>1, <3>2
    <2>3. {m \in Members : Held(row, MemberColumn(m))} = f.members
      BY <2>1, <2>2
    <2> QED
      BY <2>3 DEF DecodedFeature
  <1>11. h.null = f.null
    <2>1. h.null = WithoutProperties(row)
      BY Zenon DEF DecodedFeature
    <2>2. f.null \in BOOLEAN
      BY <1>1, Zenon DEF IsFeature
    <2>3. WithoutProperties(row) \in BOOLEAN
      <3>1. IsNull(row[Properties]) \in BOOLEAN /\ Held(row, PropertiesNull) \in BOOLEAN
        BY DEF IsNull, Held
      <3>2. CASE file.tool.streaming
        BY <3>1, <3>2, Zenon DEF WithoutProperties
      <3>3. CASE ~file.tool.streaming
        BY <3>1, <3>3, Zenon DEF WithoutProperties
      <3> QED
        BY <3>2, <3>3
    <2> QED
      BY <1>3, <2>1, <2>2, <2>3, Zenon
  <1>12. h.properties = IF WithoutProperties(row) THEN <<>> ELSE both
    BY Zenon DEF DecodedFeature, restored, decoded
  <1>13. CASE f.null
    <2>1. DOMAIN f.properties = {}
      BY <1>1, <1>13, Zenon DEF IsFeature
    <2>2. h.properties = <<>> /\ WithoutProperties(row)
      BY <1>3, <1>12, <1>13, Zenon
    <2>3. Secondary = {}
      BY <1>6, <2>1
    <2>4. DOMAIN h.properties = {} /\ DOMAIN f.properties \ Lost(f) = {}
      BY <2>1, <2>2
    <2>5. KeepsFeature(f, h)
      BY <1>9, <1>10, <1>11, <2>4, Zenon DEF KeepsFeature
    <2>6. DOMAIN restored = {}
      BY <1>8, <2>3
    <2>7. ~RowRefused(row)
      BY <2>2, <2>6, Zenon DEF RowRefused, restored
    <2> QED
      BY <2>5, <2>7 DEF f
  <1>14. CASE ~f.null
    <2>1. /\ DOMAIN decoded = (DOMAIN f.properties \ Secondary) \ Lost(f)
          /\ \A p \in DOMAIN decoded : SameValue(f.properties[p], decoded[p])
          /\ ~WithoutProperties(row) /\ h.properties = both
      BY <1>3, <1>12, <1>14, Zenon
    <2>2. Secondary \intersect Lost(f) = {}
      BY <1>1 DEF Lost, SecondaryRefused
    <2>3. /\ DOMAIN both = Secondary \union DOMAIN decoded
          /\ \A p \in Secondary : both[p] = restored[p]
          /\ \A p \in DOMAIN decoded : p \notin Secondary => both[p] = decoded[p]
      BY <1>8, OverIs DEF Over
    <2> HIDE DEF both
    <2>4. DOMAIN both = DOMAIN f.properties \ Lost(f)
      BY <1>6, <2>1, <2>2, <2>3
    <2>5. \A p \in DOMAIN both : SameValue(f.properties[p], both[p])
      BY <1>7, <2>1, <2>3
    <2>6. KeepsFeature(f, h)
      BY <1>9, <1>10, <1>11, <2>1, <2>4, <2>5, Zenon DEF KeepsFeature
    <2>7. DOMAIN restored \intersect DOMAIN decoded = {}
      BY <1>8, <2>1
    <2>8. ~RowRefused(row)
      BY <2>1, <2>7, Zenon DEF RowRefused, restored, decoded
    <2> QED
      BY <2>6, <2>8 DEF f
  <1> QED
    BY <1>13, <1>14

-----------------------------------------------------------------------------
(* What the file holds, and what was decoded.                               *)

(* The rows of the features, of the one-pass encoder and of the other.      *)
StreamedFile ==
    /\ file.tool = StreamTool /\ file.schema = StreamingSchema
    /\ \A i \in 1..Len(file.rows) : file.rows[i] = StreamingRow(input.features[i])

TableFile ==
    /\ file.tool = TableTool /\ file.schema = Schema(PropertyColumns, Dimension)
    /\ file.dimension = Dimension
    /\ \A i \in 1..Len(file.rows) : file.rows[i] = Row(input.features[i], PropertyColumns, Dimension)

(* Nothing is amiss while it is written,                                    *)
InHand ==
    /\ input.streaming /\ pc = "read" => StreamedFile
    /\ ~input.streaming /\ pc = "rows" => TableFile /\ AllRead /\ GeoTells

(* and once it is,                                                          *)
Complete ==
    encoding = "ok" =>
       /\ input.streaming => StreamedFile
       /\ ~input.streaming => TableFile
       /\ AllRead /\ GeoTells /\ Len(file.rows) = Len(input.features)
       /\ pc \in {"close", "encoded", "decode", "done"} /\ (pc = "close" \/ file.footer = TRUE)

(* nor in what comes back.                                                  *)
Decoded ==
    encoding = "ok" /\ pc \in {"decode", "done"} =>
       /\ decoding \in {"", "ok", "read or write failed"}
       /\ \A i \in 1..Len(output) : KeepsFeature(input.features[i], output[i])

TripInv == InHand /\ Complete /\ Decoded

(* None of it depends on anything that changes once everything is read.     *)
LEMMA TripSame ==
  ASSUME input' = input
  PROVE  /\ StreamTool' = StreamTool /\ StreamingSchema' = StreamingSchema
         /\ \A f : StreamingRow(f)' = StreamingRow(f)
         /\ \A f, g : KeepsFeature(f, g)' <=> KeepsFeature(f, g)
         /\ count' = count /\ kinds' = kinds =>
               /\ TableTool' = TableTool /\ First' = First
               /\ \A f, c, d : Row(f, c, d)' = Row(f, c, d)
  <1>1. Secondary' = Secondary
    BY SecondarySame
  <1>2. StreamTool' = StreamTool /\ StreamingSchema' = StreamingSchema
    BY <1>1 DEF StreamTool, StreamingSchema
  <1>3. \A f : BaseRow(f)' = BaseRow(f)
    BY <1>1 DEF BaseRow, SecondaryGeometry, GeometryCell
  <1>4. \A f : Plain(f)' = Plain(f)
    BY <1>1 DEF Plain
  <1>5. \A f : StreamingRow(f)' = StreamingRow(f)
    BY <1>3, <1>4 DEF StreamingRow
  <1>6. \A f : NullProperties(f)' = NullProperties(f)
    BY <1>4 DEF NullProperties
  <1>7. \A f, g : KeepsFeature(f, g)' <=> KeepsFeature(f, g)
    BY DEF KeepsFeature, Lost
  <1>8. ASSUME count' = count, kinds' = kinds
        PROVE  /\ TableTool' = TableTool /\ First' = First
               /\ \A f, c, d : Row(f, c, d)' = Row(f, c, d)
    <2>1. PropertyColumns' = PropertyColumns
      BY <1>8, ReadySame
    <2>2. First' = First
      BY <1>8 DEF First, Present
    <2>3. \A f, c, d : Row(f, c, d)' = Row(f, c, d)
      BY <1>3, <1>4, <1>6, <1>8 DEF Row
    <2> QED
      BY <2>1, <2>2, <2>3 DEF TableTool
  <1> QED
    BY <1>2, <1>5, <1>7, <1>8

(* So it stays if the file does, or what it says of itself and its rows.    *)
LEMMA FilesSame ==
  ASSUME input' = input, file'.tool = file.tool, file'.schema = file.schema, file'.rows = file.rows
  PROVE  /\ StreamedFile' <=> StreamedFile
         /\ count' = count /\ kinds' = kinds /\ file'.dimension = file.dimension =>
               /\ TableFile' <=> TableFile
               /\ AllRead' <=> AllRead
               /\ file'.geo = file.geo => (GeoTells' <=> GeoTells)
  <1>1. StreamedFile' <=> StreamedFile
    BY TripSame DEF StreamedFile
  <1>2. ASSUME count' = count, kinds' = kinds, file'.dimension = file.dimension
        PROVE  /\ TableFile' <=> TableFile
               /\ AllRead' <=> AllRead
               /\ file'.geo = file.geo => (GeoTells' <=> GeoTells)
    <2>1. /\ PropertyColumns' = PropertyColumns /\ Dimension' = Dimension
          /\ NativeRefused' <=> NativeRefused
          /\ Schema(PropertyColumns, Dimension)' = Schema(PropertyColumns, Dimension)
      BY <1>2, ReadySame
    <2>2. TableTool' = TableTool /\ First' = First
      BY <1>2, TripSame
    <2>3. \A f : Row(f, PropertyColumns, Dimension)' = Row(f, PropertyColumns, Dimension)
      BY <1>2, <2>1, TripSame
    <2>4. TableFile' <=> TableFile
      BY <1>2, <2>1, <2>2, <2>3 DEF TableFile
    <2>5. AllRead' <=> AllRead
      BY <1>2, <2>1, SecondarySame, NextParts DEF AllRead
    <2>6. file'.geo = file.geo => (GeoTells' <=> GeoTells)
      BY <2>2, SecondarySame DEF GeoTells
    <2> QED
      BY <2>4, <2>5, <2>6
  <1> QED
    BY <1>1, <1>2

(* A step that fails, or has not begun to write.                            *)
LEMMA NothingHeld ==
  ASSUME input' = input, encoding' # "ok", pc' # "rows", input.streaming => pc' # "read"
  PROVE  TripInv'
  BY DEF TripInv, InHand, Complete, Decoded

(* A sequence of anything and one element more.                             *)
LEMMA AppendIs ==
  ASSUME NEW s, NEW e, IsSeq(s)
  PROVE  /\ Len(s) \in Nat /\ Len(Append(s, e)) = Len(s) + 1 /\ Append(s, e)[Len(s) + 1] = e
         /\ \A i \in 1..Len(s) : Append(s, e)[i] = s[i]
         /\ \A i \in 1..Len(s) + 1 : i \in 1..Len(s) \/ i = Len(s) + 1
  <1> DEFINE n == Len(s)
             more == Append(s, e)
  <1>1. PICK S : s \in Seq(S)
    BY DEF IsSeq
  <1>2. s \in Seq(S \union {e}) /\ n \in Nat
    BY <1>1
  <1>3. Len(more) = n + 1 /\ more[n + 1] = e /\ \A i \in 1..n : more[i] = s[i]
    BY <1>2
  <1>4. \A i \in 1..n + 1 : i \in 1..n \/ i = n + 1
    BY <1>2
  <1> QED
    BY <1>2, <1>3, <1>4

-----------------------------------------------------------------------------
(* The encoders write it.                                                   *)

(* At first nothing is written.                                             *)
LEMMA TripBegins == ASSUME Init  PROVE TripInv
  BY DEF Init, TripInv, InHand, Complete, Decoded

(* What the tool says, changed.                                             *)
LEMMA ToolsAre ==
  ASSUME NEW s, NEW t, NEW columns
  PROVE  /\ [[columns |-> <<>>, streaming |-> s] EXCEPT !.streaming = t]
               = [columns |-> <<>>, streaming |-> t]
         /\ [[columns |-> <<>>, streaming |-> s] EXCEPT !.columns = columns]
               = [columns |-> columns, streaming |-> s]
  OBVIOUS

(* What Start writes.                                                       *)
LEMMA StartedFile ==
  ASSUME file = EmptyFile, NEW t, NEW schema,
         file' = [file EXCEPT !.tool.streaming = t, !.schema = schema]
  PROVE  /\ file'.tool = [NoTool EXCEPT !.streaming = t] /\ file'.schema = schema
         /\ file'.rows = <<>>
  <1> DEFINE f == [file EXCEPT !.tool.streaming = t]
  <1>1. file' = [f EXCEPT !.schema = schema]
    BY Zenon
  <1>2. DOMAIN file = Fields /\ file.rows = <<>> /\ file.tool = NoTool
    BY EmptyFits
  <1>3. /\ DOMAIN f = Fields /\ f.rows = <<>> /\ f.tool = [NoTool EXCEPT !.streaming = t]
    BY <1>2 DEF Fields
  <1> HIDE DEF f
  <1> QED
    BY <1>1, <1>3 DEF Fields

(* The settings are good or the encoder returns.                            *)
LEMMA TripStart ==
  ASSUME EncoderInv, Start
  PROVE  TripInv'
  <1>1. pc = "start" /\ input' = input /\ file = EmptyFile /\ encoding = ""
    BY DEF Start, EncoderInv, Settled, Written
  <1>2. encoding' # "ok" /\ pc' \in {"encoded", "read"}
    BY <1>1 DEF Start, Return
  <1>3. ASSUME input.streaming, pc' = "read"  PROVE StreamedFile'
    <2>1. file' = [file EXCEPT !.tool.streaming = TRUE, !.schema = StreamingSchema]
      BY <1>3, Zenon DEF Start, Return
    <2>2. /\ file'.tool = [NoTool EXCEPT !.streaming = TRUE] /\ file'.schema = StreamingSchema
          /\ file'.rows = <<>>
      BY <1>1, <2>1, StartedFile, Zenon
    <2>3. file'.tool = StreamTool
      BY <2>2, ToolsAre, Zenon DEF NoTool, StreamTool
    <2>4. Len(<<>>) = 0 /\ 1..0 = {}
      OBVIOUS
    <2>5. \A i \in 1..Len(file'.rows) : file'.rows[i] = StreamingRow(input.features[i])'
      BY <2>2, <2>4
    <2>6. StreamTool' = StreamTool /\ StreamingSchema' = StreamingSchema
      BY <1>1, TripSame
    <2> QED
      BY <2>2, <2>3, <2>5, <2>6 DEF StreamedFile
  <1> QED
    BY <1>1, <1>2, <1>3 DEF TripInv, InHand, Complete, Decoded

(* The two-pass encoder reads,                                              *)
LEMMA TripCollect ==
  ASSUME EncoderInv, Collect
  PROVE  TripInv'
  <1>1. pc = "read" /\ ~input.streaming /\ input' = input /\ encoding = ""
    BY DEF Collect, EncoderInv, Settled
  <1>2. encoding' # "ok" /\ pc' \in {"encoded", "read"}
    BY <1>1 DEF Collect, Return
  <1> QED
    BY <1>1, <1>2, NothingHeld

(* and what is read fails.                                                  *)
LEMMA TripReadFails ==
  ASSUME ReadFails
  PROVE  TripInv'
  BY NothingHeld DEF ReadFails, Fail, Return, CloseAfter

(* The one-pass encoder writes a row, or ends.                              *)
LEMMA TripStream ==
  ASSUME EncoderInv, WholeInv, TripInv, Stream
  PROVE  TripInv'
  <1> DEFINE f == input.features[count + 1]
             row == StreamingRow(f)
  <1>1. /\ pc = "read" /\ input.streaming /\ input' = input /\ encoding = ""
    BY DEF Stream, EncoderInv, Settled
  <1>2. \/ pc' = "close" /\ encoding' # "ok"
        \/ AddRow(row) /\ pc' = pc /\ encoding' = encoding
    <2>1. CASE Refused(f)
      BY <2>1 DEF Stream, CloseAfter
    <2>2. CASE ~Refused(f)
      BY <2>2, Zenon DEF Stream, CloseAfter
    <2> QED
      BY <2>1, <2>2
  <1>3. CASE pc' = "close" /\ encoding' # "ok"
    BY <1>1, <1>3, NothingHeld
  <1>4. CASE AddRow(row) /\ pc' = pc /\ encoding' = encoding
    <2>1. FileType /\ Len(file.rows) = count
      BY <1>1 DEF WholeInv, StreamInv
    <2>2. StreamedFile
      BY <1>1 DEF TripInv, InHand
    <2> HIDE DEF row
    <2>3. /\ file'.rows = Append(file.rows, row) /\ file'.tool = file.tool
          /\ file'.schema = file.schema
      BY <1>4, <2>1, AddRowLeaves
    <2> DEFINE n == Len(file.rows)
               rows == Append(file.rows, row)
    <2>4. /\ Len(rows) = n + 1 /\ rows[n + 1] = row /\ \A i \in 1..n : rows[i] = file.rows[i]
          /\ \A i \in 1..n + 1 : i \in 1..n \/ i = n + 1
      BY <2>1, AppendIs DEF FileType
    <2>5. rows[n + 1] = StreamingRow(input.features[n + 1])
      BY <2>1, <2>4 DEF row
    <2>6. \A i \in 1..n : file.rows[i] = StreamingRow(input.features[i])
      BY <2>2 DEF StreamedFile
    <2> HIDE DEF rows, n
    <2>7. \A i \in 1..Len(rows) : rows[i] = StreamingRow(input.features[i])
      BY <2>4, <2>5, <2>6
    <2>8. \A i \in 1..Len(file'.rows) : file'.rows[i] = StreamingRow(input.features[i])
      BY <2>3, <2>7 DEF rows
    <2>9. \A i : StreamingRow(input.features[i])' = StreamingRow(input.features[i])
      BY <1>1, TripSame
    <2>10. StreamedFile'
      BY <1>1, <2>2, <2>3, <2>8, <2>9, TripSame DEF StreamedFile
    <2> QED
      BY <1>1, <1>4, <2>10 DEF TripInv, InHand, Complete, Decoded
  <1> QED
    BY <1>2, <1>3, <1>4

(* The metadata of everything says how each column is encoded.              *)
LEMMA MetadataTells ==
  ASSUME Geometry \notin Secondary
  PROVE  /\ DOMAIN Metadata = Columns /\ \A c \in Secondary : Metadata[c].encoded = "WKB"
         /\ Metadata[Geometry].encoded = IF input.native THEN First.type ELSE "WKB"
  <1>1. DOMAIN Metadata = Columns
    BY DEF Metadata, Columns
  <1>2. Metadata[Geometry] = PrimaryColumn /\ \A c \in Secondary : Metadata[c] = SecondaryColumn(c)
    BY Zenon DEF Metadata
  <1>3. ASSUME NEW c \in Secondary  PROVE SecondaryColumn(c).encoded = "WKB"
    <2>1. PICK s : SecondaryColumn(c) = Described(s, "WKB")
      BY Zenon DEF SecondaryColumn
    <2>2. Described(s, "WKB").encoded = "WKB"
      BY DEF Described
    <2> QED
      BY <2>1, <2>2, Zenon
  <1>4. PrimaryColumn.encoded = IF input.native THEN First.type ELSE "WKB"
    <2> DEFINE e == IF input.native THEN First.type ELSE "WKB"
    <2>1. PICK box : PrimaryColumn = [encoded |-> e, types |-> {Form(i) : i \in Present},
                                      bbox |-> box]
      BY Zenon DEF PrimaryColumn
    <2> HIDE DEF e
    <2>2. PrimaryColumn.encoded = e
      BY <2>1
    <2> QED
      BY <2>2 DEF e
  <1> QED
    BY <1>1, <1>2, <1>3, <1>4

(* The file is described.                                                   *)
LEMMA TripDescribe ==
  ASSUME EncoderInv, Describe
  PROVE  TripInv'
  <1>1. /\ pc = "read" /\ ~input.streaming /\ count = Len(input.features)
        /\ input' = input /\ count' = count /\ kinds' = kinds
    BY DEF Describe
  <1>2. /\ input \in Inputs /\ Taken(count) /\ file = EmptyFile
        /\ encoding = "" /\ ~SecondaryRefused
    BY <1>1 DEF EncoderInv, Settled, Known, Written
  <1>3. CASE (input.native /\ NativeRefused) \/ ~Marshals(Metadata)
    <2>1. pc' = "encoded" /\ encoding' \in {"not native", "bad metadata"}
      BY <1>3, Zenon DEF Describe, Return
    <2> QED
      BY <1>1, <2>1, NothingHeld
  <1>4. CASE ~(input.native /\ NativeRefused) /\ Marshals(Metadata)
    <2>1. /\ pc' = "rows" /\ encoding' = encoding
          /\ file' = [file EXCEPT !.geo = Metadata, !.dimension = Dimension,
                                  !.tool.columns = PropertyColumns,
                                  !.schema = Schema(PropertyColumns, Dimension)]
      BY <1>4, Zenon DEF Describe
    <2>2. /\ file'.geo = Metadata /\ file'.rows = <<>> /\ file'.dimension = Dimension
          /\ file'.tool = [NoTool EXCEPT !.columns = PropertyColumns]
          /\ file'.schema = Schema(PropertyColumns, Dimension)
      BY <1>2, <2>1, DescribedFile
    <2>3. file'.tool = TableTool
      BY <2>2, ToolsAre, Zenon DEF NoTool, TableTool
    <2>4. Len(<<>>) = 0 /\ 1..0 = {}
      OBVIOUS
    <2>5. \A i \in 1..Len(file'.rows) : file'.rows[i] = Row(input.features[i], PropertyColumns, Dimension)'
      BY <2>2, <2>4
    <2>6. /\ PropertyColumns' = PropertyColumns /\ Dimension' = Dimension
          /\ NativeRefused' <=> NativeRefused
          /\ Schema(PropertyColumns, Dimension)' = Schema(PropertyColumns, Dimension)
          /\ TableTool' = TableTool /\ First' = First
      BY <1>1, ReadySame, TripSame
    <2>7. TableFile'
      BY <2>2, <2>3, <2>5, <2>6 DEF TableFile
    <2>8. AllRead'
      BY <1>1, <1>2, <1>4, <2>2, <2>6, NextParts DEF AllRead
    <2>9. Geometry \notin Secondary
      BY <1>2 DEF SecondaryRefused, Reserved
    <2>10. GeoTells'
      BY <1>1, <2>2, <2>6, <2>9, MetadataTells, SecondarySame DEF GeoTells
    <2> QED
      BY <1>1, <1>2, <2>1, <2>7, <2>8, <2>10 DEF TripInv, InHand, Complete, Decoded
  <1> QED
    BY <1>3, <1>4

(* A row more of the two-pass encoder, or why it stops.                     *)
LEMMA TripWriteRow ==
  ASSUME EncoderInv, WholeInv, TripInv, WriteRow
  PROVE  TripInv'
  <1> DEFINE n == Len(file.rows)
             f == input.features[n + 1]
             row == Row(f, file.tool.columns, file.dimension)
  <1>1. /\ pc = "rows" /\ input' = input /\ count' = count /\ kinds' = kinds
    BY DEF WriteRow
  <1>2. RowsReady /\ encoding = "" /\ FileType
    BY <1>1 DEF EncoderInv, Settled, Written, WholeInv
  <1>3. TableFile /\ AllRead /\ GeoTells /\ ~input.streaming
    BY <1>1, <1>2 DEF TripInv, InHand, RowsReady
  <1>4. \/ pc' = "close" /\ encoding' # "ok"
        \/ AddRow(row) /\ pc' = pc /\ encoding' = encoding
    <2>1. CASE RowFails(f)
      BY <2>1 DEF WriteRow, CloseAfter
    <2>2. CASE ~RowFails(f)
      <3>1. \/ pc' = "close" /\ encoding' = "write failed"
            \/ AddRow(row) /\ pc' = pc /\ encoding' = encoding
        BY <2>2, Zenon DEF WriteRow, CloseAfter
      <3> QED
        BY <3>1
    <2> QED
      BY <2>1, <2>2
  <1>5. CASE pc' = "close" /\ encoding' # "ok"
    BY <1>1, <1>5, NothingHeld
  <1>6. CASE AddRow(row) /\ pc' = pc /\ encoding' = encoding
    <2>1. row = Row(f, PropertyColumns, Dimension)
      BY <1>2, <1>3 DEF RowsReady, TableFile
    <2> HIDE DEF row
    <2>2. /\ file'.rows = Append(file.rows, row) /\ file'.geo = file.geo
          /\ file'.tool = file.tool /\ file'.schema = file.schema
          /\ file'.dimension = file.dimension
      BY <1>2, <1>6, AddRowLeaves
    <2> DEFINE rows == Append(file.rows, row)
    <2>3. /\ Len(rows) = n + 1 /\ rows[n + 1] = row /\ \A i \in 1..n : rows[i] = file.rows[i]
          /\ \A i \in 1..n + 1 : i \in 1..n \/ i = n + 1
      BY <1>2, AppendIs DEF FileType
    <2>4. rows[n + 1] = Row(input.features[n + 1], PropertyColumns, Dimension)
      BY <2>1, <2>3
    <2>5. \A i \in 1..n : file.rows[i] = Row(input.features[i], PropertyColumns, Dimension)
      BY <1>3 DEF TableFile
    <2> HIDE DEF rows, n
    <2>6. \A i \in 1..Len(rows) : rows[i] = Row(input.features[i], PropertyColumns, Dimension)
      BY <2>3, <2>4, <2>5
    <2>7. \A i \in 1..Len(file'.rows) : file'.rows[i] = Row(input.features[i], PropertyColumns, Dimension)
      BY <2>2, <2>6 DEF rows
    <2>8. /\ PropertyColumns' = PropertyColumns /\ Dimension' = Dimension
          /\ NativeRefused' <=> NativeRefused
          /\ Schema(PropertyColumns, Dimension)' = Schema(PropertyColumns, Dimension)
          /\ TableTool' = TableTool /\ First' = First
      BY <1>1, ReadySame, TripSame
    <2>9. \A i : Row(input.features[i], PropertyColumns, Dimension)'
                   = Row(input.features[i], PropertyColumns, Dimension)
      BY <1>1, <2>8, TripSame
    <2>10. TableFile'
      BY <1>3, <2>2, <2>7, <2>8, <2>9 DEF TableFile
    <2>11. AllRead'
      BY <1>1, <1>3, <2>2, <2>8, NextParts DEF AllRead
    <2>12. GeoTells'
      BY <1>1, <1>3, <2>2, <2>8, SecondarySame DEF GeoTells
    <2> QED
      BY <1>1, <1>2, <1>3, <1>6, <2>10, <2>11, <2>12 DEF TripInv, InHand, Complete, Decoded
  <1> QED
    BY <1>4, <1>5, <1>6

(* All rows are written.                                                    *)
LEMMA TripEndOfRows ==
  ASSUME EncoderInv, TripInv, EndOfRows
  PROVE  TripInv'
  <1>1. /\ pc = "rows" /\ pc' = "close" /\ encoding' = "ok" /\ file' = file
        /\ Len(file.rows) = count /\ UNCHANGED <<input, count, kinds>>
    BY DEF EndOfRows, CloseAfter
  <1>2. RowsReady
    BY <1>1 DEF EncoderInv, Written
  <1>3. TableFile /\ AllRead /\ GeoTells /\ ~input.streaming /\ Len(file.rows) = Len(input.features)
    BY <1>1, <1>2 DEF TripInv, InHand, RowsReady
  <1>4. TableFile' /\ AllRead' /\ GeoTells'
    BY <1>1, <1>3, FilesSame
  <1> QED
    BY <1>1, <1>3, <1>4 DEF TripInv, InHand, Complete, Decoded

(* A stream is described by what was gathered.                              *)
LEMMA TripDescribeStream ==
  ASSUME EncoderInv, WholeInv, TripInv, DescribeStream
  PROVE  TripInv'
  <1>1. /\ pc = "read" /\ pc' = "close" /\ input.streaming /\ count = Len(input.features)
        /\ UNCHANGED <<input, count, kinds, stats>>
    BY DEF DescribeStream, CloseAfter
  <1>2. /\ input \in Inputs /\ Taken(count) /\ StatsFit(count, stats)
        /\ ~SecondaryRefused /\ ~input.native
    BY <1>1 DEF EncoderInv, Settled, Known
  <1>3. FileType /\ Len(file.rows) = count
    BY <1>1 DEF WholeInv, StreamInv
  <1>4. CASE Marshals(StreamingMetadata)
    <2>1. encoding' = "ok" /\ file' = [file EXCEPT !.geo = StreamingMetadata]
      BY <1>4, Zenon DEF DescribeStream, CloseAfter
    <2>2. /\ file'.geo = StreamingMetadata /\ file'.rows = file.rows /\ file'.tool = file.tool
          /\ file'.schema = file.schema /\ file'.dimension = file.dimension
      BY <1>3, <2>1 DEF FileType, Fields
    <2>3. StreamedFile'
      BY <1>1, <2>2, FilesSame DEF TripInv, InHand
    <2>4. AllRead'
      BY <1>1, <1>2, NextParts DEF AllRead
    <2>5. DOMAIN StreamingMetadata = Columns /\ \A c \in Columns : StreamingMetadata[c].encoded = "WKB"
      <3>1. \A c \in Columns : StreamingMetadata[c] = Described(stats[c], "WKB")
        BY <1>2 DEF StreamingMetadata, StatsFit
      <3>2. \A s : Described(s, "WKB").encoded = "WKB"
        BY DEF Described
      <3>3. DOMAIN StreamingMetadata = Columns
        BY <1>2 DEF StreamingMetadata, StatsFit
      <3> QED
        BY <3>1, <3>2, <3>3, Zenon
    <2>6. GeoTells'
      BY <1>1, <1>2, <2>2, <2>5, SecondarySame DEF GeoTells, Columns
    <2> QED
      BY <1>1, <1>3, <2>1, <2>2, <2>3, <2>4, <2>6 DEF TripInv, InHand, Complete, Decoded
  <1>5. CASE ~Marshals(StreamingMetadata)
    <2>1. encoding' = "bad metadata"
      BY <1>5, Zenon DEF DescribeStream, CloseAfter
    <2> QED
      BY <1>1, <2>1, NothingHeld
  <1> QED
    BY <1>4, <1>5

(* A field of the file is set.                                              *)
LEMMA FooterSet ==
  ASSUME FileType, NEW b, file' = [file EXCEPT !.footer = b]
  PROVE  /\ file'.footer = b /\ file'.geo = file.geo /\ file'.rows = file.rows
         /\ file'.tool = file.tool /\ file'.schema = file.schema
         /\ file'.dimension = file.dimension
  BY DEF FileType, Fields

(* The writer is closed.                                                    *)
LEMMA TripClose ==
  ASSUME WholeInv, TripInv, CloseWriter
  PROVE  TripInv'
  <1>1. pc = "close" /\ pc' = "encoded" /\ UNCHANGED <<input, count, kinds>>
    BY DEF CloseWriter
  <1>2. CASE encoding' # "ok"
    BY <1>1, <1>2, NothingHeld
  <1>3. CASE encoding' = "ok"
    <2>1. file' = [file EXCEPT !.footer = TRUE] /\ encoding = "ok"
      <3>1. \/ file' = [file EXCEPT !.footer = TRUE] /\ encoding' = encoding
            \/ encoding' = IF encoding = "ok" THEN "close failed" ELSE encoding
        BY Zenon DEF CloseWriter
      <3> QED
        BY <1>3, <3>1
    <2>2. /\ file'.footer = TRUE /\ file'.geo = file.geo /\ file'.rows = file.rows
          /\ file'.tool = file.tool /\ file'.schema = file.schema
          /\ file'.dimension = file.dimension
      BY <2>1, FooterSet, Zenon DEF WholeInv
    <2>3. /\ StreamedFile' <=> StreamedFile
          /\ TableFile' <=> TableFile
          /\ AllRead' <=> AllRead
          /\ GeoTells' <=> GeoTells
      BY <1>1, <2>2, FilesSame
    <2>4. /\ input.streaming => StreamedFile'
          /\ ~input.streaming => TableFile'
          /\ AllRead' /\ GeoTells' /\ Len(file.rows) = Len(input.features)
      BY <1>1, <2>1, <2>3 DEF TripInv, Complete
    <2> QED
      BY <1>1, <2>2, <2>4 DEF TripInv, InHand, Complete, Decoded
  <1> QED
    BY <1>2, <1>3

-----------------------------------------------------------------------------
(* The decoder finds it.                                                    *)

(* A file that is complete has a row for each feature, that is decoded to   *)
(* it: one that was streamed,                                               *)
LEMMA StreamedDecodes ==
  ASSUME StreamedFile, AllRead, GeoTells, input.streaming,
         NEW i \in 1..Len(file.rows), i \in 1..Len(input.features)
  PROVE  /\ KeepsFeature(input.features[i], DecodedFeature(file.rows[i]))
         /\ ~RowRefused(file.rows[i])
  <1> DEFINE f == input.features[i]
             row == file.rows[i]
  <1>1. IsFeature(f) /\ ~SecondaryRefused
    BY FeaturesAre DEF AllRead
  <1>2. row = StreamingRow(f) /\ file.tool = StreamTool /\ file.schema = StreamingSchema
    BY DEF StreamedFile
  <1>3. Extends(row, BaseRow(f)) /\ PropertiesSame(f, row)
    BY <1>1, <1>2, StreamingRowIs, StreamedProperties
  <1>4. \A p \in DOMAIN file.tool.columns : file.tool.columns[p] \in file.schema
    <2>1. StreamTool.columns = <<>>
      BY Zenon DEF StreamTool
    <2>2. DOMAIN <<>> = {}
      OBVIOUS
    <2>3. DOMAIN file.tool.columns = {}
      BY <1>2, <2>1, <2>2
    <2> QED
      BY <2>3
  <1>5. Properties \in file.schema
    <2>1. Properties # Covering
      BY DEF Properties, Covering, Named
    <2> QED
      BY <1>2, <2>1 DEF StreamingSchema, Reserved
  <1> QED
    BY <1>3, <1>4, <1>5, RowDecodes

(* and one with a column for each property.                                 *)
LEMMA TableDecodes ==
  ASSUME TableFile, AllRead, GeoTells, ~input.streaming, KindsFit(count, kinds),
         NEW i \in 1..Len(file.rows), i \in 1..Len(input.features)
  PROVE  /\ KeepsFeature(input.features[i], DecodedFeature(file.rows[i]))
         /\ ~RowRefused(file.rows[i])
  <1> DEFINE f == input.features[i]
             row == file.rows[i]
  <1>1. IsFeature(f) /\ ~SecondaryRefused /\ count = Len(input.features) /\ input \in Inputs
    BY FeaturesAre DEF AllRead
  <1>2. /\ row = Row(f, PropertyColumns, Dimension) /\ file.tool = TableTool
        /\ file.schema = Schema(PropertyColumns, Dimension)
    BY DEF TableFile
  <1>3. PropertiesSame(f, row)
    BY <1>1, <1>2, TableProperties
  <1>4. Extends(row, BaseRow(f))
    <2>1. /\ DOMAIN PropertyColumns = DOMAIN kinds
          /\ \A p \in DOMAIN kinds : PropertyColumns[p] \notin Reserved \union Secondary
          /\ \A p, q \in DOMAIN kinds : p # q => PropertyColumns[p] # PropertyColumns[q]
      <3>1. DOMAIN kinds \subseteq Elements(Names)
        BY DEF KindsFit
      <3> QED
        BY <1>1, <3>1, ColumnsAre
    <2>2. Valued(f) \subseteq DOMAIN kinds
      BY <1>1 DEF KindsFit
    <2> HIDE DEF f, row
    <2> QED
      BY <1>1, <1>2, <2>1, <2>2, RowIs
  <1>5. file.tool.columns = PropertyColumns /\ ~file.tool.streaming
    <2>1. TableTool.streaming = FALSE
      BY Zenon DEF TableTool
    <2>2. TableTool.columns = PropertyColumns
      BY Zenon DEF TableTool
    <2> QED
      BY <1>2, <2>1, <2>2, Zenon
  <1>6. \A p \in DOMAIN file.tool.columns : file.tool.columns[p] \in file.schema
    BY <1>2, <1>5 DEF Schema
  <1> QED
    BY <1>3, <1>4, <1>5, <1>6, RowDecodes

(* The file does not change, and is called GeoParquet.                      *)
LEMMA TripDecodes ==
  ASSUME TripInv, Open \/ DecodeRow \/ DecodeFails \/ EndOfFile
  PROVE  /\ InHand' /\ Complete' /\ encoding' = encoding /\ input' = input
         /\ encoding = "ok" => file.footer = TRUE /\ file.geo # NoGeo
  <1>1. /\ UNCHANGED <<input, count, kinds, file, encoding>>
        /\ pc \in {"encoded", "decode"} /\ pc' \in {"decode", "done"}
    BY DEF Open, DecodeRow, DecodeFails, EndOfFile, encoderVars
  <1>2. /\ StreamedFile' <=> StreamedFile
        /\ TableFile' <=> TableFile
        /\ AllRead' <=> AllRead
        /\ GeoTells' <=> GeoTells
    BY <1>1, FilesSame
  <1>3. InHand'
    BY <1>1 DEF InHand
  <1>4. Complete'
    BY <1>1, <1>2 DEF TripInv, Complete
  <1>5. ASSUME encoding = "ok"  PROVE file.footer = TRUE /\ file.geo # NoGeo
    <2>1. file.footer = TRUE /\ GeoTells
      BY <1>1, <1>5 DEF TripInv, Complete
    <2>2. Geometry \in DOMAIN file.geo /\ DOMAIN <<>> = {}
      BY <2>1 DEF GeoTells, Columns
    <2> QED
      BY <2>1, <2>2 DEF NoGeo
  <1> QED
    BY <1>1, <1>3, <1>4, <1>5

(* The file is opened,                                                      *)
LEMMA TripOpen ==
  ASSUME WholeInv, TripInv, Open
  PROVE  TripInv'
  <1>1. /\ pc = "encoded" /\ output' = output
        /\ encoding = "ok" => decoding' = decoding
    BY TripDecodes, Zenon DEF Open
  <1>2. next = 1 /\ decoding = "" /\ Len(output) = next - 1
    BY <1>1 DEF WholeInv, DecodeInv
  <1>3. 1..Len(output') = {}
    <2>1. 1 - 1 = 0 /\ 1..0 = {}
      OBVIOUS
    <2> QED
      BY <1>1, <1>2, <2>1
  <1>4. Decoded'
    BY <1>1, <1>2, <1>3, TripDecodes DEF Decoded
  <1> QED
    BY <1>4, TripDecodes DEF TripInv

(* a row is decoded,                                                        *)
LEMMA TripDecodeRow ==
  ASSUME EncoderInv, WholeInv, TripInv, DecodeRow
  PROVE  TripInv'
  <1> DEFINE row == file.rows[next]
  <1>1. pc = "decode" /\ next <= Len(file.rows)
    BY DEF DecodeRow
  <1> SUFFICES Decoded'
    BY TripDecodes DEF TripInv
  <1> SUFFICES ASSUME encoding = "ok"  PROVE Decoded'
    BY TripDecodes DEF Decoded
  <1>2. /\ input.streaming => StreamedFile
        /\ ~input.streaming => TableFile
        /\ AllRead /\ GeoTells /\ Len(file.rows) = Len(input.features)
    BY DEF TripInv, Complete
  <1>3. /\ next \in Nat \ {0} /\ IsSeq(output) /\ Len(output) = next - 1 /\ decoding = ""
        /\ Len(file.rows) \in Nat
    BY <1>1, AppendGrows DEF WholeInv, DecodeInv, FileType
  <1>4. next \in 1..Len(file.rows) /\ next \in 1..Len(input.features)
    <2> DEFINE n == next
               m == Len(file.rows)
    <2>1. n \in Nat /\ n # 0 /\ m \in Nat /\ n <= m
      BY <1>1, <1>3
    <2> HIDE DEF n, m
    <2>2. n \in 1..m
      BY <2>1
    <2> QED
      BY <1>2, <2>2 DEF n, m
  <1>5. KeepsFeature(input.features[next], DecodedFeature(row)) /\ ~RowRefused(row)
    <2>1. CASE input.streaming
      BY <1>2, <1>4, <2>1, StreamedDecodes
    <2>2. CASE ~input.streaming
      <3>1. KindsFit(count, kinds)
        BY <2>2 DEF EncoderInv, Known
      <3> QED
        BY <1>2, <1>4, <2>2, <3>1, TableDecodes
    <2> QED
      BY <2>1, <2>2
  <1>6. output' = Append(output, DecodedFeature(row)) /\ decoding' = decoding
    BY <1>5, Zenon DEF DecodeRow
  <1> DEFINE g == DecodedFeature(row)
             k == Len(output)
             more == Append(output, g)
  <1> HIDE DEF g
  <1>7. k + 1 = next
    <2> DEFINE n == next
    <2>1. n \in Nat /\ k = n - 1
      BY <1>3
    <2> HIDE DEF n, k
    <2>2. k + 1 = n
      BY <2>1
    <2> QED
      BY <2>2 DEF n
  <1>8. /\ Len(more) = k + 1 /\ more[k + 1] = g /\ \A i \in 1..k : more[i] = output[i]
        /\ \A i \in 1..k + 1 : i \in 1..k \/ i = k + 1
    <2>1. IsSeq(output)
      BY <1>3
    <2>2. \A e : /\ Len(Append(output, e)) = Len(output) + 1
                /\ Append(output, e)[Len(output) + 1] = e
                /\ \A i \in 1..Len(output) : Append(output, e)[i] = output[i]
      BY <2>1, AppendIs
    <2>3. \A i \in 1..k + 1 : i \in 1..k \/ i = k + 1
      BY <2>1, AppendIs
    <2> QED
      BY <2>2, <2>3
  <1>9. \A i \in 1..k : KeepsFeature(input.features[i], output[i])
    BY <1>1 DEF TripInv, Decoded
  <1>10. KeepsFeature(input.features[k + 1], g)
    BY <1>5, <1>7 DEF g
  <1>11. output' = more
    BY <1>6 DEF g
  <1> HIDE DEF more, k, row
  <1>12. \A i \in 1..Len(more) : KeepsFeature(input.features[i], more[i])
    BY <1>8, <1>9, <1>10
  <1>13. \A i \in 1..Len(output') : KeepsFeature(input.features[i], output'[i])
    BY <1>11, <1>12
  <1>14. \A i \in 1..Len(output') : KeepsFeature(input.features[i], output[i])'
    BY <1>13, TripSame, TripDecodes
  <1> QED
    BY <1>3, <1>6, <1>14 DEF Decoded

(* and the decoder ends.                                                    *)
LEMMA TripEnd ==
  ASSUME WholeInv, TripInv, DecodeFails \/ EndOfFile
  PROVE  TripInv'
  <1>1. pc = "decode" /\ output' = output /\ decoding' \in {"ok", "read or write failed"}
    BY DEF DecodeFails, EndOfFile
  <1>2. Decoded'
    BY <1>1, TripDecodes, TripSame DEF TripInv, Decoded
  <1> QED
    BY <1>2, TripDecodes DEF TripInv

(* Every step keeps it.                                                     *)
LEMMA TripStep ==
  ASSUME EncoderInv, WholeInv, TripInv, [Next]_vars
  PROVE  TripInv'
  <1>1. CASE Start \/ Collect \/ ReadFails
    BY <1>1, TripStart, TripCollect, TripReadFails
  <1>2. CASE Stream \/ Describe \/ WriteRow
    BY <1>2, TripStream, TripDescribe, TripWriteRow
  <1>3. CASE EndOfRows \/ DescribeStream \/ CloseWriter
    BY <1>3, TripEndOfRows, TripDescribeStream, TripClose
  <1>4. CASE Open \/ DecodeRow \/ DecodeFails \/ EndOfFile
    BY <1>4, TripOpen, TripDecodeRow, TripEnd
  <1>5. CASE UNCHANGED vars
    <2>1. UNCHANGED <<input, pc, count, kinds, file, encoding, output, decoding>>
      BY <1>5 DEF vars, encoderVars, decoderVars
    <2>2. /\ StreamedFile' <=> StreamedFile
          /\ TableFile' <=> TableFile
          /\ AllRead' <=> AllRead
          /\ GeoTells' <=> GeoTells
      BY <2>1, FilesSame
    <2>3. InHand' /\ Complete'
      BY <2>1, <2>2 DEF TripInv, InHand, Complete
    <2>4. Decoded'
      BY <2>1, TripSame DEF TripInv, Decoded
    <2> QED
      BY <2>3, <2>4 DEF TripInv
  <1> QED
    BY <1>1, <1>2, <1>3, <1>4, <1>5 DEF Next, Returned

(* What comes back of any features at all.                                  *)
KeepsNamed ==
    encoding = "ok" /\ pc \in {"decode", "done"} =>
       /\ decoding \in {"", "ok", "read or write failed"}
       /\ \A i \in DOMAIN output :
             i \in 1..Len(input.features) /\ KeepsFeature(input.features[i], output[i])
       /\ decoding = "ok" => Len(output) = Len(input.features)

(* Whatever features there are and however they are written: what the       *)
(* decoder puts out of a file that was written without an error are the     *)
(* features, in order, with everything that they say, the value of a        *)
(* property without a name excepted, which needs -stream; and nothing in    *)
(* the file keeps the decoder from its end (encodeGeoParquetWithSettings,   *)
(* decodeGeoParquet).                                                       *)
THEOREM NamedIsKept == Spec => [](KeepsNamed /\ input \in Inputs)
  <1>1. ASSUME WholeInv, TripInv  PROVE KeepsNamed
    <2> SUFFICES ASSUME encoding = "ok", pc \in {"decode", "done"}
                 PROVE  /\ decoding \in {"", "ok", "read or write failed"}
                        /\ \A i \in DOMAIN output :
                              /\ i \in 1..Len(input.features)
                              /\ KeepsFeature(input.features[i], output[i])
                        /\ decoding = "ok" => Len(output) = Len(input.features)
      BY DEF KeepsNamed
    <2>1. /\ decoding \in {"", "ok", "read or write failed"}
          /\ \A i \in 1..Len(output) : KeepsFeature(input.features[i], output[i])
          /\ Len(file.rows) = Len(input.features)
      BY <1>1 DEF TripInv, Decoded, Complete
    <2>2. DOMAIN output = 1..Len(output)
      <3>1. PICK S : output \in Seq(S)
        BY <1>1 DEF WholeInv, DecodeInv, IsSeq
      <3> QED
        BY <3>1
    <2>3. /\ \A i \in 1..Len(output) : i \in 1..Len(file.rows)
          /\ decoding = "ok" => Len(output) = Len(file.rows)
      <3>1. Len(file.rows) \in Nat
        BY <1>1, AppendGrows DEF WholeInv, FileType
      <3>2. /\ next \in Nat \ {0} /\ Len(output) = next - 1 /\ next <= Len(file.rows) + 1
            /\ decoding = "ok" => next > Len(file.rows)
        BY <1>1 DEF WholeInv, DecodeInv
      <3>3. \A a, b \in Nat : a # 0 /\ a <= b + 1 =>
               /\ \A i \in 1..a - 1 : i \in 1..b
               /\ a > b => a - 1 = b
        OBVIOUS
      <3> QED
        BY <3>1, <3>2, <3>3, Zenon
    <2> QED
      BY <2>1, <2>2, <2>3
  <1>2. ASSUME WholeInv  PROVE FileType
    BY <1>2 DEF WholeInv
  <1>3. ASSUME EncoderInv  PROVE input \in Inputs
    BY <1>3 DEF EncoderInv, Settled
  <1> QED
    BY <1>1, <1>2, <1>3, WholeBegins, WholeStep, EncoderBegins, EncoderStep, TripBegins, TripStep,
       PTL DEF Spec

(* Without -stream every property has a name.                               *)
NamelessIsStreamed ==
    \A in \in Inputs :
       in.streaming \/ \A f \in Elements(in.features) : Named("") \notin DOMAIN f.properties

(* So, if a property without a name is only given to -stream, every feature *)
(* comes back as it was.                                                    *)
THEOREM RoundTripCorrect ==
  ASSUME NamelessIsStreamed
  PROVE  Spec => []RoundTrip
  <1>1. ASSUME KeepsNamed, input \in Inputs  PROVE RoundTrip
    <2> SUFFICES ASSUME encoding = "ok", pc \in {"decode", "done"}, NEW i \in DOMAIN output
                 PROVE  SameFeature(input.features[i], output[i])
      BY <1>1 DEF RoundTrip, KeepsNamed
    <2> DEFINE f == input.features[i]
               g == output[i]
    <2>1. i \in 1..Len(input.features) /\ KeepsFeature(f, g)
      BY <1>1 DEF KeepsNamed
    <2>2. f \in Elements(input.features)
      BY <1>1, <2>1, FeaturesAre
    <2>3. input.streaming \/ Named("") \notin DOMAIN f.properties
      BY <1>1, <2>2 DEF NamelessIsStreamed
    <2> HIDE DEF f, g
    <2>4. Lost(f) = {}
      BY <2>3 DEF Lost
    <2> QED
      BY <2>1, <2>4 DEF KeepsFeature, SameFeature, f, g
  <1> QED
    BY <1>1, NamedIsKept, PTL

=============================================================================
