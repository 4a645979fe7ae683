------------------------- MODULE TileArchiveProofs -------------------------
(***************************************************************************)
(* Theorems about TileArchive, for every sequence of features, every zoom, *)
(* every limit and every failure.                                          *)
(***************************************************************************)
EXTENDS TileArchive, FiniteSetTheorems, SequenceTheorems, WellFoundedInduction, TLAPS

IsSeq(s) == \E S : s \in Seq(S)

(* No index is below the first.                                             *)
LEMMA NoIndex == 1..0 = {}
  OBVIOUS

(* Induction up to a bound, with a set in place of a predicate: the         *)
(* well-founded relation is that between the sets of what is above a        *)
(* number.                                                                  *)
LEMMA UpTo ==
  ASSUME NEW n \in Nat, NEW D, 0 \in D, \A k \in 0..n - 1 : k \in D => k + 1 \in D
  PROVE  \A k \in 0..n : k \in D
  <1> DEFINE Above(j) == {k \in 0..n : j <= k}
             R == StrictSubsetOrdering(0..n)
             F == FiniteSubsetsOf(0..n)
             T == {Above(j) : j \in {k \in 0..n : \A i \in 0..k : i \in D}}
  <1>1. IsFiniteSet(0..n)
    BY FS_Interval
  <1>2. F = SUBSET (0..n)
    BY <1>1, FS_FiniteSubsetsOfFinite
  <1>3. IsWellFoundedOn(R, F)
    BY FS_StrictSubsetOrderingWellFounded
  <1>4. Above(0) \in T
    OBVIOUS
  <1>5. T \subseteq F
    BY <1>2
  <1>6. PICK x \in T : \A y \in T : ~(<<y, x>> \in R)
    BY <1>3, <1>4, <1>5, WFMin
  <1>7. PICK j \in 0..n : x = Above(j) /\ \A i \in 0..j : i \in D
    BY <1>6
  <1>8. j = n
    <2> SUFFICES ASSUME j # n  PROVE FALSE
      OBVIOUS
    <2>1. j + 1 \in 0..n /\ j \in 0..n-1
      OBVIOUS
    <2>2. \A i \in 0..j + 1 : i \in D
      BY <1>7, <2>1
    <2>3. Above(j + 1) \in T
      BY <2>1, <2>2
    <2>4. Above(j + 1) \subseteq x /\ Above(j + 1) # x
      BY <1>7, <2>1
    <2>5. <<Above(j + 1), x>> \in R
      BY <2>3, <2>4, <1>2, <1>5, <1>6 DEF StrictSubsetOrdering
    <2> QED
      BY <1>6, <2>3, <2>5
  <1> QED
    BY <1>7, <1>8

(* A sequence has a length and a domain.                                    *)
LEMMA SeqFacts ==
  ASSUME NEW s, IsSeq(s)
  PROVE  /\ Len(s) \in Nat /\ DOMAIN s = 1..Len(s) /\ (s = <<>> <=> Len(s) = 0)
         /\ s = [i \in 1..Len(s) |-> s[i]]
  BY DEF IsSeq

(* What two sequences have end to end.                                      *)
LEMMA ConcatSet ==
  ASSUME NEW S, NEW s \in Seq(S), NEW t \in Seq(S)
  PROVE  ToSet(s \o t) = ToSet(s) \union ToSet(t) /\ s \o t \in Seq(S)
  <1>1. /\ s \o t \in Seq(S) /\ Len(s \o t) = Len(s) + Len(t)
        /\ \A i \in 1..Len(s) + Len(t) :
             (s \o t)[i] = IF i <= Len(s) THEN s[i] ELSE t[i - Len(s)]
    BY ConcatProperties
  <1>2. /\ Len(s) \in Nat /\ Len(t) \in Nat /\ DOMAIN s = 1..Len(s) /\ DOMAIN t = 1..Len(t)
        /\ DOMAIN (s \o t) = 1..Len(s) + Len(t)
    BY <1>1
  <1> DEFINE u == s \o t
  <1> HIDE DEF u
  <1>3. \A i \in 1..Len(s) : i \in DOMAIN u /\ u[i] = s[i]
    BY <1>1, <1>2 DEF u
  <1>4. ASSUME NEW i \in 1..Len(t)  PROVE Len(s) + i \in DOMAIN u /\ u[Len(s) + i] = t[i]
    <2>1. Len(s) + i \in 1..Len(s) + Len(t) /\ ~(Len(s) + i <= Len(s)) /\ (Len(s) + i) - Len(s) = i
      BY <1>2
    <2> QED
      BY <2>1, <1>1, <1>2 DEF u
  <1>5. \A i \in DOMAIN u : (i \in 1..Len(s) /\ u[i] = s[i])
                            \/ (i - Len(s) \in 1..Len(t) /\ u[i] = t[i - Len(s)])
    BY <1>1, <1>2 DEF u
  <1>6. ToSet(u) = ToSet(s) \union ToSet(t)
    BY <1>2, <1>3, <1>4, <1>5 DEF ToSet
  <1> QED
    BY <1>1, <1>6 DEF u

(* The types that a field has in some of the features.                      *)
With(fs, key) == {k \in DOMAIN fs : key \in DOMAIN fs[k].fields}
Types(fs, key) == {fs[i].fields[key] : i \in With(fs, key)}

Agreed(types) ==
    IF Cardinality(types) = 1 THEN CHOOSE x \in types : TRUE ELSE "String"

(* A finite set has one member if its cardinality says so.                  *)
LEMMA AgreedIs ==
  ASSUME NEW T, IsFiniteSet(T)
  PROVE  /\ \A x : T = {x} => Agreed(T) = x
         /\ (\A x : T # {x}) => Agreed(T) = "String"
  <1>1. ASSUME NEW x, T = {x}  PROVE Agreed(T) = x
    <2>1. Cardinality(T) = 1
      BY <1>1, FS_Singleton
    <2>2. (CHOOSE y \in T : TRUE) = x
      BY <1>1
    <2> QED
      BY <2>1, <2>2 DEF Agreed
  <1>2. ASSUME \A x : T # {x}  PROVE Agreed(T) = "String"
    <2>1. Cardinality(T) # 1
      BY <1>2, FS_Singleton
    <2> QED
      BY <2>1 DEF Agreed
  <1> QED
    BY <1>1, <1>2

(* One type more: what is agreed upon can be told from what was.            *)
LEMMA AgreedAdds ==
  ASSUME NEW T, IsFiniteSet(T), T # {}, NEW v
  PROVE  Agreed(T \union {v}) = IF Agreed(T) # v THEN "String" ELSE v
  <1> DEFINE U == T \union {v}
  <1>1. IsFiniteSet(U)
    BY FS_AddElement
  <1>2. CASE \E x : T = {x}
    <2>1. PICK x : T = {x}
      BY <1>2
    <2>2. Agreed(T) = x
      BY <2>1, AgreedIs
    <2>3. CASE x = v
      <3>1. U = {v}
        BY <2>1, <2>3
      <3> QED
        BY <1>1, <2>2, <2>3, <3>1, AgreedIs
    <2>4. CASE x # v
      <3>1. \A y : U # {y}
        BY <2>1, <2>4
      <3> QED
        BY <1>1, <2>2, <2>4, <3>1, AgreedIs
    <2> QED
      BY <2>3, <2>4
  <1>3. CASE \A x : T # {x}
    <2>1. \A y : U # {y}
      BY <1>3
    <2>2. Agreed(T) = "String" /\ Agreed(U) = "String"
      BY <1>1, <1>3, <2>1, AgreedIs
    <2> QED
      BY <2>2
  <1> QED
    BY <1>2, <1>3

(* A feature more.                                                          *)
LEMMA TypesAdd ==
  ASSUME NEW fs, IsSeq(fs), NEW f, NEW key
  PROVE  /\ IsSeq(Append(fs, f))
         /\ Types(Append(fs, f), key) = Types(fs, key) \union
               (IF key \in DOMAIN f.fields THEN {f.fields[key]} ELSE {})
  <1> DEFINE gs == Append(fs, f)
             n == Len(fs)
  <1>1. PICK S : fs \in Seq(S)
    BY DEF IsSeq
  <1>2. fs \in Seq(S \union {f})
    BY <1>1
  <1>3. /\ gs \in Seq(S \union {f}) /\ n \in Nat
        /\ DOMAIN fs = 1..n /\ DOMAIN gs = 1..n + 1
        /\ \A i \in 1..n : gs[i] = fs[i]
        /\ gs[n + 1] = f
    BY <1>2
  <1>4. IsSeq(gs)
    BY <1>3 DEF IsSeq
  <1>5. With(gs, key) = With(fs, key) \union (IF key \in DOMAIN f.fields THEN {n + 1} ELSE {})
    BY <1>3 DEF With
  <1>6. \A i \in With(fs, key) : gs[i] = fs[i]
    BY <1>3 DEF With
  <1>7. Types(gs, key) = Types(fs, key) \union
               (IF key \in DOMAIN f.fields THEN {f.fields[key]} ELSE {})
    <2>1. Types(fs, key) = {gs[i].fields[key] : i \in With(fs, key)}
      BY <1>6 DEF Types
    <2>2. Types(gs, key) = {gs[i].fields[key] : i \in With(gs, key)}
      BY DEF Types
    <2> HIDE DEF gs
    <2>3. CASE key \in DOMAIN f.fields
      <3>1. With(gs, key) = With(fs, key) \union {n + 1}
        BY <1>5, <2>3
      <3> QED
        BY <1>3, <2>1, <2>2, <2>3, <3>1
    <2>4. CASE key \notin DOMAIN f.fields
      <3>1. With(gs, key) = With(fs, key)
        BY <1>5, <2>4
      <3> QED
        BY <2>1, <2>2, <2>4, <3>1
    <2> QED
      BY <2>3, <2>4
  <1> QED
    BY <1>4, <1>7

(* While the archive is made the table has the fields of the features, and  *)
(* the types that they agree upon.                                          *)
FieldsInv ==
    result = "" /\ pc # "commit" =>
      /\ IsSeq(features)
      /\ \A key : IsFiniteSet(Types(features, key))
      /\ \A key : key \in DOMAIN layerFields <=> Types(features, key) # {}
      /\ \A key \in DOMAIN layerFields : layerFields[key] = Agreed(Types(features, key))

(* One feature more agrees, or changes a field to String.                   *)
LEMMA ReadFeatureKeeps ==
  ASSUME FieldsInv, ReadFeature, pc # "commit", result = ""
  PROVE  FieldsInv'
  <1>1. CASE result' # ""
    BY <1>1 DEF FieldsInv
  <1>2. CASE result' = ""
    <2>1. PICK f : /\ features' = Append(features, f)
                   /\ layerFields' = [key \in DOMAIN layerFields \union DOMAIN f.fields
                                        |-> Typed(f, key)]
      BY <1>2 DEF ReadFeature, Rollback
    <2>2. /\ IsSeq(features)
          /\ \A key : IsFiniteSet(Types(features, key))
          /\ \A key : key \in DOMAIN layerFields <=> Types(features, key) # {}
          /\ \A key \in DOMAIN layerFields : layerFields[key] = Agreed(Types(features, key))
      BY DEF FieldsInv
    <2> DEFINE new(key) == IF key \in DOMAIN f.fields THEN {f.fields[key]} ELSE {}
    <2>3. \A key : Types(features', key) = Types(features, key) \union new(key)
      BY <2>1, <2>2, TypesAdd
    <2>4. IsSeq(features')
      BY <2>1, <2>2, TypesAdd
    <2>5. ASSUME NEW key  PROVE IsFiniteSet(Types(features', key))
      <3>1. CASE key \in DOMAIN f.fields
        <4>1. IsFiniteSet(Types(features, key) \cup {f.fields[key]})
          BY <2>2, FS_AddElement
        <4>2. Types(features', key) = Types(features, key) \union {f.fields[key]}
          BY <2>3, <3>1
        <4> QED
          BY <4>1, <4>2
      <3>2. CASE key \notin DOMAIN f.fields
        <4>1. Types(features', key) = Types(features, key)
          BY <2>3, <3>2
        <4> QED
          BY <2>2, <4>1
      <3> QED
        BY <3>1, <3>2
    <2>6. ASSUME NEW key  PROVE key \in DOMAIN layerFields' <=> Types(features', key) # {}
      BY <2>1, <2>2, <2>3
    <2>7. ASSUME NEW key \in DOMAIN layerFields'
          PROVE  layerFields'[key] = Agreed(Types(features', key))
      <3>1. layerFields'[key] = Typed(f, key)
            /\ key \in DOMAIN layerFields \union DOMAIN f.fields
        BY <2>1, <2>7
      <3>2. CASE key \notin DOMAIN f.fields
        <4>1. Typed(f, key) = layerFields[key] /\ key \in DOMAIN layerFields
          BY <3>1, <3>2 DEF Typed
        <4>2. Types(features', key) = Types(features, key)
          BY <2>3, <3>2
        <4> QED
          BY <2>2, <3>1, <4>1, <4>2
      <3>3. CASE key \in DOMAIN f.fields /\ key \notin DOMAIN layerFields
        <4>1. Typed(f, key) = f.fields[key]
          BY <3>3 DEF Typed
        <4>2. Types(features', key) = {f.fields[key]}
          BY <2>2, <2>3, <3>3
        <4> QED
          BY <2>5, <3>1, <4>1, <4>2, AgreedIs
      <3>4. CASE key \in DOMAIN f.fields /\ key \in DOMAIN layerFields
        <4>1. Typed(f, key) = IF layerFields[key] # f.fields[key] THEN "String"
                              ELSE f.fields[key]
          BY <3>4 DEF Typed
        <4>2. Types(features', key) = Types(features, key) \union {f.fields[key]}
          BY <2>3, <3>4
        <4>3. /\ layerFields[key] = Agreed(Types(features, key))
              /\ Types(features, key) # {} /\ IsFiniteSet(Types(features, key))
          BY <2>2, <3>4
        <4>4. Agreed(Types(features, key) \union {f.fields[key]}) =
                IF Agreed(Types(features, key)) # f.fields[key] THEN "String"
                ELSE f.fields[key]
          BY <4>3, AgreedAdds
        <4> QED
          BY <3>1, <4>1, <4>2, <4>3, <4>4
      <3> QED
        BY <3>1, <3>2, <3>3, <3>4
    <2> QED
      BY <2>4, <2>5, <2>6, <2>7 DEF FieldsInv, IsSeq, Types, With
  <1> QED
    BY <1>1, <1>2

(* The steps that leave the features as they are, or give up.               *)
LEMMA OtherKeeps ==
  ASSUME FieldsInv,
         \/ StageTile \/ EndFeature \/ EndOfInput \/ (\E t \in tiles : WriteTile(t))
         \/ EndOfTiles \/ DropStaging \/ Commit \/ StatementFails \/ UNCHANGED vars
  PROVE  FieldsInv'
  <1>1. \/ result' # "" \/ pc' = "commit"
        \/ /\ UNCHANGED <<features, layerFields>> /\ result' = result
           /\ pc # "commit"
        \/ UNCHANGED <<features, layerFields, result, pc>>
    <2>1. CASE StageTile
      BY <2>1 DEF StageTile, Rollback
    <2>2. CASE EndFeature \/ EndOfInput
      BY <2>2 DEF EndFeature, EndOfInput, sourceVars
    <2>3. CASE \E t \in tiles : WriteTile(t)
      BY <2>3 DEF WriteTile, Rollback
    <2>4. CASE EndOfTiles
      BY <2>4 DEF EndOfTiles, Rollback
    <2>5. CASE DropStaging \/ Commit \/ StatementFails
      BY <2>5 DEF DropStaging, Commit, StatementFails, Rollback
    <2>6. CASE UNCHANGED vars
      BY <2>6 DEF vars, sourceVars
    <2> QED
      BY <2>1, <2>2, <2>3, <2>4, <2>5, <2>6
  <1>2. CASE result' # "" \/ pc' = "commit"
    BY <1>2 DEF FieldsInv
  <1>3. CASE ~(result' # "" \/ pc' = "commit")
    <2>1. /\ UNCHANGED <<features, layerFields>> /\ result = "" /\ pc # "commit"
      BY <1>1, <1>3
    <2>2. \A key : Types(features, key)' = Types(features, key)
      BY <2>1 DEF Types, With
    <2> QED
      BY <2>1, <2>2 DEF FieldsInv, IsSeq
  <1> QED
    BY <1>2, <1>3

(* A field is given the type that it has in all the features, or String,    *)
(* whatever their order and number (updateArchiveLayerFields).              *)
THEOREM FieldsAgreeCorrect == Spec => []FieldsAgree
  <1>1. ASSUME Init  PROVE FieldsInv
    <2>1. features = <<>> /\ layerFields = <<>>
      BY <1>1 DEF Init
    <2>2. IsSeq(features)
      BY <2>1 DEF IsSeq
    <2>3. \A key : Types(features, key) = {}
      BY <2>1 DEF Types, With
    <2>4. \A key : key \notin DOMAIN layerFields
      BY <2>1
    <2> QED
      BY <2>2, <2>3, <2>4, FS_EmptySet DEF FieldsInv
  <1>2. ASSUME FieldsInv, [Next]_vars  PROVE FieldsInv'
    <2>1. CASE ReadFeature
      <3>1. pc = "read"
        BY <2>1 DEF ReadFeature
      <3>2. CASE result = ""
        BY <1>2, <2>1, <3>1, <3>2, ReadFeatureKeeps
      <3>3. CASE result # ""
        <4>1. result' # ""
          BY <2>1, <3>3 DEF ReadFeature, Rollback
        <4> QED
          BY <4>1 DEF FieldsInv
      <3> QED
        BY <3>2, <3>3
    <2>2. CASE ~ReadFeature
      BY <1>2, <2>2, OtherKeeps DEF Next, Returned
    <2> QED
      BY <2>1, <2>2
  <1>3. ASSUME FieldsInv  PROVE FieldsAgree
    BY <1>3, Zenon DEF FieldsInv, FieldsAgree, Types, With, Agreed
  <1> QED
    BY <1>1, <1>2, <1>3, PTL DEF Spec

-----------------------------------------------------------------------------
(* The count and the order of the tiles.                                    *)

Tile == Nat \X Nat \X Nat

(* The order in which tiles are listed is total.                            *)
LEMMA BeforeOrders ==
  ASSUME NEW t \in Tile, NEW u \in Tile, NEW v \in Tile \cup {NoTile}
  PROVE  /\ ~Before(t, t) /\ Before(NoTile, t)
         /\ t # u => Before(t, u) \/ Before(u, t)
         /\ Before(v, t) /\ Before(t, u) => Before(v, u)
  <1>1. /\ t = <<t[1], t[2], t[3]>> /\ u = <<u[1], u[2], u[3]>>
        /\ t[1] \in Nat /\ t[2] \in Nat /\ t[3] \in Nat
        /\ u[1] \in Nat /\ u[2] \in Nat /\ u[3] \in Nat
    BY DEF Tile
  <1>2. v[1] \in Int /\ v[2] \in Int /\ v[3] \in Int
    BY DEF Tile, NoTile
  <1>3. NoTile[1] = -1
    BY DEF NoTile
  <1>4. ~Before(t, t) /\ Before(NoTile, t)
    BY <1>1, <1>3 DEF Before
  <1>5. t # u => Before(t, u) \/ Before(u, t)
    <2>1. t # u => t[1] # u[1] \/ t[2] # u[2] \/ t[3] # u[3]
      BY <1>1
    <2> QED
      BY <1>1, <2>1 DEF Before
  <1>6. Before(v, t) /\ Before(t, u) => Before(v, u)
    BY <1>1, <1>2 DEF Before
  <1> QED
    BY <1>4, <1>5, <1>6

(* The tiles listed so far.                                                 *)
Seen == tiles \ Ahead

(* What is counted as staged is staged, and what is counted as listed is    *)
(* listed; no tile has more than one row.                                   *)
Counted ==
    /\ tiles \subseteq Tile /\ IsFiniteSet(tiles) /\ pending \in Seq(Tile)
    /\ tileCount = Cardinality(tiles) /\ tileCount <= MaxTiles
    /\ previous \in Tile \cup {NoTile} /\ listed = Cardinality(Seen)
    /\ IsFiniteSet(written) /\ Cardinality(written) <= listed
    /\ pc \in {"read", "stage"} => previous = NoTile /\ written = {}

LaterTests == {"too many rows", "tiles listed and recorded differ"}

LimitInv ==
    /\ result # "" => pc = "done" /\ result \notin LaterTests
    /\ pc \in {"read", "stage", "list", "drop", "commit", "done"}
    /\ pc \in {"read", "stage", "list"} => Counted

(* A tile that is staged is counted once, however many features list it.    *)
LEMMA StageTileKeeps ==
  ASSUME LimitInv, StageTile
  PROVE  LimitInv'
  <1> DEFINE f == Last(features)
             t == Head(pending)
  <1>1. pc = "stage" /\ result = "" /\ Counted /\ pending # <<>>
    BY DEF LimitInv, StageTile
  <1>2. /\ t \in Tile /\ Tail(pending) \in Seq(Tile)
    <2>1. pending \in Seq(Tile) /\ pending # <<>>
      BY <1>1 DEF Counted
    <2> QED
      BY <2>1
  <1>3. Descend(f, t) \o Tail(pending) \in Seq(Tile)
    <2>1. \A n \in Nat : n + 1 \in Nat /\ n * 2 \in Nat /\ n * 2 + 1 \in Nat
      OBVIOUS
    <2>2. t[1] \in Nat /\ t[2] \in Nat /\ t[3] \in Nat
      BY <1>2 DEF Tile
    <2>3. Children(t) \in Seq(Tile)
      BY <2>1, <2>2 DEF Children, Tile
    <2>4. <<>> \in Seq(Tile)
      OBVIOUS
    <2>5. Descend(f, t) \in Seq(Tile)
      BY <2>3, <2>4 DEF Descend
    <2> QED
      BY <1>2, <2>5
  <1>4. UNCHANGED <<previous, listed>>
    BY DEF StageTile
  <1>5. CASE result' # ""
    BY <1>5 DEF StageTile, Rollback, LimitInv, LaterTests
  <1>6. CASE result' = ""
    <2>1. /\ pc' = "stage" /\ written' = written
          /\ \/ tiles' = tiles /\ tileCount' = tileCount
             \/ /\ tiles' = tiles \cup {t}
                /\ tileCount' = tileCount + Cardinality({t} \ tiles)
                /\ ~(tileCount' > MaxTiles)
          /\ pending' = Descend(f, t) \o Tail(pending)
      <3>1. CASE Listed(f, t)
        <4>1. tileCount' = tileCount + Cardinality({t} \ tiles)
          BY <3>1 DEF StageTile
        <4>2. ~(tileCount' > MaxTiles)
          BY <1>6, <3>1 DEF StageTile, Rollback
        <4> QED
          BY <1>1, <3>1, <4>1, <4>2 DEF StageTile
      <3>2. CASE ~Listed(f, t)
        BY <1>1, <3>2 DEF StageTile, stagingVars
      <3> QED
        BY <3>1, <3>2
    <2>2. tiles' \subseteq Tile /\ IsFiniteSet(tiles') /\ tileCount' = Cardinality(tiles')
      <3>1. CASE tiles' = tiles /\ tileCount' = tileCount
        BY <1>1, <3>1 DEF Counted
      <3>2. CASE tiles' = tiles \cup {t} /\ tileCount' = tileCount + Cardinality({t} \ tiles)
        <4>1. Cardinality({t} \ tiles) = IF t \in tiles THEN 0 ELSE 1
          <5>1. CASE t \in tiles
            <6>1. {t} \ tiles = {}
              BY <5>1
            <6> QED
              BY <5>1, <6>1, FS_EmptySet
          <5>2. CASE t \notin tiles
            <6>1. {t} \ tiles = {t}
              BY <5>2
            <6> QED
              BY <5>2, <6>1, FS_Singleton
          <5> QED
            BY <5>1, <5>2
        <4>2. /\ IsFiniteSet(tiles \cup {t})
              /\ Cardinality(tiles \cup {t}) = IF t \in tiles THEN Cardinality(tiles)
                                               ELSE Cardinality(tiles) + 1
          BY <1>1, FS_AddElement DEF Counted
        <4>3. Cardinality(tiles) \in Nat
          BY <1>1, FS_CardinalityType DEF Counted
        <4>4. tileCount = Cardinality(tiles) /\ tiles \subseteq Tile
          BY <1>1 DEF Counted
        <4>5. tileCount' = Cardinality(tiles')
          BY <3>2, <4>1, <4>2, <4>3, <4>4
        <4> QED
          BY <1>2, <3>2, <4>2, <4>4, <4>5
      <3> QED
        BY <2>1, <3>1, <3>2
    <2>3. tileCount' <= MaxTiles
      <3>1. tileCount' \in Nat /\ MaxTiles \in Nat
        BY <2>2, FS_CardinalityType, ArchiveAssumption
      <3>2. tileCount <= MaxTiles
        BY <1>1 DEF Counted
      <3> QED
        BY <2>1, <3>1, <3>2
    <2>4. Seen = {} /\ Seen' = {}
      BY <1>1, <1>4, <2>2, BeforeOrders DEF Counted, Seen, Ahead
    <2>5. listed' = Cardinality(Seen') /\ listed' = 0
      BY <1>1, <1>4, <2>4, FS_EmptySet DEF Counted
    <2> QED
      BY <1>1, <1>3, <1>4, <1>6, <2>1, <2>2, <2>3, <2>5 DEF LimitInv, Counted
  <1> QED
    BY <1>5, <1>6

(* Listing the next tile lists one tile more, of which there was one left,  *)
(* so that there is room for its row.                                       *)
LEMMA WriteTileKeeps ==
  ASSUME LimitInv, NEW t \in tiles, WriteTile(t)
  PROVE  LimitInv'
  <1>1. /\ pc = "list" /\ result = "" /\ Counted /\ t \in Ahead
        /\ \A u \in Ahead \ {t} : Before(t, u)
    BY DEF LimitInv, WriteTile, NextTile
  <1>2. {u \in tiles : ~Before(t, u)} = Seen \cup {t}
    <2>1. ASSUME NEW u \in Seen  PROVE ~Before(t, u)
      <3>1. Before(previous, t) /\ ~Before(previous, u) /\ t \in Tile /\ u \in Tile
        BY <1>1, <2>1 DEF Seen, Ahead, Counted
      <3> QED
        BY <1>1, <3>1, BeforeOrders DEF Counted
    <2>2. ~Before(t, t)
      BY <1>1, BeforeOrders DEF Counted
    <2> QED
      BY <1>1, <2>1, <2>2 DEF Seen, Ahead
  <1>3. /\ IsFiniteSet(Seen) /\ t \notin Seen /\ IsFiniteSet(Seen \cup {t})
        /\ Cardinality(Seen \cup {t}) = Cardinality(Seen) + 1
        /\ Cardinality(Seen \cup {t}) <= Cardinality(tiles)
    <2>1. IsFiniteSet(Seen) /\ t \notin Seen
      BY <1>1, FS_Subset DEF Seen, Counted
    <2>2. Seen \cup {t} \subseteq tiles
      BY DEF Seen
    <2>3. IsFiniteSet(Seen \cup {t}) /\ Cardinality(Seen \cup {t}) = Cardinality(Seen) + 1
      BY <2>1, FS_AddElement
    <2>4. IsFiniteSet(tiles)
      BY <1>1 DEF Counted
    <2>5. Cardinality(Seen \cup {t}) <= Cardinality(tiles)
      BY <2>2, <2>4, FS_Subset
    <2> QED
      BY <2>1, <2>3, <2>5
  <1>4. /\ Cardinality(Seen) \in Nat /\ Cardinality(tiles) \in Nat
        /\ Cardinality(written) \in Nat /\ MaxTiles \in Nat
    BY <1>1, <1>3, FS_CardinalityType, ArchiveAssumption DEF Counted
  <1>5. Cardinality(written) # MaxTiles
    <2>1. /\ Cardinality(written) <= Cardinality(Seen)
          /\ Cardinality(tiles) <= MaxTiles
      BY <1>1 DEF Counted
    <2> QED
      BY <1>3, <1>4, <2>1
  <1>6. CASE result' # ""
    BY <1>5, <1>6 DEF WriteTile, Rollback, LimitInv, LaterTests
  <1>7. CASE result' = ""
    <2>1. /\ pc' = pc /\ previous' = t /\ listed' = listed + 1
          /\ \/ written' = written
             \/ written' = written \cup {Row(t, Encoded(t))}
          /\ UNCHANGED <<tiles, tileCount, pending>>
      BY <1>1, <1>5, <1>7 DEF WriteTile, Rollback, stagingVars
    <2>2. Seen' = Seen \cup {t}
      BY <1>2, <2>1 DEF Seen, Ahead
    <2>3. listed' = Cardinality(Seen')
      BY <1>1, <1>3, <2>1, <2>2 DEF Counted
    <2>4. IsFiniteSet(written') /\ Cardinality(written') <= listed'
      <3>1. /\ IsFiniteSet(written \cup {Row(t, Encoded(t))})
            /\ Cardinality(written \cup {Row(t, Encoded(t))}) <= Cardinality(written) + 1
        <4> DEFINE row == Row(t, Encoded(t))
        <4>1. IsFiniteSet(written)
          BY <1>1 DEF Counted
        <4>2. /\ IsFiniteSet(written \cup {row})
              /\ Cardinality(written \cup {row}) = IF row \in written THEN Cardinality(written)
                                                   ELSE Cardinality(written) + 1
          BY <4>1, FS_AddElement
        <4> HIDE DEF row
        <4>3. Cardinality(written \cup {row}) <= Cardinality(written) + 1
          BY <1>4, <4>2
        <4> QED
          BY <4>2, <4>3 DEF row
      <3>2. listed \in Nat /\ Cardinality(written) <= listed
        BY <1>1, <1>4 DEF Counted
      <3>3. CASE written' = written
        <4>1. IsFiniteSet(written)
          BY <1>1 DEF Counted
        <4> QED
          BY <1>4, <2>1, <3>2, <3>3, <4>1
      <3>4. CASE written' = written \cup {Row(t, Encoded(t))}
        <4>1. Cardinality(written') \in Nat
          BY <3>1, <3>4, FS_CardinalityType
        <4> QED
          BY <1>4, <2>1, <3>1, <3>2, <3>4, <4>1
      <3> QED
        BY <2>1, <3>3, <3>4
    <2> QED
      BY <1>1, <1>7, <2>1, <2>3, <2>4 DEF LimitInv, Counted
  <1> QED
    BY <1>6, <1>7

(* When no tile is ahead all of them are listed.                            *)
LEMMA EndOfTilesKeeps ==
  ASSUME LimitInv, EndOfTiles
  PROVE  LimitInv'
  <1>1. pc = "list" /\ result = "" /\ Counted /\ Ahead = {}
    BY DEF LimitInv, EndOfTiles
  <1>2. Seen = tiles
    BY <1>1 DEF Seen
  <1>3. listed = tileCount
    BY <1>1, <1>2 DEF Counted
  <1> QED
    BY <1>1, <1>3 DEF EndOfTiles, LimitInv

(* The other steps count nothing.                                           *)
LEMMA CountingElsewhere ==
  ASSUME LimitInv,
         \/ ReadFeature \/ EndFeature \/ EndOfInput \/ DropStaging \/ Commit
         \/ StatementFails \/ UNCHANGED vars
  PROVE  LimitInv'
  <1>1. CASE ReadFeature
    <2>1. pc = "read" /\ result = "" /\ Counted
      BY <1>1 DEF ReadFeature, LimitInv
    <2>2. CASE result' # ""
      BY <1>1, <2>2 DEF ReadFeature, Rollback, LimitInv, LaterTests
    <2>3. CASE result' = ""
      <3>1. /\ pc' = "stage" /\ pending' = <<Root>>
            /\ UNCHANGED <<tiles, tileCount, written, previous, listed>>
        BY <1>1, <2>3 DEF ReadFeature, Rollback, stagingVars
      <3>2. <<Root>> \in Seq(Tile)
        BY DEF Root, Tile
      <3>3. Seen' = Seen
        BY <3>1 DEF Seen, Ahead
      <3> QED
        BY <2>1, <2>3, <3>1, <3>2, <3>3 DEF LimitInv, Counted
    <2> QED
      BY <2>2, <2>3
  <1>2. CASE EndFeature \/ EndOfInput
    <2>1. /\ pc \in {"read", "stage"} /\ pc' \in {"read", "list"} /\ result' = result
          /\ UNCHANGED <<tiles, tileCount, pending, written, previous, listed>>
      BY <1>2 DEF EndFeature, EndOfInput, sourceVars, stagingVars, outputVars
    <2>2. Seen' = Seen
      BY <2>1 DEF Seen, Ahead
    <2> QED
      BY <2>1, <2>2 DEF LimitInv, Counted
  <1>3. CASE DropStaging \/ Commit \/ StatementFails
    BY <1>3 DEF DropStaging, Commit, StatementFails, Rollback, LimitInv, LaterTests
  <1>4. CASE UNCHANGED vars
    <2>1. UNCHANGED <<tiles, tileCount, pending, written, previous, listed, pc, result>>
      BY <1>4 DEF vars, sourceVars, stagingVars, outputVars
    <2>2. Seen' = Seen
      BY <2>1 DEF Seen, Ahead
    <2> QED
      BY <2>1, <2>2 DEF LimitInv, Counted
  <1> QED
    BY <1>1, <1>2, <1>3, <1>4

(* At first nothing is counted,                                             *)
LEMMA LimitBegins ==
  ASSUME Init
  PROVE  LimitInv
  <1>1. Seen = {}
    BY DEF Init, Seen
  <1>2. <<>> \in Seq(Tile) /\ 0 <= MaxTiles /\ 0 <= 0
    BY ArchiveAssumption
  <1> QED
    BY <1>1, <1>2, FS_EmptySet DEF Init, LimitInv, Counted

(* and every step keeps the counts.                                         *)
LEMMA LimitStep == LimitInv /\ [Next]_vars => LimitInv'
  BY StageTileKeeps, WriteTileKeeps, EndOfTilesKeeps, CountingElsewhere DEF Next, Returned

(* The limit is tested once: an archive that has passed the test as its     *)
(* tiles were staged is not refused for its rows later, and the tiles       *)
(* listed are as many as those recorded (writeMBTilesDatabase, where both   *)
(* are tested again).                                                       *)
THEOREM LaterTestsNeverFail == Spec => [](result \notin LaterTests)
  <1>1. LimitInv => result \notin LaterTests
    BY DEF LimitInv, LaterTests
  <1> QED
    BY <1>1, LimitBegins, LimitStep, PTL DEF Spec

-----------------------------------------------------------------------------
(* The powers of two up to the greatest zoom.                               *)

Pow(n) == 2^n

(* One by one.                                                              *)
LEMMA PowValues ==
         /\ Pow(0) = 1 /\ Pow(1) = 2 /\ Pow(2) = 4 /\ Pow(3) = 8
         /\ Pow(4) = 16 /\ Pow(5) = 32 /\ Pow(6) = 64 /\ Pow(7) = 128
         /\ Pow(8) = 256 /\ Pow(9) = 512 /\ Pow(10) = 1024 /\ Pow(11) = 2048
         /\ Pow(12) = 4096 /\ Pow(13) = 8192 /\ Pow(14) = 16384 /\ Pow(15) = 32768
         /\ Pow(16) = 65536 /\ Pow(17) = 131072 /\ Pow(18) = 262144 /\ Pow(19) = 524288
         /\ Pow(20) = 1048576 /\ Pow(21) = 2097152 /\ Pow(22) = 4194304 /\ Pow(23) = 8388608
         /\ Pow(24) = 16777216 /\ Pow(25) = 33554432 /\ Pow(26) = 67108864 /\ Pow(27) = 134217728
         /\ Pow(28) = 268435456 /\ Pow(29) = 536870912 /\ Pow(30) = 1073741824
  BY DEF Pow

(* Each is twice the one before.                                            *)
LEMMA PowDoubles ==
  /\ Pow(0) = 1 /\ \A n \in 0..30 : Pow(n) \in Nat \ {0}
  /\ \A n \in 0..29 : Pow(n + 1) = 2 * Pow(n)
  BY PowValues

(* The power of a sum.                                                      *)
LEMMA PowAdds ==
  ASSUME NEW i \in 0..30, NEW j \in 0..30 - i
  PROVE  Pow(i + j) = Pow(i) * Pow(j)
  <1> DEFINE D == {k \in 0..30 - i : Pow(i + k) = Pow(i) * Pow(k)}
  <1>1. 0 \in D
    BY PowDoubles
  <1>2. ASSUME NEW k \in 0..30 - i - 1, k \in D  PROVE k + 1 \in D
    <2>1. k \in 0..29 /\ i + k \in 0..29 /\ i + (k + 1) = (i + k) + 1 /\ k + 1 \in 0..30 - i
      OBVIOUS
    <2>2. Pow((i + k) + 1) = 2 * Pow(i + k) /\ Pow(k + 1) = 2 * Pow(k)
      BY <2>1, PowDoubles
    <2>3. Pow(i) \in Nat /\ Pow(k) \in Nat
      BY <2>1, PowDoubles
    <2>4. \A a, b \in Nat : 2 * (a * b) = a * (2 * b)
      OBVIOUS
    <2>5. Pow(i + (k + 1)) = Pow(i) * Pow(k + 1)
      BY <1>2, <2>1, <2>2, <2>3, <2>4
    <2> QED
      BY <2>1, <2>5
  <1> HIDE DEF D
  <1>3. 30 - i \in Nat /\ j \in 0..30 - i
    OBVIOUS
  <1>4. j \in D
    BY <1>1, <1>2, <1>3, UpTo
  <1> QED
    BY <1>4 DEF D

-----------------------------------------------------------------------------
(* The tiles of a zoom, and those below a tile.                             *)

IsTile(t) ==
    /\ t \in Tile /\ t[1] \in 0..MaxZoom
    /\ t[2] \in 0..Pow(t[1]) - 1 /\ t[3] \in 0..Pow(t[1]) - 1

(* Along one axis: u lies below x, if each of the latter has p below it.    *)
Under(x, p, u) == x * p <= u /\ u < (x + 1) * p

Above(a, t) ==
    /\ a[1] <= t[1]
    /\ Under(a[2], Pow(t[1] - a[1]), t[2]) /\ Under(a[3], Pow(t[1] - a[1]), t[3])

(* The fields of a tile.                                                    *)
LEMMA TileFields ==
  ASSUME NEW z \in Nat, NEW x \in Nat, NEW y \in Nat
  PROVE  LET t == <<z, x, y>> IN t \in Tile /\ t[1] = z /\ t[2] = x /\ t[3] = y
  BY DEF Tile

(* A tile is its fields.                                                    *)
LEMMA TileParts ==
  ASSUME NEW t \in Tile
  PROVE  t[1] \in Nat /\ t[2] \in Nat /\ t[3] \in Nat /\ t = <<t[1], t[2], t[3]>>
  BY DEF Tile

(* The powers that are asked for are those up to the greatest zoom.         *)
LEMMA Zooms ==
  /\ MinZoom \in Nat /\ MaxZoom \in Nat /\ MinZoom <= MaxZoom /\ MaxZoom <= 30
  /\ \A z \in 0..MaxZoom : z \in 0..30 /\ Pow(z) \in Nat \ {0}
  <1>1. MinZoom \in Nat /\ MaxZoom \in MinZoom..30
    BY ArchiveAssumption
  <1>2. \A a \in Nat : \A b \in a..30 : b \in Nat /\ a <= b /\ b <= 30 /\ 0..b \subseteq 0..30
    OBVIOUS
  <1>3. /\ MinZoom \in Nat /\ MaxZoom \in Nat /\ MinZoom <= MaxZoom /\ MaxZoom <= 30
        /\ 0..MaxZoom \subseteq 0..30
    BY <1>1, <1>2, Zenon
  <1>4. \A z \in 0..30 : Pow(z) \in Nat \ {0}
    BY PowDoubles
  <1> QED
    BY <1>3, <1>4, Zenon

(* The tiles of a zoom.                                                     *)
Layer(z) == {<<z, x, y>> : x \in 0..2^z - 1, y \in 0..2^z - 1}

(* The tiles that are listed are those of the zooms asked for.              *)
LEMMA AllTilesAre ==
  ASSUME NEW t
  PROVE  t \in AllTiles <=> IsTile(t) /\ MinZoom <= t[1]
  <1>1. AllTiles = UNION {Layer(z) : z \in MinZoom..MaxZoom}
    BY SMT DEF AllTiles, Layer
  <1>2. \A z : Layer(z) = {<<z, x, y>> : x \in 0..Pow(z) - 1, y \in 0..Pow(z) - 1}
    BY SMT DEF Pow, Layer
  <1>3. ASSUME t \in AllTiles  PROVE IsTile(t) /\ MinZoom <= t[1]
    <2>1. PICK z \in MinZoom..MaxZoom : t \in Layer(z)
      BY <1>3, <1>1
    <2>2. PICK x, y \in 0..Pow(z) - 1 : t = <<z, x, y>>
      BY <1>2, <2>1
    <2>3. z \in Nat /\ z \in 0..MaxZoom /\ MinZoom <= z /\ x \in Nat /\ y \in Nat
      BY <2>1, <2>2, Zooms
    <2> QED
      BY <2>2, <2>3, TileFields DEF IsTile
  <1>4. ASSUME IsTile(t), MinZoom <= t[1]  PROVE t \in AllTiles
    <2>1. t[1] \in MinZoom..MaxZoom /\ t = <<t[1], t[2], t[3]>>
      BY <1>4, Zooms, TileParts DEF IsTile
    <2>2. t \in Layer(t[1])
      BY <1>2, <1>4, <2>1 DEF IsTile
    <2> QED
      BY <1>1, <2>1, <2>2
  <1> QED
    BY <1>3, <1>4

(* Every tile is below the first,                                           *)
LEMMA RootAbove == IsTile(Root) /\ \A t : IsTile(t) => Above(Root, t)
  <1>1. Root \in Tile /\ Root[1] = 0 /\ Root[2] = 0 /\ Root[3] = 0
    BY TileFields DEF Root
  <1>2. Pow(0) = 1 /\ 0 \in 0..MaxZoom
    BY PowDoubles, Zooms
  <1>3. IsTile(Root)
    BY <1>1, <1>2 DEF IsTile
  <1>4. ASSUME NEW t, IsTile(t)  PROVE Above(Root, t)
    <2>1. t[1] \in Nat /\ t[1] - 0 = t[1] /\ Pow(t[1]) \in Nat
      BY <1>4, Zooms DEF IsTile
    <2>2. 0 * Pow(t[1]) = 0 /\ (0 + 1) * Pow(t[1]) = Pow(t[1])
      BY <2>1
    <2>3. 0 <= t[2] /\ t[2] < Pow(t[1]) /\ 0 <= t[3] /\ t[3] < Pow(t[1])
      BY <1>4, <2>1 DEF IsTile
    <2> QED
      BY <1>1, <2>1, <2>2, <2>3 DEF Above, Under
  <1> QED
    BY <1>3, <1>4

(* and itself is the only one of its zoom below it.                         *)
LEMMA AboveSame ==
  ASSUME NEW a, IsTile(a), NEW t, IsTile(t)
  PROVE  Above(a, t) /\ a[1] = t[1] <=> a = t
  <1>1. a[1] \in Nat /\ t[1] \in Nat /\ a[1] - a[1] = 0 /\ Pow(0) = 1
    BY PowDoubles DEF IsTile
  <1>2. /\ a[2] \in Nat /\ a[3] \in Nat /\ t[2] \in Nat /\ t[3] \in Nat
        /\ a = <<a[1], a[2], a[3]>> /\ t = <<t[1], t[2], t[3]>>
    BY TileParts DEF IsTile
  <1>3. \A x, u \in Nat : Under(x, 1, u) <=> x = u
    BY DEF Under
  <1>4. ASSUME a[1] = t[1]  PROVE Above(a, t) <=> a[2] = t[2] /\ a[3] = t[3]
    BY <1>1, <1>2, <1>3, <1>4 DEF Above
  <1> QED
    BY <1>2, <1>4

(* The children of a tile.                                                  *)
Child(a, i, j) == <<a[1] + 1, a[2] * 2 + i, a[3] * 2 + j>>

(* The four, in order.                                                      *)
LEMMA ChildrenAre ==
  ASSUME NEW a, IsTile(a)
  PROVE  Children(a) = <<Child(a, 0, 0), Child(a, 0, 1), Child(a, 1, 0), Child(a, 1, 1)>>
  <1>1. a[2] * 2 + 0 = a[2] * 2 /\ a[3] * 2 + 0 = a[3] * 2
    BY DEF IsTile
  <1> QED
    BY <1>1 DEF Children, Child

(* They are four, and each of the four is one of them.                      *)
LEMMA ChildrenHave ==
  ASSUME NEW a, IsTile(a), NEW S, \A i, j \in {0, 1} : Child(a, i, j) \in S
  PROVE  /\ Children(a) \in Seq(S) /\ Len(Children(a)) = 4
         /\ \A i, j \in {0, 1} : \E k \in 1..4 : Children(a)[k] = Child(a, i, j)
  <1> DEFINE p == Child(a, 0, 0)
             q == Child(a, 0, 1)
             r == Child(a, 1, 0)
             s == Child(a, 1, 1)
  <1>1. Children(a) = <<p, q, r, s>>
    BY ChildrenAre
  <1>2. p \in S /\ q \in S /\ r \in S /\ s \in S
    OBVIOUS
  <1>3. \A i, j \in {0, 1} : Child(a, i, j) \in {p, q, r, s}
    OBVIOUS
  <1> HIDE DEF p, q, r, s
  <1>4. /\ <<p, q, r, s>> \in Seq(S) /\ Len(<<p, q, r, s>>) = 4
        /\ <<p, q, r, s>>[1] = p /\ <<p, q, r, s>>[2] = q
        /\ <<p, q, r, s>>[3] = r /\ <<p, q, r, s>>[4] = s
    BY <1>2
  <1>5. \A c \in {p, q, r, s} : \E k \in 1..4 : <<p, q, r, s>>[k] = c
    BY <1>4
  <1> QED
    BY <1>1, <1>3, <1>4, <1>5, Zenon

(* A child of a tile is a tile.                                             *)
LEMMA ChildIsTile ==
  ASSUME NEW a, IsTile(a), a[1] # MaxZoom, NEW i \in {0, 1}, NEW j \in {0, 1}
  PROVE  /\ IsTile(Child(a, i, j)) /\ Child(a, i, j)[1] = a[1] + 1
         /\ Child(a, i, j)[2] = a[2] * 2 + i /\ Child(a, i, j)[3] = a[3] * 2 + j
  <1>1. a[1] \in 0..29 /\ a[1] + 1 \in 0..MaxZoom /\ a[1] + 1 \in Nat
    BY Zooms DEF IsTile
  <1>2. Pow(a[1] + 1) = 2 * Pow(a[1]) /\ Pow(a[1]) \in Nat
    BY <1>1, PowDoubles
  <1>3. a[2] \in 0..Pow(a[1]) - 1 /\ a[3] \in 0..Pow(a[1]) - 1
    BY DEF IsTile
  <1>4. /\ a[2] * 2 + i \in 0..Pow(a[1] + 1) - 1 /\ a[2] * 2 + i \in Nat
        /\ a[3] * 2 + j \in 0..Pow(a[1] + 1) - 1 /\ a[3] * 2 + j \in Nat
    BY <1>2, <1>3
  <1> QED
    BY <1>1, <1>4, TileFields DEF IsTile, Child

(* Along one axis one of two halves has what the whole has.                 *)
LEMMA HalfUnder ==
  ASSUME NEW x \in Nat, NEW p \in Nat, NEW u \in Nat, Under(x, 2 * p, u)
  PROVE  \E i \in {0, 1} : Under(x * 2 + i, p, u)
  <1> DEFINE q == x * p
  <1>1. q \in Nat /\ x * (2 * p) = 2 * q /\ (x + 1) * (2 * p) = 2 * q + 2 * p
    OBVIOUS
  <1>2. (x * 2 + 0) * p = 2 * q /\ (x * 2 + 0 + 1) * p = 2 * q + p
    OBVIOUS
  <1>3. (x * 2 + 1) * p = 2 * q + p /\ (x * 2 + 1 + 1) * p = 2 * q + 2 * p
    OBVIOUS
  <1> HIDE DEF q
  <1> QED
    BY <1>1, <1>2, <1>3 DEF Under

(* A tile further below is below a child.                                   *)
LEMMA AboveChild ==
  ASSUME NEW a, IsTile(a), NEW t, IsTile(t), Above(a, t), a # t
  PROVE  a[1] # MaxZoom /\ \E i, j \in {0, 1} : Above(Child(a, i, j), t)
  <1>1. a[1] \in Nat /\ t[1] \in Nat /\ a[1] <= t[1] /\ a[1] # t[1] /\ t[1] \in 0..MaxZoom
    BY AboveSame DEF IsTile, Above
  <1>2. a[1] # MaxZoom /\ a[1] + 1 <= t[1] /\ t[1] - (a[1] + 1) \in 0..29
    <2>1. \A m \in Nat : \A b, c \in Nat :
            m <= 30 /\ b <= c /\ b # c /\ c <= m => b # m /\ b + 1 <= c /\ c - (b + 1) \in 0..29
      OBVIOUS
    <2>2. t[1] <= MaxZoom
      BY <1>1, Zooms
    <2> QED
      BY <1>1, <2>1, <2>2, Zooms, Zenon
  <1> DEFINE p == Pow(t[1] - (a[1] + 1))
  <1>3. t[1] - a[1] = (t[1] - (a[1] + 1)) + 1
    BY <1>1
  <1>4. Pow(t[1] - a[1]) = 2 * p /\ p \in Nat
    BY <1>2, <1>3, PowDoubles
  <1>5. a[2] \in Nat /\ a[3] \in Nat /\ t[2] \in Nat /\ t[3] \in Nat
    BY TileParts DEF IsTile
  <1>6. Under(a[2], 2 * p, t[2]) /\ Under(a[3], 2 * p, t[3])
    BY <1>4 DEF Above
  <1> HIDE DEF p
  <1>7. PICK i \in {0, 1} : Under(a[2] * 2 + i, p, t[2])
    BY <1>4, <1>5, <1>6, HalfUnder
  <1>8. PICK j \in {0, 1} : Under(a[3] * 2 + j, p, t[3])
    BY <1>4, <1>5, <1>6, HalfUnder
  <1>9. /\ Child(a, i, j)[1] = a[1] + 1 /\ Child(a, i, j)[2] = a[2] * 2 + i
        /\ Child(a, i, j)[3] = a[3] * 2 + j
    BY <1>2, ChildIsTile
  <1>10. Above(Child(a, i, j), t)
    BY <1>2, <1>7, <1>8, <1>9 DEF Above, p
  <1> QED
    BY <1>2, <1>10

(* Along one axis what is near a tile is near one above it, whose buffer is *)
(* wider.                                                                   *)
LEMMA Nearer ==
  ASSUME NEW x \in Nat, NEW p \in Nat \ {0}, NEW u \in Nat, Under(x, p, u),
         NEW w \in Nat, NEW m \in Nat
  PROVE  w * u - m .. w * (u + 1) + m \subseteq (p * w) * x - p * m .. (p * w) * (x + 1) + p * m
  <1>1. x * p <= u /\ u + 1 <= (x + 1) * p
    BY DEF Under
  <1>2. w * (x * p) <= w * u /\ w * (u + 1) <= w * ((x + 1) * p)
    BY <1>1
  <1>3. (p * w) * x = w * (x * p) /\ (p * w) * (x + 1) = w * ((x + 1) * p)
    OBVIOUS
  <1>4. m <= p * m /\ p * m \in Nat
    OBVIOUS
  <1>5. /\ w * (x * p) \in Int /\ w * u \in Int /\ w * (u + 1) \in Int
        /\ w * ((x + 1) * p) \in Int
    OBVIOUS
  <1>6. ASSUME NEW k \in w * u - m .. w * (u + 1) + m
        PROVE  k \in w * (x * p) - p * m .. w * ((x + 1) * p) + p * m
    BY <1>2, <1>4, <1>5
  <1> QED
    BY <1>3, <1>6

(* So a geometry that a tile has is one that every tile above it has.       *)
LEMMA ClippedAbove ==
  ASSUME NEW a, IsTile(a), NEW t, IsTile(t), Above(a, t), NEW points
  PROVE  Clipped(points, t) \subseteq Clipped(points, a)
  <1>1. /\ t[1] - a[1] \in 0..30 /\ MaxZoom - t[1] \in 0..30
        /\ MaxZoom - t[1] \in 0..30 - (t[1] - a[1])
        /\ (t[1] - a[1]) + (MaxZoom - t[1]) = MaxZoom - a[1]
    <2>1. \A m, b, c \in Nat :
            m <= 30 /\ b <= c /\ c <= m =>
              /\ c - b \in 0..30 /\ m - c \in 0..30 /\ m - c \in 0..30 - (c - b)
              /\ (c - b) + (m - c) = m - b
      OBVIOUS
    <2>2. MaxZoom \in Nat /\ MaxZoom <= 30
      BY Zooms
    <2>3. a[1] \in Nat /\ t[1] \in Nat /\ a[1] <= t[1] /\ t[1] <= MaxZoom
      BY <2>2 DEF IsTile, Above
    <2> QED
      BY <2>1, <2>2, <2>3, Zenon
  <1> DEFINE p == Pow(t[1] - a[1])
             s == Pow(MaxZoom - t[1])
             w == Unit * s
             m == Margin * s
  <1>2. Pow(MaxZoom - a[1]) = p * s
    BY <1>1, PowAdds
  <1>3. p \in Nat \ {0} /\ s \in Nat
    BY <1>1, PowDoubles
  <1>4. Unit \in Nat /\ Margin \in Nat
    BY ArchiveAssumption
  <1>5. Scale(t[1]) = s /\ Scale(a[1]) = p * s
    BY <1>2, Zenon DEF Scale, Pow
  <1>6. a[2] \in Nat /\ a[3] \in Nat /\ t[2] \in Nat /\ t[3] \in Nat
    BY TileParts DEF IsTile
  <1>7. Under(a[2], p, t[2]) /\ Under(a[3], p, t[3])
    BY DEF Above
  <1> HIDE DEF p, s
  <1>8. w \in Nat /\ m \in Nat /\ Unit * (p * s) = p * w /\ Margin * (p * s) = p * m
    BY <1>3, <1>4
  <1> HIDE DEF w, m
  <1>9. /\ w * t[2] - m .. w * (t[2] + 1) + m \subseteq (p * w) * a[2] - p * m .. (p * w) * (a[2] + 1) + p * m
         /\ w * t[3] - m .. w * (t[3] + 1) + m \subseteq (p * w) * a[3] - p * m .. (p * w) * (a[3] + 1) + p * m
    BY <1>3, <1>6, <1>7, <1>8, Nearer
  <1>10. Clipped(points, t) = {q \in points : /\ q[1] \in w * t[2] - m .. w * (t[2] + 1) + m
                                             /\ q[2] \in w * t[3] - m .. w * (t[3] + 1) + m}
    BY <1>5, Zenon DEF Clipped, w, m
  <1>11. Clipped(points, a) =
           {q \in points : /\ q[1] \in (p * w) * a[2] - p * m .. (p * w) * (a[2] + 1) + p * m
                           /\ q[2] \in (p * w) * a[3] - p * m .. (p * w) * (a[3] + 1) + p * m}
    BY <1>5, <1>8, Zenon DEF Clipped
  <1> QED
    BY <1>9, <1>10, <1>11, Zenon

-----------------------------------------------------------------------------
(* The descent.                                                             *)

Tiles == {t \in Tile : IsTile(t)}

(* While the n-th feature is staged: what is listed is right, and what is   *)
(* not listed yet is a tile of this feature, below one still to be visited. *)
Descending(listing, fs, ts) ==
    /\ ts \in Seq(Tiles) /\ listing \subseteq Coverage(fs)
    /\ \A m \in Coverage(fs) :
         m \in listing \/ (m[2] = Len(fs) /\ \E a \in ToSet(ts) : Above(a, m[1]))

(* The features read so far are the first ones of the input.                *)
ReadSoFar ==
    /\ IsSeq(features) /\ Len(features) <= Len(input)
    /\ \A i \in 1..Len(features) : features[i] = input[i]
    /\ tiles = {m[1] : m \in mapping}

StagingInv ==
    /\ input \in Inputs
    /\ pc \in {"read", "stage", "list", "drop", "commit", "done"}
    /\ result = "" <=> pc # "done"
    /\ pc \in {"read", "stage", "list", "drop"} => ReadSoFar
    /\ pc \in {"read", "list", "drop"} => mapping = Coverage(features)
    /\ pc \in {"list", "drop"} => Len(features) = Len(input)
    /\ pc = "stage" => features # <<>> /\ Descending(mapping, features, pending)

(* What the coverage of some features is.                                   *)
LEMMA CoverageIs ==
  ASSUME NEW fs, IsSeq(fs)
  PROVE  /\ \A t, i : <<t, i>> \in Coverage(fs) <=>
                        t \in AllTiles /\ i \in 1..Len(fs) /\ Contributes(fs[i], t)
         /\ \A m \in Coverage(fs) : /\ m = <<m[1], m[2]>> /\ m[1] \in AllTiles
                                    /\ m[2] \in 1..Len(fs) /\ Contributes(fs[m[2]], m[1])
  <1>1. DOMAIN fs = 1..Len(fs)
    BY SeqFacts
  <1>2. Coverage(fs) = {m \in AllTiles \X (1..Len(fs)) : Contributes(fs[m[2]], m[1])}
    BY <1>1 DEF Coverage
  <1>3. \A t, i : LET m == <<t, i>> IN m[1] = t /\ m[2] = i
    OBVIOUS
  <1> HIDE DEF AllTiles
  <1> QED
    BY <1>2, <1>3

(* Of no feature there is none.                                             *)
LEMMA CoverageOfNone == Coverage(<<>>) = {}
  <1>1. IsSeq(<<>>) /\ Len(<<>>) = 0
    BY NoIndex DEF IsSeq
  <1> QED
    BY <1>1, CoverageIs, NoIndex

(* Of features that begin others it is that of the others, as far.          *)
LEMMA CoverageOfFirst ==
  ASSUME NEW fs, IsSeq(fs), NEW gs, IsSeq(gs), Len(fs) <= Len(gs),
         \A i \in 1..Len(fs) : fs[i] = gs[i]
  PROVE  \A m : m \in Coverage(fs) <=> m \in Coverage(gs) /\ m[2] <= Len(fs)
  <1>1. Len(fs) \in Nat /\ Len(gs) \in Nat
    BY SeqFacts
  <1>2. ASSUME NEW t, NEW i
        PROVE  <<t, i>> \in Coverage(fs) <=> <<t, i>> \in Coverage(gs) /\ i <= Len(fs)
    <2>1. i \in 1..Len(fs) <=> i \in 1..Len(gs) /\ i <= Len(fs)
      BY <1>1
    <2> QED
      BY <2>1, CoverageIs
  <1>3. \A m : m \in Coverage(fs) \/ m \in Coverage(gs) => m = <<m[1], m[2]>>
    BY CoverageIs
  <1> QED
    BY <1>2, <1>3

(* A feature that is in a tile is in all tiles above it.                    *)
LEMMA MeetsAbove ==
  ASSUME NEW a, IsTile(a), NEW t, IsTile(t), Above(a, t), NEW f, Contributes(f, t)
  PROVE  Meets(f, a) /\ Meets(f, t)
  <1>1. Meets(f, t)
    BY DEF Contributes, MeetsSimplified
  <1>2. Clipped(f.points, t) \subseteq Clipped(f.points, a)
    BY ClippedAbove
  <1> QED
    BY <1>1, <1>2, Zenon DEF Meets

(* What is visited next after a tile.                                       *)
LEMMA DescendIs ==
  ASSUME NEW a, IsTile(a), NEW f
  PROVE  /\ Descend(f, a) \in Seq(Tiles)
         /\ \A t : IsTile(t) /\ Above(a, t) /\ Contributes(f, t) =>
              a = t \/ \E b \in ToSet(Descend(f, a)) : Above(b, t)
  <1>1. CASE a[1] = MaxZoom \/ ~Meets(f, a)
    <2>1. Descend(f, a) = <<>>
      BY <1>1 DEF Descend
    <2>2. ASSUME NEW t, IsTile(t), Above(a, t), Contributes(f, t)  PROVE a = t
      BY <1>1, <2>2, MeetsAbove, AboveChild
    <2> QED
      BY <2>1, <2>2
  <1>2. CASE a[1] # MaxZoom /\ Meets(f, a)
    <2> DEFINE cs == Children(a)
    <2>1. Descend(f, a) = cs
      BY <1>2 DEF Descend
    <2>2. \A i, j \in {0, 1} : Child(a, i, j) \in Tiles
      BY <1>2, ChildIsTile DEF Tiles, IsTile
    <2>3. /\ cs \in Seq(Tiles) /\ Len(cs) = 4
          /\ \A i, j \in {0, 1} : \E k \in 1..4 : cs[k] = Child(a, i, j)
      BY <2>2, ChildrenHave
    <2> HIDE DEF cs
    <2>5. ASSUME NEW t, IsTile(t), Above(a, t), a # t  PROVE \E b \in ToSet(cs) : Above(b, t)
      <3>1. PICK i, j \in {0, 1} : Above(Child(a, i, j), t)
        BY <2>5, AboveChild
      <3>2. PICK k \in 1..4 : cs[k] = Child(a, i, j)
        BY <2>3, Zenon
      <3>3. DOMAIN cs = 1..4
        BY <2>3
      <3> QED
        BY <3>1, <3>2, <3>3 DEF ToSet
    <2> QED
      BY <2>1, <2>3, <2>5
  <1> QED
    BY <1>1, <1>2

(* The first of a sequence and the others.                                  *)
LEMMA HeadAndTail ==
  ASSUME NEW S, NEW s \in Seq(S), s # <<>>
  PROVE  /\ Head(s) \in S /\ Tail(s) \in Seq(S)
         /\ ToSet(s) = {Head(s)} \union ToSet(Tail(s))
  <1>1. /\ Len(s) \in Nat /\ Len(s) # 0 /\ DOMAIN s = 1..Len(s) /\ Head(s) = s[1]
        /\ Tail(s) \in Seq(S) /\ Len(Tail(s)) = Len(s) - 1 /\ Head(s) \in S
        /\ \A i \in 1..Len(s) - 1 : Tail(s)[i] = s[i + 1]
    OBVIOUS
  <1>2. DOMAIN Tail(s) = 1..Len(s) - 1
    BY <1>1
  <1>3. \A i \in 1..Len(s) : i = 1 \/ (i - 1 \in 1..Len(s) - 1 /\ (i - 1) + 1 = i)
    BY <1>1
  <1>4. \A i \in 1..Len(s) - 1 : i + 1 \in 1..Len(s)
    BY <1>1
  <1>5. 1 \in 1..Len(s)
    BY <1>1
  <1>6. ASSUME NEW x \in ToSet(s)  PROVE x \in {Head(s)} \union ToSet(Tail(s))
    <2>1. PICK i \in 1..Len(s) : x = s[i]
      BY <1>1, <1>6 DEF ToSet
    <2>2. CASE i = 1
      BY <1>1, <2>1, <2>2
    <2>3. CASE i # 1
      <3>1. i - 1 \in 1..Len(s) - 1 /\ (i - 1) + 1 = i
        BY <1>3, <2>1, <2>3
      <3>2. Tail(s)[i - 1] = x
        BY <1>1, <2>1, <3>1
      <3> QED
        BY <1>2, <3>1, <3>2 DEF ToSet
    <2> QED
      BY <2>2, <2>3
  <1>7. ASSUME NEW x \in {Head(s)} \union ToSet(Tail(s))  PROVE x \in ToSet(s)
    BY <1>1, <1>2, <1>4, <1>5, <1>7 DEF ToSet
  <1> QED
    BY <1>1, <1>6, <1>7

(* A tile is visited: the feature is listed under it if it must be.         *)
LEMMA DescendingOn ==
  ASSUME NEW fs, IsSeq(fs), fs # <<>>, NEW listing, NEW ts, Descending(listing, fs, ts), ts # <<>>,
         NEW new, new = (IF Listed(Last(fs), Head(ts)) THEN listing \union {<<Head(ts), Len(fs)>>}
                         ELSE listing)
  PROVE  /\ Descending(new, fs, Descend(Last(fs), Head(ts)) \o Tail(ts))
         /\ Listed(Last(fs), Head(ts)) => <<Head(ts), Len(fs)>> \in Coverage(fs)
  <1> DEFINE f == Last(fs)
             a == Head(ts)
             n == Len(fs)
             d == Descend(f, a)
             r == Tail(ts)
  <1>1. a \in Tiles /\ Tail(ts) \in Seq(Tiles) /\ ToSet(ts) = {a} \union ToSet(Tail(ts))
    BY HeadAndTail DEF Descending
  <1>2. IsTile(a)
    BY <1>1 DEF Tiles
  <1>3. n \in Nat /\ n \in 1..n /\ f = fs[n]
    BY SeqFacts DEF Last
  <1>4. d \in Seq(Tiles)
    BY <1>2, DescendIs
  <1>5. d \o r \in Seq(Tiles) /\ ToSet(d \o r) = ToSet(d) \union ToSet(r)
    <2>1. d \in Seq(Tiles) /\ r \in Seq(Tiles)
      BY <1>1, <1>4
    <2> HIDE DEF d, r
    <2> QED
      BY ONLY <2>1, ConcatSet, Zenon
  <1> HIDE DEF d
  <1>6. Listed(f, a) => <<a, n>> \in Coverage(fs)
    <2>1. Listed(f, a) => a \in AllTiles /\ Contributes(f, a)
      BY <1>2, AllTilesAre DEF Listed, IsTile
    <2> QED
      BY <1>3, <2>1, CoverageIs
  <1>7. ASSUME NEW m \in Coverage(fs), m \notin new
        PROVE  m[2] = n /\ \E b \in ToSet(d \o Tail(ts)) : Above(b, m[1])
    <2>1. m \notin listing
      BY <1>7
    <2>2. m[2] = n /\ \E b \in ToSet(ts) : Above(b, m[1])
      BY <2>1 DEF Descending
    <2>3. m = <<m[1], m[2]>> /\ IsTile(m[1]) /\ MinZoom <= m[1][1] /\ Contributes(f, m[1])
      BY <1>3, <2>2, CoverageIs, AllTilesAre
    <2>4. CASE Above(a, m[1])
      <3>1. Meets(f, a)
        BY <1>2, <2>3, <2>4, MeetsAbove
      <3>2. a # m[1]
        <4>1. SUFFICES ASSUME a = m[1]  PROVE FALSE
          OBVIOUS
        <4>2. Listed(f, a)
          <5>1. MinZoom \in Nat /\ a[1] \in Nat
            BY <1>2, Zooms DEF IsTile
          <5> QED
            BY <2>3, <3>1, <4>1, <5>1 DEF Listed
        <4> QED
          BY <1>7, <2>2, <2>3, <4>1, <4>2
      <3>3. \E b \in ToSet(d) : Above(b, m[1])
        BY <1>2, <2>3, <2>4, <3>2, DescendIs DEF d
      <3> QED
        BY <1>5, <2>2, <3>3
    <2>5. CASE ~Above(a, m[1])
      BY <1>1, <1>5, <2>2, <2>5
    <2> QED
      BY <2>4, <2>5
  <1>8. new \subseteq Coverage(fs)
    BY <1>6 DEF Descending
  <1> HIDE DEF f, a, n
  <1> QED
    BY <1>5, <1>6, <1>7, <1>8 DEF Descending, d, f, a, n

(* It is begun with the first tile of all,                                  *)
LEMMA DescentBegins ==
  ASSUME NEW fs, IsSeq(fs), NEW f
  PROVE  /\ IsSeq(Append(fs, f)) /\ Append(fs, f) # <<>> /\ Len(Append(fs, f)) = Len(fs) + 1
         /\ \A i \in 1..Len(fs) + 1 : Append(fs, f)[i] = IF i <= Len(fs) THEN fs[i] ELSE f
         /\ Descending(Coverage(fs), Append(fs, f), <<Root>>)
  <1> DEFINE gs == Append(fs, f)
  <1>1. /\ IsSeq(gs) /\ gs # <<>> /\ Len(gs) = Len(fs) + 1
        /\ \A i \in 1..Len(fs) + 1 : gs[i] = IF i <= Len(fs) THEN fs[i] ELSE f
    <2>1. PICK S : fs \in Seq(S)
      BY DEF IsSeq
    <2> DEFINE T == S \union {f}
    <2>2. fs \in Seq(T) /\ f \in T
      BY <2>1
    <2> HIDE DEF T
    <2>3. gs \in Seq(T) /\ Len(gs) = Len(fs) + 1
      BY <2>2
    <2>4. \A i \in 1..Len(fs) + 1 : gs[i] = IF i <= Len(fs) THEN fs[i] ELSE f
      BY <2>2
    <2>5. gs # <<>>
      BY <2>2
    <2> QED
      BY <2>3, <2>4, <2>5 DEF IsSeq
  <1>2. Len(fs) \in Nat
    BY SeqFacts
  <1> HIDE DEF gs
  <1>3. \A m : m \in Coverage(fs) <=> m \in Coverage(gs) /\ m[2] <= Len(fs)
    <2>1. Len(fs) <= Len(gs) /\ \A i \in 1..Len(fs) : fs[i] = gs[i]
      BY <1>1, <1>2
    <2> QED
      BY <1>1, <2>1, CoverageOfFirst
  <1>4. <<Root>> \in Seq(Tiles) /\ ToSet(<<Root>>) = {Root}
    <2>1. Root \in Tiles
      BY RootAbove DEF Tiles, IsTile
    <2> QED
      BY <2>1 DEF ToSet
  <1>5. ASSUME NEW m \in Coverage(gs), m \notin Coverage(fs)
        PROVE  m[2] = Len(gs) /\ Above(Root, m[1])
    <2>1. m[2] \in 1..Len(gs) /\ m[1] \in AllTiles /\ ~(m[2] <= Len(fs))
      BY <1>1, <1>3, <1>5, CoverageIs
    <2>2. m[2] = Len(gs)
      BY <1>1, <1>2, <2>1
    <2> QED
      BY <2>1, <2>2, AllTilesAre, RootAbove
  <1> QED
    BY <1>1, <1>3, <1>4, <1>5 DEF Descending, gs

(* and over when no tile is left.                                           *)
LEMMA DescentEnds ==
  ASSUME NEW fs, NEW listing, Descending(listing, fs, <<>>)
  PROVE  listing = Coverage(fs)
  <1>1. ToSet(<<>>) = {}
    BY DEF ToSet
  <1> QED
    BY <1>1 DEF Descending

-----------------------------------------------------------------------------
(* What is staged.                                                          *)

(* A way out keeps nothing.                                                 *)
LEMMA DoneStaging ==
  ASSUME input \in Inputs, input' = input, pc' = "done", result' # ""
  PROVE  StagingInv'
  BY DEF StagingInv

(* An input is a sequence.                                                  *)
LEMMA InputIsSeq ==
  ASSUME NEW fs \in Inputs
  PROVE  IsSeq(fs)
  BY ArchiveAssumption DEF IsSeq

(* Nothing is staged at first.                                              *)
LEMMA InitStages ==
  ASSUME Init
  PROVE  StagingInv
  <1>1. IsSeq(<<>>) /\ Len(<<>>) = 0
    BY NoIndex DEF IsSeq
  <1>2. Len(input) \in Nat /\ 0 <= Len(input)
    <2>1. input \in Inputs
      BY DEF Init
    <2>2. Len(input) \in Nat
      BY <2>1, InputIsSeq, SeqFacts
    <2> QED
      BY <2>2
  <1> QED
    BY <1>1, <1>2, CoverageOfNone, NoIndex DEF Init, StagingInv, ReadSoFar

(* A feature is read,                                                       *)
LEMMA ReadFeatureStages ==
  ASSUME StagingInv, ReadFeature
  PROVE  StagingInv'
  <1> DEFINE f == input[Len(features) + 1]
  <1>1. /\ pc = "read" /\ Len(features) < Len(input) /\ input' = input /\ input \in Inputs
        /\ result = "" /\ ReadSoFar /\ mapping = Coverage(features)
    BY DEF ReadFeature, StagingInv
  <1>2. CASE ~f.valid
    <2>1. Rollback("invalid feature")
      BY <1>2 DEF ReadFeature
    <2>2. pc' = "done" /\ result' # ""
      BY <2>1 DEF Rollback
    <2> QED
      BY <1>1, <2>2, DoneStaging
  <1>3. CASE f.valid
    <2>1. /\ features' = Append(features, f) /\ pending' = <<Root>> /\ pc' = "stage"
          /\ UNCHANGED <<tiles, mapping, result>>
      BY <1>3 DEF ReadFeature, stagingVars, Rollback
    <2>2. IsSeq(features) /\ Len(features) \in Nat /\ Len(input) \in Nat
      BY <1>1, InputIsSeq, SeqFacts DEF ReadSoFar
    <2>3. /\ IsSeq(features') /\ features' # <<>> /\ Len(features') = Len(features) + 1
          /\ \A i \in 1..Len(features) + 1 :
               features'[i] = IF i <= Len(features) THEN features[i] ELSE f
          /\ Descending(Coverage(features), features', <<Root>>)
      BY <2>1, <2>2, DescentBegins
    <2>4. Len(features') <= Len(input)
      <3>1. \A a, b \in Nat : a < b => a + 1 <= b
        OBVIOUS
      <3> QED
        BY <1>1, <2>2, <2>3, <3>1, Zenon
    <2>5. \A i \in 1..Len(features') : features'[i] = input[i]
      <3>1. \A i \in 1..Len(features) + 1 : i \in 1..Len(features) \/ i = Len(features) + 1
        BY <2>2
      <3>2. \A i \in 1..Len(features) : i <= Len(features) /\ features[i] = input[i]
        <4>1. \A i \in 1..Len(features) : i <= Len(features)
          BY <2>2
        <4>2. \A i \in 1..Len(features) : features[i] = input[i]
          BY <1>1, Zenon DEF ReadSoFar
        <4> QED
          BY <4>1, <4>2, Zenon
      <3>3. ~(Len(features) + 1 <= Len(features)) /\ Len(features) + 1 \in 1..Len(features) + 1
        BY <2>2
      <3> QED
        BY <2>3, <3>1, <3>2, <3>3
    <2>6. ReadSoFar'
      BY <1>1, <2>1, <2>3, <2>4, <2>5 DEF ReadSoFar
    <2>7. Descending(mapping, features, pending)'
      BY <1>1, <2>1, <2>3
    <2> QED
      BY <1>1, <2>1, <2>3, <2>6, <2>7 DEF StagingInv
  <1> QED
    BY <1>2, <1>3

(* a tile is visited,                                                       *)
LEMMA StageTileStages ==
  ASSUME StagingInv, StageTile
  PROVE  /\ StagingInv'
         /\ Listed(Last(features), Head(pending)) =>
              <<Head(pending), Len(features)>> \in Coverage(features)
  <1> DEFINE f == Last(features)
             t == Head(pending)
             n == Len(features)
  <1>1. /\ pc = "stage" /\ pending # <<>> /\ input' = input /\ input \in Inputs /\ result = ""
        /\ ReadSoFar /\ features # <<>> /\ Descending(mapping, features, pending)
    BY DEF StageTile, StagingInv
  <1>2. IsSeq(features)
    BY <1>1 DEF ReadSoFar
  <1> DEFINE new == IF Listed(f, t) THEN mapping \union {<<t, n>>} ELSE mapping
             next == Descend(f, t) \o Tail(pending)
  <1>3. /\ Descending(new, features, next)
        /\ Listed(f, t) => <<t, n>> \in Coverage(features)
    BY <1>1, <1>2, DescendingOn
  <1>4. \/ pc' = "done" /\ result' # ""
        \/ /\ mapping' = new /\ pending' = next
           /\ tiles' = (IF Listed(f, t) THEN tiles \union {t} ELSE tiles)
           /\ UNCHANGED <<features, pc, result>>
    BY DEF StageTile, Rollback, stagingVars
  <1>5. CASE pc' = "done" /\ result' # ""
    BY <1>1, <1>3, <1>5, DoneStaging
  <1>6. CASE /\ mapping' = new /\ pending' = next
             /\ tiles' = (IF Listed(f, t) THEN tiles \union {t} ELSE tiles)
             /\ UNCHANGED <<features, pc, result>>
    <2>1. tiles' = {m[1] : m \in mapping'}
      <3>1. tiles = {m[1] : m \in mapping}
        BY <1>1 DEF ReadSoFar
      <3>2. LET m == <<t, n>> IN m[1] = t
        OBVIOUS
      <3> HIDE DEF t, n, f
      <3> QED
        BY <1>6, <3>1, <3>2
    <2>2. ReadSoFar'
      BY <1>1, <1>6, <2>1 DEF ReadSoFar
    <2>3. Descending(mapping, features, pending)'
      BY <1>3, <1>6
    <2> QED
      BY <1>1, <1>3, <1>6, <2>2, <2>3 DEF StagingInv
  <1> QED
    BY <1>4, <1>5, <1>6

(* and the feature is done with when none is left.                          *)
LEMMA EndFeatureStages ==
  ASSUME StagingInv, EndFeature
  PROVE  StagingInv'
  <1>1. /\ pc = "stage" /\ pending = <<>> /\ pc' = "read" /\ ReadSoFar
        /\ Descending(mapping, features, pending)
        /\ UNCHANGED <<input, features, tiles, mapping, result>> /\ input \in Inputs /\ result = ""
    BY DEF EndFeature, StagingInv, sourceVars, stagingVars
  <1>2. mapping = Coverage(features)
    BY <1>1, DescentEnds
  <1> QED
    BY <1>1, <1>2 DEF StagingInv, ReadSoFar

(* The other steps stage nothing.                                           *)
LEMMA StagingElsewhere ==
  ASSUME StagingInv,
         \/ EndOfInput \/ (\E t \in tiles : WriteTile(t)) \/ EndOfTiles \/ DropStaging \/ Commit
         \/ StatementFails \/ UNCHANGED vars
  PROVE  StagingInv'
  <1>1. input' = input /\ input \in Inputs
    BY DEF StagingInv, EndOfInput, WriteTile, EndOfTiles, DropStaging, Commit, StatementFails, vars
  <1>2. CASE EndOfInput
    BY <1>1, <1>2 DEF EndOfInput, StagingInv, ReadSoFar, sourceVars, stagingVars
  <1>3. CASE \E t \in tiles : WriteTile(t)
    <2>1. \/ pc' = "done" /\ result' # ""
          \/ pc = "list" /\ UNCHANGED <<features, tiles, mapping, pc, result>>
      BY <1>3 DEF WriteTile, Rollback, stagingVars
    <2> QED
      BY <1>1, <2>1, DoneStaging DEF StagingInv, ReadSoFar
  <1>4. CASE EndOfTiles
    <2>1. \/ pc' = "done" /\ result' # ""
          \/ pc = "list" /\ pc' = "drop" /\ UNCHANGED <<features, tiles, mapping, result>>
      BY <1>4 DEF EndOfTiles, Rollback, stagingVars
    <2> QED
      BY <1>1, <2>1, DoneStaging DEF StagingInv, ReadSoFar
  <1>5. CASE DropStaging
    BY <1>1, <1>5 DEF DropStaging, StagingInv
  <1>6. CASE Commit \/ StatementFails
    BY <1>1, <1>6, DoneStaging DEF Commit, StatementFails, Rollback
  <1>7. CASE UNCHANGED vars
    <2>1. UNCHANGED <<input, features, tiles, mapping, pending, pc, result>>
      BY <1>7 DEF vars, sourceVars, stagingVars
    <2> QED
      BY <2>1 DEF StagingInv, ReadSoFar
  <1> QED
    BY <1>2, <1>3, <1>4, <1>5, <1>6, <1>7

(* Every step keeps what is staged right.                                   *)
LEMMA StagingStep == StagingInv /\ [Next]_vars => StagingInv'
  BY ReadFeatureStages, StageTileStages, EndFeatureStages, StagingElsewhere DEF Next, Returned

(* The tiles under which a feature is listed, found by the descent, are     *)
(* exactly those of the zooms asked for that it contributes to: a tile that *)
(* the feature does not meet has nothing of it below                        *)
(* (stageArchiveFeatureTile).                                               *)
THEOREM StagedIsCoverageCorrect == Spec => []StagedIsCoverage
  <1>1. Init => StagingInv
    BY InitStages
  <1>2. StagingInv => StagedIsCoverage
    BY DEF StagingInv, ReadSoFar, StagedIsCoverage, Covered
  <1> QED
    BY <1>1, <1>2, StagingStep, PTL DEF Spec

-----------------------------------------------------------------------------
(* What the limit stops, and what the archive holds.                        *)

(* The row of a tile that is covered, as the file is to have it.            *)
RowOf(t, fs) == [zoom |-> t[1], column |-> t[2], row |-> 2^t[1] - 1 - t[3],
                 ids |-> {id \in DOMAIN fs : <<t, id>> \in Coverage(fs)}]
Rows(ts, fs) == {RowOf(t, fs) : t \in ts}

ArchiveInv ==
    /\ result = "too many tiles" => Cardinality(Covered(input)) > MaxTiles
    /\ pc \in {"drop", "commit"} \/ result = "ok" => Cardinality(Covered(input)) <= MaxTiles
    /\ pc = "drop" => tileCount = Cardinality(tiles)
    /\ pc = "list" => written = Rows(Seen, input)
    /\ pc \in {"drop", "commit"} => written = Rows(Covered(input), input)
    /\ archive = IF result = "ok" THEN Rows(Covered(input), input) ELSE {}

(* There are finitely many tiles, so that a coverage is finite.             *)
LEMMA CoveredFinite ==
  ASSUME NEW fs, IsSeq(fs)
  PROVE  IsFiniteSet(Covered(fs)) /\ Cardinality(Covered(fs)) \in Nat
  <1> DEFINE P == Pow(30)
             D == ((0..30) \X (0..P)) \X (0..P)
             f == [t \in AllTiles |-> <<<<t[1], t[2]>>, t[3]>>]
  <1>1. P \in Nat /\ \A z \in 0..30 : Pow(z) <= P
    BY PowValues
  <1> HIDE DEF P
  <1>2. IsFiniteSet(0..30) /\ IsFiniteSet(0..P)
    <2>1. 0 \in Int /\ 30 \in Int /\ P \in Int
      BY <1>1
    <2> QED
      BY <2>1, FS_Interval
  <1>3. IsFiniteSet((0..30) \X (0..P))
    BY <1>2, FS_Product
  <1>4. IsFiniteSet(D)
    BY <1>2, <1>3, FS_Product
  <1>5. ASSUME NEW t \in AllTiles  PROVE <<<<t[1], t[2]>>, t[3]>> \in D /\ t = <<t[1], t[2], t[3]>>
    <2>1. IsTile(t)
      BY AllTilesAre
    <2>2. t[1] \in 0..30 /\ Pow(t[1]) \in Nat /\ Pow(t[1]) <= P
      BY <1>1, <2>1, Zooms DEF IsTile
    <2>3. t[2] \in 0..P /\ t[3] \in 0..P
      BY <1>1, <2>1, <2>2 DEF IsTile
    <2> QED
      BY <2>1, <2>2, <2>3, TileParts DEF IsTile
  <1> HIDE DEF D
  <1>6. f \in Injection(AllTiles, D)
    <2>1. f \in [AllTiles -> D]
      BY <1>5
    <2>2. ASSUME NEW a \in AllTiles, NEW b \in AllTiles, f[a] = f[b]  PROVE a = b
      <3>1. <<<<a[1], a[2]>>, a[3]>> = <<<<b[1], b[2]>>, b[3]>>
        BY <2>2
      <3>2. a[1] = b[1] /\ a[2] = b[2] /\ a[3] = b[3]
        BY <3>1
      <3>3. a = <<a[1], a[2], a[3]>> /\ b = <<b[1], b[2], b[3]>>
        BY <1>5
      <3> QED
        BY <3>2, <3>3
    <2> QED
      BY <2>1, <2>2 DEF Injection, IsInjective
  <1>7. IsFiniteSet(AllTiles)
    BY <1>4, <1>6, FS_Injection
  <1>8. Covered(fs) \subseteq AllTiles
    BY CoverageIs DEF Covered
  <1> QED
    BY <1>7, <1>8, FS_Subset, FS_CardinalityType

(* Of features that begin the input no tile is covered but by the input.    *)
LEMMA CoveredGrows ==
  ASSUME NEW fs, IsSeq(fs), NEW gs, IsSeq(gs), Len(fs) <= Len(gs),
         \A i \in 1..Len(fs) : fs[i] = gs[i]
  PROVE  /\ Coverage(fs) \subseteq Coverage(gs) /\ Covered(fs) \subseteq Covered(gs)
         /\ Len(fs) = Len(gs) => Coverage(fs) = Coverage(gs) /\ Covered(fs) = Covered(gs)
  <1>1. \A m : m \in Coverage(fs) <=> m \in Coverage(gs) /\ m[2] <= Len(fs)
    BY CoverageOfFirst
  <1>2. Coverage(fs) \subseteq Coverage(gs)
    BY <1>1
  <1>3. ASSUME Len(fs) = Len(gs)  PROVE Coverage(fs) = Coverage(gs)
    <2>1. Len(gs) \in Nat
      BY SeqFacts
    <2>2. \A i \in 1..Len(gs) : i <= Len(gs)
      BY <2>1
    <2>3. \A m \in Coverage(gs) : m[2] <= Len(fs)
      BY <1>3, <2>2, CoverageIs
    <2>4. \A m : m \in Coverage(fs) <=> m \in Coverage(gs)
      BY <1>1, <2>3, Zenon
    <2> QED
      BY <2>4, Zenon
  <1> QED
    BY <1>2, <1>3 DEF Covered

(* The features read cover what the input does, as far as they go.          *)
LEMMA InputCovered ==
  ASSUME StagingInv, pc \in {"read", "stage", "list", "drop"}
  PROVE  /\ IsSeq(features) /\ IsSeq(input)
         /\ Coverage(features) \subseteq Coverage(input) /\ Covered(features) \subseteq Covered(input)
         /\ tiles = {m[1] : m \in mapping}
         /\ pc \in {"list", "drop"} =>
              /\ mapping = Coverage(input) /\ tiles = Covered(input)
              /\ Len(features) = Len(input) /\ DOMAIN features = DOMAIN input
  <1>1. ReadSoFar /\ IsSeq(features) /\ IsSeq(input)
    BY InputIsSeq DEF StagingInv, ReadSoFar
  <1>2. /\ Coverage(features) \subseteq Coverage(input) /\ Covered(features) \subseteq Covered(input)
        /\ Len(features) = Len(input) =>
             Coverage(features) = Coverage(input) /\ Covered(features) = Covered(input)
    BY <1>1, CoveredGrows DEF ReadSoFar
  <1>3. pc \in {"list", "drop"} => Len(features) = Len(input) /\ mapping = Coverage(features)
    BY DEF StagingInv
  <1>4. DOMAIN features = 1..Len(features) /\ DOMAIN input = 1..Len(input)
    BY <1>1, SeqFacts
  <1> QED
    BY <1>1, <1>2, <1>3, <1>4 DEF ReadSoFar, Covered

(* The archive is empty until it is whole.                                  *)
LEMMA ArchiveEmpty ==
  ASSUME ArchiveInv, result # "ok", input' = input, archive' = archive, result' # "ok",
         pc' \notin {"drop", "commit"},
         result' # "too many tiles", pc' = "list" => written' = Rows(Seen', input)
  PROVE  ArchiveInv'
  BY DEF ArchiveInv

(* A tile that would be one too many is one that the input covers, as are   *)
(* all those staged before it.                                              *)
LEMMA StageTileArchives ==
  ASSUME StagingInv, LimitInv, ArchiveInv, StageTile
  PROVE  ArchiveInv'
  <1> DEFINE t == Head(pending)
  <1>1. pc = "stage" /\ result = "" /\ input' = input /\ archive' = archive
    BY DEF StageTile, StagingInv
  <1>2. CASE Listed(Last(features), t) /\ tileCount + Cardinality({t} \ tiles) > MaxTiles
    <2>1. pc' = "done" /\ result' = "too many tiles"
      BY <1>2 DEF StageTile, Rollback
    <2>2. Counted /\ IsFiniteSet(tiles) /\ tileCount = Cardinality(tiles)
      BY <1>1 DEF LimitInv, Counted
    <2>3. t \notin tiles
      <3>1. SUFFICES ASSUME t \in tiles  PROVE FALSE
        OBVIOUS
      <3>2. {t} \ tiles = {}
        BY <3>1
      <3>3. Cardinality({t} \ tiles) = 0 /\ tileCount \in Nat /\ MaxTiles \in Nat
        BY <2>2, <3>2, FS_EmptySet, FS_CardinalityType, ArchiveAssumption
      <3> QED
        BY <1>2, <2>2, <3>3 DEF Counted
    <2>4. Cardinality({t} \ tiles) = 1
      <3>1. {t} \ tiles = {t}
        BY <2>3
      <3> QED
        BY <3>1, FS_Singleton
    <2>5. Cardinality(tiles \union {t}) = Cardinality(tiles) + 1
      BY <2>2, <2>3, FS_AddElement
    <2>6. tiles \union {t} \subseteq Covered(input)
      <3>1. <<t, Len(features)>> \in Coverage(features)
        BY <1>2, StageTileStages
      <3>2. LET m == <<t, Len(features)>> IN m[1] = t
        OBVIOUS
      <3>3. mapping \subseteq Coverage(features)
        BY <1>1 DEF StagingInv, Descending
      <3>4. /\ tiles = {m[1] : m \in mapping} /\ Covered(features) \subseteq Covered(input)
        BY <1>1, InputCovered
      <3> HIDE DEF t
      <3> QED
        BY <3>1, <3>2, <3>3, <3>4 DEF Covered
    <2>7. IsFiniteSet(Covered(input)) /\ Cardinality(Covered(input)) \in Nat
      BY <1>1, InputCovered, CoveredFinite
    <2>8. Cardinality(tiles \union {t}) <= Cardinality(Covered(input))
      BY <2>6, <2>7, FS_Subset
    <2>9. Cardinality(Covered(input)) > MaxTiles
      <3>1. Cardinality(tiles) \in Nat /\ MaxTiles \in Nat
        BY <2>2, FS_CardinalityType, ArchiveAssumption
      <3> QED
        BY <1>2, <2>2, <2>4, <2>5, <2>7, <2>8, <3>1
    <2> QED
      BY <1>1, <2>1, <2>9 DEF ArchiveInv
  <1>3. CASE ~(Listed(Last(features), t) /\ tileCount + Cardinality({t} \ tiles) > MaxTiles)
    <2>1. pc' = pc /\ result' = result
      BY <1>3 DEF StageTile
    <2> QED
      BY <1>1, <2>1, ArchiveEmpty
  <1> QED
    BY <1>2, <1>3

(* A row is written for each tile listed.                                   *)
LEMMA WriteTileArchives ==
  ASSUME StagingInv, LimitInv, ArchiveInv, NEW t \in tiles, WriteTile(t)
  PROVE  ArchiveInv'
  <1>1. /\ pc = "list" /\ result = "" /\ input' = input /\ archive' = archive
        /\ t \in Ahead /\ NextTile(t) /\ Counted
    BY DEF WriteTile, StagingInv, LimitInv
  <1>2. CASE result' # ""
    BY <1>1, <1>2, ArchiveEmpty DEF WriteTile, Rollback
  <1>3. CASE result' = ""
    <2>1. /\ mapping = Coverage(input) /\ tiles = Covered(input)
          /\ DOMAIN features = DOMAIN input /\ Len(features) = Len(input)
          /\ IsSeq(features) /\ IsSeq(input) /\ \A i \in 1..Len(features) : features[i] = input[i]
      BY <1>1, InputCovered DEF StagingInv, ReadSoFar
    <2>2. Encoded(t) = {id \in DOMAIN input : <<t, id>> \in Coverage(input)}
      <3>1. IDs(t) = {id \in DOMAIN input : <<t, id>> \in Coverage(input)}
        BY <2>1 DEF IDs
      <3>2. \A id \in IDs(t) : Contributes(features[id], t)
        <4>1. DOMAIN input = 1..Len(input)
          BY <2>1, SeqFacts
        <4> QED
          BY <2>1, <3>1, <4>1, CoverageIs
      <3> QED
        BY <3>1, <3>2 DEF Encoded
    <2>3. Encoded(t) # {}
      <3>1. PICK m \in Coverage(input) : t = m[1]
        BY <2>1 DEF Covered
      <3>2. m = <<t, m[2]>> /\ m[2] \in DOMAIN input
        BY <2>1, <3>1, CoverageIs, SeqFacts
      <3> QED
        BY <2>2, <3>1, <3>2
    <2>4. Row(t, Encoded(t)) = RowOf(t, input)
      BY <2>2, Zenon DEF Row, RowOf
    <2>5. /\ previous' = t /\ tiles' = tiles /\ pc' = pc
          /\ written' = written \union {Row(t, Encoded(t))}
      BY <1>3, <2>3 DEF WriteTile, Rollback, stagingVars
    <2>6. Seen' = Seen \union {t}
      <3>1. \A u \in tiles \union {t} : u \in Tile
        BY <1>1 DEF Counted
      <3>2. previous \in Tile \union {NoTile} /\ Before(previous, t)
        BY <1>1 DEF Counted, Ahead
      <3>3. \A u \in tiles : Before(t, u) <=> Before(previous, u) /\ u # t
        BY <1>1, <3>1, <3>2, BeforeOrders DEF NextTile, Ahead
      <3> QED
        BY <1>1, <2>5, <3>3 DEF Seen, Ahead
    <2>7. written' = Rows(Seen', input)
      <3>1. written = Rows(Seen, input)
        BY <1>1 DEF ArchiveInv
      <3> QED
        BY <2>4, <2>5, <2>6, <3>1 DEF Rows
    <2> QED
      BY <1>1, <1>3, <2>5, <2>7, ArchiveEmpty
  <1> QED
    BY <1>2, <1>3

(* The other steps.                                                         *)
LEMMA ArchivingElsewhere ==
  ASSUME StagingInv, LimitInv, ArchiveInv,
         \/ ReadFeature \/ EndFeature \/ EndOfInput \/ EndOfTiles \/ DropStaging \/ Commit
         \/ StatementFails \/ UNCHANGED vars
  PROVE  ArchiveInv'
  <1>1. CASE ReadFeature \/ EndFeature \/ StatementFails
    <2>1. /\ pc # "done" /\ input' = input /\ archive' = archive
          /\ pc' # "list" /\ pc' \notin {"drop", "commit"} /\ result' \notin {"ok", "too many tiles"}
      BY <1>1 DEF ReadFeature, EndFeature, StatementFails, Rollback, StagingInv, outputVars
    <2>2. result # "ok"
      BY <2>1 DEF StagingInv
    <2> QED
      BY <2>1, <2>2, ArchiveEmpty
  <1>2. CASE EndOfInput
    <2>1. /\ pc = "read" /\ pc' = "list" /\ result = ""
          /\ UNCHANGED <<input, tiles, previous, written, archive, result>>
      BY <1>2 DEF EndOfInput, StagingInv, sourceVars, stagingVars, outputVars
    <2>2. Counted /\ previous = NoTile /\ written = {} /\ tiles \subseteq Tile
      BY <2>1 DEF LimitInv, Counted
    <2>3. Seen' = {}
      BY <2>1, <2>2, BeforeOrders DEF Seen, Ahead
    <2>4. Rows({}, input) = {}
      BY DEF Rows
    <2> QED
      BY <2>1, <2>2, <2>3, <2>4, ArchiveEmpty
  <1>3. CASE EndOfTiles
    <2>1. /\ pc = "list" /\ Ahead = {} /\ input' = input /\ archive' = archive /\ result = "" /\ Counted
      BY <1>3 DEF EndOfTiles, StagingInv, LimitInv
    <2>2. CASE listed # tileCount
      BY <1>3, <2>1, <2>2, ArchiveEmpty DEF EndOfTiles, Rollback
    <2>3. CASE listed = tileCount
      <3>1. pc' = "drop" /\ written' = written /\ result' = result
        BY <1>3, <2>3 DEF EndOfTiles
      <3>2. Seen = Covered(input) /\ tiles = Covered(input)
        BY <2>1, InputCovered DEF Seen
      <3>3. Cardinality(Covered(input)) <= MaxTiles
        BY <2>1, <3>2 DEF Counted
      <3>4. tileCount' = Cardinality(tiles')
        BY <1>3, <2>1, <2>3 DEF EndOfTiles, Counted, stagingVars
      <3> QED
        BY <2>1, <3>1, <3>2, <3>3, <3>4 DEF ArchiveInv
    <2> QED
      BY <2>2, <2>3
  <1>4. CASE DropStaging \/ Commit
    <2>1. /\ input' = input /\ written' = written /\ result = ""
          /\ \/ pc = "drop" /\ pc' = "commit" /\ UNCHANGED <<archive, result>>
             \/ pc = "commit" /\ pc' = "done" /\ result' = "ok" /\ archive' = written
      BY <1>4 DEF DropStaging, Commit, outputVars, StagingInv
    <2> QED
      BY <2>1 DEF ArchiveInv
  <1>5. CASE UNCHANGED vars
    <2>1. UNCHANGED <<input, tiles, tileCount, previous, pc, written, archive, result>>
      BY <1>5 DEF vars, sourceVars, stagingVars, outputVars
    <2>2. Seen' = Seen
      BY <2>1 DEF Seen, Ahead
    <2> QED
      BY <2>1, <2>2 DEF ArchiveInv
  <1> QED
    BY <1>1, <1>2, <1>3, <1>4, <1>5

(* What the three invariants say holds throughout.                          *)
ArchivedInv == StagingInv /\ LimitInv /\ ArchiveInv

(* They do.                                                                 *)
LEMMA Archived == Spec => []ArchivedInv
  <1>1. Init => ArchivedInv
    <2>1. Init => ArchiveInv
      BY DEF Init, ArchiveInv
    <2> QED
      BY <2>1, InitStages, LimitBegins DEF ArchivedInv
  <1>2. ArchivedInv /\ [Next]_vars => ArchivedInv'
    <2> SUFFICES ASSUME ArchivedInv, [Next]_vars  PROVE ArchivedInv'
      OBVIOUS
    <2>1. StagingInv /\ LimitInv /\ ArchiveInv
      BY DEF ArchivedInv
    <2>2. ArchiveInv'
      BY <2>1, StageTileArchives, WriteTileArchives, ArchivingElsewhere DEF Next, Returned
    <2> QED
      BY <2>1, <2>2, StagingStep, LimitStep DEF ArchivedInv
  <1> QED
    BY <1>1, <1>2, PTL DEF Spec

(* The limit stops exactly the inputs whose features cover more tiles than  *)
(* it allows, counting each tile once, and no other test of it fails        *)
(* (stageArchiveFeatureTile, writeMBTilesDatabase).                         *)
THEOREM LimitExactCorrect == Spec => []LimitExact
  <1>1. ArchivedInv => LimitExact
    <2> SUFFICES ASSUME ArchivedInv  PROVE LimitExact
      OBVIOUS
    <2>1. StagingInv /\ LimitInv /\ ArchiveInv
      BY DEF ArchivedInv
    <2>2. result = "" => tileCount = Cardinality(tiles) \/ pc = "commit"
      BY <2>1 DEF StagingInv, LimitInv, ArchiveInv, Counted
    <2>3. result \notin {"too many rows", "tiles listed and recorded differ"}
      BY <2>1 DEF LimitInv, LaterTests
    <2> QED
      BY <2>1, <2>2, <2>3 DEF ArchiveInv, LimitExact
  <1> QED
    BY <1>1, Archived, PTL

(* The file holds nothing, or one row for each tile that some feature of    *)
(* the input contributes to, with exactly those features                    *)
(* (writeMBTilesDatabase, whose transaction is all or nothing).             *)
THEOREM ArchiveIsWholeCorrect == Spec => []ArchiveIsWhole
  <1>1. ArchivedInv => ArchiveIsWhole
    BY Zenon DEF ArchivedInv, ArchiveInv, ArchiveIsWhole, Rows, RowOf
  <1> QED
    BY <1>1, Archived, PTL

=============================================================================
