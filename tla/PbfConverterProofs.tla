------------------------- MODULE PbfConverterProofs -------------------------
(***************************************************************************)
(* Theorems about the two modules of pbf2geojson: about PbfConverter, for  *)
(* every set of files, either cache and every batch size; and about the    *)
(* rings and polygons of PolygonAssembly, for every relation, however many *)
(* ways it has and wherever they pass.                                     *)
(***************************************************************************)
EXTENDS PbfConverter, PolygonAssembly, FiniteSetTheorems, SequenceTheorems,
        WellFoundedInduction, TLAPS

-----------------------------------------------------------------------------
(* What an element refers to. *)

(* An element refers to finitely many others. *)
LEMMA RefsFinite ==
  ASSUME NEW e \in Element, NEW kind
  PROVE  /\ IsFiniteSet(Refs(e, kind))
         /\ Refs(e, kind) \subseteq Int
  <1> DEFINE n == Len(e.refs)
             f == [i \in 1..n |-> e.refs[i].id]
             T == Range(f)
  <1>1. e.refs \in Seq(Ref)
    BY DEF Element
  <1>2. n \in Nat /\ DOMAIN e.refs = 1..n /\ \A i \in 1..n : e.refs[i] \in Ref
    BY <1>1
  <1>3. IsFiniteSet(1..n)
    BY <1>2, FS_Interval
  <1>4. f \in Surjection(1..n, T)
    BY DEF Surjection, Range
  <1>5. IsFiniteSet(T)
    BY <1>3, <1>4, FS_Surjection
  <1>6. ToSet(e.refs) = {e.refs[i] : i \in 1..n}
    BY <1>2 DEF ToSet
  <1>7. ASSUME NEW id \in Refs(e, kind)  PROVE  id \in T /\ id \in Int
    <2>1. PICK r \in ToSet(e.refs) : r.id = id
      BY <1>7 DEF Refs
    <2>2. PICK i \in 1..n : r = e.refs[i]
      BY <2>1, <1>6
    <2>3. f[i] = id
      BY <2>1, <2>2
    <2>4. e.refs[i] \in Ref
      BY <1>2
    <2> QED
      BY <2>1, <2>2, <2>3, <2>4 DEF Ref, Range
  <1>8. Refs(e, kind) \in SUBSET T
    BY <1>7
  <1> QED
    BY <1>5, <1>7, <1>8, FS_Subset

-----------------------------------------------------------------------------
(* The masks. *)

(* What a selected element refers to is marked when index has seen it. *)
Marked(e) == /\ Refs(e, "node") \subseteq RelNodes
             /\ Refs(e, "way") \subseteq RelWays
             /\ Refs(e, "relation") \subseteq RelRelation

Indexed(e) ==
    /\ e.kind = "way" /\ Matches(e) => Refs(e, "node") \subseteq WayRefs
    /\ e.kind = "relation" /\ Matches(e) => Marked(e)

(* What a marked element refers to is marked when a members pass has seen   *)
(* it and marked no way and no relation since.                              *)
Closed(e) ==
    /\ e.kind = "way" /\ e.id \in RelWays => Refs(e, "node") \subseteq RelNodes
    /\ e.kind = "relation" /\ e.id \in RelRelation => Marked(e)

PosType == file \in Files /\ pos \in Nat \ {0}

FiniteMasks == IsFiniteSet(RelWays) /\ IsFiniteSet(RelRelation)

Grown == /\ relationCount \in Nat /\ wayCount \in Nat
         /\ relationCount <= Cardinality(RelRelation)
         /\ wayCount <= Cardinality(RelWays)

IndexPart == pass \in {"index", "members", "print", "relations"} =>
    \A i \in DOMAIN file : (pass = "index" => i < pos) => Indexed(file[i])

MembersPart == pass = "members" =>
    Grown /\ (Settled => \A i \in DOMAIN file : i < pos => Closed(file[i]))

PrintPart == pass \in {"print", "relations"} =>
                 \A i \in DOMAIN file : Closed(file[i])

MInv == PosType /\ FiniteMasks /\ IndexPart /\ MembersPart /\ PrintPart

(* A file is a sequence of elements. *)
LEMMA FileElements ==
  ASSUME PosType
  PROVE  /\ Len(file) \in Nat /\ DOMAIN file = 1..Len(file)
         /\ \A i \in DOMAIN file : file[i] \in Element
  BY ConverterAssumption DEF PosType

(* The masks only grow. *)
MasksGrow ==
    /\ WayRefs \subseteq WayRefs' /\ RelNodes \subseteq RelNodes'
    /\ RelWays \subseteq RelWays' /\ RelRelation \subseteq RelRelation'

(* As the masks grow, what is indexed stays indexed. *)
LEMMA StaysIndexed ==
  ASSUME MasksGrow, UNCHANGED file, NEW i, Indexed(file[i])
  PROVE  Indexed(file[i])'
  BY DEF MasksGrow, Indexed, Marked, Matches, Refs

(* While no way and no relation is marked, what is closed stays closed. *)
LEMMA StaysClosed ==
  ASSUME MasksGrow, UNCHANGED <<file, RelWays, RelRelation>>,
         NEW i, Closed(file[i])
  PROVE  Closed(file[i])'
  BY DEF MasksGrow, Closed, Marked, Refs

(* IndexRelation marks everything its relation refers to. *)
LEMMA IndexRelationMarks ==
  ASSUME UNCHANGED file, NEW i, IndexRelation(file[i])
  PROVE  Marked(file[i])'
  BY DEF IndexRelation, Marked, Refs

(* index marks what the element it has decoded refers to, if selected. *)
LEMMA IndexIndexes ==
  ASSUME Index, NEW i, i = pos
  PROVE  MasksGrow /\ Indexed(file[i])'
  <1> DEFINE e == file[i]
  <1>1. /\ file' = file
        /\ WayRefs' = IF e.kind = "way" /\ Matches(e)
                      THEN WayRefs \cup Refs(e, "node") ELSE WayRefs
        /\ IF e.kind = "relation" /\ Matches(e)
           THEN IndexRelation(e) ELSE UNCHANGED relMasks
    BY DEF Index
  <1>2. MasksGrow
    BY <1>1 DEF MasksGrow, IndexRelation, relMasks
  <1>3. e.kind = "way" /\ Matches(e) => Refs(e, "node") \subseteq WayRefs'
    BY <1>1
  <1>4. e.kind = "relation" /\ Matches(e) => Marked(file[i])'
    BY <1>1, IndexRelationMarks
  <1>5. e' = e
    BY <1>1
  <1> QED
    BY <1>2, <1>3, <1>4, <1>5 DEF Indexed, Matches, Refs

(* A members pass marks what the element it has decoded refers to, if       *)
(* marked itself.                                                           *)
LEMMA IndexMembersCloses ==
  ASSUME IndexMembers, NEW i, i = pos
  PROVE  /\ MasksGrow
         /\ UNCHANGED <<RelWays, RelRelation>> => Closed(file[i])'
  <1> DEFINE e == file[i]
  <1>1. file' = file /\ WayRefs' = WayRefs
    BY DEF IndexMembers, selMasks
  <1>2. CASE e.kind = "way" /\ e.id \in RelWays
    <2>1. /\ RelNodes' = RelNodes \cup Refs(e, "node")
          /\ UNCHANGED <<RelWays, RelRelation>>
      BY <1>2 DEF IndexMembers
    <2> QED
      BY <1>1, <1>2, <2>1 DEF MasksGrow, Closed, Refs
  <1>3. CASE e.kind = "relation" /\ e.id \in RelRelation
    <2>1. IndexRelation(e)
      BY <1>3 DEF IndexMembers
    <2>2. Marked(file[i])'
      BY <1>1, <2>1, IndexRelationMarks
    <2> QED
      BY <1>1, <1>3, <2>1, <2>2 DEF MasksGrow, Closed, IndexRelation
  <1>4. CASE /\ ~(e.kind = "way" /\ e.id \in RelWays)
             /\ ~(e.kind = "relation" /\ e.id \in RelRelation)
    <2>1. UNCHANGED relMasks
      BY <1>4 DEF IndexMembers
    <2> QED
      BY <1>1, <1>4, <2>1 DEF MasksGrow, Closed, relMasks
  <1> QED
    BY <1>2, <1>3, <1>4

(* The masks of ways and of relations stay finite. *)
LEMMA FiniteStep ==
  ASSUME PosType, FiniteMasks, [Next]_vars
  PROVE  FiniteMasks'
  <1>1. ASSUME pos <= Len(file), IndexRelation(file[pos])  PROVE FiniteMasks'
    <2>1. file[pos] \in Element
      BY <1>1, FileElements DEF PosType
    <2>2. /\ IsFiniteSet(Refs(file[pos], "way"))
          /\ IsFiniteSet(Refs(file[pos], "relation"))
      BY <2>1, RefsFinite
    <2> QED
      BY <1>1, <2>2, FS_Union DEF IndexRelation, FiniteMasks
  <1>2. ASSUME UNCHANGED <<RelWays, RelRelation>>  PROVE FiniteMasks'
    BY <1>2 DEF FiniteMasks
  <1>3. CASE Index
    BY <1>1, <1>2, <1>3 DEF Index, relMasks
  <1>4. CASE IndexMembers
    BY <1>1, <1>2, <1>4 DEF IndexMembers, relMasks
  <1>5. CASE UNCHANGED relMasks
    BY <1>2, <1>5 DEF relMasks
  <1>6. CASE \/ IndexEnd \/ MembersEnd \/ PrintNode \/ PrintWay
             \/ PrintRelation \/ PrintEnd \/ PrintFeature \/ FeaturesEnd
             \/ DecodeFails \/ CloseWriter \/ CloseCache \/ Returned
             \/ UNCHANGED vars
    BY <1>5, <1>6 DEF IndexEnd, MembersEnd, PrintNode, PrintWay, PrintRelation,
         PrintEnd, PrintFeature, FeaturesEnd, DecodeFails, CloseWriter,
         CloseCache, Returned, vars
  <1> QED
    BY <1>3, <1>4, <1>6 DEF Next

(* No step changes the file, or leaves it at no element.                    *)
LEMMA PosStep ==
  ASSUME PosType, [Next]_vars
  PROVE  file' = file /\ PosType'
  <1>1. pos + 1 \in Nat \ {0} /\ 1 \in Nat \ {0}
    BY DEF PosType
  <1> SUFFICES file' = file /\ pos' \in {pos, pos + 1, 1}
    BY <1>1 DEF PosType
  <1>2. CASE Index \/ IndexEnd \/ IndexMembers \/ MembersEnd
    BY <1>2 DEF Index, IndexEnd, IndexMembers, MembersEnd
  <1>3. CASE PrintNode
    BY <1>3 DEF PrintNode, Stop, Skip, Write
  <1>4. CASE PrintWay
    BY <1>4 DEF PrintWay, Stop, Skip, Write
  <1>5. CASE PrintRelation
    BY <1>5 DEF PrintRelation, Stop, Skip
  <1>6. CASE PrintEnd
    BY <1>6 DEF PrintEnd, Stop
  <1>7. CASE PrintFeature
    BY <1>7 DEF PrintFeature, Stop, Write
  <1>8. CASE \/ FeaturesEnd \/ DecodeFails \/ CloseWriter \/ CloseCache
             \/ Returned \/ UNCHANGED vars
    BY <1>8 DEF FeaturesEnd, DecodeFails, CloseWriter, CloseCache, Returned,
         vars, input
  <1> QED
    BY <1>2, <1>3, <1>4, <1>5, <1>6, <1>7, <1>8 DEF Next

(* Where the steps that mark nothing lead.                                  *)
LEMMA UnmarkingStep ==
  ASSUME \/ PrintNode \/ PrintWay \/ PrintRelation \/ PrintEnd
         \/ PrintFeature \/ FeaturesEnd \/ DecodeFails \/ CloseWriter
         \/ CloseCache \/ Returned \/ UNCHANGED vars
  PROVE  /\ UNCHANGED <<selMasks, relMasks, counts>>
         /\ \/ UNCHANGED <<pass, pos>>
            \/ pass \in {"print", "relations"} /\
               pass' \in {"print", "relations", "close"}
            \/ pass' \in {"close", "release", "done"}
  <1>1. CASE PrintNode
    BY <1>1 DEF PrintNode, Stop, Skip, Write, Decoding
  <1>2. CASE PrintWay
    BY <1>2 DEF PrintWay, Stop, Skip, Write, Decoding
  <1>3. CASE PrintRelation
    BY <1>3 DEF PrintRelation, Stop, Skip, Decoding
  <1>4. CASE PrintEnd
    BY <1>4 DEF PrintEnd, Stop
  <1>5. CASE PrintFeature
    BY <1>5 DEF PrintFeature, Stop, Write
  <1>6. CASE \/ FeaturesEnd \/ DecodeFails \/ CloseWriter \/ CloseCache
             \/ Returned \/ UNCHANGED vars
    BY <1>6 DEF FeaturesEnd, DecodeFails, CloseWriter, CloseCache, Returned,
         vars, input
  <1> QED
    BY <1>1, <1>2, <1>3, <1>4, <1>5, <1>6

-----------------------------------------------------------------------------
(* The inductive invariant: what a finished part of a pass has established. *)

(* index keeps the invariant: one more element is indexed.                  *)
LEMMA IndexKeeps ==
  ASSUME MInv, Index
  PROVE  (IndexPart /\ MembersPart /\ PrintPart)'
  <1>1. /\ pass = "index" /\ pass' = "index" /\ file' = file
        /\ pos' = pos + 1 /\ pos \in Nat /\ IndexPart
    BY DEF MInv, PosType, Index
  <1>2. DOMAIN file \subseteq Nat
    BY FileElements DEF MInv
  <1>3. ASSUME NEW i \in DOMAIN file, i < pos + 1  PROVE Indexed(file[i])'
    <2>1. CASE i = pos
      BY <2>1, IndexIndexes
    <2>2. CASE i # pos
      <3>1. i < pos
        BY <1>1, <1>2, <1>3, <2>2
      <3>2. Indexed(file[i])
        BY <1>1, <3>1 DEF IndexPart
      <3> QED
        BY <1>1, <3>2, IndexIndexes, StaysIndexed
    <2> QED
      BY <2>1, <2>2
  <1> QED
    BY <1>1, <1>3 DEF IndexPart, MembersPart, PrintPart

(* A members pass keeps the invariant: the counts still equal the sizes of  *)
(* the masks only if this element marked no way and no relation.            *)
LEMMA IndexMembersKeeps ==
  ASSUME MInv, IndexMembers, FiniteMasks'
  PROVE  (IndexPart /\ MembersPart /\ PrintPart)'
  <1>1. /\ pass = "members" /\ pass' = "members" /\ file' = file
        /\ pos' = pos + 1 /\ pos \in Nat /\ IndexPart /\ MembersPart
        /\ UNCHANGED counts
    BY DEF MInv, PosType, IndexMembers
  <1>2. DOMAIN file \subseteq Nat
    BY FileElements DEF MInv
  <1>3. MasksGrow
    BY IndexMembersCloses
  <1>4. ASSUME NEW i \in DOMAIN file  PROVE Indexed(file[i])'
    <2>1. Indexed(file[i])
      BY <1>1 DEF IndexPart
    <2> QED
      BY <1>1, <1>3, <2>1, StaysIndexed
  <1>5. /\ Cardinality(RelWays) \in Nat /\ Cardinality(RelRelation) \in Nat
        /\ Cardinality(RelWays') \in Nat
        /\ Cardinality(RelRelation') \in Nat
    BY FS_CardinalityType DEF MInv, FiniteMasks
  <1>6. /\ Cardinality(RelWays) <= Cardinality(RelWays')
        /\ Cardinality(RelRelation) <= Cardinality(RelRelation')
        /\ Cardinality(RelWays) = Cardinality(RelWays') => RelWays' = RelWays
        /\ Cardinality(RelRelation) = Cardinality(RelRelation') =>
             RelRelation' = RelRelation
    BY <1>3, FS_Subset DEF MasksGrow, FiniteMasks
  <1>7. Grown /\ relationCount' = relationCount /\ wayCount' = wayCount
    BY <1>1 DEF MembersPart, counts
  <1>8. Grown'
    BY <1>5, <1>6, <1>7 DEF Grown
  <1>9. ASSUME Settled', NEW i \in DOMAIN file, i < pos + 1
        PROVE  Closed(file[i])'
    <2>1. /\ Cardinality(RelRelation') = relationCount
          /\ Cardinality(RelWays') = wayCount
      BY <1>7, <1>9 DEF Settled
    <2>2. /\ Cardinality(RelRelation) = Cardinality(RelRelation')
          /\ Cardinality(RelWays) = Cardinality(RelWays')
      BY <1>5, <1>6, <1>7, <2>1 DEF Grown
    <2>3. Settled /\ UNCHANGED <<RelWays, RelRelation>>
      BY <1>6, <2>1, <2>2 DEF Settled
    <2>4. CASE i = pos
      BY <2>3, <2>4, IndexMembersCloses
    <2>5. CASE i # pos
      <3>1. i < pos
        BY <1>1, <1>2, <1>9, <2>5
      <3>2. Closed(file[i])
        BY <1>1, <2>3, <3>1 DEF MembersPart
      <3> QED
        BY <1>1, <1>3, <2>3, <3>2, StaysClosed
    <2> QED
      BY <2>4, <2>5
  <1> QED
    BY <1>1, <1>4, <1>8, <1>9 DEF IndexPart, MembersPart, PrintPart

(* Beginning a members pass keeps the invariant: the counts are the sizes.  *)
LEMMA BeginMembersKeeps ==
  ASSUME FiniteMasks, BeginMembers, pos' = 1, file' = file,
         UNCHANGED <<selMasks, relMasks>>, DOMAIN file \subseteq Nat \ {0},
         \A i \in DOMAIN file : Indexed(file[i])
  PROVE  (IndexPart /\ MembersPart /\ PrintPart)'
  <1>1. /\ Cardinality(RelWays) \in Nat /\ Cardinality(RelRelation) \in Nat
    BY FS_CardinalityType DEF FiniteMasks
  <1>2. /\ relationCount' = Cardinality(RelRelation')
        /\ wayCount' = Cardinality(RelWays')
        /\ relationCount' \in Nat /\ wayCount' \in Nat
    BY <1>1 DEF BeginMembers, relMasks
  <1>3. Grown'
    BY <1>2 DEF Grown
  <1>4. \A i \in DOMAIN file : ~(i < 1)
    OBVIOUS
  <1>5. \A i \in DOMAIN file : Indexed(file[i])'
    BY DEF Indexed, Marked, Matches, Refs, selMasks, relMasks
  <1> QED
    BY <1>3, <1>4, <1>5 DEF BeginMembers, IndexPart, MembersPart, PrintPart

(* Beginning to print keeps the invariant if every element is closed.       *)
LEMMA BeginPrintKeeps ==
  ASSUME BeginPrint, file' = file, UNCHANGED <<selMasks, relMasks>>,
         \A i \in DOMAIN file : Indexed(file[i]) /\ Closed(file[i])
  PROVE  (IndexPart /\ MembersPart /\ PrintPart)'
  <1>1. \A i \in DOMAIN file : Indexed(file[i])' /\ Closed(file[i])'
    BY DEF Indexed, Closed, Marked, Matches, Refs, selMasks, relMasks
  <1> QED
    BY <1>1 DEF BeginPrint, IndexPart, MembersPart, PrintPart

(* The end of the index pass keeps the invariant: if it begins to print,    *)
(* no way and no relation is marked, and nothing has to be closed.          *)
LEMMA IndexEndKeeps ==
  ASSUME MInv, IndexEnd
  PROVE  (IndexPart /\ MembersPart /\ PrintPart)'
  <1>1. /\ pass = "index" /\ pos > Len(file) /\ pos' = 1 /\ file' = file
        /\ UNCHANGED <<selMasks, relMasks>>
        /\ FiniteMasks /\ IndexPart /\ pos \in Nat
    BY DEF MInv, PosType, IndexEnd
  <1>2. DOMAIN file = 1..Len(file) /\ Len(file) \in Nat
    BY FileElements DEF MInv
  <1>3. \A i \in DOMAIN file : Indexed(file[i])
    BY <1>1, <1>2 DEF IndexPart
  <1>4. CASE RelWays = {} /\ RelRelation = {}
    <2>1. \A i \in DOMAIN file : Closed(file[i])
      BY <1>4 DEF Closed
    <2>2. BeginPrint
      BY <1>4 DEF IndexEnd
    <2> QED
      BY <1>1, <1>3, <2>1, <2>2, BeginPrintKeeps
  <1>5. CASE ~(RelWays = {} /\ RelRelation = {})
    <2>1. BeginMembers
      BY <1>5 DEF IndexEnd
    <2> QED
      BY <1>1, <1>2, <1>3, <2>1, BeginMembersKeeps
  <1> QED
    BY <1>4, <1>5

(* The end of a members pass keeps the invariant: the passes stop only when *)
(* the counts show that every element is closed.                            *)
LEMMA MembersEndKeeps ==
  ASSUME MInv, MembersEnd
  PROVE  (IndexPart /\ MembersPart /\ PrintPart)'
  <1>1. /\ pass = "members" /\ pos > Len(file) /\ pos' = 1 /\ file' = file
        /\ UNCHANGED <<selMasks, relMasks>>
        /\ FiniteMasks /\ IndexPart /\ MembersPart /\ pos \in Nat
    BY DEF MInv, PosType, MembersEnd
  <1>2. DOMAIN file = 1..Len(file) /\ Len(file) \in Nat
    BY FileElements DEF MInv
  <1>3. \A i \in DOMAIN file : Indexed(file[i])
    BY <1>1 DEF IndexPart
  <1>4. CASE Settled
    <2>1. \A i \in DOMAIN file : Closed(file[i])
      BY <1>1, <1>2, <1>4 DEF MembersPart
    <2>2. BeginPrint
      BY <1>4 DEF MembersEnd
    <2> QED
      BY <1>1, <1>3, <2>1, <2>2, BeginPrintKeeps
  <1>5. CASE ~Settled
    <2>1. BeginMembers
      BY <1>5 DEF MembersEnd
    <2> QED
      BY <1>1, <1>2, <1>3, <2>1, BeginMembersKeeps
  <1> QED
    BY <1>4, <1>5

(* A step that marks nothing keeps the invariant.                           *)
LEMMA UnmarkingKeeps ==
  ASSUME MInv, file' = file,
         UNCHANGED <<selMasks, relMasks, counts>>,
         \/ UNCHANGED <<pass, pos>>
         \/ pass \in {"print", "relations"} /\
            pass' \in {"print", "relations", "close"}
         \/ pass' \in {"close", "release", "done"}
  PROVE  (IndexPart /\ MembersPart /\ PrintPart)'
  <1>1. ASSUME NEW i \in DOMAIN file
        PROVE  /\ Indexed(file[i]) => Indexed(file[i])'
               /\ Closed(file[i]) => Closed(file[i])'
    BY DEF Indexed, Closed, Marked, Matches, Refs, selMasks, relMasks
  <1>2. (Settled' => Settled) /\ (Grown => Grown')
    BY DEF Settled, Grown, relMasks, counts
  <1>3. IndexPart /\ MembersPart /\ PrintPart /\ DOMAIN file' = DOMAIN file
    BY DEF MInv
  <1>4. CASE UNCHANGED <<pass, pos>>
    <2>1. pass' = pass /\ pos' = pos
      BY <1>4
    <2>2. IndexPart'
      <3> SUFFICES ASSUME pass \in {"index", "members", "print", "relations"},
                          NEW i \in DOMAIN file, pass = "index" => i < pos
                   PROVE  Indexed(file[i])'
        BY <1>3, <2>1 DEF IndexPart
      <3> QED
        BY <1>1, <1>3 DEF IndexPart
    <2>3. MembersPart'
      <3>1. SUFFICES ASSUME pass = "members" PROVE
              Grown' /\ (Settled' => \A i \in DOMAIN file :
                                      i < pos => Closed(file[i])')
        BY <1>3, <2>1 DEF MembersPart
      <3>2. Grown /\ (Settled => \A i \in DOMAIN file : i < pos => Closed(file[i]))
        BY <1>3, <3>1 DEF MembersPart
      <3> QED
        BY <1>1, <1>2, <3>2
    <2>4. PrintPart'
      <3> SUFFICES ASSUME pass \in {"print", "relations"},
                          NEW i \in DOMAIN file
                   PROVE  Closed(file[i])'
        BY <1>3, <2>1 DEF PrintPart
      <3> QED
        BY <1>1, <1>3 DEF PrintPart
    <2> QED
      BY <2>2, <2>3, <2>4
  <1>5. CASE /\ pass \in {"print", "relations"}
             /\ pass' \in {"print", "relations", "close"}
    <2>1. \A i \in DOMAIN file : Indexed(file[i]) /\ Closed(file[i])
      BY <1>3, <1>5 DEF IndexPart, PrintPart
    <2>2. \A i \in DOMAIN file : Indexed(file[i])' /\ Closed(file[i])'
      BY <1>1, <2>1
    <2> QED
      BY <1>3, <1>5, <2>2 DEF IndexPart, MembersPart, PrintPart
  <1>6. CASE pass' \in {"close", "release", "done"}
    BY <1>6 DEF IndexPart, MembersPart, PrintPart
  <1> QED
    BY <1>4, <1>5, <1>6

(* Every behaviour of the converter satisfies the inductive invariant.      *)
THEOREM MaskInvariance == Spec => []MInv
  <1>1. ASSUME Init  PROVE MInv
    <2>1. PosType
      BY <1>1 DEF Init, PosType
    <2>2. DOMAIN file \subseteq Nat \ {0}
      BY <2>1, FileElements
    <2>3. FiniteMasks
      BY <1>1, FS_EmptySet DEF Init, FiniteMasks
    <2>4. \A i \in DOMAIN file : ~(i < 1)
      BY <2>2
    <2> QED
      BY <1>1, <2>1, <2>3, <2>4
         DEF Init, MInv, IndexPart, MembersPart, PrintPart
  <1>2. ASSUME MInv, [Next]_vars  PROVE MInv'
    <2>1. file' = file /\ PosType' /\ FiniteMasks'
      BY <1>2, PosStep, FiniteStep DEF MInv
    <2>2. (IndexPart /\ MembersPart /\ PrintPart)'
      <3>1. CASE Index
        BY <1>2, <3>1, IndexKeeps
      <3>2. CASE IndexEnd
        BY <1>2, <3>2, IndexEndKeeps
      <3>3. CASE IndexMembers
        BY <1>2, <2>1, <3>3, IndexMembersKeeps
      <3>4. CASE MembersEnd
        BY <1>2, <3>4, MembersEndKeeps
      <3>5. CASE \/ PrintNode \/ PrintWay \/ PrintRelation \/ PrintEnd
                 \/ PrintFeature \/ FeaturesEnd \/ DecodeFails
                 \/ CloseWriter \/ CloseCache \/ Returned
                 \/ UNCHANGED vars
        BY <1>2, <2>1, <3>5, UnmarkingStep, UnmarkingKeeps
      <3> QED
        BY <1>2, <3>1, <3>2, <3>3, <3>4, <3>5 DEF Next
    <2> QED
      BY <2>1, <2>2 DEF MInv
  <1> QED
    BY <1>1, <1>2, PTL DEF Spec

(* When printing begins the masks are closed, whatever the nesting and the  *)
(* order of the relations of the file: the loop that ends on two equal      *)
(* counts has reached its fixed point, nodes included.                      *)
THEOREM MasksClosedCorrect == Spec => []MasksClosed
  <1>1. ASSUME MInv  PROVE MasksClosed
    <2> SUFFICES ASSUME pass \in {"print", "relations"},
                        NEW i \in DOMAIN file
                 PROVE  Indexed(file[i]) /\ Closed(file[i])
      BY DEF MasksClosed, Elements, ToSet, Indexed, Closed, Marked
    <2> QED
      BY <1>1 DEF MInv, IndexPart, PrintPart
  <1> QED
    BY <1>1, MaskInvariance, PTL

-----------------------------------------------------------------------------
(* What the masks need not hold.                                            *)

Inside(S) ==
    /\ RelRelation \subseteq Referred(S, "relation")
    /\ RelWays \subseteq Referred(S, "way")
    /\ RelNodes \subseteq Referred(S \cup MembersOf(S), "node")

LeastInv == \A S \in SUBSET OfKind("relation") : Complete(S) => Inside(S)

(* Marking what a relation of a complete set refers to stays inside it.     *)
LEMMA MarkingStaysInside ==
  ASSUME NEW S, NEW e \in S, Inside(S), IndexRelation(e), file' = file
  PROVE  Inside(S)'
  <1>1. \A kind : Refs(e, kind) \subseteq Referred(S, kind)
    BY DEF Referred
  <1>2. Refs(e, "node") \subseteq Referred(S \cup MembersOf(S), "node")
    BY DEF Referred
  <1>3. /\ RelRelation' \subseteq Referred(S, "relation")
        /\ RelWays' \subseteq Referred(S, "way")
        /\ RelNodes' \subseteq Referred(S \cup MembersOf(S), "node")
    BY <1>1, <1>2 DEF Inside, IndexRelation
  <1>4. MembersOf(S)' = MembersOf(S)
    BY DEF MembersOf, OfKind, Elements
  <1> QED
    BY <1>3, <1>4 DEF Inside

(* A step that marks nothing leaves the masks inside.                       *)
LEMMA UnmarkedStaysInside ==
  ASSUME NEW S, Inside(S), UNCHANGED relMasks, file' = file
  PROVE  Inside(S)'
  BY DEF Inside, relMasks, MembersOf, OfKind, Elements

(* A way that the masks hold is a member of a complete set, and marking its *)
(* nodes stays inside.                                                      *)
LEMMA WayStaysInside ==
  ASSUME NEW S, NEW e \in OfKind("way"), Inside(S), e.id \in RelWays,
         RelNodes' = RelNodes \cup Refs(e, "node"),
         UNCHANGED <<file, RelWays, RelRelation>>
  PROVE  Inside(S)'
  <1>1. e \in MembersOf(S)
    BY DEF MembersOf, Inside
  <1>2. Refs(e, "node") \subseteq Referred(S \cup MembersOf(S), "node")
    BY <1>1 DEF Referred
  <1>3. MembersOf(S)' = MembersOf(S)
    BY DEF MembersOf, OfKind, Elements
  <1> QED
    BY <1>2, <1>3 DEF Inside

(* The masks hold nothing that some complete set does without, however      *)
(* often and in whatever order the relations came by: with MasksClosed they *)
(* are exactly what the selected elements need (indexRelationMembers).      *)
THEOREM MasksNeededCorrect == Spec => []MasksNeeded
  <1>1. Init => LeastInv
    BY DEF Init, LeastInv, Inside
  <1>2. ASSUME MInv, LeastInv, [Next]_vars  PROVE LeastInv'
    <2>1. file' = file /\ OfKind("relation")' = OfKind("relation")
      BY <1>2, PosStep DEF MInv, OfKind, Elements
    <2> SUFFICES ASSUME NEW S \in SUBSET OfKind("relation"), Complete(S)
                 PROVE  Inside(S)'
      BY <2>1 DEF LeastInv, Complete
    <2>2. Inside(S)
      BY <1>2 DEF LeastInv
    <2>3. pos <= Len(file) => file[pos] \in Elements
      BY <1>2, FileElements DEF MInv, PosType, Elements, ToSet
    <2>4. CASE Index
      <3>1. CASE file[pos].kind = "relation" /\ Matches(file[pos])
        <4>1. file[pos] \in S
          BY <2>3, <2>4, <3>1 DEF Index, Complete, OfKind
        <4> QED
          BY <2>1, <2>2, <2>4, <3>1, <4>1, MarkingStaysInside DEF Index
      <3>2. CASE ~(file[pos].kind = "relation" /\ Matches(file[pos]))
        BY <2>1, <2>2, <2>4, <3>2, UnmarkedStaysInside DEF Index
      <3> QED
        BY <3>1, <3>2
    <2>5. CASE IndexMembers
      <3> DEFINE e == file[pos]
      <3>1. CASE e.kind = "way" /\ e.id \in RelWays
        <4>1. e \in OfKind("way")
          BY <2>3, <2>5, <3>1 DEF IndexMembers, OfKind
        <4>2. /\ RelNodes' = RelNodes \cup Refs(e, "node")
              /\ UNCHANGED <<RelWays, RelRelation>>
          BY <2>5, <3>1 DEF IndexMembers
        <4> QED
          BY <2>1, <2>2, <3>1, <4>1, <4>2, WayStaysInside
      <3>2. CASE e.kind = "relation" /\ e.id \in RelRelation
        <4>1. e \in S
          BY <2>2, <2>3, <2>5, <3>2 DEF IndexMembers, Complete, OfKind, Inside
        <4>2. IndexRelation(e)
          BY <2>5, <3>2 DEF IndexMembers
        <4> QED
          BY <2>1, <2>2, <4>1, <4>2, MarkingStaysInside
      <3>3. CASE /\ ~(e.kind = "way" /\ e.id \in RelWays)
                 /\ ~(e.kind = "relation" /\ e.id \in RelRelation)
        <4>1. UNCHANGED relMasks
          BY <2>5, <3>3 DEF IndexMembers
        <4> QED
          BY <2>1, <2>2, <4>1, UnmarkedStaysInside
      <3> QED
        BY <3>1, <3>2, <3>3
    <2>6. CASE IndexEnd \/ MembersEnd
      BY <2>1, <2>2, <2>6, UnmarkedStaysInside DEF IndexEnd, MembersEnd
    <2>7. CASE ~(Index \/ IndexMembers \/ IndexEnd \/ MembersEnd)
      <3>1. UNCHANGED relMasks
        BY <1>2, <2>7, UnmarkingStep DEF Next
      <3> QED
        BY <2>1, <2>2, <3>1, UnmarkedStaysInside
    <2> QED
      BY <2>4, <2>5, <2>6, <2>7
  <1>3. LeastInv => MasksNeeded
    BY DEF LeastInv, Inside, MasksNeeded
  <1> QED
    BY <1>1, <1>2, <1>3, MaskInvariance, PTL DEF Spec

-----------------------------------------------------------------------------
(* The feature cache. *)

Cache == [disk : {"memory", "leveldb"}, stored : SUBSET Element,
          batch : SUBSET Element, entries : Nat, status : {"ok", "failed"}]

(* The batch is shorter than a full write, unless its write has failed, and *)
(* empty if it counts nothing; the memory cache has none, and cannot fail.  *)
Batched(c) ==
    /\ c.entries < IF c.status = "ok" THEN BatchSize ELSE BatchSize + 2
    /\ c.entries = 0 => c.batch = {}
    /\ c.disk = "memory" => c.entries = 0 /\ c.status = "ok"

KeysOf(S) == {Key(e) : e \in S}
Keys(c) == KeysOf(c.stored) \cup KeysOf(c.batch)

(* The outcomes of a write that the cache on this disk may have.            *)
Possible(c, write) == write \in IF c.disk = "memory" THEN {"ok"} ELSE {"ok", "failed"}

(* Putting an element in a store, which it may replace, adds its key.       *)
LEMMA PutKeys ==
  ASSUME NEW S, NEW e
  PROVE  KeysOf(Put(S, e)) = KeysOf(S) \cup {Key(e)}
  <1>1. ASSUME NEW k \in KeysOf(S)  PROVE k \in KeysOf(Put(S, e))
    <2>1. PICK x \in S : Key(x) = k
      BY <1>1 DEF KeysOf
    <2> QED
      BY <2>1, Zenon DEF KeysOf, Put
  <1>2. Key(e) \in KeysOf(Put(S, e))
    BY Zenon DEF KeysOf, Put
  <1>3. ASSUME NEW k \in KeysOf(Put(S, e))  PROVE k \in KeysOf(S) \cup {Key(e)}
    BY Zenon DEF KeysOf, Put
  <1> QED
    BY <1>1, <1>2, <1>3

(* Writing the batch to the store keeps the keys of both.                   *)
LEMMA MergeKeys ==
  ASSUME NEW S, NEW B
  PROVE  KeysOf(Merge(S, B)) = KeysOf(S) \cup KeysOf(B)
  <1>1. ASSUME NEW k \in KeysOf(S)  PROVE k \in KeysOf(Merge(S, B))
    <2>1. PICK x \in S : Key(x) = k
      BY <1>1 DEF KeysOf
    <2> QED
      BY <2>1, Zenon DEF KeysOf, Merge
  <1>2. ASSUME NEW k \in KeysOf(B)  PROVE k \in KeysOf(Merge(S, B))
    BY Zenon DEF KeysOf, Merge
  <1>3. ASSUME NEW k \in KeysOf(Merge(S, B))  PROVE k \in KeysOf(S) \cup KeysOf(B)
    BY Zenon DEF KeysOf, Merge
  <1> QED
    BY <1>1, <1>2, <1>3

(* A flush loses no key: it empties the batch, or fails and leaves it.      *)
LEMMA FlushKeeps ==
  ASSUME NEW c \in Cache, NEW write, Possible(c, write),
         \/ Batched(c)
         \/ c.disk = "leveldb" /\ c.status = "ok" /\ c.entries > 0 /\ c.entries < BatchSize + 2
  PROVE  LET d == Flush(c, write) IN
         /\ d \in Cache /\ d.disk = c.disk /\ Batched(d) /\ Keys(d) = Keys(c)
         /\ c.status = "ok" /\ d.status = "ok" => d.batch = {}
  <1> DEFINE d == Flush(c, write)
  <1>0. BatchSize \in Nat \ {0}
    BY ConverterAssumption
  <1>1. CASE c.entries = 0
    <2>1. d = c
      BY <1>1 DEF Flush
    <2> QED
      BY <1>1, <2>1 DEF Batched
  <1>2. CASE c.entries # 0 /\ write = "failed"
    <2>1. d = [c EXCEPT !.status = "failed"]
      BY <1>2 DEF Flush
    <2>2. c.disk = "leveldb"
      BY <1>2 DEF Possible, Cache
    <2>3. c.entries < BatchSize + 2
      BY <1>0 DEF Batched, Cache
    <2>4. /\ d \in Cache /\ d.disk = c.disk /\ d.stored = c.stored /\ d.batch = c.batch
          /\ d.entries = c.entries /\ d.status = "failed"
      BY <2>1 DEF Cache
    <2> QED
      BY <1>2, <2>2, <2>3, <2>4 DEF Batched, Keys
  <1>3. CASE c.entries # 0 /\ write # "failed"
    <2>1. d = [EmptyCache(c.disk) EXCEPT !.stored = Merge(c.stored, c.batch)]
      BY <1>3 DEF Flush
    <2>2. Merge(c.stored, c.batch) \in SUBSET Element
      BY DEF Merge, Cache
    <2>3. /\ d \in Cache /\ d.disk = c.disk /\ d.stored = Merge(c.stored, c.batch)
          /\ d.batch = {} /\ d.entries = 0 /\ d.status = "ok"
      BY <2>1, <2>2 DEF Cache, EmptyCache
    <2>4. KeysOf(d.batch) = {}
      BY <2>3 DEF KeysOf
    <2> QED
      BY <1>0, <2>3, <2>4, MergeKeys DEF Batched, Keys
  <1> QED
    BY <1>1, <1>2, <1>3

(* What is put is in the store or in the batch, and the batch is written    *)
(* before it is too long.                                                   *)
LEMMA CachePutKeeps ==
  ASSUME NEW c \in Cache, NEW e \in Element, NEW write, Possible(c, write),
         Batched(c), c.status = "ok"
  PROVE  LET d == CachePut(c, e, write) IN
         /\ d \in Cache /\ d.disk = c.disk /\ Batched(d)
         /\ Keys(d) = Keys(c) \cup {Key(e)}
  <1> DEFINE d == CachePut(c, e, write)
             filled == [c EXCEPT !.batch = Put(@, e), !.entries = @ + Weight(e)]
  <1>0. BatchSize \in Nat \ {0}
    BY ConverterAssumption
  <1>1. CASE c.disk = "memory"
    <2>1. d = [c EXCEPT !.stored = Put(@, e)]
      BY <1>1 DEF CachePut
    <2>2. Put(c.stored, e) \in SUBSET Element
      BY DEF Put, Cache
    <2>3. /\ d \in Cache /\ d.disk = c.disk /\ d.stored = Put(c.stored, e)
          /\ d.batch = c.batch /\ d.entries = c.entries /\ d.status = c.status
      BY <2>1, <2>2 DEF Cache
    <2>4. Batched(d)
      BY <2>3 DEF Batched
    <2> QED
      BY <2>3, <2>4, PutKeys DEF Keys
  <1>2. CASE c.disk = "leveldb"
    <2>1. Put(c.batch, e) \in SUBSET Element /\ Weight(e) \in {1, 2}
      BY DEF Put, Cache, Weight
    <2>2. /\ filled \in Cache /\ filled.disk = "leveldb" /\ filled.status = "ok"
          /\ filled.stored = c.stored /\ filled.batch = Put(c.batch, e)
          /\ filled.entries = c.entries + Weight(e) /\ c.entries \in Nat
      <3> DEFINE batched == [c EXCEPT !.batch = Put(@, e)]
      <3>1. /\ batched \in Cache /\ batched.disk = c.disk /\ batched.status = c.status
            /\ batched.stored = c.stored /\ batched.batch = Put(c.batch, e)
            /\ batched.entries = c.entries /\ c.entries \in Nat
        BY <2>1 DEF Cache
      <3>2. filled = [batched EXCEPT !.entries = c.entries + Weight(e)]
        BY Zenon
      <3> HIDE DEF batched, filled
      <3> QED
        BY <1>2, <2>1, <3>1, <3>2 DEF Cache
    <2>3. filled.entries > 0 /\ filled.entries < BatchSize + 2
      BY <1>0, <2>1, <2>2 DEF Batched
    <2>4. Keys(filled) = Keys(c) \cup {Key(e)}
      BY <2>2, PutKeys DEF Keys
    <2>5. CASE filled.entries < BatchSize
      <3>1. d = filled
        BY <1>2, <2>5 DEF CachePut
      <3>2. Batched(filled)
        BY <2>2, <2>3, <2>5 DEF Batched
      <3> QED
        BY <1>2, <2>2, <2>4, <3>1, <3>2
    <2>6. CASE ~(filled.entries < BatchSize)
      <3>1. d = Flush(filled, write)
        BY <1>2, <2>6 DEF CachePut
      <3>2. Possible(filled, write)
        BY <1>2, <2>2 DEF Possible
      <3>3. /\ d \in Cache /\ d.disk = filled.disk /\ Batched(d) /\ Keys(d) = Keys(filled)
            /\ filled.status = "ok" /\ d.status = "ok" => d.batch = {}
        BY <2>2, <2>3, <3>1, <3>2, FlushKeeps
      <3> QED
        BY <1>2, <2>2, <2>4, <3>3
    <2> QED
      BY <2>5, <2>6
  <1> QED
    BY <1>1, <1>2 DEF Cache

(* The keys that the masks ask for among the first elements of the file.    *)
Asked(e) == \/ e.kind = "node" /\ e.id \in WayRefs \cup RelNodes
            \/ e.kind = "way" /\ e.id \in RelWays

AskedBefore(n) == {Key(file[i]) : i \in {j \in DOMAIN file : j < n /\ Asked(file[j])}}

(* During print the cache has what was asked for among the elements decoded *)
(* so far, in the store or in the batch, and afterwards in the store.       *)
CacheInv ==
    /\ cache \in Cache /\ Batched(cache)
    /\ pass \notin {"close", "release", "done"} => cache.status = "ok"
    /\ pass \in {"index", "members"} => Keys(cache) = {}
    /\ pass = "print" => Keys(cache) = AskedBefore(pos)
    /\ pass = "relations" => cache.batch = {} /\ Keys(cache) = AskedBefore(Len(file) + 1)

(* Before the first element nothing was asked for.                          *)
LEMMA NoneAsked ==
  ASSUME PosType
  PROVE  AskedBefore(1) = {}
  BY FileElements DEF AskedBefore

(* One element more is decoded: its key is added if it was asked for.       *)
LEMMA OneMoreAsked ==
  ASSUME PosType, pos <= Len(file)
  PROVE  AskedBefore(pos + 1) =
           AskedBefore(pos) \cup (IF Asked(file[pos]) THEN {Key(file[pos])} ELSE {})
  <1>1. DOMAIN file = 1..Len(file) /\ Len(file) \in Nat /\ pos \in DOMAIN file
    BY FileElements DEF PosType
  <1>2. {j \in DOMAIN file : j < pos + 1 /\ Asked(file[j])} =
          {j \in DOMAIN file : j < pos /\ Asked(file[j])}
            \cup (IF Asked(file[pos]) THEN {pos} ELSE {})
    BY <1>1 DEF PosType
  <1> QED
    BY <1>2 DEF AskedBefore

(* All of the file is decoded: nothing is left to ask for.                  *)
LEMMA AllAsked ==
  ASSUME PosType, pos > Len(file)
  PROVE  AskedBefore(Len(file) + 1) = AskedBefore(pos)
  <1>1. DOMAIN file = 1..Len(file) /\ Len(file) \in Nat /\ pos \in Nat
    BY FileElements DEF PosType
  <1>2. {j \in DOMAIN file : j < pos /\ Asked(file[j])} =
          {j \in DOMAIN file : j < Len(file) + 1 /\ Asked(file[j])}
    BY <1>1
  <1> QED
    BY <1>2 DEF AskedBefore

(* While the masks are fixed, so is what they ask for.                      *)
LEMMA AskedUnchanged ==
  ASSUME UNCHANGED <<file, selMasks, relMasks>>, NEW n, pos' = n
  PROVE  /\ AskedBefore(pos)' = AskedBefore(n)
         /\ AskedBefore(Len(file) + 1)' = AskedBefore(Len(file) + 1)
  BY DEF AskedBefore, Asked, Key, selMasks, relMasks

(* The passes that mark leave the cache alone, and print begins with none   *)
(* asked for.                                                               *)
LEMMA MarkingCaches ==
  ASSUME PosType, CacheInv, Index \/ IndexEnd \/ IndexMembers \/ MembersEnd
  PROVE  CacheInv'
  <1>1. cache' = cache /\ pass \in {"index", "members"}
    BY DEF Index, IndexEnd, IndexMembers, MembersEnd, printed
  <1>2. CASE pass' \in {"index", "members"}
    BY <1>1, <1>2 DEF CacheInv, Batched, Keys, KeysOf, Key
  <1>3. CASE pass' \notin {"index", "members"}
    <2>1. /\ pass' = "print" /\ pos' = 1
          /\ UNCHANGED <<file, selMasks, relMasks>>
      BY <1>1, <1>3 DEF Index, IndexEnd, IndexMembers, MembersEnd, BeginPrint, BeginMembers
    <2>2. AskedBefore(pos)' = {}
      BY <2>1, AskedUnchanged, NoneAsked
    <2>3. Keys(cache)' = {}
      BY <1>1 DEF CacheInv, Keys, KeysOf, Key
    <2> QED
      BY <1>1, <2>1, <2>2, <2>3 DEF CacheInv, Batched
  <1> QED
    BY <1>2, <1>3

(* The outcomes that a step considers are those of the cache's disk.        *)
LEMMA WritesPossible ==
  ASSUME CacheInv, NEW write \in WriteOutcomes
  PROVE  Possible(cache, write)
  BY DEF WriteOutcomes, Possible

(* An element is printed and the cache is as it should be then.             *)
LEMMA PrintedCaches ==
  ASSUME PosType, pos <= Len(file), pass = "print",
         UNCHANGED <<file, selMasks, relMasks>>,
         cache' \in Cache, Batched(cache'),
         \/ pass' = "close"
         \/ /\ pass' = "print" /\ pos' = pos + 1 /\ cache'.status = "ok"
            /\ Keys(cache') = AskedBefore(pos) \cup
                              (IF Asked(file[pos]) THEN {Key(file[pos])} ELSE {})
  PROVE  CacheInv'
  <1>1. Batched(cache)' /\ Keys(cache)' = Keys(cache')
    BY DEF Batched, Keys, KeysOf, Key
  <1>2. CASE pass' = "close"
    BY <1>1, <1>2 DEF CacheInv
  <1>3. CASE pass' # "close"
    <2>1. Keys(cache') = AskedBefore(pos + 1)
      BY <1>3, OneMoreAsked
    <2>2. Keys(cache)' = AskedBefore(pos)'
      BY <1>1, <1>3, <2>1, AskedUnchanged
    <2> QED
      BY <1>1, <1>3, <2>2 DEF CacheInv
  <1> QED
    BY <1>2, <1>3

(* A node that the masks ask for is put.                                    *)
LEMMA PrintNodeCaches ==
  ASSUME PosType, CacheInv, PrintNode
  PROVE  CacheInv'
  <1> DEFINE e == file[pos]
  <1>1. /\ pass = "print" /\ pos <= Len(file) /\ e.kind = "node"
        /\ UNCHANGED <<file, selMasks, relMasks>>
    BY DEF PrintNode, Decoding
  <1>2. PICK write \in WriteOutcomes :
          cache' = IF e.id \in WayRefs \cup RelNodes THEN CachePut(cache, e, write) ELSE cache
    BY DEF PrintNode
  <1>3. /\ cache \in Cache /\ Batched(cache) /\ cache.status = "ok"
        /\ Keys(cache) = AskedBefore(pos) /\ e \in Element /\ Possible(cache, write)
    BY <1>1, <1>2, WritesPossible, FileElements DEF CacheInv, PosType
  <1>4. Asked(e) <=> e.id \in WayRefs \cup RelNodes
    BY <1>1 DEF Asked
  <1>5. /\ cache' \in Cache /\ Batched(cache')
        /\ Keys(cache') = AskedBefore(pos) \cup (IF Asked(e) THEN {Key(e)} ELSE {})
    <2>1. CASE Asked(e)
      BY <1>2, <1>3, <1>4, <2>1, CachePutKeeps
    <2>2. CASE ~Asked(e)
      BY <1>2, <1>3, <1>4, <2>2
    <2> QED
      BY <2>1, <2>2
  <1>6. pass' = "close" \/ (pass' = "print" /\ pos' = pos + 1 /\ cache'.status = "ok")
    <2>1. CASE cache'.status = "failed"
      BY <2>1 DEF PrintNode, Stop
    <2>2. CASE cache'.status # "failed"
      BY <1>1, <1>5, <2>2 DEF PrintNode, Stop, Skip, Write, Cache
    <2> QED
      BY <2>1, <2>2
  <1> QED
    BY <1>1, <1>5, <1>6, PrintedCaches

(* FlushOnce loses no key.                                                  *)
LEMMA FlushOnceKeeps ==
  ASSUME CacheInv, cache.status = "ok", NEW kind, NEW write \in WriteOutcomes
  PROVE  LET d == FlushOnce(kind, write) IN
         /\ d \in Cache /\ d.disk = cache.disk /\ Batched(d) /\ Keys(d) = Keys(cache)
  <1>1. cache \in Cache /\ Batched(cache) /\ Possible(cache, write)
    BY WritesPossible DEF CacheInv
  <1>2. CASE kind \in finished
    BY <1>1, <1>2 DEF FlushOnce
  <1>3. CASE kind \notin finished
    BY <1>1, <1>3, FlushKeeps DEF FlushOnce
  <1> QED
    BY <1>2, <1>3

(* A way: the nodes are flushed once, and the way is put if it is asked     *)
(* for.                                                                     *)
LEMMA PrintWayCaches ==
  ASSUME PosType, CacheInv, PrintWay
  PROVE  CacheInv'
  <1> DEFINE e == file[pos]
  <1>1. /\ pass = "print" /\ pos <= Len(file) /\ e.kind = "way"
        /\ UNCHANGED <<file, selMasks, relMasks>>
    BY DEF PrintWay, Decoding
  <1>2. PICK first \in WriteOutcomes, second \in WriteOutcomes :
          LET flushed == FlushOnce("nodes", first) IN
          cache' = IF flushed.status = "ok" /\ e.id \in RelWays
                   THEN CachePut(flushed, e, second) ELSE flushed
    BY DEF PrintWay
  <1> DEFINE flushed == FlushOnce("nodes", first)
  <1>3. /\ cache.status = "ok" /\ Keys(cache) = AskedBefore(pos) /\ e \in Element
    BY <1>1, FileElements DEF CacheInv, PosType
  <1>4. /\ flushed \in Cache /\ Batched(flushed) /\ Keys(flushed) = AskedBefore(pos)
        /\ flushed.disk = cache.disk
    BY <1>2, <1>3, FlushOnceKeeps
  <1>5. Possible(flushed, second)
    BY <1>2, <1>4 DEF WriteOutcomes, Possible
  <1>6. Asked(e) <=> e.id \in RelWays
    BY <1>1 DEF Asked
  <1>7. /\ cache' \in Cache /\ Batched(cache')
        /\ cache'.status = "ok" =>
             Keys(cache') = AskedBefore(pos) \cup (IF Asked(e) THEN {Key(e)} ELSE {})
    <2> HIDE DEF flushed
    <2>0. cache' = IF flushed.status = "ok" /\ e.id \in RelWays
                   THEN CachePut(flushed, e, second) ELSE flushed
      BY <1>2 DEF flushed
    <2>1. CASE flushed.status = "ok" /\ e.id \in RelWays
      BY <1>3, <1>4, <1>5, <1>6, <2>0, <2>1, CachePutKeeps
    <2>2. CASE ~(flushed.status = "ok" /\ e.id \in RelWays)
      BY <1>4, <1>6, <2>0, <2>2
    <2> QED
      BY <2>1, <2>2
  <1>8. pass' = "close" \/ (pass' = "print" /\ pos' = pos + 1 /\ cache'.status = "ok")
    <2>1. CASE cache'.status = "failed"
      BY <2>1 DEF PrintWay, Stop
    <2>2. CASE cache'.status # "failed"
      BY <1>1, <1>7, <2>2 DEF PrintWay, Stop, Skip, Write, Cache
    <2> QED
      BY <2>1, <2>2
  <1> QED
    BY <1>1, <1>7, <1>8, PrintedCaches

(* A relation: the ways are flushed once.                                   *)
LEMMA PrintRelationCaches ==
  ASSUME PosType, CacheInv, PrintRelation
  PROVE  CacheInv'
  <1>1. /\ pass = "print" /\ pos <= Len(file) /\ file[pos].kind = "relation"
        /\ UNCHANGED <<file, selMasks, relMasks>>
    BY DEF PrintRelation, Decoding
  <1>2. PICK write \in WriteOutcomes : cache' = FlushOnce("ways", write)
    BY DEF PrintRelation
  <1>3. cache.status = "ok" /\ Keys(cache) = AskedBefore(pos) /\ ~Asked(file[pos])
    BY <1>1 DEF CacheInv, Asked
  <1>4. cache' \in Cache /\ Batched(cache') /\ Keys(cache') = AskedBefore(pos)
    BY <1>2, <1>3, FlushOnceKeeps
  <1>5. pass' = "close" \/ (pass' = "print" /\ pos' = pos + 1 /\ cache'.status = "ok")
    <2>1. CASE cache'.status = "failed"
      BY <2>1 DEF PrintRelation, Stop
    <2>2. CASE cache'.status # "failed"
      BY <1>1, <1>4, <2>2 DEF PrintRelation, Skip, Cache
    <2> QED
      BY <2>1, <2>2
  <1> QED
    BY <1>1, <1>3, <1>4, <1>5, PrintedCaches

(* The end of print empties the batch.                                      *)
LEMMA PrintEndCaches ==
  ASSUME PosType, CacheInv, PrintEnd
  PROVE  CacheInv'
  <1>1. /\ pass = "print" /\ pos > Len(file)
        /\ UNCHANGED <<file, selMasks, relMasks>>
    BY DEF PrintEnd
  <1>2. PICK write \in WriteOutcomes : cache' = Flush(cache, write)
    BY DEF PrintEnd
  <1>3. /\ cache \in Cache /\ Batched(cache) /\ cache.status = "ok"
        /\ Keys(cache) = AskedBefore(pos) /\ Possible(cache, write)
    BY <1>1, <1>2, WritesPossible DEF CacheInv
  <1>4. /\ cache' \in Cache /\ Batched(cache') /\ Keys(cache') = AskedBefore(pos)
        /\ cache'.status = "ok" => cache'.batch = {}
    BY <1>2, <1>3, FlushKeeps
  <1>5. Batched(cache)' /\ Keys(cache)' = Keys(cache')
    BY <1>4 DEF Batched, Keys, KeysOf, Key
  <1>6. CASE cache'.status = "failed"
    <2>1. pass' = "close"
      BY <1>6 DEF PrintEnd, Stop
    <2> QED
      BY <1>4, <1>5, <2>1 DEF CacheInv
  <1>7. CASE cache'.status # "failed"
    <2>1. pass' = "relations" /\ pos' = 1 /\ cache'.status = "ok"
      BY <1>4, <1>7 DEF PrintEnd, Cache
    <2>2. AskedBefore(Len(file) + 1)' = AskedBefore(pos)
      BY <1>1, <2>1, AskedUnchanged, AllAsked
    <2> QED
      BY <1>4, <1>5, <2>1, <2>2 DEF CacheInv
  <1> QED
    BY <1>6, <1>7

(* Closing may flush what is left, or fail to.                              *)
LEMMA CloseCacheCaches ==
  ASSUME CacheInv, CloseCache
  PROVE  CacheInv'
  <1>1. PICK write \in WriteOutcomes : cache' = Flush(cache, write)
    BY DEF CloseCache
  <1>2. cache' \in Cache /\ Batched(cache')
    BY <1>1, WritesPossible, FlushKeeps DEF CacheInv
  <1>3. pass' = "done" /\ Batched(cache)'
    BY <1>2 DEF CloseCache, Batched
  <1> QED
    BY <1>2, <1>3 DEF CacheInv

(* The other steps leave the cache alone.                                   *)
LEMMA OtherCaches ==
  ASSUME PosType, CacheInv,
         \/ PrintFeature \/ FeaturesEnd \/ DecodeFails \/ CloseWriter \/ Returned
         \/ UNCHANGED vars
  PROVE  CacheInv'
  <1>1. /\ UNCHANGED <<file, selMasks, relMasks, cache>>
        /\ \/ pass' = pass /\ (pass = "print" => pos' = pos)
           \/ pass' \in {"close", "release"}
    <2>1. CASE PrintFeature
      BY <2>1 DEF PrintFeature, Stop, Write
    <2>2. CASE FeaturesEnd \/ DecodeFails \/ CloseWriter \/ Returned \/ UNCHANGED vars
      BY <2>2 DEF FeaturesEnd, DecodeFails, CloseWriter, Returned, vars, input, printed
    <2> QED
      BY <2>1, <2>2
  <1>2. Batched(cache)' /\ Keys(cache)' = Keys(cache)
    BY <1>1 DEF CacheInv, Batched, Keys, KeysOf, Key
  <1>3. CASE pass' \in {"close", "release"}
    BY <1>1, <1>2, <1>3 DEF CacheInv
  <1>4. CASE pass' = pass /\ (pass = "print" => pos' = pos)
    <2>1. /\ pass = "print" => AskedBefore(pos)' = AskedBefore(pos)
          /\ AskedBefore(Len(file) + 1)' = AskedBefore(Len(file) + 1)
      BY <1>1, <1>4, AskedUnchanged
    <2> QED
      BY <1>1, <1>2, <1>4, <2>1 DEF CacheInv
  <1> QED
    BY <1>1, <1>3, <1>4

(* The cache holds what was asked for whatever the step.                    *)
LEMMA CacheInvariance == Spec => []CacheInv
  <1>1. ASSUME Init  PROVE CacheInv
    <2>1. /\ cache \in Cache /\ cache.batch = {} /\ cache.stored = {}
          /\ cache.entries = 0 /\ cache.status = "ok" /\ pass = "index"
      BY <1>1, ConverterAssumption DEF Init, EmptyCache, Cache
    <2>2. Batched(cache) /\ Keys(cache) = {}
      BY <2>1, ConverterAssumption DEF Batched, Keys, KeysOf
    <2> QED
      BY <2>1, <2>2 DEF CacheInv
  <1>2. ASSUME PosType, CacheInv, [Next]_vars  PROVE CacheInv'
    BY <1>2, MarkingCaches, PrintNodeCaches, PrintWayCaches, PrintRelationCaches,
       PrintEndCaches, CloseCacheCaches, OtherCaches DEF Next
  <1>3. MInv => PosType
    BY DEF MInv
  <1> QED
    BY <1>1, <1>2, <1>3, MaskInvariance, PTL DEF Spec

(* When the relations are written the cache can read every node and way     *)
(* that the file has and the masks ask for, and nothing else, whatever the  *)
(* size of the batch and wherever its writes fell (the two flushes of       *)
(* print, put of the disk cache).                                           *)
THEOREM CacheCompleteCorrect == Spec => []CacheComplete
  <1>1. ASSUME PosType, CacheInv  PROVE CacheComplete
    <2>1. DOMAIN file = 1..Len(file) /\ Len(file) \in Nat
      BY <1>1, FileElements
    <2>2. CASE pass = "relations"
      <3>1. Keys(cache) = {Key(e) : e \in cache.stored} /\ cache.batch = {}
        BY <1>1, <2>2 DEF CacheInv, Keys, KeysOf
      <3>2. AskedBefore(Len(file) + 1) =
              {Key(file[i]) : i \in {j \in DOMAIN file : Asked(file[j])}}
        BY <2>1 DEF AskedBefore
      <3>3. {Key(file[i]) : i \in {j \in DOMAIN file : Asked(file[j])}} =
              {Key(e) : e \in {x \in Elements : Asked(x)}}
        BY DEF Elements, ToSet
      <3> QED
        BY <1>1, <2>2, <3>1, <3>2, <3>3 DEF CacheInv, CacheComplete, Batched, Asked
    <2>3. CASE pass # "relations"
      BY <1>1, <2>3 DEF CacheInv, CacheComplete, Batched
    <2> QED
      BY <2>2, <2>3
  <1>2. MInv => PosType
    BY DEF MInv
  <1> QED
    BY <1>1, <1>2, MaskInvariance, CacheInvariance, PTL

-----------------------------------------------------------------------------
(* What is written.                                                         *)

(* How many of some positions come before one: none before the first, one   *)
(* more for each of them, and at the end all.                               *)
LEMMA AheadCounts ==
  ASSUME NEW m \in Nat, NEW S \in SUBSET (1..m), NEW i \in Nat
  PROVE  /\ Ahead(S, i) \in Nat /\ Cardinality(S) \in Nat
         /\ Ahead(S, 1) = 0
         /\ Ahead(S, i + 1) = Ahead(S, i) + (IF i \in S THEN 1 ELSE 0)
         /\ i > m => Ahead(S, i) = Cardinality(S)
         /\ Ahead(S, i) <= Cardinality(S)
         /\ i \in S => 1 + Ahead(S, i) <= Cardinality(S)
  <1> DEFINE A(n) == {j \in S : j < n}
  <1>1. IsFiniteSet(S) /\ \A j \in S : j \in Nat /\ 1 <= j /\ j <= m
    <2>1. 1 \in Int /\ m \in Int
      OBVIOUS
    <2>2. IsFiniteSet(1..m)
      BY <2>1, FS_Interval
    <2>3. IsFiniteSet(S)
      BY <2>2, FS_Subset
    <2>4. \A j \in S : j \in 1..m
      OBVIOUS
    <2>5. \A j \in 1..m : j \in Nat /\ 1 <= j /\ j <= m
      OBVIOUS
    <2> QED
      BY <2>3, <2>4, <2>5
  <1>2. IsFiniteSet(A(i)) /\ A(i) \in SUBSET S
    BY <1>1, FS_Subset
  <1>3. Ahead(S, i) \in Nat /\ Cardinality(S) \in Nat /\ Ahead(S, i) <= Cardinality(S)
    BY <1>1, <1>2, FS_CardinalityType, FS_Subset DEF Ahead
  <1>4. Ahead(S, 1) = 0
    <2>1. \A j \in S : ~(j < 1)
      BY <1>1
    <2>2. A(1) = {}
      BY <2>1
    <2> QED
      BY <2>2, FS_EmptySet DEF Ahead
  <1>5. Ahead(S, i + 1) = Ahead(S, i) + (IF i \in S THEN 1 ELSE 0)
    <2>1. \A j \in S : j < i + 1 <=> j < i \/ j = i
      BY <1>1
    <2>2. CASE i \in S
      <3>1. A(i + 1) = A(i) \cup {i}
        BY <2>1, <2>2
      <3>2. i \notin A(i)
        OBVIOUS
      <3>3. Cardinality(A(i) \cup {i}) = Cardinality(A(i)) + 1
        BY <1>2, <3>2, FS_AddElement
      <3> QED
        BY <2>2, <3>1, <3>3 DEF Ahead
    <2>3. CASE i \notin S
      <3>1. A(i + 1) = A(i)
        BY <2>1, <2>3
      <3> QED
        BY <1>3, <2>3, <3>1 DEF Ahead
    <2> QED
      BY <2>2, <2>3
  <1>6. i > m => Ahead(S, i) = Cardinality(S)
    <2> SUFFICES ASSUME i > m  PROVE Ahead(S, i) = Cardinality(S)
      OBVIOUS
    <2>1. \A j \in S : j < i
      BY <1>1
    <2>2. A(i) = S
      BY <2>1
    <2> QED
      BY <2>2 DEF Ahead
  <1>7. i \in S => 1 + Ahead(S, i) <= Cardinality(S)
    <2> SUFFICES ASSUME i \in S  PROVE 1 + Ahead(S, i) <= Cardinality(S)
      OBVIOUS
    <2>1. A(i) \cup {i} \in SUBSET S /\ i \notin A(i)
      BY <1>1
    <2>2. Cardinality(A(i) \cup {i}) = Cardinality(A(i)) + 1
      BY <1>2, <2>1, FS_AddElement
    <2>3. Cardinality(A(i) \cup {i}) <= Cardinality(S)
      BY <1>1, <2>1, FS_Subset
    <2> QED
      BY <1>3, <2>2, <2>3 DEF Ahead
  <1> QED
    BY <1>3, <1>4, <1>5, <1>6, <1>7

(* A later position has more before it.                                     *)
LEMMA AheadGrows ==
  ASSUME NEW m \in Nat, NEW S \in SUBSET (1..m), NEW i \in S, NEW j \in Nat, i < j
  PROVE  1 + Ahead(S, i) <= Ahead(S, j)
  <1> DEFINE T == {k \in S : k < j}
             A == {k \in S : k < i}
  <1>1. \A k \in S : k \in Nat
    OBVIOUS
  <1>2. i \in Nat /\ T \in SUBSET (1..m) /\ i \in T
    BY <1>1
  <1>3. A = {k \in T : k < i}
    <2>1. \A k \in S : k < i => k < j
      BY <1>1
    <2> QED
      BY <2>1
  <1>4. Ahead(T, i) = Ahead(S, i) /\ Cardinality(T) = Ahead(S, j)
    BY <1>3 DEF Ahead
  <1> HIDE DEF T
  <1>5. 1 + Ahead(T, i) <= Cardinality(T)
    BY <1>2, AheadCounts
  <1> QED
    BY <1>4, <1>5

(* The positions of what is written are positions of the file.              *)
LEMMA ChosenFacts ==
  ASSUME file \in Files
  PROVE  /\ Len(file) \in Nat /\ DOMAIN file = 1..Len(file)
         /\ Direct \in SUBSET (1..Len(file)) /\ Later \in SUBSET (1..Len(file))
         /\ Direct \cap Later = {}
         /\ \A i \in DOMAIN file : file[i] \in Element
         /\ \A i \in DOMAIN file : Key(file[i]) \in Kinds \X Int
         /\ Cardinality(Direct) \in Nat /\ Cardinality(Later) \in Nat
  <1>1. /\ Len(file) \in Nat /\ DOMAIN file = 1..Len(file)
        /\ \A i \in DOMAIN file : file[i] \in Element
    BY ConverterAssumption
  <1>2. /\ Direct \in SUBSET (1..Len(file)) /\ Later \in SUBSET (1..Len(file))
        /\ Direct \cap Later = {}
    BY <1>1 DEF Direct, Later
  <1>3. \A i \in DOMAIN file : Key(file[i]) \in Kinds \X Int
    BY <1>1 DEF Key, Element, Kinds
  <1>4. Cardinality(Direct) \in Nat /\ Cardinality(Later) \in Nat
    BY <1>1, <1>2, AheadCounts
  <1> QED
    BY <1>1, <1>2, <1>3, <1>4

(* No two of them are in one place.                                         *)
LEMMA PlaceInjective ==
  ASSUME file \in Files, NEW i \in Direct \cup Later, NEW j \in Direct \cup Later,
         Place(i) = Place(j)
  PROVE  i = j
  <1> DEFINE m == Len(file)
             D == Direct
             L == Later
             d == Cardinality(D)
  <1>1. /\ m \in Nat /\ D \in SUBSET (1..m) /\ L \in SUBSET (1..m) /\ D \cap L = {} /\ d \in Nat
    BY ChosenFacts
  <1>2. \A k : Place(k) = 1 + IF k \in D THEN Ahead(D, k) ELSE d + Ahead(L, k)
    BY DEF Place
  <1> HIDE DEF m, D, L, d
  <1>3. i \in Nat /\ j \in Nat /\ i \in D \cup L /\ j \in D \cup L
    BY <1>1 DEF D, L
  <1>4. /\ \A k \in Nat : Ahead(D, k) \in Nat /\ Ahead(L, k) \in Nat
        /\ \A k \in D : 1 + Ahead(D, k) <= d
    BY <1>1, AheadCounts DEF d
  <1>5. \A k, l \in D : k < l => 1 + Ahead(D, k) <= Ahead(D, l)
    <2>1. \A k \in D : k \in Nat
      BY <1>1
    <2> QED
      BY <1>1, <2>1, AheadGrows
  <1>6. \A k, l \in L : k < l => 1 + Ahead(L, k) <= Ahead(L, l)
    <2>1. \A k \in L : k \in Nat
      BY <1>1
    <2> QED
      BY <1>1, <2>1, AheadGrows
  <1>7. CASE i \in D /\ j \in D
    BY <1>2, <1>3, <1>4, <1>5, <1>7
  <1>8. CASE i \in L /\ j \in L
    <2>1. i \notin D /\ j \notin D
      BY <1>1, <1>8
    <2>2. 1 + (d + Ahead(L, i)) = 1 + (d + Ahead(L, j))
      BY <1>2, <2>1
    <2>3. Ahead(L, i) = Ahead(L, j)
      BY <1>1, <1>3, <1>4, <2>2
    <2> QED
      BY <1>3, <1>4, <1>6, <1>8, <2>3
  <1>9. CASE i \in D /\ j \in L
    <2>1. j \notin D
      BY <1>1, <1>9
    <2>2. 1 + Ahead(D, i) = 1 + (d + Ahead(L, j))
      BY <1>2, <1>9, <2>1
    <2> QED
      BY <1>1, <1>3, <1>4, <1>9, <2>2
  <1>10. CASE i \in L /\ j \in D
    <2>1. i \notin D
      BY <1>1, <1>10
    <2>2. 1 + Ahead(D, j) = 1 + (d + Ahead(L, i))
      BY <1>2, <1>10, <2>1
    <2> QED
      BY <1>1, <1>3, <1>4, <1>10, <2>2
  <1> QED
    BY <1>3, <1>7, <1>8, <1>9, <1>10

(* The first that are to be written, item by item.                          *)
Items(out) == \A n \in 1..Len(out) :
                \E i \in Direct \cup Later : Place(i) = n /\ out[n] = Key(file[i])

(* They are the beginning of what is to be written.                         *)
LEMMA ItemsBegin ==
  ASSUME file \in Files, output \in Seq(Kinds \X Int), Items(output),
         Len(output) <= Cardinality(Direct) + Cardinality(Later)
  PROVE  /\ IsPrefix(output, Expected)
         /\ Len(output) = Cardinality(Direct) + Cardinality(Later) => output = Expected
  <1> DEFINE l == Len(output)
             m == Cardinality(Direct) + Cardinality(Later)
             C == Direct \cup Later
             at(n) == CHOOSE i \in C : Place(i) = n
             E == [n \in 1..m |-> Key(file[at(n)])]
  <1>1. l \in Nat /\ m \in Nat /\ l <= m /\ output = [n \in 1..l |-> output[n]]
    BY ChosenFacts
  <1>2. \A n \in 1..l : output[n] = Key(file[at(n)])
    <2> SUFFICES ASSUME NEW n \in 1..l  PROVE output[n] = Key(file[at(n)])
      OBVIOUS
    <2>1. PICK i \in C : Place(i) = n /\ output[n] = Key(file[i])
      BY DEF Items
    <2>2. at(n) \in C /\ Place(at(n)) = n
      BY <2>1
    <2>3. at(n) = i
      BY <2>1, <2>2, PlaceInjective
    <2> QED
      BY <2>1, <2>3
  <1>3. Expected = E
    BY DEF Expected
  <1> HIDE DEF at, m
  <1>4. Len(E) = m /\ \A n \in 1..m : E[n] = Key(file[at(n)])
    BY <1>1
  <1> HIDE DEF E
  <1>5. SubSeq(output, 1, l) = [n \in 1..l |-> output[n]]
    BY <1>1
  <1>6. SubSeq(E, 1, l) = [n \in 1..l |-> E[n]]
    BY <1>1
  <1>7. \A n \in 1..l : n \in 1..m
    BY <1>1
  <1> HIDE DEF l
  <1>8. \A n \in 1..l : output[n] = E[n]
    BY <1>2, <1>4, <1>7
  <1>9. SubSeq(output, 1, l) = SubSeq(E, 1, l)
    BY <1>5, <1>6, <1>8
  <1>10. E = [n \in 1..m |-> E[n]]
    BY DEF E
  <1>11. l = m => output = E
    BY <1>1, <1>8, <1>10
  <1> QED
    BY <1>1, <1>3, <1>4, <1>9, <1>11 DEF IsPrefix, l, m

(* The identifiers of the first elements of a kind that are selected.       *)
Matched(kind, n) ==
    {file[i].id : i \in {j \in DOMAIN file : j < n /\ file[j].kind = kind /\ Matches(file[j])}}

Selecting(n) == /\ Nodes = Matched("node", n) /\ Ways = Matched("way", n)
                /\ Relations = Matched("relation", n)

(* The masks of selected elements.                                          *)
SelInv == /\ pass = "index" => Selecting(pos)
          /\ pass \in {"members", "print", "relations"} => Selecting(Len(file) + 1)

(* One element more.                                                        *)
LEMMA MatchedMore ==
  ASSUME PosType, pos <= Len(file), NEW kind
  PROVE  Matched(kind, pos + 1) = Matched(kind, pos) \cup Chosen(file[pos], kind)
  <1>1. DOMAIN file = 1..Len(file) /\ Len(file) \in Nat /\ pos \in DOMAIN file
    BY FileElements DEF PosType
  <1>2. \A j \in DOMAIN file : j < pos + 1 <=> j < pos \/ j = pos
    BY <1>1
  <1> QED
    BY <1>1, <1>2 DEF Matched, Chosen

(* At the start of the file there is none, and at the end these are all.    *)
LEMMA MatchedEnds ==
  ASSUME PosType, NEW kind
  PROVE  /\ Matched(kind, 1) = {}
         /\ pos > Len(file) => Matched(kind, pos) = Matched(kind, Len(file) + 1)
  <1>1. DOMAIN file = 1..Len(file) /\ Len(file) \in Nat /\ pos \in Nat
    BY FileElements DEF PosType
  <1>2. \A j \in DOMAIN file : ~(j < 1) /\ j < Len(file) + 1 /\ (pos > Len(file) => j < pos)
    BY <1>1
  <1> QED
    BY <1>2 DEF Matched

(* A step that selects nothing, and does not leave the first pass.          *)
LEMMA SelectingStays ==
  ASSUME UNCHANGED <<file, selMasks>>, NEW n, NEW k, pos' = k
  PROVE  /\ Selecting(n)' <=> Selecting(n)
         /\ Selecting(pos)' <=> Selecting(k)
         /\ Selecting(Len(file) + 1)' <=> Selecting(Len(file) + 1)
  BY DEF Selecting, Matched, Matches, selMasks

(* The first pass selects exactly what matches.                             *)
LEMMA SelInvStep ==
  ASSUME PosType, SelInv, [Next]_vars
  PROVE  SelInv'
  <1>1. CASE Index
    <2> DEFINE e == file[pos]
               k == pos + 1
    <2>1. /\ pass = "index" /\ pass' = pass /\ pos <= Len(file) /\ pos' = k /\ file' = file
          /\ Nodes' = Nodes \cup Chosen(e, "node") /\ Ways' = Ways \cup Chosen(e, "way")
          /\ Relations' = Relations \cup Chosen(e, "relation")
      BY <1>1 DEF Index
    <2>2. Selecting(pos)
      BY <2>1 DEF SelInv
    <2>3. /\ Nodes' = Matched("node", k) /\ Ways' = Matched("way", k)
          /\ Relations' = Matched("relation", k)
      BY <2>1, <2>2, MatchedMore DEF Selecting
    <2>4. \A kind : Matched(kind, pos)' = Matched(kind, k)
      BY <2>1 DEF Matched, Matches
    <2> QED
      BY <2>1, <2>3, <2>4 DEF SelInv, Selecting
  <1>2. CASE IndexEnd
    <2>1. /\ pass = "index" /\ pos > Len(file) /\ UNCHANGED <<file, selMasks>> /\ pos' = 1
          /\ pass' \in {"members", "print"}
      BY <1>2 DEF IndexEnd, BeginPrint, BeginMembers
    <2>2. Selecting(Len(file) + 1)
      BY <2>1, MatchedEnds DEF SelInv, Selecting
    <2> QED
      BY <2>1, <2>2, SelectingStays DEF SelInv
  <1>3. CASE UNCHANGED <<file, pass, pos, selMasks>>
    BY <1>3, SelectingStays DEF SelInv
  <1>4. CASE /\ UNCHANGED <<file, selMasks>>
             /\ \/ /\ pass \in {"members", "print", "relations"}
                   /\ pass' \in {"members", "print", "relations"}
                \/ pass' \in {"close", "release", "done"}
    <2>1. Selecting(Len(file) + 1)' <=> Selecting(Len(file) + 1)
      BY <1>4, SelectingStays
    <2> QED
      BY <1>4, <2>1 DEF SelInv
  <1>5. IndexMembers \/ MembersEnd => /\ UNCHANGED <<file, selMasks>> /\ pass = "members"
                                      /\ pass' \in {"members", "print"}
    BY DEF IndexMembers, MembersEnd, BeginPrint, BeginMembers
  <1>6. PrintNode \/ PrintWay \/ PrintRelation \/ PrintEnd =>
           /\ UNCHANGED <<file, selMasks>> /\ pass = "print"
           /\ pass' \in {"print", "relations", "close"}
    BY DEF PrintNode, PrintWay, PrintRelation, PrintEnd, Decoding, Stop, Skip, Write
  <1>7. PrintFeature \/ FeaturesEnd => /\ UNCHANGED <<file, selMasks>> /\ pass = "relations"
                                       /\ pass' \in {"relations", "close"}
    BY DEF PrintFeature, FeaturesEnd, Stop, Write
  <1>8. DecodeFails \/ CloseWriter \/ CloseCache =>
           UNCHANGED <<file, selMasks>> /\ pass' \in {"close", "release", "done"}
    BY DEF DecodeFails, CloseWriter, CloseCache
  <1>9. Returned \/ UNCHANGED vars => UNCHANGED <<file, pass, pos, selMasks>>
    BY DEF Returned, vars, input, selMasks
  <1> QED
    BY <1>1, <1>2, <1>3, <1>4, <1>5, <1>6, <1>7, <1>8, <1>9 DEF Next

(* When it prints, the masks tell what is selected.                         *)
LEMMA SelectedIs ==
  ASSUME PosType, Selecting(Len(file) + 1), NEW i \in DOMAIN file
  PROVE  /\ file[i].kind = "node" => (file[i].id \in Nodes <=> i \in Direct)
         /\ file[i].kind = "way" => (file[i].id \in Ways <=> i \in Direct)
         /\ file[i].kind = "relation" => (file[i].id \in Relations <=> i \in Later)
  <1>1. DOMAIN file = 1..Len(file) /\ Len(file) \in Nat
    BY FileElements
  <1>2. \A j \in DOMAIN file : j < Len(file) + 1
    BY <1>1
  <1> DEFINE e == file[i]
  <1>3. IsSelected(e) <=> e.id \in Matched(e.kind, Len(file) + 1)
    <2>1. IsSelected(e) <=> \E j \in DOMAIN file : Key(file[j]) = Key(e) /\ Matches(file[j])
      BY DEF IsSelected, Elements, ToSet
    <2>2. \A j : Key(file[j]) = Key(e) <=> file[j].kind = e.kind /\ file[j].id = e.id
      BY DEF Key
    <2> QED
      BY <1>2, <2>1, <2>2 DEF Matched
  <1> QED
    BY <1>3 DEF Selecting, Direct, Later

(* The first of the selected relations.                                     *)
Kept(ids) == \A n \in 1..Len(ids) :
               \E i \in Later : 1 + Ahead(Later, i) = n /\ ids[n] = file[i].id

Entirety == Cardinality(Direct) + Cardinality(Later)

(* What has been written and kept, how much of it there is in each pass,    *)
(* and that all of it is written unless there is an error.                  *)
OutInv ==
    /\ output \in Seq(Kinds \X Int) /\ selected \in Seq(Int)
    /\ Items(output) /\ Kept(selected) /\ Len(output) <= Entirety
    /\ pass \in {"index", "members"} => Len(output) = 0 /\ Len(selected) = 0
    /\ pass = "print" => Len(output) = Ahead(Direct, pos) /\ Len(selected) = Ahead(Later, pos)
    /\ pass = "relations" => /\ pos <= Len(selected) + 1 /\ Len(selected) = Cardinality(Later)
                             /\ Len(output) + 1 = Cardinality(Direct) + pos
    /\ pass \in {"index", "members", "print", "relations"} => err = "nil"
    /\ pass \in {"close", "release", "done"} /\ err = "nil" => Len(output) = Entirety
    /\ pass \in {"release", "done"} /\ err = "nil" => (Strict => framing = "closed")

(* What is to be written is said of the file alone.                         *)
LEMMA SameItems ==
  ASSUME file' = file, NEW out, output' = out, NEW ids, selected' = ids
  PROVE  /\ Direct' = Direct /\ Later' = Later /\ Entirety' = Entirety
         /\ Items(output)' <=> Items(out)
         /\ Kept(selected)' <=> Kept(ids)
  <1>1. Direct' = Direct /\ Later' = Later
    BY DEF Direct, Later, IsSelected, Elements, Key, Matches
  <1>2. Entirety' = Entirety
    BY <1>1 DEF Entirety
  <1>3. Items(output)' <=> Items(out)
    BY <1>1 DEF Items, Place, Ahead, Key
  <1>4. Kept(selected)' <=> Kept(ids)
    BY <1>1 DEF Kept, Ahead
  <1> QED
    BY <1>1, <1>2, <1>3, <1>4

(* One more is written,                                                     *)
LEMMA ItemMore ==
  ASSUME NEW S, NEW out \in Seq(S), Items(out), NEW i \in Direct \cup Later,
         Place(i) = Len(out) + 1, NEW x \in S, x = Key(file[i])
  PROVE  Items(Append(out, x)) /\ Append(out, x) \in Seq(S) /\ Len(Append(out, x)) = Len(out) + 1
  <1> DEFINE l == Len(out)
             o == Append(out, x)
  <1>1. l \in Nat /\ o \in Seq(S) /\ Len(o) = l + 1 /\ o[l + 1] = x /\ \A n \in 1..l : o[n] = out[n]
    OBVIOUS
  <1>2. \A n \in 1..l + 1 : n \in 1..l \/ n = l + 1
    BY <1>1
  <1> HIDE DEF o
  <1>3. Items(o)
    BY <1>1, <1>2 DEF Items
  <1> QED
    BY <1>1, <1>3 DEF o

(* or kept.                                                                 *)
LEMMA KeptMore ==
  ASSUME NEW S, NEW ids \in Seq(S), Kept(ids), NEW i \in Later,
         1 + Ahead(Later, i) = Len(ids) + 1, NEW x \in S, x = file[i].id
  PROVE  Kept(Append(ids, x)) /\ Append(ids, x) \in Seq(S) /\ Len(Append(ids, x)) = Len(ids) + 1
  <1> DEFINE l == Len(ids)
             o == Append(ids, x)
  <1>1. l \in Nat /\ o \in Seq(S) /\ Len(o) = l + 1 /\ o[l + 1] = x /\ \A n \in 1..l : o[n] = ids[n]
    OBVIOUS
  <1>2. \A n \in 1..l + 1 : n \in 1..l \/ n = l + 1
    BY <1>1
  <1> HIDE DEF o
  <1>3. Kept(o)
    BY <1>1, <1>2 DEF Kept
  <1> QED
    BY <1>1, <1>3 DEF o

(* A step that writes nothing and keeps nothing.                            *)
LEMMA WritesNothing ==
  ASSUME OutInv, UNCHANGED <<file, output, selected>>,
         \/ /\ pass \in {"index", "members"} /\ pass' \in {"index", "members"} /\ err' = err
         \/ pass' \in {"close", "release", "done"} /\ err' # "nil"
         \/ /\ pass \in {"close", "release"} /\ pass' \in {"release", "done"}
            /\ err' = "nil" => err = "nil"
            /\ err' = "nil" => (Strict => framing' = "closed")
         \/ UNCHANGED <<pass, pos, err, framing>>
  PROVE  OutInv'
  <1>1. /\ Direct' = Direct /\ Later' = Later /\ Entirety' = Entirety
        /\ Items(output)' /\ Kept(selected)'
    BY SameItems DEF OutInv
  <1>2. (output \in Seq(Kinds \X Int) /\ selected \in Seq(Int) /\ Len(output) <= Entirety)'
    BY <1>1 DEF OutInv
  <1>3. CASE pass \in {"index", "members"} /\ pass' \in {"index", "members"} /\ err' = err
    BY <1>1, <1>2, <1>3 DEF OutInv
  <1>4. CASE pass' \in {"close", "release", "done"} /\ err' # "nil"
    BY <1>1, <1>2, <1>4 DEF OutInv
  <1>5. CASE /\ pass \in {"close", "release"} /\ pass' \in {"release", "done"}
             /\ err' = "nil" => err = "nil"
             /\ err' = "nil" => (Strict => framing' = "closed")
    BY <1>1, <1>2, <1>5 DEF OutInv
  <1>6. CASE UNCHANGED <<pass, pos, err, framing>>
    BY <1>1, <1>2, <1>6 DEF OutInv, Ahead
  <1> QED
    BY <1>3, <1>4, <1>5, <1>6

(* The printing pass begins with nothing written.                           *)
LEMMA PrintingBegins ==
  ASSUME OutInv, PosType, pass \in {"index", "members"}, pass' = "print", pos' = 1,
         UNCHANGED <<file, output, selected, err>>
  PROVE  OutInv'
  <1>1. /\ Direct' = Direct /\ Later' = Later /\ Entirety' = Entirety
        /\ Items(output)' /\ Kept(selected)'
    BY SameItems DEF OutInv
  <1>2. Ahead(Direct, 1) = 0 /\ Ahead(Later, 1) = 0
    BY ChosenFacts, AheadCounts DEF PosType
  <1>3. Ahead(Direct, pos)' = Ahead(Direct, 1) /\ Ahead(Later, pos)' = Ahead(Later, 1)
    BY <1>1 DEF Ahead
  <1> QED
    BY <1>1, <1>2, <1>3 DEF OutInv

(* The printing pass writes an element that is selected, or keeps it.       *)
LEMMA PrintsOne ==
  ASSUME OutInv, PosType, pass = "print", pos <= Len(file), UNCHANGED file,
         pass' = "print", pos' = pos + 1, err' = err,
         output' = IF pos \in Direct THEN Append(output, Key(file[pos])) ELSE output,
         selected' = IF pos \in Later THEN Append(selected, file[pos].id) ELSE selected
  PROVE  OutInv'
  <1> DEFINE D == Direct
             L == Later
             d == Cardinality(D)
             m == Len(file)
             k == pos + 1
  <1>1. /\ output \in Seq(Kinds \X Int) /\ selected \in Seq(Int) /\ Items(output) /\ Kept(selected)
        /\ Len(output) = Ahead(D, pos) /\ Len(selected) = Ahead(L, pos) /\ err = "nil"
    BY DEF OutInv
  <1>2. /\ m \in Nat /\ D \in SUBSET (1..m) /\ L \in SUBSET (1..m) /\ D \cap L = {}
        /\ file[pos] \in Element /\ Key(file[pos]) \in Kinds \X Int /\ pos \in Nat
    <2>1. pos \in DOMAIN file
      BY ChosenFacts DEF PosType
    <2> QED
      BY <2>1, ChosenFacts DEF PosType
  <1>3. D' = D /\ L' = L /\ Entirety' = Entirety /\ Entirety = d + Cardinality(L)
    BY SameItems DEF Entirety
  <1>4. file[pos].id \in Int
    BY <1>2 DEF Element
  <1> HIDE DEF m
  <1>5. /\ Ahead(D, k) = Ahead(D, pos) + (IF pos \in D THEN 1 ELSE 0)
        /\ Ahead(L, k) = Ahead(L, pos) + (IF pos \in L THEN 1 ELSE 0)
        /\ k \in Nat /\ d \in Nat /\ Cardinality(L) \in Nat
    <2> HIDE DEF D, L
    <2>1. Ahead(D, k) = Ahead(D, pos) + (IF pos \in D THEN 1 ELSE 0)
      BY <1>2, AheadCounts
    <2>2. Ahead(L, k) = Ahead(L, pos) + (IF pos \in L THEN 1 ELSE 0)
      BY <1>2, AheadCounts
    <2>3. d \in Nat
      BY <1>2, AheadCounts
    <2>4. Cardinality(L) \in Nat
      BY <1>2, AheadCounts
    <2> QED
      BY <1>2, <2>1, <2>2, <2>3, <2>4
  <1>6. Ahead(D, k) <= d /\ Ahead(D, k) \in Nat
    <2> HIDE DEF D, L
    <2>1. k \in Nat
      BY <1>5
    <2> HIDE DEF k
    <2>2. Ahead(D, k) <= Cardinality(D) /\ Ahead(D, k) \in Nat
      BY <1>2, <2>1, AheadCounts
    <2> QED
      BY <2>2
  <1>7. Place(pos) = 1 + Ahead(D, pos) \/ pos \notin D
    BY DEF Place
  <1>8. Items(output') /\ output' \in Seq(Kinds \X Int) /\ Len(output') = Ahead(D, k)
    <2>1. CASE pos \in D
      <3>1. Place(pos) = Len(output) + 1
        BY <1>1, <1>7, <2>1
      <3> QED
        BY <1>1, <1>2, <1>5, <2>1, <3>1, ItemMore
    <2>2. CASE pos \notin D
      BY <1>1, <1>5, <2>2
    <2> QED
      BY <2>1, <2>2
  <1>9. Kept(selected') /\ selected' \in Seq(Int) /\ Len(selected') = Ahead(L, k)
    <2>1. CASE pos \in L
      <3>1. 1 + Ahead(L, pos) = Len(selected) + 1
        BY <1>1
      <3>2. /\ Kept(Append(selected, file[pos].id))
            /\ Append(selected, file[pos].id) \in Seq(Int)
            /\ Len(Append(selected, file[pos].id)) = Len(selected) + 1
        BY <1>1, <1>4, <2>1, <3>1, KeptMore
      <3> QED
        BY <1>1, <1>4, <1>5, <2>1, <3>1, <3>2
    <2>2. CASE pos \notin L
      BY <1>1, <1>5, <2>2
    <2> QED
      BY <2>1, <2>2
  <1>10. Items(output)' /\ Kept(selected)'
    BY <1>8, <1>9, SameItems
  <1>11. Ahead(Direct, pos)' = Ahead(D, k) /\ Ahead(Later, pos)' = Ahead(L, k)
    BY <1>3 DEF Ahead
  <1>12. Len(output') <= Entirety'
    BY <1>3, <1>5, <1>6, <1>8
  <1> HIDE DEF D, L, d, k
  <1> QED
    BY <1>1, <1>8, <1>9, <1>10, <1>11, <1>12 DEF OutInv

(* The relations begin after the printing pass,                             *)
LEMMA RelationsBegin ==
  ASSUME OutInv, PosType, pass = "print", pos > Len(file), UNCHANGED <<file, output, selected, err>>,
         pass' = "relations", pos' = 1
  PROVE  OutInv'
  <1> DEFINE D == Direct
             L == Later
             m == Len(file)
  <1>1. m \in Nat /\ D \in SUBSET (1..m) /\ L \in SUBSET (1..m) /\ pos \in Nat
    BY ChosenFacts DEF PosType
  <1>2. /\ Items(output)' /\ Kept(selected)' /\ Direct' = D /\ Later' = L /\ Entirety' = Entirety
    BY SameItems DEF OutInv
  <1>3. Len(output) = Ahead(D, pos) /\ Len(selected) = Ahead(L, pos) /\ pos > m
    BY DEF OutInv
  <1> HIDE DEF D, L, m
  <1>4. Ahead(D, pos) = Cardinality(D) /\ Cardinality(D) \in Nat
    BY <1>1, <1>3, AheadCounts
  <1>5. Ahead(L, pos) = Cardinality(L) /\ Cardinality(L) \in Nat
    BY <1>1, <1>3, AheadCounts
  <1>6. /\ pos' <= Len(selected') + 1 /\ Len(selected') = Cardinality(Later)'
        /\ Len(output') + 1 = Cardinality(Direct)' + pos'
    BY <1>2, <1>3, <1>4, <1>5
  <1> QED
    BY <1>2, <1>6 DEF OutInv

(* one is written,                                                          *)
LEMMA RelationWritten ==
  ASSUME OutInv, PosType, pass = "relations", pos <= Len(selected), UNCHANGED <<file, selected, err>>,
         pass' = "relations", pos' = pos + 1,
         output' = Append(output, <<"relation", selected[pos]>>)
  PROVE  OutInv'
  <1> DEFINE d == Cardinality(Direct)
             c == Cardinality(Later)
             x == <<"relation", selected[pos]>>
  <1>1. /\ output \in Seq(Kinds \X Int) /\ selected \in Seq(Int) /\ Items(output) /\ Kept(selected)
        /\ Len(output) + 1 = d + pos /\ Len(selected) = c /\ err = "nil"
    BY DEF OutInv
  <1>2. d \in Nat /\ c \in Nat /\ Direct \cap Later = {} /\ pos \in Nat /\ pos \in 1..Len(selected)
    BY <1>1, ChosenFacts DEF PosType
  <1>3. PICK i \in Later : 1 + Ahead(Later, i) = pos /\ selected[pos] = file[i].id
    BY <1>1, <1>2 DEF Kept
  <1>4. Key(file[i]) = x
    BY <1>3 DEF Later, Key
  <1>5. Place(i) = Len(output) + 1
    <2>1. Place(i) = 1 + (d + Ahead(Later, i)) /\ Ahead(Later, i) \in Nat
      <3>1. i \notin Direct
        BY <1>2, <1>3
      <3>2. Later \in SUBSET (1..Len(file)) /\ Len(file) \in Nat /\ i \in Nat
        BY ChosenFacts DEF PosType
      <3>3. Ahead(Later, i) \in Nat
        BY <3>2, AheadCounts
      <3> QED
        BY <3>1, <3>3 DEF Place
    <2> HIDE DEF d
    <2> QED
      BY <1>1, <1>2, <1>3, <2>1
  <1>6. x \in Kinds \X Int /\ output' = Append(output, x) /\ i \in Direct \cup Later
    BY <1>1, <1>2, <1>3 DEF Kinds
  <1> HIDE DEF x
  <1>7. Items(output') /\ output' \in Seq(Kinds \X Int) /\ Len(output') = Len(output) + 1
    <2>1. Items(Append(output, x))
      BY <1>1, <1>4, <1>5, <1>6, ItemMore
    <2>2. Append(output, x) \in Seq(Kinds \X Int) /\ Len(Append(output, x)) = Len(output) + 1
      BY <1>1, <1>6
    <2>3. Items(output')
      BY <1>6, <2>1, Zenon
    <2> QED
      BY <1>6, <2>2, <2>3, Zenon
  <1>8. /\ Direct' = Direct /\ Later' = Later /\ Entirety' = Entirety
        /\ Items(output)' /\ Kept(selected)'
    BY <1>1, <1>7, SameItems
  <1> HIDE DEF d, c
  <1>9. /\ pos' <= Len(selected) + 1 /\ Len(output') + 1 = d + pos' /\ Len(output') <= d + c
    BY <1>1, <1>2, <1>7
  <1> QED
    BY <1>1, <1>7, <1>8, <1>9 DEF OutInv, d, c, Entirety

(* and when all are, the converter closes its output.                       *)
LEMMA RelationsEnd ==
  ASSUME OutInv, PosType, pass = "relations", pos > Len(selected), pass' = "close",
         UNCHANGED <<file, output, selected, err>>
  PROVE  OutInv'
  <1> DEFINE d == Cardinality(Direct)
             c == Cardinality(Later)
  <1>1. /\ pos <= Len(selected) + 1 /\ Len(selected) = c /\ Len(output) + 1 = d + pos
        /\ output \in Seq(Kinds \X Int)
    BY DEF OutInv
  <1>2. d \in Nat /\ c \in Nat /\ pos \in Nat
    BY ChosenFacts DEF PosType
  <1> HIDE DEF d, c
  <1>3. Len(output) = d + c
    BY <1>1, <1>2
  <1>4. /\ Entirety' = Entirety /\ Items(output)' /\ Kept(selected)'
    BY SameItems DEF OutInv
  <1> QED
    BY <1>3, <1>4 DEF OutInv, Entirety, d, c

(* A node,                                                                  *)
LEMMA PrintNodeOut ==
  ASSUME OutInv, PosType, SelInv, PrintNode
  PROVE  OutInv'
  <1> DEFINE e == file[pos]
  <1>1. /\ pass = "print" /\ pos <= Len(file) /\ e.kind = "node"
        /\ UNCHANGED <<file, selected>>
        /\ \/ Stop("cache")
           \/ e.id \notin Nodes /\ Skip
           \/ e.id \in Nodes /\ (Stop("build") \/ Write(e))
    BY DEF PrintNode, Decoding
  <1>2. (e.id \in Nodes <=> pos \in Direct) /\ pos \notin Later
    <2>1. pos \in DOMAIN file
      BY <1>1, FileElements DEF PosType
    <2> QED
      BY <1>1, <2>1, SelectedIs DEF SelInv, Later
  <1>3. CASE \E reason \in {"cache", "build", "write"} : Stop(reason)
    BY <1>1, <1>3, WritesNothing DEF Stop
  <1>4. CASE ~\E reason \in {"cache", "build", "write"} : Stop(reason)
    <2>1. /\ pass' = "print" /\ pos' = pos + 1 /\ err' = err
          /\ output' = IF pos \in Direct THEN Append(output, Key(e)) ELSE output
      BY <1>1, <1>2, <1>4 DEF Skip, Write
    <2> QED
      BY <1>1, <1>2, <2>1, PrintsOne
  <1> QED
    BY <1>3, <1>4

(* a way,                                                                   *)
LEMMA PrintWayOut ==
  ASSUME OutInv, PosType, SelInv, PrintWay
  PROVE  OutInv'
  <1> DEFINE e == file[pos]
  <1>1. /\ pass = "print" /\ pos <= Len(file) /\ e.kind = "way"
        /\ UNCHANGED <<file, selected>>
        /\ \/ Stop("cache")
           \/ e.id \notin Ways /\ Skip
           \/ e.id \in Ways /\ (Stop("build") \/ Write(e))
    BY DEF PrintWay, Decoding
  <1>2. (e.id \in Ways <=> pos \in Direct) /\ pos \notin Later
    <2>1. pos \in DOMAIN file
      BY <1>1, FileElements DEF PosType
    <2> QED
      BY <1>1, <2>1, SelectedIs DEF SelInv, Later
  <1>3. CASE \E reason \in {"cache", "build", "write"} : Stop(reason)
    BY <1>1, <1>3, WritesNothing DEF Stop
  <1>4. CASE ~\E reason \in {"cache", "build", "write"} : Stop(reason)
    <2>1. /\ pass' = "print" /\ pos' = pos + 1 /\ err' = err
          /\ output' = IF pos \in Direct THEN Append(output, Key(e)) ELSE output
      BY <1>1, <1>2, <1>4 DEF Skip, Write
    <2> QED
      BY <1>1, <1>2, <2>1, PrintsOne
  <1> QED
    BY <1>3, <1>4

(* a relation,                                                              *)
LEMMA PrintRelationOut ==
  ASSUME OutInv, PosType, SelInv, PrintRelation
  PROVE  OutInv'
  <1> DEFINE e == file[pos]
  <1>1. /\ pass = "print" /\ pos <= Len(file) /\ e.kind = "relation" /\ file' = file
        /\ \/ Stop("cache") /\ selected' = selected
           \/ /\ selected' = IF e.id \in Relations THEN Append(selected, e.id) ELSE selected
              /\ Skip
    BY DEF PrintRelation, Decoding
  <1>2. (e.id \in Relations <=> pos \in Later) /\ pos \notin Direct
    <2>1. pos \in DOMAIN file
      BY <1>1, FileElements DEF PosType
    <2> QED
      BY <1>1, <2>1, SelectedIs DEF SelInv, Direct
  <1>3. CASE Stop("cache") /\ selected' = selected
    BY <1>1, <1>3, WritesNothing DEF Stop
  <1>4. CASE /\ selected' = IF e.id \in Relations THEN Append(selected, e.id) ELSE selected
             /\ Skip
    BY <1>1, <1>2, <1>4, PrintsOne DEF Skip
  <1> QED
    BY <1>1, <1>3, <1>4

(* and after the last of them the selected relations.                       *)
LEMMA PrintFeatureOut ==
  ASSUME OutInv, PosType, PrintFeature
  PROVE  OutInv'
  <1>1. /\ pass = "relations" /\ pos <= Len(selected) /\ UNCHANGED <<file, selected>>
        /\ Write([kind |-> "relation", id |-> selected[pos]]) \/ Stop("build")
    BY DEF PrintFeature
  <1>2. Key([kind |-> "relation", id |-> selected[pos]]) = <<"relation", selected[pos]>>
    BY DEF Key
  <1>3. CASE Stop("build") \/ Stop("write")
    BY <1>1, <1>3, WritesNothing DEF Stop
  <1>4. CASE ~(Stop("build") \/ Stop("write"))
    <2>1. /\ pass' = "relations" /\ pos' = pos + 1 /\ err' = err
          /\ output' = Append(output, <<"relation", selected[pos]>>)
      BY <1>1, <1>2, <1>4 DEF Write
    <2> QED
      BY <1>1, <2>1, RelationWritten
  <1> QED
    BY <1>3, <1>4

(* The invariant is inductive.                                              *)
LEMMA OutInvStep ==
  ASSUME OutInv, PosType, SelInv, [Next]_vars
  PROVE  OutInv'
  <1>1. CASE Index \/ IndexMembers \/ IndexEnd \/ MembersEnd
    <2>1. /\ UNCHANGED <<file, output, selected, err>> /\ pass \in {"index", "members"}
          /\ pass' \in {"index", "members"} \/ (pass' = "print" /\ pos' = 1)
      BY <1>1 DEF Index, IndexMembers, IndexEnd, MembersEnd, BeginPrint, BeginMembers, printed
    <2>2. CASE pass' \in {"index", "members"}
      BY <2>1, <2>2, WritesNothing
    <2>3. CASE pass' = "print"
      BY <2>1, <2>3, PrintingBegins
    <2> QED
      BY <2>1, <2>2, <2>3
  <1>2. CASE PrintNode \/ PrintWay \/ PrintRelation \/ PrintFeature
    BY <1>2, PrintNodeOut, PrintWayOut, PrintRelationOut, PrintFeatureOut
  <1>3. CASE PrintEnd
    <2>1. /\ pass = "print" /\ pos > Len(file) /\ UNCHANGED <<file, selected>>
          /\ \/ Stop("cache")
             \/ pass' = "relations" /\ pos' = 1 /\ UNCHANGED <<output, err>>
      BY <1>3 DEF PrintEnd
    <2>2. CASE Stop("cache")
      BY <2>1, <2>2, WritesNothing DEF Stop
    <2>3. CASE ~Stop("cache")
      BY <2>1, <2>3, RelationsBegin
    <2> QED
      BY <2>2, <2>3
  <1>4. CASE FeaturesEnd
    BY <1>4, RelationsEnd DEF FeaturesEnd, printed
  <1>5. CASE DecodeFails
    <2>1. /\ UNCHANGED <<file, output, selected>> /\ err' = "decode"
          /\ pass' \in {"close", "release"}
      BY <1>5 DEF DecodeFails, printed
    <2> QED
      BY <2>1, WritesNothing
  <1>6. CASE CloseWriter
    <2>1. /\ UNCHANGED <<file, output, selected>> /\ pass = "close" /\ pass' = "release"
          /\ err' = "nil" => err = "nil" /\ framing' = IF Strict THEN "closed" ELSE "none"
      BY <1>6 DEF CloseWriter, printed, First
    <2> QED
      BY <2>1, WritesNothing
  <1>7. CASE CloseCache
    <2>1. /\ UNCHANGED <<file, output, selected, framing>> /\ pass = "release" /\ pass' = "done"
          /\ err' = "nil" => err = "nil"
      BY <1>7 DEF CloseCache, First
    <2>2. err = "nil" => (Strict => framing = "closed")
      BY <2>1 DEF OutInv
    <2> QED
      BY <2>1, <2>2, WritesNothing
  <1>8. CASE Returned \/ UNCHANGED vars
    BY <1>8, WritesNothing DEF Returned, vars, input, printed
  <1> QED
    BY <1>1, <1>2, <1>3, <1>4, <1>5, <1>6, <1>7, <1>8 DEF Next

(* So it holds in every state.                                              *)
LEMMA OutputInvariance == Spec => [](SelInv /\ OutInv)
  <1>1. ASSUME Init  PROVE SelInv /\ OutInv
    <2>1. /\ pass = "index" /\ pos = 1 /\ Nodes = {} /\ Ways = {} /\ Relations = {}
          /\ output = <<>> /\ selected = <<>> /\ err = "nil" /\ PosType
      BY <1>1 DEF Init, PosType
    <2>2. SelInv
      BY <2>1, MatchedEnds DEF SelInv, Selecting
    <2>3. /\ output \in Seq(Kinds \X Int) /\ selected \in Seq(Int)
          /\ Len(output) = 0 /\ Len(selected) = 0 /\ Items(output) /\ Kept(selected)
      BY <2>1 DEF Items, Kept
    <2>4. Cardinality(Direct) \in Nat /\ Cardinality(Later) \in Nat
      BY <2>1, ChosenFacts DEF PosType
    <2>5. 0 <= Entirety
      BY <2>4 DEF Entirety
    <2> QED
      BY <2>1, <2>2, <2>3, <2>5 DEF OutInv
  <1>2. MInv /\ SelInv /\ OutInv /\ [Next]_vars => (SelInv /\ OutInv)'
    BY SelInvStep, OutInvStep DEF MInv
  <1> QED
    BY <1>1, <1>2, MaskInvariance, PTL DEF Spec

(* A conversion that returns nil has written every selected element of its  *)
(* file once and in order, nodes and ways before relations, whatever        *)
(* the file; one that fails has written the first of them.                  *)
THEOREM OutputIsExpectedCorrect == Spec => []OutputIsExpected
  <1>1. MInv /\ SelInv /\ OutInv => OutputIsExpected
    <2> SUFFICES ASSUME PosType, OutInv, pass = "done"
                 PROVE  /\ IsPrefix(output, Expected)
                        /\ err = "nil" => output = Expected /\ (Strict => framing = "closed")
      BY DEF MInv, OutputIsExpected
    <2>1. /\ output \in Seq(Kinds \X Int) /\ Items(output) /\ Len(output) <= Entirety
          /\ err = "nil" => Len(output) = Entirety /\ (Strict => framing = "closed")
      BY DEF OutInv
    <2> QED
      BY <2>1, ItemsBegin DEF PosType, Entirety
  <1> QED
    BY <1>1, MaskInvariance, OutputInvariance, PTL

-----------------------------------------------------------------------------
(* What a feature is built from. *)

(* The relations below one are referred to by relations that are held, each *)
(* has what it refers to below that one too, and no more is below it than   *)
(* any set has of which this is true.                                       *)
LEMMA BelowHolds ==
  ASSUME NEW held, NEW id
  PROVE  /\ Below(held, id) \subseteq Referred(held, "relation")
         /\ \A e \in held : e.id \in {id} \cup Below(held, id) =>
                              Refs(e, "relation") \subseteq Below(held, id)
  BY DEF Below, Referred

(* It is the least such set.                                                *)
LEMMA BelowLeast ==
  ASSUME NEW held, NEW id, NEW S,
         \A e \in held : e.id \in {id} \cup S => Refs(e, "relation") \subseteq S
  PROVE  Below(held, id) \subseteq S
  <1> DEFINE all == Referred(held, "relation")
             T == S \cap all
  <1>1. T \in SUBSET all /\ \A e \in held : Refs(e, "relation") \subseteq all
    BY DEF Referred
  <1>2. \A e \in held : e.id \in {id} \cup T => Refs(e, "relation") \subseteq T
    BY <1>1
  <1> QED
    BY <1>1, <1>2 DEF Below

(* More relations have more below one,                                      *)
LEMMA BelowGrows ==
  ASSUME NEW held, NEW all, held \subseteq all, NEW id
  PROVE  Below(held, id) \subseteq Below(all, id)
  <1> DEFINE S == Below(all, id)
  <1>1. \A e \in held : e.id \in {id} \cup S => Refs(e, "relation") \subseteq S
    BY BelowHolds
  <1> HIDE DEF S
  <1> QED
    BY <1>1, BelowLeast DEF S

(* but not if all that is reached is held.                                  *)
LEMMA BelowSame ==
  ASSUME NEW held, NEW all, held \subseteq all, NEW id,
         \A e \in all : e.id \in {id} \cup Below(held, id) => e \in held
  PROVE  Below(all, id) = Below(held, id)
  <1> DEFINE S == Below(held, id)
  <1>1. \A e \in all : e.id \in {id} \cup S => Refs(e, "relation") \subseteq S
    BY BelowHolds
  <1>2. S \subseteq Below(all, id)
    BY BelowGrows
  <1> HIDE DEF S
  <1>3. Below(all, id) \subseteq S
    BY <1>1, BelowLeast
  <1> QED
    BY <1>2, <1>3 DEF S

(* A flush adds no element and takes no key from the store.                 *)
LEMMA FlushStores ==
  ASSUME NEW c \in Cache, NEW write
  PROVE  LET d == Flush(c, write) IN
         /\ d.stored \cup d.batch \subseteq c.stored \cup c.batch
         /\ KeysOf(c.stored) \subseteq KeysOf(d.stored)
         /\ d.batch \subseteq c.batch
  <1> DEFINE d == Flush(c, write)
  <1>1. CASE c.entries = 0 \/ write = "failed"
    <2>1. d = c \/ d = [c EXCEPT !.status = "failed"]
      BY <1>1 DEF Flush
    <2>2. d.stored = c.stored /\ d.batch = c.batch
      BY <2>1 DEF Cache
    <2> QED
      BY <2>2
  <1>2. CASE ~(c.entries = 0 \/ write = "failed")
    <2>1. d = [EmptyCache(c.disk) EXCEPT !.stored = Merge(c.stored, c.batch)]
      BY <1>2 DEF Flush
    <2>2. d.stored = Merge(c.stored, c.batch) /\ d.batch = {}
      BY <2>1 DEF EmptyCache
    <2>3. Merge(c.stored, c.batch) \subseteq c.stored \cup c.batch
      BY DEF Merge
    <2> QED
      BY <2>2, <2>3, MergeKeys
  <1> QED
    BY <1>1, <1>2

(* To put an element adds that element, and takes no key from the store.    *)
LEMMA CachePutStores ==
  ASSUME NEW c \in Cache, NEW e \in Element, NEW write
  PROVE  LET d == CachePut(c, e, write) IN
         /\ d.stored \cup d.batch \subseteq c.stored \cup c.batch \cup {e}
         /\ KeysOf(c.stored) \subseteq KeysOf(d.stored)
         /\ d.batch \subseteq c.batch \cup {e}
  <1> DEFINE d == CachePut(c, e, write)
             filled == [c EXCEPT !.batch = Put(@, e), !.entries = @ + Weight(e)]
  <1>1. CASE c.disk = "memory"
    <2>1. d = [c EXCEPT !.stored = Put(@, e)]
      BY <1>1 DEF CachePut
    <2>2. d.stored = Put(c.stored, e) /\ d.batch = c.batch
      BY <2>1 DEF Cache
    <2>3. Put(c.stored, e) \subseteq c.stored \cup {e}
      BY DEF Put
    <2> QED
      BY <2>2, <2>3, PutKeys
  <1>2. CASE c.disk # "memory"
    <2>1. /\ filled.stored = c.stored /\ filled.batch = Put(c.batch, e)
          /\ filled.disk = c.disk /\ filled.entries = c.entries + Weight(e)
          /\ filled.status = c.status
      BY Zenon DEF Cache
    <2>2. filled \in Cache
      <3>1. Put(c.batch, e) \in SUBSET Element /\ Weight(e) \in {1, 2}
        BY DEF Put, Cache, Weight
      <3> DEFINE batched == [c EXCEPT !.batch = Put(@, e)]
      <3>2. batched \in Cache /\ batched.entries = c.entries /\ c.entries \in Nat
        BY <3>1 DEF Cache
      <3>3. filled = [batched EXCEPT !.entries = c.entries + Weight(e)]
        BY Zenon
      <3> HIDE DEF batched, filled
      <3> QED
        BY <3>1, <3>2, <3>3 DEF Cache
    <2>3. Put(c.batch, e) \subseteq c.batch \cup {e}
      BY DEF Put
    <2>4. d = filled \/ d = Flush(filled, write)
      BY <1>2, Zenon DEF CachePut
    <2> HIDE DEF filled
    <2>5. LET f == Flush(filled, write) IN
          /\ f.stored \cup f.batch \subseteq filled.stored \cup filled.batch
          /\ KeysOf(filled.stored) \subseteq KeysOf(f.stored)
          /\ f.batch \subseteq filled.batch
      BY <2>2, FlushStores
    <2> HIDE DEF d
    <2> QED
      BY <2>1, <2>3, <2>4, <2>5 DEF d
  <1> QED
    BY <1>1, <1>2

(* There is one version of each element, and the elements of some kind with *)
(* these identifiers are in the file.                                       *)
OneVersion == \A e, x \in Elements : Key(e) = Key(x) => e = x
Present(kind, ids) == \A id \in ids : \E e \in Elements : Key(e) = <<kind, id>>

WantedWays == MemberWays \cup {e \in OfKind("way") : Matches(e)}

(* What is said of a file that can be converted.                            *)
LEMMA ConvertibleFacts ==
  ASSUME Convertible
  PROVE  /\ Ordered /\ OneVersion
         /\ \A e \in Elements : "outside" \notin e.tags
         /\ \A e \in WantedWays : Len(e.refs) >= 2
         /\ \A e \in NeededRelations :
              /\ "area" \notin e.tags /\ e.id \notin Below(OfKind("relation"), e.id)
              /\ Refs(e, "unknown") = {}
              /\ \E x \in OfKind("relation") :
                   /\ x.id \in {e.id} \cup Below(OfKind("relation"), e.id)
                   /\ Refs(x, "node") \cup Refs(x, "way") # {}
         /\ Present("relation", Referred(NeededRelations, "relation"))
         /\ Present("way", Referred(NeededRelations, "way"))
         /\ Present("node", Referred(NeededRelations \cup WantedWays, "node"))
  BY DEF Convertible, OneVersion, Present, WantedWays

(* The cache holds elements of the file.                                    *)
StoreInv == cache.stored \cup cache.batch \subseteq Elements

(* The relations kept are those of the file that the masks ask for: all of  *)
(* the first of them, if no version replaces another.                       *)
Retained(n) ==
    /\ relations \subseteq {e \in OfKind("relation") : e.id \in Relations \cup RelRelation}
    /\ OneVersion =>
         \A i \in DOMAIN file :
            i < n /\ file[i].kind = "relation" /\ file[i].id \in Relations \cup RelRelation =>
              file[i] \in relations

RetainedInv == /\ pass \in {"index", "members"} => relations = {}
               /\ pass = "print" => Retained(pos)
               /\ pass = "relations" => Retained(Len(file) + 1)

(* Once the nodes are flushed no node is in the batch, in a file that has   *)
(* its nodes before its ways.                                               *)
FlushedInv ==
    /\ pass \in {"index", "members"} => finished = {}
    /\ /\ pass = "print" /\ "nodes" \in finished /\ cache.disk = "leveldb"
       /\ Before({"node"}, "way")
       => /\ \E j \in DOMAIN file : j < pos /\ file[j].kind = "way"
          /\ \A e \in cache.batch : e.kind # "node"

(* A node whose key is in the store can be located.                         *)
LEMMA KeyLocated ==
  ASSUME \A e \in Elements : "outside" \notin e.tags, cache'.stored \subseteq Elements,
         NEW n, <<"node", n>> \in KeysOf(cache'.stored)
  PROVE  Located(n)
  <1>1. PICK x \in cache'.stored : Key(x) = <<"node", n>>
    BY Zenon DEF KeysOf
  <1>2. "outside" \notin x.tags
    BY <1>1
  <1> QED
    BY <1>1, <1>2, Zenon DEF Located

(* What was asked for can be read when the relations are written.           *)
LEMMA AskedIsStored ==
  ASSUME CacheComplete, pass = "relations", cache' = cache, NEW x \in Elements,
         \/ x.kind = "node" /\ x.id \in WayRefs \cup RelNodes
         \/ x.kind = "way" /\ x.id \in RelWays
  PROVE  Key(x) \in KeysOf(cache'.stored)
  <1>1. Key(x) \in {Key(e) : e \in cache.stored}
    BY DEF CacheComplete
  <1> QED
    BY <1>1 DEF KeysOf

(* The relations kept, and what they refer to, in a file with one version   *)
(* of each element.                                                         *)
LEMMA KeptRelations ==
  ASSUME PosType, SelInv, RetainedInv, MasksClosed, pass = "relations", OneVersion
  PROVE  /\ \A e \in OfKind("relation") :
              e \in relations <=> e.id \in Relations \cup RelRelation
         /\ \A e \in OfKind("relation") : e.id \in Relations <=> Matches(e)
         /\ relations \subseteq OfKind("relation")
         /\ \A e \in relations : /\ Refs(e, "node") \subseteq RelNodes
                                 /\ Refs(e, "way") \subseteq RelWays
                                 /\ Refs(e, "relation") \subseteq RelRelation
  <1>1. DOMAIN file = 1..Len(file) /\ Len(file) \in Nat
    BY FileElements
  <1>2. Retained(Len(file) + 1) /\ Selecting(Len(file) + 1)
    BY DEF RetainedInv, SelInv
  <1>3. ASSUME NEW e \in OfKind("relation")
        PROVE  /\ e \in relations <=> e.id \in Relations \cup RelRelation
               /\ e.id \in Relations <=> Matches(e)
    <2>1. PICK i \in DOMAIN file : file[i] = e
      BY DEF OfKind, Elements, ToSet
    <2>2. i < Len(file) + 1 /\ e.kind = "relation" /\ e \in Elements
      BY <1>1 DEF OfKind
    <2>3. e \in relations <=> e.id \in Relations \cup RelRelation
      BY <1>2, <2>1, <2>2 DEF Retained
    <2>4. e.id \in Relations <=> IsSelected(e)
      BY <1>2, <2>1, <2>2, SelectedIs DEF Later
    <2>5. IsSelected(e) <=> Matches(e)
      BY <2>2 DEF IsSelected, OneVersion
    <2> QED
      BY <2>3, <2>4, <2>5
  <1>4. relations \subseteq OfKind("relation")
    BY <1>2 DEF Retained
  <1>5. \A e \in relations : /\ Refs(e, "node") \subseteq RelNodes
                             /\ Refs(e, "way") \subseteq RelWays
                             /\ Refs(e, "relation") \subseteq RelRelation
    BY <1>3, <1>4 DEF MasksClosed, OfKind
  <1> QED
    BY <1>3, <1>4, <1>5

(* What is below a selected relation, in a file that can be converted: it   *)
(* is the same in the file and among the relations kept, and all of it is   *)
(* needed and kept.                                                         *)
LEMMA KeptBelow ==
  ASSUME PosType, SelInv, RetainedInv, MasksClosed, pass = "relations", Convertible,
         NEW root \in OfKind("relation"), Matches(root)
  PROVE  LET id == root.id
             below == Below(relations, id) IN
         /\ Below(OfKind("relation"), id) = below
         /\ \A e \in OfKind("relation") :
              e.id \in {id} \cup below => e \in relations /\ e \in NeededRelations
         /\ \A i \in {id} \cup below : \E e \in OfKind("relation") : e.id = i
  <1> DEFINE id == root.id
             A == OfKind("relation")
             R == relations
             N == NeededRelations
             below == Below(R, id)
  <1>1. /\ \A e \in A : e \in R <=> e.id \in Relations \cup RelRelation
        /\ \A e \in A : e.id \in Relations <=> Matches(e)
        /\ R \subseteq A
        /\ \A e \in R : Refs(e, "relation") \subseteq RelRelation
    BY KeptRelations, ConvertibleFacts
  <1>2. below \subseteq RelRelation
    BY <1>1, BelowHolds DEF Referred
  <1>3. \A e \in A : e.id \in {id} \cup below => e \in R
    BY <1>1, <1>2
  <1>4. Below(A, id) = below
    BY <1>1, <1>3, BelowSame
  <1>5. \A e \in A : e.id \in {id} \cup below => e \in N
    <2>1. \A e \in A : e.id = id => e = root
      BY ConvertibleFacts DEF OneVersion, OfKind, Key
    <2>2. \A e \in A : e.id \in Below(A, id) => e \in N
      BY DEF NeededRelations
    <2>3. root \in N
      BY DEF NeededRelations
    <2> HIDE DEF A, R, N, below, id
    <2> QED
      BY <1>4, <2>1, <2>2, <2>3
  <1>6. below \subseteq Referred(N, "relation")
    <2> DEFINE S == below \cap Referred(N, "relation")
    <2>1. \A e \in R : e.id \in {id} \cup S => e \in N
      BY <1>1, <1>5
    <2>2. \A e \in N : Refs(e, "relation") \subseteq Referred(N, "relation")
      BY DEF Referred
    <2>3. \A e \in R : e.id \in {id} \cup S => Refs(e, "relation") \subseteq S
      BY <2>1, <2>2, BelowHolds
    <2>4. below \subseteq S
      <3> HIDE DEF S, R, N, id
      <3> QED
        BY <2>3, BelowLeast
    <2> QED
      BY <2>4
  <1>7. \A i \in {id} \cup below : \E e \in A : e.id = i
    <2> SUFFICES ASSUME NEW i \in {id} \cup below  PROVE \E e \in A : e.id = i
      OBVIOUS
    <2>1. CASE i = id
      BY <2>1
    <2>2. CASE i \in below
      <3>1. PICK e \in Elements : Key(e) = <<"relation", i>>
        BY <1>6, <2>2, ConvertibleFacts DEF Present
      <3> QED
        BY <3>1 DEF Key, OfKind
    <2> QED
      BY <2>1, <2>2
  <1> QED
    BY <1>3, <1>4, <1>5, <1>7

(* A way that a needed relation has as a member can be read, with its nodes. *)
LEMMA MemberResolves ==
  ASSUME MasksClosed, CacheComplete, StoreInv, pass = "relations", cache' = cache, Convertible,
         NEW e \in NeededRelations, NEW w \in Refs(e, "way"), w \in RelWays
  PROVE  \E x \in cache'.stored : /\ Key(x) = <<"way", w>> /\ Len(x.refs) >= 2
                                  /\ \A n \in Refs(x, "node") : Located(n)
  <1>1. PICK y \in Elements : Key(y) = <<"way", w>>
    <2>1. w \in Referred(NeededRelations, "way")
      BY DEF Referred
    <2> QED
      BY <2>1, ConvertibleFacts DEF Present
  <1>2. y.kind = "way" /\ y.id = w
    BY <1>1 DEF Key
  <1>3. PICK x \in cache'.stored : Key(x) = <<"way", w>>
    <2>1. Key(y) \in KeysOf(cache'.stored)
      BY <1>2, AskedIsStored
    <2> QED
      BY <1>1, <2>1, Zenon DEF KeysOf
  <1>4. x.kind = "way" /\ x.id = w /\ x \in Elements /\ cache'.stored \subseteq Elements
    BY <1>3 DEF Key, StoreInv
  <1>5. x \in WantedWays
    <2>1. w \in Referred(NeededRelations, "way")
      BY DEF Referred
    <2> QED
      BY <1>4, <2>1 DEF WantedWays, MemberWays, MembersOf, OfKind
  <1>6. ASSUME NEW n \in Refs(x, "node")  PROVE Located(n)
    <2>1. n \in Referred(NeededRelations \cup WantedWays, "node")
      BY <1>5 DEF Referred
    <2>2. PICK z \in Elements : Key(z) = <<"node", n>>
      BY <2>1, ConvertibleFacts DEF Present
    <2>3. n \in RelNodes
      BY <1>4 DEF MasksClosed
    <2>4. z.kind = "node" /\ z.id = n
      BY <2>2 DEF Key
    <2>5. Key(z) \in KeysOf(cache'.stored)
      BY <2>3, <2>4, AskedIsStored
    <2> QED
      BY <1>4, <2>2, <2>5, ConvertibleFacts, KeyLocated
  <1>7. Len(x.refs) >= 2
    BY <1>5, ConvertibleFacts
  <1> QED
    BY <1>3, <1>6, <1>7

(* A node that a needed relation has as a member can be located.            *)
LEMMA MemberLocated ==
  ASSUME CacheComplete, StoreInv, pass = "relations", cache' = cache, Convertible,
         NEW e \in NeededRelations, NEW n \in Refs(e, "node"), n \in RelNodes
  PROVE  Located(n)
  <1>1. n \in Referred(NeededRelations \cup WantedWays, "node")
    BY DEF Referred
  <1>2. PICK z \in Elements : Key(z) = <<"node", n>>
    BY <1>1, ConvertibleFacts DEF Present
  <1>3. z.kind = "node" /\ z.id = n
    BY <1>2 DEF Key
  <1>4. Key(z) \in KeysOf(cache'.stored)
    BY <1>3, AskedIsStored
  <1> QED
    BY <1>2, <1>4, ConvertibleFacts, KeyLocated DEF StoreInv

(* A relation to be written can be built.                                   *)
LEMMA WholeRelationBuilds ==
  ASSUME PosType, SelInv, OutInv, RetainedInv, MasksClosed, CacheComplete, StoreInv,
         pass = "relations", pos <= Len(selected), cache' = cache, Convertible
  PROVE  RelationBuilds(selected[pos]) /\ ~IsArea(selected[pos])
  <1> DEFINE id == selected[pos]
             A == OfKind("relation")
             R == relations
             N == NeededRelations
             below == Below(R, id)
             X == Expansion(id)
             nodeIDs == UNION {Refs(x, "node") : x \in X}
             ways == UNION {Refs(x, "way") : x \in X}
             e == CHOOSE x \in R : x.id = id
             Resolves(w, least) ==
                \E x \in cache'.stored :
                    /\ Key(x) = <<"way", w>> /\ Len(x.refs) >= least
                    /\ \A n \in Refs(x, "node") : Located(n)
  <1>1. PICK root \in A : Matches(root) /\ root.id = id
    <2>1. pos \in 1..Len(selected)
      BY DEF PosType, OutInv
    <2>2. PICK i \in Later : id = file[i].id
      BY <2>1 DEF OutInv, Kept
    <2>3. i \in DOMAIN file /\ file[i].kind = "relation" /\ IsSelected(file[i])
      BY <2>2 DEF Later
    <2>4. file[i] \in A
      BY <2>3 DEF OfKind, Elements, ToSet
    <2>5. Matches(file[i])
      BY <2>3, <2>4, ConvertibleFacts DEF IsSelected, OneVersion, OfKind
    <2> QED
      BY <2>2, <2>4, <2>5
  <1>2. /\ Below(A, id) = below
        /\ \A x \in A : x.id \in {id} \cup below => x \in R /\ x \in N
        /\ \A i \in {id} \cup below : \E x \in A : x.id = i
    BY <1>1, KeptBelow
  <1>3. /\ R \subseteq A
        /\ \A x \in R : Refs(x, "node") \subseteq RelNodes /\ Refs(x, "way") \subseteq RelWays
    BY KeptRelations, ConvertibleFacts
  <1>4. \A x \in N : /\ "area" \notin x.tags /\ x.id \notin Below(A, x.id)
                     /\ Refs(x, "unknown") = {}
                     /\ \E y \in A : /\ y.id \in {x.id} \cup Below(A, x.id)
                                     /\ Refs(y, "node") \cup Refs(y, "way") # {}
    BY ConvertibleFacts
  <1>5. X = {x \in R : x.id \in {id} \cup below}
    BY DEF Expansion
  <1>6. Expands(id)
    <2> SUFFICES ASSUME NEW i \in {id} \cup below
                 PROVE  /\ i \notin Below(R, i)
                        /\ \E x \in R : x.id = i /\ Refs(x, "unknown") = {}
      BY DEF Expands
    <2>1. PICK x \in A : x.id = i /\ x \in R /\ x \in N
      BY <1>2
    <2>2. Below(R, i) \subseteq Below(A, i)
      BY <1>3, BelowGrows
    <2> QED
      BY <1>4, <2>1, <2>2
  <1>7. \A x \in X : x \in R /\ x \in N
    BY <1>2, <1>3, <1>5
  <1>8. \A n \in nodeIDs : Located(n)
    BY <1>3, <1>7, MemberLocated
  <1>9. \A w \in ways : Resolves(w, 2)
    BY <1>3, <1>7, MemberResolves
  <1>10. e \in R /\ e.id = id
    BY <1>1, <1>2
  <1>11. "area" \notin e.tags
    BY <1>2, <1>3, <1>4, <1>10
  <1>12. ways \cup nodeIDs # {}
    <2>1. root \in N
      BY <1>1, <1>2
    <2>2. PICK y \in A : y.id \in {id} \cup below /\ Refs(y, "node") \cup Refs(y, "way") # {}
      BY <1>1, <1>2, <1>4, <2>1
    <2>3. y \in X
      BY <1>2, <1>5, <2>2
    <2> QED
      BY <2>2, <2>3
  <1>13. RelationBuilds(id)
    BY <1>6, <1>8, <1>9, <1>11, <1>12, Zenon DEF RelationBuilds
  <1>14. ~IsArea(id)
    BY <1>2, <1>3, <1>4 DEF IsArea
  <1> QED
    BY <1>13, <1>14

(* After a way is decoded the store has the keys of the nodes passed, and   *)
(* no node is left in the batch, if the nodes come before the ways.         *)
LEMMA WayFlush ==
  ASSUME PosType, CacheInv, StoreInv, FlushedInv, PrintWay
  PROVE  /\ cache'.stored \cup cache'.batch \subseteq Elements /\ cache'.disk = cache.disk
         /\ /\ cache'.status # "failed"
            /\ cache.disk = "leveldb" => Before({"node"}, "way")
            => /\ \A x \in cache'.batch : x.kind # "node"
               /\ \A n : <<"node", n>> \in AskedBefore(pos) =>
                           <<"node", n>> \in KeysOf(cache'.stored)
  <1> DEFINE e == file[pos]
  <1>1. /\ pass = "print" /\ pos \in DOMAIN file /\ e.kind = "way"
    BY FileElements DEF PrintWay, Decoding, PosType
  <1>2. PICK first \in WriteOutcomes, second \in WriteOutcomes :
          LET flushed == FlushOnce("nodes", first) IN
          cache' = IF flushed.status = "ok" /\ e.id \in RelWays
                   THEN CachePut(flushed, e, second) ELSE flushed
    BY DEF PrintWay
  <1> DEFINE f == FlushOnce("nodes", first)
  <1>3. /\ cache.status = "ok" /\ Keys(cache) = AskedBefore(pos) /\ e \in Element
        /\ cache \in Cache /\ Batched(cache) /\ Possible(cache, first) /\ e \in Elements
    BY <1>1, <1>2, FileElements, WritesPossible DEF CacheInv, Elements, ToSet
  <1>4. /\ f \in Cache /\ f.disk = cache.disk /\ Batched(f) /\ Keys(f) = AskedBefore(pos)
    BY <1>3, FlushOnceKeeps
  <1>5. /\ f.stored \cup f.batch \subseteq Elements
        /\ "nodes" \notin finished /\ f.status = "ok" => f.batch = {}
        /\ "nodes" \in finished => f.batch = cache.batch
    <2>1. CASE "nodes" \in finished
      BY <2>1 DEF FlushOnce, StoreInv
    <2>2. CASE "nodes" \notin finished
      <3>1. f = Flush(cache, first)
        BY <2>2 DEF FlushOnce
      <3> HIDE DEF f
      <3>2. f.stored \cup f.batch \subseteq cache.stored \cup cache.batch
        BY <1>3, <3>1, FlushStores
      <3>3. f.status = "ok" => f.batch = {}
        BY <1>3, <3>1, FlushKeeps
      <3> QED
        BY <2>2, <3>2, <3>3 DEF StoreInv
    <2> QED
      BY <2>1, <2>2
  <1> HIDE DEF f
  <1>6. \/ cache' = f /\ f.status = "failed"
        \/ cache' = f /\ f.status = "ok"
        \/ cache' = CachePut(f, e, second) /\ f.status = "ok"
    BY <1>2, <1>4 DEF Cache, f
  <1>7. /\ cache'.stored \cup cache'.batch \subseteq f.stored \cup f.batch \cup {e}
        /\ KeysOf(f.stored) \subseteq KeysOf(cache'.stored)
        /\ cache'.batch \subseteq f.batch \cup {e}
        /\ cache'.disk = f.disk
    <2>1. CASE cache' = f
      BY <2>1
    <2>2. CASE cache' = CachePut(f, e, second) /\ f.status = "ok"
      <3>1. Possible(f, second)
        BY <1>2, <1>4 DEF WriteOutcomes, Possible
      <3>2. cache'.disk = f.disk
        BY <1>3, <1>4, <2>2, <3>1, CachePutKeeps
      <3>3. /\ cache'.stored \cup cache'.batch \subseteq f.stored \cup f.batch \cup {e}
            /\ KeysOf(f.stored) \subseteq KeysOf(cache'.stored)
            /\ cache'.batch \subseteq f.batch \cup {e}
        BY <1>3, <1>4, <2>2, CachePutStores
      <3> QED
        BY <3>2, <3>3
    <2> QED
      BY <1>6, <2>1, <2>2
  <1>8. ASSUME cache'.status # "failed", cache.disk = "leveldb" => Before({"node"}, "way")
        PROVE  \A x \in f.batch : x.kind # "node"
    <2>1. f.status = "ok"
      BY <1>6, <1>8
    <2>2. CASE "nodes" \notin finished
      BY <1>5, <2>1, <2>2
    <2>3. CASE "nodes" \in finished /\ cache.disk = "leveldb"
      BY <1>1, <1>5, <1>8, <2>3 DEF FlushedInv
    <2>4. CASE "nodes" \in finished /\ cache.disk = "memory"
      BY <1>3, <1>5, <2>4 DEF Batched
    <2> QED
      BY <1>3, <2>2, <2>3, <2>4 DEF Cache
  <1>9. ASSUME \A x \in f.batch : x.kind # "node", NEW n, <<"node", n>> \in AskedBefore(pos)
        PROVE  <<"node", n>> \in KeysOf(cache'.stored)
    <2>1. <<"node", n>> \notin KeysOf(f.batch)
      BY <1>9 DEF KeysOf, Key
    <2> QED
      BY <1>4, <1>7, <1>9, <2>1 DEF Keys
  <1> QED
    BY <1>1, <1>3, <1>4, <1>5, <1>7, <1>8, <1>9

(* A way to be written can be built.                                        *)
LEMMA WholeWayBuilds ==
  ASSUME PosType, SelInv, MasksClosed, CacheInv, StoreInv, FlushedInv, PrintWay, Convertible,
         file[pos].id \in Ways, cache'.status # "failed"
  PROVE  WayBuilds(file[pos])
  <1> DEFINE e == file[pos]
  <1>1. /\ pass = "print" /\ pos \in DOMAIN file /\ e.kind = "way" /\ e \in Elements
    BY FileElements DEF PrintWay, Decoding, PosType, Elements, ToSet
  <1>2. Matches(e) /\ e \in WantedWays
    <2>1. pos \in Direct
      BY <1>1, SelectedIs DEF SelInv
    <2>2. Matches(e)
      BY <1>1, <2>1, ConvertibleFacts DEF Direct, IsSelected, OneVersion
    <2> QED
      BY <1>1, <2>2 DEF WantedWays, OfKind
  <1>3. ASSUME NEW n \in Refs(e, "node")  PROVE Located(n)
    <2>1. n \in WayRefs
      BY <1>1, <1>2 DEF MasksClosed
    <2>2. PICK z \in Elements : Key(z) = <<"node", n>>
      <3>1. n \in Referred(NeededRelations \cup WantedWays, "node")
        BY <1>2 DEF Referred
      <3> QED
        BY <3>1, ConvertibleFacts DEF Present
    <2>3. PICK j \in DOMAIN file : file[j] = z
      BY DEF Elements, ToSet
    <2>4. file[j].kind = "node" /\ file[j].id = n
      BY <2>2, <2>3 DEF Key
    <2>5. j < pos
      BY <1>1, <2>4, ConvertibleFacts DEF Ordered, Before
    <2>6. <<"node", n>> \in AskedBefore(pos)
      BY <2>1, <2>2, <2>3, <2>4, <2>5 DEF AskedBefore, Asked
    <2>7. cache.disk = "leveldb" => Before({"node"}, "way")
      BY ConvertibleFacts DEF Ordered
    <2>8. <<"node", n>> \in KeysOf(cache'.stored) /\ cache'.stored \subseteq Elements
      BY <2>6, <2>7, WayFlush
    <2> QED
      BY <2>8, ConvertibleFacts, KeyLocated
  <1>4. Len(e.refs) >= 2
    BY <1>2, ConvertibleFacts
  <1> QED
    BY <1>3, <1>4 DEF WayBuilds

(* What is said of the file and of where the cache is.                      *)
LEMMA FileStays ==
  ASSUME file' = file
  PROVE  /\ Elements' = Elements /\ (OneVersion' <=> OneVersion)
         /\ OfKind("relation")' = OfKind("relation")
         /\ Before({"node"}, "way")' <=> Before({"node"}, "way")
         /\ cache'.disk = cache.disk => (Convertible' <=> Convertible)
  <1>1. Elements' = Elements /\ (\A kind : OfKind(kind)' = OfKind(kind))
    BY DEF Elements, OfKind
  <1>2. OneVersion' <=> OneVersion
    BY <1>1 DEF OneVersion, Key
  <1>3. \A kinds, kind : Before(kinds, kind)' <=> Before(kinds, kind)
    BY DEF Before
  <1>4. ASSUME cache'.disk = cache.disk  PROVE Convertible' <=> Convertible
    BY <1>1, <1>3, <1>4 DEF Convertible, Ordered, Before, MemberWays, MembersOf, NeededRelations,
       Below, Referred, Refs, Matches, Key, Elements, OfKind
  <1> QED
    BY <1>1, <1>2, <1>3, <1>4

(* What is in the cache and what relations are kept, and that a feature     *)
(* that cannot be built is not of a file that can be converted.             *)
WholeInv == StoreInv /\ RetainedInv /\ FlushedInv /\ (err = "build" => ~Convertible)

(* The passes that mark.                                                    *)
LEMMA MarkingWhole ==
  ASSUME PosType, WholeInv, Index \/ IndexEnd \/ IndexMembers \/ MembersEnd
  PROVE  WholeInv'
  <1>1. /\ UNCHANGED <<file, cache, relations, finished, err>> /\ pass \in {"index", "members"}
        /\ \/ pass' \in {"index", "members"}
           \/ pass' = "print" /\ pos' = 1
    <2>1. CASE Index
      BY <2>1 DEF Index, printed
    <2>2. CASE IndexMembers
      BY <2>2 DEF IndexMembers, printed
    <2>3. CASE IndexEnd \/ MembersEnd
      BY <2>3 DEF IndexEnd, MembersEnd, BeginPrint, BeginMembers, printed
    <2> QED
      BY <2>1, <2>2, <2>3
  <1>2. StoreInv' /\ (err = "build" => ~Convertible)'
    BY <1>1, FileStays DEF WholeInv, StoreInv
  <1>3. relations' = {} /\ finished' = {}
    BY <1>1 DEF WholeInv, RetainedInv, FlushedInv
  <1>4. FlushedInv'
    BY <1>1, <1>3 DEF FlushedInv
  <1>5. \A i \in DOMAIN file : ~(i < 1)
    BY FileElements
  <1>6. RetainedInv'
    BY <1>1, <1>3, <1>5 DEF RetainedInv, Retained
  <1> QED
    BY <1>2, <1>4, <1>6 DEF WholeInv

(* The relations kept when an element that is none goes by.                 *)
LEMMA RetainedStays ==
  ASSUME PosType, pos <= Len(file), Retained(pos), file[pos].kind # "relation",
         UNCHANGED <<file, relations, Relations, RelRelation>>, pos' = pos + 1
  PROVE  Retained(pos)'
  <1>1. \A i \in DOMAIN file : i < pos' => i < pos \/ i = pos
    BY FileElements DEF PosType
  <1> QED
    BY <1>1, FileStays DEF Retained

(* A node.                                                                  *)
LEMMA PrintNodeWhole ==
  ASSUME PosType, CacheInv, WholeInv, PrintNode
  PROVE  WholeInv'
  <1> DEFINE e == file[pos]
  <1>1. /\ pass = "print" /\ pos \in DOMAIN file /\ pos <= Len(file) /\ e.kind = "node"
        /\ e \in Elements /\ e \in Element
        /\ UNCHANGED <<file, selMasks, relMasks, finished, relations>>
    BY FileElements DEF PrintNode, Decoding, PosType, Elements, ToSet
  <1>2. PICK write \in WriteOutcomes :
          cache' = IF e.id \in WayRefs \cup RelNodes THEN CachePut(cache, e, write) ELSE cache
    BY DEF PrintNode
  <1>3. /\ cache \in Cache /\ Batched(cache) /\ cache.status = "ok" /\ Possible(cache, write)
    BY <1>1, <1>2, WritesPossible DEF CacheInv
  <1>4. cache'.stored \cup cache'.batch \subseteq Elements /\ cache'.disk = cache.disk
    <2>1. CASE cache' = cache
      BY <2>1 DEF WholeInv, StoreInv
    <2>2. CASE cache' = CachePut(cache, e, write)
      <3>1. cache'.stored \cup cache'.batch \subseteq cache.stored \cup cache.batch \cup {e}
        BY <1>1, <1>3, <2>2, CachePutStores
      <3>2. cache'.disk = cache.disk
        BY <1>1, <1>3, <2>2, CachePutKeeps
      <3> QED
        BY <1>1, <3>1, <3>2 DEF WholeInv, StoreInv
    <2> QED
      BY <1>2, <2>1, <2>2
  <1>5. StoreInv'
    BY <1>1, <1>4, FileStays DEF StoreInv
  <1>6. /\ pass' = "close" \/ (pass' = "print" /\ pos' = pos + 1)
        /\ err' = "build" => err = "build" \/ "outside" \in e.tags
    BY <1>1 DEF PrintNode, Stop, Skip, Write
  <1>7. err' = "build" => ~Convertible'
    BY <1>1, <1>4, <1>6, FileStays, ConvertibleFacts DEF WholeInv
  <1>8. RetainedInv'
    <2>1. Retained(pos)
      BY <1>1 DEF WholeInv, RetainedInv
    <2>2. pass' = "print" => Retained(pos)'
      BY <1>1, <1>6, <2>1, RetainedStays DEF selMasks, relMasks
    <2> QED
      BY <1>6, <2>2 DEF RetainedInv
  <1>9. FlushedInv'
    <2>1. ~("nodes" \in finished /\ cache.disk = "leveldb" /\ Before({"node"}, "way"))
      <3>1. ASSUME Before({"node"}, "way"), NEW j \in DOMAIN file, file[j].kind = "way"
            PROVE  pos < j /\ j \in Nat
        BY <1>1, <3>1, FileElements DEF Before
      <3> QED
        BY <1>1, <3>1 DEF WholeInv, FlushedInv, PosType
    <2> QED
      BY <1>1, <1>4, <1>6, <2>1, FileStays DEF FlushedInv
  <1> QED
    BY <1>5, <1>7, <1>8, <1>9 DEF WholeInv

(* A way.                                                                   *)
LEMMA PrintWayWhole ==
  ASSUME PosType, SelInv, MasksClosed, CacheInv, WholeInv, PrintWay
  PROVE  WholeInv'
  <1> DEFINE e == file[pos]
  <1>1. /\ pass = "print" /\ pos \in DOMAIN file /\ pos <= Len(file) /\ e.kind = "way"
        /\ UNCHANGED <<file, selMasks, relMasks, relations>>
        /\ finished' = finished \cup {"nodes"}
    BY FileElements DEF PrintWay, Decoding, PosType
  <1>2. /\ cache'.stored \cup cache'.batch \subseteq Elements /\ cache'.disk = cache.disk
        /\ cache'.status # "failed" /\ Before({"node"}, "way") =>
             \A x \in cache'.batch : x.kind # "node"
    BY WayFlush DEF WholeInv
  <1>3. /\ pass' = "close" \/ (pass' = "print" /\ pos' = pos + 1 /\ cache'.status # "failed")
        /\ err' = "build" => \/ err = "build"
                             \/ cache'.status # "failed" /\ e.id \in Ways /\ ~WayBuilds(e)
    BY <1>1 DEF PrintWay, Stop, Skip, Write
  <1>4. StoreInv'
    BY <1>1, <1>2, FileStays DEF StoreInv
  <1>5. err' = "build" => ~Convertible'
    BY <1>1, <1>2, <1>3, FileStays, WholeWayBuilds DEF WholeInv
  <1>6. RetainedInv'
    <2>1. Retained(pos)
      BY <1>1 DEF WholeInv, RetainedInv
    <2>2. pass' = "print" => Retained(pos)'
      BY <1>1, <1>3, <2>1, RetainedStays DEF selMasks, relMasks
    <2> QED
      BY <1>3, <2>2 DEF RetainedInv
  <1>7. FlushedInv'
    <2>1. CASE pass' = "close"
      BY <2>1 DEF FlushedInv
    <2>2. CASE pass' = "print" /\ pos' = pos + 1 /\ cache'.status # "failed"
      <3>1. pos < pos' /\ file'[pos].kind = "way" /\ pos \in DOMAIN file'
        BY <1>1, <2>2 DEF PosType
      <3>2. Before({"node"}, "way")' => \A x \in cache'.batch : x.kind # "node"
        BY <1>1, <1>2, <2>2, FileStays
      <3> QED
        BY <2>2, <3>1, <3>2 DEF FlushedInv
    <2> QED
      BY <1>3, <2>1, <2>2
  <1> QED
    BY <1>4, <1>5, <1>6, <1>7 DEF WholeInv

(* A flush of the cache, in a step that is about something else.            *)
LEMMA FlushWhole ==
  ASSUME CacheInv, StoreInv, cache.status = "ok", NEW kind, NEW write \in WriteOutcomes,
         NEW d, d = FlushOnce(kind, write) \/ d = Flush(cache, write)
  PROVE  /\ d.stored \cup d.batch \subseteq Elements /\ d.disk = cache.disk
         /\ d.batch \subseteq cache.batch
  <1>1. cache \in Cache /\ Batched(cache) /\ Possible(cache, write)
    BY WritesPossible DEF CacheInv
  <1>2. CASE d = cache
    BY <1>2 DEF StoreInv
  <1>3. CASE d = Flush(cache, write)
    <2>1. d.stored \cup d.batch \subseteq cache.stored \cup cache.batch /\ d.batch \subseteq cache.batch
      BY <1>1, <1>3, FlushStores
    <2>2. d.disk = cache.disk
      BY <1>1, <1>3, FlushKeeps
    <2> QED
      BY <2>1, <2>2 DEF StoreInv
  <1> QED
    BY <1>2, <1>3 DEF FlushOnce

(* A relation.                                                              *)
LEMMA PrintRelationWhole ==
  ASSUME PosType, CacheInv, WholeInv, PrintRelation
  PROVE  WholeInv'
  <1> DEFINE e == file[pos]
             k == pos + 1
  <1>1. /\ pass = "print" /\ pos \in DOMAIN file /\ pos <= Len(file) /\ e.kind = "relation"
        /\ e \in Elements /\ UNCHANGED <<file, selMasks, relMasks>>
        /\ finished' = finished \cup {"ways"}
    BY FileElements DEF PrintRelation, Decoding, PosType, Elements, ToSet
  <1>2. PICK write \in WriteOutcomes : cache' = FlushOnce("ways", write)
    BY DEF PrintRelation
  <1>3. /\ cache'.stored \cup cache'.batch \subseteq Elements /\ cache'.disk = cache.disk
        /\ cache'.batch \subseteq cache.batch
    BY <1>1, <1>2, FlushWhole DEF CacheInv, WholeInv
  <1>4. /\ \/ pass' = "close"
           \/ /\ pass' = "print" /\ pos' = k
              /\ relations' = IF e.id \in Relations \cup RelRelation
                              THEN Put(relations, e) ELSE relations
        /\ err' = "build" => err = "build"
    BY <1>1 DEF PrintRelation, Stop, Skip
  <1>5. StoreInv'
    BY <1>1, <1>3, FileStays DEF StoreInv
  <1>6. err' = "build" => ~Convertible'
    BY <1>1, <1>3, <1>4, FileStays DEF WholeInv
  <1>7. FlushedInv'
    <2>1. CASE pass' = "close"
      BY <2>1 DEF FlushedInv
    <2>2. CASE pass' = "print" /\ pos' = k
      <3>1. \A j \in DOMAIN file : j < pos => j < pos'
        BY <2>2, FileElements DEF PosType
      <3> QED
        BY <1>1, <1>3, <2>2, <3>1, FileStays DEF FlushedInv, WholeInv
    <2> QED
      BY <1>4, <2>1, <2>2
  <1>8. RetainedInv'
    <2>1. CASE pass' = "close"
      BY <2>1 DEF RetainedInv
    <2>2. CASE pass' # "close"
      <3>1. Retained(pos)
        BY <1>1 DEF WholeInv, RetainedInv
      <3>2. \A i \in DOMAIN file : i < k => i < pos \/ i = pos
        BY FileElements DEF PosType
      <3>3. e \in OfKind("relation") /\ UNCHANGED <<Relations, RelRelation>>
        BY <1>1 DEF OfKind, selMasks, relMasks
      <3>4. /\ relations' \subseteq relations \cup {e}
            /\ e.id \notin Relations \cup RelRelation => relations' = relations
            /\ e.id \in Relations \cup RelRelation => e \in relations'
            /\ \A x \in relations : Key(x) # Key(e) => x \in relations'
        BY <1>4, <2>2 DEF Put
      <3>5. OneVersion => \A x \in relations : x \in relations'
        BY <1>1, <3>1, <3>4 DEF OneVersion, Retained, OfKind
      <3>6. Retained(pos)'
        <4>1. pos' = k
          BY <1>4, <2>2
        <4> HIDE DEF k
        <4> QED
          BY <1>1, <3>1, <3>2, <3>3, <3>4, <3>5, <4>1, FileStays DEF Retained
      <3> QED
        BY <1>4, <2>2, <3>6 DEF RetainedInv
    <2> QED
      BY <2>1, <2>2
  <1> QED
    BY <1>5, <1>6, <1>7, <1>8 DEF WholeInv

(* The end of the printing pass.                                            *)
LEMMA PrintEndWhole ==
  ASSUME PosType, CacheInv, WholeInv, PrintEnd
  PROVE  WholeInv'
  <1>1. /\ pass = "print" /\ pos > Len(file)
        /\ UNCHANGED <<file, selMasks, relMasks, relations>>
        /\ pass' \in {"close", "relations"} /\ (err' = "build" => err = "build")
    BY DEF PrintEnd, Stop
  <1>2. PICK write \in WriteOutcomes : cache' = Flush(cache, write)
    BY DEF PrintEnd
  <1>3. cache'.stored \cup cache'.batch \subseteq Elements /\ cache'.disk = cache.disk
    BY <1>1, <1>2, FlushWhole DEF CacheInv, WholeInv
  <1>4. StoreInv' /\ FlushedInv'
    BY <1>1, <1>3, FileStays DEF StoreInv, FlushedInv
  <1>5. err' = "build" => ~Convertible'
    BY <1>1, <1>3, FileStays DEF WholeInv
  <1>6. RetainedInv'
    <2>1. \A i \in DOMAIN file : i < pos
      BY <1>1, FileElements DEF PosType
    <2>2. Retained(Len(file) + 1)
      BY <1>1, <2>1 DEF WholeInv, RetainedInv, Retained
    <2> DEFINE k == Len(file) + 1
    <2>3. k' = k
      BY <1>1
    <2> HIDE DEF k
    <2>4. Retained(k)' <=> Retained(k)
      BY <1>1, <2>3, FileStays DEF Retained, selMasks, relMasks
    <2> QED
      BY <1>1, <2>2, <2>4 DEF RetainedInv, k
  <1> QED
    BY <1>4, <1>5, <1>6 DEF WholeInv

(* The other steps: a feature that cannot be built is the only one that     *)
(* matters.                                                                 *)
LEMMA OtherWhole ==
  ASSUME PosType, SelInv, OutInv, MasksClosed, CacheComplete, CacheInv, WholeInv,
         \/ PrintFeature \/ FeaturesEnd \/ DecodeFails \/ CloseWriter \/ CloseCache
         \/ Returned \/ UNCHANGED vars
  PROVE  WholeInv'
  <1>1. /\ UNCHANGED <<file, selMasks, relMasks, relations, finished>>
        /\ \/ pass' = pass /\ (pass = "print" => pos' = pos) /\ cache' = cache
           \/ pass' \in {"close", "release", "done"}
        /\ cache' = cache \/ CloseCache
    <2>1. CASE PrintFeature
      BY <2>1 DEF PrintFeature, Stop, Write
    <2>2. CASE CloseCache
      BY <2>2 DEF CloseCache
    <2>3. CASE FeaturesEnd \/ DecodeFails \/ CloseWriter \/ Returned \/ UNCHANGED vars
      BY <2>3 DEF FeaturesEnd, DecodeFails, CloseWriter, Returned, vars, input, printed
    <2> QED
      BY <2>1, <2>2, <2>3
  <1>2. cache'.stored \cup cache'.batch \subseteq Elements /\ cache'.disk = cache.disk
    <2>1. CASE cache' = cache
      BY <2>1 DEF WholeInv, StoreInv
    <2>2. CASE CloseCache
      <3>1. PICK write \in WriteOutcomes : cache' = Flush(cache, write)
        BY <2>2 DEF CloseCache
      <3>2. cache \in Cache /\ Batched(cache) /\ Possible(cache, write)
        BY WritesPossible DEF CacheInv
      <3>3. cache'.stored \cup cache'.batch \subseteq cache.stored \cup cache.batch
        BY <3>1, <3>2, FlushStores
      <3>4. cache'.disk = cache.disk
        BY <3>1, <3>2, FlushKeeps
      <3> QED
        BY <3>3, <3>4 DEF WholeInv, StoreInv
    <2> QED
      BY <1>1, <2>1, <2>2
  <1>3. StoreInv'
    BY <1>1, <1>2, FileStays DEF StoreInv
  <1>4. err' = "build" => ~Convertible'
    <2>1. CASE PrintFeature
      <3>1. /\ pass = "relations" /\ pos <= Len(selected) /\ cache' = cache
            /\ err' = "build" => err = "build" \/ (RelationBuilds(selected[pos]) => IsArea(selected[pos]))
        BY <2>1 DEF PrintFeature, Stop, Write
      <3> QED
        BY <1>1, <1>2, <3>1, FileStays, WholeRelationBuilds DEF WholeInv
    <2>2. CASE ~PrintFeature
      <3>1. err' = "build" => err = "build"
        BY <2>2 DEF FeaturesEnd, DecodeFails, CloseWriter, CloseCache, Returned, vars, First
      <3> QED
        BY <1>1, <1>2, <3>1, FileStays DEF WholeInv
    <2> QED
      BY <2>1, <2>2
  <1>5. RetainedInv'
    <2> DEFINE k == Len(file) + 1
    <2>1. k' = k
      BY <1>1
    <2> HIDE DEF k
    <2>2. Retained(k)' <=> Retained(k)
      BY <1>1, <2>1, FileStays DEF Retained, selMasks, relMasks
    <2>3. pos' = pos => (Retained(pos)' <=> Retained(pos))
      BY <1>1, FileStays DEF Retained, selMasks, relMasks
    <2>4. CASE pass' \in {"close", "release", "done"}
      BY <2>4 DEF RetainedInv
    <2>5. CASE pass' = pass /\ (pass = "print" => pos' = pos)
      BY <1>1, <2>2, <2>3, <2>5 DEF RetainedInv, WholeInv, k
    <2> QED
      BY <1>1, <2>4, <2>5
  <1>6. FlushedInv'
    BY <1>1, FileStays DEF FlushedInv, WholeInv
  <1> QED
    BY <1>3, <1>4, <1>5, <1>6 DEF WholeInv

(* A file that is complete and ordered, with one version of each element,   *)
(* never fails to build a feature, however its relations are nested, with   *)
(* either cache and whatever the size of the batch (print, its two flushes, *)
(* indexRelationMembers, newRelationFeature).                               *)
THEOREM CompleteFilesConvertCorrect == Spec => []CompleteFilesConvert
  <1>1. Init => WholeInv
    <2>1. ASSUME Init  PROVE /\ pass = "index" /\ err = "nil" /\ relations = {} /\ finished = {}
                             /\ cache.stored = {} /\ cache.batch = {}
      BY <2>1 DEF Init, EmptyCache
    <2> QED
      BY <2>1 DEF WholeInv, StoreInv, RetainedInv, FlushedInv
  <1>2. ASSUME PosType, SelInv, OutInv, MasksClosed, CacheComplete, CacheInv, WholeInv, [Next]_vars
        PROVE  WholeInv'
    BY <1>2, MarkingWhole, PrintNodeWhole, PrintWayWhole, PrintRelationWhole, PrintEndWhole,
       OtherWhole DEF Next
  <1>3. WholeInv => CompleteFilesConvert
    BY DEF WholeInv, CompleteFilesConvert
  <1>4. MInv => PosType
    BY DEF MInv
  <1> QED
    BY <1>1, <1>2, <1>3, <1>4, MaskInvariance, OutputInvariance, MasksClosedCorrect,
       CacheCompleteCorrect, CacheInvariance, PTL DEF Spec

-----------------------------------------------------------------------------
(* The rings of area relations (RingStitching and PolygonAssembly). *)

(* No index is below the first.                                             *)
LEMMA NoIndex == 1..0 = {}
  OBVIOUS

(* Induction up to a bound, with a set in place of a predicate: the         *)
(* well-founded relation is that between the sets of what is above a        *)
(* number.                                                                  *)
LEMMA UpTo ==
  ASSUME NEW n \in Nat, NEW D, 0 \in D, \A k \in 0..n - 1 : k \in D => k + 1 \in D
  PROVE  \A k \in 0..n : k \in D
  <1> DEFINE Above(j) == {k \in 0..n : j <= k}
             R == StrictSubsetOrdering(0..n)
             F == FiniteSubsetsOf(0..n)
             T == {Above(j) : j \in {k \in 0..n : \A i \in 0..k : i \in D}}
  <1>1. IsFiniteSet(0..n)
    BY FS_Interval
  <1>2. F = SUBSET (0..n)
    BY <1>1, FS_FiniteSubsetsOfFinite
  <1>3. IsWellFoundedOn(R, F)
    BY FS_StrictSubsetOrderingWellFounded
  <1>4. Above(0) \in T
    OBVIOUS
  <1>5. T \subseteq F
    BY <1>2
  <1>6. PICK x \in T : \A y \in T : ~(<<y, x>> \in R)
    BY <1>3, <1>4, <1>5, WFMin
  <1>7. PICK j \in 0..n : x = Above(j) /\ \A i \in 0..j : i \in D
    BY <1>6
  <1>8. j = n
    <2> SUFFICES ASSUME j # n  PROVE FALSE
      OBVIOUS
    <2>1. j + 1 \in 0..n /\ j \in 0..n-1
      OBVIOUS
    <2>2. \A i \in 0..j + 1 : i \in D
      BY <1>7, <2>1
    <2>3. Above(j + 1) \in T
      BY <2>1, <2>2
    <2>4. Above(j + 1) \subseteq x /\ Above(j + 1) # x
      BY <1>7, <2>1
    <2>5. <<Above(j + 1), x>> \in R
      BY <2>3, <2>4, <1>2, <1>5, <1>6 DEF StrictSubsetOrdering
    <2> QED
      BY <1>6, <2>3, <2>5
  <1> QED
    BY <1>7, <1>8

(* The function FlattenSeq takes its value from.                            *)
IsFlat(f, ss, n) == f = [i \in 1..n |-> IF i = 1 THEN ss[i] ELSE f[i - 1] \o ss[i]]

(* What such a function has at an index.                                    *)
LEMMA FlatAt ==
  ASSUME NEW ss, NEW n, NEW f, IsFlat(f, ss, n), NEW i \in 1..n
  PROVE  f[i] = IF i = 1 THEN ss[i] ELSE f[i - 1] \o ss[i]
  BY DEF IsFlat

(* There is such a function.                                                *)
LEMMA FlatExists ==
  ASSUME NEW ss, NEW n \in Nat
  PROVE  \E f : IsFlat(f, ss, n)
  <1> DEFINE D == {k \in 0..n : \E f : IsFlat(f, ss, k)}
  <1>1. 0 \in D
    <2>1. IsFlat([i \in 1..0 |-> ss[i]], ss, 0)
      BY DEF IsFlat
    <2> QED
      BY <2>1
  <1>2. ASSUME NEW k \in 0..n - 1, k \in D  PROVE k + 1 \in D
    <2>1. PICK f : IsFlat(f, ss, k)
      BY <1>2
    <2> DEFINE g == [i \in 1..k + 1 |-> IF i = 1 THEN ss[i] ELSE f[i - 1] \o ss[i]]
    <2>2. \A i \in 1..k : g[i] = f[i]
      <3>1. \A i \in 1..k : f[i] = IF i = 1 THEN ss[i] ELSE f[i - 1] \o ss[i]
        BY <2>1 DEF IsFlat
      <3>2. \A i \in 1..k : i \in 1..k + 1
        OBVIOUS
      <3> QED
        BY <3>1, <3>2
    <2>3. \A i \in 1..k + 1 : i # 1 => i - 1 \in 1..k
      OBVIOUS
    <2>4. g = [i \in 1..k + 1 |-> IF i = 1 THEN ss[i] ELSE g[i - 1] \o ss[i]]
      BY <2>2, <2>3
    <2> HIDE DEF g
    <2>5. IsFlat(g, ss, k + 1)
      BY <2>4 DEF IsFlat
    <2>6. k + 1 \in 0..n
      OBVIOUS
    <2> QED
      BY <2>5, <2>6
  <1> HIDE DEF D
  <1>3. n \in D
    BY <1>1, <1>2, UpTo
  <1> QED
    BY <1>3 DEF D

(* What FlattenSeq is, without a choice.                                    *)
LEMMA FlattenIs ==
  ASSUME NEW ss, Len(ss) \in Nat, Len(ss) # 0
  PROVE  \E f : IsFlat(f, ss, Len(ss)) /\ FlattenSeq(ss) = f[Len(ss)]
  <1> DEFINE f == CHOOSE f : f = [i \in 1..Len(ss) |-> IF i = 1 THEN ss[i] ELSE f[i - 1] \o ss[i]]
  <1>1. \E g : g = [i \in 1..Len(ss) |-> IF i = 1 THEN ss[i] ELSE g[i - 1] \o ss[i]]
    BY FlatExists DEF IsFlat
  <1>2. IsFlat(f, ss, Len(ss))
    BY <1>1 DEF IsFlat
  <1>3. FlattenSeq(ss) = f[Len(ss)]
    BY DEF FlattenSeq
  <1> QED
    BY <1>2, <1>3

(* All of it is a sequence.                                                 *)
LEMMA FlattenType ==
  ASSUME NEW S, NEW n \in Nat, NEW ss, ss = [i \in 1..n |-> ss[i]], Len(ss) = n,
         \A i \in 1..n : ss[i] \in Seq(S)
  PROVE  FlattenSeq(ss) \in Seq(S)
  <1>1. CASE n = 0
    <2>1. ss = <<>>
      BY <1>1, SMT
    <2> QED
      BY <2>1 DEF FlattenSeq
  <1>2. CASE n # 0
    <2>1. PICK f : IsFlat(f, ss, n) /\ FlattenSeq(ss) = f[n]
      BY <1>2, FlattenIs
    <2> DEFINE D == {k \in 0..n : k = 0 \/ f[k] \in Seq(S)}
    <2>2. 0 \in D
      OBVIOUS
    <2>3. ASSUME NEW k \in 0..n - 1, k \in D  PROVE k + 1 \in D
      <3>1. k + 1 \in 1..n /\ (k + 1) - 1 = k
        OBVIOUS
      <3>2. f[k + 1] = IF k + 1 = 1 THEN ss[k + 1] ELSE f[k] \o ss[k + 1]
        BY <2>1, <3>1, FlatAt
      <3>3. ss[k + 1] \in Seq(S)
        BY <3>1
      <3>4. CASE k = 0
        BY <3>2, <3>3, <3>4, <3>1
      <3>5. CASE k # 0
        <4>1. f[k] \in Seq(S)
          BY <2>3, <3>5
        <4>2. k + 1 # 1
          BY <3>5
        <4>3. f[k + 1] = f[k] \o ss[k + 1]
          BY <4>2, <3>1, <3>2, Zenon
        <4>4. f[k + 1] \in Seq(S)
          BY <4>1, <4>3, <3>3, ConcatProperties
        <4> QED
          BY <4>4, <3>1
      <3> QED
        BY <3>4, <3>5
    <2> HIDE DEF D
    <2>4. n \in D
      BY <2>2, <2>3, UpTo
    <2> QED
      BY <2>1, <2>4, <1>2 DEF D
  <1> QED
    BY <1>1, <1>2

-----------------------------------------------------------------------------
(* Counting.  What a piece is counted for is a finite set, F[p] of a piece  *)
(* p: how often something happens on a sequence of pieces is how many pairs *)
(* of a piece's index and an element of its set there are.                  *)

Entries(P, F) == UNION {{k} \X F[P[k]] : k \in DOMAIN P}

Total(P, F) == Cardinality(Entries(P, F))

Counts(A, F) == \A a \in A : IsFiniteSet(F[a])

(* What an entry is.                                                        *)
LEMMA EntryIs ==
  ASSUME NEW P, NEW F
  PROVE  \A x : x \in Entries(P, F) <=> \E k \in DOMAIN P : \E e \in F[P[k]] : x = <<k, e>>
  BY DEF Entries

(* There are finitely many.                                                 *)
LEMMA EntriesFinite ==
  ASSUME NEW A, NEW F, Counts(A, F), NEW P \in Seq(A)
  PROVE  IsFiniteSet(Entries(P, F)) /\ Total(P, F) \in Nat
  <1> DEFINE layer == [k \in 1..Len(P) |-> {k} \X F[P[k]]]
             S == {{k} \X F[P[k]] : k \in DOMAIN P}
  <1>1. Len(P) \in Nat /\ DOMAIN P = 1..Len(P) /\ \A k \in 1..Len(P) : P[k] \in A
    OBVIOUS
  <1>2. layer \in Surjection(1..Len(P), S)
    BY <1>1 DEF Surjection
  <1>3. IsFiniteSet(1..Len(P))
    <2>1. 1 \in Int /\ Len(P) \in Int
      BY <1>1
    <2> QED
      BY <2>1, FS_Interval
  <1>4. IsFiniteSet(S)
    <2> HIDE DEF layer, S
    <2> QED
      BY <1>2, <1>3, FS_Surjection
  <1>5. \A T \in S : IsFiniteSet(T)
    <2> SUFFICES ASSUME NEW k \in DOMAIN P  PROVE IsFiniteSet({k} \X F[P[k]])
      OBVIOUS
    <2>1. IsFiniteSet(F[P[k]])
      BY <1>1 DEF Counts
    <2>2. IsFiniteSet({k})
      BY FS_Singleton
    <2> QED
      BY <2>1, <2>2, FS_Product
  <1>6. IsFiniteSet(UNION S)
    <2> HIDE DEF S
    <2> QED
      BY <1>4, <1>5, FS_UNION
  <1>7. Entries(P, F) = UNION S
    BY DEF Entries
  <1>8. IsFiniteSet(Entries(P, F))
    BY <1>6, <1>7
  <1> QED
    BY <1>8, FS_CardinalityType DEF Total

(* Two sequences of pieces, one after the other.                            *)
LEMMA TotalConcat ==
  ASSUME NEW A, NEW F, Counts(A, F), NEW P \in Seq(A), NEW Q \in Seq(A)
  PROVE  Total(P \o Q, F) = Total(P, F) + Total(Q, F)
  <1> DEFINE m == Len(P)
             E == Entries(P, F)
             G == Entries(Q, F)
             H == {<<x[1] + m, x[2]>> : x \in G}
             f == [x \in G |-> <<x[1] + m, x[2]>>]
  <1>1. /\ m \in Nat /\ Len(Q) \in Nat /\ DOMAIN P = 1..m /\ DOMAIN Q = 1..Len(Q)
        /\ \A k \in 1..m : P[k] \in A
        /\ \A k \in 1..Len(Q) : Q[k] \in A
    OBVIOUS
  <1>2. /\ P \o Q \in Seq(A) /\ DOMAIN (P \o Q) = 1..m + Len(Q)
        /\ \A k \in 1..m : (P \o Q)[k] = P[k]
        /\ \A k \in m + 1..m + Len(Q) : (P \o Q)[k] = Q[k - m]
    OBVIOUS
  <1> HIDE DEF m
  <1>3. Entries(P \o Q, F) = E \cup H
    <2>1. ASSUME NEW x \in Entries(P \o Q, F)  PROVE x \in E \cup H
      <3>0. \E k \in DOMAIN (P \o Q) : \E e \in F[(P \o Q)[k]] : x = <<k, e>>
        BY DEF Entries
      <3>1. PICK k \in 1..m + Len(Q) : \E e \in F[(P \o Q)[k]] : x = <<k, e>>
        BY <1>2, <3>0, Zenon
      <3>1e. PICK e \in F[(P \o Q)[k]] : x = <<k, e>>
        BY <3>1
      <3>2. CASE k \in 1..m
        BY <3>1e, <3>2, <1>1, <1>2, EntryIs
      <3>3. CASE k \in m + 1..m + Len(Q)
        <4>1. k - m \in 1..Len(Q) /\ e \in F[Q[k - m]] /\ (k - m) + m = k
          BY <3>3, <3>1e, <1>1, <1>2
        <4>2. <<k - m, e>> \in G
          BY <4>1, <1>1, EntryIs
        <4>3. <<(k - m) + m, e>> \in H
          BY <4>2
        <4> QED
          BY <3>1e, <4>1, <4>3
      <3> QED
        BY <3>2, <3>3, <1>1
    <2>2. ASSUME NEW x \in E  PROVE x \in Entries(P \o Q, F)
      <3>1. PICK k \in 1..m : \E e \in F[P[k]] : x = <<k, e>>
        BY <1>1, EntryIs
      <3>1e. PICK e \in F[P[k]] : x = <<k, e>>
        BY <3>1
      <3>2. k \in 1..m + Len(Q) /\ (P \o Q)[k] = P[k]
        BY <1>1, <1>2
      <3> QED
        BY <3>1e, <3>2, <1>2, EntryIs
    <2>3. ASSUME NEW x \in H  PROVE x \in Entries(P \o Q, F)
      <3>1. PICK y \in G : x = <<y[1] + m, y[2]>>
        OBVIOUS
      <3>2. PICK j \in 1..Len(Q) : \E d \in F[Q[j]] : y = <<j, d>>
        BY <1>1, EntryIs
      <3>3. PICK d \in F[Q[j]] : y = <<j, d>>
        BY <3>2
      <3>4. j + m \in 1..m + Len(Q) /\ d \in F[(P \o Q)[j + m]] /\ x = <<j + m, d>>
        BY <3>1, <3>3, <1>1, <1>2
      <3> QED
        BY <3>4, <1>2, EntryIs
    <2> QED
      BY <2>1, <2>2, <2>3
  <1>4. E \cap H = {}
    <2> SUFFICES ASSUME NEW x \in E, NEW y \in G, x = <<y[1] + m, y[2]>>  PROVE FALSE
      OBVIOUS
    <2>1. PICK k \in 1..m : \E e \in F[P[k]] : x = <<k, e>>
      BY <1>1, EntryIs
    <2>2. PICK j \in 1..Len(Q) : \E d \in F[Q[j]] : y = <<j, d>>
      BY <1>1, EntryIs
    <2>3. x[1] = k /\ x[1] = j + m
      BY <2>1, <2>2
    <2> QED
      BY <2>3, <1>1
  <1>5. IsFiniteSet(E) /\ IsFiniteSet(G)
    BY EntriesFinite
  <1>6. f \in Bijection(G, H)
    <2>1. ASSUME NEW x \in G
          PROVE  \E k \in 1..Len(Q) : \E e : x = <<k, e>> /\ f[x] = <<k + m, e>>
      BY <1>1, EntryIs
    <2>2. ASSUME NEW x \in G, NEW y \in G, f[x] = f[y]  PROVE x = y
      <3>1. PICK k \in 1..Len(Q) : \E e : x = <<k, e>> /\ f[x] = <<k + m, e>>
        BY <2>1
      <3>2. PICK j \in 1..Len(Q) : \E d : y = <<j, d>> /\ f[y] = <<j + m, d>>
        BY <2>1
      <3>3. PICK e : x = <<k, e>> /\ f[x] = <<k + m, e>>
        BY <3>1
      <3>4. PICK d : y = <<j, d>> /\ f[y] = <<j + m, d>>
        BY <3>2
      <3>5. k + m = j + m /\ e = d
        BY <3>3, <3>4, <2>2
      <3> QED
        BY <3>3, <3>4, <3>5, <1>1
    <2>3. ASSUME NEW y \in H  PROVE \E x \in G : f[x] = y
      OBVIOUS
    <2>4. f \in [G -> H]
      OBVIOUS
    <2> HIDE DEF f, G, H
    <2> QED
      BY <2>2, <2>3, <2>4 DEF Bijection, Injection, Surjection, IsInjective
  <1>7. IsFiniteSet(H) /\ Cardinality(H) = Cardinality(G)
    <2> HIDE DEF f, G, H
    <2>1. ExistsBijection(G, H)
      BY <1>6 DEF ExistsBijection
    <2> QED
      BY <2>1, <1>5, FS_Bijection
  <1>8. Cardinality(E \cup H) = Cardinality(E) + Cardinality(H) - Cardinality(E \cap H)
    <2> HIDE DEF E, H
    <2> QED
      BY <1>5, <1>7, FS_Union
  <1>9. Cardinality(E) \in Nat /\ Cardinality(G) \in Nat
    BY EntriesFinite DEF Total
  <1>10. Cardinality(E \cap H) = 0
    BY <1>4, FS_EmptySet
  <1>11. Total(P \o Q, F) = Cardinality(E \cup H)
    BY <1>3 DEF Total
  <1>12. Total(P, F) = Cardinality(E) /\ Total(Q, F) = Cardinality(G)
    BY DEF Total
  <1> HIDE DEF E, G, H
  <1> QED
    BY <1>7, <1>8, <1>9, <1>10, <1>11, <1>12

(* One piece.                                                               *)
LEMMA TotalOne ==
  ASSUME NEW A, NEW F, Counts(A, F), NEW a \in A
  PROVE  Total(<<a>>, F) = Cardinality(F[a]) /\ Cardinality(F[a]) \in Nat
  <1> DEFINE E == Entries(<<a>>, F)
             f == [e \in F[a] |-> <<1, e>>]
  <1>1. \A x : x \in E <=> \E e \in F[a] : x = <<1, e>>
    BY EntryIs
  <1>2. IsFiniteSet(F[a])
    BY DEF Counts
  <1>3. f \in Bijection(F[a], E)
    <2> HIDE DEF E
    <2> QED
      BY <1>1 DEF Bijection, Injection, Surjection, IsInjective
  <1>4. ExistsBijection(F[a], E)
    BY <1>3 DEF ExistsBijection
  <1> HIDE DEF E, f
  <1>5. Cardinality(E) = Cardinality(F[a])
    BY <1>2, <1>4, FS_Bijection
  <1> QED
    BY <1>5, <1>2, FS_CardinalityType DEF Total, E

(* No piece.                                                                *)
LEMMA TotalNone ==
  ASSUME NEW F
  PROVE  Total(<<>>, F) = 0
  <1>1. Entries(<<>>, F) = {}
    BY DEF Entries
  <1> QED
    BY <1>1, FS_EmptySet DEF Total

(* All pieces but the first.                                                *)
LEMMA TotalTail ==
  ASSUME NEW A, NEW F, Counts(A, F), NEW P \in Seq(A), P # <<>>
  PROVE  Total(P, F) = Cardinality(F[Head(P)]) + Total(Tail(P), F)
  <1>1. Head(P) \in A /\ Tail(P) \in Seq(A) /\ <<Head(P)>> \in Seq(A)
    OBVIOUS
  <1>2. P = <<Head(P)>> \o Tail(P)
    OBVIOUS
  <1>3. Total(<<Head(P)>> \o Tail(P), F) = Total(<<Head(P)>>, F) + Total(Tail(P), F)
    BY <1>1, TotalConcat
  <1>4. Total(<<Head(P)>>, F) = Cardinality(F[Head(P)])
    BY <1>1, TotalOne
  <1> QED
    BY ONLY <1>2, <1>3, <1>4

(* One piece more at the end.                                               *)
LEMMA TotalAppend ==
  ASSUME NEW A, NEW F, Counts(A, F), NEW P \in Seq(A), NEW a \in A
  PROVE  Total(Append(P, a), F) = Total(P, F) + Cardinality(F[a])
  <1>1. <<a>> \in Seq(A) /\ Append(P, a) = P \o <<a>>
    OBVIOUS
  <1>2. Total(P \o <<a>>, F) = Total(P, F) + Total(<<a>>, F)
    BY <1>1, TotalConcat
  <1> QED
    BY <1>1, <1>2, TotalOne

(* What is at an index of two sequences in a row.                           *)
LEMMA ConcatAt ==
  ASSUME NEW A, NEW s \in Seq(A), NEW t \in Seq(A)
  PROVE  /\ s \o t \in Seq(A) /\ Len(s \o t) = Len(s) + Len(t)
         /\ \A k \in 1..Len(s) : (s \o t)[k] = s[k]
         /\ \A k \in 1..Len(t) : (s \o t)[Len(s) + k] = t[k]
  <1>1. s \o t \in Seq(A) /\ Len(s \o t) = Len(s) + Len(t)
    OBVIOUS
  <1>2. \A k \in 1..Len(s) : (s \o t)[k] = s[k]
    OBVIOUS
  <1>3. \A k \in 1..Len(t) : (s \o t)[Len(s) + k] = t[k]
    OBVIOUS
  <1> QED
    BY <1>1, <1>2, <1>3

(* One piece less, wherever it was.                                         *)
LEMMA TotalRemove ==
  ASSUME NEW A, NEW F, Counts(A, F), NEW P \in Seq(A), NEW i \in DOMAIN P
  PROVE  /\ RemoveAt(P, i) \in Seq(A)
         /\ Total(P, F) = Cardinality(F[P[i]]) + Total(RemoveAt(P, i), F)
  <1> DEFINE before == SubSeq(P, 1, i - 1)
             after == SubSeq(P, i + 1, Len(P))
  <1>1. i \in 1..Len(P) /\ P[i] \in A /\ Len(P) \in Nat
    OBVIOUS
  <1>2. before \in Seq(A) /\ after \in Seq(A)
    BY <1>1, SubSeqProperties
  <1>3. RemoveAt(P, i) = before \o after
    BY DEF RemoveAt
  <1>4. P = (before \o <<P[i]>>) \o after
    <2>1. /\ Len(before) = i - 1 /\ Len(after) = Len(P) - i
          /\ \A k \in 1..i - 1 : before[k] = P[k]
          /\ \A k \in 1..Len(P) - i : after[k] = P[k + i]
      BY <1>1, SubSeqProperties
    <2> HIDE DEF before, after
    <2> DEFINE start == before \o <<P[i]>>
               whole == start \o after
    <2>0. /\ Len(<<P[i]>>) = 1 /\ <<P[i]>> \in Seq(A)
      BY <1>1
    <2>2. /\ start \in Seq(A) /\ Len(start) = i
          /\ \A k \in 1..i - 1 : start[k] = P[k]
          /\ start[i] = P[i]
      <3>1. start \in Seq(A) /\ Len(start) = Len(before) + Len(<<P[i]>>)
        BY <1>2, <2>0, ConcatAt
      <3>2. \A k \in 1..Len(before) : start[k] = before[k]
        BY <1>2, <2>0, ConcatAt
      <3>3. \A k \in 1..1 : start[Len(before) + k] = <<P[i]>>[k]
        BY <1>2, <2>0, ConcatAt
      <3> HIDE DEF start
      <3>4. start[(i - 1) + 1] = P[i]
        BY <3>3, <2>1
      <3> QED
        BY <3>1, <3>2, <3>4, <1>1, <2>0, <2>1
    <2> HIDE DEF start
    <2>3. whole \in Seq(A) /\ Len(whole) = Len(P)
      BY <1>1, <1>2, <2>1, <2>2, ConcatAt
    <2>6. \A j \in 1..Len(after) : whole[Len(start) + j] = after[j]
      BY <1>2, <2>2, ConcatAt
    <2>7. Len(P) \in Nat /\ i \in Nat /\ i <= Len(P)
      BY <1>1
    <2>4. ASSUME NEW k \in 1..Len(P)  PROVE whole[k] = P[k]
      <3>1. CASE k <= i
        <4>1. k \in 1..Len(start) /\ (k \in 1..i - 1 \/ k = i)
          BY <1>1, <2>2, <3>1
        <4>2. whole[k] = start[k]
          BY <4>1, <1>2, <2>2, ConcatAt
        <4> QED
          BY <4>1, <4>2, <2>2
      <3>2. CASE k > i
        <4>1. k - i \in 1..Len(after) /\ k - i \in 1..Len(P) - i /\ i + (k - i) = k /\ (k - i) + i = k
          BY <1>1, <2>1, <3>2
        <4>2. whole[Len(start) + (k - i)] = after[k - i]
          BY <4>1, <2>6, Zenon
        <4> HIDE DEF whole
        <4> QED
          BY <4>1, <4>2, <2>1, <2>2
      <3>3. k \in Nat /\ (k <= i \/ k > i)
        BY <2>7
      <3> QED
        BY <3>1, <3>2, <3>3, Zenon
    <2> HIDE DEF whole
    <2>5. whole = P
      BY <2>3, <2>4, SMT
    <2> QED
      BY <2>5 DEF whole, start
  <1>5. <<P[i]>> \in Seq(A) /\ before \o <<P[i]>> \in Seq(A)
    BY <1>1, <1>2
  <1> HIDE DEF before, after
  <1>6. Total((before \o <<P[i]>>) \o after, F) = Total(before \o <<P[i]>>, F) + Total(after, F)
    BY <1>2, <1>5, TotalConcat
  <1>7. Total(before \o <<P[i]>>, F) = Total(before, F) + Total(<<P[i]>>, F)
    BY <1>2, <1>5, TotalConcat
  <1>8. Total(before \o after, F) = Total(before, F) + Total(after, F)
    BY <1>2, TotalConcat
  <1>9. Total(<<P[i]>>, F) = Cardinality(F[P[i]]) /\ Cardinality(F[P[i]]) \in Nat
    BY <1>1, TotalOne
  <1>10. Total(before, F) \in Nat /\ Total(after, F) \in Nat
    BY <1>2, EntriesFinite
  <1>11. before \o after \in Seq(A)
    BY <1>2, ConcatProperties
  <1>12. Total(P, F) = Cardinality(F[P[i]]) + Total(before \o after, F)
    <2>1. Total(P, F) = Total((before \o <<P[i]>>) \o after, F)
      BY <1>4, Zenon
    <2>2. \A a, b, c \in Nat : (a + c) + b = c + (a + b)
      OBVIOUS
    <2>3. Total(P, F) = (Total(before, F) + Cardinality(F[P[i]])) + Total(after, F)
      BY ONLY <2>1, <1>6, <1>7, <1>9, Zenon
    <2>4. (Total(before, F) + Cardinality(F[P[i]])) + Total(after, F)
            = Cardinality(F[P[i]]) + (Total(before, F) + Total(after, F))
      BY <1>9, <1>10, <2>2, Zenon
    <2> QED
      BY ONLY <1>8, <2>3, <2>4, Zenon
  <1> QED
    BY <1>3, <1>11, <1>12

-----------------------------------------------------------------------------
(* Pieces. *)

Piece == Seq(Positions) \ {<<>>}

(* Two pieces that meet, as one.                                            *)
Glued(a, b) == a \o Tail(b)

(* What is where in it.                                                     *)
LEMMA GluedAt ==
  ASSUME NEW a \in Piece, NEW b \in Piece, End(a) = Start(b)
  PROVE  /\ Glued(a, b) \in Piece /\ Len(Glued(a, b)) = Len(a) + Len(b) - 1
         /\ \A i \in 1..Len(a) : Glued(a, b)[i] = a[i]
         /\ \A i \in 1..Len(b) : Glued(a, b)[(Len(a) - 1) + i] = b[i]
         /\ Start(Glued(a, b)) = Start(a) /\ End(Glued(a, b)) = End(b)
         /\ Len(a) \in Nat \ {0} /\ Len(b) \in Nat \ {0}
  <1> DEFINE t == Tail(b)
             g == a \o t
  <1>1. /\ a \in Seq(Positions) /\ Len(a) \in Nat \ {0}
        /\ b \in Seq(Positions) /\ Len(b) \in Nat \ {0}
    BY DEF Piece
  <1>2. /\ t \in Seq(Positions) /\ Len(t) = Len(b) - 1
        /\ \A i \in 1..Len(b) - 1 : t[i] = b[i + 1]
    BY <1>1
  <1> HIDE DEF t
  <1>3. /\ g \in Seq(Positions) /\ Len(g) = Len(a) + Len(t)
        /\ \A i \in 1..Len(a) : g[i] = a[i]
        /\ \A i \in 1..Len(t) : g[Len(a) + i] = t[i]
    <2>1. g \in Seq(Positions) /\ Len(g) = Len(a) + Len(t)
      BY <1>1, <1>2, ConcatAt
    <2>2. \A i \in 1..Len(a) : g[i] = a[i]
      BY <1>1, <1>2, ConcatAt
    <2>3. \A i \in 1..Len(t) : g[Len(a) + i] = t[i]
      BY <1>1, <1>2, ConcatAt
    <2> QED
      BY <2>1, <2>2, <2>3
  <1> HIDE DEF g
  <1>4. Len(g) = Len(a) + Len(b) - 1 /\ Len(g) # 0
    BY <1>1, <1>2, <1>3
  <1>5. ASSUME NEW i \in 1..Len(b)  PROVE g[(Len(a) - 1) + i] = b[i]
    <2>1. CASE i = 1
      <3>0. Len(a) \in 1..Len(a) /\ (Len(a) - 1) + 1 = Len(a)
        BY ONLY <1>1
      <3>1. g[Len(a)] = a[Len(a)]
        BY <1>3, <3>0, Zenon
      <3> QED
        BY <2>1, <3>0, <3>1 DEF End, Start
    <2>2. CASE i # 1
      <3>1. i - 1 \in 1..Len(t) /\ i - 1 \in 1..Len(b) - 1 /\ (i - 1) + 1 = i
            /\ (Len(a) - 1) + i = Len(a) + (i - 1)
        BY <1>1, <1>2, <2>2
      <3>2. g[Len(a) + (i - 1)] = t[i - 1] /\ t[i - 1] = b[(i - 1) + 1]
        BY <1>2, <1>3, <3>1, Zenon
      <3> QED
        BY <3>1, <3>2
    <2> QED
      BY <2>1, <2>2
  <1>6. g[1] = a[1]
    BY <1>1, <1>3
  <1>7. g[Len(g)] = b[Len(b)]
    <2>1. Len(b) \in 1..Len(b) /\ (Len(a) - 1) + Len(b) = Len(g)
      BY <1>1, <1>4
    <2> QED
      BY <1>5, <2>1
  <1>8. g # <<>>
    BY <1>3, <1>4
  <1> QED
    BY <1>1, <1>3, <1>4, <1>5, <1>6, <1>7, <1>8 DEF g, t, Glued, Piece, Start, End

(* A piece turned round.                                                    *)
LEMMA TurnedAt ==
  ASSUME NEW b \in Piece
  PROVE  /\ Reverse(b) \in Piece /\ Len(Reverse(b)) = Len(b) /\ Len(b) \in Nat \ {0}
         /\ \A i \in 1..Len(b) : Reverse(b)[i] = b[Len(b) - i + 1]
         /\ Start(Reverse(b)) = End(b) /\ End(Reverse(b)) = Start(b)
  <1>1. b \in Seq(Positions) /\ Len(b) \in Nat \ {0}
    BY DEF Piece
  <1>2. \A i \in 1..Len(b) : Len(b) - i + 1 \in 1..Len(b)
    BY <1>1
  <1>3. /\ Reverse(b) \in Seq(Positions) /\ Len(Reverse(b)) = Len(b)
        /\ \A i \in 1..Len(b) : Reverse(b)[i] = b[Len(b) - i + 1]
    BY <1>1, <1>2 DEF Reverse
  <1>4. Reverse(b)[1] = b[Len(b)] /\ Reverse(b)[Len(b)] = b[1]
    <2>1. 1 \in 1..Len(b) /\ Len(b) \in 1..Len(b) /\ Len(b) - 1 + 1 = Len(b) /\ Len(b) - Len(b) + 1 = 1
      BY <1>1
    <2>2. Reverse(b)[1] = b[Len(b) - 1 + 1] /\ Reverse(b)[Len(b)] = b[Len(b) - Len(b) + 1]
      BY <1>3, <2>1, Zenon
    <2> QED
      BY <2>1, <2>2
  <1>5. Reverse(b) # <<>>
    BY <1>1, <1>3
  <1> QED
    BY <1>1, <1>3, <1>4, <1>5 DEF Piece, Start, End

(* Whichever of its four cases holds, joinCoordinates glues the ring and    *)
(* the way, turned round if need be, one to the other.                      *)
LEMMA JoinedIs ==
  ASSUME NEW r \in Piece, NEW s \in Piece, Joins(r, s)
  PROVE  \E t \in {s, Reverse(s)} :
            \/ End(r) = Start(t) /\ Joined(r, s) = Glued(r, t)
            \/ End(t) = Start(r) /\ Joined(r, s) = Glued(t, r)
  <1> DEFINE u == Reverse(s)
  <1>1. /\ u \in Piece /\ Start(u) = End(s) /\ End(u) = Start(s)
    BY TurnedAt
  <1>2. ASSUME NEW t \in Piece, End(t) = Start(r)  PROVE Front(t) \o r = Glued(t, r)
    <2>1. /\ t \in Seq(Positions) /\ Len(t) \in Nat \ {0}
          /\ r \in Seq(Positions) /\ Len(r) \in Nat \ {0}
      BY DEF Piece
    <2>2. t[Len(t)] = r[1]
      BY <1>2 DEF Start, End
    <2>3. Front(t) \in Seq(Positions) /\ Len(Front(t)) = Len(t) - 1
          /\ \A i \in 1..Len(t) - 1 : Front(t)[i] = t[i]
      <3>0. \A i \in 1..Len(t) - 1 : t[i] \in Positions
        BY <2>1
      <3>1. SubSeq(t, 1, Len(t) - 1) \in Seq(Positions) /\ Len(SubSeq(t, 1, Len(t) - 1)) = Len(t) - 1
        <4> DEFINE m == Len(t) - 1
        <4>1. m \in Nat /\ m <= Len(t) /\ \A i \in 1..m : t[i] \in Positions
          BY <2>1, <3>0
        <4> HIDE DEF m
        <4>2. SubSeq(t, 1, m) \in Seq(Positions)
          BY <4>1, <2>1
        <4>3. Len(SubSeq(t, 1, m)) = m
          BY <4>1, <2>1
        <4> QED
          BY <4>2, <4>3 DEF m
      <3>2. \A i \in 1..Len(t) - 1 : SubSeq(t, 1, Len(t) - 1)[i] = t[i]
        BY <2>1
      <3> QED
        BY <3>1, <3>2 DEF Front
    <2> DEFINE f == Front(t)
               g == f \o r
               h == Glued(t, r)
    <2> HIDE DEF f
    <2>4. f \in Seq(Positions) /\ Len(f) = Len(t) - 1 /\ \A i \in 1..Len(t) - 1 : f[i] = t[i]
      BY <2>3 DEF f
    <2>5. /\ g \in Seq(Positions) /\ Len(g) = Len(f) + Len(r)
          /\ \A i \in 1..Len(f) : g[i] = f[i]
          /\ \A i \in 1..Len(r) : g[Len(f) + i] = r[i]
      <3>1. g \in Seq(Positions) /\ Len(g) = Len(f) + Len(r)
        BY <2>1, <2>4, ConcatAt
      <3>2. \A i \in 1..Len(f) : g[i] = f[i]
        BY <2>1, <2>4, ConcatAt
      <3>3. \A i \in 1..Len(r) : g[Len(f) + i] = r[i]
        BY <2>1, <2>4, ConcatAt
      <3> QED
        BY <3>1, <3>2, <3>3
    <2>6. /\ h \in Piece /\ Len(h) = Len(t) + Len(r) - 1
          /\ \A i \in 1..Len(t) : h[i] = t[i]
          /\ \A i \in 1..Len(r) : h[(Len(t) - 1) + i] = r[i]
      BY <1>2, GluedAt
    <2> HIDE DEF g, h
    <2>7. h \in Seq(Positions) /\ Len(h) = Len(g)
      BY <2>1, <2>4, <2>5, <2>6 DEF Piece
    <2>8. ASSUME NEW k \in 1..Len(g)  PROVE g[k] = h[k]
      <3>0. k \in Nat /\ Len(g) = (Len(t) - 1) + Len(r) /\ (k < Len(t) \/ k >= Len(t))
        BY <2>1, <2>4, <2>5
      <3>1. CASE k < Len(t)
        <4>1. k \in 1..Len(f) /\ k \in 1..Len(t) - 1 /\ k \in 1..Len(t)
          BY <3>0, <3>1, <2>1, <2>4
        <4> QED
          BY <4>1, <2>4, <2>5, <2>6
      <3>2. CASE k >= Len(t)
        <4> DEFINE j == k - (Len(t) - 1)
        <4>1. j \in 1..Len(r) /\ (Len(t) - 1) + j = k /\ Len(f) + j = k
          BY <3>0, <3>2, <2>1, <2>4
        <4> HIDE DEF j
        <4>2. g[Len(f) + j] = r[j] /\ h[(Len(t) - 1) + j] = r[j]
          BY <4>1, <2>5, <2>6, Zenon
        <4> QED
          BY <4>1, <4>2
      <3> QED
        BY <3>0, <3>1, <3>2, Zenon
    <2>9. g = h
      BY <2>5, <2>7, <2>8, SMT
    <2> QED
      BY <2>9 DEF g, h, f
  <1>3. CASE End(r) \in {Start(s), End(s)}
    <2>1. CASE End(r) = Start(s)
      <3>1. Joined(r, s) = Glued(r, s)
        BY <2>1 DEF Joined, Glued
      <3> QED
        BY <2>1, <3>1
    <2>2. CASE End(r) # Start(s)
      <3>1. Joined(r, s) = Glued(r, u) /\ End(r) = Start(u)
        BY <1>1, <1>3, <2>2 DEF Joined, Glued
      <3> QED
        BY <3>1
    <2> QED
      BY <2>1, <2>2
  <1>4. CASE End(r) \notin {Start(s), End(s)}
    <2>0. Start(r) \in {Start(s), End(s)}
      BY <1>4 DEF Joins
    <2>1. CASE Start(r) = End(s)
      <3>1. Joined(r, s) = Front(s) \o r
        BY <1>4, <2>1 DEF Joined
      <3> QED
        BY <2>1, <3>1, <1>2
    <2>2. CASE Start(r) # End(s)
      <3>1. Joined(r, s) = Front(u) \o r
        BY <1>4, <2>2 DEF Joined
      <3>2. End(u) = Start(r)
        BY <1>1, <2>0, <2>2
      <3> QED
        BY <3>1, <3>2, <1>1, <1>2
    <2> QED
      BY <2>1, <2>2
  <1> QED
    BY <1>3, <1>4

-----------------------------------------------------------------------------
(* How often pieces pass along a stretch. *)

RunsAlong(stretch) == [p \in Piece |-> Runs(p, stretch)]

(* A piece passes along it finitely often.                                  *)
LEMMA RunsCount ==
  ASSUME NEW stretch
  PROVE  Counts(Piece, RunsAlong(stretch))
  <1> SUFFICES ASSUME NEW p \in Piece  PROVE IsFiniteSet(Runs(p, stretch))
    BY DEF Counts, RunsAlong
  <1>1. 1 \in Int /\ Len(p) - 1 \in Int
    BY DEF Piece
  <1>2. IsFiniteSet(1..Len(p) - 1)
    BY <1>1, FS_Interval
  <1>3. Runs(p, stretch) \in SUBSET (1..Len(p) - 1)
    BY DEF Runs
  <1> QED
    BY <1>2, <1>3, FS_Subset

(* How often the pieces of P do is how many entries there are.              *)
LEMMA PassesIs ==
  ASSUME NEW stretch, NEW P \in Seq(Piece)
  PROVE  Passes(P, stretch) = Total(P, RunsAlong(stretch))
  <1>1. \A k \in DOMAIN P : RunsAlong(stretch)[P[k]] = Runs(P[k], stretch)
    <2>1. \A k \in DOMAIN P : P[k] \in Piece
      OBVIOUS
    <2> QED
      BY <2>1 DEF RunsAlong
  <1>2. UNION {{k} \X Runs(P[k], stretch) : k \in DOMAIN P} = Entries(P, RunsAlong(stretch))
    BY <1>1 DEF Entries
  <1> QED
    BY <1>2 DEF Passes, Total

(* Two pieces glued pass along it as often as each by itself.               *)
LEMMA RunsGlued ==
  ASSUME NEW stretch, NEW a \in Piece, NEW b \in Piece, End(a) = Start(b)
  PROVE  Cardinality(Runs(Glued(a, b), stretch))
           = Cardinality(Runs(a, stretch)) + Cardinality(Runs(b, stretch))
  <1> DEFINE g == Glued(a, b)
             m == Len(a)
             n == Len(b)
             A == Runs(a, stretch)
             B == Runs(b, stretch)
             C == {(m - 1) + i : i \in B}
             f == [i \in B |-> (m - 1) + i]
  <1>1. /\ g \in Piece /\ Len(g) = m + n - 1
        /\ \A i \in 1..m : g[i] = a[i]
        /\ \A i \in 1..n : g[(m - 1) + i] = b[i]
        /\ m \in Nat \ {0} /\ n \in Nat \ {0}
    BY GluedAt
  <1> HIDE DEF g, m, n
  <1>2. /\ A = {i \in 1..m - 1 : {a[i], a[i + 1]} = stretch}
        /\ B = {i \in 1..n - 1 : {b[i], b[i + 1]} = stretch}
        /\ Runs(g, stretch) = {i \in 1..(m + n - 1) - 1 : {g[i], g[i + 1]} = stretch}
    BY <1>1 DEF Runs, m, n
  <1>3. A \subseteq 1..m - 1 /\ B \subseteq 1..n - 1
    BY <1>2
  <1>4. \A i \in 1..m - 1 : i \in Runs(g, stretch) <=> i \in A
    <2> SUFFICES ASSUME NEW i \in 1..m - 1  PROVE i \in Runs(g, stretch) <=> i \in A
      OBVIOUS
    <2>1. i \in 1..m /\ i + 1 \in 1..m /\ i \in 1..(m + n - 1) - 1
      BY <1>1
    <2>2. g[i] = a[i] /\ g[i + 1] = a[i + 1]
      BY <1>1, <2>1
    <2> QED
      BY <1>2, <2>1, <2>2
  <1>5. \A i \in 1..n - 1 : (m - 1) + i \in Runs(g, stretch) <=> i \in B
    <2> SUFFICES ASSUME NEW i \in 1..n - 1  PROVE (m - 1) + i \in Runs(g, stretch) <=> i \in B
      OBVIOUS
    <2>1. /\ i \in 1..n /\ i + 1 \in 1..n /\ (m - 1) + i \in 1..(m + n - 1) - 1
          /\ ((m - 1) + i) + 1 = (m - 1) + (i + 1)
      BY <1>1
    <2>2. g[(m - 1) + i] = b[i] /\ g[((m - 1) + i) + 1] = b[i + 1]
      BY <1>1, <2>1
    <2> QED
      BY <1>2, <2>1, <2>2
  <1> HIDE DEF A, B
  <1>6. Runs(g, stretch) = A \cup C
    <2>1. ASSUME NEW i \in Runs(g, stretch)  PROVE i \in A \cup C
      <3>1. i \in 1..(m + n - 1) - 1
        BY <1>2
      <3>2. i \in 1..m - 1 \/ (i - (m - 1) \in 1..n - 1 /\ (m - 1) + (i - (m - 1)) = i)
        BY <1>1, <3>1
      <3>3. CASE i \in 1..m - 1
        BY <3>3, <1>4
      <3>4. CASE i - (m - 1) \in 1..n - 1 /\ (m - 1) + (i - (m - 1)) = i
        <4>1. i - (m - 1) \in B
          BY <3>4, <1>5
        <4> QED
          BY <3>4, <4>1
      <3> QED
        BY <3>2, <3>3, <3>4
    <2>2. A \subseteq Runs(g, stretch)
      BY <1>3, <1>4
    <2>3. C \subseteq Runs(g, stretch)
      BY <1>3, <1>5
    <2> QED
      BY <2>1, <2>2, <2>3
  <1>7. A \cap C = {}
    BY <1>1, <1>3
  <1>8. IsFiniteSet(A) /\ IsFiniteSet(B)
    <2>1. RunsAlong(stretch)[a] = A /\ RunsAlong(stretch)[b] = B
      BY DEF RunsAlong, A, B
    <2> QED
      BY <2>1, RunsCount DEF Counts
  <1>9. f \in Bijection(B, C)
    <2>1. \A i, j \in B : f[i] = f[j] => i = j
      BY <1>1, <1>3
    <2>2. f \in [B -> C] /\ \A y \in C : \E i \in B : f[i] = y
      OBVIOUS
    <2> HIDE DEF f, C
    <2> QED
      BY <2>1, <2>2 DEF Bijection, Injection, Surjection, IsInjective
  <1> HIDE DEF f, C
  <1>10. ExistsBijection(B, C)
    BY <1>9 DEF ExistsBijection
  <1>11. IsFiniteSet(C) /\ Cardinality(C) = Cardinality(B)
    BY <1>8, <1>10, FS_Bijection
  <1>12. Cardinality(A \cup C) = Cardinality(A) + Cardinality(C) - Cardinality(A \cap C)
    BY <1>8, <1>11, FS_Union
  <1>13. Cardinality(A \cap C) = 0
    BY <1>7, FS_EmptySet
  <1>14. Cardinality(A) \in Nat /\ Cardinality(B) \in Nat
    BY <1>8, FS_CardinalityType
  <1>15. Cardinality(Runs(g, stretch)) = Cardinality(A) + Cardinality(B)
    BY <1>6, <1>11, <1>12, <1>13, <1>14
  <1> QED
    BY <1>15 DEF g, A, B

(* A piece turned round passes along it as often.                           *)
LEMMA RunsTurned ==
  ASSUME NEW stretch, NEW b \in Piece
  PROVE  Cardinality(Runs(Reverse(b), stretch)) = Cardinality(Runs(b, stretch))
  <1> DEFINE r == Reverse(b)
             n == Len(b)
             B == Runs(b, stretch)
             R == Runs(r, stretch)
             f == [i \in B |-> n - i]
  <1>1. /\ r \in Piece /\ Len(r) = n /\ n \in Nat \ {0}
        /\ \A i \in 1..n : r[i] = b[n - i + 1]
    BY TurnedAt
  <1> HIDE DEF r, n
  <1>2. /\ B = {i \in 1..n - 1 : {b[i], b[i + 1]} = stretch}
        /\ R = {i \in 1..n - 1 : {r[i], r[i + 1]} = stretch}
    BY <1>1 DEF Runs, n
  <1>3. \A i \in 1..n - 1 : n - i \in 1..n - 1 /\ n - (n - i) = i /\ (n - i \in R <=> i \in B)
    <2> SUFFICES ASSUME NEW i \in 1..n - 1
                 PROVE  n - i \in 1..n - 1 /\ n - (n - i) = i /\ (n - i \in R <=> i \in B)
      OBVIOUS
    <2>1. /\ n - i \in 1..n - 1 /\ n - i \in 1..n /\ (n - i) + 1 \in 1..n
          /\ n - (n - i) = i /\ n - (n - i) + 1 = i + 1 /\ n - ((n - i) + 1) + 1 = i
      BY <1>1
    <2>2. r[n - i] = b[i + 1] /\ r[(n - i) + 1] = b[i]
      BY <1>1, <2>1
    <2> QED
      BY <1>2, <2>1, <2>2
  <1>4. B \subseteq 1..n - 1 /\ R \subseteq 1..n - 1
    BY <1>2
  <1>5. IsFiniteSet(B)
    <2>1. RunsAlong(stretch)[b] = B
      BY DEF RunsAlong
    <2> QED
      BY <2>1, RunsCount DEF Counts
  <1> HIDE DEF B, R
  <1>6. f \in Bijection(B, R)
    <2>1. f \in [B -> R]
      BY <1>3, <1>4
    <2>2. \A i, j \in B : f[i] = f[j] => i = j
      BY <1>1, <1>4
    <2>3. ASSUME NEW y \in R  PROVE \E i \in B : f[i] = y
      <3>1. n - y \in 1..n - 1 /\ n - (n - y) = y
        BY <1>3, <1>4
      <3>2. n - y \in B
        BY <3>1, <1>3
      <3> QED
        BY <3>1, <3>2
    <2> HIDE DEF f
    <2> QED
      BY <2>1, <2>2, <2>3 DEF Bijection, Injection, Surjection, IsInjective
  <1>7. ExistsBijection(B, R)
    BY <1>6 DEF ExistsBijection
  <1>8. Cardinality(R) = Cardinality(B)
    BY <1>5, <1>7, FS_Bijection
  <1> QED
    BY <1>8 DEF R, B, r

(* A ring that grows by a way passes along it as often as both did.         *)
LEMMA RunsJoined ==
  ASSUME NEW stretch, NEW r \in Piece, NEW s \in Piece, Joins(r, s)
  PROVE  /\ Joined(r, s) \in Piece
         /\ Cardinality(RunsAlong(stretch)[Joined(r, s)])
              = Cardinality(RunsAlong(stretch)[r]) + Cardinality(RunsAlong(stretch)[s])
  <1>1. PICK t \in {s, Reverse(s)} :
            \/ End(r) = Start(t) /\ Joined(r, s) = Glued(r, t)
            \/ End(t) = Start(r) /\ Joined(r, s) = Glued(t, r)
    BY JoinedIs
  <1>2. t \in Piece /\ Cardinality(Runs(t, stretch)) = Cardinality(Runs(s, stretch))
    BY <1>1, TurnedAt, RunsTurned
  <1>3. \A p \in Piece : RunsAlong(stretch)[p] = Runs(p, stretch)
    BY DEF RunsAlong
  <1>4. /\ Cardinality(Runs(r, stretch)) \in Nat /\ Cardinality(Runs(t, stretch)) \in Nat
    <2>1. IsFiniteSet(Runs(r, stretch)) /\ IsFiniteSet(Runs(t, stretch))
      BY <1>2, <1>3, RunsCount DEF Counts
    <2> QED
      BY <2>1, FS_CardinalityType
  <1>5. CASE End(r) = Start(t) /\ Joined(r, s) = Glued(r, t)
    <2>1. Glued(r, t) \in Piece
      BY <1>2, <1>5, GluedAt
    <2>2. Cardinality(Runs(Glued(r, t), stretch)) = Cardinality(Runs(r, stretch)) + Cardinality(Runs(t, stretch))
      BY <1>2, <1>5, RunsGlued
    <2> QED
      BY <2>1, <2>2, <1>2, <1>3, <1>5
  <1>6. CASE End(t) = Start(r) /\ Joined(r, s) = Glued(t, r)
    <2>1. Glued(t, r) \in Piece
      BY <1>2, <1>6, GluedAt
    <2>2. Cardinality(Runs(Glued(t, r), stretch)) = Cardinality(Runs(t, stretch)) + Cardinality(Runs(r, stretch))
      BY <1>2, <1>6, RunsGlued
    <2>3. Cardinality(Runs(t, stretch)) + Cardinality(Runs(r, stretch)) = Cardinality(Runs(r, stretch)) + Cardinality(Runs(t, stretch))
      BY <1>4
    <2> QED
      BY <2>1, <2>2, <2>3, <1>2, <1>3, <1>6
  <1> QED
    BY <1>1, <1>5, <1>6

-----------------------------------------------------------------------------
(* How many ends of pieces are at a position. *)

EndsAt(p) ==
    [q \in Piece |-> {e \in {1, 2} : (e = 1 /\ Start(q) = p) \/ (e = 2 /\ End(q) = p)}]

(* Of one piece they are two, one or none.                                  *)
LEMMA EndsOf ==
  ASSUME NEW p, NEW q \in Piece
  PROVE  /\ IsFiniteSet(EndsAt(p)[q])
         /\ Start(q) = p /\ End(q) = p => Cardinality(EndsAt(p)[q]) = 2
         /\ (Start(q) = p) # (End(q) = p) => Cardinality(EndsAt(p)[q]) = 1
         /\ Start(q) # p /\ End(q) # p => Cardinality(EndsAt(p)[q]) = 0
  <1> DEFINE E == {e \in {1, 2} : (e = 1 /\ Start(q) = p) \/ (e = 2 /\ End(q) = p)}
  <1>1. EndsAt(p)[q] = E
    BY DEF EndsAt
  <1>2. \A x : IsFiniteSet({x}) /\ Cardinality({x}) = 1
    BY FS_Singleton
  <1>3. IsFiniteSet({1, 2}) /\ Cardinality({1, 2}) = 2
    <2>1. {1, 2} = {1} \cup {2} /\ 2 \notin {1}
      OBVIOUS
    <2>2. /\ IsFiniteSet({1} \cup {2})
          /\ Cardinality({1} \cup {2}) = IF 2 \in {1} THEN Cardinality({1}) ELSE Cardinality({1}) + 1
      BY <1>2, FS_AddElement
    <2>3. Cardinality({1}) = 1
      BY <1>2, Zenon
    <2>4. Cardinality({1} \cup {2}) = Cardinality({1}) + 1
      BY <2>1, <2>2, Zenon
    <2>5. Cardinality({1} \cup {2}) = 2
      BY <2>3, <2>4
    <2> QED
      BY <2>1, <2>2, <2>5, Zenon
  <1>4. IsFiniteSet({}) /\ Cardinality({}) = 0
    BY FS_EmptySet
  <1>5. CASE Start(q) = p /\ End(q) = p
    <2>1. E = {1, 2}
      BY <1>5
    <2> QED
      BY <1>1, <1>3, <1>5, <2>1
  <1>6. CASE Start(q) = p /\ End(q) # p
    <2>1. E = {1}
      BY <1>6
    <2> QED
      BY <1>1, <1>2, <1>6, <2>1
  <1>7. CASE Start(q) # p /\ End(q) = p
    <2>1. E = {2}
      BY <1>7
    <2> QED
      BY <1>1, <1>2, <1>7, <2>1
  <1>8. CASE Start(q) # p /\ End(q) # p
    <2>1. E = {}
      BY <1>8
    <2> QED
      BY <1>1, <1>4, <1>8, <2>1
  <1> QED
    BY <1>5, <1>6, <1>7, <1>8

(* There are finitely many.                                                 *)
LEMMA EndsCount ==
  ASSUME NEW p
  PROVE  Counts(Piece, EndsAt(p))
  BY EndsOf DEF Counts

(* A ring that grows by a way has as many ends there as both had, or two    *)
(* less, where they meet.                                                   *)
LEMMA EndsJoined ==
  ASSUME NEW p, NEW r \in Piece, NEW s \in Piece, Joins(r, s)
  PROVE  /\ Joined(r, s) \in Piece
         /\ \E n \in {0, 1} :
              Cardinality(EndsAt(p)[r]) + Cardinality(EndsAt(p)[s])
                = Cardinality(EndsAt(p)[Joined(r, s)]) + 2 * n
  <1> DEFINE N(q) == Cardinality(EndsAt(p)[q])
             One(x) == IF x = p THEN 1 ELSE 0
  <1>1. ASSUME NEW q \in Piece  PROVE N(q) = One(Start(q)) + One(End(q))
    BY EndsOf
  <1> HIDE DEF N
  <1>2. ASSUME NEW a \in Piece, NEW b \in Piece, End(a) = Start(b)
        PROVE  /\ Glued(a, b) \in Piece
               /\ N(a) + N(b) = N(Glued(a, b)) + 2 * One(End(a))
    <2>1. Glued(a, b) \in Piece /\ Start(Glued(a, b)) = Start(a) /\ End(Glued(a, b)) = End(b)
      BY <1>2, GluedAt
    <2>2. N(a) = One(Start(a)) + One(End(a)) /\ N(b) = One(End(a)) + One(End(b))
          /\ N(Glued(a, b)) = One(Start(a)) + One(End(b))
      BY <2>1, <1>1, <1>2
    <2>3. One(Start(a)) \in Nat /\ One(End(a)) \in Nat /\ One(End(b)) \in Nat
      OBVIOUS
    <2> HIDE DEF One
    <2> QED
      BY <2>1, <2>2, <2>3
  <1>3. PICK t \in {s, Reverse(s)} :
            \/ End(r) = Start(t) /\ Joined(r, s) = Glued(r, t)
            \/ End(t) = Start(r) /\ Joined(r, s) = Glued(t, r)
    BY JoinedIs
  <1>4. t \in Piece /\ N(t) = N(s)
    <2>1. CASE t = s
      BY <2>1
    <2>2. CASE t = Reverse(s)
      <3>1. t \in Piece /\ Start(t) = End(s) /\ End(t) = Start(s)
        BY <2>2, TurnedAt
      <3>2. N(t) = One(End(s)) + One(Start(s)) /\ N(s) = One(Start(s)) + One(End(s))
        BY <3>1, <1>1
      <3> QED
        BY <3>1, <3>2
    <2> QED
      BY <1>3, <2>1, <2>2
  <1>5. \A x : One(x) \in {0, 1}
    OBVIOUS
  <1>6. N(r) + N(t) = N(t) + N(r)
    <2>1. N(r) \in Nat /\ N(t) \in Nat
      BY <1>1, <1>4
    <2> QED
      BY <2>1
  <1> HIDE DEF One
  <1>7. Joined(r, s) \in Piece /\ \E n \in {0, 1} : N(r) + N(s) = N(Joined(r, s)) + 2 * n
    <2>1. CASE End(r) = Start(t) /\ Joined(r, s) = Glued(r, t)
      BY <2>1, <1>2, <1>4, <1>5
    <2>2. CASE End(t) = Start(r) /\ Joined(r, s) = Glued(t, r)
      BY <2>2, <1>2, <1>4, <1>5, <1>6
    <2> QED
      BY <1>3, <2>1, <2>2
  <1> QED
    BY <1>7 DEF N

(* Of a sequence of pieces: those that start there and those that end       *)
(* there.                                                                   *)
LEMMA EndsAre ==
  ASSUME NEW p, NEW P \in Seq(Piece)
  PROVE  Cardinality({i \in DOMAIN P : Start(P[i]) = p})
           + Cardinality({i \in DOMAIN P : End(P[i]) = p}) = Total(P, EndsAt(p))
  <1> DEFINE S == {i \in DOMAIN P : Start(P[i]) = p}
             E == {i \in DOMAIN P : End(P[i]) = p}
             S1 == S \X {1}
             E2 == E \X {2}
  <1>1. Len(P) \in Nat /\ DOMAIN P = 1..Len(P) /\ \A i \in DOMAIN P : P[i] \in Piece
    OBVIOUS
  <1>2. IsFiniteSet(DOMAIN P)
    <2>1. 1 \in Int /\ Len(P) \in Int
      BY <1>1
    <2> QED
      BY <1>1, <2>1, FS_Interval
  <1>3. Entries(P, EndsAt(p)) = S1 \cup E2
    <2>1. \A x : x \in Entries(P, EndsAt(p)) <=> \E k \in DOMAIN P : \E e \in EndsAt(p)[P[k]] : x = <<k, e>>
      BY EntryIs
    <2>2. ASSUME NEW k \in DOMAIN P
          PROVE  EndsAt(p)[P[k]] = {e \in {1, 2} : (e = 1 /\ k \in S) \/ (e = 2 /\ k \in E)}
      BY <1>1 DEF EndsAt
    <2>3. \A x : x \in S1 <=> \E k \in S : x = <<k, 1>>
      OBVIOUS
    <2>4. \A x : x \in E2 <=> \E k \in E : x = <<k, 2>>
      OBVIOUS
    <2>5. S \subseteq DOMAIN P /\ E \subseteq DOMAIN P
      OBVIOUS
    <2> HIDE DEF S, E, S1, E2
    <2>6. ASSUME NEW x \in Entries(P, EndsAt(p))  PROVE x \in S1 \cup E2
      <3>1. PICK k \in DOMAIN P : \E e \in EndsAt(p)[P[k]] : x = <<k, e>>
        BY <2>1
      <3>2. PICK e \in EndsAt(p)[P[k]] : x = <<k, e>>
        BY <3>1
      <3>3. (e = 1 /\ k \in S) \/ (e = 2 /\ k \in E)
        BY <2>2
      <3> QED
        BY <3>2, <3>3, <2>3, <2>4
    <2>7. ASSUME NEW x \in S1  PROVE x \in Entries(P, EndsAt(p))
      <3>1. PICK k \in S : x = <<k, 1>>
        BY <2>3
      <3>2. k \in DOMAIN P /\ 1 \in EndsAt(p)[P[k]]
        BY <2>2, <2>5
      <3> QED
        BY <3>1, <3>2, <2>1
    <2>8. ASSUME NEW x \in E2  PROVE x \in Entries(P, EndsAt(p))
      <3>1. PICK k \in E : x = <<k, 2>>
        BY <2>4
      <3>2. k \in DOMAIN P /\ 2 \in EndsAt(p)[P[k]]
        BY <2>2, <2>5
      <3> QED
        BY <3>1, <3>2, <2>1
    <2> QED
      BY <2>6, <2>7, <2>8
  <1>4. IsFiniteSet(S) /\ IsFiniteSet(E)
    <2>1. S \in SUBSET DOMAIN P /\ E \in SUBSET DOMAIN P
      OBVIOUS
    <2> HIDE DEF S, E
    <2> QED
      BY <2>1, <1>2, FS_Subset
  <1>5. S1 \cap E2 = {}
    OBVIOUS
  <1> HIDE DEF S, E
  <1>6. Cardinality(S) \in Nat /\ Cardinality(E) \in Nat
    BY <1>4, FS_CardinalityType
  <1>7. /\ IsFiniteSet(S1) /\ Cardinality(S1) = Cardinality(S)
        /\ IsFiniteSet(E2) /\ Cardinality(E2) = Cardinality(E)
    <2>1. \A x : IsFiniteSet({x}) /\ Cardinality({x}) = 1
      BY FS_Singleton
    <2>2. IsFiniteSet(S1) /\ Cardinality(S1) = Cardinality(S) * Cardinality({1})
      BY <2>1, <1>4, FS_Product
    <2>3. IsFiniteSet(E2) /\ Cardinality(E2) = Cardinality(E) * Cardinality({2})
      BY <2>1, <1>4, FS_Product
    <2>4. Cardinality({1}) = 1 /\ Cardinality({2}) = 1
      BY <2>1, Zenon
    <2>5. \A n \in Nat : n * 1 = n
      OBVIOUS
    <2>6. Cardinality(S1) = Cardinality(S)
      BY <2>2, <2>4, <2>5, <1>6, Zenon
    <2>7. Cardinality(E2) = Cardinality(E)
      BY <2>3, <2>4, <2>5, <1>6, Zenon
    <2> QED
      BY <2>2, <2>3, <2>6, <2>7, Zenon
  <1> HIDE DEF S1, E2
  <1>8. Cardinality(S1 \cup E2) = Cardinality(S1) + Cardinality(E2) - Cardinality(S1 \cap E2)
    BY <1>7, FS_Union
  <1>9. Cardinality(S1 \cap E2) = 0
    BY <1>5, FS_EmptySet
  <1>10. Total(P, EndsAt(p)) = Cardinality(S1 \cup E2)
    BY <1>3 DEF Total
  <1>11. Total(P, EndsAt(p)) = Cardinality(S) + Cardinality(E)
    BY <1>6, <1>7, <1>8, <1>9, <1>10
  <1> QED
    BY <1>11 DEF S, E

(* Pieces that end where they start have an even number of ends anywhere.   *)
LEMMA ClosedEnds ==
  ASSUME NEW p, NEW P \in Seq(Piece), \A i \in DOMAIN P : Start(P[i]) = End(P[i])
  PROVE  \E n \in Nat : Total(P, EndsAt(p)) = 2 * n
  <1> DEFINE S == {i \in DOMAIN P : Start(P[i]) = p}
             E == {i \in DOMAIN P : End(P[i]) = p}
  <1>1. S = E
    OBVIOUS
  <1>2. Cardinality(S) + Cardinality(E) = Total(P, EndsAt(p))
    BY EndsAre
  <1>3. Cardinality(S) \in Nat
    <2>1. Len(P) \in Nat /\ DOMAIN P = 1..Len(P)
      OBVIOUS
    <2>2. IsFiniteSet(DOMAIN P)
      <3>1. 1 \in Int /\ Len(P) \in Int
        BY <2>1
      <3> QED
        BY <2>1, <3>1, FS_Interval
    <2>3. S \in SUBSET DOMAIN P
      OBVIOUS
    <2> HIDE DEF S
    <2> QED
      BY <2>2, <2>3, FS_Subset, FS_CardinalityType
  <1> HIDE DEF S, E
  <1>4. Total(P, EndsAt(p)) = 2 * Cardinality(S)
    BY <1>1, <1>2, <1>3
  <1> QED
    BY <1>3, <1>4

(* Pieces none of which starts or ends there have none there.               *)
LEMMA NoEnds ==
  ASSUME NEW p, NEW P \in Seq(Piece)
  PROVE  Total(P, EndsAt(p)) # 0 <=> \E i \in DOMAIN P : Start(P[i]) = p \/ End(P[i]) = p
  <1>1. \A x : x \in Entries(P, EndsAt(p)) <=> \E k \in DOMAIN P : \E e \in EndsAt(p)[P[k]] : x = <<k, e>>
    BY EntryIs
  <1>2. \A k \in DOMAIN P :
          EndsAt(p)[P[k]] = {e \in {1, 2} : (e = 1 /\ Start(P[k]) = p) \/ (e = 2 /\ End(P[k]) = p)}
    <2>1. \A k \in DOMAIN P : P[k] \in Piece
      OBVIOUS
    <2> QED
      BY <2>1 DEF EndsAt
  <1>3. \A k \in DOMAIN P : EndsAt(p)[P[k]] # {} <=> (Start(P[k]) = p \/ End(P[k]) = p)
    <2> SUFFICES ASSUME NEW k \in DOMAIN P
                 PROVE  EndsAt(p)[P[k]] # {} <=> (Start(P[k]) = p \/ End(P[k]) = p)
      OBVIOUS
    <2>1. \A e : e \in EndsAt(p)[P[k]] <=> e \in {1, 2} /\ ((e = 1 /\ Start(P[k]) = p) \/ (e = 2 /\ End(P[k]) = p))
      BY <1>2
    <2>2. Start(P[k]) = p => 1 \in EndsAt(p)[P[k]]
      BY <2>1
    <2>3. End(P[k]) = p => 2 \in EndsAt(p)[P[k]]
      BY <2>1
    <2> QED
      BY <2>1, <2>2, <2>3
  <1>4. Entries(P, EndsAt(p)) # {} <=> \E k \in DOMAIN P : EndsAt(p)[P[k]] # {}
    BY <1>1
  <1>5. IsFiniteSet(Entries(P, EndsAt(p)))
    BY EndsCount, EntriesFinite
  <1>6. Total(P, EndsAt(p)) = 0 <=> Entries(P, EndsAt(p)) = {}
    BY <1>5, FS_EmptySet DEF Total
  <1> QED
    BY <1>3, <1>4, <1>6

-----------------------------------------------------------------------------
(* The ways and what has become of them. *)

(* What all the pieces there are are counted for.                           *)
Load(F, left, grown, closed) ==
    Total(closed, F) + Total(left, F) + (IF grown = <<>> THEN 0 ELSE Cardinality(F[grown]))

IsClosed(P) == \A i \in DOMAIN P : Start(P[i]) = End(P[i])

(* The pieces there are, against the ways they were made of: no stretch is  *)
(* lost, doubled or invented, and the ends that are gone met in pairs.      *)
Balanced(ways, left, grown, closed) ==
    /\ ways \in Seq(Piece) /\ left \in Seq(Piece) /\ closed \in Seq(Piece)
    /\ grown \in Seq(Positions)
    /\ IsClosed(closed)
    /\ \A s : Load(RunsAlong(s), left, grown, closed) = Total(ways, RunsAlong(s))
    /\ \A p : \E n \in Nat : Total(ways, EndsAt(p)) = Load(EndsAt(p), left, grown, closed) + 2 * n

(* At first the pieces are the ways.                                        *)
LEMMA BalancedAtFirst ==
  ASSUME NEW ways \in Seq(Piece)
  PROVE  Balanced(ways, ways, <<>>, <<>>)
  <1>1. <<>> \in Seq(Piece) /\ <<>> \in Seq(Positions) /\ IsClosed(<<>>)
    BY DEF IsClosed
  <1>2. \A F : Total(<<>>, F) = 0
    BY TotalNone
  <1>3. \A s : Total(ways, RunsAlong(s)) \in Nat
    BY RunsCount, EntriesFinite
  <1>4. \A p : Total(ways, EndsAt(p)) \in Nat
    BY EndsCount, EntriesFinite
  <1>5. \A s : Load(RunsAlong(s), ways, <<>>, <<>>) = Total(ways, RunsAlong(s))
    BY <1>2, <1>3 DEF Load
  <1>6. \A p : Load(EndsAt(p), ways, <<>>, <<>>) = Total(ways, EndsAt(p))
    BY <1>2, <1>4 DEF Load
  <1>7. \A p : Total(ways, EndsAt(p)) = Load(EndsAt(p), ways, <<>>, <<>>) + 2 * 0
    <2>1. \A n \in Nat : n = n + 2 * 0
      OBVIOUS
    <2> QED
      BY <1>4, <1>6, <2>1
  <1> QED
    BY <1>1, <1>5, <1>7 DEF Balanced

(* A piece that a ring starts with, one that closes, are counted as before. *)
LEMMA LoadMoves ==
  ASSUME NEW F, Counts(Piece, F), NEW left \in Seq(Piece), NEW closed \in Seq(Piece),
         NEW grown \in Piece
  PROVE  /\ left # <<>> => Load(F, Tail(left), Head(left), closed) = Load(F, left, <<>>, closed)
         /\ Load(F, left, <<>>, Append(closed, grown)) = Load(F, left, grown, closed)
  <1>1. Total(left, F) \in Nat /\ Total(closed, F) \in Nat
    BY EntriesFinite
  <1>2. grown # <<>>
    BY DEF Piece
  <1>3. ASSUME left # <<>>
        PROVE  Load(F, Tail(left), Head(left), closed) = Load(F, left, <<>>, closed)
    <2>1. Head(left) \in Piece /\ Tail(left) \in Seq(Piece) /\ Head(left) # <<>>
      BY <1>3 DEF Piece
    <2>2. Total(left, F) = Cardinality(F[Head(left)]) + Total(Tail(left), F)
      BY <1>3, TotalTail
    <2>3. Total(Tail(left), F) \in Nat
      BY <2>1, EntriesFinite
    <2>4. Cardinality(F[Head(left)]) \in Nat
      BY <2>1, TotalOne
    <2>5. Load(F, Tail(left), Head(left), closed)
            = Total(closed, F) + Total(Tail(left), F) + Cardinality(F[Head(left)])
      BY <2>1 DEF Load
    <2>6. Load(F, left, <<>>, closed) = Total(closed, F) + Total(left, F) + 0
      BY DEF Load
    <2> QED
      BY <1>1, <2>2, <2>3, <2>4, <2>5, <2>6
  <1>4. Load(F, left, <<>>, Append(closed, grown)) = Load(F, left, grown, closed)
    <2>1. Total(Append(closed, grown), F) = Total(closed, F) + Cardinality(F[grown])
      BY TotalAppend
    <2>2. Cardinality(F[grown]) \in Nat
      BY TotalOne
    <2>3. Load(F, left, grown, closed) = Total(closed, F) + Total(left, F) + Cardinality(F[grown])
      BY <1>2 DEF Load
    <2>4. Load(F, left, <<>>, Append(closed, grown)) = Total(Append(closed, grown), F) + Total(left, F) + 0
      BY DEF Load
    <2> QED
      BY <1>1, <2>1, <2>2, <2>3, <2>4
  <1> QED
    BY <1>3, <1>4

(* A ring starts.                                                           *)
LEMMA BalancedWhenTaken ==
  ASSUME NEW ways, NEW left, NEW closed, Balanced(ways, left, <<>>, closed), left # <<>>
  PROVE  Balanced(ways, Tail(left), Head(left), closed)
  <1>1. /\ ways \in Seq(Piece) /\ left \in Seq(Piece) /\ closed \in Seq(Piece)
        /\ IsClosed(closed)
    BY DEF Balanced
  <1>2. Head(left) \in Piece /\ Tail(left) \in Seq(Piece)
    BY <1>1
  <1>3. ASSUME NEW F, Counts(Piece, F)
        PROVE  Load(F, Tail(left), Head(left), closed) = Load(F, left, <<>>, closed)
    BY <1>1, <1>2, <1>3, LoadMoves
  <1>4. \A s : Load(RunsAlong(s), Tail(left), Head(left), closed) = Load(RunsAlong(s), left, <<>>, closed)
    BY <1>3, RunsCount
  <1>5. \A p : Load(EndsAt(p), Tail(left), Head(left), closed) = Load(EndsAt(p), left, <<>>, closed)
    BY <1>3, EndsCount
  <1>6. Head(left) \in Seq(Positions)
    BY <1>2 DEF Piece
  <1> QED
    BY <1>1, <1>2, <1>4, <1>5, <1>6, Zenon DEF Balanced

(* A ring closes.                                                           *)
LEMMA BalancedWhenClosed ==
  ASSUME NEW ways, NEW left, NEW grown, NEW closed, Balanced(ways, left, grown, closed),
         grown # <<>>, Start(grown) = End(grown)
  PROVE  Balanced(ways, left, <<>>, Append(closed, grown))
  <1>1. /\ ways \in Seq(Piece) /\ left \in Seq(Piece) /\ closed \in Seq(Piece)
        /\ IsClosed(closed) /\ grown \in Piece
    BY DEF Balanced, Piece
  <1>2. Append(closed, grown) \in Seq(Piece)
    BY <1>1
  <1>3. IsClosed(Append(closed, grown))
    BY <1>1 DEF IsClosed
  <1>4. ASSUME NEW F, Counts(Piece, F)
        PROVE  Load(F, left, <<>>, Append(closed, grown)) = Load(F, left, grown, closed)
    BY <1>1, <1>4, LoadMoves
  <1>5. \A s : Load(RunsAlong(s), left, <<>>, Append(closed, grown)) = Load(RunsAlong(s), left, grown, closed)
    BY <1>4, RunsCount
  <1>6. \A p : Load(EndsAt(p), left, <<>>, Append(closed, grown)) = Load(EndsAt(p), left, grown, closed)
    BY <1>4, EndsCount
  <1>7. <<>> \in Seq(Positions)
    OBVIOUS
  <1> QED
    BY <1>1, <1>2, <1>3, <1>5, <1>6, <1>7, Zenon DEF Balanced

(* A ring grows.                                                            *)
LEMMA BalancedWhenGrown ==
  ASSUME NEW ways, NEW left, NEW grown, NEW closed, Balanced(ways, left, grown, closed),
         grown # <<>>, NEW i \in DOMAIN left, Joins(grown, left[i])
  PROVE  Balanced(ways, RemoveAt(left, i), Joined(grown, left[i]), closed)
  <1> DEFINE s == left[i]
             j == Joined(grown, s)
             rest == RemoveAt(left, i)
  <1>1. /\ ways \in Seq(Piece) /\ left \in Seq(Piece) /\ closed \in Seq(Piece)
        /\ IsClosed(closed) /\ grown \in Piece
    BY DEF Balanced, Piece
  <1>2. s \in Piece
    BY <1>1
  <1>3. j \in Piece
    BY <1>1, <1>2, RunsJoined
  <1>4. rest \in Seq(Piece)
    <2>1. Counts(Piece, EndsAt(1))
      BY EndsCount
    <2> QED
      BY <1>1, <2>1, TotalRemove
  <1>5. j # <<>> /\ j \in Seq(Positions)
    BY <1>3 DEF Piece
  <1>6. ASSUME NEW F, Counts(Piece, F), NEW n \in Nat,
               Cardinality(F[grown]) + Cardinality(F[s]) = Cardinality(F[j]) + n
        PROVE  Load(F, left, grown, closed) = Load(F, rest, j, closed) + n
    <2>1. Total(left, F) = Cardinality(F[s]) + Total(rest, F)
      BY <1>1, <1>6, TotalRemove
    <2>2. Total(closed, F) \in Nat /\ Total(rest, F) \in Nat
      BY <1>1, <1>4, <1>6, EntriesFinite
    <2>3. /\ Cardinality(F[s]) \in Nat /\ Cardinality(F[grown]) \in Nat
          /\ Cardinality(F[j]) \in Nat
      BY <1>1, <1>2, <1>3, <1>6, TotalOne
    <2>4. Load(F, left, grown, closed) = Total(closed, F) + Total(left, F) + Cardinality(F[grown])
      BY DEF Load
    <2>5. Load(F, rest, j, closed) = Total(closed, F) + Total(rest, F) + Cardinality(F[j])
      BY <1>5 DEF Load
    <2> HIDE DEF s, j, rest
    <2> QED
      BY <1>6, <2>1, <2>2, <2>3, <2>4, <2>5
  <1> HIDE DEF j, rest
  <1>7. ASSUME NEW t
        PROVE  Load(RunsAlong(t), rest, j, closed) = Total(ways, RunsAlong(t))
    <2>1. Load(RunsAlong(t), left, grown, closed) = Total(ways, RunsAlong(t))
      BY DEF Balanced
    <2>2. Cardinality(RunsAlong(t)[j]) = Cardinality(RunsAlong(t)[grown]) + Cardinality(RunsAlong(t)[s])
      BY <1>1, <1>2, RunsJoined DEF j
    <2>3. Counts(Piece, RunsAlong(t))
      BY RunsCount
    <2>4. Cardinality(RunsAlong(t)[j]) \in Nat
      BY <1>3, <2>3, TotalOne
    <2>5. Cardinality(RunsAlong(t)[grown]) + Cardinality(RunsAlong(t)[s]) = Cardinality(RunsAlong(t)[j]) + 0
      BY <2>2, <2>4
    <2>6. Load(RunsAlong(t), left, grown, closed) = Load(RunsAlong(t), rest, j, closed) + 0
      BY <1>6, <2>3, <2>5
    <2>7. Load(RunsAlong(t), rest, j, closed) \in Nat
      <3>1. Total(closed, RunsAlong(t)) \in Nat /\ Total(rest, RunsAlong(t)) \in Nat
        BY <1>1, <1>4, <2>3, EntriesFinite
      <3> QED
        BY <1>5, <2>4, <3>1 DEF Load
    <2> QED
      BY <2>1, <2>6, <2>7
  <1>8. ASSUME NEW p
        PROVE  \E n \in Nat : Total(ways, EndsAt(p)) = Load(EndsAt(p), rest, j, closed) + 2 * n
    <2>1. PICK n \in Nat : Total(ways, EndsAt(p)) = Load(EndsAt(p), left, grown, closed) + 2 * n
      BY DEF Balanced
    <2>2. Counts(Piece, EndsAt(p))
      BY EndsCount
    <2>3. PICK m \in {0, 1} :
            Cardinality(EndsAt(p)[grown]) + Cardinality(EndsAt(p)[s]) = Cardinality(EndsAt(p)[j]) + 2 * m
      BY <1>1, <1>2, EndsJoined DEF j
    <2>4. 2 * m \in Nat /\ m \in Nat
      BY <2>3
    <2>5. Load(EndsAt(p), left, grown, closed) = Load(EndsAt(p), rest, j, closed) + 2 * m
      BY <1>6, <2>2, <2>3, <2>4
    <2>6. Load(EndsAt(p), rest, j, closed) \in Nat
      <3>1. Total(closed, EndsAt(p)) \in Nat /\ Total(rest, EndsAt(p)) \in Nat
        BY <1>1, <1>4, <2>2, EntriesFinite
      <3>2. Cardinality(EndsAt(p)[j]) \in Nat
        BY <1>3, <2>2, TotalOne
      <3> QED
        BY <1>5, <3>1, <3>2 DEF Load
    <2>7. \A a, b, c \in Nat : (a + 2 * b) + 2 * c = a + 2 * (b + c) /\ b + c \in Nat
      OBVIOUS
    <2>8. Total(ways, EndsAt(p)) = Load(EndsAt(p), rest, j, closed) + 2 * (m + n)
      BY <2>1, <2>4, <2>5, <2>6, <2>7
    <2> QED
      BY <2>1, <2>4, <2>7, <2>8
  <1>9. Balanced(ways, rest, j, closed)
    BY <1>1, <1>3, <1>4, <1>5, <1>7, <1>8, Zenon DEF Balanced
  <1> QED
    BY <1>9 DEF rest, j, s

-----------------------------------------------------------------------------
(* The conversion of a relation. *)

(* What is stitched are the pieces the relation's ways pass along.          *)
LEMMA WaysType ==
  ASSUME relation \in AreaRelations, NEW inner \in BOOLEAN
  PROVE  RoleWays(inner) \in Seq(Piece)
  <1> DEFINE one(i) == IF (relation[i].role = "inner") = inner THEN <<relation[i].way>> ELSE <<>>
             ss == [i \in DOMAIN relation |-> one(i)]
  <1> DEFINE M == [role : {"outer", "inner", ""}, way : Seq(Positions) \ {<<>>}]
  <1>0. relation \in Seq(M) /\ \A w \in M : w.way \in Piece
    BY AssemblyAssumption DEF Piece
  <1> HIDE DEF M
  <1>1. \A i \in DOMAIN relation : relation[i].way \in Piece
    <2>1. \A i \in DOMAIN relation : relation[i] \in M
      BY <1>0
    <2> QED
      BY <1>0, <2>1, Zenon
  <1>2. \A i \in DOMAIN relation : ss[i] \in Seq(Piece)
    BY <1>1
  <1>3. PICK k \in Nat : DOMAIN relation = 1..k
    BY <1>0
  <1>4. RoleWays(inner) = FlattenSeq(ss)
    BY DEF RoleWays
  <1>5. ss = [i \in 1..k |-> ss[i]] /\ Len(ss) = k
    BY <1>3
  <1> HIDE DEF ss
  <1>6. FlattenSeq(ss) \in Seq(Piece)
    BY <1>2, <1>3, <1>5, FlattenType
  <1> QED
    BY <1>4, <1>6

(* Whatever has been done, the pieces balance the ways; stitchRings has     *)
(* given up only on a ring that nothing left joins, and has returned only   *)
(* with nothing left.                                                       *)
StitchInv ==
    /\ relation \in AreaRelations
    /\ Balanced(segments, remaining, ring, rings)
    /\ result = "open ring" => Open /\ \A i \in DOMAIN remaining : ~Joins(ring, remaining[i])
    /\ result = "nil" => ring = <<>> /\ remaining = <<>>

(* Before a ring is stitched.                                               *)
LEMMA InitStitches == AssemblyInit => StitchInv
  <1> SUFFICES ASSUME AssemblyInit  PROVE StitchInv
    OBVIOUS
  <1>1. /\ relation \in AreaRelations /\ segments = RoleWays(FALSE) /\ remaining = segments
        /\ ring = <<>> /\ rings = <<>> /\ result = Checked(segments)
    BY DEF AssemblyInit
  <1>2. segments \in Seq(Piece)
    BY <1>1, WaysType
  <1>3. Balanced(segments, remaining, ring, rings)
    BY <1>1, <1>2, BalancedAtFirst
  <1>4. result # "open ring" /\ result # "nil"
    BY <1>1 DEF Checked
  <1> QED
    BY <1>1, <1>3, <1>4 DEF StitchInv

(* A step of stitchRings.                                                   *)
LEMMA StitchStep ==
  ASSUME StitchInv, Stitch, relation' = relation
  PROVE  StitchInv'
  <1>1. relation' \in AreaRelations
    BY DEF StitchInv
  <1>2. Balanced(segments, remaining, ring, rings)
    BY DEF StitchInv
  <1>3. CASE TakeSegment
    <2>1. /\ result = "" /\ ring = <<>> /\ remaining # <<>>
          /\ ring' = Head(remaining) /\ remaining' = Tail(remaining)
          /\ segments' = segments /\ rings' = rings /\ result' = result
      BY <1>3 DEF TakeSegment
    <2>2. Balanced(segments, Tail(remaining), Head(remaining), rings)
      BY <1>2, <2>1, BalancedWhenTaken
    <2>3. Balanced(segments', remaining', ring', rings')
      BY <2>1, <2>2
    <2> QED
      BY <1>1, <2>1, <2>3 DEF StitchInv
  <1>4. CASE Grow
    <2>1. /\ result = "" /\ Open
          /\ segments' = segments /\ rings' = rings /\ result' = result
      BY <1>4 DEF Grow
    <2>2. PICK i \in DOMAIN remaining : FirstThatJoins(i) /\ Join(i)
      BY <1>4 DEF Grow
    <2>3. /\ Joins(ring, remaining[i]) /\ ring' = Joined(ring, remaining[i])
          /\ remaining' = RemoveAt(remaining, i) /\ ring # <<>>
      BY <2>1, <2>2 DEF FirstThatJoins, Join, Open
    <2>4. Balanced(segments, RemoveAt(remaining, i), Joined(ring, remaining[i]), rings)
      BY <1>2, <2>3, BalancedWhenGrown
    <2>5. Balanced(segments', remaining', ring', rings')
      BY <2>1, <2>3, <2>4
    <2> QED
      BY <1>1, <2>1, <2>5 DEF StitchInv
  <1>5. CASE Stuck
    <2>1. /\ Open /\ \A i \in DOMAIN remaining : ~Joins(ring, remaining[i])
          /\ result' = "open ring" /\ segments' = segments /\ remaining' = remaining
          /\ ring' = ring /\ rings' = rings
      BY <1>5 DEF Stuck
    <2>2. Open' /\ \A i \in DOMAIN remaining' : ~Joins(ring', remaining'[i])
      BY <2>1 DEF Open
    <2>3. Balanced(segments', remaining', ring', rings')
      BY <1>2, <2>1
    <2> QED
      BY <1>1, <2>1, <2>2, <2>3 DEF StitchInv
  <1>6. CASE CloseRing
    <2>1. /\ result = "" /\ ring # <<>> /\ Start(ring) = End(ring)
          /\ segments' = segments /\ remaining' = remaining
      BY <1>6 DEF CloseRing, Open
    <2>2. CASE Len(ring) < 4
      <3>1. result' = "short ring" /\ ring' = ring /\ rings' = rings
        BY <1>6, <2>2 DEF CloseRing
      <3>2. Balanced(segments', remaining', ring', rings')
        BY <1>2, <2>1, <3>1
      <3> QED
        BY <1>1, <3>1, <3>2 DEF StitchInv
    <2>3. CASE ~(Len(ring) < 4)
      <3>1. rings' = Append(rings, ring) /\ ring' = <<>> /\ result' = result
        BY <1>6, <2>3 DEF CloseRing
      <3>2. Balanced(segments, remaining, <<>>, Append(rings, ring))
        BY <1>2, <2>1, BalancedWhenClosed
      <3>3. Balanced(segments', remaining', ring', rings')
        BY <2>1, <3>1, <3>2
      <3> QED
        BY <1>1, <2>1, <3>1, <3>3 DEF StitchInv
    <2> QED
      BY <2>2, <2>3
  <1>7. CASE Return
    <2>1. /\ ring = <<>> /\ remaining = <<>> /\ result' = "nil" /\ segments' = segments
          /\ remaining' = remaining /\ ring' = ring /\ rings' = rings
      BY <1>7 DEF Return
    <2>2. Balanced(segments', remaining', ring', rings')
      BY <1>2, <2>1
    <2> QED
      BY <1>1, <2>1, <2>2 DEF StitchInv
  <1> QED
    BY <1>3, <1>4, <1>5, <1>6, <1>7 DEF Stitch

(* A step that stitches nothing.                                            *)
LEMMA StitchStays ==
  ASSUME StitchInv, UNCHANGED <<stitching, relation>>
  PROVE  StitchInv'
  BY DEF StitchInv, stitching, Open

(* Every step.                                                              *)
LEMMA NextStitches == StitchInv /\ [AssemblyNext]_assemblyVars => StitchInv'
  <1> SUFFICES ASSUME StitchInv, [AssemblyNext]_assemblyVars  PROVE StitchInv'
    OBVIOUS
  <1>1. CASE StitchRing
    BY <1>1, StitchStep DEF StitchRing
  <1>2. CASE Refused
    BY <1>2, StitchStays DEF Refused
  <1>3. CASE OuterRings
    <2>1. CASE rings = <<>>
      BY <1>3, <2>1, StitchStays DEF OuterRings
    <2>2. CASE rings # <<>>
      <3>1. /\ relation' = relation /\ segments' = RoleWays(TRUE) /\ remaining' = RoleWays(TRUE)
            /\ ring' = <<>> /\ rings' = <<>> /\ result' = Checked(RoleWays(TRUE))
        BY <1>3, <2>2 DEF OuterRings, Begin
      <3>2. relation \in AreaRelations
        BY DEF StitchInv
      <3>3. RoleWays(TRUE) \in Seq(Piece)
        BY <3>2, WaysType
      <3>4. Balanced(RoleWays(TRUE), RoleWays(TRUE), <<>>, <<>>)
        BY <3>3, BalancedAtFirst
      <3>5. Balanced(segments', remaining', ring', rings')
        BY <3>1, <3>4
      <3>6. result' # "open ring" /\ result' # "nil"
        BY <3>1 DEF Checked
      <3> QED
        BY <3>1, <3>2, <3>5, <3>6 DEF StitchInv
    <2> QED
      BY <2>1, <2>2
  <1>4. CASE PlaceHole
    BY <1>4, StitchStays DEF PlaceHole
  <1>5. CASE Encode
    BY <1>5, StitchStays DEF Encode
  <1>6. CASE AssemblyReturned
    BY <1>6, StitchStays DEF AssemblyReturned, assemblyVars
  <1>7. CASE UNCHANGED assemblyVars
    BY <1>7, StitchStays DEF assemblyVars
  <1> QED
    BY <1>1, <1>2, <1>3, <1>4, <1>5, <1>6, <1>7 DEF AssemblyNext

(* What holds of the pieces holds throughout.                               *)
LEMMA Stitched == AssemblySpec => []StitchInv
  BY InitStitches, NextStitches, PTL DEF AssemblySpec

(* The pieces pass along every stretch as often as the ways do.             *)
LEMMA StretchesBalance == StitchInv => StretchesConserved
  <1> SUFFICES ASSUME StitchInv, NEW s  PROVE Passes(Pieces, s) = Passes(segments, s)
    BY DEF StretchesConserved
  <1> DEFINE F == RunsAlong(s)
             last == IF ring = <<>> THEN <<>> ELSE <<ring>>
  <1>1. /\ segments \in Seq(Piece) /\ remaining \in Seq(Piece) /\ rings \in Seq(Piece)
        /\ ring \in Seq(Positions)
        /\ Load(F, remaining, ring, rings) = Total(segments, F)
    BY DEF StitchInv, Balanced
  <1>2. ring # <<>> => ring \in Piece
    BY <1>1 DEF Piece
  <1>3. Counts(Piece, F)
    BY RunsCount
  <1> HIDE DEF F
  <1>4. last \in Seq(Piece) /\ Total(last, F) = IF ring = <<>> THEN 0 ELSE Cardinality(F[ring])
    BY <1>2, <1>3, TotalOne, TotalNone
  <1> HIDE DEF last
  <1>5. rings \o remaining \in Seq(Piece) /\ Pieces = (rings \o remaining) \o last
    BY <1>1 DEF Pieces, last
  <1>6. Pieces \in Seq(Piece)
    BY <1>4, <1>5, ConcatProperties
  <1>7. Total(Pieces, F) = Total(rings \o remaining, F) + Total(last, F)
    BY <1>3, <1>4, <1>5, TotalConcat
  <1>8. Total(rings \o remaining, F) = Total(rings, F) + Total(remaining, F)
    BY <1>1, <1>3, TotalConcat
  <1>9. Total(Pieces, F) = Total(segments, F)
    BY <1>1, <1>4, <1>7, <1>8 DEF Load
  <1>10. Passes(Pieces, s) = Total(Pieces, F) /\ Passes(segments, s) = Total(segments, F)
    BY <1>1, <1>6, PassesIs DEF F
  <1> QED
    BY <1>9, <1>10

(* A ring that stays open has an odd number of ways at its start; when all  *)
(* rings have closed, there is no such position.                            *)
LEMMA EndsBalance == StitchInv => StuckMeansOdd
  <1> SUFFICES ASSUME StitchInv  PROVE StuckMeansOdd
    OBVIOUS
  <1>1. /\ segments \in Seq(Piece) /\ remaining \in Seq(Piece) /\ rings \in Seq(Piece)
        /\ ring \in Seq(Positions) /\ IsClosed(rings)
    BY DEF StitchInv, Balanced
  <1>2. \A p : \E n \in Nat :
          Total(segments, EndsAt(p)) = Load(EndsAt(p), remaining, ring, rings) + 2 * n
    BY DEF StitchInv, Balanced
  <1>3. \A p : Ends(p) = Total(segments, EndsAt(p))
    BY <1>1, EndsAre DEF Ends
  <1>4. \A p : \E n \in Nat : Total(rings, EndsAt(p)) = 2 * n
    BY <1>1, ClosedEnds DEF IsClosed
  <1>5. ASSUME result = "open ring"  PROVE \E p \in Met : Ends(p) % 2 = 1
    <2> DEFINE p == Start(ring)
               L == Load(EndsAt(p), remaining, ring, rings)
    <2>1. /\ ring # <<>> /\ Start(ring) # End(ring)
          /\ \A i \in DOMAIN remaining : ~Joins(ring, remaining[i])
      BY <1>5 DEF StitchInv, Open
    <2>2. ring \in Piece
      BY <1>1, <2>1 DEF Piece
    <2>3. Total(remaining, EndsAt(p)) = 0
      <3>1. \A i \in DOMAIN remaining : Start(remaining[i]) # p /\ End(remaining[i]) # p
        BY <2>1 DEF Joins
      <3> HIDE DEF p
      <3> QED
        BY <1>1, <3>1, NoEnds
    <2>4. Cardinality(EndsAt(p)[ring]) = 1
      BY <2>1, <2>2, EndsOf
    <2> HIDE DEF p
    <2>5. PICK a \in Nat : Total(rings, EndsAt(p)) = 2 * a
      BY <1>4
    <2>6. L = 2 * a + 1
      BY <2>1, <2>3, <2>4, <2>5 DEF Load
    <2> HIDE DEF L
    <2>7. PICK n \in Nat : Total(segments, EndsAt(p)) = L + 2 * n
      BY <1>2 DEF L
    <2>8. Ends(p) = 2 * (a + n) + 1 /\ a + n \in Nat
      BY <1>3, <2>6, <2>7
    <2>9. \A k \in Nat : (2 * k + 1) % 2 = 1 /\ 2 * k + 1 # 0
      OBVIOUS
    <2>10. Ends(p) % 2 = 1 /\ Ends(p) # 0
      BY <2>8, <2>9
    <2>11. p \in Met
      <3>1. PICK i \in DOMAIN segments : Start(segments[i]) = p \/ End(segments[i]) = p
        BY <1>1, <1>3, <2>10, NoEnds
      <3>2. segments[i] \in Piece /\ segments[i] \in ToSet(segments)
        BY <1>1 DEF ToSet
      <3>3. p \in ToSet(segments[i])
        <4>1. 1 \in DOMAIN segments[i] /\ Len(segments[i]) \in DOMAIN segments[i]
          BY <3>2 DEF Piece
        <4> QED
          BY <3>1, <4>1 DEF ToSet, Start, End
      <3> QED
        BY <3>2, <3>3 DEF Met
    <2> QED
      BY <2>10, <2>11
  <1>6. ASSUME result = "nil", NEW p \in Met  PROVE Ends(p) % 2 = 0
    <2>1. ring = <<>> /\ remaining = <<>>
      BY <1>6 DEF StitchInv
    <2>2. PICK a \in Nat : Total(rings, EndsAt(p)) = 2 * a
      BY <1>4
    <2>3. Total(remaining, EndsAt(p)) = 0
      BY <2>1, TotalNone
    <2>4. Load(EndsAt(p), remaining, ring, rings) = 2 * a
      BY <2>1, <2>2, <2>3 DEF Load
    <2>5. PICK n \in Nat : Total(segments, EndsAt(p)) = 2 * a + 2 * n
      BY <1>2, <2>4
    <2>6. Ends(p) = 2 * (a + n) /\ a + n \in Nat
      BY <1>3, <2>5
    <2>7. \A k \in Nat : (2 * k) % 2 = 0
      OBVIOUS
    <2> QED
      BY <2>6, <2>7
  <1> QED
    BY <1>5, <1>6 DEF StuckMeansOdd

(* Theorem.  Whatever ways a relation has, in whatever order and direction, *)
(* stitchRings loses, doubles and invents no stretch of a way, wherever it  *)
(* stops.                                                                   *)
THEOREM StretchesConservedCorrect == AssemblySpec => []StretchesConserved
  BY Stitched, StretchesBalance, PTL

(* Theorem.  Taking the first way that fits, without ever going back, is    *)
(* enough: however many ways there are, stitchRings gives up only on ways   *)
(* that no order of joining closes, for an odd number of them ends at some  *)
(* position, and returns rings only where none does.                        *)
THEOREM StuckMeansOddCorrect == AssemblySpec => []StuckMeansOdd
  BY Stitched, EndsBalance, PTL

-----------------------------------------------------------------------------
(* The area of a ring. *)

(* The function SignedArea takes its value from, for n edges.               *)
IsSum(f, r, n) ==
    f = [i \in 0..n |-> IF i = 0 THEN 0
                        ELSE f[i - 1] + (r[i][1] * r[i + 1][2] - r[i + 1][1] * r[i][2])]

(* There is such a function.                                                *)
LEMMA SumExists ==
  ASSUME NEW r, NEW n \in Nat
  PROVE  \E f : IsSum(f, r, n)
  <1> DEFINE edge(i) == r[i][1] * r[i + 1][2] - r[i + 1][1] * r[i][2]
             D == {k \in 0..n : \E f : IsSum(f, r, k)}
  <1>1. 0 \in D
    <2>1. IsSum([i \in 0..0 |-> 0], r, 0)
      BY DEF IsSum
    <2> QED
      BY <2>1
  <1>2. ASSUME NEW k \in 0..n - 1, k \in D  PROVE k + 1 \in D
    <2>1. PICK f : IsSum(f, r, k)
      BY <1>2
    <2>2. f = [i \in 0..k |-> IF i = 0 THEN 0 ELSE f[i - 1] + edge(i)]
      BY <2>1 DEF IsSum
    <2> HIDE DEF edge
    <2> DEFINE g == [i \in 0..k + 1 |-> IF i = 0 THEN 0 ELSE f[i - 1] + edge(i)]
    <2>3. \A i \in 0..k : g[i] = f[i]
      <3>1. \A i \in 0..k : f[i] = IF i = 0 THEN 0 ELSE f[i - 1] + edge(i)
        BY <2>2
      <3>2. \A i \in 0..k : i \in 0..k + 1
        OBVIOUS
      <3> QED
        BY <3>1, <3>2
    <2>4. \A i \in 0..k + 1 : i # 0 => i - 1 \in 0..k
      OBVIOUS
    <2>5. g = [i \in 0..k + 1 |-> IF i = 0 THEN 0 ELSE g[i - 1] + edge(i)]
      BY <2>3, <2>4
    <2> HIDE DEF g
    <2>6. IsSum(g, r, k + 1)
      BY <2>5 DEF IsSum, edge
    <2>7. k + 1 \in 0..n
      OBVIOUS
    <2> QED
      BY <2>6, <2>7
  <1> HIDE DEF D
  <1>3. n \in D
    BY <1>1, <1>2, UpTo
  <1> QED
    BY <1>3 DEF D

(* What SignedArea is, without a choice.                                    *)
LEMMA AreaIs ==
  ASSUME NEW r, Len(r) - 1 \in Nat
  PROVE  \E f : IsSum(f, r, Len(r) - 1) /\ SignedArea(r) = f[Len(r) - 1]
  <1> DEFINE f == CHOOSE f : f = [i \in 0..Len(r)-1 |->
                    IF i = 0 THEN 0
                    ELSE f[i-1] + (r[i][1] * r[i+1][2] - r[i+1][1] * r[i][2])]
  <1>1. \E g : g = [i \in 0..Len(r)-1 |->
                    IF i = 0 THEN 0
                    ELSE g[i-1] + (r[i][1] * r[i+1][2] - r[i+1][1] * r[i][2])]
    BY SumExists DEF IsSum
  <1>2. IsSum(f, r, Len(r) - 1)
    BY <1>1 DEF IsSum
  <1>3. SignedArea(r) = f[Len(r) - 1]
    BY DEF SignedArea
  <1> QED
    BY <1>2, <1>3

(* What such a function has at an index.                                    *)
LEMMA SumAt ==
  ASSUME NEW r, NEW n \in Nat, NEW f, IsSum(f, r, n)
  PROVE  /\ f[0] = 0
         /\ \A i \in 1..n : f[i] = f[i - 1] + (r[i][1] * r[i + 1][2] - r[i + 1][1] * r[i][2])
  <1> DEFINE edge(i) == r[i][1] * r[i + 1][2] - r[i + 1][1] * r[i][2]
  <1>1. f = [i \in 0..n |-> IF i = 0 THEN 0 ELSE f[i - 1] + edge(i)]
    BY DEF IsSum
  <1> HIDE DEF edge
  <1>2. 0 \in 0..n /\ \A i \in 1..n : i \in 0..n /\ i # 0
    OBVIOUS
  <1>3. f[0] = 0 /\ \A i \in 1..n : f[i] = f[i - 1] + edge(i)
    BY <1>1, <1>2
  <1> QED
    BY <1>3 DEF edge

(* The positions of a piece are pairs of integers.                          *)
LEMMA PieceInts ==
  ASSUME NEW r \in Piece
  PROVE  /\ Len(r) - 1 \in Nat
         /\ \A i \in 1..Len(r) : r[i][1] \in Int /\ r[i][2] \in Int
  <1>1. r \in Seq(Positions) /\ Len(r) \in Nat \ {0}
    BY DEF Piece
  <1>2. \A i \in 1..Len(r) : r[i] \in Positions
    BY <1>1
  <1>3. \A p \in Positions : p[1] \in Int /\ p[2] \in Int
    BY AssemblyAssumption, Zenon
  <1> QED
    BY <1>1, <1>2, <1>3

(* The sums of a piece are integers.                                        *)
LEMMA SumType ==
  ASSUME NEW r \in Piece, NEW f, IsSum(f, r, Len(r) - 1)
  PROVE  \A k \in 0..Len(r) - 1 : f[k] \in Int
  <1> DEFINE n == Len(r) - 1
             D == {k \in 0..n : f[k] \in Int}
  <1>1. n \in Nat /\ \A i \in 1..n + 1 : r[i][1] \in Int /\ r[i][2] \in Int
    BY PieceInts
  <1>2. /\ f[0] = 0
        /\ \A i \in 1..n : f[i] = f[i - 1] + (r[i][1] * r[i + 1][2] - r[i + 1][1] * r[i][2])
    BY <1>1, SumAt
  <1> HIDE DEF n
  <1>3. 0 \in D
    BY <1>1, <1>2
  <1>4. ASSUME NEW k \in 0..n - 1, k \in D  PROVE k + 1 \in D
    <2>1. k + 1 \in 1..n /\ k + 1 \in 1..n + 1 /\ (k + 1) + 1 \in 1..n + 1 /\ (k + 1) - 1 = k
      BY <1>1
    <2>2. \A a, b, c, d \in Int : a * b - c * d \in Int
      OBVIOUS
    <2>3. r[k + 1][1] * r[(k + 1) + 1][2] - r[(k + 1) + 1][1] * r[k + 1][2] \in Int
      BY <1>1, <2>1, <2>2
    <2>4. f[k + 1] = f[k] + (r[k + 1][1] * r[(k + 1) + 1][2] - r[(k + 1) + 1][1] * r[k + 1][2])
      BY <1>2, <2>1
    <2> QED
      BY <2>1, <2>3, <2>4, <1>4
  <1> HIDE DEF D
  <1>5. \A k \in 0..n : k \in D
    BY <1>1, <1>3, <1>4, UpTo
  <1> QED
    BY <1>5 DEF D, n

(* A ring turned round encloses as much on its other side.                  *)
LEMMA AreaTurned ==
  ASSUME NEW r \in Piece
  PROVE  SignedArea(r) \in Int /\ SignedArea(Reverse(r)) = -SignedArea(r)
  <1> DEFINE n == Len(r) - 1
             t == Reverse(r)
  <1>1. /\ n \in Nat /\ Len(r) = n + 1
        /\ \A i \in 1..n + 1 : r[i][1] \in Int /\ r[i][2] \in Int
    BY PieceInts
  <1>2. /\ t \in Piece /\ Len(t) = n + 1 /\ Len(t) - 1 = n
        /\ \A i \in 1..n + 1 : t[i] = r[(n + 1) - i + 1]
    BY <1>1, TurnedAt
  <1>3. PICK f : IsSum(f, r, n) /\ SignedArea(r) = f[n]
    BY <1>1, AreaIs
  <1>4. PICK g : IsSum(g, t, n) /\ SignedArea(t) = g[n]
    BY <1>1, <1>2, AreaIs
  <1>5. \A k \in 0..n : f[k] \in Int
    BY <1>3, SumType
  <1>6. /\ f[0] = 0
        /\ \A i \in 1..n : f[i] = f[i - 1] + (r[i][1] * r[i + 1][2] - r[i + 1][1] * r[i][2])
    BY <1>1, <1>3, SumAt
  <1>7. /\ g[0] = 0
        /\ \A i \in 1..n : g[i] = g[i - 1] + (t[i][1] * t[i + 1][2] - t[i + 1][1] * t[i][2])
    BY <1>1, <1>4, SumAt
  <1> HIDE DEF n, t
  <1> DEFINE D == {k \in 0..n : g[k] = f[n - k] - f[n]}
  <1>8. 0 \in D
    <2>1. n \in 0..n /\ n - 0 = n /\ 0 \in 0..n
      BY <1>1
    <2>2. f[n] - f[n] = 0
      BY <1>5, <2>1
    <2> QED
      BY <1>7, <2>1, <2>2
  <1>9. ASSUME NEW k \in 0..n - 1, k \in D  PROVE k + 1 \in D
    <2> DEFINE m == n - k
    <2>1. /\ m \in 1..n /\ m \in 1..n + 1 /\ m + 1 \in 1..n + 1 /\ m - 1 = n - (k + 1)
          /\ k + 1 \in 1..n /\ k + 1 \in 0..n /\ (k + 1) - 1 = k
          /\ k + 1 \in 1..n + 1 /\ (k + 1) + 1 \in 1..n + 1
          /\ (n + 1) - (k + 1) + 1 = m + 1 /\ (n + 1) - ((k + 1) + 1) + 1 = m
          /\ m \in 0..n /\ m - 1 \in 0..n /\ n \in 0..n
      BY <1>1
    <2>2. t[k + 1] = r[m + 1] /\ t[(k + 1) + 1] = r[m]
      BY <1>2, <2>1
    <2>3. g[k + 1] = g[k] + (t[k + 1][1] * t[(k + 1) + 1][2] - t[(k + 1) + 1][1] * t[k + 1][2])
      BY <1>7, <2>1
    <2>4. f[m] = f[m - 1] + (r[m][1] * r[m + 1][2] - r[m + 1][1] * r[m][2])
      BY <1>6, <2>1
    <2>5. g[k] = f[m] - f[n]
      BY <1>9
    <2> HIDE DEF m
    <2>6. /\ r[m][1] \in Int /\ r[m][2] \in Int /\ r[m + 1][1] \in Int /\ r[m + 1][2] \in Int
          /\ f[m - 1] \in Int /\ f[n] \in Int
      BY <1>1, <1>5, <2>1
    <2>7. g[k + 1] = f[m] - f[n] + (r[m + 1][1] * r[m][2] - r[m][1] * r[m + 1][2])
      BY <2>2, <2>3, <2>5
    <2>8. \A a, b, c, d, x, y \in Int : (x + (a * d - c * b)) - y + (c * b - a * d) = x - y
      OBVIOUS
    <2>9. g[k + 1] = f[m - 1] - f[n]
      BY <2>4, <2>6, <2>7, <2>8
    <2> QED
      BY <2>1, <2>9
  <1> HIDE DEF D
  <1>10. \A k \in 0..n : k \in D
    BY <1>1, <1>8, <1>9, UpTo
  <1>11. n \in 0..n /\ n - n = 0
    BY <1>1
  <1>12. f[n] \in Int /\ g[n] = f[n - n] - f[n]
    BY <1>5, <1>10, <1>11 DEF D
  <1>13. g[n] = -f[n]
    BY <1>6, <1>11, <1>12
  <1> QED
    BY <1>3, <1>4, <1>12, <1>13 DEF t

(* Normalised, an outer ring turns left and a hole right; either has as     *)
(* many stretches as before.                                                *)
LEMMA NormalizedRing ==
  ASSUME NEW r \in Piece
  PROVE  /\ Normalized(r, FALSE) \in Piece /\ Normalized(r, TRUE) \in Piece
         /\ SignedArea(Normalized(r, FALSE)) >= 0 /\ SignedArea(Normalized(r, TRUE)) <= 0
         /\ \A s : Cardinality(Runs(Normalized(r, FALSE), s)) = Cardinality(Runs(r, s))
         /\ \A s : Cardinality(Runs(Normalized(r, TRUE), s)) = Cardinality(Runs(r, s))
  <1>1. SignedArea(r) \in Int /\ SignedArea(Reverse(r)) = -SignedArea(r)
    BY AreaTurned
  <1>2. Reverse(r) \in Piece
    BY TurnedAt
  <1>3. \A s : Cardinality(Runs(Reverse(r), s)) = Cardinality(Runs(r, s))
    BY RunsTurned
  <1>4. CASE SignedArea(r) < 0
    <2>1. Normalized(r, FALSE) = Reverse(r) /\ Normalized(r, TRUE) = r
      BY <1>4 DEF Normalized
    <2>2. SignedArea(Reverse(r)) >= 0 /\ SignedArea(r) <= 0
      BY ONLY <1>1, <1>4
    <2>3. r \in Piece
      OBVIOUS
    <2> QED
      BY <1>2, <1>3, <2>1, <2>2, <2>3, Zenon
  <1>5. CASE ~(SignedArea(r) < 0)
    <2>1. Normalized(r, FALSE) = r /\ Normalized(r, TRUE) = Reverse(r)
      BY <1>5 DEF Normalized
    <2>2. SignedArea(r) >= 0 /\ SignedArea(Reverse(r)) <= 0
      BY ONLY <1>1, <1>5
    <2>3. r \in Piece
      OBVIOUS
    <2> QED
      BY <1>2, <1>3, <2>1, <2>2, <2>3, Zenon
  <1> QED
    BY <1>4, <1>5

(* Of several numbers there is a smallest, and a first of the smallest.     *)
LEMMA FirstSmallest ==
  ASSUME NEW n \in Nat, NEW S, S \subseteq 1..n, S # {},
         NEW size, \A i \in S : size[i] \in Int
  PROVE  \E i \in S : \A j \in S : size[i] < size[j] \/ (size[i] = size[j] /\ i <= j)
  <1> DEFINE Least(T) == \E i \in T : \A j \in T : size[i] < size[j] \/ (size[i] = size[j] /\ i <= j)
             Part(k) == {i \in S : i <= k}
             D == {k \in 0..n : Part(k) = {} \/ Least(Part(k))}
  <1>0. \A i \in S : i \in Int /\ 1 <= i /\ i <= n
    BY SMT
  <1>1. 0 \in D
    <2>1. \A i \in S : ~(i <= 0)
      BY <1>0
    <2>2. Part(0) = {}
      BY <2>1, Zenon
    <2> HIDE DEF Least, Part
    <2> QED
      BY <2>2
  <1>2. ASSUME NEW k \in 0..n - 1, k \in D  PROVE k + 1 \in D
    <2>1. k + 1 \in 0..n
      OBVIOUS
    <2>0. \A i \in S : i <= k + 1 <=> i <= k \/ i = k + 1
      BY <1>0
    <2>2. CASE k + 1 \notin S
      <3>1. Part(k + 1) = Part(k)
        BY <2>0, <2>2, Zenon
      <3> HIDE DEF Least, Part
      <3> QED
        BY <1>2, <2>1, <3>1
    <2>3. CASE k + 1 \in S
      <3>0. k + 1 <= k + 1
        OBVIOUS
      <3>1. Part(k + 1) = Part(k) \cup {k + 1}
        BY <2>0, <2>3, <3>0, Zenon
      <3>2. CASE Part(k) = {}
        <4>1. Part(k + 1) = {k + 1}
          BY <3>1, <3>2
        <4>2. size[k + 1] = size[k + 1] /\ k + 1 <= k + 1
          OBVIOUS
        <4>3. Least({k + 1})
          BY <4>2
        <4> HIDE DEF Least, Part
        <4> QED
          BY <2>1, <4>1, <4>3
      <3>3. CASE Part(k) # {}
        <4>1. PICK i \in Part(k) : \A j \in Part(k) : size[i] < size[j] \/ (size[i] = size[j] /\ i <= j)
          BY <1>2, <3>3
        <4>2. /\ \A j \in Part(k) : size[j] \in Int /\ j \in Int /\ j <= k
              /\ size[k + 1] \in Int
          BY <1>0, <2>3
        <4>3. CASE size[k + 1] < size[i]
          <5>1. \A j \in Part(k) : size[k + 1] < size[j]
            BY <4>1, <4>2, <4>3
          <5>2. Least(Part(k) \cup {k + 1})
            BY <5>1
          <5> HIDE DEF Least, Part
          <5> QED
            BY <2>1, <3>1, <5>2
        <4>4. CASE ~(size[k + 1] < size[i])
          <5>1. size[i] < size[k + 1] \/ (size[i] = size[k + 1] /\ i <= k + 1)
            BY <4>2, <4>4
          <5>2. Least(Part(k) \cup {k + 1})
            BY <4>1, <5>1
          <5> HIDE DEF Least, Part
          <5> QED
            BY <2>1, <3>1, <5>2
        <4> QED
          BY <4>3, <4>4
      <3> QED
        BY <3>2, <3>3
    <2> QED
      BY <2>2, <2>3
  <1> HIDE DEF D
  <1>3. n \in D
    BY <1>1, <1>2, UpTo
  <1>4. Part(n) = S
    BY <1>0
  <1> QED
    BY <1>3, <1>4 DEF D

-----------------------------------------------------------------------------
(* What the polygons are counted for. *)

(* The sequences of ss one after the other, h[k] of the first k.            *)
IsBuilt(h, S, ss, n) ==
    /\ h[0] = <<>> /\ h[n] = FlattenSeq(ss)
    /\ \A k \in 0..n : h[k] \in Seq(S)
    /\ \A k \in 0..n - 1 : h[k + 1] = h[k] \o ss[k + 1]

(* FlattenSeq, one sequence after the other.                                *)
LEMMA FlattenSteps ==
  ASSUME NEW S, NEW n \in Nat, NEW ss \in [1..n -> Seq(S)], Len(ss) = n
  PROVE  \E h : IsBuilt(h, S, ss, n)
  <1>1. CASE n = 0
    <2>1. ss = <<>>
      BY <1>1, SMT
    <2>2. FlattenSeq(ss) = <<>>
      BY <2>1 DEF FlattenSeq
    <2> DEFINE h == [k \in 0..0 |-> <<>>]
    <2>3. /\ h[0] = <<>> /\ \A k \in 0..n : h[k] \in Seq(S)
          /\ 0..n - 1 = {}
      BY <1>1
    <2> HIDE DEF h
    <2>4. IsBuilt(h, S, ss, n)
      BY <1>1, <2>2, <2>3 DEF IsBuilt
    <2> QED
      BY <2>4
  <1>2. CASE n # 0
    <2>1. PICK f : IsFlat(f, ss, n) /\ FlattenSeq(ss) = f[n]
      BY <1>2, FlattenIs
    <2> DEFINE h == [k \in 0..n |-> IF k = 0 THEN <<>> ELSE f[k]]
    <2>2. h[0] = <<>> /\ h[n] = FlattenSeq(ss)
      BY <1>2, <2>1
    <2>3. \A k \in 0..n - 1 : h[k + 1] = h[k] \o ss[k + 1]
      <3> SUFFICES ASSUME NEW k \in 0..n - 1  PROVE h[k + 1] = h[k] \o ss[k + 1]
        OBVIOUS
      <3>1. k + 1 \in 1..n /\ (k + 1) - 1 = k /\ k + 1 \in 0..n /\ k \in 0..n /\ k + 1 # 0
        OBVIOUS
      <3>2. f[k + 1] = IF k + 1 = 1 THEN ss[k + 1] ELSE f[k] \o ss[k + 1]
        BY <2>1, <3>1, FlatAt
      <3>3. h[k + 1] = f[k + 1]
        BY <3>1
      <3>4. CASE k = 0
        <4>1. ss[k + 1] \in Seq(S)
          BY <3>1
        <4>2. <<>> \o ss[k + 1] = ss[k + 1]
          BY <4>1
        <4>3. h[k] = <<>> /\ k + 1 = 1
          BY <3>4
        <4> QED
          BY <3>2, <3>3, <4>2, <4>3
      <3>5. CASE k # 0
        <4>1. h[k] = f[k] /\ k + 1 # 1
          BY <3>1, <3>5
        <4> QED
          BY <3>2, <3>3, <4>1
      <3> QED
        BY <3>4, <3>5
    <2> HIDE DEF h
    <2> DEFINE D == {k \in 0..n : h[k] \in Seq(S)}
    <2>4. 0 \in D
      <3>1. 0 \in 0..n /\ <<>> \in Seq(S)
        OBVIOUS
      <3> QED
        BY <2>2, <3>1
    <2>5. ASSUME NEW k \in 0..n - 1, k \in D  PROVE k + 1 \in D
      <3>1. k + 1 \in 1..n /\ k + 1 \in 0..n
        OBVIOUS
      <3>2. h[k] \in Seq(S) /\ ss[k + 1] \in Seq(S)
        BY <2>5, <3>1
      <3>3. h[k] \o ss[k + 1] \in Seq(S)
        BY <3>2, ConcatProperties
      <3> QED
        BY <2>3, <3>1, <3>3
    <2> HIDE DEF D
    <2>6. \A k \in 0..n : k \in D
      BY <2>4, <2>5, UpTo
    <2>7. \A k \in 0..n : h[k] \in Seq(S)
      BY <2>6 DEF D
    <2>8. IsBuilt(h, S, ss, n)
      BY <2>2, <2>3, <2>7 DEF IsBuilt
    <2> QED
      BY <2>8
  <1> QED
    BY <1>1, <1>2

(* The first pieces of a sequence, one more each time.                      *)
LEMMA TotalPrefix ==
  ASSUME NEW A, NEW F, Counts(A, F), NEW P \in Seq(A)
  PROVE  /\ Total(SubSeq(P, 1, 0), F) = 0
         /\ Total(SubSeq(P, 1, Len(P)), F) = Total(P, F)
         /\ \A k \in 0..Len(P) - 1 : /\ P[k + 1] \in A
                                     /\ Total(SubSeq(P, 1, k + 1), F)
                                          = Total(SubSeq(P, 1, k), F) + Cardinality(F[P[k + 1]])
  <1>1. SubSeq(P, 1, 0) = <<>> /\ SubSeq(P, 1, Len(P)) = P
    OBVIOUS
  <1>2. ASSUME NEW k \in 0..Len(P) - 1
        PROVE  /\ P[k + 1] \in A
               /\ Total(SubSeq(P, 1, k + 1), F)
                    = Total(SubSeq(P, 1, k), F) + Cardinality(F[P[k + 1]])
    <2>1. SubSeq(P, 1, k) \in Seq(A) /\ P[k + 1] \in A
      OBVIOUS
    <2>2. SubSeq(P, 1, k + 1) = Append(SubSeq(P, 1, k), P[k + 1])
      OBVIOUS
    <2>3. Total(Append(SubSeq(P, 1, k), P[k + 1]), F)
            = Total(SubSeq(P, 1, k), F) + Cardinality(F[P[k + 1]])
      BY <2>1, TotalAppend
    <2> QED
      BY <2>1, <2>2, <2>3
  <1>3. Total(<<>>, F) = 0
    BY TotalNone
  <1> QED
    BY <1>1, <1>2, <1>3

(* Pieces that are counted alike, each for one of the others.               *)
LEMMA TotalAlike ==
  ASSUME NEW A, NEW F, Counts(A, F), NEW P \in Seq(A), NEW Q \in Seq(A), Len(P) = Len(Q),
         \A k \in 1..Len(P) : Cardinality(F[P[k]]) = Cardinality(F[Q[k]])
  PROVE  Total(P, F) = Total(Q, F)
  <1> DEFINE n == Len(P)
             D == {k \in 0..n : Total(SubSeq(P, 1, k), F) = Total(SubSeq(Q, 1, k), F)}
  <1>1. n \in Nat
    OBVIOUS
  <1>2. /\ Total(SubSeq(P, 1, 0), F) = 0 /\ Total(SubSeq(P, 1, n), F) = Total(P, F)
        /\ \A k \in 0..n - 1 : Total(SubSeq(P, 1, k + 1), F)
                                 = Total(SubSeq(P, 1, k), F) + Cardinality(F[P[k + 1]])
    BY TotalPrefix
  <1>3. /\ Total(SubSeq(Q, 1, 0), F) = 0 /\ Total(SubSeq(Q, 1, n), F) = Total(Q, F)
        /\ \A k \in 0..n - 1 : Total(SubSeq(Q, 1, k + 1), F)
                                 = Total(SubSeq(Q, 1, k), F) + Cardinality(F[Q[k + 1]])
    BY TotalPrefix
  <1>4. \A k \in 1..n : Cardinality(F[P[k]]) = Cardinality(F[Q[k]])
    OBVIOUS
  <1> HIDE DEF n
  <1>5. 0 \in D
    BY <1>1, <1>2, <1>3
  <1>6. ASSUME NEW k \in 0..n - 1, k \in D  PROVE k + 1 \in D
    <2>1. k + 1 \in 1..n /\ k + 1 \in 0..n
      BY <1>1
    <2> QED
      BY <1>2, <1>3, <1>4, <1>6, <2>1
  <1> HIDE DEF D
  <1>7. \A k \in 0..n : k \in D
    BY <1>1, <1>5, <1>6, UpTo
  <1>8. n \in 0..n
    BY <1>1
  <1> QED
    BY <1>2, <1>3, <1>7, <1>8 DEF D

(* The ways of a relation, whatever their roles.                            *)
AllWays == [i \in DOMAIN relation |-> relation[i].way]

(* A way is stitched with the outer ways or with the inner ways.            *)
LEMMA WaysSplit ==
  ASSUME relation \in AreaRelations, NEW F, Counts(Piece, F)
  PROVE  /\ AllWays \in Seq(Piece)
         /\ Total(RoleWays(FALSE), F) + Total(RoleWays(TRUE), F) = Total(AllWays, F)
  <1> DEFINE M == [role : {"outer", "inner", ""}, way : Seq(Positions) \ {<<>>}]
             one(i, inner) == IF (relation[i].role = "inner") = inner THEN <<relation[i].way>> ELSE <<>>
             outs == [i \in DOMAIN relation |-> one(i, FALSE)]
             ins == [i \in DOMAIN relation |-> one(i, TRUE)]
  <1>0. relation \in Seq(M) /\ \A w \in M : w.way \in Piece
    <2>1. relation \in Seq(M)
      BY AssemblyAssumption, Zenon
    <2> QED
      BY <2>1 DEF Piece
  <1> HIDE DEF M
  <1>1. PICK n \in Nat : DOMAIN relation = 1..n
    BY <1>0
  <1>2. \A i \in 1..n : relation[i].way \in Piece
    <2>1. \A i \in 1..n : relation[i] \in M
      BY <1>0, <1>1
    <2> QED
      BY <1>0, <2>1, Zenon
  <1>3. AllWays \in Seq(Piece) /\ Len(AllWays) = n /\ \A i \in 1..n : AllWays[i] = relation[i].way
    BY <1>1, <1>2 DEF AllWays
  <1>4. /\ \A i \in 1..n : outs[i] = one(i, FALSE) /\ ins[i] = one(i, TRUE)
        /\ outs = [i \in 1..n |-> outs[i]] /\ Len(outs) = n
        /\ ins = [i \in 1..n |-> ins[i]] /\ Len(ins) = n
    BY <1>1
  <1>5. \A i \in 1..n : outs[i] \in Seq(Piece) /\ ins[i] \in Seq(Piece)
    BY <1>2, <1>4
  <1>6. RoleWays(FALSE) = FlattenSeq(outs) /\ RoleWays(TRUE) = FlattenSeq(ins)
    BY DEF RoleWays
  <1>7. \A i \in 1..n : Total(outs[i], F) + Total(ins[i], F) = Cardinality(F[AllWays[i]])
    <2> SUFFICES ASSUME NEW i \in 1..n
                 PROVE  Total(outs[i], F) + Total(ins[i], F) = Cardinality(F[AllWays[i]])
      OBVIOUS
    <2>1. /\ Total(<<relation[i].way>>, F) = Cardinality(F[AllWays[i]])
          /\ Cardinality(F[AllWays[i]]) \in Nat
      BY <1>2, <1>3, TotalOne
    <2>2. Total(<<>>, F) = 0
      BY TotalNone
    <2>3. (outs[i] = <<relation[i].way>> /\ ins[i] = <<>>) \/ (outs[i] = <<>> /\ ins[i] = <<relation[i].way>>)
      BY <1>4
    <2> HIDE DEF outs, ins
    <2> QED
      BY <2>1, <2>2, <2>3
  <1> HIDE DEF outs, ins
  <1>8a. outs \in [1..n -> Seq(Piece)] /\ Len(outs) = n
    BY <1>4, <1>5
  <1>8b. PICK h : IsBuilt(h, Piece, outs, n)
    BY <1>8a, FlattenSteps
  <1>8. /\ h[0] = <<>> /\ h[n] = FlattenSeq(outs)
        /\ \A k \in 0..n : h[k] \in Seq(Piece)
        /\ \A k \in 0..n - 1 : h[k + 1] = h[k] \o outs[k + 1]
    BY <1>8b DEF IsBuilt
  <1>9a. ins \in [1..n -> Seq(Piece)] /\ Len(ins) = n
    BY <1>4, <1>5
  <1>9b. PICK g : IsBuilt(g, Piece, ins, n)
    BY <1>9a, FlattenSteps
  <1>9. /\ g[0] = <<>> /\ g[n] = FlattenSeq(ins)
        /\ \A k \in 0..n : g[k] \in Seq(Piece)
        /\ \A k \in 0..n - 1 : g[k + 1] = g[k] \o ins[k + 1]
    BY <1>9b DEF IsBuilt
  <1>10. /\ Total(SubSeq(AllWays, 1, 0), F) = 0
         /\ Total(SubSeq(AllWays, 1, n), F) = Total(AllWays, F)
         /\ \A k \in 0..n - 1 : Total(SubSeq(AllWays, 1, k + 1), F)
                = Total(SubSeq(AllWays, 1, k), F) + Cardinality(F[AllWays[k + 1]])
    BY <1>3, TotalPrefix
  <1> DEFINE D == {k \in 0..n : Total(h[k], F) + Total(g[k], F) = Total(SubSeq(AllWays, 1, k), F)}
  <1>11. 0 \in D
    <2>1. Total(<<>>, F) = 0
      BY TotalNone
    <2> QED
      BY <1>8, <1>9, <1>10, <2>1
  <1>12. ASSUME NEW k \in 0..n - 1, k \in D  PROVE k + 1 \in D
    <2>1. k + 1 \in 1..n /\ k + 1 \in 0..n /\ k \in 0..n
      OBVIOUS
    <2>2. Total(h[k] \o outs[k + 1], F) = Total(h[k], F) + Total(outs[k + 1], F)
      BY <1>5, <1>8, <2>1, TotalConcat
    <2>3. Total(g[k] \o ins[k + 1], F) = Total(g[k], F) + Total(ins[k + 1], F)
      BY <1>5, <1>9, <2>1, TotalConcat
    <2>4. /\ Total(h[k], F) \in Nat /\ Total(g[k], F) \in Nat
          /\ Total(outs[k + 1], F) \in Nat /\ Total(ins[k + 1], F) \in Nat
      BY <1>5, <1>8, <1>9, <2>1, EntriesFinite
    <2>5. Total(outs[k + 1], F) + Total(ins[k + 1], F) = Cardinality(F[AllWays[k + 1]])
      BY <1>7, <2>1
    <2>6. Total(h[k], F) + Total(g[k], F) = Total(SubSeq(AllWays, 1, k), F)
      BY <1>12
    <2>7. /\ Total(h[k + 1], F) = Total(h[k], F) + Total(outs[k + 1], F)
          /\ Total(g[k + 1], F) = Total(g[k], F) + Total(ins[k + 1], F)
          /\ Total(SubSeq(AllWays, 1, k + 1), F)
                = Total(SubSeq(AllWays, 1, k), F) + Cardinality(F[AllWays[k + 1]])
      BY <1>8, <1>9, <1>10, <2>2, <2>3
    <2>8. Total(h[k + 1], F) + Total(g[k + 1], F) = Total(SubSeq(AllWays, 1, k + 1), F)
      BY <2>4, <2>5, <2>6, <2>7
    <2> QED
      BY <2>1, <2>8
  <1> HIDE DEF D
  <1>13. \A k \in 0..n : k \in D
    BY <1>11, <1>12, UpTo
  <1>14. n \in 0..n
    OBVIOUS
  <1> QED
    BY <1>3, <1>6, <1>8, <1>9, <1>10, <1>13, <1>14 DEF D

(* Where polygons pass along a stretch: a place, and an edge there.         *)
CutRuns(polys, stretch) ==
    UNION {{c} \X Runs(polys[c[1]][c[2]], stretch) :
             c \in UNION {{i} \X DOMAIN polys[i] : i \in DOMAIN polys}}

(* What such a passing is.                                                  *)
LEMMA CutRunIs ==
  ASSUME NEW polys, NEW stretch
  PROVE  \A x : x \in CutRuns(polys, stretch) <=>
           \E i \in DOMAIN polys : \E k \in DOMAIN polys[i] :
             \E m \in Runs(polys[i][k], stretch) : x = <<<<i, k>>, m>>
  <1> DEFINE places == UNION {{i} \X DOMAIN polys[i] : i \in DOMAIN polys}
  <1>1. \A c : c \in places <=> \E i \in DOMAIN polys : \E k \in DOMAIN polys[i] : c = <<i, k>>
    OBVIOUS
  <1>2. \A x : x \in CutRuns(polys, stretch) <=>
          \E c \in places : \E m \in Runs(polys[c[1]][c[2]], stretch) : x = <<c, m>>
    BY DEF CutRuns
  <1> HIDE DEF places
  <1>3. ASSUME NEW x, x \in CutRuns(polys, stretch)
        PROVE  \E i \in DOMAIN polys : \E k \in DOMAIN polys[i] :
                 \E m \in Runs(polys[i][k], stretch) : x = <<<<i, k>>, m>>
    <2>1. PICK c \in places : \E m \in Runs(polys[c[1]][c[2]], stretch) : x = <<c, m>>
      BY <1>2, <1>3
    <2>2. PICK i \in DOMAIN polys : \E k \in DOMAIN polys[i] : c = <<i, k>>
      BY <1>1, <2>1
    <2>3. PICK k \in DOMAIN polys[i] : c = <<i, k>>
      BY <2>2
    <2>4. c[1] = i /\ c[2] = k
      BY <2>3
    <2> QED
      BY <2>1, <2>3, <2>4
  <1>4. ASSUME NEW i \in DOMAIN polys, NEW k \in DOMAIN polys[i],
               NEW m \in Runs(polys[i][k], stretch)
        PROVE  <<<<i, k>>, m>> \in CutRuns(polys, stretch)
    <2>1. <<i, k>> \in places /\ <<i, k>>[1] = i /\ <<i, k>>[2] = k
      BY <1>1
    <2> QED
      BY <1>2, <2>1
  <1> QED
    BY <1>3, <1>4

(* Pieces that pass along a stretch as often, each as one of the others.    *)
Alike(P, Q, stretch) ==
    /\ Len(P) = Len(Q)
    /\ \A k \in 1..Len(P) :
         Cardinality(Runs(Q[k], stretch)) = Cardinality(Runs(P[k], stretch))

(* Polygons of one ring each.                                               *)
OneEach(polys, Q) ==
    DOMAIN polys = 1..Len(Q) /\ \A k \in 1..Len(Q) : polys[k] = <<Q[k]>>

(* They pass as often as the rings they were made of.                       *)
LEMMA CutOuters ==
  ASSUME NEW P \in Seq(Piece), NEW Q \in Seq(Piece), NEW stretch, Alike(P, Q, stretch),
         NEW polys, OneEach(polys, Q)
  PROVE  /\ IsFiniteSet(CutRuns(polys, stretch))
         /\ Cardinality(CutRuns(polys, stretch)) = Total(P, RunsAlong(stretch))
  <1> DEFINE F == RunsAlong(stretch)
             E == Entries(Q, F)
             C == CutRuns(polys, stretch)
             f == [x \in E |-> <<<<x[1], 1>>, x[2]>>]
  <1>1. Counts(Piece, F)
    BY RunsCount
  <1>0. /\ Len(P) = Len(Q)
        /\ \A k \in 1..Len(P) :
             Cardinality(Runs(Q[k], stretch)) = Cardinality(Runs(P[k], stretch))
    BY DEF Alike
  <1>2. /\ DOMAIN P = 1..Len(P) /\ DOMAIN Q = 1..Len(P)
        /\ \A k \in 1..Len(P) : P[k] \in Piece /\ Q[k] \in Piece
    BY <1>0
  <1>3. \A k \in 1..Len(P) : F[P[k]] = Runs(P[k], stretch) /\ F[Q[k]] = Runs(Q[k], stretch)
    BY <1>2 DEF RunsAlong
  <1> HIDE DEF F
  <1>4. Total(P, F) = Total(Q, F)
    BY <1>0, <1>1, <1>3, TotalAlike
  <1>5. IsFiniteSet(E)
    BY <1>1, EntriesFinite
  <1>6. \A x : x \in E <=> \E k \in 1..Len(P) : \E m \in Runs(Q[k], stretch) : x = <<k, m>>
    BY <1>2, <1>3, EntryIs
  <1>7. \A x : x \in C <=> \E k \in 1..Len(P) : \E m \in Runs(Q[k], stretch) : x = <<<<k, 1>>, m>>
    <2>1. DOMAIN polys = 1..Len(P)
      BY <1>0 DEF OneEach
    <2>2. \A k \in 1..Len(P) : DOMAIN polys[k] = {1} /\ polys[k][1] = Q[k]
      BY <1>0 DEF OneEach
    <2> HIDE DEF C
    <2> QED
      BY <2>1, <2>2, CutRunIs DEF C
  <1> HIDE DEF E, C
  <1>8. f \in Bijection(E, C)
    <2>1. ASSUME NEW x \in E  PROVE f[x] \in C
      BY <1>6, <1>7
    <2>2. ASSUME NEW x \in E, NEW y \in E, f[x] = f[y]  PROVE x = y
      <3>1. PICK k, m : x = <<k, m>>
        BY <1>6
      <3>2. PICK j, l : y = <<j, l>>
        BY <1>6
      <3>3. <<<<k, 1>>, m>> = <<<<j, 1>>, l>>
        BY <2>2, <3>1, <3>2
      <3> QED
        BY <3>1, <3>2, <3>3
    <2>3. ASSUME NEW y \in C  PROVE \E x \in E : f[x] = y
      <3>1. PICK k \in 1..Len(P) : \E m \in Runs(Q[k], stretch) : y = <<<<k, 1>>, m>>
        BY <1>7
      <3>2. PICK m \in Runs(Q[k], stretch) : y = <<<<k, 1>>, m>>
        BY <3>1
      <3>3. <<k, m>> \in E
        BY <1>6, <3>2
      <3> QED
        BY <3>2, <3>3
    <2>4. f \in [E -> C]
      BY <2>1
    <2> HIDE DEF f
    <2> QED
      BY <2>2, <2>3, <2>4 DEF Bijection, Injection, Surjection, IsInjective
  <1> HIDE DEF f
  <1>9. ExistsBijection(E, C)
    BY <1>8 DEF ExistsBijection
  <1>10. IsFiniteSet(C) /\ Cardinality(C) = Cardinality(E)
    BY <1>5, <1>9, FS_Bijection
  <1> QED
    BY <1>4, <1>10 DEF C, E, F, Total

(* A hole more.                                                             *)
LEMMA CutAppended ==
  ASSUME NEW polys \in Seq(Seq(Piece)), NEW p \in DOMAIN polys, NEW hole \in Piece,
         NEW stretch, IsFiniteSet(CutRuns(polys, stretch)),
         NEW more, more = [polys EXCEPT ![p] = Append(@, hole)]
  PROVE  /\ IsFiniteSet(CutRuns(more, stretch))
         /\ Cardinality(CutRuns(more, stretch))
              = Cardinality(CutRuns(polys, stretch)) + Cardinality(Runs(hole, stretch))
  <1> DEFINE C == CutRuns(polys, stretch)
             place == <<p, Len(polys[p]) + 1>>
             H == {place} \X Runs(hole, stretch)
             f == [m \in Runs(hole, stretch) |-> <<place, m>>]
  <1>1. /\ polys[p] \in Seq(Piece) /\ Len(polys[p]) \in Nat
        /\ DOMAIN polys[p] = 1..Len(polys[p])
    OBVIOUS
  <1>2. /\ DOMAIN more = DOMAIN polys
        /\ more[p] = Append(polys[p], hole)
        /\ \A i \in DOMAIN polys : i # p => more[i] = polys[i]
    OBVIOUS
  <1>3. /\ DOMAIN more[p] = 1..Len(polys[p]) + 1
        /\ \A k \in DOMAIN polys[p] : more[p][k] = polys[p][k]
        /\ more[p][Len(polys[p]) + 1] = hole
    BY <1>1, <1>2
  <1>0. \A x : x \in CutRuns(more, stretch) <=>
          \E i \in DOMAIN more : \E k \in DOMAIN more[i] :
            \E m \in Runs(more[i][k], stretch) : x = <<<<i, k>>, m>>
    BY ONLY CutRunIs
  <1>4. CutRuns(more, stretch) = C \cup H
    <2>1. ASSUME NEW x \in CutRuns(more, stretch)  PROVE x \in C \cup H
      <3>1. PICK i \in DOMAIN more : \E k \in DOMAIN more[i] :
              \E m \in Runs(more[i][k], stretch) : x = <<<<i, k>>, m>>
        BY ONLY <1>0, <2>1
      <3>2. PICK k \in DOMAIN more[i] : \E m \in Runs(more[i][k], stretch) : x = <<<<i, k>>, m>>
        BY <3>1
      <3>3. PICK m \in Runs(more[i][k], stretch) : x = <<<<i, k>>, m>>
        BY <3>2
      <3>4. CASE i = p /\ k = Len(polys[p]) + 1
        <4>1. m \in Runs(hole, stretch) /\ x = <<place, m>>
          BY <1>3, <3>3, <3>4
        <4> QED
          BY <4>1
      <3>5. CASE ~(i = p /\ k = Len(polys[p]) + 1)
        <4>1. i \in DOMAIN polys /\ k \in DOMAIN polys[i] /\ more[i][k] = polys[i][k]
          <5>1. CASE i = p
            <6>1. k \in 1..Len(polys[p]) + 1
              BY <1>3, <5>1
            <6>2. k \in 1..Len(polys[p])
              BY <1>1, <3>5, <5>1, <6>1
            <6> QED
              BY <1>1, <1>3, <5>1, <6>2
          <5>2. CASE i # p
            BY <1>2, <5>2
          <5> QED
            BY <5>1, <5>2
        <4>2. m \in Runs(polys[i][k], stretch)
          BY <3>3, <4>1
        <4>3. x \in C
          BY <3>3, <4>1, <4>2, CutRunIs
        <4> QED
          BY <4>3
      <3> QED
        BY <3>4, <3>5
    <2>2. ASSUME NEW x \in C  PROVE x \in CutRuns(more, stretch)
      <3>1. PICK i \in DOMAIN polys : \E k \in DOMAIN polys[i] :
              \E m \in Runs(polys[i][k], stretch) : x = <<<<i, k>>, m>>
        BY CutRunIs
      <3>2. PICK k \in DOMAIN polys[i] : \E m \in Runs(polys[i][k], stretch) : x = <<<<i, k>>, m>>
        BY <3>1
      <3>3. i \in DOMAIN more /\ k \in DOMAIN more[i] /\ more[i][k] = polys[i][k]
        <4>1. CASE i = p
          BY <1>1, <1>2, <1>3, <4>1
        <4>2. CASE i # p
          BY <1>2, <4>2
        <4> QED
          BY <4>1, <4>2
      <3>4. \E m \in Runs(more[i][k], stretch) : x = <<<<i, k>>, m>>
        BY <3>2, <3>3
      <3> QED
        BY ONLY <1>0, <3>3, <3>4
    <2>3. ASSUME NEW x \in H  PROVE x \in CutRuns(more, stretch)
      <3>1. PICK m \in Runs(hole, stretch) : x = <<<<p, Len(polys[p]) + 1>>, m>>
        OBVIOUS
      <3>2. Len(polys[p]) + 1 \in DOMAIN more[p] /\ p \in DOMAIN more
        BY <1>1, <1>2, <1>3
      <3>3. m \in Runs(more[p][Len(polys[p]) + 1], stretch)
        BY <1>3
      <3> QED
        BY ONLY <1>0, <3>1, <3>2, <3>3
    <2> QED
      BY <2>1, <2>2, <2>3
  <1>5. C \cap H = {}
    <2> SUFFICES ASSUME NEW x \in C, x \in H  PROVE FALSE
      OBVIOUS
    <2>1. PICK i \in DOMAIN polys : \E k \in DOMAIN polys[i] : \E m : x = <<<<i, k>>, m>>
      BY CutRunIs
    <2>2. PICK k \in DOMAIN polys[i] : \E m : x = <<<<i, k>>, m>>
      BY <2>1
    <2>3. x[1] = <<i, k>> /\ x[1] = <<p, Len(polys[p]) + 1>>
      BY <2>2
    <2>4. i = p /\ k = Len(polys[p]) + 1
      BY <2>3
    <2> QED
      BY <1>1, <2>4
  <1>6. IsFiniteSet(Runs(hole, stretch))
    <2>1. RunsAlong(stretch)[hole] = Runs(hole, stretch)
      BY DEF RunsAlong
    <2> QED
      BY <2>1, RunsCount DEF Counts
  <1>7. f \in Bijection(Runs(hole, stretch), H)
    <2>1. \A m \in Runs(hole, stretch) : f[m] = <<place, m>> /\ <<place, m>> \in H
      OBVIOUS
    <2>2. \A y \in H : \E m \in Runs(hole, stretch) : y = <<place, m>>
      OBVIOUS
    <2>3. f \in [Runs(hole, stretch) -> H]
      OBVIOUS
    <2> HIDE DEF f, H, place
    <2>4. ASSUME NEW m \in Runs(hole, stretch), NEW n \in Runs(hole, stretch), f[m] = f[n]
          PROVE  m = n
      <3>1. <<place, m>> = <<place, n>>
        BY <2>1, <2>4
      <3> QED
        BY <3>1
    <2>5. \A y \in H : \E m \in Runs(hole, stretch) : f[m] = y
      BY <2>1, <2>2
    <2> QED
      BY <2>3, <2>4, <2>5 DEF Bijection, Injection, Surjection, IsInjective
  <1> HIDE DEF f, H
  <1>8. ExistsBijection(Runs(hole, stretch), H)
    BY <1>7 DEF ExistsBijection
  <1>9. IsFiniteSet(H) /\ Cardinality(H) = Cardinality(Runs(hole, stretch))
    BY <1>6, <1>8, FS_Bijection
  <1> HIDE DEF C
  <1>10. IsFiniteSet(C)
    BY DEF C
  <1>11. /\ IsFiniteSet(C \cup H)
         /\ Cardinality(C \cup H) = Cardinality(C) + Cardinality(H) - Cardinality(C \cap H)
    BY <1>9, <1>10, FS_Union
  <1>12. Cardinality(C \cap H) = 0
    BY <1>5, FS_EmptySet
  <1>13. Cardinality(C) \in Nat /\ Cardinality(H) \in Nat
    BY <1>9, <1>10, FS_CardinalityType
  <1>14. Cardinality(C \cup H) = Cardinality(C) + Cardinality(H)
    BY <1>11, <1>12, <1>13
  <1> QED
    BY <1>4, <1>9, <1>11, <1>14 DEF C

-----------------------------------------------------------------------------
(* The polygons and what they were made of. *)

(* HolesHeld, of any polygons.                                              *)
Held(polys) ==
    \A i \in DOMAIN polys :
      /\ SignedArea(polys[i][1]) >= 0
      /\ \A k \in 2..Len(polys[i]) :
           /\ SignedArea(polys[i][k]) <= 0
           /\ RingContainsRing(polys[i][1], polys[i][k])
           /\ \A j \in DOMAIN polys :
                RingContainsRing(polys[j][1], polys[i][k])
                  => Area(polys[i][1]) <= Area(polys[j][1])

(* The polygons pass as often as the outer ways and the holes placed.       *)
Cut(polys, outer, holes) ==
    /\ polys \in Seq(Seq(Piece)) /\ \A i \in DOMAIN polys : polys[i] # <<>>
    /\ \A s : /\ IsFiniteSet(CutRuns(polys, s))
              /\ Cardinality(CutRuns(polys, s))
                   = Total(outer, RunsAlong(s)) + Total(holes, RunsAlong(s))

(* Of rings that have all been stitched.                                    *)
LEMMA RingsBalance ==
  ASSUME StitchInv, result = "nil"
  PROVE  /\ segments \in Seq(Piece) /\ rings \in Seq(Piece)
         /\ \A s : Total(rings, RunsAlong(s)) = Total(segments, RunsAlong(s))
  <1>1. /\ ring = <<>> /\ remaining = <<>>
        /\ segments \in Seq(Piece) /\ rings \in Seq(Piece)
        /\ \A s : Load(RunsAlong(s), remaining, ring, rings) = Total(segments, RunsAlong(s))
    BY DEF StitchInv, Balanced
  <1>2. ASSUME NEW s  PROVE Total(rings, RunsAlong(s)) = Total(segments, RunsAlong(s))
    <2>1. Load(RunsAlong(s), remaining, ring, rings) = Total(segments, RunsAlong(s))
      BY <1>1
    <2>2. Total(rings, RunsAlong(s)) \in Nat
      BY <1>1, RunsCount, EntriesFinite
    <2>3. Total(remaining, RunsAlong(s)) = 0
      BY <1>1, TotalNone
    <2>4. Load(RunsAlong(s), remaining, ring, rings) = Total(rings, RunsAlong(s)) + 0 + 0
      BY <1>1, <2>3 DEF Load
    <2> QED
      BY <2>1, <2>2, <2>4
  <1> QED
    BY <1>1, <1>2

(* The outer rings, each a polygon.                                         *)
LEMMA CutAtFirst ==
  ASSUME NEW P \in Seq(Piece), NEW outer \in Seq(Piece),
         \A s : Total(P, RunsAlong(s)) = Total(outer, RunsAlong(s)),
         NEW polys, polys = [i \in DOMAIN P |-> <<Normalized(P[i], FALSE)>>]
  PROVE  Cut(polys, outer, <<>>) /\ Held(polys)
  <1> DEFINE Q == [i \in DOMAIN P |-> Normalized(P[i], FALSE)]
  <1>1. DOMAIN P = 1..Len(P) /\ Len(P) \in Nat /\ \A i \in 1..Len(P) : P[i] \in Piece
    OBVIOUS
  <1>2. \A i \in 1..Len(P) :
          /\ Q[i] \in Piece /\ SignedArea(Q[i]) >= 0
          /\ \A s : Cardinality(Runs(Q[i], s)) = Cardinality(Runs(P[i], s))
    <2> SUFFICES ASSUME NEW i \in 1..Len(P)
                 PROVE  /\ Q[i] \in Piece /\ SignedArea(Q[i]) >= 0
                        /\ \A s : Cardinality(Runs(Q[i], s)) = Cardinality(Runs(P[i], s))
      OBVIOUS
    <2>1. P[i] \in Piece /\ Q[i] = Normalized(P[i], FALSE)
      BY <1>1
    <2> HIDE DEF Q
    <2>2. /\ Normalized(P[i], FALSE) \in Piece /\ SignedArea(Normalized(P[i], FALSE)) >= 0
          /\ \A s : Cardinality(Runs(Normalized(P[i], FALSE), s)) = Cardinality(Runs(P[i], s))
      BY <2>1, NormalizedRing, Zenon
    <2> QED
      BY <2>1, <2>2, Zenon
  <1>3. Q \in Seq(Piece) /\ Len(Q) = Len(P)
    <2>1. Q = [i \in 1..Len(P) |-> Q[i]]
      BY <1>1
    <2> HIDE DEF Q
    <2> QED
      BY <1>1, <1>2, <2>1
  <1>4. polys = [i \in DOMAIN P |-> <<Q[i]>>]
    OBVIOUS
  <1> HIDE DEF Q
  <1>5. /\ DOMAIN polys = 1..Len(P)
        /\ \A i \in 1..Len(P) : polys[i] = <<Q[i]>>
    BY <1>1, <1>4
  <1>6. ASSUME NEW i \in 1..Len(P)
        PROVE  /\ polys[i] \in Seq(Piece) /\ polys[i] # <<>>
               /\ Len(polys[i]) = 1 /\ polys[i][1] = Q[i]
    <2>1. \A a \in Piece : <<a>> \in Seq(Piece) /\ <<a>> # <<>> /\ Len(<<a>>) = 1 /\ <<a>>[1] = a
      OBVIOUS
    <2>2. Q[i] \in Piece /\ polys[i] = <<Q[i]>>
      BY <1>2, <1>5, <1>6, Zenon
    <2> QED
      BY <2>1, <2>2, Zenon
  <1>7. polys \in Seq(Seq(Piece))
    <2>1. polys = [i \in 1..Len(P) |-> polys[i]]
      BY <1>1, <1>4
    <2> QED
      BY ONLY <1>1, <1>6, <2>1
  <1>8. ASSUME NEW s
        PROVE  /\ IsFiniteSet(CutRuns(polys, s))
               /\ Cardinality(CutRuns(polys, s)) = Total(outer, RunsAlong(s)) + Total(<<>>, RunsAlong(s))
    <2>1. Alike(P, Q, s) /\ OneEach(polys, Q)
      BY <1>2, <1>3, <1>5 DEF Alike, OneEach
    <2>2. /\ IsFiniteSet(CutRuns(polys, s))
          /\ Cardinality(CutRuns(polys, s)) = Total(P, RunsAlong(s))
      BY ONLY <1>3, <2>1, P \in Seq(Piece), CutOuters
    <2>3. Total(P, RunsAlong(s)) = Total(outer, RunsAlong(s)) /\ Total(<<>>, RunsAlong(s)) = 0
      BY TotalNone
    <2>4. Total(outer, RunsAlong(s)) \in Nat
      BY RunsCount, EntriesFinite
    <2> QED
      BY <2>2, <2>3, <2>4
  <1>9. Held(polys)
    <2> SUFFICES ASSUME NEW i \in 1..Len(P)
                 PROVE  SignedArea(polys[i][1]) >= 0 /\ 2..Len(polys[i]) = {}
      BY <1>5 DEF Held
    <2>1. SignedArea(polys[i][1]) >= 0
      BY <1>2, <1>6
    <2>2. 2..Len(polys[i]) = {}
      <3>1. Len(polys[i]) = 1
        BY <1>6
      <3> QED
        BY ONLY <3>1
    <2> QED
      BY <2>1, <2>2
  <1> QED
    BY <1>5, <1>6, <1>7, <1>8, <1>9 DEF Cut

(* A hole placed in the polygon p, the smallest that holds it.              *)
LEMMA CutMore ==
  ASSUME NEW polys, NEW outer \in Seq(Piece), NEW R \in Seq(Piece),
         NEW n \in 0..Len(R) - 1, Cut(polys, outer, SubSeq(R, 1, n)), Held(polys),
         NEW hole, hole = Normalized(R[n + 1], TRUE),
         NEW p \in DOMAIN polys, RingContainsRing(polys[p][1], hole),
         \A j \in DOMAIN polys : RingContainsRing(polys[j][1], hole)
                                   => Area(polys[p][1]) <= Area(polys[j][1]),
         NEW more, more = [polys EXCEPT ![p] = Append(@, hole)]
  PROVE  Cut(more, outer, SubSeq(R, 1, n + 1)) /\ Held(more)
  <1>1. R[n + 1] \in Piece
    OBVIOUS
  <1>2. /\ hole \in Piece /\ SignedArea(hole) <= 0
        /\ \A s : Cardinality(Runs(hole, s)) = Cardinality(Runs(R[n + 1], s))
    BY <1>1, NormalizedRing
  <1>3. polys \in Seq(Seq(Piece)) /\ \A i \in DOMAIN polys : polys[i] # <<>>
    BY DEF Cut
  <1>4. \A i \in DOMAIN polys : /\ polys[i] \in Seq(Piece) /\ Len(polys[i]) \in Nat \ {0}
    BY <1>3
  <1>5. /\ DOMAIN more = DOMAIN polys
        /\ more[p] = Append(polys[p], hole)
        /\ \A i \in DOMAIN polys : i # p => more[i] = polys[i]
    BY <1>3
  <1>6. /\ more[p] \in Seq(Piece) /\ Len(more[p]) = Len(polys[p]) + 1
        /\ \A k \in 1..Len(polys[p]) : more[p][k] = polys[p][k]
        /\ more[p][Len(polys[p]) + 1] = hole
    <2>1. polys[p] \in Seq(Piece) /\ hole \in Piece /\ more[p] = Append(polys[p], hole)
      BY <1>2, <1>4, <1>5
    <2> QED
      BY ONLY <2>1, AppendProperties
  <1>7. \A i \in DOMAIN polys : more[i] \in Seq(Piece) /\ more[i] # <<>> /\ more[i][1] = polys[i][1]
    <2> SUFFICES ASSUME NEW i \in DOMAIN polys
                 PROVE  more[i] \in Seq(Piece) /\ more[i] # <<>> /\ more[i][1] = polys[i][1]
      OBVIOUS
    <2>1. CASE i = p
      <3>1. 1 \in 1..Len(polys[p]) /\ Len(more[p]) # 0
        BY <1>4, <1>6
      <3>2. more[p] # <<>>
        BY <3>1
      <3> QED
        BY <1>6, <2>1, <3>1, <3>2
    <2>2. CASE i # p
      BY <1>3, <1>4, <1>5, <2>2
    <2> QED
      BY <2>1, <2>2
  <1>8. more \in Seq(Seq(Piece))
    <2>1. Append(polys[p], hole) \in Seq(Piece)
      BY <1>5, <1>6
    <2>2. p \in 1..Len(polys)
      BY ONLY <1>3, p \in DOMAIN polys
    <2> QED
      BY <1>3, <2>1, <2>2, ExceptSeq
  <1>9. ASSUME NEW s
        PROVE  /\ IsFiniteSet(CutRuns(more, s))
               /\ Cardinality(CutRuns(more, s))
                    = Total(outer, RunsAlong(s)) + Total(SubSeq(R, 1, n + 1), RunsAlong(s))
    <2> DEFINE F == RunsAlong(s)
    <2>1. /\ IsFiniteSet(CutRuns(polys, s))
          /\ Cardinality(CutRuns(polys, s)) = Total(outer, F) + Total(SubSeq(R, 1, n), F)
      BY DEF Cut
    <2>2. /\ IsFiniteSet(CutRuns(more, s))
          /\ Cardinality(CutRuns(more, s)) = Cardinality(CutRuns(polys, s)) + Cardinality(Runs(hole, s))
      <3>1. /\ polys \in Seq(Seq(Piece)) /\ p \in DOMAIN polys /\ hole \in Piece
            /\ more = [polys EXCEPT ![p] = Append(@, hole)]
        BY <1>2, <1>3, Zenon
      <3> QED
        BY ONLY <2>1, <3>1, CutAppended, Zenon
    <2>3. Counts(Piece, F)
      BY RunsCount
    <2>4. F[R[n + 1]] = Runs(R[n + 1], s)
      BY <1>1 DEF RunsAlong
    <2> HIDE DEF F
    <2>5. Total(SubSeq(R, 1, n + 1), F) = Total(SubSeq(R, 1, n), F) + Cardinality(F[R[n + 1]])
      BY <2>3, TotalPrefix
    <2>6. /\ Total(outer, F) \in Nat /\ Total(SubSeq(R, 1, n), F) \in Nat
          /\ Cardinality(F[R[n + 1]]) \in Nat
      <3>1. SubSeq(R, 1, n) \in Seq(Piece)
        OBVIOUS
      <3> QED
        BY <1>1, <2>3, <3>1, EntriesFinite, TotalOne
    <2>7. Cardinality(Runs(hole, s)) = Cardinality(F[R[n + 1]])
      BY <1>2, <2>4
    <2>8. Cardinality(CutRuns(more, s)) = Total(outer, F) + Total(SubSeq(R, 1, n + 1), F)
      BY ONLY <2>1, <2>2, <2>5, <2>6, <2>7
    <2> QED
      BY <2>2, <2>8 DEF F
  <1>10. Held(more)
    <2>1. ASSUME NEW i \in DOMAIN polys
          PROVE  SignedArea(more[i][1]) >= 0
      BY <1>7 DEF Held
    <2>2. ASSUME NEW i \in DOMAIN polys, NEW k \in 2..Len(more[i])
          PROVE  /\ SignedArea(more[i][k]) <= 0
                 /\ RingContainsRing(polys[i][1], more[i][k])
                 /\ \A j \in DOMAIN polys :
                      RingContainsRing(polys[j][1], more[i][k])
                        => Area(polys[i][1]) <= Area(polys[j][1])
      <3>1. CASE i = p /\ k = Len(polys[p]) + 1
        <4>1. more[i][k] = hole
          BY <1>6, <3>1
        <4> QED
          BY <1>2, <3>1, <4>1
      <3>2. CASE ~(i = p /\ k = Len(polys[p]) + 1)
        <4>1. k \in 2..Len(polys[i]) /\ more[i][k] = polys[i][k]
          <5>1. CASE i = p
            <6>1. k \in 2..Len(polys[p]) /\ k \in 1..Len(polys[p])
              BY <1>4, <1>6, <3>2, <5>1
            <6> QED
              BY <1>6, <5>1, <6>1
          <5>2. CASE i # p
            BY <1>5, <5>2
          <5> QED
            BY <5>1, <5>2
        <4> QED
          BY <4>1 DEF Held
      <3> QED
        BY <3>1, <3>2
    <2>3. \A i, j \in DOMAIN polys : \A r :
            /\ RingContainsRing(more[i][1], r) <=> RingContainsRing(polys[i][1], r)
            /\ Area(more[i][1]) <= Area(more[j][1]) <=> Area(polys[i][1]) <= Area(polys[j][1])
      BY <1>7
    <2> QED
      BY ONLY <1>5, <2>1, <2>2, <2>3 DEF Held
  <1> QED
    BY <1>5, <1>7, <1>8, <1>9, <1>10 DEF Cut

(* The rings stitched so far are pieces.                                    *)
LEMMA RingsType ==
  ASSUME StitchInv
  PROVE  rings \in Seq(Piece)
  BY DEF StitchInv, Balanced

(* A hole that some outer ring holds goes to the smallest.                  *)
LEMMA ParentHolds ==
  ASSUME polygons \in Seq(Seq(Piece)), \A i \in DOMAIN polygons : polygons[i] # <<>>,
         NEW hole, Holders(hole) # {}
  PROVE  /\ Parent(hole) \in DOMAIN polygons
         /\ RingContainsRing(polygons[Parent(hole)][1], hole)
         /\ \A j \in DOMAIN polygons : RingContainsRing(polygons[j][1], hole)
              => Area(polygons[Parent(hole)][1]) <= Area(polygons[j][1])
  <1> DEFINE size == [i \in DOMAIN polygons |-> Area(polygons[i][1])]
             S == Holders(hole)
             IsFirst(i) == \A j \in S : size[i] < size[j] \/ (size[i] = size[j] /\ i <= j)
  <1>1. Len(polygons) \in Nat /\ DOMAIN polygons = 1..Len(polygons)
    OBVIOUS
  <1>2. \A i \in DOMAIN polygons : size[i] \in Int
    <2> SUFFICES ASSUME NEW i \in DOMAIN polygons  PROVE Area(polygons[i][1]) \in Int
      OBVIOUS
    <2>1. polygons[i] \in Seq(Piece) /\ polygons[i] # <<>>
      OBVIOUS
    <2>2. polygons[i][1] \in Piece
      BY <2>1
    <2>3. SignedArea(polygons[i][1]) \in Int
      BY <2>2, AreaTurned
    <2> QED
      BY <2>3 DEF Area
  <1>3. S \subseteq 1..Len(polygons)
    BY <1>1 DEF Holders
  <1>4. \A i \in S : size[i] \in Int
    BY <1>1, <1>2, <1>3
  <1>5. S # {}
    OBVIOUS
  <1>6. \A i \in S : size[i] = Area(polygons[i][1])
    BY <1>1, <1>3
  <1> HIDE DEF size, S
  <1>7. \E i \in S : IsFirst(i)
    BY <1>1, <1>3, <1>4, <1>5, FirstSmallest
  <1>8. Parent(hole) = CHOOSE i \in S : \A j \in S :
          Area(polygons[i][1]) < Area(polygons[j][1])
            \/ (Area(polygons[i][1]) = Area(polygons[j][1]) /\ i <= j)
    BY DEF Parent, S
  <1>9. \E i \in S : \A j \in S :
          Area(polygons[i][1]) < Area(polygons[j][1])
            \/ (Area(polygons[i][1]) = Area(polygons[j][1]) /\ i <= j)
    BY <1>6, <1>7
  <1>10. /\ Parent(hole) \in S
         /\ \A j \in S :
              Area(polygons[Parent(hole)][1]) < Area(polygons[j][1])
                \/ (Area(polygons[Parent(hole)][1]) = Area(polygons[j][1]) /\ Parent(hole) <= j)
    BY <1>8, <1>9, Zenon
  <1>11. \A j \in S : Area(polygons[j][1]) \in Int
    BY <1>4, <1>6
  <1>12. \A j \in S : Area(polygons[Parent(hole)][1]) <= Area(polygons[j][1])
    BY ONLY <1>10, <1>11
  <1>13. \A j : j \in S <=> j \in DOMAIN polygons /\ RingContainsRing(polygons[j][1], hole)
    BY DEF S, Holders
  <1> QED
    BY ONLY <1>10, <1>12, <1>13

-----------------------------------------------------------------------------
(* The polygons of a relation. *)

Geometries == {"Polygon", "MultiPolygon"}

(* What stitchRings returns, or that it has not.                            *)
Results == {"", "nil", "short segment", "open ring", "short ring"}

(* The ways in hand, the polygons cut so far, and when they are returned.   *)
PolyInv ==
    /\ result \in Results /\ role \in {"outer", "inner"}
    /\ role = "outer" =>
         /\ segments = RoleWays(FALSE) /\ polygons = <<>> /\ placed = 0
         /\ outcome \notin Geometries
    /\ role = "inner" =>
         /\ segments = RoleWays(TRUE)
         /\ placed \in 0..Len(rings)
         /\ Cut(polygons, RoleWays(FALSE), SubSeq(rings, 1, placed))
         /\ Held(polygons)
         /\ result # "nil" => placed = 0
         /\ outcome \in Geometries => result = "nil" /\ placed = Len(rings)

(* Before the outer rings are stitched.                                     *)
LEMMA InitPoly == AssemblyInit => PolyInv
  <1> SUFFICES ASSUME AssemblyInit  PROVE PolyInv
    OBVIOUS
  <1>1. /\ segments = RoleWays(FALSE) /\ result = Checked(segments)
        /\ role = "outer" /\ polygons = <<>> /\ placed = 0 /\ outcome = ""
    BY DEF AssemblyInit
  <1>2. result \in Results
    BY <1>1 DEF Checked, Results
  <1> QED
    BY <1>1, <1>2 DEF PolyInv, Geometries

(* Nothing that the invariant looks at has changed.                         *)
LEMMA PolyStays ==
  ASSUME PolyInv, UNCHANGED assemblyVars
  PROVE  PolyInv'
  <1>1. /\ UNCHANGED <<segments, rings, result, relation, role, polygons, placed, outcome>>
        /\ RoleWays(FALSE)' = RoleWays(FALSE) /\ RoleWays(TRUE)' = RoleWays(TRUE)
    BY DEF assemblyVars, stitching, RoleWays
  <1> QED
    BY <1>1 DEF PolyInv

(* A step of stitchRings, before any hole is placed.                        *)
LEMMA StitchPoly ==
  ASSUME StitchInv, StitchInv', PolyInv, StitchRing
  PROVE  PolyInv'
  <1>1. /\ UNCHANGED <<relation, role, polygons, placed, outcome>>
        /\ RoleWays(FALSE)' = RoleWays(FALSE) /\ RoleWays(TRUE)' = RoleWays(TRUE)
    BY DEF StitchRing, RoleWays
  <1>2. result = "" /\ segments' = segments
    BY DEF StitchRing, Stitch, TakeSegment, Grow, Stuck, CloseRing, Return
  <1>3. result' \in Results
    BY <1>2 DEF StitchRing, Stitch, TakeSegment, Grow, Stuck, CloseRing, Return, Results
  <1>4. CASE role = "outer"
    BY <1>1, <1>2, <1>3, <1>4 DEF PolyInv
  <1>5. CASE role = "inner"
    <2>1. /\ segments = RoleWays(TRUE) /\ placed = 0
          /\ Cut(polygons, RoleWays(FALSE), SubSeq(rings, 1, placed)) /\ Held(polygons)
          /\ outcome \notin Geometries
      BY <1>2, <1>5 DEF PolyInv
    <2>2. rings \in Seq(Piece) /\ rings' \in Seq(Piece)
      BY DEF StitchInv, Balanced
    <2>3. SubSeq(rings, 1, 0) = <<>> /\ SubSeq(rings', 1, 0) = <<>> /\ 0 \in 0..Len(rings')
      BY ONLY <2>2
    <2>4. Cut(polygons', RoleWays(FALSE)', SubSeq(rings', 1, placed')) /\ Held(polygons')
      BY <1>1, <2>1, <2>3
    <2> QED
      BY <1>1, <1>2, <1>3, <1>5, <2>1, <2>3, <2>4 DEF PolyInv
  <1> QED
    BY <1>4, <1>5 DEF PolyInv

(* The outer rings are stitched: they are wound, and the inner ways begin.  *)
LEMMA OuterPoly ==
  ASSUME StitchInv, PolyInv, OuterRings
  PROVE  PolyInv'
  <1>1. outcome = "" /\ role = "outer" /\ result = "nil" /\ placed' = placed
    BY DEF OuterRings
  <1>2. segments = RoleWays(FALSE) /\ polygons = <<>> /\ placed = 0
    BY <1>1 DEF PolyInv
  <1>3. CASE rings = <<>>
    <2>1. /\ outcome' = "no outer ring"
          /\ UNCHANGED <<segments, rings, result, relation, role, polygons, placed>>
      BY <1>1, <1>3 DEF OuterRings, stitching
    <2>2. RoleWays(FALSE)' = RoleWays(FALSE)
      BY <2>1 DEF RoleWays
    <2> QED
      BY <1>1, <1>2, <2>1, <2>2 DEF PolyInv, Geometries, Results
  <1>4. CASE rings # <<>>
    <2>1. /\ polygons' = [i \in DOMAIN rings |-> <<Normalized(rings[i], FALSE)>>]
          /\ role' = "inner" /\ relation' = relation /\ outcome' = outcome
          /\ segments' = RoleWays(TRUE) /\ rings' = <<>> /\ result' = Checked(RoleWays(TRUE))
      BY <1>4 DEF OuterRings, Begin
    <2>2. RoleWays(FALSE)' = RoleWays(FALSE) /\ RoleWays(TRUE)' = RoleWays(TRUE)
      BY <2>1 DEF RoleWays
    <2>3. /\ segments \in Seq(Piece) /\ rings \in Seq(Piece)
          /\ \A s : Total(rings, RunsAlong(s)) = Total(segments, RunsAlong(s))
      BY <1>1, RingsBalance
    <2>4. Cut(polygons', segments, <<>>) /\ Held(polygons')
      BY <2>1, <2>3, CutAtFirst
    <2>5. SubSeq(rings', 1, placed') = <<>> /\ placed' \in 0..Len(rings') /\ placed' = 0
      <3>1. rings' = <<>> /\ placed' = 0
        BY <1>1, <1>2, <2>1
      <3> QED
        BY ONLY <3>1
    <2>6. Cut(polygons', RoleWays(FALSE)', SubSeq(rings', 1, placed'))
      BY <1>2, <2>2, <2>4, <2>5
    <2>7. result' \in Results
      BY <2>1 DEF Checked, Results
    <2>8. outcome' \notin Geometries
      BY <1>1, <2>1 DEF Geometries
    <2> QED
      BY <2>1, <2>2, <2>4, <2>5, <2>6, <2>7, <2>8 DEF PolyInv
  <1> QED
    BY <1>3, <1>4

(* A hole is placed, or none can be.                                        *)
LEMMA HolePoly ==
  ASSUME StitchInv, PolyInv, PlaceHole
  PROVE  PolyInv'
  <1> DEFINE hole == Normalized(rings[placed + 1], TRUE)
  <1>1. /\ outcome = "" /\ role = "inner" /\ result = "nil" /\ placed < Len(rings)
        /\ UNCHANGED <<segments, rings, result, relation, role>>
    BY DEF PlaceHole, stitching
  <1>2. RoleWays(FALSE)' = RoleWays(FALSE) /\ RoleWays(TRUE)' = RoleWays(TRUE)
    BY <1>1 DEF RoleWays
  <1>3. /\ segments = RoleWays(TRUE) /\ placed \in 0..Len(rings)
        /\ Cut(polygons, RoleWays(FALSE), SubSeq(rings, 1, placed)) /\ Held(polygons)
    BY <1>1 DEF PolyInv
  <1>4. CASE Holders(hole) = {}
    <2>1. outcome' = "hole outside" /\ polygons' = polygons /\ placed' = placed
      BY <1>4 DEF PlaceHole
    <2>2. /\ placed' \in 0..Len(rings')
          /\ Cut(polygons', RoleWays(FALSE)', SubSeq(rings', 1, placed')) /\ Held(polygons')
      BY <1>1, <1>2, <1>3, <2>1
    <2>3. outcome' \notin Geometries
      BY <2>1 DEF Geometries
    <2>4. result' \in Results
      BY <1>1 DEF Results
    <2> QED
      BY <1>1, <1>2, <1>3, <2>2, <2>3, <2>4 DEF PolyInv
  <1>5. CASE Holders(hole) # {}
    <2> DEFINE p == Parent(hole)
    <2>1. /\ polygons' = [polygons EXCEPT ![p] = Append(@, hole)]
          /\ placed' = placed + 1 /\ outcome' = outcome
      BY <1>5 DEF PlaceHole
    <2>2. polygons \in Seq(Seq(Piece)) /\ \A i \in DOMAIN polygons : polygons[i] # <<>>
      BY <1>3 DEF Cut
    <2>3. /\ p \in DOMAIN polygons /\ RingContainsRing(polygons[p][1], hole)
          /\ \A j \in DOMAIN polygons : RingContainsRing(polygons[j][1], hole)
               => Area(polygons[p][1]) <= Area(polygons[j][1])
      BY <1>5, <2>2, ParentHolds
    <2>4. RoleWays(FALSE) \in Seq(Piece)
      BY WaysType DEF StitchInv
    <2>5. rings \in Seq(Piece)
      BY RingsType
    <2>6. placed \in 0..Len(rings) - 1 /\ placed + 1 \in 0..Len(rings)
      <3>1. placed < Len(rings) /\ placed \in 0..Len(rings)
        BY <1>1, <1>3
      <3> QED
        BY ONLY <2>5, <3>1
    <2>7. hole = Normalized(rings[placed + 1], TRUE)
      OBVIOUS
    <2> HIDE DEF hole, p
    <2>8. Cut(polygons', RoleWays(FALSE), SubSeq(rings, 1, placed + 1)) /\ Held(polygons')
      BY ONLY <1>3, <2>1, <2>3, <2>4, <2>5, <2>6, <2>7, CutMore
    <2>9. /\ placed' \in 0..Len(rings')
          /\ Cut(polygons', RoleWays(FALSE)', SubSeq(rings', 1, placed')) /\ Held(polygons')
      BY <1>1, <1>2, <2>1, <2>6, <2>8
    <2>10. outcome' \notin Geometries
      BY <1>1, <2>1 DEF Geometries
    <2>11. result' \in Results
      BY <1>1 DEF Results
    <2> QED
      BY <1>1, <1>2, <1>3, <2>9, <2>10, <2>11 DEF PolyInv
  <1> QED
    BY <1>4, <1>5

(* The geometry is encoded, with all holes placed.                          *)
LEMMA EncodePoly ==
  ASSUME PolyInv, Encode
  PROVE  PolyInv'
  <1>1. /\ role = "inner" /\ result = "nil" /\ placed = Len(rings)
        /\ UNCHANGED <<segments, rings, result, relation, role, polygons, placed>>
    BY DEF Encode, stitching
  <1>2. RoleWays(FALSE)' = RoleWays(FALSE) /\ RoleWays(TRUE)' = RoleWays(TRUE)
    BY <1>1 DEF RoleWays
  <1> QED
    BY <1>1, <1>2 DEF PolyInv, Results

(* The ways do not make rings.                                              *)
LEMMA RefusedPoly ==
  ASSUME PolyInv, Refused
  PROVE  PolyInv'
  <1>1. /\ outcome' = result
        /\ UNCHANGED <<segments, rings, result, relation, role, polygons, placed>>
    BY DEF Refused, stitching
  <1>2. RoleWays(FALSE)' = RoleWays(FALSE) /\ RoleWays(TRUE)' = RoleWays(TRUE)
    BY <1>1 DEF RoleWays
  <1>3. outcome' \notin Geometries
    BY <1>1 DEF PolyInv, Geometries, Results
  <1> QED
    BY <1>1, <1>2, <1>3 DEF PolyInv

(* Every step.                                                              *)
LEMMA NextPoly == StitchInv /\ StitchInv' /\ PolyInv /\ [AssemblyNext]_assemblyVars => PolyInv'
  <1> SUFFICES ASSUME StitchInv, StitchInv', PolyInv, [AssemblyNext]_assemblyVars  PROVE PolyInv'
    OBVIOUS
  <1>1. CASE StitchRing
    BY <1>1, StitchPoly
  <1>2. CASE Refused
    BY <1>2, RefusedPoly
  <1>3. CASE OuterRings
    BY <1>3, OuterPoly
  <1>4. CASE PlaceHole
    BY <1>4, HolePoly
  <1>5. CASE Encode
    BY <1>5, EncodePoly
  <1>6. CASE AssemblyReturned
    BY <1>6, PolyStays DEF AssemblyReturned
  <1>7. CASE UNCHANGED assemblyVars
    BY <1>7, PolyStays
  <1> QED
    BY <1>1, <1>2, <1>3, <1>4, <1>5, <1>6, <1>7 DEF AssemblyNext

(* What holds of the polygons holds throughout.                             *)
LEMMA Assembled == AssemblySpec => [](StitchInv /\ PolyInv)
  <1>1. AssemblyInit => StitchInv /\ PolyInv
    BY InitStitches, InitPoly
  <1>2. StitchInv /\ PolyInv /\ [AssemblyNext]_assemblyVars => (StitchInv /\ PolyInv)'
    BY NextStitches, NextPoly
  <1> QED
    BY <1>1, <1>2, PTL DEF AssemblySpec

(* When the geometry is returned, it is made of all the ways.               *)
LEMMA PolygonsBalance == StitchInv /\ PolyInv => WaysConserved
  <1> SUFFICES ASSUME StitchInv, PolyInv  PROVE WaysConserved
    OBVIOUS
  <1>1. StretchesConserved
    BY StretchesBalance
  <1>2. ASSUME outcome \in Geometries, NEW s  PROVE PolygonPasses(s) = Passes(AllWays, s)
    <2>1. /\ role = "inner" /\ result = "nil" /\ segments = RoleWays(TRUE) /\ placed = Len(rings)
          /\ Cut(polygons, RoleWays(FALSE), SubSeq(rings, 1, placed))
      BY <1>2 DEF PolyInv
    <2>2. /\ rings \in Seq(Piece)
          /\ Total(rings, RunsAlong(s)) = Total(RoleWays(TRUE), RunsAlong(s))
      BY <2>1, RingsBalance
    <2>3. SubSeq(rings, 1, placed) = rings
      BY <2>1, <2>2
    <2>4. Cardinality(CutRuns(polygons, s)) = Total(RoleWays(FALSE), RunsAlong(s)) + Total(rings, RunsAlong(s))
      BY <2>1, <2>3 DEF Cut
    <2>5. /\ AllWays \in Seq(Piece)
          /\ Total(RoleWays(FALSE), RunsAlong(s)) + Total(RoleWays(TRUE), RunsAlong(s))
               = Total(AllWays, RunsAlong(s))
      BY RunsCount, WaysSplit DEF StitchInv
    <2>6. PolygonPasses(s) = Cardinality(CutRuns(polygons, s))
      BY DEF PolygonPasses, Places, CutRuns
    <2>7. Passes(AllWays, s) = Total(AllWays, RunsAlong(s))
      BY <2>5, PassesIs
    <2> QED
      BY <2>2, <2>4, <2>5, <2>6, <2>7
  <1> QED
    BY <1>1, <1>2 DEF WaysConserved, AllWays, Geometries

(* The polygons at any time.                                                *)
LEMMA PolygonsHeld == PolyInv => HolesHeld
  <1> SUFFICES ASSUME PolyInv  PROVE HolesHeld
    OBVIOUS
  <1>1. CASE role = "outer"
    BY <1>1 DEF PolyInv, HolesHeld
  <1>2. CASE role = "inner"
    BY <1>2 DEF PolyInv, Held, HolesHeld
  <1> QED
    BY <1>1, <1>2 DEF PolyInv

(* Theorem.  From the ways of a relation to the polygons that               *)
(* multipolygonGeometry returns, with rings stitched twice, turned round    *)
(* and given to one another as holes, no stretch is lost, doubled or        *)
(* invented, however many ways there are and wherever they pass.            *)
THEOREM WaysConservedCorrect == AssemblySpec => []WaysConserved
  BY Assembled, PolygonsBalance, PTL

(* Theorem.  Whatever the form of the rings, outer rings are wound left and *)
(* holes right, and each hole is cut from the smallest outer ring that has  *)
(* all its positions, as pointInRing finds them.                            *)
THEOREM HolesHeldCorrect == AssemblySpec => []HolesHeld
  BY Assembled, PolygonsHeld, PTL
=============================================================================
