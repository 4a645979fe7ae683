------------------------- MODULE OsmConverterProofs -------------------------
(***************************************************************************)
(* Theorems about OsmConverter, in either mode, for every document of any  *)
(* length and every failure of its input or output.                        *)
(***************************************************************************)
EXTENDS OsmConverter, FiniteSetTheorems, WellFoundedInduction, TLAPS

-----------------------------------------------------------------------------
(* Counting uses.                                                           *)

(* A file is a sequence of elements.                                        *)
LEMMA FileElements ==
  ASSUME file \in Files
  PROVE  /\ Len(file) \in Nat /\ DOMAIN file = 1..Len(file)
         /\ \A i \in DOMAIN file : file[i] \in Element /\ NamesNodes(file[i])
  <1>1. file \in Seq(Element) /\ \A e \in ToSet(file) : NamesNodes(e)
    BY OsmAssumption
  <1> QED
    BY <1>1 DEF ToSet

(* An element refers to a node at finitely many places.                     *)
LEMMA PlacesFinite ==
  ASSUME NEW e \in Element, NEW n
  PROVE  IsFiniteSet(Places(e, n)) /\ Uses(e, n) \in Nat
  <1>1. e.refs \in Seq(Ref)
    BY DEF Element
  <1>2. DOMAIN e.refs = 1..Len(e.refs) /\ Len(e.refs) \in Nat
    BY <1>1
  <1>3. IsFiniteSet(1..Len(e.refs))
    BY <1>2, FS_Interval
  <1>4. Places(e, n) \in SUBSET (1..Len(e.refs))
    BY <1>2 DEF Places
  <1>5. IsFiniteSet(Places(e, n))
    BY <1>3, <1>4, FS_Subset
  <1> QED
    BY <1>5, FS_CardinalityType DEF Uses

(* The places of one more element are places of its own.                    *)
LEMMA OneMore ==
  ASSUME file \in Files, NEW P \in SUBSET DOMAIN file, NEW n,
         NEW i \in DOMAIN file, i \notin P
  PROVE  /\ IsFiniteSet(PlacesAt(P, n)) /\ UsesAt(P, n) \in Nat
         /\ UsesAt(P \cup {i}, n) = UsesAt(P, n) + Uses(file[i], n)
  <1> DEFINE f == [k \in P |-> {k} \X Places(file[k], n)]
             T == Range(f)
             Q == {i} \X Places(file[i], n)
  <1>1. \A k \in DOMAIN file : IsFiniteSet(Places(file[k], n))
    BY FileElements, PlacesFinite
  <1>2. \A k \in DOMAIN file : /\ IsFiniteSet({k} \X Places(file[k], n))
                               /\ Cardinality({k} \X Places(file[k], n)) = Uses(file[k], n)
    <2> TAKE k \in DOMAIN file
    <2>1. IsFiniteSet({k}) /\ Cardinality({k}) = 1
      BY FS_Singleton
    <2>2. /\ IsFiniteSet({k} \X Places(file[k], n))
          /\ Cardinality({k} \X Places(file[k], n)) = 1 * Cardinality(Places(file[k], n))
      BY <1>1, <2>1, FS_Product
    <2>3. Cardinality(Places(file[k], n)) \in Nat
      BY <1>1, FS_CardinalityType
    <2> QED
      BY <2>2, <2>3 DEF Uses
  <1>3. IsFiniteSet(P)
    <2>1. IsFiniteSet(1..Len(file)) /\ P \in SUBSET (1..Len(file))
      BY FileElements, FS_Interval
    <2> QED
      BY <2>1, FS_Subset
  <1>4. IsFiniteSet(T)
    <2>1. f \in Surjection(P, T)
      BY DEF Surjection, Range
    <2> QED
      BY <1>3, <2>1, FS_Surjection
  <1>5. \A t \in T : IsFiniteSet(t)
    BY <1>2 DEF Range
  <1>6. PlacesAt(P, n) = UNION T
    BY DEF PlacesAt, Range
  <1>7. IsFiniteSet(PlacesAt(P, n))
    BY <1>4, <1>5, <1>6, FS_UNION
  <1>8. PlacesAt(P \cup {i}, n) = PlacesAt(P, n) \cup Q
    BY DEF PlacesAt
  <1>9. PlacesAt(P, n) \cap Q = {}
    BY DEF PlacesAt
  <1>10. UsesAt(P, n) \in Nat /\ Uses(file[i], n) \in Nat
    BY <1>7, FS_CardinalityType, FileElements, PlacesFinite DEF UsesAt
  <1>11. Cardinality(PlacesAt(P, n) \cup Q)
         = Cardinality(PlacesAt(P, n)) + Cardinality(Q) - Cardinality(PlacesAt(P, n) \cap Q)
    BY <1>2, <1>7, FS_Union
  <1>12. Cardinality(PlacesAt(P, n) \cap Q) = 0
    BY <1>9, FS_EmptySet
  <1>13. Cardinality(Q) = Uses(file[i], n)
    BY <1>2
  <1>14. UsesAt(P \cup {i}, n) = UsesAt(P, n) + Uses(file[i], n) - 0
    BY <1>8, <1>11, <1>12, <1>13 DEF UsesAt
  <1> QED
    BY <1>7, <1>10, <1>14

(* An element that refers to a node at no place does not use it.            *)
LEMMA Unused ==
  ASSUME NEW e \in Element, NEW n, n \notin RefIDs(e, "node")
  PROVE  Uses(e, n) = 0
  <1>1. e.refs \in Seq(Ref)
    BY DEF Element
  <1>2. ASSUME NEW i \in DOMAIN e.refs  PROVE e.refs[i] # [kind |-> "node", id |-> n]
    <2>1. e.refs[i] \in ToSet(e.refs)
      BY DEF ToSet
    <2>2. e.refs[i].kind = "node" => e.refs[i].id \in RefIDs(e, "node")
      BY <2>1 DEF RefIDs
    <2> QED
      BY <2>2
  <1>3. Places(e, n) = {}
    BY <1>2 DEF Places
  <1> QED
    BY <1>3, FS_EmptySet DEF Uses

(* The elements a pass has gone by that refer to nodes, and those that the  *)
(* second pass still counts with.                                           *)
Passed(p) == {i \in DOMAIN file : i < p /\ file[i].kind # "node"}
Coming(p) == {i \in p..Len(file) : file[i].kind = "way"} \cup RelationsAt

(* Going by an element.                                                     *)
LEMMA PassedGrows ==
  ASSUME file \in Files, NEW p \in DOMAIN file
  PROVE  /\ file[p].kind = "node" => Passed(p + 1) = Passed(p)
         /\ file[p].kind # "node" => Passed(p + 1) = Passed(p) \cup {p}
         /\ p \notin Passed(p) /\ Passed(p) \in SUBSET DOMAIN file
  BY FileElements DEF Passed

(* Coming by a way, or by anything else.                                    *)
LEMMA ComingShrinks ==
  ASSUME file \in Files, NEW p \in DOMAIN file
  PROVE  /\ file[p].kind = "way" => Coming(p) = Coming(p + 1) \cup {p} /\ p \notin Coming(p + 1)
         /\ file[p].kind # "way" => Coming(p + 1) = Coming(p)
         /\ Coming(p + 1) \in SUBSET DOMAIN file
  BY FileElements DEF Coming, RelationsAt

(* What the index has gone by is what is to come.                           *)
LEMMA PassedIsComing ==
  ASSUME file \in Files
  PROVE  Passed(Len(file) + 1) = Coming(1)
  <1>1. \A i \in DOMAIN file : file[i].kind \in {"node", "way", "relation"}
    BY FileElements DEF Element
  <1> QED
    BY <1>1, FileElements DEF Passed, Coming, RelationsAt

PosInv == /\ file \in Files /\ pos \in Nat \ {0}
          /\ pass \in {"index", "convert"} => pos <= Len(file) + 1
          /\ pass \in {"index", "convert", "relations", "done"}

Reached == IF pass = "convert" THEN pos ELSE Len(file) + 1

CountInv ==
    /\ pass = "index" => \A n \in NodeIDs : uses[n] = UsesAt(Passed(pos), n)
    /\ pass \in {"convert", "relations"} =>
         \A n \in NodeIDs : uses[n] = UsesAt(Coming(Reached), n)

(* The position stays in the file, which stays what it is.                  *)
LEMMA PosKept ==
  ASSUME PosInv, [Next]_vars
  PROVE  file' = file /\ PosInv'
  <1>1. Len(file) \in Nat /\ DOMAIN file = 1..Len(file)
    BY FileElements DEF PosInv
  <1>2. CASE IndexNode \/ IndexWay \/ IndexRelation
    BY <1>1, <1>2 DEF IndexNode, IndexWay, IndexRelation, At, Advance, Fail, PosInv
  <1>3. CASE ConvertNode \/ ConvertWay \/ ConvertRelation
    BY <1>1, <1>3 DEF ConvertNode, ConvertWay, ConvertRelation, At, Advance, Fail, PosInv
  <1>4. CASE IndexEnd \/ ConvertEnd
    BY <1>1, <1>4 DEF IndexEnd, ConvertEnd, Fail, PosInv
  <1>5. CASE WriteRelation \/ Close
    BY <1>1, <1>5 DEF WriteRelation, Close, Advance, Fail, PosInv
  <1>6. CASE InputOutputFails \/ Returned \/ UNCHANGED vars
    BY <1>1, <1>6 DEF InputOutputFails, Returned, vars, Fail, PosInv
  <1> QED
    BY <1>2, <1>3, <1>4, <1>5, <1>6 DEF Next, Step

(* Counts at other positions of the same file.                              *)
LEMMA SameFile ==
  ASSUME file' = file, NEW n
  PROVE  /\ UsesAt(Passed(pos), n)' = UsesAt(Passed(pos'), n)
         /\ UsesAt(Coming(Reached), n)' =
              UsesAt(Coming(IF pass' = "convert" THEN pos' ELSE Len(file) + 1), n)
  <1>1. Passed(pos)' = Passed(pos') /\ RelationsAt' = RelationsAt
    BY DEF Passed, RelationsAt
  <1>2. Coming(Reached)' = Coming(IF pass' = "convert" THEN pos' ELSE Len(file) + 1)
    BY <1>1 DEF Coming, Reached
  <1>3. \A P : PlacesAt(P, n)' = PlacesAt(P, n)
    BY DEF PlacesAt, Places
  <1> QED
    BY <1>1, <1>2, <1>3 DEF UsesAt, PlacesAt, Places

(* Every use is counted when its element goes by.                           *)
LEMMA IndexCounts ==
  ASSUME PosInv, CountInv, IndexNode \/ IndexWay \/ IndexRelation
  PROVE  CountInv'
  <1>1. pass = "index" /\ pos \in DOMAIN file /\ file \in Files /\ file' = file
    BY FileElements DEF PosInv, IndexNode, IndexWay, IndexRelation, At
  <1>2. CASE pass' = "done"
    BY <1>2 DEF CountInv
  <1>3. CASE pass' # "done"
    <2> SUFFICES ASSUME NEW n \in NodeIDs
                 PROVE  pass' = "index" /\ uses'[n] = UsesAt(Passed(pos + 1), n) /\ pos' = pos + 1
      BY <1>1, SameFile DEF CountInv
    <2>1. uses[n] = UsesAt(Passed(pos), n)
      BY <1>1 DEF CountInv
    <2>2. pass' = "index" /\ pos' = pos + 1
      BY <1>1, <1>3 DEF IndexNode, IndexWay, IndexRelation, Advance, Fail
    <2>3. CASE IndexNode
      <3>1. file[pos].kind = "node" /\ uses' = uses
        BY <2>3 DEF IndexNode, At, index
      <3> QED
        BY <1>1, <2>1, <2>2, <3>1, PassedGrows
    <2>4. CASE IndexWay \/ IndexRelation
      <3>1. file[pos].kind # "node" /\ CountUses(file[pos])
        BY <1>3, <2>4 DEF IndexWay, IndexRelation, At, Fail
      <3>2. uses'[n] = uses[n] + Uses(file[pos], n)
        BY <3>1 DEF CountUses
      <3> QED
        BY <1>1, <2>1, <2>2, <3>1, <3>2, PassedGrows, OneMore
    <2> QED
      BY <2>3, <2>4
  <1> QED
    BY <1>2, <1>3

(* Every use is taken off the count when its way goes by.                   *)
LEMMA ConvertCounts ==
  ASSUME Mode = "indexed", PosInv, CountInv, ConvertNode \/ ConvertWay \/ ConvertRelation
  PROVE  CountInv'
  <1>1. pass = "convert" /\ pos \in DOMAIN file /\ file \in Files /\ file' = file
    BY FileElements DEF PosInv, ConvertNode, ConvertWay, ConvertRelation, At
  <1>2. CASE pass' = "done"
    BY <1>2 DEF CountInv
  <1>3. CASE pass' # "done"
    <2>1. pass' = "convert" /\ pos' = pos + 1
      BY <1>1, <1>3 DEF ConvertNode, ConvertWay, ConvertRelation, Advance, Fail
    <2> SUFFICES ASSUME NEW n \in NodeIDs
                 PROVE  uses'[n] = UsesAt(Coming(pos + 1), n)
      BY <1>1, <2>1, SameFile DEF CountInv
    <2>2. uses[n] = UsesAt(Coming(pos), n)
      BY <1>1 DEF CountInv, Reached
    <2>3. CASE ConvertNode \/ ConvertRelation
      <3>1. file[pos].kind # "way" /\ uses' = uses
        BY <2>3 DEF ConvertNode, ConvertRelation, At, index
      <3> QED
        BY <1>1, <2>2, <3>1, ComingShrinks
    <2>4. CASE ConvertWay
      <3>1. file[pos].kind = "way" /\ Release(file[pos])
        BY <1>3, <2>4 DEF ConvertWay, At, Fail
      <3>2. uses'[n] = uses[n] - Uses(file[pos], n)
        BY <3>1 DEF Release
      <3>3. /\ UsesAt(Coming(pos + 1), n) \in Nat
            /\ UsesAt(Coming(pos), n) = UsesAt(Coming(pos + 1), n) + Uses(file[pos], n)
        BY <1>1, <3>1, ComingShrinks, OneMore
      <3>4. Uses(file[pos], n) \in Nat
        BY <1>1, FileElements, PlacesFinite
      <3> QED
        BY <2>2, <3>2, <3>3, <3>4
    <2> QED
      BY <2>3, <2>4
  <1> QED
    BY <1>2, <1>3

(* The other steps count nothing.                                           *)
LEMMA OthersCount ==
  ASSUME PosInv, CountInv,
         \/ IndexEnd \/ ConvertEnd \/ WriteRelation \/ Close
         \/ InputOutputFails \/ Returned \/ UNCHANGED vars
  PROVE  CountInv'
  <1>1. file' = file /\ uses' = uses /\ file \in Files
    BY DEF PosInv, IndexEnd, ConvertEnd, WriteRelation, Close, InputOutputFails, Returned,
           vars, index
  <1>2. CASE pass' = "done"
    BY <1>2 DEF CountInv
  <1>3. CASE IndexEnd
    <2>1. pass = "index" /\ pass' = "convert" /\ pos' = 1 /\ pos = Len(file) + 1
      BY <1>1, <1>3, FileElements DEF IndexEnd, PosInv
    <2> QED
      BY <1>1, <2>1, SameFile, PassedIsComing DEF CountInv
  <1>4. CASE ConvertEnd /\ pass' # "done"
    <2>1. pass = "convert" /\ pass' = "relations" /\ pos = Len(file) + 1
      BY <1>1, <1>4, FileElements DEF ConvertEnd, PosInv, Fail
    <2> QED
      BY <1>1, <2>1, SameFile DEF CountInv, Reached
  <1>5. CASE WriteRelation /\ pass' # "done"
    <2>1. pass = "relations" /\ pass' = "relations"
      BY <1>5 DEF WriteRelation, Advance, Fail
    <2> QED
      BY <1>1, <2>1, SameFile DEF CountInv, Reached
  <1>6. CASE UNCHANGED vars
    <2>1. pass' = pass /\ pos' = pos
      BY <1>6 DEF vars
    <2> QED
      BY <1>1, <2>1, SameFile DEF CountInv, Reached
  <1> QED
    BY <1>2, <1>3, <1>4, <1>5, <1>6 DEF Close, InputOutputFails, Returned, Fail

-----------------------------------------------------------------------------
(* The nodes that are held.                                                 *)

HeldIDs == {x.id : x \in nodes}
Kept(n) == Mode = "streaming" \/ uses[n] > 0
Gone(p) == {n \in NodeIDs : Kept(n) /\ \E i \in 1..p-1 : Key(file[i]) = <<"node", n>>}

HeldInv ==
    /\ DOMAIN uses = NodeIDs
    /\ pass = "index" => nodes = {}
    /\ pass \in {"convert", "relations"} => HeldIDs = Gone(Reached)

(* A node is held when it has gone by if it has a use to come.              *)
LEMMA NodeHeld ==
  ASSUME PosInv, HeldInv, ConvertNode, pass' # "done"
  PROVE  HeldInv'
  <1> DEFINE e == file[pos]
  <1>1. /\ pass = "convert" /\ pos \in DOMAIN file /\ file \in Files /\ e.kind = "node"
        /\ pos \in Nat \ {0}
    BY FileElements DEF PosInv, ConvertNode, At
  <1>2. /\ ~("outside" \in e.tags \/ e.id = NotNumeric)
        /\ nodes' = IF Kept(e.id) THEN Put(nodes, e) ELSE nodes
        /\ pass' = "convert" /\ pos' = pos + 1
    BY <1>1 DEF ConvertNode, Fail, Advance, Kept
  <1>3. file' = file /\ uses' = uses
    BY DEF ConvertNode, index
  <1>4. e.id \in NodeIDs
    BY <1>1, <1>2, FileElements DEF NamesNodes
  <1>5. HeldIDs = Gone(pos)
    BY <1>1 DEF HeldInv, Reached
  <1>6. HeldIDs' = IF Kept(e.id) THEN HeldIDs \cup {e.id} ELSE HeldIDs
    <2>1. CASE Kept(e.id)
      <3>1. nodes' = {x \in nodes : Key(x) # Key(e)} \cup {e}
        BY <1>2, <2>1 DEF Put
      <3>2. \A x \in nodes : Key(x) = Key(e) => x.id = e.id
        BY DEF Key
      <3> QED
        BY <2>1, <3>1, <3>2 DEF HeldIDs
    <2>2. CASE ~Kept(e.id)
      BY <1>2, <2>2 DEF HeldIDs
    <2> QED
      BY <2>1, <2>2
  <1>7. \A n : (\E i \in 1..pos : Key(file[i]) = <<"node", n>>) <=>
               (\E i \in 1..pos-1 : Key(file[i]) = <<"node", n>>) \/ n = e.id
    <2>1. \A n : Key(file[pos]) = <<"node", n>> <=> n = e.id
      BY <1>1 DEF Key
    <2>2. 1..pos = (1..pos-1) \cup {pos}
      BY <1>1
    <2> QED
      BY <2>1, <2>2
  <1>8. Gone(pos + 1) = IF Kept(e.id) THEN Gone(pos) \cup {e.id} ELSE Gone(pos)
    <2>1. (pos + 1) - 1 = pos
      BY <1>1
    <2> QED
      BY <1>4, <1>7, <2>1 DEF Gone
  <1>9. Gone(Reached)' = Gone(pos + 1)
    BY <1>2, <1>3 DEF Gone, Reached, Key, Kept
  <1> QED
    BY <1>2, <1>3, <1>5, <1>6, <1>8, <1>9 DEF HeldInv

(* A node is dropped when the last way that uses it has gone by.            *)
LEMMA WayReleases ==
  ASSUME Mode = "indexed", PosInv, CountInv, HeldInv, ConvertWay, pass' # "done"
  PROVE  HeldInv'
  <1> DEFINE e == file[pos]
  <1>1. /\ pass = "convert" /\ pos \in DOMAIN file /\ file \in Files /\ e.kind = "way"
        /\ pos \in Nat \ {0} /\ e \in Element
    BY FileElements DEF PosInv, ConvertWay, At
  <1>2. /\ WayResolves(e) /\ Release(e)
        /\ pass' = "convert" /\ pos' = pos + 1 /\ file' = file
    BY <1>1 DEF ConvertWay, Fail, Advance
  <1>3. HeldIDs = Gone(pos)
    BY <1>1 DEF HeldInv, Reached
  <1>4. ASSUME NEW n \in NodeIDs
        PROVE  /\ uses[n] \in Nat /\ uses'[n] \in Nat /\ uses'[n] <= uses[n]
               /\ n \notin RefIDs(e, "node") => uses'[n] = uses[n]
    <2>1. uses'[n] = uses[n] - Uses(e, n)
      BY <1>2 DEF Release
    <2>2. uses[n] = UsesAt(Coming(pos), n)
      BY <1>1 DEF CountInv, Reached
    <2>3. /\ UsesAt(Coming(pos + 1), n) \in Nat
          /\ UsesAt(Coming(pos), n) = UsesAt(Coming(pos + 1), n) + Uses(e, n)
      BY <1>1, ComingShrinks, OneMore
    <2>4. Uses(e, n) \in Nat
      BY <1>1, PlacesFinite
    <2>5. n \notin RefIDs(e, "node") => Uses(e, n) = 0
      BY <1>1, Unused
    <2> QED
      BY <2>1, <2>2, <2>3, <2>4, <2>5
  <1>5. HeldIDs' = {n \in HeldIDs : n \in RefIDs(e, "node") => uses'[n] # 0}
    BY <1>2 DEF Release, HeldIDs
  <1>7. Gone(Reached)' = {n \in NodeIDs : uses'[n] > 0 /\
                            \E i \in 1..pos : Key(file[i]) = <<"node", n>>}
    <2>1. (pos + 1) - 1 = pos
      BY <1>1
    <2> QED
      BY <1>2, <2>1 DEF Gone, Reached, Key, Kept
  <1>8. HeldIDs' = Gone(Reached)'
    <2>1. \A n \in NodeIDs : (\E i \in 1..pos : Key(file[i]) = <<"node", n>>) <=>
                             (\E i \in 1..pos-1 : Key(file[i]) = <<"node", n>>)
      <3>1. \A n : Key(file[pos]) # <<"node", n>>
        BY <1>1 DEF Key
      <3>2. 1..pos = (1..pos-1) \cup {pos}
        BY <1>1
      <3> QED
        BY <3>1, <3>2
    <2>2. HeldIDs' = {n \in NodeIDs :
                         /\ uses[n] > 0 /\ \E i \in 1..pos-1 : Key(file[i]) = <<"node", n>>
                         /\ n \in RefIDs(e, "node") => uses'[n] # 0}
      BY <1>3, <1>5 DEF Gone, Kept
    <2>3. \A n \in NodeIDs : uses'[n] > 0 <=>
             uses[n] > 0 /\ (n \in RefIDs(e, "node") => uses'[n] # 0)
      BY <1>4
    <2> QED
      BY <1>7, <2>1, <2>2, <2>3
  <1>9. DOMAIN uses' = NodeIDs
    BY <1>2 DEF Release
  <1> QED
    BY <1>2, <1>8, <1>9 DEF HeldInv

(* The other steps hold and drop nothing.                                   *)
LEMMA OthersHold ==
  ASSUME PosInv, HeldInv, [Next]_vars, ~(ConvertNode /\ pass' # "done"),
         ~(ConvertWay /\ Mode = "indexed" /\ pass' # "done")
  PROVE  HeldInv'
  <1>1. file' = file /\ file \in Files /\ Len(file) \in Nat /\ pos \in Nat
    BY PosKept, FileElements DEF PosInv
  <1>2. ASSUME UNCHANGED <<uses, nodes>>, UNCHANGED pass, pass # "convert"
        PROVE  HeldInv'
    BY <1>1, <1>2 DEF HeldInv, HeldIDs, Gone, Reached, Key, Kept
  <1>3. CASE IndexNode \/ IndexWay \/ IndexRelation
    <2>1. pass = "index" /\ pass' \in {"index", "done"} /\ nodes' = nodes
      BY <1>3 DEF IndexNode, IndexWay, IndexRelation, At, Advance, Fail, stores
    <2>2. DOMAIN uses' = NodeIDs
      BY <1>3 DEF IndexNode, IndexWay, IndexRelation, CountUses, HeldInv, index
    <2> QED
      BY <2>1, <2>2 DEF HeldInv
  <1>4. CASE IndexEnd
    <2>1. pass = "index" /\ pass' = "convert" /\ pos' = 1 /\ UNCHANGED <<uses, nodes>>
      BY <1>4 DEF IndexEnd, index, stores
    <2>2. HeldIDs' = {} /\ Gone(Reached)' = {}
      BY <2>1 DEF HeldInv, HeldIDs, Gone, Reached
    <2> QED
      BY <2>1, <2>2 DEF HeldInv
  <1>5. CASE pass' = "done" /\ uses' = uses
    BY <1>5 DEF HeldInv
  <1>6. CASE ConvertRelation \/ (ConvertWay /\ Mode # "indexed" /\ pass' # "done")
    <2>1. /\ pass = "convert" /\ pass' = "convert" /\ pos' = pos + 1 /\ UNCHANGED <<uses, nodes>>
          /\ file[pos].kind # "node" /\ pos \in Nat \ {0}
      BY <1>6 DEF ConvertRelation, ConvertWay, At, Advance, Fail, index, stores, PosInv
    <2>2. \A n : Key(file[pos]) # <<"node", n>>
      BY <2>1 DEF Key
    <2>3. 1..pos = (1..pos-1) \cup {pos} /\ (pos + 1) - 1 = pos
      BY <2>1
    <2>4. Gone(Reached)' = Gone(Reached)
      BY <1>1, <2>1, <2>2, <2>3 DEF Gone, Reached, Key, Kept
    <2> QED
      BY <2>1, <2>4 DEF HeldInv, HeldIDs
  <1>7. CASE ConvertEnd /\ pass' # "done"
    <2>1. /\ pass = "convert" /\ pass' = "relations" /\ pos = Len(file) + 1
          /\ UNCHANGED <<uses, nodes>>
      BY <1>1, <1>7 DEF ConvertEnd, Fail, PosInv, index, stores
    <2>2. Gone(Reached)' = Gone(Reached)
      BY <1>1, <2>1 DEF Gone, Reached, Key, Kept
    <2> QED
      BY <2>1, <2>2 DEF HeldInv, HeldIDs
  <1>8. CASE WriteRelation /\ pass' # "done"
    BY <1>2, <1>8 DEF WriteRelation, Advance, Fail, index, stores
  <1>9. CASE UNCHANGED vars
    <2>1. UNCHANGED <<uses, nodes, pass, pos, file>>
      BY <1>9 DEF vars, index, stores
    <2>2. Gone(Reached)' = Gone(Reached)
      BY <2>1 DEF Gone, Reached, Key, Kept
    <2> QED
      BY <2>1, <2>2 DEF HeldInv, HeldIDs
  <1>10. CASE ConvertNode \/ ConvertWay \/ ConvertEnd \/ WriteRelation
    <2>1. pass' = "done" => uses' = uses
      BY <1>10 DEF ConvertNode, ConvertWay, ConvertEnd, WriteRelation, Advance, Fail, index,
                   At
    <2> QED
      BY <1>5, <1>6, <1>7, <1>8, <1>10, <2>1
  <1>11. CASE Close \/ InputOutputFails \/ Returned
    BY <1>5, <1>11 DEF Close, InputOutputFails, Returned, Fail, index, vars
  <1> QED
    BY <1>3, <1>4, <1>6, <1>9, <1>10, <1>11 DEF Next, Step

(* The count of a node is exactly what the ways to come and the relations   *)
(* use it, and the nodes held are those with a use left: nothing is dropped *)
(* too early and nothing is kept too long (releaseOSMWayNodes).             *)
THEOREM NodesHeldCorrect == Spec => []NodesHeldAreThoseInUse
  <1>1. CASE Mode = "indexed"
    <2> DEFINE Inv == PosInv /\ CountInv /\ HeldInv
    <2>1. ASSUME Init  PROVE Inv
      <3>1. PosInv /\ pass = "index" /\ pos = 1 /\ nodes = {} /\ DOMAIN uses = NodeIDs
        BY <1>1, <2>1, FileElements DEF Init, PosInv
      <3>2. \A n \in NodeIDs : uses[n] = 0
        BY <2>1 DEF Init
      <3>3. Passed(pos) = {}
        BY <3>1, FileElements DEF Passed, PosInv
      <3>4. \A n : UsesAt(Passed(pos), n) = 0
        BY <3>3, FS_EmptySet DEF UsesAt, PlacesAt
      <3> QED
        BY <3>1, <3>2, <3>4 DEF CountInv, HeldInv
    <2>2. ASSUME Inv, [Next]_vars  PROVE Inv'
      <3>1. PosInv'
        BY <2>2, PosKept
      <3>2. CountInv'
        BY <1>1, <2>2, IndexCounts, ConvertCounts, OthersCount DEF Next, Step
      <3>3. HeldInv'
        BY <1>1, <2>2, NodeHeld, WayReleases, OthersHold
      <3> QED
        BY <3>1, <3>2, <3>3
    <2>3. ASSUME Inv  PROVE NodesHeldAreThoseInUse
      BY <2>3 DEF CountInv, HeldInv, NodesHeldAreThoseInUse, Coming, Gone, HeldIDs, Reached, Kept
    <2> HIDE DEF Inv
    <2> QED
      BY <2>1, <2>2, <2>3, PTL DEF Spec
  <1>2. CASE Mode # "indexed"
    <2>1. NodesHeldAreThoseInUse
      BY <1>2 DEF NodesHeldAreThoseInUse
    <2> QED
      BY <2>1, PTL
  <1> QED
    BY <1>1, <1>2

-----------------------------------------------------------------------------
(***************************************************************************)
(* What OsmConverter keeps and writes, in either mode, said of its file    *)
(* alone: a conversion that succeeds is a function of the file, whichever  *)
(* way it is made and whatever it drops on the way.                        *)
(***************************************************************************)

-----------------------------------------------------------------------------
(* The file. *)

Upto == Len(file) + 1

(* An element with this key goes by before p; the last that does.           *)
Met(f, p, key) == \E i \in 1..p-1 : Key(f[i]) = key
IsLast(f, i, p, key) ==
    /\ i \in 1..p-1 /\ Key(f[i]) = key
    /\ \A k \in 1..p-1 : Key(f[k]) = key => k <= i

(* What the way at i is made of: for each reference the last version of its *)
(* node that precedes the way.                                              *)
Resolved(f, i, of) ==
    /\ of = [k \in DOMAIN f[i].refs |-> of[k]]
    /\ \A k \in DOMAIN f[i].refs :
         \E j : IsLast(f, j, i, <<"node", f[i].refs[k].id>>) /\ of[k] = f[j]

(* An element that can be written where it stands.                          *)
Good(f, i) ==
    LET e == f[i] IN
    /\ e.kind = "node" => "outside" \notin e.tags /\ e.id # NotNumeric
    /\ e.kind = "way" =>
         /\ e.id # NotNumeric /\ Len(e.refs) >= 2 /\ Numeric(e)
         /\ \A n \in RefIDs(e, "node") : Met(f, i, <<"node", n>>)

(* There is one last element.                                               *)
LEMMA LastUnique ==
  ASSUME NEW p \in Nat, NEW key, NEW i, NEW j, IsLast(file, i, p, key), IsLast(file, j, p, key)
  PROVE  i = j
  BY DEF IsLast

(* The last element of a key is the last one still when another goes by,    *)
(* and the one that goes by is the last of its own key.                     *)
LEMMA LastGrows ==
  ASSUME NEW p \in Nat \ {0}, NEW key
  PROVE  /\ \A i : IsLast(file, i, p, key) /\ key # Key(file[p]) => IsLast(file, i, p + 1, key)
         /\ key = Key(file[p]) => IsLast(file, p, p + 1, key)
         /\ Met(file, p + 1, key) <=> Met(file, p, key) \/ key = Key(file[p])
  <1>1. (p + 1) - 1 = p /\ 1..p = (1..p-1) \cup {p}
    OBVIOUS
  <1>2. Met(file, p + 1, key) <=> Met(file, p, key) \/ key = Key(file[p])
    BY <1>1 DEF Met
  <1>3. key = Key(file[p]) => IsLast(file, p, p + 1, key)
    BY <1>1 DEF IsLast
  <1>4. \A i : IsLast(file, i, p, key) /\ key # Key(file[p]) => IsLast(file, i, p + 1, key)
    BY <1>1 DEF IsLast
  <1> QED
    BY <1>2, <1>3, <1>4

(* The file says what a way is made of.                                     *)
LEMMA ResolvedUnique ==
  ASSUME file \in Files, NEW i \in DOMAIN file, NEW f, NEW g, Resolved(file, i, f), Resolved(file, i, g)
  PROVE  f = g
  <1>1. i \in Nat
    BY FileElements
  <1>2. ASSUME NEW k \in DOMAIN file[i].refs  PROVE f[k] = g[k]
    <2>1. PICK a : IsLast(file, a, i, <<"node", file[i].refs[k].id>>) /\ f[k] = file[a]
      BY DEF Resolved
    <2>2. PICK b : IsLast(file, b, i, <<"node", file[i].refs[k].id>>) /\ g[k] = file[b]
      BY DEF Resolved
    <2> QED
      BY <1>1, <2>1, <2>2, LastUnique
  <1>3. [k \in DOMAIN file[i].refs |-> f[k]] = [k \in DOMAIN file[i].refs |-> g[k]]
    BY <1>2
  <1> QED
    BY <1>3 DEF Resolved

-----------------------------------------------------------------------------
(* The elements of some kinds, and how many of them come before p.          *)

Among(f, K, p) == {i \in 1..p-1 : f[i].kind \in K}
Rank(f, K, p) == Cardinality(Among(f, K, p))

Written == {"node", "way"}
Grouped == {"relation"}

(* A rank is a number, which grows by one for each of them.                 *)
LEMMA RankGrows ==
  ASSUME NEW K, NEW p \in Nat \ {0}
  PROVE  /\ IsFiniteSet(Among(file, K, p)) /\ Rank(file, K, p) \in Nat
         /\ Rank(file, K, p + 1) = Rank(file, K, p) + (IF file[p].kind \in K THEN 1 ELSE 0)
  <1>1. IsFiniteSet(Among(file, K, p))
    <2>1. IsFiniteSet(1..p-1)
      BY FS_Interval
    <2> QED
      BY <2>1, FS_Subset DEF Among
  <1>2. Rank(file, K, p) \in Nat
    BY <1>1, FS_CardinalityType DEF Rank
  <1>3. (p + 1) - 1 = p /\ 1..p = (1..p-1) \cup {p} /\ p \notin 1..p-1
    OBVIOUS
  <1>4. CASE file[p].kind \in K
    <2>1. Among(file, K, p + 1) = Among(file, K, p) \cup {p} /\ p \notin Among(file, K, p)
      BY <1>3, <1>4 DEF Among
    <2>2. Cardinality(Among(file, K, p) \cup {p}) = Cardinality(Among(file, K, p)) + 1
      BY <1>1, <2>1, FS_AddElement
    <2> QED
      BY <1>1, <1>2, <1>4, <2>1, <2>2 DEF Rank
  <1>5. CASE file[p].kind \notin K
    <2>1. Among(file, K, p + 1) = Among(file, K, p)
      BY <1>3, <1>5 DEF Among
    <2> QED
      BY <1>1, <1>2, <1>5, <2>1 DEF Rank
  <1> QED
    BY <1>4, <1>5

(* No two of them have one rank.                                            *)
LEMMA RankTells ==
  ASSUME NEW K, NEW p \in Nat, NEW i \in Among(file, K, p), NEW j \in Among(file, K, p),
         Rank(file, K, i + 1) = Rank(file, K, j + 1)
  PROVE  i = j
  <1>1. ASSUME NEW a \in Among(file, K, p), NEW b \in Among(file, K, p), a < b,
               Rank(file, K, a + 1) = Rank(file, K, b + 1)
        PROVE  FALSE
    <2>1. a \in Nat \ {0} /\ b \in Nat \ {0} /\ file[b].kind \in K
      BY DEF Among
    <2>2. b + 1 \in Nat \ {0} /\ (b + 1) - 1 = b /\ (a + 1) - 1 = a
      BY <2>1
    <2>3. IsFiniteSet(Among(file, K, b + 1))
      BY <2>2, RankGrows
    <2>4. Among(file, K, a + 1) \in SUBSET Among(file, K, b + 1)
      BY <1>1, <2>1, <2>2 DEF Among
    <2>5. Among(file, K, a + 1) = Among(file, K, b + 1)
      BY <1>1, <2>3, <2>4, FS_Subset DEF Rank
    <2>6. b \in Among(file, K, b + 1) /\ b \notin Among(file, K, a + 1)
      BY <1>1, <2>1, <2>2 DEF Among
    <2> QED
      BY <2>5, <2>6
  <1>2. i \in Nat /\ j \in Nat
    BY DEF Among
  <1>3. i < j \/ j < i \/ i = j
    BY <1>2
  <1> QED
    BY <1>1, <1>3

(* A later position has no smaller rank, and one of them has a rank of its  *)
(* own above zero.                                                          *)
LEMMA RankBounds ==
  ASSUME NEW K, NEW p \in Nat \ {0}, NEW i \in Among(file, K, p)
  PROVE  Rank(file, K, i + 1) \in 1..Rank(file, K, p)
  <1>1. i \in Nat \ {0} /\ file[i].kind \in K /\ i < p
    BY DEF Among
  <1>2. Rank(file, K, i) \in Nat /\ Rank(file, K, i + 1) = Rank(file, K, i) + 1
    BY <1>1, RankGrows
  <1>3. Among(file, K, i + 1) \in SUBSET Among(file, K, p)
    BY <1>1 DEF Among
  <1>4. IsFiniteSet(Among(file, K, p)) /\ Rank(file, K, p) \in Nat
    BY RankGrows
  <1>5. Rank(file, K, i + 1) <= Rank(file, K, p)
    BY <1>3, <1>4, FS_Subset DEF Rank
  <1> QED
    BY <1>2, <1>4, <1>5

(* Every number up to the rank of p is the rank of one of them.             *)
LEMMA RankOnto ==
  ASSUME NEW K, NEW p \in Nat \ {0}, NEW k \in 1..Rank(file, K, p)
  PROVE  \E i \in Among(file, K, p) : k = Rank(file, K, i + 1)
  <1> DEFINE S == Among(file, K, p)
             N == Rank(file, K, p)
             g == [i \in S |-> Rank(file, K, i + 1)]
  <1>1. IsFiniteSet(S) /\ N \in Nat /\ N = Cardinality(S)
    BY RankGrows DEF Rank
  <1>2. IsFiniteSet(1..N) /\ Cardinality(1..N) = Cardinality(S)
    <2>1. \A m \in Nat : IsFiniteSet(1..m) /\ Cardinality(1..m) = m
      BY FS_Interval
    <2> QED
      BY <1>1, <2>1
  <1>3. g \in [S -> 1..N]
    BY RankBounds
  <1>4. \A i, j \in S : g[i] = g[j] => i = j
    BY RankTells
  <1>5. g \in Injection(S, 1..N)
    BY <1>3, <1>4 DEF Injection, IsInjective
  <1>6. g \in Surjection(S, 1..N)
    BY <1>2, <1>5, FS_Injection
  <1> QED
    BY <1>6 DEF Surjection

-----------------------------------------------------------------------------
(* The stores. *)

(* A way refers to nodes at all places.                                     *)
LEMMA WaysReferToNodes ==
  ASSUME file \in Files, NEW i \in DOMAIN file, file[i].kind = "way"
  PROVE  \A k \in DOMAIN file[i].refs :
           file[i].refs[k].kind = "node" /\ file[i].refs[k].id \in RefIDs(file[i], "node")
  <1>1. file[i] \in ToSet(file)
    BY DEF ToSet
  <1>2. \A r \in ToSet(file[i].refs) : r.kind = "node"
    BY <1>1, OsmAssumption DEF WayOfNodes
  <1>3. \A k \in DOMAIN file[i].refs : file[i].refs[k] \in ToSet(file[i].refs)
    BY DEF ToSet
  <1> QED
    BY <1>2, <1>3 DEF RefIDs

(* A node that an element refers to is used by it, and has a place in the   *)
(* counts if its id is a number.                                            *)
LEMMA Used ==
  ASSUME file \in Files, NEW i \in DOMAIN file, NEW n \in RefIDs(file[i], "node")
  PROVE  /\ Uses(file[i], n) \in Nat \ {0}
         /\ n # NotNumeric => n \in NodeIDs
  <1>1. file[i] \in Element /\ NamesNodes(file[i])
    BY FileElements
  <1>2. PICK r \in ToSet(file[i].refs) : r.kind = "node" /\ r.id = n
    BY DEF RefIDs
  <1>3. n # NotNumeric => n \in NodeIDs
    BY <1>1, <1>2 DEF NamesNodes
  <1>4. r \in Ref
    BY <1>1, <1>2 DEF Element, ToSet
  <1>5. r = [kind |-> "node", id |-> n]
    BY <1>2, <1>4 DEF Ref
  <1>6. PICK k \in DOMAIN file[i].refs : file[i].refs[k] = r
    BY <1>2 DEF ToSet
  <1>7. Places(file[i], n) # {}
    BY <1>5, <1>6 DEF Places
  <1>8. IsFiniteSet(Places(file[i], n)) /\ Uses(file[i], n) \in Nat
    BY <1>1, PlacesFinite
  <1>9. Uses(file[i], n) # 0
    BY <1>7, <1>8, FS_EmptySet DEF Uses
  <1> QED
    BY <1>3, <1>8, <1>9

NodesLast(f, ns, p) ==
    \A x \in ns : \E i : IsLast(f, i, p, <<"node", x.id>>) /\ x = f[i]

WayAt(f, i, x) ==
    /\ Resolved(f, i, x.of)
    /\ x = [kind |-> "way", id |-> f[i].id, tags |-> f[i].tags, of |-> x.of]

WaysLast(f, ws, p) ==
    \A x \in ws : \E i : IsLast(f, i, p, <<"way", x.id>>) /\ WayAt(f, i, x)

WayWanted(rw, w) == Mode = "streaming" \/ w \in rw
WaysHeld(f, ws, rw, p) ==
    \A w : Held(ws, w) <=> WayWanted(rw, w) /\ Met(f, p, <<"way", w>>)

AllGood(f, p) == \A i \in 1..p-1 : Good(f, i)

StoresAt(p) ==
    /\ NodesLast(file, nodes, p) /\ WaysLast(file, ways, p)
    /\ WaysHeld(file, ways, relationWays, p) /\ AllGood(file, p)

StoreInv ==
    /\ pass = "index" => nodes = {} /\ ways = {}
    /\ pass \in {"convert", "relations"} => StoresAt(Reached)

(* The counts matter where nodes are dropped.                               *)
Counted == Mode = "indexed" => CountInv

(* What is held of a node is the version that went by last.                 *)
LEMMA HeldNode ==
  ASSUME NEW p, NodesLast(file, nodes, p), NEW n, Held(nodes, n)
  PROVE  \E i : IsLast(file, i, p, <<"node", n>>) /\ Get(nodes, n) = file[i]
  <1>1. Get(nodes, n) \in nodes /\ Get(nodes, n).id = n
    BY DEF Held, Get
  <1> QED
    BY <1>1 DEF NodesLast

(* A way is written with what it is made of.                                *)
LEMMA PositionsResolve ==
  ASSUME PosInv, NodesLast(file, nodes, pos), At("convert", "way"), WayResolves(file[pos])
  PROVE  Resolved(file, pos, Positions(file[pos]))
  <1>1. file \in Files /\ pos \in DOMAIN file
    BY FileElements DEF PosInv, At
  <1>2. ASSUME NEW k \in DOMAIN file[pos].refs
        PROVE  \E j : /\ IsLast(file, j, pos, <<"node", file[pos].refs[k].id>>)
                      /\ Positions(file[pos])[k] = file[j]
    <2>1. Held(nodes, file[pos].refs[k].id)
      BY <1>1, WaysReferToNodes DEF At, WayResolves
    <2>2. Positions(file[pos])[k] = Get(nodes, file[pos].refs[k].id)
      BY DEF Positions
    <2> QED
      BY <2>1, <2>2, HeldNode
  <1>3. Positions(file[pos])
          = [k \in DOMAIN file[pos].refs |-> Positions(file[pos])[k]]
    BY DEF Positions
  <1> QED
    BY <1>2, <1>3 DEF Resolved

(* Where a way is refused, its file has no good way there: a node that was  *)
(* dropped is never missed.                                                 *)
LEMMA WayIsGood ==
  ASSUME PosInv, Counted, HeldInv, At("convert", "way")
  PROVE  WayResolves(file[pos]) /\ file[pos].id # NotNumeric <=> Good(file, pos)
  <1> DEFINE e == file[pos]
  <1>1. file \in Files /\ pos \in DOMAIN file /\ pass = "convert" /\ e.kind = "way"
    BY FileElements DEF PosInv, At
  <1>2. ASSUME NEW n \in RefIDs(e, "node"), n # NotNumeric
        PROVE  Held(nodes, n) <=> Met(file, pos, <<"node", n>>)
    <2>1. n \in NodeIDs /\ Uses(e, n) \in Nat \ {0}
      BY <1>1, <1>2, Used
    <2>2. Kept(n)
      <3>1. CASE Mode = "streaming"
        BY <3>1 DEF Kept
      <3>2. CASE Mode = "indexed"
        <4>1. uses[n] = UsesAt(Coming(pos), n)
          BY <1>1, <2>1, <3>2 DEF Counted, CountInv, Reached
        <4>2. /\ UsesAt(Coming(pos + 1), n) \in Nat
              /\ UsesAt(Coming(pos), n) = UsesAt(Coming(pos + 1), n) + Uses(e, n)
          BY <1>1, ComingShrinks, OneMore
        <4> QED
          BY <2>1, <4>1, <4>2 DEF Kept
      <3> QED
        BY <3>1, <3>2, OsmAssumption
    <2>3. n \in HeldIDs <=> n \in Gone(pos)
      BY <1>1 DEF HeldInv, Reached
    <2> QED
      BY <2>1, <2>2, <2>3 DEF HeldIDs, Held, Gone, Met
  <1>3. Numeric(e) => \A n \in RefIDs(e, "node") : n # NotNumeric
    BY DEF Numeric, RefIDs
  <1> QED
    BY <1>1, <1>2, <1>3 DEF WayResolves, Good

(* An element that is no way leaves the ways as they are.                   *)
LEMMA NoWay ==
  ASSUME NEW p \in Nat \ {0}, file[p].kind # "way", WaysLast(file, ways, p), WaysHeld(file, ways, relationWays, p)
  PROVE  WaysLast(file, ways, p + 1) /\ WaysHeld(file, ways, relationWays, p + 1)
  <1>1. \A w : <<"way", w>> # Key(file[p])
    BY DEF Key
  <1>2. WaysLast(file, ways, p + 1)
    BY <1>1, LastGrows DEF WaysLast
  <1>3. WaysHeld(file, ways, relationWays, p + 1)
    BY <1>1, LastGrows DEF WaysHeld
  <1> QED
    BY <1>2, <1>3

(* And one that is no node the nodes.                                       *)
LEMMA NoNode ==
  ASSUME NEW p \in Nat \ {0}, file[p].kind # "node",
         NodesLast(file, nodes, p), NEW ns \in SUBSET nodes
  PROVE  NodesLast(file, ns, p + 1)
  <1>1. \A n : <<"node", n>> # Key(file[p])
    BY DEF Key
  <1> QED
    BY <1>1, LastGrows DEF NodesLast

(* An element that was good is one more of them.                            *)
LEMMA OneMoreGood ==
  ASSUME NEW p \in Nat \ {0}, AllGood(file, p), Good(file, p)
  PROVE  AllGood(file, p + 1)
  <1>1. (p + 1) - 1 = p /\ 1..p = (1..p-1) \cup {p}
    OBVIOUS
  <1> QED
    BY <1>1 DEF AllGood

(* Holding a node.                                                          *)
LEMMA NodeStored ==
  ASSUME PosInv, HeldInv, StoreInv, ConvertNode, pass' # "done"
  PROVE  StoreInv'
  <1> DEFINE e == file[pos]
  <1>1. /\ pass = "convert" /\ pos \in DOMAIN file /\ file \in Files /\ e.kind = "node"
        /\ pos \in Nat \ {0}
    BY FileElements DEF PosInv, ConvertNode, At
  <1>2. /\ ~("outside" \in e.tags \/ e.id = NotNumeric)
        /\ nodes' = IF Kept(e.id) THEN Put(nodes, e) ELSE nodes
        /\ pass' = "convert" /\ pos' = pos + 1
    BY <1>1 DEF ConvertNode, Fail, Advance, Kept
  <1>3. file' = file /\ ways' = ways /\ relationWays' = relationWays
    BY DEF ConvertNode, index
  <1>4. StoresAt(pos) /\ HeldIDs = Gone(pos)
    BY <1>1 DEF StoreInv, HeldInv, Reached
  <1>5. Key(e) = <<"node", e.id>>
    BY <1>1 DEF Key
  <1>6. \A x \in nodes' : \E i : IsLast(file, i, pos + 1, <<"node", x.id>>) /\ x = file[i]
    <2> SUFFICES ASSUME NEW x \in nodes'
                 PROVE  \E i : IsLast(file, i, pos + 1, <<"node", x.id>>) /\ x = file[i]
      OBVIOUS
    <2>1. CASE x = e
      BY <1>1, <1>5, <2>1, LastGrows
    <2>2. CASE x \in nodes /\ x # e
      <3>1. PICK i : IsLast(file, i, pos, <<"node", x.id>>) /\ x = file[i]
        BY <1>4, <2>2 DEF StoresAt, NodesLast
      <3>2. Key(x) = <<"node", x.id>>
        BY <3>1 DEF IsLast
      <3>3. Key(x) # Key(e)
        <4>1. ASSUME Key(x) = Key(e)  PROVE Kept(e.id)
          <5>1. e.id \in HeldIDs
            BY <1>5, <2>2, <3>2, <4>1 DEF HeldIDs
          <5> QED
            BY <1>4, <5>1 DEF Gone
        <4> QED
          BY <1>2, <2>2, <4>1 DEF Put
      <3> QED
        BY <1>1, <3>1, <3>2, <3>3, LastGrows
    <2> QED
      BY <1>2, <2>1, <2>2 DEF Put
  <1>7. WaysLast(file, ways, pos + 1) /\ WaysHeld(file, ways, relationWays, pos + 1)
    BY <1>1, <1>4, NoWay DEF StoresAt
  <1>8. AllGood(file, pos + 1)
    BY <1>1, <1>2, <1>4, OneMoreGood DEF StoresAt, Good
  <1>9. NodesLast(file', nodes', pos + 1) /\ Reached' = pos + 1
    BY <1>2, <1>3, <1>6 DEF NodesLast, Reached
  <1>10. StoresAt(Reached)'
    BY <1>3, <1>7, <1>8, <1>9 DEF StoresAt
  <1> QED
    BY <1>2, <1>10 DEF StoreInv

(* Holding a way, and releasing its nodes.                                  *)
LEMMA WayStored ==
  ASSUME PosInv, Counted, HeldInv, StoreInv, ConvertWay, pass' # "done"
  PROVE  StoreInv'
  <1> DEFINE e == file[pos]
  <1>1. /\ pass = "convert" /\ pos \in DOMAIN file /\ file \in Files /\ e.kind = "way"
        /\ pos \in Nat \ {0}
    BY FileElements DEF PosInv, ConvertWay, At
  <1>2. /\ WayResolves(e) /\ e.id # NotNumeric
        /\ ways' = IF WayWanted(relationWays, e.id) THEN Put(ways, StoredWay(e)) ELSE ways
        /\ nodes' \in SUBSET nodes
        /\ pass' = "convert" /\ pos' = pos + 1
    BY <1>1 DEF ConvertWay, Fail, Advance, WayWanted, Release
  <1>3. file' = file /\ relationWays' = relationWays
    BY DEF ConvertWay
  <1>4. StoresAt(pos)
    BY <1>1 DEF StoreInv, Reached
  <1>5. Key(e) = <<"way", e.id>> /\ Key(StoredWay(e)) = Key(e)
    BY <1>1 DEF Key, StoredWay
  <1>6. NodesLast(file, nodes', pos + 1)
    BY <1>1, <1>2, <1>4, NoNode DEF StoresAt
  <1>7. Resolved(file, pos, Positions(e))
    BY <1>1, <1>2, <1>4, PositionsResolve DEF StoresAt, ConvertWay
  <1>8. WayAt(file, pos, StoredWay(e)) /\ StoredWay(e).id = e.id
    BY <1>7 DEF WayAt, StoredWay
  <1>9. \A x \in ways : Key(x) = <<"way", x.id>>
    <2>1. \A x \in ways : \E i : WayAt(file, i, x)
      BY <1>4 DEF StoresAt, WaysLast
    <2>2. \A i, x : WayAt(file, i, x) => x.kind = "way"
      BY DEF WayAt
    <2> QED
      BY <2>1, <2>2 DEF Key
  <1>10. WaysLast(file, ways', pos + 1)
    <2> SUFFICES ASSUME NEW x \in ways'
                 PROVE  \E i : IsLast(file, i, pos + 1, <<"way", x.id>>) /\ WayAt(file, i, x)
      BY DEF WaysLast
    <2>1. CASE x = StoredWay(e)
      BY <1>1, <1>5, <1>8, <2>1, LastGrows
    <2>2. CASE x \in ways /\ x # StoredWay(e)
      <3>1. PICK i : IsLast(file, i, pos, <<"way", x.id>>) /\ WayAt(file, i, x)
        BY <1>4, <2>2 DEF StoresAt, WaysLast
      <3>2. Key(x) # Key(e)
        <4>1. ASSUME Key(x) = Key(e)  PROVE WayWanted(relationWays, e.id)
          <5>1. x.id = e.id
            BY <1>5, <1>9, <2>2, <4>1
          <5>2. Held(ways, e.id)
            BY <2>2, <5>1 DEF Held
          <5> QED
            BY <1>4, <5>2 DEF StoresAt, WaysHeld
        <4> QED
          BY <1>2, <1>5, <2>2, <4>1 DEF Put
      <3> QED
        BY <1>1, <1>9, <2>2, <3>1, <3>2, LastGrows
    <2> QED
      BY <1>2, <2>1, <2>2 DEF Put
  <1>11. WaysHeld(file, ways', relationWays, pos + 1)
    <2> SUFFICES ASSUME NEW w
                 PROVE  Held(ways', w) <=> WayWanted(relationWays, w) /\ Met(file, pos + 1, <<"way", w>>)
      BY DEF WaysHeld
    <2>1. Met(file, pos + 1, <<"way", w>>) <=> Met(file, pos, <<"way", w>>) \/ w = e.id
      BY <1>1, <1>5, LastGrows
    <2>2. Held(ways, w) <=> WayWanted(relationWays, w) /\ Met(file, pos, <<"way", w>>)
      BY <1>4 DEF StoresAt, WaysHeld
    <2>3. Held(ways', w) <=> Held(ways, w) \/ (w = e.id /\ WayWanted(relationWays, e.id))
      <3>1. CASE WayWanted(relationWays, e.id)
        <4>1. ways' = {x \in ways : Key(x) # Key(e)} \cup {StoredWay(e)}
          BY <1>2, <1>5, <3>1 DEF Put
        <4>2. \A x \in ways : Key(x) = Key(e) => x.id = e.id
          BY <1>5, <1>9
        <4> QED
          BY <1>8, <3>1, <4>1, <4>2 DEF Held
      <3>2. CASE ~WayWanted(relationWays, e.id)
        BY <1>2, <3>2
      <3> QED
        BY <3>1, <3>2
    <2> QED
      BY <2>1, <2>2, <2>3
  <1>12. Good(file, pos)
    BY <1>1, <1>2, WayIsGood DEF ConvertWay
  <1>13. AllGood(file, pos + 1)
    BY <1>1, <1>4, <1>12, OneMoreGood DEF StoresAt
  <1>14. Reached' = pos + 1
    BY <1>2 DEF Reached
  <1>15. StoresAt(Reached)'
    BY <1>3, <1>6, <1>10, <1>11, <1>13, <1>14 DEF StoresAt, WaysHeld, WayWanted
  <1> QED
    BY <1>2, <1>15 DEF StoreInv

-----------------------------------------------------------------------------
(* The relations kept. *)

(* A bounded set of numbers has a greatest.                                 *)
LEMMA GreatestExists ==
  ASSUME NEW n \in Nat, NEW D \in SUBSET (1..n), D # {}
  PROVE  \E j \in D : \A k \in D : k <= j
  <1> DEFINE From(j) == {k \in D : j <= k}
             T == {From(j) : j \in D}
             R == StrictSubsetOrdering(1..n)
             F == FiniteSubsetsOf(1..n)
  <1>1. IsFiniteSet(1..n)
    BY FS_Interval
  <1>2. F = SUBSET (1..n)
    BY <1>1, FS_FiniteSubsetsOfFinite
  <1>3. IsWellFoundedOn(R, F)
    BY FS_StrictSubsetOrderingWellFounded
  <1>4. T \in SUBSET (SUBSET (1..n)) /\ T # {}
    <2>1. \A j \in D : From(j) \in SUBSET (1..n)
      OBVIOUS
    <2>2. T # {}
      OBVIOUS
    <2> QED
      BY <2>1, <2>2
  <1>5. \A j \in D : From(j) \in T
    OBVIOUS
  <1>6. \A x \in T : \E j \in D : x = From(j)
    OBVIOUS
  <1>7. \A j, k \in D : ~(k <= j) => /\ From(k) \subseteq From(j) /\ From(k) # From(j)
                                    /\ From(k) \in SUBSET (1..n) /\ From(j) \in SUBSET (1..n)
    <2>1. \A j, k \in D : ~(k <= j) => From(k) \subseteq From(j)
      <3> SUFFICES ASSUME NEW j \in D, NEW k \in D, ~(k <= j), NEW m \in D, k <= m
                   PROVE  j <= m
        OBVIOUS
      <3>1. j \in Nat /\ k \in Nat /\ m \in Nat
        OBVIOUS
      <3> QED
        BY <3>1
    <2>2. \A j, k \in D : ~(k <= j) => j \in From(j) /\ j \notin From(k)
      OBVIOUS
    <2>3. \A j \in D : From(j) \in SUBSET (1..n)
      OBVIOUS
    <2> QED
      BY <2>1, <2>2, <2>3
  <1> HIDE DEF From, T
  <1>8. \A j, k \in D : ~(k <= j) => <<From(k), From(j)>> \in R
    BY <1>7 DEF StrictSubsetOrdering
  <1> HIDE DEF R
  <1>9. \E x \in T : \A y \in T : ~(<<y, x>> \in R)
    BY <1>2, <1>3, <1>4, WFMin
  <1> QED
    BY <1>5, <1>6, <1>8, <1>9

(* A list has the relations before p, in the order of the file.             *)
RelsOf(f, rels, p) ==
    /\ rels \in Seq(Element) /\ Len(rels) = Rank(f, Grouped, p)
    /\ \A i \in Among(f, Grouped, p) : rels[Rank(f, Grouped, i + 1)] = f[i]

(* It has nothing else.                                                     *)
LEMMA RelsFrom ==
  ASSUME NEW p \in Nat \ {0}, NEW rels, RelsOf(file, rels, p), NEW k \in DOMAIN rels
  PROVE  \E i \in Among(file, Grouped, p) : k = Rank(file, Grouped, i + 1) /\ rels[k] = file[i]
  <1>1. k \in 1..Rank(file, Grouped, p)
    BY DEF RelsOf
  <1>2. PICK i \in Among(file, Grouped, p) : k = Rank(file, Grouped, i + 1)
    BY <1>1, RankOnto
  <1> QED
    BY <1>2 DEF RelsOf

(* The file says what the list is.                                          *)
LEMMA RelsUnique ==
  ASSUME NEW p \in Nat \ {0}, NEW a, NEW b, RelsOf(file, a, p), RelsOf(file, b, p)
  PROVE  a = b
  <1>1. a \in Seq(Element) /\ b \in Seq(Element) /\ Len(a) = Len(b)
    BY DEF RelsOf
  <1>2. DOMAIN a = DOMAIN b
    BY <1>1
  <1>3. ASSUME NEW k \in DOMAIN a  PROVE a[k] = b[k]
    <2>1. PICK i \in Among(file, Grouped, p) : k = Rank(file, Grouped, i + 1) /\ a[k] = file[i]
      BY RelsFrom
    <2> QED
      BY <2>1 DEF RelsOf
  <1> QED
    BY <1>1, <1>2, <1>3

(* It stays the list when anything else goes by, and one relation is one    *)
(* more of them.                                                            *)
LEMMA RelsGrow ==
  ASSUME NEW p \in Nat \ {0}, NEW rels, RelsOf(file, rels, p), file[p] \in Element
  PROVE  /\ file[p].kind # "relation" => RelsOf(file, rels, p + 1)
         /\ file[p].kind = "relation" => RelsOf(file, Append(rels, file[p]), p + 1)
  <1>1. (p + 1) - 1 = p /\ 1..p = (1..p-1) \cup {p} /\ p \notin 1..p-1
    OBVIOUS
  <1>2. Rank(file, Grouped, p) \in Nat
    BY RankGrows
  <1>3. Rank(file, Grouped, p + 1)
          = Rank(file, Grouped, p) + (IF file[p].kind \in Grouped THEN 1 ELSE 0)
    BY RankGrows
  <1>4. CASE file[p].kind # "relation"
    <2>1. Among(file, Grouped, p + 1) = Among(file, Grouped, p)
      BY <1>1, <1>4 DEF Among, Grouped
    <2>2. Rank(file, Grouped, p + 1) = Rank(file, Grouped, p)
      BY <2>1 DEF Rank
    <2> QED
      BY <1>4, <2>1, <2>2 DEF RelsOf
  <1>5. CASE file[p].kind = "relation"
    <2>1. Among(file, Grouped, p + 1) = Among(file, Grouped, p) \cup {p}
      BY <1>1, <1>5 DEF Among, Grouped
    <2>2. Rank(file, Grouped, p + 1) = Rank(file, Grouped, p) + 1
      BY <1>3, <1>5 DEF Grouped
    <2>3. rels \in Seq(Element) /\ Len(rels) = Rank(file, Grouped, p)
      BY DEF RelsOf
    <2>4. /\ Append(rels, file[p]) \in Seq(Element)
          /\ Len(Append(rels, file[p])) = Rank(file, Grouped, p + 1)
          /\ Append(rels, file[p])[Rank(file, Grouped, p + 1)] = file[p]
          /\ \A k \in 1..Rank(file, Grouped, p) : Append(rels, file[p])[k] = rels[k]
      BY <2>2, <2>3
    <2>5. ASSUME NEW i \in Among(file, Grouped, p)
          PROVE  Append(rels, file[p])[Rank(file, Grouped, i + 1)] = file[i]
      BY <2>4, RankBounds DEF RelsOf
    <2> QED
      BY <1>5, <2>1, <2>4, <2>5 DEF RelsOf
  <1> QED
    BY <1>4, <1>5

(* How far the relations are listed.                                        *)
ListReached ==
    IF pass = "index" \/ (pass = "convert" /\ Mode = "streaming") THEN pos ELSE Upto

ListInv ==
    /\ pass = "index" => Mode = "indexed"
    /\ pass # "done" => err = "nil" /\ RelsOf(file, relations, ListReached)
    /\ pass # "done" /\ Mode = "indexed" =>
         \A i \in Among(file, Grouped, ListReached) : RefIDs(file[i], "way") \subseteq relationWays
    /\ pass = "relations" =>
         pos <= Len(relations) + 1 /\ \A e \in ToSet(relations) : e.id # NotNumeric

-----------------------------------------------------------------------------
(* What a relation is made of, said of the file. *)

FileBuilds(e) ==
    /\ Expands(e)
    /\ \A w \in MemberIDs(e, "way") : w # NotNumeric /\ Met(file, Upto, <<"way", w>>)
    /\ IF "area" \in e.tags
       THEN "open" \notin e.tags /\ MemberIDs(e, "way") # {}
       ELSE /\ \A n \in MemberIDs(e, "node") :
                 n # NotNumeric /\ Met(file, Upto, <<"node", n>>)
            /\ \A x \in Expansion(e) : x.refs # <<>>
            /\ MemberIDs(e, "unknown") = {}

WayMember(e, m) ==
    \E w \in MemberIDs(e, "way") :
      \E i : IsLast(file, i, Upto, <<"way", w>>) /\ WayAt(file, i, m)
NodeMember(e, m) ==
    \E n \in MemberIDs(e, "node") :
      \E i : IsLast(file, i, Upto, <<"node", n>>) /\ m = file[i]
IsMembers(M, e) ==
    \A m : m \in M <=> WayMember(e, m) \/ ("area" \notin e.tags /\ NodeMember(e, m))

(* The relations below a relation that is listed are listed.                *)
LEMMA ExpansionListed ==
  ASSUME relations \in Seq(Element), NEW e \in ToSet(relations)
  PROVE  Expansion(e) \subseteq ToSet(relations)
  <1> SUFFICES ASSUME NEW id, Known(id)  PROVE ByID(id) \in ToSet(relations)
    BY DEF Expansion
  <1> DEFINE D == {j \in DOMAIN relations : relations[j].id = id}
  <1>1. Len(relations) \in Nat /\ D \in SUBSET (1..Len(relations)) /\ D # {}
    BY DEF Known, ToSet
  <1>2. \E j \in D : \A k \in D : k <= j
    BY <1>1, GreatestExists
  <1>3. \E j \in DOMAIN relations :
           relations[j].id = id /\ \A k \in DOMAIN relations : relations[k].id = id => k <= j
    BY <1>2
  <1>4. PICK j \in DOMAIN relations : ByID(id) = relations[j]
    BY <1>3 DEF ByID
  <1> QED
    BY <1>4 DEF ToSet

(* Once the file has been read, what a relation refers to is held if the    *)
(* file has it: nothing a relation needs was dropped.                       *)
LEMMA MembersHeld ==
  ASSUME PosInv, Counted, HeldInv, StoreInv, ListInv, pass = "relations",
         NEW e \in ToSet(relations)
  PROVE  /\ \A w \in MemberIDs(e, "way") : Held(ways, w) <=> Met(file, Upto, <<"way", w>>)
         /\ \A n \in MemberIDs(e, "node") :
              n # NotNumeric => (Held(nodes, n) <=> Met(file, Upto, <<"node", n>>))
  <1>1. file \in Files /\ Upto \in Nat \ {0} /\ Reached = Upto /\ ListReached = Upto
    BY FileElements DEF PosInv, Upto, Reached, ListReached
  <1>2. RelsOf(file, relations, Upto)
    BY <1>1 DEF ListInv
  <1>3. ASSUME NEW x \in Expansion(e)
        PROVE  \E i \in DOMAIN file : x = file[i] /\ i \in Among(file, Grouped, Upto)
    <2>1. x \in ToSet(relations)
      BY <1>2, ExpansionListed DEF RelsOf
    <2>2. PICK k \in DOMAIN relations : x = relations[k]
      BY <2>1 DEF ToSet
    <2>3. PICK i \in Among(file, Grouped, Upto) : relations[k] = file[i]
      BY <1>1, <1>2, RelsFrom
    <2>4. i \in 1..Len(file)
      BY <1>1, FileElements DEF Among, Upto
    <2> QED
      BY <1>1, <2>2, <2>3, <2>4, FileElements
  <1>4. ASSUME NEW w \in MemberIDs(e, "way")
        PROVE  Held(ways, w) <=> Met(file, Upto, <<"way", w>>)
    <2>1. PICK x \in Expansion(e) : w \in RefIDs(x, "way")
      BY DEF MemberIDs
    <2>2. PICK i \in Among(file, Grouped, Upto) : x = file[i]
      BY <1>3
    <2>3. Mode = "indexed" => RefIDs(file[i], "way") \subseteq relationWays
      BY <1>1 DEF ListInv
    <2>4. Mode = "indexed" \/ Mode = "streaming"
      BY OsmAssumption
    <2>5. WayWanted(relationWays, w)
      BY <2>1, <2>2, <2>3, <2>4 DEF WayWanted
    <2>6. WaysHeld(file, ways, relationWays, Upto)
      BY <1>1 DEF StoreInv, StoresAt
    <2> QED
      BY <2>5, <2>6 DEF WaysHeld
  <1>5. ASSUME NEW n \in MemberIDs(e, "node"), n # NotNumeric
        PROVE  Held(nodes, n) <=> Met(file, Upto, <<"node", n>>)
    <2>1. PICK x \in Expansion(e) : n \in RefIDs(x, "node")
      BY DEF MemberIDs
    <2>2. PICK i \in DOMAIN file : x = file[i] /\ i \in Among(file, Grouped, Upto)
      BY <1>3
    <2>3. n \in NodeIDs /\ Uses(file[i], n) \in Nat \ {0}
      BY <1>1, <1>5, <2>1, <2>2, Used
    <2>4. Kept(n)
      <3>1. CASE Mode = "streaming"
        BY <3>1 DEF Kept
      <3>2. CASE Mode = "indexed"
        <4> DEFINE P == Coming(Upto) \ {i}
        <4>1. uses[n] = UsesAt(Coming(Upto), n)
          BY <1>1, <2>3, <3>2 DEF Counted, CountInv
        <4>2. i \in Coming(Upto) /\ Coming(Upto) \in SUBSET DOMAIN file
          BY <1>1, <2>2, FileElements DEF Coming, RelationsAt, Among, Grouped, Upto
        <4>3. P \in SUBSET DOMAIN file /\ i \notin P /\ P \cup {i} = Coming(Upto)
          BY <4>2
        <4>4. UsesAt(P, n) \in Nat /\ UsesAt(P \cup {i}, n) = UsesAt(P, n) + Uses(file[i], n)
          BY <1>1, <2>2, <4>3, OneMore
        <4>5. uses[n] = UsesAt(P, n) + Uses(file[i], n)
          BY <4>1, <4>3, <4>4
        <4> HIDE DEF P
        <4> QED
          BY <2>3, <4>4, <4>5 DEF Kept
      <3> QED
        BY <3>1, <3>2, OsmAssumption
    <2>5. HeldIDs = Gone(Upto)
      BY <1>1 DEF HeldInv
    <2> QED
      BY <2>3, <2>4, <2>5 DEF HeldIDs, Held, Gone, Met
  <1> QED
    BY <1>4, <1>5

(* Whether a relation builds is a matter of the file.                       *)
LEMMA BuildsFromFile ==
  ASSUME PosInv, Counted, HeldInv, StoreInv, ListInv, pass = "relations",
         NEW e \in ToSet(relations)
  PROVE  RelationBuilds(e) <=> FileBuilds(e)
  <1>1. \A w \in MemberIDs(e, "way") : Held(ways, w) <=> Met(file, Upto, <<"way", w>>)
    BY MembersHeld
  <1>2. \A n \in MemberIDs(e, "node") :
          n # NotNumeric => (Held(nodes, n) <=> Met(file, Upto, <<"node", n>>))
    BY MembersHeld
  <1> QED
    BY <1>1, <1>2 DEF RelationBuilds, FileBuilds

(* A way that is held is made of what the file says.                        *)
LEMMA HeldWay ==
  ASSUME WaysLast(file, ways, Upto), NEW w, Held(ways, w)
  PROVE  \E i : IsLast(file, i, Upto, <<"way", w>>) /\ WayAt(file, i, Get(ways, w))
  <1>1. Get(ways, w) \in ways /\ Get(ways, w).id = w
    BY DEF Held, Get
  <1> QED
    BY <1>1 DEF WaysLast

(* And the file says which way that is.                                     *)
LEMMA WayAtUnique ==
  ASSUME file \in Files, NEW i \in DOMAIN file, NEW x, NEW y, WayAt(file, i, x), WayAt(file, i, y)
  PROVE  x = y
  <1>1. x.of = y.of
    BY ResolvedUnique DEF WayAt
  <1> QED
    BY <1>1 DEF WayAt

(* So is what it is made of.                                                *)
LEMMA MembersFromFile ==
  ASSUME PosInv, StoreInv, pass = "relations", NEW e, RelationBuilds(e)
  PROVE  IsMembers(Members(e), e)
  <1>1. file \in Files /\ Upto \in Nat \ {0} /\ Reached = Upto
    BY FileElements DEF PosInv, Upto, Reached
  <1>2. NodesLast(file, nodes, Upto) /\ WaysLast(file, ways, Upto)
    BY <1>1 DEF StoreInv, StoresAt
  <1>3. \A w \in MemberIDs(e, "way") : Held(ways, w)
    BY DEF RelationBuilds
  <1>4. "area" \notin e.tags => \A n \in MemberIDs(e, "node") : Held(nodes, n)
    BY DEF RelationBuilds
  <1>5. ASSUME NEW w \in MemberIDs(e, "way"), NEW m
        PROVE  m = Get(ways, w) <=>
                 \E i : IsLast(file, i, Upto, <<"way", w>>) /\ WayAt(file, i, m)
    <2>1. PICK i : IsLast(file, i, Upto, <<"way", w>>) /\ WayAt(file, i, Get(ways, w))
      BY <1>2, <1>3, HeldWay
    <2>2. i \in DOMAIN file
      BY <1>1, <2>1, FileElements DEF IsLast, Upto
    <2>3. ASSUME NEW j, IsLast(file, j, Upto, <<"way", w>>), WayAt(file, j, m)
          PROVE  m = Get(ways, w)
      <3>1. i = j
        BY <1>1, <2>1, <2>3, LastUnique
      <3> QED
        BY <1>1, <2>1, <2>2, <2>3, <3>1, WayAtUnique
    <2> QED
      BY <2>1, <2>3
  <1>6. ASSUME "area" \notin e.tags, NEW n \in MemberIDs(e, "node"), NEW m
        PROVE  m = Get(nodes, n) <=> \E i : IsLast(file, i, Upto, <<"node", n>>) /\ m = file[i]
    <2>1. PICK i : IsLast(file, i, Upto, <<"node", n>>) /\ Get(nodes, n) = file[i]
      BY <1>2, <1>4, <1>6, HeldNode
    <2>2. \A j : IsLast(file, j, Upto, <<"node", n>>) => i = j
      BY <1>1, <2>1, LastUnique
    <2> QED
      BY <2>1, <2>2
  <1>7. \A m : (\E w \in MemberIDs(e, "way") : m = Get(ways, w)) <=> WayMember(e, m)
    BY <1>5 DEF WayMember
  <1>8. "area" \notin e.tags =>
          \A m : (\E n \in MemberIDs(e, "node") : m = Get(nodes, n)) <=> NodeMember(e, m)
    BY <1>6 DEF NodeMember
  <1> QED
    BY <1>7, <1>8 DEF IsMembers, Members

(* The file says what a set of members is.                                  *)
LEMMA MembersUnique ==
  ASSUME NEW e, NEW a, NEW b, IsMembers(a, e), IsMembers(b, e)
  PROVE  a = b
  BY DEF IsMembers

-----------------------------------------------------------------------------
(* The features written. *)

(* What is written of a node or a way.                                      *)
IsFeature(f, i, x) ==
    /\ x = Feature(f[i], x.of)
    /\ f[i].kind = "node" => x.of = <<>>
    /\ f[i].kind = "way" => Resolved(f, i, x.of)

IsSeq(s) == \E S : s \in Seq(S)

(* Those of the nodes and ways before p, in their order, and then n more.   *)
WrittenOut(f, out, p, n) ==
    /\ IsSeq(out) /\ Len(out) = Rank(f, Written, p) + n
    /\ \A i \in Among(f, Written, p) : IsFeature(f, i, out[Rank(f, Written, i + 1)])

(* Those of the first n relations, all of which build.                      *)
RelationOut(e, x) == \E M : x = Feature(e, M) /\ IsMembers(M, e)
GroupedOut(out, n) ==
    \A j \in 1..n : /\ FileBuilds(relations[j])
                    /\ RelationOut(relations[j], out[Rank(file, Written, Upto) + j])

OutInv ==
    /\ pass = "index" => output = <<>>
    /\ pass = "convert" => WrittenOut(file, output, pos, 0)
    /\ pass = "relations" =>
         WrittenOut(file, output, Upto, pos - 1) /\ GroupedOut(output, pos - 1)

(* A sequence that is appended to is what it was and one more.              *)
LEMMA AppendIs ==
  ASSUME NEW s, IsSeq(s), NEW x
  PROVE  /\ IsSeq(Append(s, x)) /\ Len(s) \in Nat /\ Len(Append(s, x)) = Len(s) + 1
         /\ \A k \in 1..Len(s) : Append(s, x)[k] = s[k]
         /\ Append(s, x)[Len(s) + 1] = x
  <1>1. PICK S : s \in Seq(S)
    BY DEF IsSeq
  <1>2. s \in Seq(S \cup {x}) /\ x \in S \cup {x}
    BY <1>1
  <1>3. Append(s, x) \in Seq(S \cup {x})
    BY <1>2
  <1> QED
    BY <1>2, <1>3 DEF IsSeq

(* Writing the feature of one more of them, and passing by a relation.      *)
LEMMA WrittenGrows ==
  ASSUME NEW p \in Nat \ {0}, WrittenOut(file, output, p, 0)
  PROVE  /\ file[p].kind \notin Written => WrittenOut(file, output, p + 1, 0)
         /\ \A x : file[p].kind \in Written /\ IsFeature(file, p, x) =>
              WrittenOut(file, Append(output, x), p + 1, 0)
  <1>1. (p + 1) - 1 = p /\ 1..p = (1..p-1) \cup {p} /\ p \notin 1..p-1
    OBVIOUS
  <1>2. Rank(file, Written, p) \in Nat
    BY RankGrows
  <1>3. Rank(file, Written, p + 1)
          = Rank(file, Written, p) + (IF file[p].kind \in Written THEN 1 ELSE 0)
    BY RankGrows
  <1>4. IsSeq(output) /\ Len(output) = Rank(file, Written, p)
    BY <1>2 DEF WrittenOut
  <1>5. ASSUME file[p].kind \notin Written  PROVE WrittenOut(file, output, p + 1, 0)
    <2>1. Among(file, Written, p + 1) = Among(file, Written, p)
      BY <1>1, <1>5 DEF Among
    <2>2. Rank(file, Written, p + 1) = Rank(file, Written, p)
      BY <2>1 DEF Rank
    <2> QED
      BY <2>1, <2>2 DEF WrittenOut
  <1>6. ASSUME file[p].kind \in Written, NEW x, IsFeature(file, p, x)
        PROVE  WrittenOut(file, Append(output, x), p + 1, 0)
    <2>1. Among(file, Written, p + 1) = Among(file, Written, p) \cup {p}
      BY <1>1, <1>6 DEF Among
    <2>2. Rank(file, Written, p + 1) = Rank(file, Written, p) + 1
      BY <1>3, <1>6
    <2>3. /\ IsSeq(Append(output, x))
          /\ Len(Append(output, x)) = Rank(file, Written, p + 1)
          /\ Append(output, x)[Rank(file, Written, p + 1)] = x
          /\ \A k \in 1..Rank(file, Written, p) : Append(output, x)[k] = output[k]
      BY <1>4, <2>2, AppendIs
    <2>4. ASSUME NEW i \in Among(file, Written, p)
          PROVE  IsFeature(file, i, Append(output, x)[Rank(file, Written, i + 1)])
      <3>1. Append(output, x)[Rank(file, Written, i + 1)] = output[Rank(file, Written, i + 1)]
        BY <2>3, RankBounds
      <3> QED
        BY <3>1 DEF WrittenOut
    <2>5. Rank(file, Written, p + 1) + 0 = Rank(file, Written, p + 1)
      BY <1>2, <2>2
    <2> QED
      BY <1>6, <2>1, <2>3, <2>4, <2>5 DEF WrittenOut
  <1> QED
    BY <1>5, <1>6

(* Writing the feature of one more relation.                                *)
LEMMA GroupedGrows ==
  ASSUME file \in Files, NEW n \in Nat, WrittenOut(file, output, Upto, n), GroupedOut(output, n),
         FileBuilds(relations[n + 1]), NEW x, RelationOut(relations[n + 1], x)
  PROVE  WrittenOut(file, Append(output, x), Upto, n + 1) /\ GroupedOut(Append(output, x), n + 1)
  <1> DEFINE r == Rank(file, Written, Upto)
  <1>1. Upto \in Nat \ {0}
    BY FileElements DEF Upto
  <1>2. r \in Nat
    BY <1>1, RankGrows
  <1>3. IsSeq(output) /\ Len(output) = r + n
    BY DEF WrittenOut
  <1>4. /\ IsSeq(Append(output, x)) /\ Len(Append(output, x)) = (r + n) + 1
        /\ Append(output, x)[(r + n) + 1] = x
        /\ \A k \in 1..(r + n) : Append(output, x)[k] = output[k]
    BY <1>3, AppendIs
  <1>5. (r + n) + 1 = r + (n + 1) /\ 1..(n + 1) = (1..n) \cup {n + 1}
    BY <1>2
  <1>6. \A k \in 1..r : k \in 1..(r + n)
    BY <1>2
  <1>7. \A j \in 1..n : r + j \in 1..(r + n)
    BY <1>2
  <1>8. WrittenOut(file, Append(output, x), Upto, n + 1)
    <2>1. ASSUME NEW i \in Among(file, Written, Upto)
          PROVE  IsFeature(file, i, Append(output, x)[Rank(file, Written, i + 1)])
      <3>1. Rank(file, Written, i + 1) \in 1..r
        BY <1>1, RankBounds
      <3>2. Append(output, x)[Rank(file, Written, i + 1)] = output[Rank(file, Written, i + 1)]
        BY <1>4, <1>6, <3>1
      <3> QED
        BY <3>2 DEF WrittenOut
    <2> QED
      BY <1>4, <1>5, <2>1 DEF WrittenOut
  <1>9. GroupedOut(Append(output, x), n + 1)
    <2>1. ASSUME NEW j \in 1..n
          PROVE  FileBuilds(relations[j]) /\ RelationOut(relations[j], Append(output, x)[r + j])
      <3>1. Append(output, x)[r + j] = output[r + j]
        BY <1>4, <1>7
      <3> QED
        BY <3>1 DEF GroupedOut
    <2>2. Append(output, x)[r + (n + 1)] = x
      BY <1>4, <1>5
    <2> QED
      BY <1>5, <2>1, <2>2 DEF GroupedOut
  <1> QED
    BY <1>8, <1>9

-----------------------------------------------------------------------------
(* Every step. *)

(* What is said of the file and of the relations stays so while they are    *)
(* what they are.                                                           *)
LEMMA SaidOfFile ==
  ASSUME file' = file, relations' = relations
  PROVE  /\ Upto' = Upto
         /\ \A e : FileBuilds(e)' <=> FileBuilds(e)
         /\ \A e, x : RelationOut(e, x)' <=> RelationOut(e, x)
  <1>1. Upto' = Upto
    BY DEF Upto
  <1>2. \A i : Known(i)' <=> Known(i)
    BY DEF Known
  <1>3. \A i : ByID(i)' = ByID(i)
    BY DEF ByID
  <1>4. \A e : Below(e)' = Below(e)
    BY DEF Below, NestedIDs, Known, ByID
  <1>5. \A e : Expansion(e)' = Expansion(e)
    BY <1>2, <1>3, <1>4 DEF Expansion
  <1>6. \A e : Expands(e)' <=> Expands(e)
    BY <1>2, <1>4, <1>5 DEF Expands
  <1>7. \A e, kind : MemberIDs(e, kind)' = MemberIDs(e, kind)
    BY <1>5 DEF MemberIDs
  <1>8. \A e : FileBuilds(e)' <=> FileBuilds(e)
    BY <1>1, <1>5, <1>6, <1>7 DEF FileBuilds
  <1>9. \A M, e : IsMembers(M, e)' <=> IsMembers(M, e)
    <2>1. \A e, m : WayMember(e, m)' <=> WayMember(e, m)
      BY <1>1, <1>7 DEF WayMember
    <2>2. \A e, m : NodeMember(e, m)' <=> NodeMember(e, m)
      BY <1>1, <1>7 DEF NodeMember
    <2> QED
      BY <2>1, <2>2 DEF IsMembers
  <1>10. \A e, x : RelationOut(e, x)' <=> RelationOut(e, x)
    BY <1>9 DEF RelationOut
  <1> QED
    BY <1>1, <1>8, <1>10

(* The other steps keep the stores as they are.                             *)
LEMMA OthersStore ==
  ASSUME PosInv, StoreInv, [Next]_vars, ~(ConvertNode /\ pass' # "done"),
         ~(ConvertWay /\ pass' # "done")
  PROVE  StoreInv'
  <1>1. file' = file /\ file \in Files /\ Len(file) \in Nat /\ pos \in Nat \ {0}
    BY PosKept, FileElements DEF PosInv
  <1>2. ASSUME UNCHANGED <<relationWays, nodes, ways>>, Reached' = Reached,
               pass \in {"convert", "relations"}
        PROVE  StoreInv'
    <2>1. StoresAt(Reached)
      BY <1>2 DEF StoreInv
    <2>2. StoresAt(Reached)'
      BY <1>1, <1>2, <2>1 DEF StoresAt, WaysHeld, WayWanted
    <2>3. pass' # "index"
      BY <1>2, <1>1 DEF Next, Step, IndexNode, IndexWay, IndexRelation, IndexEnd, ConvertNode,
         ConvertWay, ConvertRelation, ConvertEnd, WriteRelation, Close, InputOutputFails,
         Returned, vars, At, Advance, Fail
    <2> QED
      BY <2>2, <2>3 DEF StoreInv
  <1>3. CASE IndexNode \/ IndexWay \/ IndexRelation
    <2>1. pass = "index" /\ pass' \in {"index", "done"} /\ nodes' = nodes /\ ways' = ways
      BY <1>3 DEF IndexNode, IndexWay, IndexRelation, At, Advance, Fail, stores
    <2> QED
      BY <2>1 DEF StoreInv
  <1>4. CASE IndexEnd
    <2>1. pass = "index" /\ pass' = "convert" /\ pos' = 1 /\ nodes' = nodes /\ ways' = ways
      BY <1>4 DEF IndexEnd, stores
    <2>2. nodes' = {} /\ ways' = {} /\ Reached' = 1
      BY <2>1 DEF StoreInv, Reached
    <2>3. 1..1-1 = {}
      OBVIOUS
    <2>4. StoresAt(Reached)'
      BY <2>2, <2>3 DEF StoresAt, NodesLast, WaysLast, WaysHeld, Held, Met, AllGood
    <2> QED
      BY <2>1, <2>4 DEF StoreInv
  <1>5. CASE pass' = "done"
    BY <1>5 DEF StoreInv
  <1>6. CASE ConvertRelation
    <2>1. /\ pass = "convert" /\ pass' = "convert" /\ pos' = pos + 1 /\ file[pos].kind = "relation"
          /\ UNCHANGED <<relationWays, nodes, ways>>
      BY <1>6 DEF ConvertRelation, At, Advance, index, stores
    <2>2. StoresAt(pos)
      BY <2>1 DEF StoreInv, Reached
    <2>3. NodesLast(file, nodes, pos + 1)
      BY <1>1, <2>1, <2>2, NoNode DEF StoresAt
    <2>4. WaysLast(file, ways, pos + 1) /\ WaysHeld(file, ways, relationWays, pos + 1)
      BY <1>1, <2>1, <2>2, NoWay DEF StoresAt
    <2>5. AllGood(file, pos + 1)
      BY <1>1, <2>1, <2>2, OneMoreGood DEF StoresAt, Good
    <2>6. Reached' = pos + 1
      BY <2>1 DEF Reached
    <2>7. StoresAt(Reached)'
      BY <1>1, <2>1, <2>3, <2>4, <2>5, <2>6 DEF StoresAt, WaysHeld, WayWanted
    <2> QED
      BY <2>1, <2>7 DEF StoreInv
  <1>7. CASE ConvertEnd /\ pass' # "done"
    <2>1. pass = "convert" /\ pass' = "relations" /\ pos = Len(file) + 1
      BY <1>1, <1>7 DEF ConvertEnd, Fail, PosInv
    <2>2. UNCHANGED <<relationWays, nodes, ways>>
      BY <1>7 DEF ConvertEnd, index, stores
    <2> QED
      BY <1>1, <1>2, <2>1, <2>2 DEF Reached
  <1>8. CASE WriteRelation /\ pass' # "done"
    <2>1. pass = "relations" /\ pass' = "relations"
      BY <1>8 DEF WriteRelation, Advance, Fail
    <2>2. UNCHANGED <<relationWays, nodes, ways>>
      BY <1>8 DEF WriteRelation, index, stores
    <2> QED
      BY <1>1, <1>2, <2>1, <2>2 DEF Reached
  <1>9. CASE UNCHANGED vars
    <2>1. UNCHANGED <<relationWays, nodes, ways, pass, pos>>
      BY <1>9 DEF vars, index, stores
    <2>2. Reached' = Reached
      BY <1>1, <2>1 DEF Reached
    <2>3. pass \in {"convert", "relations"} => StoreInv'
      BY <1>2, <2>1, <2>2
    <2> QED
      BY <2>1, <2>3 DEF StoreInv
  <1>10. CASE Close \/ InputOutputFails \/ Returned
    BY <1>5, <1>10 DEF Close, InputOutputFails, Returned, Fail, vars
  <1> QED
    BY <1>3, <1>4, <1>5, <1>6, <1>7, <1>8, <1>9, <1>10 DEF Next, Step

(* The relations are listed as they go by, once.                            *)
LEMMA ListKept ==
  ASSUME PosInv, ListInv, [Next]_vars
  PROVE  ListInv'
  <1>1. file' = file /\ file \in Files /\ Len(file) \in Nat /\ pos \in Nat \ {0}
    BY PosKept, FileElements DEF PosInv
  <1>2. CASE pass' = "done"
    BY <1>2 DEF ListInv
  <1>3. CASE pass' # "done" /\ pass # "done"
    <2>1. err = "nil" /\ RelsOf(file, relations, ListReached)
      BY <1>3 DEF ListInv
    <2>2. Mode = "indexed" => \A i \in Among(file, Grouped, ListReached) :
                                RefIDs(file[i], "way") \subseteq relationWays
      BY <1>3 DEF ListInv
    <2>3. ASSUME UNCHANGED <<relations, relationWays, err>>, ListReached' = ListReached,
                 pass' = "index" => Mode = "indexed",
                 pass' = "relations" => pos' <= Len(relations) + 1
                                        /\ \A e \in ToSet(relations) : e.id # NotNumeric
          PROVE  ListInv'
      BY <1>1, <2>1, <2>2, <2>3 DEF ListInv
    <2>4. ASSUME pos \in DOMAIN file, pos' = pos + 1, err' = err, pass' = pass,
                 pass \in {"index", "convert"}, ListReached = pos,
                 relations' = IF file[pos].kind = "relation" THEN Append(relations, file[pos])
                              ELSE relations,
                 Mode = "indexed" => relationWays \subseteq relationWays' /\
                   (file[pos].kind = "relation" => RefIDs(file[pos], "way") \subseteq relationWays')
          PROVE  ListInv'
      <3>1. file[pos] \in Element
        BY <1>1, <2>4, FileElements
      <3>2. RelsOf(file, relations', pos + 1)
        BY <1>1, <2>1, <2>4, <3>1, RelsGrow
      <3>3. ListReached' = pos + 1
        <4>1. pos # Upto
          BY <1>1, <2>4, FileElements DEF Upto
        <4> QED
          BY <1>1, <2>4, <4>1 DEF ListReached
      <3>4. Mode = "indexed" => \A i \in Among(file, Grouped, pos + 1) :
                                  RefIDs(file[i], "way") \subseteq relationWays'
        <4>1. (pos + 1) - 1 = pos /\ 1..pos = (1..pos-1) \cup {pos}
          BY <1>1
        <4>2. \A i \in Among(file, Grouped, pos + 1) :
                i \in Among(file, Grouped, pos) \/ (i = pos /\ file[pos].kind = "relation")
          BY <4>1 DEF Among, Grouped
        <4> QED
          BY <2>2, <2>4, <4>2
      <3>5. pass = "index" => Mode = "indexed"
        BY DEF ListInv
      <3> QED
        BY <1>1, <2>1, <2>4, <3>2, <3>3, <3>4, <3>5 DEF ListInv
    <2>5. CASE IndexNode \/ IndexWay \/ IndexRelation
      <3>1. /\ pass = "index" /\ pos \in DOMAIN file /\ pass' = pass /\ pos' = pos + 1 /\ err' = err
            /\ ListReached = pos
        BY <1>1, <1>3, <2>5, FileElements
           DEF IndexNode, IndexWay, IndexRelation, At, Advance, Fail, ListReached
      <3>2. CASE IndexNode \/ IndexWay
        <4>1. file[pos].kind # "relation" /\ UNCHANGED <<relations, relationWays>>
          BY <3>2 DEF IndexNode, IndexWay, At, index
        <4> QED
          BY <2>4, <3>1, <4>1
      <3>3. CASE IndexRelation
        <4>1. /\ file[pos].kind = "relation" /\ relations' = Append(relations, file[pos])
              /\ relationWays' = relationWays \cup RefIDs(file[pos], "way")
          BY <1>3, <3>3 DEF IndexRelation, At, Fail
        <4> QED
          BY <2>4, <3>1, <4>1
      <3> QED
        BY <2>5, <3>2, <3>3
    <2>6. CASE IndexEnd
      <3>1. /\ pass = "index" /\ pass' = "convert" /\ pos = Len(file) + 1
            /\ UNCHANGED <<relations, relationWays, err>>
        BY <1>1, <2>6 DEF IndexEnd, PosInv, index
      <3>2. Mode = "indexed"
        BY <3>1 DEF ListInv
      <3> QED
        BY <1>1, <2>3, <3>1, <3>2 DEF ListReached, Upto
    <2>7. CASE ConvertNode \/ ConvertWay \/ ConvertRelation
      <3>1. /\ pass = "convert" /\ pos \in DOMAIN file /\ pass' = pass /\ pos' = pos + 1 /\ err' = err
            /\ relationWays' = relationWays
        BY <1>1, <1>3, <2>7, FileElements
           DEF ConvertNode, ConvertWay, ConvertRelation, At, Advance, Fail, index
      <3>2. CASE Mode = "streaming"
        <4>1. relations' = IF file[pos].kind = "relation" THEN Append(relations, file[pos])
                           ELSE relations
          BY <2>7, <3>2 DEF ConvertNode, ConvertWay, ConvertRelation, At
        <4>2. ListReached = pos
          BY <3>1, <3>2 DEF ListReached
        <4> QED
          BY <2>4, <3>1, <3>2, <4>1, <4>2
      <3>3. CASE Mode # "streaming"
        <4>1. relations' = relations
          BY <2>7, <3>3 DEF ConvertNode, ConvertWay, ConvertRelation
        <4>2. ListReached' = ListReached
          BY <1>1, <3>1, <3>3 DEF ListReached, Upto
        <4> QED
          BY <2>3, <3>1, <4>1, <4>2
      <3> QED
        BY <3>2, <3>3
    <2>8. CASE ConvertEnd
      <3>1. /\ pass = "convert" /\ pass' = "relations" /\ pos = Len(file) + 1 /\ pos' = 1
            /\ UNCHANGED <<relations, relationWays, err>>
            /\ \A e \in ToSet(relations) : e.id # NotNumeric
        BY <1>1, <1>3, <2>8 DEF ConvertEnd, Fail, PosInv, index
      <3>2. Len(relations) \in Nat
        BY <2>1 DEF RelsOf
      <3> QED
        BY <1>1, <2>3, <3>1, <3>2 DEF ListReached, Upto
    <2>9. CASE WriteRelation
      <3>1. /\ pass = "relations" /\ pass' = "relations" /\ pos <= Len(relations) /\ pos' = pos + 1
            /\ UNCHANGED <<relations, relationWays, err>>
        BY <1>3, <2>9 DEF WriteRelation, Advance, Fail, index
      <3>2. Len(relations) \in Nat /\ \A e \in ToSet(relations) : e.id # NotNumeric
        BY <2>1, <3>1 DEF RelsOf, ListInv
      <3> QED
        BY <1>1, <2>3, <3>1, <3>2 DEF ListReached, Upto
    <2>10. CASE UNCHANGED vars
      BY <1>1, <2>3, <2>10 DEF vars, index, ListReached, Upto, ListInv
    <2>11. CASE Close \/ InputOutputFails \/ Returned
      BY <1>3, <2>11 DEF Close, InputOutputFails, Returned, Fail
    <2> QED
      BY <2>5, <2>6, <2>7, <2>8, <2>9, <2>10, <2>11 DEF Next, Step
  <1>4. CASE pass' # "done" /\ pass = "done"
    BY <1>4 DEF Next, Step, IndexNode, IndexWay, IndexRelation, IndexEnd, ConvertNode,
       ConvertWay, ConvertRelation, ConvertEnd, WriteRelation, Close, InputOutputFails,
       Returned, vars, At
  <1> QED
    BY <1>2, <1>3, <1>4

(* What is written is what the file says.                                   *)
LEMMA OutKept ==
  ASSUME PosInv, Counted, HeldInv, StoreInv, ListInv, OutInv, [Next]_vars
  PROVE  OutInv'
  <1>1. /\ file' = file /\ file \in Files /\ Len(file) \in Nat /\ pos \in Nat \ {0}
        /\ Upto \in Nat \ {0}
    BY PosKept, FileElements DEF PosInv, Upto
  <1>2. CASE pass' = "done"
    BY <1>2 DEF OutInv
  <1>3. CASE (IndexNode \/ IndexWay \/ IndexRelation) /\ pass' # "done"
    <2>1. pass = "index" /\ pass' = "index" /\ output' = output
      BY <1>3 DEF IndexNode, IndexWay, IndexRelation, At, Advance, Fail
    <2> QED
      BY <2>1 DEF OutInv
  <1>4. CASE IndexEnd
    <2>1. pass = "index" /\ pass' = "convert" /\ pos' = 1 /\ output' = output
      BY <1>4 DEF IndexEnd
    <2>2. output = <<>>
      BY <2>1 DEF OutInv
    <2>3. Among(file, Written, 1) = {}
      BY DEF Among
    <2>4. Rank(file, Written, 1) = 0
      BY <2>3, FS_EmptySet DEF Rank
    <2>5. WrittenOut(file, <<>>, 1, 0)
      <3>1. <<>> \in Seq({}) /\ Len(<<>>) = 0
        OBVIOUS
      <3> QED
        BY <2>3, <2>4, <3>1 DEF WrittenOut, IsSeq
    <2> QED
      BY <1>1, <2>1, <2>2, <2>5 DEF OutInv
  <1>5. CASE (ConvertNode \/ ConvertWay \/ ConvertRelation) /\ pass' # "done"
    <2>1. /\ pass = "convert" /\ pass' = "convert" /\ pos' = pos + 1 /\ pos \in DOMAIN file
      BY <1>1, <1>5, FileElements
         DEF ConvertNode, ConvertWay, ConvertRelation, At, Advance, Fail
    <2>2. WrittenOut(file, output, pos, 0)
      BY <2>1 DEF OutInv
    <2>3. WrittenOut(file, output', pos + 1, 0)
      <3>1. CASE ConvertNode
        <4>1. file[pos].kind = "node" /\ output' = Append(output, Feature(file[pos], <<>>))
          BY <1>5, <3>1 DEF ConvertNode, At, Fail, Write
        <4>2. IsFeature(file, pos, Feature(file[pos], <<>>))
          BY <4>1 DEF IsFeature, Feature
        <4> QED
          BY <1>1, <2>2, <4>1, <4>2, WrittenGrows DEF Written
      <3>2. CASE ConvertWay
        <4>1. /\ file[pos].kind = "way" /\ WayResolves(file[pos]) /\ At("convert", "way")
              /\ output' = Append(output, Feature(file[pos], Positions(file[pos])))
          BY <1>5, <3>2 DEF ConvertWay, At, Fail, Write
        <4>2. NodesLast(file, nodes, pos)
          BY <2>1 DEF StoreInv, StoresAt, Reached
        <4>3. Resolved(file, pos, Positions(file[pos]))
          BY <4>1, <4>2, PositionsResolve
        <4>4. IsFeature(file, pos, Feature(file[pos], Positions(file[pos])))
          BY <4>1, <4>3 DEF IsFeature, Feature
        <4> QED
          BY <1>1, <2>2, <4>1, <4>4, WrittenGrows DEF Written
      <3>3. CASE ConvertRelation
        <4>1. file[pos].kind = "relation" /\ output' = output
          BY <3>3 DEF ConvertRelation, At
        <4> QED
          BY <1>1, <2>2, <4>1, WrittenGrows DEF Written
      <3> QED
        BY <1>5, <3>1, <3>2, <3>3
    <2> QED
      BY <1>1, <2>1, <2>3 DEF OutInv
  <1>6. CASE ConvertEnd /\ pass' # "done"
    <2>1. /\ pass = "convert" /\ pass' = "relations" /\ pos = Upto /\ pos' = 1
          /\ output' = output /\ relations' = relations
      BY <1>1, <1>6 DEF ConvertEnd, Fail, PosInv, Upto
    <2>2. WrittenOut(file, output, Upto, 0)
      BY <2>1 DEF OutInv
    <2>3. pos' - 1 = 0 /\ 1..0 = {}
      BY <2>1
    <2>4. Upto' = Upto
      BY <1>1 DEF Upto
    <2> QED
      BY <1>1, <2>1, <2>2, <2>3, <2>4 DEF OutInv, GroupedOut
  <1>7. CASE WriteRelation /\ pass' # "done"
    <2> DEFINE e == relations[pos]
    <2>1. /\ pass = "relations" /\ pass' = "relations" /\ pos <= Len(relations) /\ pos' = pos + 1
          /\ relations' = relations /\ RelationBuilds(e)
          /\ output' = Append(output, Feature(e, Members(e)))
      BY <1>7 DEF WriteRelation, Advance, Fail, Write
    <2>2. relations \in Seq(Element)
      BY <2>1 DEF ListInv, RelsOf
    <2>3. e \in ToSet(relations)
      BY <1>1, <2>1, <2>2 DEF ToSet
    <2>4. FileBuilds(e)
      BY <2>1, <2>3, BuildsFromFile
    <2>5. RelationOut(e, Feature(e, Members(e)))
      BY <2>1, MembersFromFile DEF RelationOut
    <2>6. /\ WrittenOut(file, output, Upto, pos - 1) /\ GroupedOut(output, pos - 1)
          /\ pos - 1 \in Nat /\ (pos - 1) + 1 = pos
      BY <1>1, <2>1 DEF OutInv
    <2>7. WrittenOut(file, output', Upto, pos) /\ GroupedOut(output', pos)
      BY <1>1, <2>1, <2>4, <2>5, <2>6, GroupedGrows
    <2>8. pos' - 1 = pos
      BY <1>1, <2>1
    <2>9. Upto' = Upto /\ \A x : FileBuilds(x)' <=> FileBuilds(x)
      BY <1>1, <2>1, SaidOfFile
    <2>10. \A x, y : RelationOut(x, y)' <=> RelationOut(x, y)
      BY <1>1, <2>1, SaidOfFile
    <2>11. GroupedOut(output, pos - 1)'
      BY <1>1, <2>1, <2>7, <2>8, <2>9, <2>10 DEF GroupedOut
    <2> QED
      BY <1>1, <2>1, <2>7, <2>8, <2>9, <2>11 DEF OutInv
  <1>8. CASE UNCHANGED vars
    <2>1. UNCHANGED <<pass, pos, relations, output>>
      BY <1>8 DEF vars
    <2>2. Upto' = Upto /\ \A x : FileBuilds(x)' <=> FileBuilds(x)
      BY <1>1, <2>1, SaidOfFile
    <2>3. \A x, y : RelationOut(x, y)' <=> RelationOut(x, y)
      BY <1>1, <2>1, SaidOfFile
    <2>4. GroupedOut(output, pos - 1) => GroupedOut(output, pos - 1)'
      BY <1>1, <2>1, <2>2, <2>3 DEF GroupedOut
    <2> QED
      BY <1>1, <2>1, <2>2, <2>4 DEF OutInv
  <1>9. CASE Close \/ InputOutputFails \/ Returned
    BY <1>2, <1>9 DEF Close, InputOutputFails, Returned, Fail, vars
  <1> QED
    BY <1>2, <1>3, <1>4, <1>5, <1>6, <1>7, <1>8, <1>9 DEF Next, Step

(* What a conversion returns is a matter of its file, its input and output  *)
(* apart: the file alone says which features a conversion that succeeds     *)
(* has written, and why one fails that cannot build a feature.              *)
Outcome ==
    pass = "done" =>
      /\ err \in {"nil", "build", "reference", "input or output"}
      /\ err = "nil" =>
           /\ AllGood(file, Upto) /\ RelsOf(file, relations, Upto)
           /\ \A e \in ToSet(relations) : e.id # NotNumeric
           /\ WrittenOut(file, output, Upto, Len(relations))
           /\ GroupedOut(output, Len(relations))
      /\ err = "build" =>
           \/ \E i \in DOMAIN file : ~Good(file, i)
           \/ RelsOf(file, relations, Upto) /\ \E e \in ToSet(relations) : ~FileBuilds(e)
      /\ err = "reference" /\ Mode = "streaming" =>
           RelsOf(file, relations, Upto) /\ \E e \in ToSet(relations) : e.id = NotNumeric

(* The step that returns.                                                   *)
LEMMA OutcomeKept ==
  ASSUME PosInv, Counted, HeldInv, StoreInv, ListInv, OutInv, Outcome, [Next]_vars
  PROVE  Outcome'
  <1>1. /\ file' = file /\ file \in Files /\ Len(file) \in Nat /\ pos \in Nat \ {0}
        /\ Upto \in Nat \ {0} /\ Upto' = Upto
    BY PosKept, FileElements DEF PosInv, Upto
  <1>2. CASE pass' # "done"
    BY <1>2 DEF Outcome
  <1>3. CASE pass' = "done" /\ (IndexNode \/ IndexWay \/ IndexRelation \/ IndexEnd)
    <2>1. err' = "reference" /\ pass = "index"
      BY <1>3 DEF IndexNode, IndexWay, IndexRelation, IndexEnd, At, Advance, Fail
    <2>2. Mode # "streaming"
      BY <2>1 DEF ListInv
    <2> QED
      BY <2>1, <2>2 DEF Outcome
  <1>4. CASE pass' = "done" /\ (ConvertNode \/ ConvertWay \/ ConvertRelation)
    <2>1. pass = "convert" /\ pos \in DOMAIN file
      BY <1>1, <1>4, FileElements DEF ConvertNode, ConvertWay, ConvertRelation, At
    <2>2. err' = "build"
      BY <1>4, <2>1 DEF ConvertNode, ConvertWay, ConvertRelation, Advance, Fail
    <2>3. ~Good(file, pos)
      <3>1. CASE ConvertNode
        <4>1. file[pos].kind = "node" /\ ("outside" \in file[pos].tags \/ file[pos].id = NotNumeric)
          BY <1>4, <2>1, <3>1 DEF ConvertNode, At, Advance
        <4> QED
          BY <4>1 DEF Good
      <3>2. CASE ConvertWay
        <4>1. At("convert", "way") /\ (~WayResolves(file[pos]) \/ file[pos].id = NotNumeric)
          BY <1>4, <2>1, <3>2 DEF ConvertWay, Advance
        <4> QED
          BY <4>1, WayIsGood
      <3>3. CASE ConvertRelation
        BY <1>4, <2>1, <3>3 DEF ConvertRelation, Advance
      <3> QED
        BY <1>4, <3>1, <3>2, <3>3
    <2>4. \E i \in DOMAIN file' : ~Good(file', i)
      BY <1>1, <2>1, <2>3
    <2> QED
      BY <2>2, <2>4 DEF Outcome
  <1>5. CASE pass' = "done" /\ ConvertEnd
    <2>1. /\ pass = "convert" /\ pos = Upto /\ err' = "reference" /\ relations' = relations
          /\ \E e \in ToSet(relations) : e.id = NotNumeric
      BY <1>1, <1>5 DEF ConvertEnd, Fail, PosInv, Upto
    <2>2. RelsOf(file, relations, Upto)
      BY <2>1 DEF ListInv, ListReached
    <2> QED
      BY <1>1, <2>1, <2>2 DEF Outcome
  <1>6. CASE pass' = "done" /\ WriteRelation
    <2>1. /\ pass = "relations" /\ pos <= Len(relations) /\ err' = "build" /\ relations' = relations
          /\ ~RelationBuilds(relations[pos])
      BY <1>6 DEF WriteRelation, Advance, Fail
    <2>2. RelsOf(file, relations, Upto)
      BY <2>1 DEF ListInv, ListReached
    <2>3. relations[pos] \in ToSet(relations)
      BY <1>1, <2>1, <2>2 DEF RelsOf, ToSet
    <2>4. ~FileBuilds(relations[pos])
      BY <2>1, <2>3, BuildsFromFile
    <2>5. \A e : FileBuilds(e)' <=> FileBuilds(e)
      BY <1>1, <2>1, SaidOfFile
    <2>6. RelsOf(file', relations', Upto') /\ relations[pos] \in ToSet(relations')
          /\ ~FileBuilds(relations[pos])
      BY <1>1, <2>1, <2>2, <2>3, <2>4
    <2>7. \E e \in ToSet(relations') : ~FileBuilds(e)'
      BY <2>5, <2>6
    <2> QED
      BY <2>1, <2>6, <2>7 DEF Outcome
  <1>7. CASE Close
    <2>1. /\ pass = "relations" /\ pos > Len(relations) /\ err' = "nil"
          /\ relations' = relations /\ output' = output
      BY <1>7 DEF Close, ListInv
    <2>2. RelsOf(file, relations, Upto) /\ pos <= Len(relations) + 1
      BY <2>1 DEF ListInv, ListReached
    <2>3. Len(relations) \in Nat
      BY <2>2 DEF RelsOf
    <2>4. pos - 1 = Len(relations)
      BY <1>1, <2>1, <2>2, <2>3
    <2>5. WrittenOut(file, output, Upto, Len(relations)) /\ GroupedOut(output, Len(relations))
      BY <2>1, <2>4 DEF OutInv
    <2>6. AllGood(file, Upto)
      BY <2>1 DEF StoreInv, StoresAt, Reached, Upto
    <2>7. \A e \in ToSet(relations) : e.id # NotNumeric
      BY <2>1 DEF ListInv
    <2>8. /\ \A x : FileBuilds(x)' <=> FileBuilds(x)
          /\ \A x, y : RelationOut(x, y)' <=> RelationOut(x, y)
      BY <1>1, <2>1, SaidOfFile
    <2>9. GroupedOut(output, Len(relations))'
      BY <1>1, <2>1, <2>5, <2>8 DEF GroupedOut
    <2> QED
      BY <1>1, <2>1, <2>2, <2>5, <2>6, <2>7, <2>9 DEF Outcome
  <1>8. CASE InputOutputFails
    BY <1>8 DEF InputOutputFails, Fail, Outcome
  <1>9. CASE UNCHANGED vars \/ Returned
    <2>1. UNCHANGED <<pass, relations, output, err>>
      BY <1>9 DEF vars, Returned
    <2>2. /\ \A x : FileBuilds(x)' <=> FileBuilds(x)
          /\ \A x, y : RelationOut(x, y)' <=> RelationOut(x, y)
      BY <1>1, <2>1, SaidOfFile
    <2>3. GroupedOut(output, Len(relations)) => GroupedOut(output, Len(relations))'
      BY <1>1, <2>1, <2>2 DEF GroupedOut
    <2>4. (\E e \in ToSet(relations) : ~FileBuilds(e)) =>
            \E e \in ToSet(relations') : ~FileBuilds(e)'
      BY <2>1, <2>2
    <2> QED
      BY <1>1, <2>1, <2>3, <2>4 DEF Outcome
  <1> QED
    BY <1>2, <1>3, <1>4, <1>5, <1>6, <1>7, <1>8, <1>9 DEF Next, Step

(* Whichever way it is made, and whatever it drops on the way, a conversion *)
(* that succeeds has written what the file says, and one that fails to      *)
(* build a feature has met one that the file does not let it build.         *)
THEOREM OutcomeFromFile == Spec => []Outcome
  <1> DEFINE Inv == /\ PosInv /\ Counted /\ HeldInv /\ StoreInv /\ ListInv /\ OutInv /\ Outcome
  <1>1. ASSUME Init  PROVE Inv
    <2>1. /\ PosInv /\ pos = 1 /\ nodes = {} /\ ways = {} /\ DOMAIN uses = NodeIDs
          /\ \A n \in NodeIDs : uses[n] = 0
          /\ pass = IF Mode = "indexed" THEN "index" ELSE "convert"
          /\ output = <<>> /\ relations = <<>> /\ err = "nil" /\ file \in Files
      BY <1>1, FileElements DEF Init, PosInv
    <2>2. Mode = "indexed" \/ Mode = "streaming"
      BY OsmAssumption
    <2>3. 1..1-1 = {}
      OBVIOUS
    <2>4. Counted
      <3>1. Passed(1) = {}
        BY <2>1, FileElements DEF Passed
      <3>2. \A n : UsesAt(Passed(1), n) = 0
        BY <3>1, FS_EmptySet DEF UsesAt, PlacesAt
      <3> QED
        BY <2>1, <3>2 DEF Counted, CountInv
    <2>5. HeldInv
      <3>1. Gone(1) = {} /\ HeldIDs = {}
        BY <2>1, <2>3 DEF Gone, HeldIDs
      <3> QED
        BY <2>1, <3>1 DEF HeldInv, Reached
    <2>6. StoresAt(1)
      BY <2>1, <2>3 DEF StoresAt, NodesLast, WaysLast, WaysHeld, Held, Met, AllGood
    <2>7. StoreInv
      BY <2>1, <2>6 DEF StoreInv, Reached
    <2>8. \A K : Among(file, K, 1) = {}
      BY <2>3 DEF Among
    <2>9. \A K : Rank(file, K, 1) = 0
      BY <2>8, FS_EmptySet DEF Rank
    <2>10. RelsOf(file, <<>>, 1)
      BY <2>8, <2>9 DEF RelsOf
    <2>11. ListInv
      BY <2>1, <2>2, <2>8, <2>10 DEF ListInv, ListReached
    <2>12. WrittenOut(file, <<>>, 1, 0)
      <3>1. <<>> \in Seq({}) /\ Len(<<>>) = 0
        OBVIOUS
      <3> QED
        BY <2>8, <2>9, <3>1 DEF WrittenOut, IsSeq
    <2>13. OutInv /\ Outcome
      BY <2>1, <2>12 DEF OutInv, Outcome
    <2> QED
      BY <2>1, <2>4, <2>5, <2>7, <2>11, <2>13
  <1>2. ASSUME Inv, [Next]_vars  PROVE Inv'
    <2>1. PosInv'
      BY <1>2, PosKept
    <2>2. Counted'
      BY <1>2, IndexCounts, ConvertCounts, OthersCount DEF Next, Step, Counted
    <2>3. HeldInv'
      BY <1>2, NodeHeld, WayReleases, OthersHold, OsmAssumption DEF Counted
    <2>4. StoreInv'
      BY <1>2, NodeStored, WayStored, OthersStore
    <2>5. ListInv' /\ OutInv' /\ Outcome'
      BY <1>2, ListKept, OutKept, OutcomeKept
    <2> QED
      BY <2>1, <2>2, <2>3, <2>4, <2>5
  <1>3. Inv => Outcome
    OBVIOUS
  <1> HIDE DEF Inv
  <1> QED
    BY <1>1, <1>2, <1>3, PTL DEF Spec

(* The file says what is written.                                           *)
LEMMA OutputUnique ==
  ASSUME file \in Files, NEW n \in Nat, NEW a, NEW b,
         WrittenOut(file, a, Upto, n), GroupedOut(a, n),
         WrittenOut(file, b, Upto, n), GroupedOut(b, n)
  PROVE  a = b
  <1> DEFINE r == Rank(file, Written, Upto)
  <1>1. Upto \in Nat \ {0}
    BY FileElements DEF Upto
  <1>2. r \in Nat
    BY <1>1, RankGrows
  <1>3. \A s : IsSeq(s) => s = [k \in 1..Len(s) |-> s[k]]
    BY DEF IsSeq
  <1>4. /\ Len(a) = r + n /\ Len(b) = r + n
        /\ a = [k \in 1..Len(a) |-> a[k]] /\ b = [k \in 1..Len(b) |-> b[k]]
    BY <1>3 DEF WrittenOut
  <1>5. ASSUME NEW k \in 1..r  PROVE a[k] = b[k]
    <2>1. PICK i \in Among(file, Written, Upto) : k = Rank(file, Written, i + 1)
      BY <1>1, RankOnto
    <2>2. IsFeature(file, i, a[k]) /\ IsFeature(file, i, b[k])
      BY <2>1 DEF WrittenOut
    <2>3. i \in DOMAIN file /\ file[i].kind \in {"node", "way"}
      BY <1>1, FileElements DEF Among, Upto, Written
    <2>4. a[k].of = b[k].of
      <3>1. CASE file[i].kind = "node"
        BY <2>2, <3>1 DEF IsFeature
      <3>2. CASE file[i].kind = "way"
        BY <2>2, <2>3, <3>2, ResolvedUnique DEF IsFeature
      <3> QED
        BY <2>3, <3>1, <3>2
    <2> QED
      BY <2>2, <2>4 DEF IsFeature
  <1>6. ASSUME NEW j \in 1..n  PROVE a[r + j] = b[r + j]
    <2>1. PICK M : a[r + j] = Feature(relations[j], M) /\ IsMembers(M, relations[j])
      BY DEF GroupedOut, RelationOut
    <2>2. PICK N : b[r + j] = Feature(relations[j], N) /\ IsMembers(N, relations[j])
      BY DEF GroupedOut, RelationOut
    <2>3. M = N
      BY <2>1, <2>2, MembersUnique
    <2> QED
      BY <2>1, <2>2, <2>3
  <1>7. \A k \in 1..(r + n) : k \in 1..r \/ \E j \in 1..n : k = r + j
    <2> TAKE k \in 1..(r + n)
    <2>1. k \in 1..r \/ (k - r \in 1..n /\ k = r + (k - r))
      BY <1>2
    <2> QED
      BY <2>1
  <1>8. \A k \in 1..(r + n) : a[k] = b[k]
    BY <1>5, <1>6, <1>7
  <1> QED
    BY <1>4, <1>8
=============================================================================
