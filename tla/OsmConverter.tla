---------------------------- MODULE OsmConverter ----------------------------
(***************************************************************************)
(* The conversion of osm2geojson.  A named file or a seekable input is     *)
(* read twice (Mode "indexed"): the first pass counts the uses of every    *)
(* node and keeps the relations, the second writes the features and drops  *)
(* a node when its last use has passed.  Other input is read once          *)
(* ("streaming"), keeping everything.                                      *)
(*                                                                         *)
(* An element is a record [kind, id, tags, refs] whose refs are the        *)
(* sequence of the [kind, id] it refers to.  The tags that matter: "area"  *)
(* on a multipolygon or boundary relation, "open" if its rings do not      *)
(* close, "outside" on a node off the globe; other tags tell versions of   *)
(* an element apart.                                                       *)
(*                                                                         *)
(* A definition whose name has an underscore is a fault: a mistaken form   *)
(* of the definition it stands before, which the properties must detect.   *)
(***************************************************************************)
EXTENDS Integers, FiniteSets, SequencesExt

CONSTANTS
    Files,    \* the inputs, as sequences of elements
    Mode,     \* "indexed" or "streaming"
    NodeIDs   \* the node ids the inputs mention

NotNumeric == -1  \* an id that is not a signed 64-bit integer

Ref == [kind : {"node", "way", "relation", "unknown"}, id : Int]
Element == [kind : {"node", "way", "relation"}, id : Int, tags : SUBSET STRING,
            refs : Seq(Ref)]

(* An element and its references name no node that is not in NodeIDs.       *)
NamesNodes(e) ==
    \A r \in {e} \cup ToSet(e.refs) :
        r.kind = "node" => r.id \in NodeIDs \cup {NotNumeric}

(* A way refers to nodes only.                                              *)
WayOfNodes(e) == e.kind = "way" => \A r \in ToSet(e.refs) : r.kind = "node"

ASSUME OsmAssumption ==
    /\ Mode \in {"indexed", "streaming"}
    /\ NodeIDs \subseteq Int \ {NotNumeric}
    /\ Files \subseteq Seq(Element)
    /\ \A f \in Files : \A e \in ToSet(f) : NamesNodes(e) /\ WayOfNodes(e)

VARIABLES
    file,           \* the input
    pass, pos,      \* the pass over it, the element decoded next
    uses,           \* nodeUses, then remainingNodeUses
    relationWays,   \* ways that some relation refers to
    relations,      \* the relations kept, in file order
    nodes, ways,    \* the nodes and ways kept, with what they resolved to
    output,         \* the features written
    err             \* the error returned

stores == <<nodes, ways>>
index  == <<uses, relationWays>>
vars == <<file, pass, pos, index, relations, stores, output, err>>

Key(e) == <<e.kind, e.id>>
RefIDs(e, kind) == {r.id : r \in {s \in ToSet(e.refs) : s.kind = kind}}
Numeric(e) == \A r \in ToSet(e.refs) : r.id # NotNumeric

Init ==
    /\ file \in Files /\ pos = 1
    /\ pass = IF Mode = "indexed" THEN "index" ELSE "convert"
    /\ uses = [n \in NodeIDs |-> 0] /\ relationWays = {}
    /\ relations = <<>> /\ nodes = {} /\ ways = {}
    /\ output = <<>> /\ err = "nil"

Fail(reason) == err' = reason /\ pass' = "done" /\ UNCHANGED pos
Advance == pos' = pos + 1 /\ UNCHANGED <<pass, err>>
At(p, kind) == pass = p /\ pos <= Len(file) /\ file[pos].kind = kind

-----------------------------------------------------------------------------
(* indexOSMReferences. *)

Places(e, n) == {i \in DOMAIN e.refs : e.refs[i] = [kind |-> "node", id |-> n]}
Uses(e, n) == Cardinality(Places(e, n))

CountUses(e) == uses' = [n \in NodeIDs |-> uses[n] + Uses(e, n)]

IndexNode ==
    /\ At("index", "node") /\ Advance
    /\ UNCHANGED <<file, index, relations, stores, output>>

IndexWay ==
    /\ At("index", "way")
    /\ LET e == file[pos] IN
       IF Numeric(e) THEN CountUses(e) /\ Advance
       ELSE Fail("reference") /\ UNCHANGED uses
    /\ UNCHANGED <<file, relationWays, relations, stores, output>>

IndexRelation_OncePerID ==
    /\ At("index", "relation")
    /\ LET e == file[pos] IN
       IF e.id \in {r.id : r \in ToSet(relations)}
       THEN UNCHANGED relations
       ELSE relations' = Append(relations, e)
    /\ CountUses(file[pos])
    /\ relationWays' = relationWays \cup RefIDs(file[pos], "way")
    /\ Advance
    /\ UNCHANGED <<file, stores, output>>

IndexRelation ==
    /\ At("index", "relation")
    /\ LET e == file[pos] IN
       IF /\ e.id # NotNumeric /\ Numeric(e)
          /\ \A r \in ToSet(e.refs) : r.kind \in {"node", "way", "relation"}
       THEN /\ CountUses(e)
            /\ relationWays' = relationWays \cup RefIDs(e, "way")
            /\ relations' = Append(relations, e)
            /\ Advance
       ELSE Fail("reference") /\ UNCHANGED <<index, relations>>
    /\ UNCHANGED <<file, stores, output>>

IndexEnd ==
    /\ pass = "index" /\ pos > Len(file)
    /\ pass' = "convert" /\ pos' = 1
    /\ UNCHANGED <<file, index, relations, stores, output, err>>

-----------------------------------------------------------------------------
(* The pass of convertIndexedOSM and of convertStreamingOSM that writes.    *)

Put(store, e) == {x \in store : Key(x) # Key(e)} \cup {e}
Feature(e, resolved) == [key |-> Key(e), tags |-> e.tags, of |-> resolved]
Write(e, resolved) == output' = Append(output, Feature(e, resolved))

ConvertNode ==
    /\ At("convert", "node")
    /\ LET e == file[pos] IN
       IF "outside" \in e.tags \/ e.id = NotNumeric
       THEN Fail("build") /\ UNCHANGED <<nodes, output>>
       ELSE /\ nodes' = IF Mode = "streaming" \/ uses[e.id] > 0
                        THEN Put(nodes, e) ELSE nodes
            /\ Write(e, <<>>)
            /\ Advance
    /\ UNCHANGED <<file, index, relations, ways>>

Held(store, id) == \E x \in store : x.id = id
Get(store, id) == CHOOSE x \in store : x.id = id

WayResolves(e) ==
    Len(e.refs) >= 2 /\ Numeric(e) /\ \A n \in RefIDs(e, "node") : Held(nodes, n)
Positions(e) == [i \in DOMAIN e.refs |-> Get(nodes, e.refs[i].id)]

Release_WholeWay(e) ==
    /\ uses' = [n \in NodeIDs |-> uses[n] - Uses(e, n)]
    /\ nodes' = {x \in nodes : x.id \notin RefIDs(e, "node")}

(* releaseOSMWayNodes: a node whose count reaches 0 is dropped.             *)
Release(e) ==
    /\ uses' = [n \in NodeIDs |-> uses[n] - Uses(e, n)]
    /\ nodes' = {x \in nodes : x.id \in RefIDs(e, "node") => uses'[x.id] # 0}

StoredWay(e) ==
    [kind |-> "way", id |-> e.id, tags |-> e.tags, of |-> Positions(e)]

ConvertWay_NoRelease ==
    /\ At("convert", "way")
    /\ LET e == file[pos] IN
       IF ~WayResolves(e) \/ e.id = NotNumeric
       THEN Fail("build") /\ UNCHANGED <<uses, stores, output>>
       ELSE /\ ways' = IF Mode = "streaming" \/ e.id \in relationWays
                       THEN Put(ways, StoredWay(e)) ELSE ways
            /\ UNCHANGED <<uses, nodes>>
            /\ Write(e, Positions(e))
            /\ Advance
    /\ UNCHANGED <<file, relationWays, relations>>

ConvertWay ==
    /\ At("convert", "way")
    /\ LET e == file[pos] IN
       IF ~WayResolves(e) \/ e.id = NotNumeric
       THEN Fail("build") /\ UNCHANGED <<uses, stores, output>>
       ELSE /\ ways' = IF Mode = "streaming" \/ e.id \in relationWays
                       THEN Put(ways, StoredWay(e)) ELSE ways
            /\ IF Mode = "indexed" THEN Release(e)
               ELSE UNCHANGED <<uses, nodes>>
            /\ Write(e, Positions(e))
            /\ Advance
    /\ UNCHANGED <<file, relationWays, relations>>

ConvertRelation ==
    /\ At("convert", "relation")
    /\ relations' = IF Mode = "streaming" THEN Append(relations, file[pos])
                    ELSE relations
    /\ Advance
    /\ UNCHANGED <<file, index, stores, output>>

(* Streaming conversion reads the ids of the relations only now.            *)
ConvertEnd ==
    /\ pass = "convert" /\ pos > Len(file)
    /\ IF \E e \in ToSet(relations) : e.id = NotNumeric
       THEN Fail("reference")
       ELSE pass' = "relations" /\ pos' = 1 /\ UNCHANGED err
    /\ UNCHANGED <<file, index, relations, stores, output>>

-----------------------------------------------------------------------------
(* osmRelationFeature: an area needs its ways, at any depth; any other      *)
(* relation needs every member, at any depth.                               *)

(* relationByID: of relations with one id, the last.                        *)
Known(id) == \E e \in ToSet(relations) : e.id = id
ByID(id) == LET i == CHOOSE j \in DOMAIN relations :
                       /\ relations[j].id = id
                       /\ \A k \in DOMAIN relations :
                            relations[k].id = id => k <= j
            IN relations[i]

NestedIDs(ids) ==
    UNION {RefIDs(ByID(i), "relation") : i \in {j \in ids : Known(j)}}
Below(e) ==
    LET reach[n \in 0..Len(relations)] ==
          IF n = 0 THEN RefIDs(e, "relation")
          ELSE reach[n-1] \cup NestedIDs(reach[n-1])
    IN reach[Len(relations)]

(* The relation and those nested in it.  A relation that an earlier one of  *)
(* the same id is not ByID of is itself all the same.                       *)
Expansion(e) == {e} \cup {ByID(i) : i \in {j \in Below(e) : Known(j)}}
Expands(e) ==
    /\ \A i \in Below(e) : i # NotNumeric /\ Known(i)
    /\ \A x \in Expansion(e) : x.id \notin Below(x)

MemberIDs(e, kind) == UNION {RefIDs(x, kind) : x \in Expansion(e)}

RelationBuilds(e) ==
    /\ Expands(e)
    /\ \A w \in MemberIDs(e, "way") : w # NotNumeric /\ Held(ways, w)
    /\ IF "area" \in e.tags
       THEN "open" \notin e.tags /\ MemberIDs(e, "way") # {}
       ELSE /\ \A n \in MemberIDs(e, "node") : n # NotNumeric /\ Held(nodes, n)
            /\ \A x \in Expansion(e) : x.refs # <<>>
            /\ MemberIDs(e, "unknown") = {}

(* What the geometry of a relation is made of.                              *)
Members(e) ==
    {Get(ways, w) : w \in MemberIDs(e, "way")} \cup
    (IF "area" \in e.tags THEN {}
     ELSE {Get(nodes, n) : n \in MemberIDs(e, "node")})

WriteRelation ==
    /\ pass = "relations" /\ pos <= Len(relations)
    /\ LET e == relations[pos] IN
       IF RelationBuilds(e) THEN Write(e, Members(e)) /\ Advance
       ELSE Fail("build") /\ UNCHANGED output
    /\ UNCHANGED <<file, index, relations, stores>>

Close ==
    /\ pass = "relations" /\ pos > Len(relations)
    /\ pass' = "done"
    /\ UNCHANGED <<file, pos, index, relations, stores, output, err>>

(* Either pass may fail to read, either write may fail; what is written     *)
(* then stays written, and the collection is not closed.                    *)
InputOutputFails ==
    /\ pass # "done"
    /\ Fail("input or output")
    /\ UNCHANGED <<file, index, relations, stores, output>>

Step == \/ IndexNode \/ IndexWay \/ IndexRelation \/ IndexEnd
        \/ ConvertNode \/ ConvertWay \/ ConvertRelation \/ ConvertEnd
        \/ WriteRelation \/ Close

Returned == pass = "done" /\ UNCHANGED vars

Next == Step \/ InputOutputFails \/ Returned

Spec == Init /\ [][Next]_vars

-----------------------------------------------------------------------------
(* Properties. *)

(* The uses of node n by the elements at P.                                 *)
PlacesAt(P, n) == UNION {{i} \X Places(file[i], n) : i \in P}
UsesAt(P, n) == Cardinality(PlacesAt(P, n))
RelationsAt == {i \in DOMAIN file : file[i].kind = "relation"}

(* From the second pass on the count of a node is exactly the number of     *)
(* times the ways still to come, and the relations, refer to it, and the    *)
(* nodes held are exactly those passed with a use left: none is dropped too *)
(* early, none is kept too long (README.md:157).                            *)
NodesHeldAreThoseInUse ==
    Mode = "indexed" /\ pass \in {"convert", "relations"} =>
      LET next   == IF pass = "convert" THEN pos ELSE Len(file) + 1
          coming == {i \in next..Len(file) : file[i].kind = "way"}
      IN /\ \A n \in NodeIDs : uses[n] = UsesAt(coming \cup RelationsAt, n)
         /\ {x.id : x \in nodes} =
              {n \in NodeIDs : uses[n] > 0 /\
                 \E i \in 1..next-1 : Key(file[i]) = <<"node", n>>}

=============================================================================
