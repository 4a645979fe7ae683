---------------------------- MODULE PbfConverter ----------------------------
(***************************************************************************)
(* The conversion of pbf2geojson: the file is decoded once to mark the     *)
(* selected elements and what they refer to, again and again to mark what  *)
(* nested relations need until a pass marks nothing new, and once more to  *)
(* write the features.  Coordinates and member ways are kept in a feature  *)
(* cache, in memory or, with -leveldb, in LevelDB behind a write batch.    *)
(*                                                                         *)
(* An element is a record [kind, id, tags, refs]: "match" \in tags if its  *)
(* tags satisfy -tags, "area" if a relation is a multipolygon or boundary, *)
(* "outside" if a node's coordinates are not on the globe; refs is the     *)
(* sequence of the [kind, id] it refers to (a way only refers to nodes).   *)
(* Whether the rings of an area close is left open.                        *)
(*                                                                         *)
(* A definition whose name has an underscore is a fault: a mistaken form   *)
(* of the definition it stands before, which the properties must detect.   *)
(***************************************************************************)
EXTENDS Integers, FiniteSets, SequencesExt

CONSTANTS
    Files,      \* the PBF files a run may be given, as sequences of elements
    Disks,      \* where a cache may be: "memory", "leveldb"
    BatchSize,  \* -batch: entries in a LevelDB write
    Strict      \* TRUE: a FeatureCollection; FALSE: one Feature a line

Kinds == {"node", "way", "relation", "unknown"}
Ref == [kind : Kinds, id : Int]
Element == [kind : {"node", "way", "relation"}, id : Int,
            tags : SUBSET {"match", "area", "outside"}, refs : Seq(Ref)]

ASSUME ConverterAssumption ==
    /\ Files \subseteq Seq(Element)
    /\ Disks \subseteq {"memory", "leveldb"}
    /\ BatchSize \in Nat \ {0}
    /\ Strict \in BOOLEAN

VARIABLES
    file,                      \* the file being converted
    pass, pos,                 \* the pass over it, the element decoded next
    Nodes, Ways, Relations,    \* the masks of selected elements
    WayRefs,                   \* nodes of selected ways
    RelNodes, RelWays, RelRelation, \* what indexed relations refer to
    relationCount, wayCount,   \* the mask sizes when the pass began
    cache,                     \* the feature cache
    finished,                  \* finishedNodes and finishedWays of print
    relations, selected,       \* relations kept, ids of those to write
    output, framing,           \* what the writer has accepted
    err                        \* the first error

input    == <<file, pass, pos>>
selMasks == <<Nodes, Ways, Relations, WayRefs>>
relMasks == <<RelNodes, RelWays, RelRelation>>
counts   == <<relationCount, wayCount>>
printed  == <<cache, finished, relations, selected, output>>
vars == <<input, selMasks, relMasks, counts, printed, framing, err>>

Matches(e) == "match" \in e.tags
Refs(e, kind) == {r.id : r \in {s \in ToSet(e.refs) : s.kind = kind}}

EmptyCache(disk) ==
    [disk |-> disk, stored |-> {}, batch |-> {}, entries |-> 0, status |-> "ok"]

Init ==
    /\ file \in Files /\ pass = "index" /\ pos = 1
    /\ Nodes = {} /\ Ways = {} /\ Relations = {} /\ WayRefs = {}
    /\ RelNodes = {} /\ RelWays = {} /\ RelRelation = {}
    /\ relationCount = 0 /\ wayCount = 0
    /\ cache \in {EmptyCache(disk) : disk \in Disks}
    /\ finished = {} /\ relations = {} /\ selected = <<>>
    /\ output = <<>> /\ framing = "none" /\ err = "nil"

-----------------------------------------------------------------------------
(* index and indexRelationMembers: the passes that mark. *)

IndexRelation(e) ==
    /\ RelNodes' = RelNodes \cup Refs(e, "node")
    /\ RelWays' = RelWays \cup Refs(e, "way")
    /\ RelRelation' = RelRelation \cup Refs(e, "relation")

Chosen(e, kind) == IF e.kind = kind /\ Matches(e) THEN {e.id} ELSE {}

Index ==
    /\ pass = "index" /\ pos <= Len(file)
    /\ LET e == file[pos] IN
       /\ Nodes' = Nodes \cup Chosen(e, "node")
       /\ Ways' = Ways \cup Chosen(e, "way")
       /\ Relations' = Relations \cup Chosen(e, "relation")
       /\ WayRefs' = IF e.kind = "way" /\ Matches(e)
                     THEN WayRefs \cup Refs(e, "node") ELSE WayRefs
       /\ IF e.kind = "relation" /\ Matches(e)
          THEN IndexRelation(e) ELSE UNCHANGED relMasks
    /\ pos' = pos + 1
    /\ UNCHANGED <<file, pass, counts, printed, framing, err>>

BeginPrint ==
    /\ pass' = "print"
    /\ framing' = IF Strict THEN "opened" ELSE "none"
    /\ UNCHANGED counts

BeginMembers ==
    /\ pass' = "members"
    /\ relationCount' = Cardinality(RelRelation)
    /\ wayCount' = Cardinality(RelWays)
    /\ UNCHANGED framing

IndexEnd ==
    /\ pass = "index" /\ pos > Len(file)
    /\ IF RelWays = {} /\ RelRelation = {} THEN BeginPrint ELSE BeginMembers
    /\ pos' = 1
    /\ UNCHANGED <<file, selMasks, relMasks, printed, err>>

IndexMembers_EveryRelation ==
    /\ pass = "members" /\ pos <= Len(file)
    /\ LET e == file[pos] IN
       CASE e.kind = "way" /\ e.id \in RelWays ->
              /\ RelNodes' = RelNodes \cup Refs(e, "node")
              /\ UNCHANGED <<RelWays, RelRelation>>
         [] e.kind = "relation" -> IndexRelation(e)
         [] OTHER -> UNCHANGED relMasks
    /\ pos' = pos + 1
    /\ UNCHANGED <<file, pass, selMasks, counts, printed, framing, err>>

IndexMembers ==
    /\ pass = "members" /\ pos <= Len(file)
    /\ LET e == file[pos] IN
       CASE e.kind = "way" /\ e.id \in RelWays ->
              /\ RelNodes' = RelNodes \cup Refs(e, "node")
              /\ UNCHANGED <<RelWays, RelRelation>>
         [] e.kind = "relation" /\ e.id \in RelRelation -> IndexRelation(e)
         [] OTHER -> UNCHANGED relMasks
    /\ pos' = pos + 1
    /\ UNCHANGED <<file, pass, selMasks, counts, printed, framing, err>>

Settled_WaysOnly == Cardinality(RelWays) = wayCount

Settled_Never == FALSE

Settled == /\ Cardinality(RelRelation) = relationCount
           /\ Cardinality(RelWays) = wayCount

MembersEnd ==
    /\ pass = "members" /\ pos > Len(file)
    /\ IF Settled THEN BeginPrint ELSE BeginMembers
    /\ pos' = 1
    /\ UNCHANGED <<file, selMasks, relMasks, printed, err>>

-----------------------------------------------------------------------------
(* The feature cache.  In memory what is put can be read at once; LevelDB   *)
(* reads only what a write of the batch has reached.                        *)

Key(e) == <<e.kind, e.id>>
Put(store, e) == {x \in store : Key(x) # Key(e)} \cup {e}
Merge(store, batch) ==
    {x \in store : \A y \in batch : Key(x) # Key(y)} \cup batch

Flush(c, write) ==
    IF c.entries = 0 THEN c
    ELSE IF write = "failed" THEN [c EXCEPT !.status = "failed"]
    ELSE [EmptyCache(c.disk) EXCEPT !.stored = Merge(c.stored, c.batch)]

Weight(e) == IF e.kind = "way" THEN 2 ELSE 1  \* a way's nodes and its tags

CachePut_NoFlush(c, e, write) ==
    IF c.disk = "memory" THEN [c EXCEPT !.stored = Put(@, e)]
    ELSE [c EXCEPT !.batch = Put(@, e), !.entries = @ + Weight(e)]

CachePut(c, e, write) ==
    IF c.disk = "memory" THEN [c EXCEPT !.stored = Put(@, e)]
    ELSE LET filled == [c EXCEPT !.batch = Put(@, e),
                                 !.entries = @ + Weight(e)]
         IN IF filled.entries < BatchSize THEN filled ELSE Flush(filled, write)

WriteOutcomes == IF cache.disk = "memory" THEN {"ok"} ELSE {"ok", "failed"}

Located(id) == \E x \in cache'.stored : /\ Key(x) = <<"node", id>>
                                        /\ "outside" \notin x.tags

-----------------------------------------------------------------------------
(* print: the pass that writes. *)

Decoding(kind) == pass = "print" /\ pos <= Len(file) /\ file[pos].kind = kind

Stop(reason) == err' = reason /\ pass' = "close" /\ UNCHANGED <<pos, output>>
Skip == pos' = pos + 1 /\ UNCHANGED <<pass, output, err>>
Write(e) == \/ /\ output' = Append(output, Key(e))
               /\ pos' = pos + 1
               /\ UNCHANGED <<pass, err>>
            \/ Stop("write")

PrintNode_WayRefsOnly ==
    /\ Decoding("node")
    /\ LET e == file[pos] IN
       /\ \E write \in WriteOutcomes :
            cache' = IF e.id \in WayRefs
                     THEN CachePut(cache, e, write) ELSE cache
       /\ IF cache'.status = "failed" THEN Stop("cache")
          ELSE IF e.id \notin Nodes THEN Skip
          ELSE IF "outside" \in e.tags THEN Stop("build") ELSE Write(e)
    /\ UNCHANGED <<file, selMasks, relMasks, counts, finished, relations,
                   selected, framing>>

PrintNode ==
    /\ Decoding("node")
    /\ LET e == file[pos] IN
       /\ \E write \in WriteOutcomes :
            cache' = IF e.id \in WayRefs \cup RelNodes
                     THEN CachePut(cache, e, write) ELSE cache
       /\ IF cache'.status = "failed" THEN Stop("cache")
          ELSE IF e.id \notin Nodes THEN Skip
          ELSE IF "outside" \in e.tags THEN Stop("build") ELSE Write(e)
    /\ UNCHANGED <<file, selMasks, relMasks, counts, finished, relations,
                   selected, framing>>

FlushOnce(kind, write) ==
    IF kind \in finished THEN cache ELSE Flush(cache, write)

WayBuilds(e) == Len(e.refs) >= 2 /\ \A id \in Refs(e, "node") : Located(id)

PrintWay_SkipUnresolved ==
    /\ Decoding("way")
    /\ finished' = finished \cup {"nodes"}
    /\ LET e == file[pos] IN
       /\ \E first, second \in WriteOutcomes :
            LET flushed == FlushOnce("nodes", first) IN
            cache' = IF flushed.status = "ok" /\ e.id \in RelWays
                     THEN CachePut(flushed, e, second) ELSE flushed
       /\ IF cache'.status = "failed" THEN Stop("cache")
          ELSE IF e.id \notin Ways THEN Skip
          ELSE IF WayBuilds(e) THEN Write(e) ELSE Skip
    /\ UNCHANGED <<file, selMasks, relMasks, counts, relations, selected,
                   framing>>

PrintWay ==
    /\ Decoding("way")
    /\ finished' = finished \cup {"nodes"}
    /\ LET e == file[pos] IN
       /\ \E first, second \in WriteOutcomes :
            LET flushed == FlushOnce("nodes", first) IN
            cache' = IF flushed.status = "ok" /\ e.id \in RelWays
                     THEN CachePut(flushed, e, second) ELSE flushed
       /\ IF cache'.status = "failed" THEN Stop("cache")
          ELSE IF e.id \notin Ways THEN Skip
          ELSE IF WayBuilds(e) THEN Write(e) ELSE Stop("build")
    /\ UNCHANGED <<file, selMasks, relMasks, counts, relations, selected,
                   framing>>

PrintRelation ==
    /\ Decoding("relation")
    /\ finished' = finished \cup {"ways"}
    /\ \E write \in WriteOutcomes : cache' = FlushOnce("ways", write)
    /\ IF cache'.status = "failed"
       THEN Stop("cache") /\ UNCHANGED <<relations, selected>>
       ELSE LET e == file[pos] IN
            /\ relations' = IF e.id \in Relations \cup RelRelation
                            THEN Put(relations, e) ELSE relations
            /\ selected' = IF e.id \in Relations
                           THEN Append(selected, e.id) ELSE selected
            /\ Skip
    /\ UNCHANGED <<file, selMasks, relMasks, counts, framing>>

PrintEnd ==
    /\ pass = "print" /\ pos > Len(file)
    /\ \E write \in WriteOutcomes : cache' = Flush(cache, write)
    /\ IF cache'.status = "failed" THEN Stop("cache")
       ELSE /\ pass' = "relations" /\ pos' = 1
            /\ UNCHANGED <<output, err>>
    /\ UNCHANGED <<file, selMasks, relMasks, counts, finished, relations,
                   selected, framing>>

-----------------------------------------------------------------------------
(* newRelationFeature and collectRelationMembers. *)

Referred(elements, kind) == UNION {Refs(e, kind) : e \in elements}

(* The relations nested in relation id, at any depth, among those held: the *)
(* least set that has what it refers to and what its own refer to.          *)
Below(held, id) ==
    LET all == Referred(held, "relation")
        Closing(S) == \A e \in held :
            e.id \in {id} \cup S => Refs(e, "relation") \subseteq S
    IN {i \in all : \A S \in SUBSET all : Closing(S) => i \in S}

Expansion(id) ==
    {e \in relations : e.id = id \/ e.id \in Below(relations, id)}

Expands(id) ==
    \A i \in {id} \cup Below(relations, id) :
        /\ i \notin Below(relations, i)
        /\ \E e \in relations : e.id = i /\ Refs(e, "unknown") = {}

RelationBuilds(id) ==
    LET e == CHOOSE x \in relations : x.id = id
        nodeIDs == UNION {Refs(x, "node") : x \in Expansion(id)}
        ways == UNION {Refs(x, "way") : x \in Expansion(id)}
        Resolves(w, least) ==
            \E x \in cache'.stored :
                /\ Key(x) = <<"way", w>> /\ Len(x.refs) >= least
                /\ \A n \in Refs(x, "node") : Located(n)
    IN /\ Expands(id)
       /\ \A n \in nodeIDs : Located(n)
       /\ IF "area" \in e.tags
          THEN ways # {} /\ \A w \in ways : Resolves(w, 1)
          ELSE ways \cup nodeIDs # {} /\ \A w \in ways : Resolves(w, 2)

IsArea(id) == \E e \in relations : e.id = id /\ "area" \in e.tags

PrintFeature ==
    /\ pass = "relations" /\ pos <= Len(selected)
    /\ UNCHANGED cache
    /\ LET id == selected[pos] IN
       \/ RelationBuilds(id) /\ Write([kind |-> "relation", id |-> id])
       \/ (RelationBuilds(id) => IsArea(id)) /\ Stop("build")
    /\ UNCHANGED <<file, selMasks, relMasks, counts, finished, relations,
                   selected, framing>>

FeaturesEnd ==
    /\ pass = "relations" /\ pos > Len(selected)
    /\ pass' = "close"
    /\ UNCHANGED <<file, pos, selMasks, relMasks, counts, printed, framing, err>>

-----------------------------------------------------------------------------
(* A pass may fail to rewind, to start or to decode: convertPBF returns at  *)
(* once from a marking pass and closes the writer after the printing one.   *)
DecodeFails ==
    /\ pass \in {"index", "members", "print"}
    /\ err' = "decode"
    /\ pass' = IF pass = "print" THEN "close" ELSE "release"
    /\ UNCHANGED <<file, pos, selMasks, relMasks, counts, printed, framing>>

First(reason) == IF err = "nil" THEN reason ELSE err

(* An error of the buffered output is sticky: the flush fails again.        *)
CloseWriter ==
    /\ pass = "close" /\ pass' = "release"
    /\ \/ /\ err # "write"
          /\ framing' = IF Strict THEN "closed" ELSE "none"
          /\ UNCHANGED err
       \/ err' = First("write") /\ UNCHANGED framing
    /\ UNCHANGED <<file, pos, selMasks, relMasks, counts, printed>>

CloseCache ==
    /\ pass = "release" /\ pass' = "done"
    /\ \E write \in WriteOutcomes : cache' = Flush(cache, write)
    /\ err' \in IF cache'.status = "failed" THEN {First("close")}
                ELSE {err, First("close")}
    /\ UNCHANGED <<file, pos, selMasks, relMasks, counts, finished, relations,
                   selected, output, framing>>

Returned == pass = "done" /\ UNCHANGED vars

Next == \/ Index \/ IndexEnd \/ IndexMembers \/ MembersEnd
        \/ PrintNode \/ PrintWay \/ PrintRelation \/ PrintEnd
        \/ PrintFeature \/ FeaturesEnd
        \/ DecodeFails \/ CloseWriter \/ CloseCache \/ Returned

Spec == Init /\ [][Next]_vars

(* convertPBF is one goroutine that never waits for another. *)
FairSpec == Spec /\ WF_vars(Next)

-----------------------------------------------------------------------------
(* Properties. *)

Elements == ToSet(file)

(* Whatever the nesting and the order of the relations, when printing       *)
(* begins the masks are closed: they hold everything that a selected way, a *)
(* selected relation, a marked relation or a marked way refers to.  The     *)
(* loop over the file ends on two counts, and this is what that must mean.  *)
MasksClosed ==
    pass \in {"print", "relations"} =>
      \A e \in Elements :
        /\ e.kind = "way" /\ Matches(e) => Refs(e, "node") \subseteq WayRefs
        /\ e.kind = "way" /\ e.id \in RelWays =>
             Refs(e, "node") \subseteq RelNodes
        /\ e.kind = "relation" /\ (Matches(e) \/ e.id \in RelRelation) =>
             /\ Refs(e, "node") \subseteq RelNodes
             /\ Refs(e, "way") \subseteq RelWays
             /\ Refs(e, "relation") \subseteq RelRelation

OfKind(kind) == {e \in Elements : e.kind = kind}

(* Everything a conversion of the selected elements has to look at.         *)
NeededRelations ==
    LET roots == {e \in OfKind("relation") : Matches(e)}
        nested == UNION {Below(OfKind("relation"), r.id) : r \in roots}
    IN roots \cup {e \in OfKind("relation") : e.id \in nested}
MembersOf(S) == {e \in OfKind("way") : e.id \in Referred(S, "way")}
MemberWays == MembersOf(NeededRelations)

(* A set of relations that leaves out none that is selected, and none that *)
(* one of its own refers to.                                                *)
Complete(S) ==
    \A e \in OfKind("relation") :
        Matches(e) \/ e.id \in Referred(S, "relation") => e \in S

(* The masks hold nothing that no selected element needs, so that the cache *)
(* stays as small as README.md:127 says: no more than what the least of the *)
(* complete sets refers to.                                                 *)
MasksNeeded ==
    pass = "print" /\ pos = 1 =>
      \A S \in SUBSET OfKind("relation") : Complete(S) =>
        /\ RelRelation \subseteq Referred(S, "relation")
        /\ RelWays \subseteq Referred(S, "way")
        /\ RelNodes \subseteq Referred(S \cup MembersOf(S), "node")

IsSelected(e) == \E x \in Elements : Key(x) = Key(e) /\ Matches(x)

(* The features of a whole conversion: the selected nodes and ways in file  *)
(* order, then the selected relations in file order.                        *)
Direct == {i \in DOMAIN file : file[i].kind # "relation" /\ IsSelected(file[i])}
Later == {i \in DOMAIN file : file[i].kind = "relation" /\ IsSelected(file[i])}

Ahead(S, i) == Cardinality({j \in S : j < i})
Place(i) == 1 + IF i \in Direct THEN Ahead(Direct, i)
                ELSE Cardinality(Direct) + Ahead(Later, i)

Expected ==
    [n \in 1..Cardinality(Direct) + Cardinality(Later) |->
        Key(file[CHOOSE i \in Direct \cup Later : Place(i) = n])]

(* A conversion that returns nil wrote every selected element once and in   *)
(* order, and closed a collection it opened; one that fails at any point    *)
(* wrote a prefix of that.                                                  *)
OutputIsExpected ==
    pass = "done" =>
      /\ IsPrefix(output, Expected)
      /\ err = "nil" => output = Expected /\ (Strict => framing = "closed")

(* Between two calls LevelDB's batch holds less than a full write, unless   *)
(* the write failed, and the memory cache has no batch (cache.go:135-144).  *)
(* When the relations are written the cache can read every node and way     *)
(* that the file has and the masks ask for, none is left in the batch, and  *)
(* it holds nothing else.                                                   *)
CacheComplete ==
    /\ cache.entries < IF cache.status = "ok" THEN BatchSize ELSE BatchSize + 2
    /\ cache.disk = "memory" => cache.entries = 0 /\ cache.batch = {}
    /\ pass = "relations" =>
         /\ cache.batch = {}
         /\ {Key(e) : e \in cache.stored} =
              {Key(e) : e \in {x \in Elements :
                 \/ x.kind = "node" /\ x.id \in WayRefs \cup RelNodes
                 \/ x.kind = "way" /\ x.id \in RelWays}}

(* What print's comment promises (pbf2json.go:339-342): outstanding node    *)
(* writes are flushed before a way is processed.                            *)
NodesFlushedBeforeWays ==
    [][PrintWay /\ cache'.status = "ok" =>
         \A e \in cache'.batch : e.kind # "node"]_vars

Before(kinds, kind) ==
    \A i, j \in DOMAIN file :
        file[i].kind = kind /\ file[j].kind \in kinds => j < i

(* LevelDB needs the file sorted by type; the memory cache needs the nodes  *)
(* of a way before it.                                                      *)
Ordered ==
    IF cache.disk = "leveldb"
    THEN Before({"node"}, "way") /\ Before({"node", "way"}, "relation")
    ELSE \A i, j \in DOMAIN file :
           file[i].kind = "way" /\ file[j].kind = "node" =>
             (file[j].id \in Refs(file[i], "node") => j < i)

Convertible ==
    LET ways == MemberWays \cup {e \in OfKind("way") : Matches(e)}
        relationIDs(e) == Below(OfKind("relation"), e.id)
        Has(kind, ids) == \A id \in ids : \E e \in Elements : Key(e) = <<kind, id>>
    IN /\ Ordered
       /\ \A e, x \in Elements : Key(e) = Key(x) => e = x
       /\ \A e \in Elements : "outside" \notin e.tags
       /\ \A e \in ways : Len(e.refs) >= 2
       /\ \A e \in NeededRelations :
            /\ "area" \notin e.tags /\ e.id \notin relationIDs(e)
            /\ Refs(e, "unknown") = {}
            /\ \E x \in OfKind("relation") :
                 /\ x.id \in {e.id} \cup relationIDs(e)
                 /\ Refs(x, "node") \cup Refs(x, "way") # {}
       /\ Has("relation", Referred(NeededRelations, "relation"))
       /\ Has("way", Referred(NeededRelations, "way"))
       /\ Has("node", Referred(NeededRelations \cup ways, "node"))

(* A file that is complete and ordered, with one version of each element,   *)
(* never fails to build a feature, with either cache and whatever the size  *)
(* of the batch: no lookup asks for what an earlier pass did not mark, or   *)
(* the cache does not hold yet.                                             *)
CompleteFilesConvert == err = "build" => ~Convertible

(* The marking passes reach their fixed point, and the conversion returns,  *)
(* on cyclic relations too.                                                 *)
Terminates == <>(pass = "done")
=============================================================================
