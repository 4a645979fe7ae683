---------------------------- MODULE FeatureTools ----------------------------
(***************************************************************************)
(* geojsonseq, geofilter and geojsoncheck: what they do with each feature  *)
(* that CollectionReader hands to their callback, and what they write.     *)
(* The tool and its flags are part of the input:                           *)
(*   program            "seq", "filter" or "check"                         *)
(*   output             "jsonl", "collection" or "seq"                     *)
(*   limit              -limit                                             *)
(*   null, outOfRange   -allow-null-geometry, -allow-out-of-range          *)
(*   types, has, where  -geometry, -has, -where: two sets, and a value of  *)
(*                      each property that has to have one                 *)
(*   box                -bbox, or NoBox                                    *)
(*   select, drop       -select, -drop                                     *)
(* A feature also has a shape, whether its positions are one line, and     *)
(* properties.  What is written is a sequence of tokens.                   *)
(*                                                                         *)
(* A definition whose name has an underscore is a fault: a mistaken form   *)
(* of the definition it stands before, which the properties must detect.   *)
(***************************************************************************)
EXTENDS CollectionReader

CONSTANT World    \* the longitude of the antimeridian, twice a pole's latitude

(* What the flags allow: only geofilter has a limit and a bbox, in degrees, *)
(* and only geojsoncheck takes longitudes that are none.                    *)
IsTool(t) ==
    /\ t.program \in {"seq", "filter", "check"} /\ t.output \in {"jsonl", "collection", "seq"}
    /\ t.limit \in Nat \union {-1} /\ (t.program # "filter" => t.limit = -1)
    /\ t.program = "filter" => ~t.outOfRange
    /\ IsBBox(t.box) /\ t.box.dim \in {0, 2}
    /\ t.box.dim # 0 => {t.box.west, t.box.east} \subseteq -World..World

ASSUME ToolsAssumption == World \in Nat /\ \A in \in Inputs : IsTool(in.tool)

VARIABLES
    stage,        \* "start", "read" or "done"
    tokens,       \* what the FeatureWriter has taken
    wrote,        \* its featureCount
    broken,       \* its buffer could not be emptied
    why,          \* what the callback returned last
    report,       \* checkReport
    exit          \* "", then "ok" or "failed"

toolVars == <<stage, tokens, wrote, broken, why, report, exit>>

tool == input.tool

NoReport == [features |-> 0, positions |-> 0, types |-> <<>>, bbox |-> <<>>]

ToolInit ==
    /\ Init
    /\ stage = "start" /\ tokens = <<>> /\ wrote = 0 /\ broken = FALSE
    /\ why = "" /\ report = NoReport /\ exit = ""

-----------------------------------------------------------------------------
(* ValidateFeature, as the callbacks call it.                               *)
Pole == World \div 2

OutOfRange(f) == \E i \in DOMAIN f.positions : \/ f.positions[i].lon \notin -World..World
                                               \/ f.positions[i].lat \notin -Pole..Pole

Validated(f) == /\ SoundFeature(f) /\ (f.null => tool.null)
                /\ f.null \/ tool.outOfRange \/ ~OutOfRange(f)

Summary(f) == FoldLeft(LAMBDA s, p : Merge(s, Alone(p)), Nothing, f.positions)
Type(f) == IF f.null THEN "null" ELSE f.shape

-----------------------------------------------------------------------------
(* The FeatureWriter.                                                       *)

Mark(token) == <<[token |-> token]>>
Text(f) == <<[token |-> "feature", feature |-> f]>>

WriterStart == IF tool.output = "collection" THEN Mark("header") ELSE <<>>

WriterTokens(f) ==
    CASE tool.output = "collection" -> (IF wrote > 0 THEN Mark("comma") ELSE <<>>) \o Text(f)
      [] tool.output = "seq" -> Mark("separator") \o Text(f) \o Mark("newline")
      [] tool.output = "jsonl" -> Text(f) \o Mark("newline")

(* Write: its buffer takes the tokens, or it cannot be emptied.             *)
WriterWrite(f, answer) ==
    \/ /\ tokens' = tokens \o WriterTokens(f) /\ wrote' = wrote + 1
       /\ why' = answer /\ UNCHANGED broken
    \/ /\ broken' = TRUE /\ why' = "write failed" /\ UNCHANGED <<tokens, wrote>>

-----------------------------------------------------------------------------
(* The filter of geofilter.                                                 *)

(* boundsIntersect, of the bounds of a geometry and a box that may wrap.    *)
BoundsIntersect(s, b) ==
    /\ s.south <= b.north /\ b.south <= s.north
    /\ IF b.west > b.east THEN s.east >= b.west \/ s.west <= b.east
       ELSE s.west <= b.east /\ s.east >= b.west

(* geometryIntersectsBound: a line, which runs along a parallel, meets a    *)
(* box with any of its stretches, other geometries with a position.         *)
IntersectsBound(f, west, east, b) ==
    LET at(i) == f.positions[i]
        last(i) == IF f.shape = "LineString" THEN i + 1 ELSE i
    IN \E i \in DOMAIN f.positions :
         /\ last(i) \in DOMAIN f.positions
         /\ Lower(at(i).lon, at(last(i)).lon) <= east
         /\ Upper(at(i).lon, at(last(i)).lon) >= west
         /\ b.south <= at(i).lat /\ at(i).lat <= b.north

(* A box that wraps is one up to the antimeridian and one from it.          *)
GeometryIntersectsBBox(f, b) ==
    IF b.west <= b.east THEN IntersectsBound(f, b.west, b.east, b)
    ELSE IntersectsBound(f, b.west, World, b) \/ IntersectsBound(f, -World, b.east, b)

PropertiesMatch(f) ==
    /\ tool.has \subseteq DOMAIN f.properties
    /\ \A key \in DOMAIN tool.where : /\ key \in DOMAIN f.properties
                                      /\ f.properties[key] = tool.where[key]

Keeps(f) ==
    /\ tool.types = {} \/ Type(f) \in tool.types
    /\ tool.box.dim # 0 => /\ Summary(f).dim # 0 /\ BoundsIntersect(Summary(f), tool.box)
                           /\ GeometryIntersectsBBox(f, tool.box)
    /\ PropertiesMatch(f)

Selected(f) ==
    LET kept == IF tool.select # {} THEN DOMAIN f.properties \cap tool.select
                ELSE DOMAIN f.properties
    IN [f EXCEPT !.properties = [key \in kept \ tool.drop |-> f.properties[key]]]

FilterCallback_CountRead(f) ==
    IF ~Validated(f) THEN why' = "invalid" /\ UNCHANGED <<tokens, wrote, broken>>
    ELSE IF ~Keeps(f) THEN why' = "" /\ UNCHANGED <<tokens, wrote, broken>>
    ELSE WriterWrite(Selected(f), IF tool.limit >= 0 /\ Len(visited) + 1 >= tool.limit
                                  THEN "limit" ELSE "")

(* The callback of filterGeoJSON.                                           *)
FilterCallback(f) ==
    IF ~Validated(f) THEN why' = "invalid" /\ UNCHANGED <<tokens, wrote, broken>>
    ELSE IF ~Keeps(f) THEN why' = "" /\ UNCHANGED <<tokens, wrote, broken>>
    ELSE WriterWrite(Selected(f), IF tool.limit >= 0 /\ wrote + 1 >= tool.limit
                                  THEN "limit" ELSE "")

-----------------------------------------------------------------------------
(* The callback of checkGeoJSON.                                            *)

Bounds(s) == <<s.west, s.south, s.east, s.north>>

Extended_FromZero(bbox, s) ==
    IF s.dim = 0 THEN bbox
    ELSE LET b == IF bbox = <<>> THEN <<0, 0, 0, 0>> ELSE bbox
         IN <<Lower(b[1], s.west), Lower(b[2], s.south), Upper(b[3], s.east), Upper(b[4], s.north)>>

Extended(bbox, s) ==
    IF s.dim = 0 THEN bbox
    ELSE IF bbox = <<>> THEN Bounds(s)
    ELSE <<Lower(bbox[1], s.west), Lower(bbox[2], s.south),
           Upper(bbox[3], s.east), Upper(bbox[4], s.north)>>

(* types[geometryType]++                                                    *)
Tallied(types, t) ==
    [u \in DOMAIN types \union {t} |->
        (IF u \in DOMAIN types THEN types[u] ELSE 0) + (IF u = t THEN 1 ELSE 0)]

CheckCallback(f) ==
    /\ IF Validated(f)
       THEN /\ report' = [features |-> report.features + 1,
                          positions |-> report.positions + Len(f.positions),
                          types |-> Tallied(report.types, Type(f)),
                          bbox |-> Extended(report.bbox, Summary(f))]
            /\ why' = ""
       ELSE why' = "invalid" /\ UNCHANGED report
    /\ UNCHANGED <<tokens, wrote, broken>>

-----------------------------------------------------------------------------
(* The feature in hand when the callback is called.                         *)
Current == IF pc = "position" THEN Head(features) ELSE object.value.feature

Called == visited' # visited \/ (verdict' = "refused" /\ verdict = "")

(* geofilter with a limit of 0 reads nothing.                               *)
Unread == tool.program = "filter" /\ tool.limit = 0

StartTool ==
    /\ stage = "start" /\ stage' = "read"
    /\ tokens' = IF tool.program = "check" THEN <<>> ELSE WriterStart
    /\ UNCHANGED <<vars, wrote, broken, why, report, exit>>

(* A step of the reader; if it calls the callback, it goes on or not        *)
(* according to what that returns.                                          *)
Read ==
    /\ stage = "read" /\ ~Unread /\ Step
    /\ IF ~Called THEN UNCHANGED <<tokens, wrote, broken, why, report>>
       ELSE /\ CASE tool.program = "seq" -> WriterWrite(Current, "") /\ UNCHANGED report
                 [] tool.program = "filter" -> FilterCallback(Current) /\ UNCHANGED report
                 [] tool.program = "check" -> CheckCallback(Current)
            /\ verdict' = "refused" <=> why' # ""
    /\ UNCHANGED <<stage, exit>>

(* What filterGeoJSON returns: an error that comes with the limit is        *)
(* dropped with it.                                                         *)
Succeeded == Unread \/ verdict = "ok" \/ why = "limit"

(* writer.Close, on every path, or the report; either may fail.             *)
CloseTool ==
    /\ stage = "read" /\ (Unread \/ pc = "done") /\ stage' = "done"
    /\ tokens' = IF tool.program # "check" /\ tool.output = "collection"
                 THEN tokens \o Mark("end") ELSE tokens
    /\ broken' \in {broken, TRUE}
    /\ exit' = IF Succeeded /\ ~broken' THEN "ok" ELSE "failed"
    /\ UNCHANGED <<vars, wrote, why, report>>

ToolReturned == stage = "done" /\ UNCHANGED <<vars, toolVars>>

ToolNext == StartTool \/ Read \/ CloseTool \/ ToolReturned

ToolSpec == ToolInit /\ [][ToolNext]_<<vars, toolVars>>

-----------------------------------------------------------------------------
(* What is to be written, said of the whole input.                          *)

Answers(f) == tool.program = "seq" \/ Validated(f)

(* The features up to one that the callback refuses.                        *)
Answered ==
    LET all == DeliverableInput
    IN SubSeq(all, 1, Max({n \in 0..Len(all) : \A i \in 1..n : Answers(all[i])}))

(* Where a feature is, on the grid, and whether the box is there.           *)
Places(f) ==
    LET at(i) == f.positions[i] IN
    IF f.shape = "LineString"
    THEN UNION {{<<lon, at(i).lat>> : lon \in Lower(at(i).lon, at(i + 1).lon)
                                             ..Upper(at(i).lon, at(i + 1).lon)} :
                   i \in 1..Len(f.positions) - 1}
    ELSE {<<at(i).lon, at(i).lat>> : i \in DOMAIN f.positions}

Wanted(f) ==
    /\ tool.types # {} => Type(f) \in tool.types
    /\ tool.box.dim # 0 =>
         \E place \in Places(f) : Inside(tool.box, [dim |-> 2, lon |-> place[1], lat |-> place[2]])
    /\ PropertiesMatch(f)

Yield(f) ==
    IF tool.program = "seq" THEN <<f>> ELSE IF Wanted(f) THEN <<Selected(f)>> ELSE <<>>

Expected ==
    LET kept == FlattenSeq([i \in DOMAIN Answered |-> Yield(Answered[i])])
    IN SubSeq(kept, 1, IF tool.limit >= 0 THEN Lower(tool.limit, Len(kept)) ELSE Len(kept))

Framed(fs) ==
    CASE tool.output = "collection" ->
           Mark("header") \o (IF fs = <<>> THEN <<>> ELSE Text(fs[1]))
           \o FlattenSeq([i \in 1..Len(fs) - 1 |-> Mark("comma") \o Text(fs[i + 1])]) \o Mark("end")
      [] tool.output = "seq" ->
           FlattenSeq([i \in DOMAIN fs |-> Mark("separator") \o Text(fs[i]) \o Mark("newline")])
      [] tool.output = "jsonl" ->
           FlattenSeq([i \in DOMAIN fs |-> Text(fs[i]) \o Mark("newline")])

Whole == SoundInput /\ Answered = DeliverableInput

(* What the reader fails with that is not its input's, nor the callback's.  *)
Disk == Failures \ {"refused"}

Returns == stage = "done" /\ ~broken

(* Unless its buffer could not be emptied, geojsonseq and geofilter leave a *)
(* text in the form asked for, of features that are wanted, changed as      *)
(* asked for and in order; on success of all of them, or as many as the     *)
(* limit allows.  They fail only on an input that is not sound, or because  *)
(* of the disk (convertSequence, filterGeoJSON, FeatureWriter).             *)
OutputIsFiltered ==
    Returns /\ tool.program # "check" =>
      /\ \E n \in 0..Len(Expected) :
            /\ tokens = Framed(SubSeq(Expected, 1, n))
            /\ exit = "ok" => n = Len(Expected)
      /\ exit = "ok" => Whole \/ (tool.limit >= 0 /\ Len(Expected) = tool.limit)
      /\ exit = "failed" => ~Whole \/ verdict \in Disk

(* The report of geojsoncheck counts every feature, position and type of an *)
(* input that it accepts, and its bbox is the smallest around all of the    *)
(* positions (checkGeoJSON).                                                *)
ReportIsExact ==
    Returns /\ tool.program = "check" =>
      LET all == DeliverableInput
          at == UNION {ToSet(all[i].positions) : i \in DOMAIN all}
      IN /\ exit = "ok" <=> Whole /\ verdict \notin Disk
         /\ exit = "ok" =>
              /\ report.features = Len(all)
              /\ report.positions = Len(FlattenSeq([i \in DOMAIN all |-> all[i].positions]))
              /\ \A t \in DOMAIN report.types :
                    report.types[t] = Cardinality({i \in DOMAIN all : Type(all[i]) = t})
              /\ {Type(all[i]) : i \in DOMAIN all} = DOMAIN report.types
              /\ report.bbox = IF at = {} THEN <<>>
                               ELSE <<Min({p.lon : p \in at}), Min({p.lat : p \in at}),
                                      Max({p.lon : p \in at}), Max({p.lat : p \in at})>>

=============================================================================
