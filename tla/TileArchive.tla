---------------------------- MODULE TileArchive ----------------------------
(***************************************************************************)
(* geojson2mbtiles: features are staged in the tables of one transaction,  *)
(* each under the tiles it contributes to, found by descending from tile   *)
(* 0/0/0 and leaving out the tiles it does not meet; then the staged tiles *)
(* are listed in order, encoded and stored; then the staging tables are    *)
(* dropped and the transaction is committed.                               *)
(*                                                                         *)
(* A tile is <<zoom, x, y>>.  Projection, simplification and clipping are  *)
(* a library's: a geometry is here the set of grid points it passes, a     *)
(* tile is clipped to the points within its buffer, and simplification     *)
(* drops a geometry from the tiles of small zooms.                         *)
(*                                                                         *)
(* A definition whose name has an underscore is a fault: a mistaken form   *)
(* of the definition it stands before, which the properties must detect.   *)
(***************************************************************************)
EXTENDS Integers, FiniteSets, SequencesExt

CONSTANTS
    MinZoom, MaxZoom,
    MaxTiles,
    Simplify,     \* whether geometries are simplified
    Unit,         \* the grid points along a tile of MaxZoom
    Margin,       \* how many of them its buffer takes
    Inputs        \* sequences of features
                  \* [valid, reserved, points, from, fields]

ASSUME ArchiveAssumption ==
    /\ MinZoom \in Nat /\ MaxZoom \in MinZoom..30
    /\ MaxTiles \in Nat \ {0} /\ Simplify \in BOOLEAN
    /\ Unit \in Nat \ {0} /\ Margin \in 0..Unit
    /\ \A fs \in Inputs : fs \in Seq(ToSet(fs))

VARIABLES
    input,        \* the features that come
    features,     \* table _geotools_features, in order of feature_id
    tiles,        \* table _geotools_tiles
    mapping,      \* table _geotools_tile_features
    tileCount,    \* source.TileCount
    layerFields,  \* source.LayerFields: the type of each field of each layer
    pending,      \* the calls of stageArchiveFeatureTile still to be made
    pc,
    previous,     \* the tiles listed so far: the last one, or none
    listed,       \* tileIndex
    written,      \* table tiles, as rows
    archive,      \* what the database file holds after the transaction
    result        \* "", then "ok" or what is wrong

sourceVars == <<features, tileCount, layerFields, pending>>
stagingVars == <<tiles, mapping>>
outputVars == <<previous, listed, written, archive>>
vars == <<input, sourceVars, stagingVars, outputVars, pc, result>>

-----------------------------------------------------------------------------
(* Tiles.                                                                   *)

Root == <<0, 0, 0>>
NoTile == <<-1, 0, 0>>

Children(t) == <<<<t[1] + 1, t[2] * 2, t[3] * 2>>, <<t[1] + 1, t[2] * 2, t[3] * 2 + 1>>,
                 <<t[1] + 1, t[2] * 2 + 1, t[3] * 2>>, <<t[1] + 1, t[2] * 2 + 1, t[3] * 2 + 1>>>>

Before(t, u) ==
    \/ t[1] < u[1]
    \/ t[1] = u[1] /\ t[2] < u[2]
    \/ t[1] = u[1] /\ t[2] = u[2] /\ t[3] < u[3]

Scale(z) == 2^(MaxZoom - z)

Clipped_NoBuffer(points, t) ==
    {p \in points : /\ p[1] \in Unit * Scale(t[1]) * t[2] .. Unit * Scale(t[1]) * (t[2] + 1)
                    /\ p[2] \in Unit * Scale(t[1]) * t[3] .. Unit * Scale(t[1]) * (t[3] + 1)}

(* layer.Clip: what of a geometry is in a tile and its buffer.              *)
Clipped(points, t) ==
    LET width == Unit * Scale(t[1])
        margin == Margin * Scale(t[1])
    IN {p \in points : /\ p[1] \in width * t[2] - margin .. width * (t[2] + 1) + margin
                       /\ p[2] \in width * t[3] - margin .. width * (t[3] + 1) + margin}

(* archiveGeometryIntersectsTile, without simplification and with it.       *)
Meets(f, t) == Clipped(f.points, t) # {}
MeetsSimplified(f, t) == f.from <= t[1] /\ Meets(f, t)

Contributes(f, t) == IF Simplify THEN MeetsSimplified(f, t) ELSE Meets(f, t)

-----------------------------------------------------------------------------
Init ==
    /\ input \in Inputs
    /\ features = <<>> /\ tiles = {} /\ mapping = {} /\ tileCount = 0
    /\ layerFields = <<>> /\ pending = <<>> /\ pc = "read"
    /\ previous = NoTile /\ listed = 0 /\ written = {} /\ archive = {}
    /\ result = ""

(* Every way out but the commit undoes what the transaction did.            *)
Rollback(why) ==
    /\ pc' = "done" /\ result' = why
    /\ features' = <<>> /\ tiles' = {} /\ mapping' = {} /\ written' = {}

Typed_LastWins(f, key) ==
    IF key \in DOMAIN f.fields THEN f.fields[key] ELSE layerFields[key]

(* updateArchiveLayerFields: a field of two types is a String.              *)
Typed(f, key) ==
    IF key \notin DOMAIN f.fields THEN layerFields[key]
    ELSE IF key \in DOMAIN layerFields /\ layerFields[key] # f.fields[key]
    THEN "String" ELSE f.fields[key]

(* The callback of stageArchiveSource, up to the tiles.                     *)
ReadFeature ==
    /\ pc = "read" /\ Len(features) < Len(input)
    /\ LET f == input[Len(features) + 1] IN
       \/ /\ ~f.valid
          /\ Rollback("invalid feature") /\ UNCHANGED <<tileCount, layerFields, pending>>
       \/ /\ f.valid
          /\ features' = Append(features, f)
          /\ layerFields' = [key \in DOMAIN layerFields \union DOMAIN f.fields |-> Typed(f, key)]
          /\ pending' = <<Root>> /\ pc' = "stage"
          /\ UNCHANGED <<tileCount, stagingVars, written, result>>
    /\ UNCHANGED <<input, previous, listed, archive>>

Descend_Unbuffered(f, t) ==
    IF t[1] = MaxZoom \/ Clipped_NoBuffer(f.points, t) = {} THEN <<>> ELSE Children(t)

(* The tiles below are visited if this one is met, simplified or not.       *)
Descend(f, t) == IF t[1] = MaxZoom \/ ~Meets(f, t) THEN <<>> ELSE Children(t)

(* Whether the feature is listed under a tile that is visited.              *)
Listed(f, t) == t[1] >= MinZoom /\ Meets(f, t) /\ Contributes(f, t)

StageTile_CountEach ==
    /\ pc = "stage" /\ pending # <<>>
    /\ LET f == Last(features)
           t == Head(pending)
       IN IF Listed(f, t)
          THEN /\ tileCount' = tileCount + 1
               /\ IF tileCount' > MaxTiles
                  THEN Rollback("too many tiles") /\ UNCHANGED pending
                  ELSE /\ tiles' = tiles \union {t}
                       /\ mapping' = mapping \union {<<t, Len(features)>>}
                       /\ pending' = Descend(f, t) \o Tail(pending)
                       /\ UNCHANGED <<features, written, pc, result>>
          ELSE /\ pending' = Descend(f, t) \o Tail(pending)
               /\ UNCHANGED <<features, tileCount, stagingVars, written, pc, result>>
    /\ UNCHANGED <<input, layerFields, previous, listed, archive>>

(* stageArchiveFeatureTile: INSERT OR IGNORE, the limit, the mapping, and   *)
(* the four tiles below.                                                    *)
StageTile ==
    /\ pc = "stage" /\ pending # <<>>
    /\ LET f == Last(features)
           t == Head(pending)
       IN IF Listed(f, t)
          THEN /\ tileCount' = tileCount + Cardinality({t} \ tiles)
               /\ IF tileCount' > MaxTiles
                  THEN Rollback("too many tiles") /\ UNCHANGED pending
                  ELSE /\ tiles' = tiles \union {t}
                       /\ mapping' = mapping \union {<<t, Len(features)>>}
                       /\ pending' = Descend(f, t) \o Tail(pending)
                       /\ UNCHANGED <<features, written, pc, result>>
          ELSE /\ pending' = Descend(f, t) \o Tail(pending)
               /\ UNCHANGED <<features, tileCount, stagingVars, written, pc, result>>
    /\ UNCHANGED <<input, layerFields, previous, listed, archive>>

EndFeature ==
    /\ pc = "stage" /\ pending = <<>>
    /\ pc' = "read"
    /\ UNCHANGED <<input, sourceVars, stagingVars, outputVars, result>>

(* The metadata, whose vector_layers are layerFields.                       *)
EndOfInput ==
    /\ pc = "read" /\ Len(features) = Len(input)
    /\ pc' = "list"
    /\ UNCHANGED <<input, sourceVars, stagingVars, outputVars, result>>

-----------------------------------------------------------------------------
Ahead == {t \in tiles : Before(previous, t)}

(* nextStagedArchiveTile.                                                   *)
NextTile(t) == \A u \in Ahead \ {t} : Before(t, u)

IDs(t) == {id \in DOMAIN features : <<t, id>> \in mapping}

Row_Untransposed(t, ids) == [zoom |-> t[1], column |-> t[2], row |-> t[3], ids |-> ids]

(* The row of table tiles, its y counted from the south.                    *)
Row(t, ids) == [zoom |-> t[1], column |-> t[2], row |-> 2^t[1] - 1 - t[3], ids |-> ids]

(* EncodeMVTWithFeatureCount projects, simplifies and clips once more, and  *)
(* refuses a feature that has the property reserved for its id.             *)
Encoded(t) == {id \in IDs(t) : Contributes(features[id], t)}

WriteTile(t) ==
    /\ pc = "list" /\ t \in Ahead /\ NextTile(t)
    /\ IF \E id \in IDs(t) : features[id].reserved
       THEN Rollback("reserved property") /\ listed' = listed + 1 /\ UNCHANGED previous
       ELSE /\ previous' = t /\ listed' = listed + 1
            /\ IF Encoded(t) # {} /\ Cardinality(written) = MaxTiles
               THEN Rollback("too many rows")
               ELSE /\ written' = IF Encoded(t) = {} THEN written
                                  ELSE written \union {Row(t, Encoded(t))}
                    /\ UNCHANGED <<features, stagingVars, pc, result>>
    /\ UNCHANGED <<input, tileCount, layerFields, pending, archive>>

EndOfTiles ==
    /\ pc = "list" /\ Ahead = {}
    /\ IF listed # tileCount
       THEN Rollback("tiles listed and recorded differ")
       ELSE pc' = "drop" /\ UNCHANGED <<features, stagingVars, written, result>>
    /\ UNCHANGED <<input, tileCount, layerFields, pending, previous, listed, archive>>

(* The staging tables go, and the rest becomes what the file holds.         *)
DropStaging ==
    /\ pc = "drop"
    /\ features' = <<>> /\ tiles' = {} /\ mapping' = {} /\ pc' = "commit"
    /\ UNCHANGED <<input, tileCount, layerFields, pending, outputVars, result>>

Commit ==
    /\ pc = "commit"
    /\ archive' = written /\ pc' = "done" /\ result' = "ok"
    /\ UNCHANGED <<input, sourceVars, stagingVars, previous, listed, written>>

(* A statement, the reading of the input or the commit fails.               *)
StatementFails ==
    /\ pc # "done"
    /\ Rollback("statement failed")
    /\ UNCHANGED <<input, tileCount, layerFields, pending, previous, listed, archive>>

Returned == pc = "done" /\ UNCHANGED vars

Next ==
    \/ ReadFeature \/ StageTile \/ EndFeature \/ EndOfInput
    \/ \E t \in tiles : WriteTile(t)
    \/ EndOfTiles \/ DropStaging \/ Commit
    \/ StatementFails \/ Returned

Spec == Init /\ [][Next]_vars

-----------------------------------------------------------------------------
(* Tiles by their definition, not by descent.                               *)
AllTiles ==
    UNION {{<<z, x, y>> : x \in 0..2^z - 1, y \in 0..2^z - 1} : z \in MinZoom..MaxZoom}

Coverage(fs) ==
    {m \in AllTiles \X DOMAIN fs : Contributes(fs[m[2]], m[1])}

Covered(fs) == {m[1] : m \in Coverage(fs)}

Valid == \A i \in DOMAIN input : input[i].valid

(* The descent finds exactly the tiles the features staged contribute to:   *)
(* a tile that is left out has nothing below it (stageArchiveFeatureTile).  *)
StagedIsCoverage ==
    pc \in {"read", "list"} => mapping = Coverage(features) /\ tiles = Covered(features)

(* source.TileCount is the number of distinct tiles, so that the limit      *)
(* stops exactly the inputs that need more, the second test of the limit    *)
(* and the count at the end never fail, and every tile is listed.           *)
LimitExact ==
    /\ result = "" => tileCount = Cardinality(tiles) \/ pc = "commit"
    /\ result = "too many tiles" => Cardinality(Covered(input)) > MaxTiles
    /\ result = "ok" => Cardinality(Covered(input)) <= MaxTiles
    /\ result \notin {"too many rows", "tiles listed and recorded differ"}

(* The archive appears with the commit, as a whole or not at all: one row   *)
(* for each tile that some feature contributes to, with those features, and *)
(* the y of TMS.                                                            *)
ArchiveIsWhole ==
    archive =
      IF result = "ok"
      THEN {[zoom |-> t[1], column |-> t[2], row |-> 2^t[1] - 1 - t[3],
             ids |-> {id \in DOMAIN input : <<t, id>> \in Coverage(input)}] : t \in Covered(input)}
      ELSE {}

(* A field is listed as a Number or Boolean only if it is one in every      *)
(* feature staged, in whatever order they came (updateArchiveLayerFields).  *)
FieldsAgree ==
    \A key \in DOMAIN layerFields :
       LET types == {features[i].fields[key] :
                        i \in {k \in DOMAIN features : key \in DOMAIN features[k].fields}}
       IN result = "" /\ pc # "commit" =>
            layerFields[key] = IF Cardinality(types) = 1 THEN CHOOSE x \in types : TRUE
                               ELSE "String"

=============================================================================
