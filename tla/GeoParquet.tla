----------------------------- MODULE GeoParquet -----------------------------
(***************************************************************************)
(* geoparquet: GeoJSON features become the rows of a Parquet file and come *)
(* back.  A feature has members that a table has no place for: the encoder *)
(* gives them columns with reserved names, gives each property a column of *)
(* the one type that all its values have (or of JSON), moves a column that *)
(* would take a reserved name out of the way, lists the properties that    *)
(* are null, and can spell a geometry out as nested lists.  With -stream   *)
(* it writes rows while it reads, before it has seen any of that, and adds *)
(* the metadata that makes the file GeoParquet when everything is read.    *)
(*                                                                         *)
(* A name is <<n, base>>: base with n times "_property_" before it.        *)
(* A geometry has a type, a dimension, and parts: polygons of rings of     *)
(* positions, where a simpler type has one polygon or one ring.  Axes      *)
(* behave alike: a position is the number that all its coordinates have.   *)
(* Coordinate reference systems, JSON and Parquet's pages are left out.    *)
(*                                                                         *)
(* A definition whose name has an underscore is a fault: a mistaken form   *)
(* of the definition it stands before, which the properties must detect.   *)
(***************************************************************************)
EXTENDS Integers, FiniteSets, SequencesExt

CONSTANTS
    Names,        \* the names of properties, sorted
    Word,         \* the bits of an integer column
    Mantissa,     \* the bits a floating-point column is exact with
    Infinity,     \* beyond every coordinate
    Inputs        \* [streaming, native, secondary, features]

Elements(s) == {s[i] : i \in DOMAIN s}

IsList(s) == s = [i \in 1..Len(s) |-> s[i]] /\ Len(s) \in Nat

Coordinates == -Infinity + 1 .. Infinity - 1

(* The members a feature may have besides geometry and properties.          *)
Members == {"id", "feature_bbox", "foreign"}

NoGeometry == [type |-> "null", dim |-> 0, parts |-> <<>>]
NullValue == [form |-> "null"]

Types == {"null", "Point", "LineString", "MultiPoint", "Polygon", "MultiLineString",
          "MultiPolygon", "GeometryCollection"}

IsNested(g) ==
    /\ g = [type |-> g.type, dim |-> g.dim, parts |-> g.parts] /\ g.type \in Types
    /\ IsList(g.parts) /\ \A polygon \in Elements(g.parts) :
          IsList(polygon) /\ \A ring \in Elements(polygon) :
             IsList(ring) /\ Elements(ring) \subseteq Coordinates
    /\ g.type = "null" => g = NoGeometry
    /\ g.type \in {"Point", "LineString", "MultiPoint", "Polygon", "MultiLineString"} =>
          Len(g.parts) <= 1
    /\ g.type \in {"Point", "LineString", "MultiPoint"} =>
          \A polygon \in Elements(g.parts) : Len(polygon) = 1
    /\ g.dim \in Nat

(* A geometry that geodata.ValidateFeature accepts is empty, or has no part *)
(* that is.                                                                 *)
HasNoEmptyPart(g) ==
    \A polygon \in Elements(g.parts) : polygon # <<>> /\ \A ring \in Elements(polygon) : ring # <<>>

IsFeature(f) ==
    /\ IsNested(f.geometry) /\ (f.valid => HasNoEmptyPart(f.geometry))
    /\ f.members \subseteq Members
    /\ f.null \in BOOLEAN /\ (f.null => DOMAIN f.properties = {})
    /\ DOMAIN f.properties \subseteq Elements(Names)
    /\ \A name \in DOMAIN f.properties :
          LET v == f.properties[name] IN
          /\ v.form \in {"null", "bool", "number", "string", "json", "geometry"}
          /\ v.form = "null" => v = NullValue
          /\ v.form = "number" => v = [form |-> "number", point |-> v.point, value |-> v.value]
          /\ v.form = "geometry" => IsNested(v.geometry) /\ v.geometry # NoGeometry

ASSUME GeoParquetAssumption ==
    /\ Word \in Nat \ {0} /\ Mantissa \in Nat /\ Infinity \in Nat
    /\ IsList(Names) /\ IsInjective(Names) /\ \A name \in Elements(Names) :
          name[1] \in Nat /\ name = <<name[1], name[2]>>
    /\ \A in \in Inputs :
          /\ IsList(in.features) /\ IsList(in.secondary)
          /\ \A f \in Elements(in.features) : IsFeature(f)

VARIABLES
    input,        \* the settings and the features
    pc,
    count,        \* the features read
    kinds,        \* propertyKinds
    stats,        \* primaryStats and secondaryStats, by column
    file,         \* [footer, geo, tool, rows]
    encoding,     \* "", then "ok" or why the encoder failed
    next,         \* the row that is decoded next
    output,       \* the features decoded
    decoding      \* "", then "ok" or why the decoder failed

encoderVars == <<count, kinds, stats, file, encoding>>
decoderVars == <<next, output, decoding>>
vars == <<input, pc, encoderVars, decoderVars>>

-----------------------------------------------------------------------------
(* Columns.                                                                 *)

Named(base) == <<0, base>>
Prefixed(name) == <<name[1] + 1, name[2]>>

Geometry == Named("geometry")
Covering == Named("bbox")
Nulls == Named("__geotools_property_nulls")
PropertiesNull == Named("__geotools_properties_null")
Properties == Named("__geotools_properties")

MemberColumn(m) ==
    Named(CASE m = "id" -> "__geotools_id"
            [] m = "feature_bbox" -> "__geotools_feature_bbox"
            [] m = "foreign" -> "__geotools_foreign")

Reserved == {Geometry, Covering, Nulls, PropertiesNull, Properties}
            \union {MemberColumn(m) : m \in Members}

Secondary == Elements(input.secondary)

(* normalizeGeoParquetGeometryProperties.                                   *)
SecondaryRefused ==
    \/ Secondary \intersect (Reserved \union {Named("")}) # {}
    \/ ~IsInjective(input.secondary)

Free_Once(name, used) == IF name \in used THEN Prefixed(name) ELSE name

(* The first of name, _property_name, ... that is not used.                 *)
Free(name, used) ==
    LET free == {n \in 0..Cardinality(used) : <<name[1] + n, name[2]>> \notin used}
    IN <<name[1] + Min(free), name[2]>>

(* allocateGeoParquetPropertyColumns, in the order of the names.            *)
PropertyColumns ==
    LET column[n \in DOMAIN Names] ==
          Free(Names[n], Reserved \union Secondary \union
                         {column[m] : m \in {k \in 1..n - 1 : Names[k] \in DOMAIN kinds}})
    IN [name \in DOMAIN kinds |-> column[CHOOSE n \in DOMAIN Names : Names[n] = name]]

-----------------------------------------------------------------------------
(* Property values.  A number is written with a point (or an exponent) or   *)
(* without; beyond its mantissa a double loses the last bit.                *)

Fits(n) == n \in -(2^(Word - 1)) .. 2^(Word - 1) - 1
Rounded(n) == IF n \in -(2^Mantissa) .. 2^Mantissa THEN n ELSE 2 * (n \div 2)

(* inferGeoParquetPropertyKind, of what is not null.                        *)
Kind(v) ==
    CASE v.form = "number" /\ ~v.point -> IF Fits(v.value) THEN "int" ELSE "json"
      [] v.form = "number" /\ v.point -> IF Rounded(v.value) = v.value THEN "double" ELSE "json"
      [] v.form = "geometry" -> "json"
      [] OTHER -> v.form

IsNull(v) == v = NullValue

(* promoteGeoParquetPropertyKind.                                           *)
Promoted(name, kind) ==
    IF name \notin DOMAIN kinds \/ kinds[name] = kind THEN kind ELSE "json"

(* geoParquetPropertyValue: which values a column takes, and what it holds. *)
Storable(v, kind) ==
    CASE kind = "bool" -> v.form = "bool"
      [] kind = "string" -> v.form = "string"
      [] kind = "int" -> v.form = "number" /\ ~v.point /\ Fits(v.value)
      [] kind = "double" -> v.form = "number"
      [] kind = "json" -> TRUE

Stored(v, kind) == IF kind = "double" THEN [v EXCEPT !.value = Rounded(@)] ELSE v

-----------------------------------------------------------------------------
(* Geometries.                                                              *)

IsGeometry(g) == g # NoGeometry

Positions(g) ==
    UNION {UNION {Elements(ring) : ring \in Elements(polygon)} : polygon \in Elements(g.parts)}

(* geoParquetGeometryBounds: of no position, everything is above and below. *)
NoBox == [dim |-> 0, low |-> 0, high |-> 0]
Bounds(g) == [dim |-> g.dim, low |-> Min(Positions(g) \union {Infinity}),
              high |-> Max(Positions(g) \union {-Infinity})]

(* encoding/json writes no infinity.                                        *)
Finite(box) == box = NoBox \/ box.low < Infinity

(* mergeNDGeoParquetBounds.                                                 *)
Merged(a, b) ==
    IF a = NoBox THEN b
    ELSE [a EXCEPT !.low = Min({@, b.low}), !.high = Max({@, b.high})]

NoStats == [types |-> {}, dim |-> 0, mixed |-> FALSE, bbox |-> NoBox]

Add_KeepBox(s, g) ==
    IF ~IsGeometry(g) THEN s
    ELSE [types |-> s.types \union {<<g.type, g.dim>>},
          dim |-> IF s.dim = 0 THEN g.dim ELSE s.dim,
          mixed |-> s.mixed \/ s.dim \notin {0, g.dim},
          bbox |-> IF s.mixed THEN s.bbox ELSE Merged(s.bbox, Bounds(g))]

(* geoParquetGeometryStats.Add.                                             *)
Add(s, g) ==
    IF ~IsGeometry(g) THEN s
    ELSE LET mixed == s.mixed \/ s.dim \notin {0, g.dim}
         IN [types |-> s.types \union {<<g.type, g.dim>>},
             dim |-> IF s.dim = 0 THEN g.dim ELSE s.dim,
             mixed |-> mixed,
             bbox |-> IF mixed THEN NoBox ELSE Merged(s.bbox, Bounds(g))]

(* The repetition level of a position: that of the list which it continues, *)
(* or of the one in which its ring is a new element.                        *)
Depth(type) == CASE type = "Point" -> 0
                 [] type \in {"LineString", "MultiPoint"} -> 1
                 [] type \in {"Polygon", "MultiLineString"} -> 2
                 [] type = "MultiPolygon" -> 3

Repetition(type, polygon, ring, k) ==
    CASE k > 1 -> Depth(type)
      [] k = 1 /\ polygon = 1 /\ ring = 1 -> 0
      [] k = 1 /\ ring > 1 -> Depth(type) - 1
      [] k = 1 /\ ring = 1 /\ polygon > 1 -> 1

(* nativeGeoParquetCoordinates.                                             *)
NativeCoordinates(g) ==
    FlattenSeq([p \in DOMAIN g.parts |-> FlattenSeq([r \in DOMAIN g.parts[p] |->
        [k \in DOMAIN g.parts[p][r] |->
            [at |-> g.parts[p][r][k], repetition |-> Repetition(g.type, p, r, k)]]])])

(* nativeGeoParquetEnds and Endss: a new part where a level begins anew.    *)
Split(cells, level) ==
    LET split[n \in 1..Len(cells)] ==
          IF n = 1 THEN <<<<cells[1]>>>>
          ELSE IF cells[n].repetition <= level THEN Append(split[n - 1], <<cells[n]>>)
          ELSE [split[n - 1] EXCEPT ![Len(split[n - 1])] = Append(@, cells[n])]
    IN split[Len(cells)]

Places(cells) == [k \in DOMAIN cells |-> cells[k].at]
Rings(cells, level) == LET rings == Split(cells, level)
                       IN [r \in DOMAIN rings |-> Places(rings[r])]

(* buildNativeGeoParquetGeometry.                                           *)
NativeGeometry(type, dim, cells) ==
    [type |-> type, dim |-> dim,
     parts |-> CASE Depth(type) <= 1 -> <<<<Places(cells)>>>>
                 [] Depth(type) = 2 -> <<Rings(cells, 1)>>
                 [] Depth(type) = 3 ->
                      LET polygons == Split(cells, 1)
                      IN [p \in DOMAIN polygons |-> Rings(polygons[p], 2)]]

-----------------------------------------------------------------------------
(* prepareEncodedGeoParquetFeature.                                         *)

Encodable(g) == g.dim \in {2, 3}

Refused(f) ==
    \/ ~f.valid
    \/ IsGeometry(f.geometry) /\ (~Encodable(f.geometry) \/ f.geometry.parts = <<>>)
    \/ \E name \in Secondary :
          \/ name \notin DOMAIN f.properties
          \/ /\ ~IsNull(f.properties[name])
             /\ \/ f.properties[name].form # "geometry"
                \/ ~Encodable(f.properties[name].geometry)

(* encoded.Properties, the names of those that are null, and a secondary    *)
(* geometry.                                                                *)
Plain(f) == [name \in DOMAIN f.properties \ Secondary |-> f.properties[name]]
NullProperties(f) == {name \in DOMAIN Plain(f) : IsNull(f.properties[name])}
SecondaryGeometry(f, name) ==
    IF IsNull(f.properties[name]) THEN NoGeometry ELSE f.properties[name].geometry

-----------------------------------------------------------------------------
(* What is set later overwrites.                                            *)
Over(f, g) == [x \in DOMAIN f \union DOMAIN g |-> IF x \in DOMAIN f THEN f[x] ELSE g[x]]

(* buildGeoParquetSchema and buildStreamingGeoParquetSchema.                *)
StreamingSchema == (Reserved \ {Covering}) \union Secondary

Schema(columns, dimension) ==
    (Reserved \ {Properties, Covering})
    \union {c \in {Covering} : dimension # 0}
    \union Secondary \union {columns[p] : p \in DOMAIN columns}

(* The columns of a row: what they hold, absent ones being null.            *)

GeometryCell(g) ==
    IF input.native THEN [native |-> NativeCoordinates(g)] ELSE [wkb |-> g]

(* What every row has: buildGeoParquetRow without the properties.           *)
BaseRow(f) ==
    Over([c \in {c \in {Geometry} : IsGeometry(f.geometry)} |-> GeometryCell(f.geometry)],
    Over([c \in {n \in Secondary : IsGeometry(SecondaryGeometry(f, n))} |->
            [wkb |-> SecondaryGeometry(f, c)]],
    Over([c \in {MemberColumn(m) : m \in f.members} |-> "present"],
         [c \in {n \in {PropertiesNull} : f.null} |-> "true"])))

(* buildGeoParquetRow.                                                      *)
Row(f, columns, dimension) ==
    Over([c \in {n \in {Covering} : dimension # 0 /\ IsGeometry(f.geometry)} |-> Bounds(f.geometry)],
    Over([c \in {columns[p] : p \in DOMAIN Plain(f) \ NullProperties(f)} |->
            LET p == CHOOSE p \in DOMAIN Plain(f) \ NullProperties(f) : columns[p] = c
            IN Stored(f.properties[p], kinds[p])],
    Over([c \in {n \in {Nulls} : NullProperties(f) # {}} |-> NullProperties(f)],
         BaseRow(f))))

(* geoParquetLeaf finds no column for a property, or it takes no such value. *)
RowFails(f) ==
    \E p \in DOMAIN Plain(f) \ NullProperties(f) :
       \/ p \notin DOMAIN file.tool.columns \/ file.tool.columns[p] \notin file.schema
       \/ ~Storable(f.properties[p], kinds[p])

(* buildStreamingGeoParquetRow: the properties as one JSON value.           *)
StreamingRow(f) ==
    Over([c \in {Properties} |-> IF f.null THEN NullValue ELSE [json |-> Plain(f)]], BaseRow(f))

-----------------------------------------------------------------------------
(* Metadata.                                                                *)

InColumn(f, column) == IF column = Geometry THEN f.geometry ELSE SecondaryGeometry(f, column)

(* The features that have a geometry, and the first of these geometries.    *)
Present == {i \in 1..count : IsGeometry(input.features[i].geometry)}
Form(i) == <<input.features[i].geometry.type, input.features[i].geometry.dim>>
First == input.features[Min(Present)].geometry

NativeRefused_TypeOnly ==
    \/ Present = {}
    \/ First.type = "GeometryCollection"
    \/ \E i \in Present : Form(i)[1] # First.type

(* nativeGeoParquetType, and the dimension all geometries have, or 0.       *)
NativeRefused ==
    \/ Present = {}
    \/ First.type = "GeometryCollection"
    \/ \E i \in Present : Form(i) # <<First.type, First.dim>>

Dimension ==
    IF Present = {} THEN 2
    ELSE IF \A i \in Present : Form(i)[2] = First.dim THEN First.dim ELSE 0

Described(s, encoded) == [encoded |-> encoded, types |-> s.types, bbox |-> s.bbox]

(* buildGeoParquetMetadata: the primary column ...                          *)
PrimaryColumn ==
    LET box[i \in 0..count] ==
          IF i = 0 THEN NoBox
          ELSE IF i \notin Present THEN box[i - 1]
          ELSE Merged(box[i - 1], Bounds(input.features[i].geometry))
    IN [encoded |-> IF input.native THEN First.type ELSE "WKB",
        types |-> {Form(i) : i \in Present},
        bbox |-> IF Dimension = 0 THEN NoBox ELSE box[count]]

(* ... and the secondary ones.                                              *)
SecondaryColumn(name) ==
    LET seen[i \in 0..count] ==
          IF i = 0 THEN NoStats ELSE Add(seen[i - 1], SecondaryGeometry(input.features[i], name))
    IN Described(seen[count], "WKB")

Metadata ==
    [column \in {Geometry} \union Secondary |->
        IF column = Geometry THEN PrimaryColumn ELSE SecondaryColumn(column)]

(* buildStreamingGeoParquetMetadata.                                        *)
StreamingMetadata == [column \in DOMAIN stats |-> Described(stats[column], "WKB")]

Marshals(geo) == \A column \in DOMAIN geo : Finite(geo[column].bbox)

NoGeo == <<>>
NoTool == [columns |-> <<>>, streaming |-> FALSE]
EmptyFile == [footer |-> FALSE, schema |-> {}, dimension |-> 0, geo |-> NoGeo, tool |-> NoTool,
              rows |-> <<>>]

-----------------------------------------------------------------------------
Init ==
    /\ input \in Inputs
    /\ pc = "start" /\ count = 0 /\ kinds = <<>> /\ stats = <<>>
    /\ file = EmptyFile /\ encoding = ""
    /\ next = 1 /\ output = <<>> /\ decoding = ""

(* The encoder returns: at once, or after writer.Close.                     *)
Return(why) == pc' = "encoded" /\ encoding' = why
CloseAfter(why) == pc' = "close" /\ encoding' = why

Fail(why) == IF input.streaming THEN CloseAfter(why) ELSE Return(why)

Start_Described ==
    /\ pc = "start"
    /\ IF SecondaryRefused \/ (input.streaming /\ input.native)
       THEN Return("bad settings") /\ UNCHANGED <<stats, file>>
       ELSE /\ pc' = "read" /\ UNCHANGED encoding
            /\ stats' = [column \in {Geometry} \union Secondary |-> NoStats]
            /\ file' = [file EXCEPT !.tool.streaming = input.streaming, !.schema = StreamingSchema,
                                    !.geo = [c \in DOMAIN stats' |-> Described(NoStats, "WKB")]]
    /\ UNCHANGED <<input, count, kinds, decoderVars>>

(* encodeGeoParquetWithSettings.                                            *)
Start ==
    /\ pc = "start"
    /\ IF SecondaryRefused \/ (input.streaming /\ input.native)
       THEN Return("bad settings") /\ UNCHANGED <<stats, file>>
       ELSE /\ pc' = "read" /\ UNCHANGED encoding
            /\ stats' = [column \in {Geometry} \union Secondary |-> NoStats]
            /\ file' = IF input.streaming
                       THEN [file EXCEPT !.tool.streaming = TRUE, !.schema = StreamingSchema]
                       ELSE file
    /\ UNCHANGED <<input, count, kinds, decoderVars>>

Counts(f) ==
    kinds' = [name \in DOMAIN kinds \union (DOMAIN Plain(f) \ NullProperties(f)) |->
                 IF name \in DOMAIN Plain(f) \ NullProperties(f)
                 THEN Promoted(name, Kind(f.properties[name])) ELSE kinds[name]]

AddRow(row) == file' = [file EXCEPT !.rows = Append(@, row)]

(* The callback of collectGeoParquetFeatures.                               *)
Collect ==
    /\ pc = "read" /\ ~input.streaming /\ count < Len(input.features)
    /\ LET f == input.features[count + 1] IN
       IF Refused(f) THEN Return("bad feature") /\ UNCHANGED <<count, kinds>>
       ELSE Counts(f) /\ count' = count + 1 /\ UNCHANGED <<pc, encoding>>
    /\ UNCHANGED <<input, stats, file, decoderVars>>

(* The callback of encodeStreamingGeoParquet.                               *)
Stream ==
    /\ pc = "read" /\ input.streaming /\ count < Len(input.features)
    /\ LET f == input.features[count + 1]
           counted == [column \in DOMAIN stats |->
                         Add(stats[column], InColumn(f, column))]
       IN IF Refused(f)
          THEN CloseAfter("bad feature") /\ UNCHANGED <<count, stats, file>>
          ELSE /\ stats' = counted /\ count' = count + 1
               /\ \/ AddRow(StreamingRow(f)) /\ UNCHANGED <<pc, encoding>>
                  \/ CloseAfter("write failed") /\ UNCHANGED file
    /\ UNCHANGED <<input, kinds, decoderVars>>

(* geodata.ReadFeatures fails.                                              *)
ReadFails ==
    /\ pc = "read" /\ Fail("read failed")
    /\ UNCHANGED <<input, count, kinds, stats, file, decoderVars>>

(* Everything is collected: the columns, the metadata, and then the rows.   *)
Describe ==
    /\ pc = "read" /\ ~input.streaming /\ count = Len(input.features)
    /\ IF input.native /\ NativeRefused THEN Return("not native") /\ UNCHANGED file
       ELSE IF ~Marshals(Metadata) THEN Return("bad metadata") /\ UNCHANGED file
       ELSE /\ pc' = "rows" /\ UNCHANGED encoding
            /\ file' = [file EXCEPT !.geo = Metadata, !.dimension = Dimension,
                                    !.tool.columns = PropertyColumns,
                                    !.schema = Schema(PropertyColumns, Dimension)]
    /\ UNCHANGED <<input, count, kinds, stats, decoderVars>>

WriteRow ==
    /\ pc = "rows" /\ Len(file.rows) < count
    /\ LET f == input.features[Len(file.rows) + 1] IN
       IF RowFails(f) THEN CloseAfter("bad row") /\ UNCHANGED file
       ELSE \/ CloseAfter("write failed") /\ UNCHANGED file
            \/ /\ AddRow(Row(f, file.tool.columns, file.dimension))
               /\ UNCHANGED <<pc, encoding>>
    /\ UNCHANGED <<input, count, kinds, stats, decoderVars>>

EndOfRows ==
    /\ pc = "rows" /\ Len(file.rows) = count
    /\ CloseAfter("ok")
    /\ UNCHANGED <<input, count, kinds, stats, file, decoderVars>>

(* Everything is streamed: only now is the file called GeoParquet.          *)
DescribeStream ==
    /\ pc = "read" /\ input.streaming /\ count = Len(input.features)
    /\ IF Marshals(StreamingMetadata)
       THEN CloseAfter("ok") /\ file' = [file EXCEPT !.geo = StreamingMetadata]
       ELSE CloseAfter("bad metadata") /\ UNCHANGED file
    /\ UNCHANGED <<input, count, kinds, stats, decoderVars>>

(* writer.Close, which writes the footer.                                   *)
CloseWriter ==
    /\ pc = "close"
    /\ pc' = "encoded"
    /\ \/ file' = [file EXCEPT !.footer = TRUE] /\ UNCHANGED encoding
       \/ encoding' = (IF encoding = "ok" THEN "close failed" ELSE encoding) /\ UNCHANGED file
    /\ UNCHANGED <<input, count, kinds, stats, decoderVars>>

-----------------------------------------------------------------------------
(* decodeGeoParquet, of whatever the encoder left.                          *)

Open ==
    /\ pc = "encoded"
    /\ IF ~file.footer THEN pc' = "done" /\ decoding' = "not Parquet"
       ELSE IF file.geo = NoGeo THEN pc' = "done" /\ decoding' = "not GeoParquet"
       ELSE pc' = "decode" /\ UNCHANGED decoding
    /\ UNCHANGED <<input, encoderVars, next, output>>

Held(row, column) == column \in DOMAIN row

(* decodeGeoParquetGeometry.                                                *)
DecodedGeometry(row, column) ==
    IF ~Held(row, column) THEN NoGeometry
    ELSE IF file.geo[column].encoded = "WKB" THEN row[column].wkb
    ELSE NativeGeometry(file.geo[column].encoded, file.dimension, row[column].native)

GeometryValue(g) ==
    IF IsGeometry(g) THEN [form |-> "geometry", geometry |-> g] ELSE NullValue

(* The secondary geometries, in decodeGeoParquetRow.                        *)
Restored(row) == [name \in DOMAIN file.geo \ {Geometry} |-> GeometryValue(DecodedGeometry(row, name))]

(* geoParquetRootColumnJSON: the columns of the properties that have a value.*)
Filled(row) == {p \in DOMAIN file.tool.columns :
                   file.tool.columns[p] # Named("") /\ Held(row, file.tool.columns[p])}

(* The ordinary properties of decodeGeotoolsGeoParquetFeature.              *)
DecodedProperties(row) ==
    IF file.tool.streaming
    THEN IF IsNull(row[Properties]) THEN <<>> ELSE row[Properties].json
    ELSE Over([p \in (IF Held(row, Nulls) THEN row[Nulls] ELSE {}) |-> NullValue],
              [p \in Filled(row) |-> row[file.tool.columns[p]]])

WithoutProperties(row) ==
    IF file.tool.streaming THEN IsNull(row[Properties]) ELSE Held(row, PropertiesNull)

DecodedFeature(row) ==
    [geometry |-> DecodedGeometry(row, Geometry),
     members |-> {m \in Members : Held(row, MemberColumn(m))},
     null |-> WithoutProperties(row),
     properties |-> IF WithoutProperties(row) THEN <<>>
                    ELSE Over(Restored(row), DecodedProperties(row))]

(* A column that the tool's metadata names is absent, or a secondary        *)
(* geometry would replace a property, or has no object to go into.          *)
RowRefused(row) ==
    \/ \E p \in DOMAIN file.tool.columns : file.tool.columns[p] \notin file.schema
    \/ Properties \notin file.schema /\ file.tool.streaming
    \/ WithoutProperties(row) /\ DOMAIN Restored(row) # {}
    \/ ~WithoutProperties(row) /\ DOMAIN Restored(row) \intersect DOMAIN DecodedProperties(row) # {}

(* One row: decoded and given to the FeatureWriter.                         *)
DecodeRow ==
    /\ pc = "decode" /\ next <= Len(file.rows)
    /\ LET row == file.rows[next] IN
       IF RowRefused(row) THEN pc' = "done" /\ decoding' = "bad row" /\ UNCHANGED <<next, output>>
       ELSE /\ output' = Append(output, DecodedFeature(row)) /\ next' = next + 1
            /\ UNCHANGED <<pc, decoding>>
    /\ UNCHANGED <<input, encoderVars>>

DecodeFails ==
    /\ pc = "decode" /\ pc' = "done" /\ decoding' = "read or write failed"
    /\ UNCHANGED <<input, encoderVars, next, output>>

EndOfFile ==
    /\ pc = "decode" /\ next > Len(file.rows)
    /\ pc' = "done" /\ decoding' = "ok"
    /\ UNCHANGED <<input, encoderVars, next, output>>

Returned == pc = "done" /\ UNCHANGED vars

Next ==
    \/ Start \/ Collect \/ Stream \/ ReadFails \/ Describe \/ WriteRow \/ EndOfRows
    \/ DescribeStream \/ CloseWriter
    \/ Open \/ DecodeRow \/ DecodeFails \/ EndOfFile \/ Returned

Spec == Init /\ [][Next]_vars

-----------------------------------------------------------------------------
(* Values are the same if they say the same; a point is not kept.           *)
SameValue(v, w) ==
    /\ v.form = w.form
    /\ v.form = "geometry" => v.geometry = w.geometry
    /\ v.form \notin {"geometry", "null"} => v.value = w.value

SameFeature(f, g) ==
    /\ f.geometry = g.geometry /\ f.members = g.members /\ f.null = g.null
    /\ DOMAIN g.properties = DOMAIN f.properties
    /\ \A name \in DOMAIN f.properties : SameValue(f.properties[name], g.properties[name])

(* Every feature comes back as it was, in order: its geometry, null or in   *)
(* nested lists, its members, its properties with their values, null ones   *)
(* and ones with the names of columns included; and what was written        *)
(* without an error can be decoded (README.md:512: "lossless round trips"). *)
(* It is so of features whose properties all have names, and with -stream   *)
(* of all: without, the value of the property "" goes into a column that    *)
(* geoParquetRootColumnJSON takes for none.                                 *)
RoundTrip ==
    encoding = "ok" /\ pc \in {"decode", "done"} =>
       /\ decoding \in {"", "ok", "read or write failed"}
       /\ \A i \in DOMAIN output : SameFeature(input.features[i], output[i])
       /\ decoding = "ok" => Len(output) = Len(input.features)

(* What the metadata says of a column is so, whichever way it was gathered: *)
(* the types of its geometries, and a box around all of them if they have   *)
(* one dimension and none otherwise; and the box of a row is its geometry's.*)
AllIn(column) == {InColumn(f, column) : f \in Elements(input.features)} \ {NoGeometry}

MetadataAgrees ==
    encoding = "ok" =>
       /\ \A column \in DOMAIN file.geo :
             LET there == AllIn(column)
                 places == UNION {Positions(g) : g \in there}
                 dims == {g.dim : g \in there}
             IN /\ file.geo[column].types = {<<g.type, g.dim>> : g \in there}
                /\ file.geo[column].bbox =
                      IF Cardinality(dims) # 1 THEN NoBox
                      ELSE [dim |-> Max(dims), low |-> Min(places), high |-> Max(places)]
       /\ \A i \in DOMAIN file.rows :
             Held(file.rows[i], Covering) =>
                file.rows[i][Covering] = Bounds(input.features[i].geometry)

(* What -stream has written is GeoParquet only if it is everything: after a *)
(* failure, the footer that Close still writes makes no file that decodes.  *)
StreamedFileIsWhole ==
    input.streaming /\ decoding = "ok" => Len(output) = Len(input.features)

(* The one-pass encoder takes what the two-pass one takes: an encoder fails *)
(* by itself only on a feature that it cannot represent, or, if geometries  *)
(* are to be lists, when they have not one type and dimension.              *)
Representable(f) ==
    /\ f.valid
    /\ f.geometry # NoGeometry => f.geometry.dim \in {2, 3} /\ Positions(f.geometry) # {}
    /\ \A name \in Secondary :
          /\ ~f.null /\ name \in DOMAIN f.properties
          /\ f.properties[name].form \in {"null", "geometry"}
          /\ f.properties[name].form = "geometry" => f.properties[name].geometry.dim \in {2, 3}

UniformTypes ==
    /\ \A f \in Elements(input.features) : f.geometry.type # "GeometryCollection"
    /\ Cardinality({<<f.geometry.type, f.geometry.dim>> : f \in Elements(input.features)}
                   \ {<<"null", 0>>}) = 1

Unbounded(column) == \E g \in AllIn(column) : Positions(g) = {}

RefusesOnly ==
    /\ encoding = "bad feature" => \E f \in Elements(input.features) : ~Representable(f)
    /\ encoding = "not native" => ~UniformTypes
    /\ encoding = "bad metadata" => \E column \in Secondary : Unbounded(column)
    /\ encoding # "bad row"
    /\ encoding = "ok" => /\ \A f \in Elements(input.features) : Representable(f)
                          /\ input.native => UniformTypes

=============================================================================
