-------------------------- MODULE CollectionReader --------------------------
(***************************************************************************)
(* geodata.ReadFeatures: GeoJSON objects, arrays of them, and sequences of *)
(* records, read as they come.  The members of an object may come in any   *)
(* order: the features of a collection are handed on at once if its type   *)
(* was read before them and kept until its end otherwise, and its bbox may *)
(* follow the features that it has to enclose.  Whether longitudes leave   *)
(* the gap of a bbox that wraps round the globe cannot be told from their  *)
(* minimum and maximum, so that collectionBounds retains all of them, in   *)
(* memory and then in a temporary file, while no bbox has been read.       *)
(*                                                                         *)
(* An object is a record: keys, the names of its members in the order they *)
(* are written, the value of each, and the feature that it is if it is     *)
(* one.  A feature has positions; latitude stands for every axis but the   *)
(* longitude.                                                              *)
(*                                                                         *)
(* A definition whose name has an underscore is a fault: a mistaken form   *)
(* of the definition it stands before, which the properties must detect.   *)
(***************************************************************************)
EXTENDS Integers, FiniteSets, SequencesExt

CONSTANTS
    BufferSize,   \* collectionLongitudeBufferSize
    Inputs        \* what there is to read: [mode, framed, records], with a tool

(* What a text can hold: arrays, positions of two numbers or more, and      *)
(* objects; a null geometry has no positions.                               *)
Listed(s) == s \in Seq(ToSet(s))

IsPosition(p) == p.dim \in Nat \ {0, 1} /\ p.lon \in Int /\ p.lat \in Int

IsBBox(b) == b.dim \in Nat /\ {b.west, b.east, b.south, b.north} \subseteq Int

IsFeature(f) ==
    /\ Listed(f.positions) /\ \A i \in DOMAIN f.positions : IsPosition(f.positions[i])
    /\ IsBBox(f.bbox) /\ (f.null => f.positions = <<>>)

IsObject(o) ==
    o.kind = "object" =>
      /\ Listed(o.keys) /\ IsBBox(o.bbox) /\ Listed(o.features.items) /\ IsFeature(o.feature)
      /\ \A i \in DOMAIN o.features.items : IsFeature(o.features.items[i])

IsValue(v) ==
    /\ IsObject(v)
    /\ v.kind = "array" => /\ Listed(v.elements)
                           /\ \A i \in DOMAIN v.elements : IsObject(v.elements[i])

(* Without record separators all that is read is one record.                *)
IsInput(in) ==
    /\ Listed(in.records) /\ in.records # <<>> /\ (~in.framed => Len(in.records) = 1)
    /\ in.mode \in {"auto", "seq"}
    /\ \A i \in DOMAIN in.records :
          /\ Listed(in.records[i].values)
          /\ \A k \in DOMAIN in.records[i].values : IsValue(in.records[i].values[k])

ASSUME ReaderAssumption ==
    /\ BufferSize \in Nat \ {0}
    /\ \A in \in Inputs : IsInput(in)

VARIABLES
    input,        \* what is read
    records,      \* the records that remain, the current one first
    values,       \* the values that remain in the current record
    elements,     \* the elements that remain in the current array
    count,        \* the values begun in the current record
    pc,           \* where the reader is
    object,       \* the object in hand: [value, allowed, keys, seen, streamed]
    features,     \* its features that remain, the current one first
    positions,    \* the positions that remain in the current feature
    geometry,     \* the GeometrySummary of the current feature
    bounds,       \* collectionBounds: [bbox, summary, longitudes]
    disk,         \* its temporary file: [there, data, offset]
    visited,      \* the features the callback has accepted
    verdict       \* "", then "ok" or why reading failed

readerVars == <<input, records, values, elements, count>>
objectVars == <<object, features, positions, geometry>>
vars == <<readerVars, pc, objectVars, bounds, disk, visited, verdict>>

-----------------------------------------------------------------------------
(* Bounding boxes and summaries.                                            *)

NoBox == [dim |-> 0, west |-> 0, east |-> 0, south |-> 0, north |-> 0]

(* validateBBox; the longitudes may be in either order.                     *)
ValidBox(b) == b.dim = 0 \/ b.south <= b.north

Wraps(b) == b.dim # 0 /\ b.west > b.east

InGap(b, longitude) == Wraps(b) /\ longitude < b.west /\ longitude > b.east

(* GeometrySummary: no position yet, one more, and two of them merged.      *)
Nothing == [dim |-> 0, mixed |-> FALSE,
            west |-> 0, east |-> 0, south |-> 0, north |-> 0]

Lower(a, b) == IF a < b THEN a ELSE b
Upper(a, b) == IF a < b THEN b ELSE a

Merge(s, t) ==
    CASE s.dim = 0 -> [t EXCEPT !.mixed = t.mixed \/ s.mixed]
      [] s.dim # 0 /\ t.dim = 0 -> s
      [] s.dim # 0 /\ t.dim # 0 /\ s.dim # t.dim -> [s EXCEPT !.mixed = TRUE]
      [] OTHER -> [dim |-> s.dim, mixed |-> s.mixed \/ t.mixed,
                   west |-> Lower(s.west, t.west), east |-> Upper(s.east, t.east),
                   south |-> Lower(s.south, t.south),
                   north |-> Upper(s.north, t.north)]

Alone(p) == [dim |-> p.dim, mixed |-> FALSE, west |-> p.lon, east |-> p.lon,
             south |-> p.lat, north |-> p.lat]

(* validateSummaryBBox.                                                     *)
Encloses(b, s) ==
    \/ b.dim = 0
    \/ /\ b.dim = s.dim /\ ~s.mixed
       /\ Wraps(b) \/ (b.west <= s.west /\ s.east <= b.east)
       /\ b.south <= s.south /\ s.north <= b.north

-----------------------------------------------------------------------------
NoObject == [value |-> [keys |-> <<>>], allowed |-> FALSE, keys |-> <<>>,
             seen |-> {}, streamed |-> FALSE]
NoBounds == [bbox |-> NoBox, summary |-> Nothing, longitudes |-> <<>>]
NoFile == [there |-> FALSE, data |-> <<>>, offset |-> 0]

Init ==
    /\ input \in Inputs
    /\ records = input.records /\ values = <<>> /\ elements = <<>> /\ count = 0
    /\ pc = "start" /\ object = NoObject
    /\ features = <<>> /\ positions = <<>> /\ geometry = Nothing
    /\ bounds = NoBounds /\ disk = NoFile
    /\ visited = <<>> /\ verdict = ""

Return(v) == pc' = "done" /\ verdict' = v

(* ReadFeatures: the mode, and the first byte of what is read.              *)
Start ==
    /\ pc = "start"
    /\ \/ /\ input.mode = "seq" /\ ~input.framed
          /\ Return("no record separator") /\ UNCHANGED values
       \/ /\ input.framed
          /\ pc' = "record" /\ UNCHANGED <<values, verdict>>
       \/ /\ input.mode = "auto" /\ ~input.framed
          /\ pc' = "value" /\ values' = Head(records).values
          /\ UNCHANGED verdict
    /\ UNCHANGED <<input, records, elements, count, objectVars, bounds, disk, visited>>

(* readSequence: the record that comes next.                                *)
ReadRecord ==
    /\ pc = "record"
    /\ IF Head(records).terminated /\ Head(records).values # <<>>
       THEN pc' = "value" /\ values' = Head(records).values /\ count' = 0
            /\ UNCHANGED verdict
       ELSE Return("bad record") /\ UNCHANGED <<values, count>>
    /\ UNCHANGED <<input, records, elements, objectVars, bounds, disk, visited>>

(* ... and after its one value the next, if there is one.                   *)
EndRecord ==
    /\ pc = "value" /\ values = <<>>
    /\ CASE count = 0 -> Return("empty") /\ UNCHANGED records
         [] count > 0 /\ input.framed /\ Len(records) > 1 ->
              pc' = "record" /\ records' = Tail(records) /\ UNCHANGED verdict
         [] OTHER -> Return("ok") /\ UNCHANGED records
    /\ UNCHANGED <<input, values, elements, count, objectVars, bounds, disk, visited>>

Begin(value, allowed) ==
    /\ pc' = "member"
    /\ object' = [value |-> value, allowed |-> allowed, keys |-> value.keys,
                  seen |-> {}, streamed |-> FALSE]
    /\ bounds' = NoBounds /\ disk' = NoFile

(* readJSONValuesLimited and visitJSONToken: an object, an array or neither. *)
ReadValue ==
    /\ pc = "value" /\ values # <<>>
    /\ \/ /\ input.framed /\ count >= 1
          /\ Return("second value") /\ UNCHANGED <<values, elements, count, object, bounds, disk>>
       \/ /\ ~(input.framed /\ count >= 1)
          /\ values' = Tail(values) /\ count' = count + 1
          /\ CASE Head(values).kind = "object" ->
                    Begin(Head(values), TRUE) /\ UNCHANGED <<elements, verdict>>
               [] Head(values).kind = "array" ->
                    /\ pc' = "element" /\ elements' = Head(values).elements
                    /\ UNCHANGED <<verdict, object, bounds, disk>>
               [] OTHER -> Return("not an object") /\ UNCHANGED <<elements, object, bounds, disk>>
    /\ UNCHANGED <<input, records, features, positions, geometry, visited>>

ReadElement ==
    /\ pc = "element"
    /\ \/ /\ elements = <<>>
          /\ pc' = "value" /\ UNCHANGED <<elements, verdict, object, bounds, disk>>
       \/ /\ elements # <<>> /\ elements' = Tail(elements)
          /\ IF Head(elements).kind = "object"
             THEN Begin(Head(elements), FALSE) /\ UNCHANGED verdict
             ELSE Return("not an object") /\ UNCHANGED <<object, bounds, disk>>
    /\ UNCHANGED <<input, records, values, count, features, positions, geometry, visited>>

-----------------------------------------------------------------------------
(* visitJSONObject.  What it returns becomes final when its deferred        *)
(* function has removed the temporary file.                                 *)

Leave(v) == pc' = "close" /\ verdict' = v

IsCollection == object.value.type = "FeatureCollection"

(* members["bbox"]: the bbox if it has been read.                           *)
BoxRead == IF "bbox" \in object.seen THEN object.value.bbox ELSE NoBox

(* bounds.setBBox, then the features, which must be an array.               *)
EnterFeatures_NoBox ==
    IF ~ValidBox(BoxRead) \/ ~object.value.features.list
    THEN Leave("bad collection") /\ UNCHANGED <<bounds, features>>
    ELSE /\ pc' = "feature" /\ features' = object.value.features.items
         /\ UNCHANGED <<verdict, bounds>>

EnterFeatures ==
    IF ~ValidBox(BoxRead) \/ ~object.value.features.list
    THEN Leave("bad collection") /\ UNCHANGED <<bounds, features>>
    ELSE /\ pc' = "feature" /\ features' = object.value.features.items
         /\ bounds' = [bounds EXCEPT !.bbox = BoxRead] /\ UNCHANGED verdict

(* validateUniqueJSONMembers, of a value that is kept.                      *)
Repeats(key) ==
    /\ key = "features" /\ object.value.features.list
    /\ \E i \in DOMAIN object.value.features.items :
          object.value.features.items[i].broken = "duplicate"

Streams(key) == key = "features" /\ "type" \in object.seen /\ IsCollection

ReadMember_NestedAllowed ==
    /\ pc = "member" /\ object.keys # <<>>
    /\ LET key == Head(object.keys) IN
       /\ object' = [object EXCEPT !.keys = Tail(@), !.seen = @ \union {key},
                                   !.streamed = @ \/ Streams(key)]
       /\ CASE key \in object.seen -> Leave("duplicate member") /\ UNCHANGED <<bounds, features>>
            [] key \notin object.seen /\ Streams(key) -> EnterFeatures
            [] OTHER -> /\ IF Repeats(key) THEN Leave("duplicate member")
                           ELSE UNCHANGED <<pc, verdict>>
                        /\ UNCHANGED <<bounds, features>>
    /\ UNCHANGED <<readerVars, positions, geometry, disk, visited>>

(* One member.  The features of what is known to be a collection are        *)
(* streamed; any other value is kept as it is.                              *)
ReadMember ==
    /\ pc = "member" /\ object.keys # <<>>
    /\ LET key == Head(object.keys) IN
       /\ object' = [object EXCEPT !.keys = Tail(@), !.seen = @ \union {key},
                                   !.streamed = @ \/ Streams(key)]
       /\ CASE key \in object.seen -> Leave("duplicate member") /\ UNCHANGED <<bounds, features>>
            [] key \notin object.seen /\ Streams(key) ->
                 IF object.allowed THEN EnterFeatures
                 ELSE Leave("nested collection") /\ UNCHANGED <<bounds, features>>
            [] OTHER -> /\ IF Repeats(key) THEN Leave("duplicate member")
                           ELSE UNCHANGED <<pc, verdict>>
                        /\ UNCHANGED <<bounds, features>>
    /\ UNCHANGED <<readerVars, positions, geometry, disk, visited>>

(* A lone Feature, which may have any member called features.               *)
VisitObject ==
    \/ visited' = Append(visited, object.value.feature) /\ Leave("ok")
    \/ Leave("refused") /\ UNCHANGED visited

(* The closing brace: now the type is known.                                *)
EndObject ==
    /\ pc = "member" /\ object.keys = <<>>
    /\ CASE "type" \notin object.seen \/ (~IsCollection /\ object.value.type # "Feature") ->
              Leave("unsupported") /\ UNCHANGED <<bounds, features, visited>>
         [] "type" \in object.seen /\ IsCollection /\ object.streamed ->
              pc' = "finish" /\ UNCHANGED <<verdict, bounds, features, visited>>
         [] "type" \in object.seen /\ IsCollection /\ ~object.streamed ->
              /\ IF object.allowed /\ "features" \in object.seen THEN EnterFeatures
                 ELSE Leave("bad collection") /\ UNCHANGED <<bounds, features>>
              /\ UNCHANGED visited
         [] OTHER -> VisitObject /\ UNCHANGED <<bounds, features>>
    /\ UNCHANGED <<readerVars, object, positions, geometry, disk>>

-----------------------------------------------------------------------------
(* visitFeatureArray and bounds.add.                                        *)

(* What ValidateFeature refuses before it looks at a position.              *)
Malformed(f) == f.type # "Feature" \/ f.broken \in {"members", "duplicate"} \/ ~ValidBox(f.bbox)

EnterFeature ==
    /\ pc = "feature" /\ features # <<>>
    /\ IF Malformed(Head(features)) THEN Leave("bad feature") /\ UNCHANGED positions
       ELSE pc' = "position" /\ positions' = Head(features).positions
            /\ UNCHANGED verdict
    /\ geometry' = Nothing
    /\ UNCHANGED <<readerVars, object, features, bounds, disk, visited>>

Keep(longitude) == [bounds EXCEPT !.longitudes = Append(@, longitude)]

(* The buffer is full: it goes to the file, which is created at need.       *)
Spill(kept) ==
    \/ /\ ~disk.there
       /\ Leave("no temporary file") /\ bounds' = kept /\ UNCHANGED disk
    \/ /\ Leave("write failed") /\ bounds' = kept
       /\ disk' = [disk EXCEPT !.there = TRUE]
    \/ /\ disk' = [there |-> TRUE, data |-> disk.data \o kept.longitudes,
                   offset |-> Len(disk.data \o kept.longitudes)]
       /\ bounds' = [kept EXCEPT !.longitudes = <<>>]
       /\ UNCHANGED <<pc, verdict>>

(* addLongitude.                                                            *)
AddLongitude(longitude) ==
    IF bounds.bbox.dim # 0
    THEN /\ IF InGap(bounds.bbox, longitude) THEN Leave("outside bbox")
            ELSE UNCHANGED <<pc, verdict>>
         /\ UNCHANGED <<bounds, disk>>
    ELSE IF Len(bounds.longitudes) + 1 < BufferSize
         THEN bounds' = Keep(longitude) /\ UNCHANGED <<pc, verdict, disk>>
         ELSE Spill(Keep(longitude))

(* decodePosition and addPosition.                                          *)
ReadPosition ==
    /\ pc = "position" /\ positions # <<>>
    /\ LET p == Head(positions) IN
       /\ IF InGap(Head(features).bbox, p.lon)
          THEN Leave("outside bbox") /\ UNCHANGED <<bounds, disk>>
          ELSE AddLongitude(p.lon)
       /\ geometry' = Merge(geometry, Alone(p))
    /\ positions' = Tail(positions)
    /\ UNCHANGED <<readerVars, object, features, visited>>

(* What ValidateFeature refuses after it has seen the positions.            *)
Unsound(f) ==
    /\ ~f.null
    /\ f.broken = "geometry" \/ geometry.mixed \/ ~Encloses(f.bbox, geometry)

(* The feature is judged, added to the bounds and handed to the callback,   *)
(* which may refuse it.                                                     *)
EndFeature ==
    /\ pc = "position" /\ positions = <<>>
    /\ LET f == Head(features) IN
       IF Unsound(f)
       THEN Leave("bad feature") /\ UNCHANGED <<features, bounds, visited>>
       ELSE /\ bounds' = [bounds EXCEPT !.summary = Merge(@, geometry)]
            /\ \/ /\ visited' = Append(visited, f)
                  /\ features' = Tail(features) /\ pc' = "feature"
                  /\ UNCHANGED verdict
               \/ Leave("refused") /\ UNCHANGED <<visited, features>>
    /\ UNCHANGED <<readerVars, object, positions, geometry, disk>>

(* The closing bracket: back to the members, or on to the bbox if they have *)
(* all been read.                                                           *)
EndFeatures ==
    /\ pc = "feature" /\ features = <<>>
    /\ pc' = IF object.streamed THEN "member" ELSE "finish"
    /\ UNCHANGED <<readerVars, objectVars, bounds, disk, visited, verdict>>

-----------------------------------------------------------------------------
(* bounds.finish and bounds.close.                                          *)

Retained == {bounds.longitudes[i] : i \in DOMAIN bounds.longitudes}

(* The bbox against the summary and, if it wraps, against every longitude   *)
(* in the buffer and then in the file.                                      *)
Finish ==
    /\ pc = "finish"
    /\ bounds' = IF ValidBox(BoxRead) THEN [bounds EXCEPT !.bbox = BoxRead] ELSE bounds
    /\ IF ~ValidBox(BoxRead) THEN Leave("bad bbox")
       ELSE IF bounds.summary.dim # 0
               /\ \/ ~Encloses(BoxRead, bounds.summary)
                  \/ \E longitude \in Retained : InGap(BoxRead, longitude)
       THEN Leave("outside bbox")
       ELSE IF bounds.summary.dim # 0 /\ Wraps(BoxRead) /\ disk.there
       THEN pc' = "rewind" /\ UNCHANGED verdict ELSE Leave("ok")
    /\ UNCHANGED <<readerVars, objectVars, disk, visited>>

Rewind_NoSeek ==
    /\ pc = "rewind"
    /\ pc' = "reread" /\ UNCHANGED <<verdict, disk>>
    /\ UNCHANGED <<readerVars, objectVars, bounds, visited>>

Rewind ==
    /\ pc = "rewind"
    /\ \/ Leave("seek failed") /\ UNCHANGED disk
       \/ pc' = "reread" /\ disk' = [disk EXCEPT !.offset = 0] /\ UNCHANGED verdict
    /\ UNCHANGED <<readerVars, objectVars, bounds, visited>>

(* One longitude of the file.                                               *)
Reread ==
    /\ pc = "reread"
    /\ \/ Leave("read failed") /\ UNCHANGED disk
       \/ disk.offset = Len(disk.data) /\ Leave("ok") /\ UNCHANGED disk
       \/ /\ disk.offset < Len(disk.data)
          /\ disk' = [disk EXCEPT !.offset = @ + 1]
          /\ IF InGap(bounds.bbox, disk.data[disk.offset + 1])
             THEN Leave("outside bbox") ELSE UNCHANGED <<pc, verdict>>
    /\ UNCHANGED <<readerVars, objectVars, bounds, visited>>

CloseBounds_OnSuccess ==
    /\ pc = "close"
    /\ disk' = IF verdict = "ok" THEN NoFile ELSE disk
    /\ IF verdict = "ok"
       THEN pc' = (IF object.allowed THEN "value" ELSE "element") /\ verdict' = ""
       ELSE Return(verdict)
    /\ UNCHANGED <<readerVars, objectVars, bounds, visited>>

(* The deferred close, on every path out of the object.  A file that cannot *)
(* be removed is an error too.                                              *)
CloseBounds ==
    /\ pc = "close"
    /\ \/ disk.there /\ Return("clean-up failed") /\ UNCHANGED disk
       \/ /\ disk' = NoFile
          /\ IF verdict = "ok"
             THEN pc' = (IF object.allowed THEN "value" ELSE "element") /\ verdict' = ""
             ELSE Return(verdict)
    /\ UNCHANGED <<readerVars, objectVars, bounds, visited>>

Returned == pc = "done" /\ UNCHANGED vars

Step ==
    \/ Start \/ ReadRecord \/ EndRecord \/ ReadValue \/ ReadElement
    \/ ReadMember \/ EndObject
    \/ EnterFeature \/ ReadPosition \/ EndFeature \/ EndFeatures
    \/ Finish \/ Rewind \/ Reread \/ CloseBounds

Next == Step \/ Returned

Spec == Init /\ [][Next]_vars

-----------------------------------------------------------------------------
(* What the reader has to accept, said of the whole input at once.          *)

Named(o, key) == \E i \in DOMAIN o.keys : o.keys[i] = key

Unrepeated(o) == \A i, j \in DOMAIN o.keys : o.keys[i] = o.keys[j] => i = j

Inside(b, p) ==
    /\ p.dim = b.dim /\ b.south <= p.lat /\ p.lat <= b.north
    /\ IF b.west <= b.east THEN b.west <= p.lon /\ p.lon <= b.east
       ELSE b.west <= p.lon \/ p.lon <= b.east

SoundFeature(f) ==
    /\ f.type = "Feature" /\ f.broken \notin {"members", "duplicate"} /\ ValidBox(f.bbox)
    /\ \/ f.null
       \/ /\ f.broken # "geometry"
          /\ \A i, j \in DOMAIN f.positions : f.positions[i].dim = f.positions[j].dim
          /\ f.bbox.dim # 0 => /\ f.positions # <<>>
                               /\ \A i \in DOMAIN f.positions : Inside(f.bbox, f.positions[i])

SoundCollection(o) ==
    /\ o.features.list
    /\ \A i \in DOMAIN o.features.items : SoundFeature(o.features.items[i])
    /\ Named(o, "bbox") =>
          /\ ValidBox(o.bbox)
          /\ o.bbox.dim # 0 =>
                \A i \in DOMAIN o.features.items :
                   \A k \in DOMAIN o.features.items[i].positions :
                      Inside(o.bbox, o.features.items[i].positions[k])

SoundObject(o, allowed) ==
    /\ o.kind = "object" /\ Unrepeated(o) /\ Named(o, "type")
    /\ \/ o.type = "FeatureCollection" /\ allowed /\ Named(o, "features") /\ SoundCollection(o)
       \/ /\ o.type = "Feature"
          /\ Named(o, "features") /\ o.features.list =>
                \A i \in DOMAIN o.features.items : o.features.items[i].broken # "duplicate"

SoundValue(v) ==
    \/ v.kind = "object" /\ SoundObject(v, TRUE)
    \/ v.kind = "array" /\ \A i \in DOMAIN v.elements : SoundObject(v.elements[i], FALSE)

SoundInput ==
    /\ input.mode = "seq" => input.framed
    /\ \A i \in DOMAIN input.records :
          LET r == input.records[i] IN
          /\ input.framed => r.terminated /\ Len(r.values) = 1
          /\ r.values # <<>> /\ \A k \in DOMAIN r.values : SoundValue(r.values[k])

(* What the callback is to be given: the features of each object up to one  *)
(* that is not sound.                                                       *)
Deliverable(o, allowed) ==
    IF o.kind # "object" THEN <<>>
    ELSE IF o.type # "FeatureCollection" THEN <<o.feature>>
    ELSE IF ~allowed \/ ~o.features.list THEN <<>>
    ELSE LET items == o.features.items
             sound == {n \in 0..Len(items) : \A i \in 1..n : SoundFeature(items[i])}
         IN SubSeq(items, 1, Max(sound))

DeliverableValue(v) ==
    IF v.kind = "array"
    THEN FlattenSeq([i \in DOMAIN v.elements |-> Deliverable(v.elements[i], FALSE)])
    ELSE Deliverable(v, TRUE)

DeliverableInput ==
    FlattenSeq([i \in DOMAIN input.records |->
       FlattenSeq([k \in DOMAIN input.records[i].values |->
                     DeliverableValue(input.records[i].values[k])])])

-----------------------------------------------------------------------------
Failures == {"no temporary file", "write failed", "seek failed", "read failed",
             "clean-up failed", "refused"}

Longitudes(ps) == [i \in DOMAIN ps |-> ps[i].lon]

(* Whatever the order of the members, and however many longitudes had to be *)
(* kept, reading succeeds exactly on what is sound as a whole, unless the   *)
(* callback, the disk or the clean-up fails (visitJSONObject, finish).      *)
AcceptsExactly ==
    pc = "done" =>
      /\ verdict = "ok" => SoundInput
      /\ verdict \notin Failures \union {"ok"} => ~SoundInput

(* The callback is given the features in order, none twice, none of a       *)
(* nested collection, none at or after one that is not sound; and on        *)
(* success all of them (visitFeatureArray, bounds.add before visit).        *)
VisitedInOrder ==
    /\ IsPrefix(visited, DeliverableInput)
    /\ pc = "done" /\ verdict = "ok" => visited = DeliverableInput

(* The longitudes that have gone by in the collection in hand.              *)
Passed ==
    LET items == object.value.features.items
        whole == Len(items) - Len(features)
        parts == [i \in 1..whole |-> Longitudes(items[i].positions)]
        part == IF pc = "position"
                THEN LET ps == items[whole + 1].positions
                     IN Longitudes(SubSeq(ps, 1, Len(ps) - Len(positions)))
                ELSE <<>>
    IN FlattenSeq(parts) \o part

(* While no bbox is known, the file and the buffer hold every longitude     *)
(* that has gone by, once and in order, the buffer fewer than it has room   *)
(* for; once one is known nothing is kept (addLongitude).                   *)
RetainedLongitudes ==
    /\ pc \in {"feature", "position"} =>
         /\ disk.data \o bounds.longitudes = IF BoxRead.dim = 0 THEN Passed ELSE <<>>
         /\ Len(bounds.longitudes) < BufferSize
    /\ pc \in {"rewind", "reread"} => disk.data \o bounds.longitudes = Passed

(* No temporary file outlives the object it was made for, unless it cannot  *)
(* be removed (bounds.close, deferred).                                     *)
TemporaryFileGone ==
    pc \in {"record", "value", "element", "done"} =>
      ~disk.there \/ verdict = "clean-up failed"

=============================================================================
