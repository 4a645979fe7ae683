--------------------------- MODULE EntiretyFiles ---------------------------
(***************************************************************************)
(* geojson2entirety: named points become records that are spread over six  *)
(* files, one field in each, and unnamed ones records in two more.  A name *)
(* is found in the text file by an offset, which counts the bytes written  *)
(* before it.  Features are read by a recursive descent of its own, which  *)
(* streams those of a collection whose type came first and defers others.  *)
(* Every file has a buffer; a buffer that could not be written once fails  *)
(* every later write.                                                      *)
(*                                                                         *)
(* What is read is a sequence of values: objects, arrays, others, and text *)
(* that is no JSON.  An object has keys, in the order they are written;    *)
(* "other" stands for any key that is ignored, and unsound names the key   *)
(* whose value does not decode.  A name is a sequence of bytes.            *)
(*                                                                         *)
(* A definition whose name has an underscore is a fault: a mistaken form   *)
(* of the definition it stands before, which the properties must detect.   *)
(***************************************************************************)
EXTENDS Integers, FiniteSets, SequencesExt

CONSTANTS
    BufferSize,   \* entiretyOutputBufferSize, in records
    FileInputs    \* [values, limit, mode]

(* What is read is made of sequences.                                       *)
Listed(s) == s \in Seq(ToSet(s))

IsObject(v) == v.kind = "object" => Listed(v.keys) /\ Listed(v.named.text)

IsArray(v) ==
    v.kind = "array" => Listed(v.elements) /\ \A e \in ToSet(v.elements) : IsObject(e)

ASSUME EntiretyAssumption ==
    /\ BufferSize \in Nat \ {0}
    /\ \A in \in FileInputs :
          /\ Listed(in.values) /\ in.limit \in Int /\ in.limit >= -1
          /\ in.mode \in {"all", "points", "tags"}
          /\ \A v \in ToSet(in.values) :
                /\ IsObject(v) /\ IsArray(v)
                /\ v.kind = "object" => IsArray(v.features)

VARIABLES
    input,        \* what is read, -limit, and -points or -tags
    values,       \* the values that remain
    stack,        \* visitEntiretyToken and its callers, the innermost last
    step,         \* "open", "read", "close" or "done"
    count,        \* the features converted
    indexCount,   \* the tags written, without the first
    offset,       \* the bytes of text written
    files,        \* [pending, stored, broken] of each file that is open
    verdict       \* "", then "ok" or why the program failed

fileVars == <<input, values, stack, step, count, indexCount, offset, files, verdict>>

-----------------------------------------------------------------------------
FileNames == <<"tag_points", "map_points", "map_data", "tag_category",
               "pre_offset", "tag_offset", "tag_text", "tag_index">>
Files == ToSet(FileNames)

EmptyFile == [pending |-> <<>>, stored |-> <<>>, broken |-> FALSE]

FilesInit(inputs) ==
    /\ input \in inputs
    /\ values = input.values /\ stack = <<>> /\ step = "open"
    /\ count = 0 /\ indexCount = 0 /\ offset = 0 /\ files = <<>> /\ verdict = ""

PointsOnly == input.mode = "points"
TagsOnly == input.mode = "tags"

-----------------------------------------------------------------------------
(* Buffered writes.                                                         *)

Full(f) == Len(files[f].pending) = BufferSize

Written(file, record) ==
    IF Len(file.pending) = BufferSize
    THEN [file EXCEPT !.stored = @ \o file.pending, !.pending = <<record>>]
    ELSE [file EXCEPT !.pending = Append(@, record)]

(* A sequence of writes, each to a file: all are made, or those before one  *)
(* that finds its buffer full and cannot empty it.  No file is written to   *)
(* twice in one, a point or its data being one record.                      *)
After(fs, writes, n) ==
    [f \in DOMAIN fs |->
        IF \E i \in 1..n : writes[i][1] = f
        THEN Written(fs[f], writes[CHOOSE i \in 1..n : writes[i][1] = f][2])
        ELSE fs[f]]

Write(writes) == files' = After(files, writes, Len(writes))

WriteFails(writes) ==
    \E n \in DOMAIN writes :
       /\ Full(writes[n][1])
       /\ files' = [After(files, writes, n - 1) EXCEPT ![writes[n][1]].broken = TRUE]

NUL == 0
Bytes(name) == Append(name, NUL)

(* writeTag.                                                                *)
Tag(name, longitude, latitude, index) ==
    <<<<"tag_text", Bytes(name)>>, <<"tag_offset", offset>>, <<"pre_offset", offset>>,
      <<"tag_points", <<latitude, longitude>>>>, <<"tag_index", index - 1>>,
      <<"tag_category", 0>>>>

(* writeEntiretyPoint.                                                      *)
MapPoint(longitude, latitude) ==
    <<<<"map_points", <<latitude * 60, -60 * longitude>>>>, <<"map_data", <<0, 0, 0>>>>>>

-----------------------------------------------------------------------------
Stop(why) == step' = "close" /\ verdict' = why

FailText == <<9, 9, 9, 9>>   \* the text FAIL
FailLongitude == -60000
FailLatitude == -6000

(* openEntiretyOutputs, and the tag that convertEntirety writes first.      *)
Open ==
    /\ step = "open"
    /\ \/ \E n \in 0..Len(FileNames) - 1 :
             /\ files' = [f \in {FileNames[i] : i \in 1..n} |-> EmptyFile]
             /\ step' = "done" /\ verdict' = "cannot create" /\ UNCHANGED offset
       \/ /\ step' = "read" /\ UNCHANGED verdict
          /\ LET empty == [f \in Files |-> EmptyFile]
                 tag == Tag(FailText, FailLongitude, FailLatitude, 0)
             IN files' = IF PointsOnly THEN empty ELSE After(empty, tag, Len(tag))
          /\ offset' = IF PointsOnly THEN 0 ELSE Len(Bytes(FailText))
    /\ UNCHANGED <<input, values, stack, count, indexCount>>

-----------------------------------------------------------------------------
(* visitEntiretyToken: frames are objects and arrays in the course of being *)
(* read.                                                                    *)

Top == Last(stack)
Nested == Len(stack) > 1

(* What a token begins, on top of the given frames.                         *)
Begin(v, below) ==
    CASE v.kind = "object" ->
           /\ stack' = Append(below, [object |-> v, keys |-> v.keys, seen |-> {}, type |-> "",
                                      streamed |-> FALSE])
           /\ UNCHANGED <<step, verdict>>
      [] v.kind = "array" /\ below = <<>> ->
           stack' = Append(below, [elements |-> v.elements]) /\ UNCHANGED <<step, verdict>>
      [] OTHER -> Stop("not an object") /\ UNCHANGED stack

(* forEachEntiretyFeature.                                                  *)
ReadValue ==
    /\ step = "read" /\ stack = <<>>
    /\ IF values = <<>>
       THEN Stop(IF input.values = <<>> THEN "empty" ELSE "ok") /\ UNCHANGED <<values, stack>>
       ELSE Begin(Head(values), <<>>) /\ values' = Tail(values)
    /\ UNCHANGED <<input, count, indexCount, offset, files>>

InArray == stack # <<>> /\ "elements" \in DOMAIN Top

(* An element of an array of features, or its closing bracket.              *)
ReadElement ==
    /\ step = "read" /\ InArray
    /\ IF Top.elements = <<>>
       THEN stack' = Front(stack) /\ UNCHANGED <<step, verdict>>
       ELSE Begin(Head(Top.elements),
                  Append(Front(stack), [Top EXCEPT !.elements = Tail(@)]))
    /\ UNCHANGED <<input, values, count, indexCount, offset, files>>

InObject == stack # <<>> /\ "object" \in DOMAIN Top

(* visitEntiretyFeatureArray, from a frame that goes on after it.           *)
EnterFeatures(frame) ==
    IF frame.object.features.kind # "array" THEN Stop("features not an array") /\ UNCHANGED stack
    ELSE /\ stack' = Front(stack) \o <<frame, [elements |-> frame.object.features.elements]>>
         /\ UNCHANGED <<step, verdict>>

(* The value of a key does not decode, or repeats a key                    *)
(* (validateEntiretyJSONMembers).                                           *)
Repeats(features) ==
    features.kind = "array" /\ \E i \in DOMAIN features.elements :
        features.elements[i].kind = "object" /\ ~IsInjective(features.elements[i].keys)

Unsound(o, key) ==
    IF key = "features" THEN o.features.kind = "malformed" \/ Repeats(o.features)
    ELSE o.unsound = key

ReadMember_StreamFirst ==
    /\ step = "read" /\ InObject /\ Top.keys # <<>>
    /\ LET key == Head(Top.keys)
           read == [Top EXCEPT !.keys = Tail(@), !.seen = @ \union {key},
                               !.type = IF key = "type" THEN Top.object.type ELSE @]
       IN CASE key \in Top.seen \/ (key # "features" /\ Unsound(Top.object, key)) ->
                 Stop("bad member") /\ UNCHANGED stack
            [] key = "features" /\ key \notin Top.seen ->
                 IF Nested THEN Stop("nested collection") /\ UNCHANGED stack
                 ELSE EnterFeatures([read EXCEPT !.streamed = TRUE])
            [] OTHER -> stack' = Append(Front(stack), read) /\ UNCHANGED <<step, verdict>>
    /\ UNCHANGED <<input, values, count, indexCount, offset, files>>

(* A member.  The features of what is known to be a collection are read at  *)
(* once; any other value must decode, and without a key that repeats.       *)
ReadMember ==
    /\ step = "read" /\ InObject /\ Top.keys # <<>>
    /\ LET key == Head(Top.keys)
           read == [Top EXCEPT !.keys = Tail(@), !.seen = @ \union {key},
                               !.type = IF key = "type" THEN Top.object.type ELSE @]
           streams == key = "features" /\ Top.type = "FeatureCollection"
       IN CASE key \in Top.seen \/ (~streams /\ Unsound(Top.object, key)) ->
                 Stop("bad member") /\ UNCHANGED stack
            [] key \notin Top.seen /\ streams ->
                 IF Nested THEN Stop("nested collection") /\ UNCHANGED stack
                 ELSE EnterFeatures([read EXCEPT !.streamed = TRUE])
            [] OTHER -> stack' = Append(Front(stack), read) /\ UNCHANGED <<step, verdict>>
    /\ UNCHANGED <<input, values, count, indexCount, offset, files>>

AtEnd == step = "read" /\ InObject /\ Top.keys = <<>>

(* The end of an object that is no feature.                                 *)
EndObject ==
    /\ AtEnd
    /\ CASE Top.type = "Feature" ->
              /\ ~({"geometry", "properties"} \subseteq Top.seen)
              /\ Stop("bad feature") /\ UNCHANGED stack
         [] Top.type = "FeatureCollection" /\ "features" \in Top.seen ->
              IF Nested THEN Stop("nested collection") /\ UNCHANGED stack
              ELSE IF Top.streamed THEN stack' = Front(stack) /\ UNCHANGED <<step, verdict>>
              ELSE EnterFeatures([Top EXCEPT !.streamed = TRUE])
         [] OTHER -> Stop("unsupported") /\ UNCHANGED stack
    /\ UNCHANGED <<input, values, count, indexCount, offset, files>>

-----------------------------------------------------------------------------
(* The callback of convertEntirety.                                         *)

AtLimit == input.limit >= 0 /\ count >= input.limit

Visits == AtEnd /\ Top.type = "Feature" /\ {"geometry", "properties"} \subseteq Top.seen

(* entiretyPoint refuses it.                                                *)
Refused(o) == ~o.point \/ ~o.named.string

(* Reading ends at the feature after the last one that counts.              *)
LimitReached ==
    /\ Visits /\ AtLimit
    /\ Stop("ok")
    /\ UNCHANGED <<input, values, stack, count, indexCount, offset, files>>

RefuseFeature ==
    /\ Visits /\ ~AtLimit /\ Refused(Top.object)
    /\ Stop("bad feature")
    /\ UNCHANGED <<input, values, stack, count, indexCount, offset, files>>

(* What a feature is written as.                                            *)
Unnamed(o) == o.named.text = <<>>
AsTag(o) == ~PointsOnly /\ ~Unnamed(o)
AsPoint(o) == PointsOnly \/ (~TagsOnly /\ Unnamed(o))

Writes(o) ==
    IF AsTag(o) THEN Tag(o.named.text, -60 * o.longitude, o.latitude * 60, indexCount + 1)
    ELSE IF AsPoint(o) THEN MapPoint(o.longitude, o.latitude)
    ELSE <<>>

ConvertFeature_OffsetWithoutNUL ==
    /\ Visits /\ ~AtLimit /\ ~Refused(Top.object)
    /\ LET o == Top.object IN
       /\ count' = count + 1
       /\ indexCount' = indexCount + IF AsTag(o) THEN 1 ELSE 0
       /\ \/ /\ Write(Writes(o)) /\ stack' = Front(stack)
             /\ offset' = offset + IF AsTag(o) THEN Len(o.named.text) ELSE 0
             /\ UNCHANGED <<step, verdict>>
          \/ WriteFails(Writes(o)) /\ Stop("write failed") /\ UNCHANGED <<offset, stack>>
    /\ UNCHANGED <<input, values>>

ConvertFeature ==
    /\ Visits /\ ~AtLimit /\ ~Refused(Top.object)
    /\ LET o == Top.object IN
       /\ count' = count + 1
       /\ indexCount' = indexCount + IF AsTag(o) THEN 1 ELSE 0
       /\ \/ /\ Write(Writes(o)) /\ stack' = Front(stack)
             /\ offset' = offset + IF AsTag(o) THEN Len(Bytes(o.named.text)) ELSE 0
             /\ UNCHANGED <<step, verdict>>
          \/ WriteFails(Writes(o)) /\ Stop("write failed") /\ UNCHANGED <<offset, stack>>
    /\ UNCHANGED <<input, values>>

-----------------------------------------------------------------------------
Flushed(file) == [file EXCEPT !.stored = @ \o file.pending, !.pending = <<>>]

Close_AfterErrorOnly ==
    /\ step = "close" /\ step' = "done"
    /\ \E failing \in {{}} \union {{f} : f \in Files} \union {Files} :
          /\ files' = [f \in Files |-> IF files[f].broken \/ f \in failing THEN files[f]
                                       ELSE Flushed(files[f])]
          /\ UNCHANGED verdict
    /\ UNCHANGED <<input, values, stack, count, indexCount, offset>>

(* closeEntiretyOutputs: every file is flushed and closed, whatever has     *)
(* failed, and the program succeeds if all of it did.                       *)
Close ==
    /\ step = "close" /\ step' = "done"
    /\ \E failing \in {{}} \union {{f} : f \in Files} \union {Files} :
          /\ files' = [f \in Files |-> IF files[f].broken \/ f \in failing THEN files[f]
                                       ELSE Flushed(files[f])]
          /\ verdict' = IF verdict = "ok" /\ failing # {} THEN "write failed" ELSE verdict
    /\ UNCHANGED <<input, values, stack, count, indexCount, offset>>

FilesNext ==
    \/ Open \/ ReadValue \/ ReadElement \/ ReadMember \/ EndObject
    \/ LimitReached \/ RefuseFeature \/ ConvertFeature \/ Close

-----------------------------------------------------------------------------
(* What is to be accepted, said of the whole input.                         *)

Has(o, key) == key \in ToSet(o.keys)

SoundFeature(o) ==
    /\ o.kind = "object" /\ o.type = "Feature" /\ Has(o, "type")
    /\ Has(o, "geometry") /\ Has(o, "properties")
    /\ IsInjective(o.keys) /\ \A key \in ToSet(o.keys) : ~Unsound(o, key)
    /\ o.point /\ o.named.string

SoundFeatures(v) == v.kind = "array" /\ \A i \in DOMAIN v.elements : SoundFeature(v.elements[i])

SoundValue(v) ==
    \/ SoundFeatures(v) \/ SoundFeature(v)
    \/ /\ v.kind = "object" /\ v.type = "FeatureCollection" /\ Has(v, "type")
       /\ IsInjective(v.keys) /\ Has(v, "features") /\ SoundFeatures(v.features)
       /\ \A key \in ToSet(v.keys) : ~Unsound(v, key)

Sound == input.values # <<>> /\ \A i \in DOMAIN input.values : SoundValue(input.values[i])

FeaturesOf(v) ==
    IF v.kind = "array" THEN v.elements
    ELSE IF v.type = "Feature" THEN <<v>> ELSE v.features.elements

AllFeatures == FlattenSeq([i \in DOMAIN input.values |-> FeaturesOf(input.values[i])])

Limited(n) == IF input.limit >= 0 THEN Min({input.limit, n}) ELSE n

(* An input that is sound is converted, up to the limit; and without one,   *)
(* or below it, nothing else is, whatever the order of the members of its   *)
(* objects (visitEntiretyToken).  Only what follows the last feature that   *)
(* counts, and the one after it, may be anything.                           *)
ReadsExactly ==
    /\ input.limit >= 0 => count <= input.limit
    /\ step = "done" /\ Sound =>
          /\ verdict \in {"ok", "write failed", "cannot create"}
          /\ verdict = "ok" => count = Limited(Len(AllFeatures))
    /\ step = "done" /\ verdict = "ok" => Sound \/ count = input.limit

-----------------------------------------------------------------------------
Holds(f) == files[f].stored \o files[f].pending

TagFiles == {"tag_points", "tag_category", "pre_offset", "tag_offset", "tag_text", "tag_index"}

(* Between writes, the six files have a record of each tag, at the same     *)
(* place in all of them; the offset of a record is that of its text, which  *)
(* ends with a NUL; the first record has index -1 and is no feature's       *)
(* (writeTag and convertEntirety).                                          *)
TagFilesAgree ==
    step = "read" =>
      /\ \A f \in TagFiles : Len(Holds(f)) = Len(Holds("tag_text"))
      /\ Len(Holds("map_points")) = Len(Holds("map_data"))
      /\ LET text == FlattenSeq(Holds("tag_text")) IN
         /\ offset = Len(text)
         /\ \A i \in DOMAIN Holds("tag_text") :
               LET at == Holds("tag_offset")[i]
                   name == Holds("tag_text")[i]
               IN /\ SubSeq(text, at + 1, at + Len(name)) = name
                  /\ Holds("pre_offset")[i] = at /\ Holds("tag_index")[i] = i - 2

(* The files of a program that succeeded: the records of the features, of   *)
(* those that are tags and those that are points under the mode chosen, up  *)
(* to the limit, and nothing of them left in a buffer.                      *)
Counted == SubSeq(AllFeatures, 1, count)

Those(P(_), os) == FlattenSeq([i \in DOMAIN os |-> IF P(os[i]) THEN <<os[i]>> ELSE <<>>])

FilesAreTheFeatures ==
    step = "done" /\ verdict = "ok" /\ Sound =>
      LET tags == Those(AsTag, Counted)
          points == Those(AsPoint, Counted)
          first == IF PointsOnly THEN <<>> ELSE <<FailText>>
      IN /\ files["tag_text"].stored = [i \in DOMAIN first |-> Bytes(first[i])]
                                       \o [i \in DOMAIN tags |-> Bytes(tags[i].named.text)]
         /\ files["map_points"].stored =
               [i \in DOMAIN points |-> <<points[i].latitude * 60, -60 * points[i].longitude>>]
         /\ \A f \in Files : files[f].pending = <<>>
         /\ \A f \in TagFiles : Len(files[f].stored) = Len(tags) + Len(first)
         /\ \A i \in DOMAIN tags : files["tag_points"].stored[i + 1]
                                   = <<tags[i].latitude * 60, -60 * tags[i].longitude>>

=============================================================================
