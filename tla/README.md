# Verification of geotools

TLA+ models of the programs of this repository, checked by TLC on small
instances, and theorems about them, checked by TLAPS for every value of the
constants. Paths are relative to the root of the repository.

## 1. The system

Geotools is a set of command-line converters. Most are one loop over an input;
what is hard is in a few of them.

| Component | State it keeps | Operations | What makes it correct |
| --- | --- | --- | --- |
| `wikipedia2geojson`, `wikipedia2doc2vec` page pipeline | four bounded channels, the pages each goroutine holds, the writer's pending map, two first errors | read, parse, deliver, write in order, save a failed page, close the channels in turn | output in source order, nothing lost, `-limit` exact, always shuts down, success only if complete |
| `pbf2geojson` conversion | seven masks of ids, kept relations, position in a file decoded several times | index, members pass until nothing changes, print, close | the masks hold what printing looks up, each selected element once, in order |
| `pbf2geojson` feature cache | a map, or LevelDB behind a write batch | put, flush, look up, close | a lookup finds what was put |
| `osm2geojson` conversion | uses of each node, nodes and ways held, relations | index pass, convert pass, release; or one pass | what is dropped is not needed again; both ways agree |
| ring stitching (both OSM programs) | ways left, the ring that grows, rings closed | take, join at either end, close | no stretch lost; greedy choice is enough |
| polygon assembly (both OSM programs) | rings, the polygons they make | orient, place a hole, encode | a hole is cut from the innermost ring it lies in; rings wound as GeoJSON has them |
| `geodata` reader | members of the object read so far, longitudes kept for a trailing bbox | read value, stream or defer features, check the bbox | the order of members does not matter; the file of longitudes goes away |
| `geodata` writer | count of features, a buffer | start, write, close | the text has the form asked for, whatever stops the writing |
| `geojson2mbtiles` | staging tables in one transaction | stage tiles by descending the quadtree, encode, drop, commit | the tiles staged are the tiles that have features; limit exact |
| `geojson2entirety` | eight buffered files, a packed tree index | read, encode, close; build the index, iterate | offsets and records agree; a walk meets every leaf |
| `geofilter`, `geojsoncheck`, `geojsonseq` | a count, a report | one callback of the reader | what is written is what was asked for, the limit and the report are exact |
| `geoparquet` | kinds and bounds of columns, the file | collect or stream, describe, write rows, decode | what is read back is what was written; a partial file is not taken for a whole one |
| `flatgeobuf`, `jsonfg`, `mvt` | schemas, columns | encode, decode | conversions of data |
| `wikidump` | decoder, index of streams | next page | every page once |

How they interact: the Wikipedia programs pass pages between goroutines through
channels. `convertPBF` calls the decoder, the masks, the cache and the writer in
turn, on one goroutine. `geodata.ReadFeatures` calls back into the program that
uses it, once a feature, and a callback's error ends the reading; the callback
writes to a `FeatureWriter`. An area relation's ways go through both stitchings
into polygons.

The behaviours that are hard: interleavings of the page handlers, the order of
shutdown, failures of one goroutine while others go on; fixed points over a file
that is read again and again; a batch that hides what was put; counts of uses
that decide when something may be dropped; two implementations of one
conversion; inputs whose members come in any order; several files that must
agree; an output that fails half-way and is closed nevertheless. `PROJECT.json` lists each at its line under `hazards`.

## 2. Modules

| Module | Models |
| --- | --- |
| `WikiPipeline` | the goroutines and channels of both Wikipedia programs |
| `SequentialConverter` | what they promise, with no goroutine and with the limit; `WikiPipeline` implements it |
| `WikiPipelineProofs` | theorems about `WikiPipeline` |
| `PbfConverter` | `convertPBF`, its passes, masks, caches and writer |
| `PbfConverterProofs` | theorems about its masks, its cache and what it writes, and about the rings and polygons of `PolygonAssembly` |
| `OsmConverter` | `convertOSM`, in two passes or in one |
| `OsmConverterProofs` | theorems about its counts of uses, what it writes and what it returns |
| `OsmConversions` | both conversions of one document, side by side |
| `OsmConversionsProofs` | theorems about them |
| `OsmFiles` | the documents its runs use |
| `RingStitching` | `stitchRings` and `joinCoordinates` |
| `PolygonAssembly` | `multipolygonGeometry`, on top of `RingStitching` |
| `CollectionReader` | `geodata.ReadFeatures` and `collectionBounds` |
| `FeatureTools` | `geojsonseq`, `geofilter`, `geojsoncheck` and `FeatureWriter`, on top of `CollectionReader` |
| `FeatureToolsProofs` | theorems about the reader: what it accepts, keeps and gives, and its file, in any of its programs |
| `TileArchive` | `writeMBTilesDatabase` of `geojson2mbtiles` |
| `TileArchiveProofs` | theorems about its tiles, its fields, its limit and what the file holds |
| `EntiretyFiles`, `TreeIndex` | the conversion and the index of `geojson2entirety` |
| `Entirety` | the program, which does the one or the other |
| `EntiretyProofs` | theorems about what it reads, the records in its files, and its index |
| `GeoParquet` | `geoparquet`, from features to a file and back |
| `GeoParquetProofs` | theorems about what a stream leaves behind, what is refused, the metadata, and what comes back |
| `MC*` | values of the constants for TLC |

A definition with an underscore in its name (`DrainNext_AnyOrder`) is a fault: a
mistaken form of the definition it stands before, which some property must
detect. `PROJECT.json` pairs each property with one under `mutants`. They take no
part in any specification.

### WikiPipeline

A page is only the outcome its parse will have: `found`, `absent` or `broken`.
The four channels are sequences with the capacities of the code (`tasks` and
`results` twice the number of page handlers; `errorPages` and `resultSlots` are
constants). A send that would block is an action that is not enabled; a `range`
over a channel ends when it is empty and its closing variable is set.

| Code | Actions |
| --- | --- |
| `process` | `ReadPage`, `ReachLimit`, `EndOfInput`, `TakeSlot`, `SendTask`, `CloseResults`, `AwaitWriter`, `AwaitErrors` |
| `pageHandler` | `ReceiveTask`, `ReportPage`, `DeliverResult`, `StopWorker` |
| `write...ResultsWithSlots` | `OpenCollection`, `ReceiveResult`, `DrainNext`, `DrainStop`, `CloseCollection` |
| `errorHandler` | `SavePage`, `DropPage`, `CloseErrorFile` |

Each write, the creation, each record and the closing of `errors.gob`, and the
parser may fail at any time. What the output has accepted (`written`,
`framing`) is what was handed to the buffered writer; the final flush may fail
too, and is part of `CloseCollection`. What is left out: logging, the parsing of
wiki text, what an earlier run left in `errors.gob`.

### PbfConverter

An element is a kind, an id, the tags that matter and the elements it refers to.
Each decoded element is one step of a pass (`Index`, `IndexMembers`,
`PrintNode`, `PrintWay`, `PrintRelation`, `PrintFeature`), each end of a pass
another (`IndexEnd`, `MembersEnd`, `PrintEnd`, `FeaturesEnd`), and `CloseWriter`
and `CloseCache` are the end of `convertPBF` and its deferred function. The
memory cache reads what was put; LevelDB reads what the last write of the batch
reached. A write, a decode, an output may fail anywhere. A mask is a set;
coordinates are kept or off the globe; an area may fail to assemble. A selected way
that cannot be resolved ends the conversion, as in the code: the comment above it
(pbf2json.go:366) says that such ways are skipped.

### OsmConverter and OsmConversions

An element is the same record; `NotNumeric` is a reference that is no number.
`Mode` says which conversion is meant. `uses` is first the index's count of
uses, then `remainingNodeUses`; `Release` drops a node at zero. Features name
the versions of the nodes and ways they were made of, so that a node dropped or
overwritten at the wrong time shows in the output. `OsmConversions` extends
it: the conversion of a named file beside that of a pipe, on one document, to
compare what they wrote.

### RingStitching and PolygonAssembly

One step takes a way, joins one, closes a ring or stops, as one turn of the loops
of `stitchRings` does. `RingStitching` has only these steps; `PolygonAssembly`
has the specification: the outer ways are stitched, then the inner ones.

| Code | Actions |
| --- | --- |
| `stitchRings`, `joinCoordinates` | `StitchRing` (`TakeSegment`, `Join`, `Stuck`, `CloseRing`, `Return`) |
| `multipolygonGeometry` | `Refused`, `OuterRings`, `PlaceHole`, `Encode` |

Positions are pairs of integers, so that areas and crossings are exact.
`WaysConserved` compares the polygons returned with the ways of the relation, and
`HolesHeld` says by areas and positions what the code decides by areas and positions,
after all has been placed. What the rest of `PolygonsAreRight` says of polygons is said
of rings that run along the lines of the grid and pass nowhere twice, cell by cell,
so that it shares nothing with the ray casting it judges.
The code promises nothing of a hole that meets an outer ring, and
`HoleInnermost` says nothing of it. The two programs have the same functions;
the lines mapped are those of `pbf2geojson`.

### CollectionReader

The input is a sequence of records of values, each an object, an array of
objects, or something else; an object has the names of its members in the order
they are written. One step reads a record, a value, a member, a feature or a
position, or judges a longitude, as the loops of `stream.go` and
`collection_bounds.go` do.

| Code | Actions |
| --- | --- |
| `ReadFeatures`, `readSequence`, `readJSONValuesLimited`, `visitJSONToken` | `Start`, `ReadRecord`, `EndRecord`, `ReadValue`, `ReadElement` |
| `visitJSONObject` | `ReadMember`, `EndObject` |
| `visitFeatureArray`, `ValidateFeature`, `bounds.add` | `EnterFeature`, `ReadPosition`, `EndFeature`, `EndFeatures` |
| `bounds.finish` | `Finish`, `Rewind`, `Reread` |
| `bounds.close` (deferred) | `CloseBounds` |

The temporary file can fail to be created, written, rewound, read or removed, and
the callback can refuse any feature. Latitude stands for every axis but the
longitude; it alone has a range of its own, up to the poles (`OutOfRange`). What makes a geometry malformed, and JSON syntax, is a field of the
feature (`broken`): refused before its positions are looked at, after, or for a
repeated member. `SoundInput` says what has to be accepted without reading
anything in order: `AcceptsExactly` compares the reader with it.

### FeatureTools

The programs are those behaviours of the reader in which each callback answers as
the program does: `Read` is a step of the reader together with what its callback
does, if it is called. The program and its flags are part of the input. What is
written is a sequence of tokens (header, comma, feature, separator, newline,
end). The buffer of the output may fail to be emptied at any write, and at the
end.

| Code | Actions |
| --- | --- |
| `NewFeatureWriter` | `StartTool` |
| the callbacks of `convertSequence`, `filterGeoJSON`, `checkGeoJSON` | `Read` with `WriterWrite`, `FilterCallback`, `CheckCallback` |
| `writer.Close` and what the programs return | `CloseTool` |

A geometry is points, or a line along a parallel, so that clipping it by a box is
a comparison; `Wanted` says on the points of the grid what `Keeps` decides by
bounds and stretches.

### TileArchive

The tables are sets and sequences of the transaction, the archive is what the
file holds when the transaction is over. The recursion of
`stageArchiveFeatureTile` is the sequence `pending` of the calls still to be made,
in their order. A geometry is a set of grid points: clipping keeps those within
the tile and its buffer, whose width follows the tile's; simplification drops a
geometry from zooms below its `from`. A feature may be refused when it is read or
when its tile is encoded (`reserved`), and any statement may fail.

| Code | Actions |
| --- | --- |
| `stageArchiveSource` | `ReadFeature`, `EndFeature`, `EndOfInput` |
| `stageArchiveFeatureTile` | `StageTile` |
| `writeMBTilesDatabase` | `WriteTile`, `EndOfTiles`, `DropStaging`, `Commit`; `StatementFails` for its error returns |

### EntiretyFiles, TreeIndex and Entirety

`visitEntiretyToken` calls itself; `stack` has a frame for each call that has not
returned. A buffer is written when it is full, and a file whose buffer could not
be written fails every later write. A name is a sequence of bytes, because
offsets count them. The index is built by `treeIndexAdd` and `buildFinal` and
walked by `IterateMp`, on integers: the steps of a leaf's coordinate below a
millionth of a degree, and below a degree, are the constants `Fine` and `Parts`.

| Code | Actions |
| --- | --- |
| `openEntiretyOutputs`, the first tag | `Open` |
| `forEachEntiretyFeature`, `visitEntiretyToken`, `visitEntiretyFeatureArray` | `ReadValue`, `ReadElement`, `ReadMember`, `EndObject` |
| the callback of `convertEntirety`, `writeTag`, `writeEntiretyPoint` | `LimitReached`, `RefuseFeature`, `ConvertFeature` |
| `closeEntiretyOutputs` | `Close` |
| `treeIndexAdd`, `buildFinal`, `IterateMp` | `TreeIndexAdd`, `BuildFinal`, `IterateMp` |

### GeoParquet

A file is its schema, its rows (a function from the names of columns that are not
null), the metadata of the format (`geo`) and that of the program (`tool`); it
exists when `footer` is written. Integers and doubles have `Word` and `Mantissa`
bits, so that values that do not fit are in the runs. A geometry has a type, a
dimension and its nested parts; the list levels of the native encodings are
modelled by their repetition levels.

A property whose name is empty gets a column whose name is empty, which
`geoParquetRootColumnJSON` (`decode.go:299`) takes for no column: with the two-pass
encoder its value does not come back, although `README.md:512` speaks of lossless
round trips. `RoundTrip` makes no exception of it: the run `columns_nameless`, which
violates it, gives such a property to both encoders, and `columns` only to `-stream`,
which keeps it in its one JSON column. The model assumes that the Parquet library
takes a column with such a name.

| Code | Actions |
| --- | --- |
| `encodeGeoParquetWithSettings` | `Start`, `Describe`, `WriteRow`, `EndOfRows` |
| `collectGeoParquetFeatures` | `Collect`, `ReadFails` |
| `encodeStreamingGeoParquet` | `Stream`, `ReadFails`, `DescribeStream` |
| `writer.Close` | `CloseWriter` |
| `decodeGeoParquet`, `decodeGeotoolsGeoParquetFeature` | `Open`, `DecodeRow`, `DecodeFails`, `EndOfFile` |

## 3. Runs

| Run | Question |
| --- | --- |
| `wiki_strict` | is the pipeline safe, and does it implement the sequential converter, whatever interleaves and fails (2 handlers, window 2, 4 pages) |
| `wiki_docvec` | does it take what the sequential converter with the same `-limit` takes, and succeed short of it only at the end of the input; does it shut down when every channel fills, do broken pages reach the file (1 handler, window 5, queues of 2, limit 5 of 6 pages) |
| `pbf` | are the masks exactly the closure, does the batch of LevelDB hide nothing, do complete files convert, do the passes end: sorted files, and six elements in every order, through both caches, with a batch of 3 |
| `osm_conversions` | counts of uses, and two passes against one, on 16,540 documents, with failures |
| `rings` | do rings close wherever they can, and do polygons get their holes: every sequence of up to four ways of ten shapes; up to three outer rings and two inner ones, in three styles |
| `reader` | does the reader accept the same collections in every order of members, keep every longitude and remove its file, with a buffer of two; do the three programs write or report what the whole input says |
| `archive` | is the archive the tiles that features contribute to, or nothing; is the limit exact (zooms 1 and 2, ten tiles) |
| `columns` | is what is read back what was written, does the metadata describe it, is a failed stream recognised, is nothing refused that the format can hold |
| `entirety` | do the eight files agree with each other and with the features, are the same inputs accepted in every order of members, does a walk meet every leaf |
| `pbf_unsorted`, `osm_mismatch` | a comment and a test that the code does not agree with |
| `columns_nameless` | `RoundTrip` with properties whose name is empty, against what the README says of round trips |

Why the bounds are enough. *Wikipedia*: an error of order needs two pages in
flight in two handlers, an error of the window one page more than the window; a
deadlock needs every channel full, which `wiki_docvec` reaches: five pages fill
`tasks` and `results`, the page handler between them, and the window. An error channel of one instead of ten fills earlier, never later.
*PBF*: the count that ends the members passes can mislead only if a pass marks
something behind its position, which needs two nested relations in the wrong
order; three allow a second pass, and a cycle. A batch of three is passed by a
way's two entries. *OSM*: one node used twice by a way, by two ways, and by a way
and a relation; repeated ids; every order of three elements, and sorted documents
of up to six. *Rings*: four ways with two meeting points give every choice of a
first way, either direction, out-and-back ways and ways closed by themselves;
land, an island in its lake, a far coast and a bay with a step, against a lake, a
pond, ponds at the latitude of corners, one across two rings and one outside, as
drawn, turned and in two ways each, give rays through corners and along edges.
*Reader*: up to six longitudes against a buffer of two spill three times, or twice
with some left in the buffer; every order of `type`, `features` and `bbox`, and
one of each kind of refusal before and after a sound feature; boxes that wrap, end
at a feature, or enclose a line's bounds and not the line; limits under, at and
over the features that match. *Archive*: a point
in the buffers of four tiles, features that share tiles and features that share
none; zoom 0 is visited and not listed; inputs under, at and over ten tiles.
*GeoParquet*: three bits and a mantissa of one tell a value that fits, one that is
rounded and one that does neither apart; a name of a column, that name with the
prefix, and with the prefix twice clash in every combination, with `-stream` and
in `columns_nameless` also with an empty name; three features give a kind that changes twice, and mixed dimensions in every order. *Entirety*: a
buffer of two records is full at the third, so that both a write and the closing
can fail; degrees of two parts of two steps have leaves on both sides of zero, of
a degree and of a part, and four leaves in a row.

Deadlock is checked in every run: a program that has returned stutters by its own
action (`Returned`), so that a state with no other step is an error.

Fairness. `WikiPipeline` assumes weak fairness of every goroutine: Go's scheduler
is preemptive, the input ends, and reads, writes and the parser return. No
fairness is assumed between one choice of a goroutine and another: failures need
never happen. `PbfConverter` is one goroutine that never waits, so that weak
fairness of its next step is enough. The other modules assume none: they state
safety properties.

## 4. Proofs

`WikiPipelineProofs` proves every safety property of the runs of `WikiPipeline`,
and the refinement of `SequentialConverter`, for every finite nonempty pool of
handlers, every capacity, limit and number of pages (`PipelineAssumption`).

None of the properties is inductive alone. `IInv` adds what they rest on:

- `Counting`: pages sent, pages read and slots taken differ by where the reader
  is; this and `EveryPageInOnePlace` give `WindowBounds`, because what is in
  flight is exactly the interval from `next` to `pages - 1`.
- `Shutdown`: which goroutine has stopped when a channel is closed; it gives
  `NoSendOnClosedChannel`, and that nothing is in flight when `process` returns.
- `ErrorPages`: a page that failed is not yet reported, in the channel, or saved,
  as long as the file works; with `Shutdown` it gives `SuccessIsComplete`.
- `Framing` and `Limited`: the separators, and why the reader stopped, from which
  `LimitCorrect` follows: `-limit` is exact, whatever the goroutines do.

The proof is one lemma per conjunct (`...Init`, `...Step`), one step per action.
The refinement maps the output to its sequence numbers, and `ended` to the parser's
end of file: `ReadPage`, an `EndOfInput` at which the parser did not fail, a
`DrainNext` that writes, a `SavePage` that saves and `AwaitErrors` are the abstract
steps, every other step is a stutter.

`PbfConverterProofs` proves `MasksClosed`, `MasksNeeded`, `CacheComplete`,
`OutputIsExpected` and `CompleteFilesConvert` for every file of elements. For the first, `MInv` says what the index pass has
indexed up to its position, and, for a members pass, that the elements before its
position are closed *if* the counts are still those it began with: masks only
grow, a mask that has grown has a larger count, so that counts which are equal at
the end of a pass mean that the pass marked nothing, and then that every element
is closed. For the second, the masks lie in what *any* complete set of relations
needs, one that has the selected relations and those that its own refer to: the
least such set is what is needed, and no induction is. Together: the masks are
exactly the closure. For the third, the keys in the cache, of what is stored and
what is in the batch, are those of the elements passed that the masks ask for;
the batch is empty where it counts nothing; and the second
flush of `print` empties it before the relations are written. For the output,
`SelInv` says that the masks of selected elements hold what matches among the
elements gone by, and `OutInv` that what is written, and what relations are kept, is
item by item at its place: the place of an element is one more than the number of
selected ones before it, a cardinality, so that no induction over the file is
needed to say that all are written once and in order, or only the first of them
when the conversion fails. For the last, `WholeInv` says that the cache holds
elements of the file, that the relations kept are those that the masks ask for, and
that once the nodes are flushed no node is in the batch. What is below a relation is
the least set that has what it and its own refer to: that it is the same among the
relations kept as in the file (`KeptBelow`) follows without counting how deep they
nest. The attempt showed that `Convertible` asked too little: of two versions of one
relation the first may be selected and the last kept, with members that no pass
marked; a file has one version of each element now, as an extract has.

`OsmConverterProofs` proves `NodesHeldAreThoseInUse` for every document, in either
mode. The index counts in one order and the conversion uses up in another: both
are cardinalities of the same set of places where a reference stands. `CountInv`
says that the count of a node is that of the places in what is still to come; to
go by one element is to add or to take away its own places, which are no other's.
`HeldInv` says that the nodes held are those passed whose count is not used up.

The second half of the module rests on these two. `StoreInv` says that what is held of a
node or a way is the version that went by last, that a way is made of what the
file says (`Resolved`), and that a way is held if it went by and is wanted;
`ListInv` that the relations kept are those of the file, each at its rank;
`OutInv` that the output is what the file says, feature by feature. With the
counts, a node or a way that was dropped is one that nothing asks for again
(`WayIsGood`, `MembersHeld`), so that `OutcomeFromFile` holds in either mode: what
a conversion that succeeds has written, and why one cannot build a feature, is
said of the file alone. A rank is a cardinality too, so that the order of a file
needs no induction.

`OsmConversionsProofs` takes this theorem twice, once with the variables of the
single pass, shows that the two together are one behaviour of each
(`EachConverts`), and that the file determines relations, members and output:
`IndexedIsStreaming` and `OnlyTheIndexIsStricter` follow for every document.

`FeatureToolsProofs` proves `TemporaryFileGone`: where no object is in hand there
is no file, and no step inside an object leaves it but by the deferred function.

Five more invariants say what the reader, and the programs on top of it, do with
an input, which may be any sequence of records, values, elements, objects and features.

- `AcceptsExactly` says that reading succeeds exactly on what is sound as a whole
  (`SoundInput`, where no order of reading occurs). `ReaderInv` says where in the
  input the reader is (`Place`: what has gone by of the records, the values, the
  elements is sound), and what is still open about the object in hand: the members
  seen are those gone by and unrepeated; the summary of a geometry, and that of
  the collection, are those of the positions gone by (`Summarises`); and each of
  those positions was looked at with the box, or its longitude is kept for a box to
  come (`Gathered`). A step of the reader either goes on to such a place or
  shows a reason why the whole cannot be sound. That merging summaries loses
  nothing, and that a box encloses a summary exactly if every position lies in it
  but for the gap of a wrapped box, are lemmas about sets of positions.
- `RetainedLongitudes`: `RetainingInv` says that memory and file together are the
  longitudes gone by in order, where the file is full up to a multiple of the
  buffer.
- `VisitedInOrder`: `DeliveringInv` says that what was given is what the records,
  values, elements and features before the one in hand give, in this order. What an
  input gives is a flattened sequence of sequences.

The module begins with what these need of sequences. `FlattenSeq` of the community
modules is a recursive function chosen from all functions that satisfy its equation;
that there is one, and which, is an induction. It is made without an operator as a
parameter: the predicate is a set of numbers, and the set of what lies above a number is
taken to be least in the well-founded order of finite sets (`UpTo`).

- `OutputIsFiltered`: `ToolInv` says that the tokens are the text, in the form asked
  for, of what the features accepted so far yield (`Output`), that as many have been
  written as the limit has room for, and why the callback refused, if it did
  (`Refused`). A step of the reader that calls the callback hands it the next
  of the features that the input gives (`NextGiven`); any other step leaves this
  alone (`StepCalls`). What the filter keeps of a feature by its bounds and its stretches
  is what lies in the box, said of places (`KeepsWanted`), wrapped boxes and
  lines along a parallel included. At the end, what is to be written of the whole
  input begins with what was written, and success leaves nothing out.
- `ReportIsExact`: `ReportInv` says that the report is that of the features
  accepted so far (`Reports`): their number, their positions, the features of
  each type, and the smallest bbox around the positions (`Spans`).

The first three hold for every use of the reader; that a program with its callback
implements the reader's own specification (`ToolsUseTheReader`) carries them, and
`TemporaryFileGone`, over to all three programs (`ToolsReadTheInput`,
`ToolsLeaveNoFile`). The assumption on `Inputs` says what JSON text can hold:
arrays are finite, a position has two numbers or more, a null geometry has none;
`ToolsAssumption` says what the flags allow: a limit only for `geofilter`, which takes no
longitudes out of range, and a box within that range.

`PbfConverterProofs` also proves the invariants of the rings, for relations of
any number of ways, wherever they pass. The two of `stitchRings` are counts over the pieces there are:
the rings closed, the ways left and the ring in hand. A piece is counted for a finite
set, of the places where it passes along a stretch (`RunsAlong`) or of its ends at a
position (`EndsAt`), and a sequence of pieces for the pairs of a piece and an
element of its set (`Total`), which adds up when sequences are joined, and when one
piece is taken out. `Balanced` says that the pieces are counted for as much as
the ways they were made of, as to stretches, and for an even number less, as to ends:
joining glues two pieces, one of them turned round if need be (`JoinedIs`), where two
ends meet. `StretchesConserved` is the first half. For `StuckMeansOdd`: rings that are
closed have an even number of ends at any position; a ring that is stuck has one
at its start, and no way left has another there; when nothing is left, all is even.
So the ways could not have been closed in any other order either.

`WaysConserved` follows the ways further, to the polygons. `PolyInv` says that the
polygons pass along a stretch (`CutRuns`) as often as the outer ways and the holes
placed so far do (`Cut`): the outer rings were balanced when their stitching ended
(`RingsBalance`), a ring turned round passes as often (`RunsTurned`), and a hole is one
entry more (`CutAppended`). The inner ways are balanced in turn, and the ways of the two roles
are those of the relation (`WaysSplit`, an induction along `FlattenSeq`). The same
invariant carries `HolesHeld`: a ring turned round has the opposite area
(`AreaTurned`, summed from the other end), and there is a first smallest of the rings that
hold a hole (`FirstSmallest`), which placing further holes leaves as it is.

`GeoParquetProofs` proves `StreamedFileIsWhole`: in a stream there is a row for
each feature counted, and the metadata without which the file does not decode is
there only if all of them are, so that the rows that the decoder puts out are all.
`RefusesOnly` and `MetadataAgrees` hold because of `EncoderInv`, which says that

- no feature taken so far is refused (`Taken`), and a feature is refused exactly if
  it cannot be represented (`RefusedIs`, which uses that a geometry that
  `ValidateFeature` accepts has no empty part);
- each property that has a value has a kind, its own or JSON, and so can be stored
  (`KindsFit`, `StorableAs`), in a column whose name is not reserved (`ColumnsAre`:
  among a name and as many prefixed ones as there are names in use, one is
  free, by counting, `FreeIsFree`); so no row is refused, and none overwrites the box;
- what is gathered of a column says what types there are, whether dimensions differ,
  and a box if they do not (`StatsFit`, `AddGathers`), where the box of no position
  is above and below everything (`Infinity`) and is the only one that JSON cannot
  hold (`FiniteIs`, `InfiniteIs`); what the two-pass encoder computes at the end
  is the same (`MetadataIs`).

`RoundTrip` needs three things more. *A geometry comes back out of nested lists*:
the positions of a geometry are written one after the other, each with the level at
which it begins something new; a ring is a part in which only the first position
has a level below that of the type, a polygon one in which only the first ring has
level 1; and what begins anew at a level splits exactly where the parts were joined
(`SplitFlat`, by induction up to the number of parts, over the recursive functions
`Flat` and `Split`), so that two splits find polygons and rings again
(`NativeIsSame`). *The properties come back out of their columns*: different names
have different columns, none of them reserved (`ColumnsAre`), so a value is found
where it was put, and is what it was, since it is put into a column of its own kind
or as JSON (`StoredSame`); only a property whose name is empty has the column without
a name (`NamelessColumn`), whose value is `Lost`. *The file is that of the features*: `TripInv` says that
while an encoder writes, and once it has succeeded, each row is the row of the
feature with its number, the columns and the schema those that the rows were made
with, and the metadata tells how each column is encoded; and that the features put
out so far are those of the input. `RowDecodes` puts the three together. So
`NamedIsKept` says of all inputs that nothing but a `Lost` value is missing, and
`RoundTripCorrect` follows where there is none: it assumes that without `-stream`
every property has a name (`NamelessIsStreamed`), as the inputs of `columns` have and
those of `columns_nameless` have not.

The assumption on the input is what `encoding/json` and `ValidateFeature` leave: lists
are lists, a property is of a known form, coordinates are finite, a point has one
position, a line one list of them, a polygon one list of rings; and the names of
properties, which are the keys of an object, are listed once each.

`TileArchiveProofs` proves all four invariants of its run. `FieldsAgree` by the type
that a set of types agrees on and what one type more does to it. For the others,

- `StagingInv` says that the features read are the first of the input, that what is
  listed lies in their coverage, and that a tile of the coverage is listed or lies
  below one that is still to be visited (`Descending`): so when none is left, all
  are listed (`StagedIsCoverage`). That nothing is lost by leaving out what lies
  below a tile the feature does not meet is geometry: the region a tile is clipped to,
  buffer included, lies within that of each tile above it (`ClippedAbove`), where
  `Above` is arithmetic with powers of two, known up to 2^30, the zoom the
  program allows.
- `LimitInv` says that `tileCount` is the number of tiles staged and that the tiles
  seen are those before the next in the order, which is total;
- `ArchiveInv` that the rows written are those of the tiles seen, each with its
  features, and what the coverage of the whole input is when the limit stops it or
  does not. `LimitExact` and `ArchiveIsWhole` follow.

`EntiretyProofs` proves all four invariants of its run.

- `WalkMeetsEveryLeaf`: `TreeInv` says that the leaves filed under a key are those
  with this key, in the order they came, and what has been packed and walked. A
  set of tuples of integers has one order in which it rises (`Rising`, `Sorted`), in
  which the place of a tuple is one more than the number of those before it. So
  the children of a node of one array, which begin at `Before` and end where those of
  the next node begin, are exactly the nodes of the next array whose path continues
  its own; four indices, each in the span of the one before, are the same as
  a path with a leaf at its end (`PathTo`), and come in the same order.
- `ReadsExactly`: `ReadInv` says where in the input reading is. The features counted
  are those of the values that are gone, and of the value in hand those
  that the frames of `stack` have gone through (`ReadSoFar`, `Partway`): a feature, an
  array, or a collection that is streamed when its type came first, or once it
  has ended. What is gone is sound. A step goes on to such a place, or stops
  and shows a member, an element or a value for which the whole is not sound.
- `TagFilesAgree` and `FilesAreTheFeatures`: a buffer does not matter to what a file
  will hold (`Held`), be it emptied or not, as long as nothing fails (`Live`).
  `FilesInv` says that the six files have a record for each tag (`Agree`), that
  text and offset of a record fit (`TagAt`), and that the records are those of the
  features counted (`Contents`). A feature converted adds one record to each of six
  files, to two, or to none; closing empties all buffers if the program succeeds.

The assumptions on its inputs say what JSON text can hold: arrays, keys and names
are finite sequences, and `-limit` is -1 or more. Whether a buffer is full does not
occur in what is proved, so `BufferSize` is any positive number.

Only model-checked: liveness (`Terminates`, `BrokenPagesReachFile`), which TLAPS
does not reach under fairness; and `PolygonsAreRight`, which says of every position of
the grid whether it lies inside a ring: that a ray from it crosses a ring that is
closed an odd number of times exactly there is the theorem of Jordan for the lines
of a grid, an induction over the ways a ring can run. Its first part, `HolesHeld`, is
proved, and that no part of a ring is lost is (`WaysConserved`). Constants are assumed to be no more than the `ASSUME` of each module
says; the runs evaluate all of them.

## 5. Not modelled

Decompression, XML, protobuf, LevelDB, Parquet pages and SQL, which are libraries;
logging; command lines; the text of names and numbers. Also:

- `wikidump`: its two readers are loops over the XML decoder and the bzip2 streams
  of a library; the pipeline sees a page, the end or a failure, and has all three.
- vector tiles (`geodata/mvt.go`, `geojson2mvt`, `mvt2geojson`): projection and
  clipping by a library. `TileArchive` has what the programs do with its answers.
- `geodata/crs.go`: whether two descriptions of a reference system are equal, a
  comparison of data.
- `mbtiles`: queries of a database.
- `flatgeobuf`, `jsonfg`: conversions of data from one nesting to another, with no
  state between features but a count.
- the rounding of floating point, in polygons and in tiles; clipping a geometry
  other than a point or a line along a parallel in `geofilter`.
- Parquet files of other programs: `GeoParquet` decodes what it wrote.
- saving and loading masks, `dumpMap`, `treeIndexAdd2`: no program uses them.
- the refusal of an output that exists, and the bounds in the metadata, of
  `geojson2mbtiles`.

## 6. Plan

Done: the Wikipedia pipeline with its proofs; the PBF conversion with the proofs
of its masks and its cache; the OSM conversions with the proofs of their counts and
of their agreement;
ring stitching and polygons; the GeoJSON reader and writer and the three programs
on top of them, with the proofs of what the reader accepts, keeps and gives, and of what the
programs write and report; the tile archive, `geojson2entirety` and `geoparquet`, with
the proofs of all that their runs check.

Left, in this order:

1. The streaming decoder of `jsonfg`, whose declarations must precede the
   features.
2. The index of `flatgeobuf` against its features.
3. The two readers of `wikidump`, as an implementation of the input that
   `WikiPipeline` takes for granted.
4. Proofs: that a ray finds the inside of a ring, so that a hole that has its positions
   in an outer ring and meets none lies in it.
