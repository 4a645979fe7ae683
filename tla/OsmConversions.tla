--------------------------- MODULE OsmConversions ---------------------------
(***************************************************************************)
(* One OSM XML document converted both ways: by the two passes over a      *)
(* named file, which may fail at any point, and by the single pass over a  *)
(* pipe.  The single pass keeps everything it has read, so that it is the  *)
(* reference for what the two passes may drop.                             *)
(***************************************************************************)
EXTENDS OsmConverter

VARIABLES pass2, pos2, uses2, relationWays2, relations2, nodes2, ways2,
          output2, err2

Streaming == INSTANCE OsmConverter WITH
    Mode <- "streaming",
    pass <- pass2, pos <- pos2, uses <- uses2,
    relationWays <- relationWays2, relations <- relations2, nodes <- nodes2,
    ways <- ways2, output <- output2, err <- err2

second == <<pass2, pos2, uses2, relationWays2, relations2, nodes2, ways2,
            output2, err2>>

BothInit == Init /\ Streaming!Init

(* The order of two conversions that share nothing does not matter.         *)
ConvertFile == (Step \/ InputOutputFails) /\ UNCHANGED second
ConvertPipe == pass = "done" /\ Streaming!Step /\ UNCHANGED <<vars>>
BothReturned == Returned /\ pass2 = "done" /\ UNCHANGED second

BothNext == ConvertFile \/ ConvertPipe \/ BothReturned

BothSpec == BothInit /\ [][BothNext]_<<vars, second>>

Both == pass = "done" /\ pass2 = "done"

(* What main_test.go:277 says of one document, of every document: the two   *)
(* conversions agree on whether it converts, and write the same features.   *)
ConversionsMatch ==
    Both /\ err # "input or output" =>
      (err = "nil" <=> err2 = "nil") /\ (err = "nil" => output = output2)

(* If the two passes convert a document, the single pass writes the same    *)
(* features, made of the same nodes and ways, in the same order: dropping   *)
(* nodes changed nothing.                                                   *)
IndexedIsStreaming ==
    Both /\ err = "nil" => err2 = "nil" /\ output = output2

(* And a document the single pass converts fails in two passes only because *)
(* of a reference the index rejects, or of its input or output.             *)
OnlyTheIndexIsStricter ==
    Both /\ err2 = "nil" => err \in {"nil", "reference", "input or output"}
=============================================================================
