-------------------------- MODULE MCOsmConversions --------------------------
(* OsmConversions on the documents of OsmFiles.                             *)
EXTENDS OsmConversions, OsmFiles
=============================================================================
