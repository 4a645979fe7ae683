--------------------------- MODULE MCWikiPipeline ---------------------------
(* WikiPipeline for TLC: the pool of workers is interchangeable. *)
EXTENDS WikiPipeline

Symmetry == Permutations(Workers)
=============================================================================
