--------------------------- MODULE MCTileArchive ---------------------------
(* Features for TileArchive under TLC, on a grid of 16 by 16 points.       *)
EXTENDS TileArchive

Shape(points, from) ==
    [valid |-> TRUE, reserved |-> FALSE, points |-> points, from |-> from,
     fields |-> (<<"l", "a">> :> "Number")]

Centre == Shape({<<2, 2>>}, 0)
Edge == Shape({<<3, 6>>}, 0)
Corner == Shape({<<8, 8>>}, 0)
Inner == Shape({<<9, 13>>}, 0)
Small == [Shape({<<6, 6>>}, 2) EXCEPT !.fields = (<<"l", "a">> :> "Boolean")]
Route == Shape({<<k, k>> : k \in 0..6}, 0)
Far == [Shape({<<13, 1>>}, 1) EXCEPT !.fields = (<<"l", "b">> :> "Boolean")]

Refused == {[Centre EXCEPT !.valid = FALSE], [Small EXCEPT !.reserved = TRUE]}

Shapes == {Centre, Edge, Corner, Inner, Small, Route, Far} \union Refused

Inputs_ == SeqOf(Shapes, 3)
=============================================================================
