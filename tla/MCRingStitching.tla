-------------------------- MODULE MCRingStitching --------------------------
(* Relations that try the stitching, and relations that try the placing of  *)
(* holes.                                                                   *)
EXTENDS PolygonAssembly

MCPositions == (0..16) \X (0..10)

(* Between the corners of a square: ways with a direction, and one of every *)
(* shape that tells the cases of joinCoordinates and of stitchRings apart,  *)
(* closed, out and back, one position only.                                 *)
Corner == <<<<0, 0>>, <<8, 0>>, <<8, 8>>, <<0, 8>>>>

Shapes == {<<1, 2>>, <<2, 1>>, <<2, 3>>, <<3, 1>>, <<1, 3>>, <<1, 4, 2>>,
          <<3, 4, 1>>, <<1, 2, 3, 1>>, <<4, 3, 4>>, <<2>>}

Drawn(way, r) ==
    [role |-> r, way |-> [i \in DOMAIN way |-> Corner[way[i]]]]

Stitchings ==
    UNION {[1..n -> {Drawn(w, "outer") : w \in Shapes}] : n \in 0..4}
    \cup {<<Drawn(<<1, 2, 3, 4, 1>>, "outer"), Drawn(a, "inner"), Drawn(b, "inner")>> :
            a, b \in Shapes}

Box(x1, y1, x2, y2) == <<<<x1, y1>>, <<x2, y1>>, <<x2, y2>>, <<x1, y2>>, <<x1, y1>>>>

(* Land, an island in its lake, a coast far off, a bay with a step in its   *)
(* coast at the latitude of its innermost shore.                            *)
Outers ==
    {Box(0, 0, 8, 8), Box(2, 2, 6, 6), Box(12, 2, 15, 5),
     <<<<0, 0>>, <<9, 0>>, <<9, 3>>, <<8, 3>>, <<8, 8>>, <<6, 8>>, <<6, 3>>, <<3, 3>>, <<3, 8>>,
      <<0, 8>>, <<0, 0>>>>}

(* The lake, the island's pond, a pond in an arm of the bay at the latitude *)
(* of its corners, one in the bay's water, one across it, one that fills    *)
(* it, one half outside, one of another coast.                              *)
Inners ==
    {Box(1, 1, 7, 7), Box(3, 3, 5, 5), Box(1, 3, 2, 7), Box(4, 5, 5, 6),
     Box(1, 5, 8, 6), Box(3, 3, 6, 8), Box(7, 7, 10, 10), Box(13, 3, 14, 4)}

(* As drawn, turned round, or in two ways of which the second is turned and *)
(* whose role may be missing.                                               *)
Styles == {"drawn", "turned", "cut"}

InStyle(style, r, box) ==
    LET way(w) == [role |-> r, way |-> w]
    IN  CASE style = "drawn"  -> <<way(box)>>
          [] style = "turned" -> <<way(Reverse(box))>>
          [] style = "cut"    -> <<way(SubSeq(box, 1, 3)),
                                   way(Reverse(SubSeq(box, 3, Len(box))))>>

Placings ==
    {FlattenSeq([i \in DOMAIN inners |-> InStyle(style, "inner", inners[i])]
                \o [i \in DOMAIN outers |->
                      InStyle(style, IF style = "cut" /\ i # 2 THEN "" ELSE "outer", outers[i])]) :
        style \in Styles,
        outers \in {o \in UNION {[1..n -> Outers] : n \in 1..3} : IsInjective(o)},
        inners \in UNION {[1..n -> Inners] : n \in 0..2}}

MCRelations == Stitchings \cup Placings
=============================================================================
