-------------------------- MODULE PolygonAssembly --------------------------
(***************************************************************************)
(* The polygons of an area relation: multipolygonGeometry of pbf2geojson,  *)
(* which osm2geojson repeats as osmMultipolygonGeometry (main.go:608).     *)
(* The outer ways are stitched to rings (RingStitching), then the inner    *)
(* ways; each inner ring becomes a hole of the smallest outer ring that    *)
(* has all its positions.                                                  *)
(*                                                                         *)
(* A position is a pair of integers, so that areas and crossings are       *)
(* exact; the rounding of floating point is left out.                      *)
(*                                                                         *)
(* A definition whose name has an underscore is a fault: a mistaken form   *)
(* of the definition it stands before, which the properties must detect.   *)
(***************************************************************************)
EXTENDS RingStitching

CONSTANT
    AreaRelations    \* sequences of ways, [role, way], an area relation may have

ASSUME AssemblyAssumption ==
    /\ Positions \subseteq Int \X Int
    /\ \A r \in AreaRelations :
         r \in Seq([role : {"outer", "inner", ""}, way : Seq(Positions) \ {<<>>}])

VARIABLES
    relation,    \* the ways of the relation
    role,        \* the rings in hand: "outer", then "inner"
    polygons,    \* a sequence of rings for each outer ring, its holes after it
    placed,      \* how many inner rings have become holes
    outcome      \* "", then the type of the geometry, or the error

assemblyVars == <<stitching, relation, role, polygons, placed, outcome>>

RoleWays_Named(inner) ==
    LET Of(w) == IF w.role = (IF inner THEN "inner" ELSE "outer") THEN <<w.way>> ELSE <<>>
    IN  FlattenSeq([i \in DOMAIN relation |-> Of(relation[i])])

RoleWays(inner) ==
    LET Of(w) == IF (w.role = "inner") = inner THEN <<w.way>> ELSE <<>>
    IN  FlattenSeq([i \in DOMAIN relation |-> Of(relation[i])])

AssemblyInit ==
    /\ relation \in AreaRelations
    /\ segments = RoleWays(FALSE) /\ remaining = segments /\ ring = <<>> /\ rings = <<>>
    /\ result = Checked(segments)
    /\ role = "outer" /\ polygons = <<>> /\ placed = 0 /\ outcome = ""

StitchRing ==
    /\ Stitch
    /\ UNCHANGED <<relation, role, polygons, placed, outcome>>

Refused ==
    /\ outcome = "" /\ result \notin {"", "nil"}
    /\ outcome' = result
    /\ UNCHANGED <<stitching, relation, role, polygons, placed>>

-----------------------------------------------------------------------------
(* Geometry. *)

(* Twice the area a ring encloses, positive when it turns left.             *)
SignedArea(r) ==
    LET sum[i \in 0..Len(r)-1] ==
          IF i = 0 THEN 0
          ELSE sum[i-1] + (r[i][1] * r[i+1][2] - r[i+1][1] * r[i][2])
    IN  sum[Len(r)-1]

Area(r) == IF SignedArea(r) < 0 THEN -SignedArea(r) ELSE SignedArea(r)

Normalized(r, clockwise) ==
    IF (SignedArea(r) < 0) = clockwise THEN r ELSE Reverse(r)

Between(a, p, b) == (a <= p /\ p <= b) \/ (b <= p /\ p <= a)

(* p is on the line from b to a.                                            *)
OnEdge(p, a, b) ==
    /\ (p[1] - b[1]) * (a[2] - b[2]) = (p[2] - b[2]) * (a[1] - b[1])
    /\ Between(b[1], p[1], a[1]) /\ Between(b[2], p[2], a[2])

Crosses_BothEnds(p, a, b) ==
    /\ Between(a[2], p[2], b[2]) /\ a[2] # b[2]
    /\ (p[1] - a[1]) * (b[2] - a[2]) * (IF b[2] > a[2] THEN 1 ELSE -1)
       < (b[1] - a[1]) * (p[2] - a[2]) * (IF b[2] > a[2] THEN 1 ELSE -1)

(* The line from p to the east crosses the line from b to a.  Of the two    *)
(* edges that meet at p's latitude, the one that comes from above counts.   *)
Crosses(p, a, b) ==
    /\ (a[2] > p[2]) # (b[2] > p[2])
    /\ (p[1] - a[1]) * (b[2] - a[2]) * (IF b[2] > a[2] THEN 1 ELSE -1)
       < (b[1] - a[1]) * (p[2] - a[2]) * (IF b[2] > a[2] THEN 1 ELSE -1)

(* pointInRing: on an edge, or east of an odd number of crossings.  The     *)
(* edge from the last position to the first has no length.                  *)
PointInRing(p, r) ==
    LET Edges == 1..Len(r)-1
    IN  \/ \E i \in Edges : OnEdge(p, r[i+1], r[i])
        \/ Cardinality({i \in Edges : Crosses(p, r[i+1], r[i])}) % 2 = 1

RingContainsRing(outer, inner) ==
    \A i \in DOMAIN inner : PointInRing(inner[i], outer)

-----------------------------------------------------------------------------

OuterRings ==
    /\ outcome = "" /\ role = "outer" /\ result = "nil"
    /\ IF rings = <<>>
       THEN /\ outcome' = "no outer ring"
            /\ UNCHANGED <<stitching, relation, role, polygons>>
       ELSE /\ polygons' = [i \in DOMAIN rings |-> <<Normalized(rings[i], FALSE)>>]
            /\ role' = "inner" /\ UNCHANGED <<relation, outcome>>
            /\ Begin(RoleWays(TRUE))
    /\ UNCHANGED placed

Holders(hole) ==
    {i \in DOMAIN polygons : RingContainsRing(polygons[i][1], hole)}

(* The smallest outer ring that holds the hole, the first of them if        *)
(* several are as small.                                                    *)
Parent(hole) ==
    LET Size(i) == Area(polygons[i][1])
    IN  CHOOSE i \in Holders(hole) : \A j \in Holders(hole) :
            Size(i) < Size(j) \/ (Size(i) = Size(j) /\ i <= j)

PlaceHole ==
    /\ outcome = "" /\ role = "inner" /\ result = "nil" /\ placed < Len(rings)
    /\ LET hole == Normalized(rings[placed + 1], TRUE)
       IN  IF Holders(hole) = {}
           THEN outcome' = "hole outside" /\ UNCHANGED <<polygons, placed>>
           ELSE /\ polygons' = [polygons EXCEPT ![Parent(hole)] = Append(@, hole)]
                /\ placed' = placed + 1 /\ UNCHANGED outcome
    /\ UNCHANGED <<stitching, relation, role>>

Encode ==
    /\ outcome = "" /\ role = "inner" /\ result = "nil" /\ placed = Len(rings)
    /\ outcome' = IF Len(polygons) = 1 THEN "Polygon" ELSE "MultiPolygon"
    /\ UNCHANGED <<stitching, relation, role, polygons, placed>>

AssemblyReturned == outcome # "" /\ UNCHANGED assemblyVars

AssemblyNext == StitchRing \/ Refused \/ OuterRings \/ PlaceHole \/ Encode \/ AssemblyReturned

AssemblySpec == AssemblyInit /\ [][AssemblyNext]_assemblyVars

-----------------------------------------------------------------------------
(* Properties. *)

(* The places a ring has among the polygons, and how often the polygons     *)
(* pass along a stretch.                                                    *)
Places == UNION {{i} \X DOMAIN polygons[i] : i \in DOMAIN polygons}

PolygonPasses(stretch) ==
    Cardinality(UNION {{c} \X Runs(polygons[c[1]][c[2]], stretch) : c \in Places})

(* No stretch of a way is lost, doubled or invented, neither while rings    *)
(* are stitched nor on the whole way from the relation to its polygons,     *)
(* whatever the roles of the ways and however many rings and holes there    *)
(* are.                                                                     *)
WaysConserved ==
    /\ StretchesConserved
    /\ outcome \in {"Polygon", "MultiPolygon"} =>
         LET ways == [i \in DOMAIN relation |-> relation[i].way]
             drawn == UNION {Stretches(polygons[i]) : i \in DOMAIN polygons}
         IN  \A s \in Stretches(ways) \cup drawn : PolygonPasses(s) = Passes(ways, s)

(* By the sign of their areas outer rings turn left and holes right; a hole *)
(* has all its positions in the outer ring it is cut from, and no smaller   *)
(* outer ring has them, whatever was placed before or after.                *)
HolesHeld ==
    \A i \in DOMAIN polygons :
      /\ SignedArea(polygons[i][1]) >= 0
      /\ \A k \in 2..Len(polygons[i]) :
           LET hole == polygons[i][k]
           IN  /\ SignedArea(hole) <= 0
               /\ RingContainsRing(polygons[i][1], hole)
               /\ \A j \in DOMAIN polygons :
                    RingContainsRing(polygons[j][1], hole)
                      => Area(polygons[i][1]) <= Area(polygons[j][1])

-----------------------------------------------------------------------------
(* What a ring encloses is stated cell by cell, for rings that run along    *)
(* the lines of the grid: a cell is named for its lower left corner, and is *)
(* inside if an odd number of edges is west of it.                          *)

Columns == {p[1] : p \in Positions}
Rows == {p[2] : p \in Positions}

(* Where an edge is, without its end.                                       *)
Edge(r, i) == {p \in Columns \X Rows : OnEdge(p, r[i], r[i+1])} \ {r[i+1]}

(* The ring runs along the grid and passes nowhere twice.                   *)
Plain(r) ==
    /\ \A i \in 1..Len(r)-1 : (r[i][1] = r[i+1][1]) # (r[i][2] = r[i+1][2])
    /\ \A i, j \in 1..Len(r)-1 : i < j => Edge(r, i) \cap Edge(r, j) = {}

Upright(r) == {i \in 1..Len(r)-1 : r[i][1] = r[i+1][1]}

Beside(r, i, y) ==
    (r[i][2] <= y /\ y < r[i+1][2]) \/ (r[i+1][2] <= y /\ y < r[i][2])

Cells(r) ==
    {c \in Columns \X Rows :
        Cardinality({i \in Upright(r) : r[i][1] <= c[1] /\ Beside(r, i, c[2])})
            % 2 = 1}

Outline(r) == UNION {Edge(r, i) : i \in 1..Len(r)-1}

(* What the ring encloses is on its left: just west of an edge that goes    *)
(* up, just east of one that goes down.                                     *)
TurnsLeft(r) ==
    \A i \in Upright(r) : \A y \in {y \in Rows : Beside(r, i, y)} :
        <<r[i][1] - (IF r[i][2] < r[i+1][2] THEN 1 ELSE 0), y>> \in Cells(r)

AllRings == ToSet(rings) \cup UNION {ToSet(polygons[i]) : i \in DOMAIN polygons}

Within(r, q) == Cells(r) \subseteq Cells(q)

(* However the ways were drawn, an outer ring has its inside on the left,   *)
(* a hole on the right.                                                     *)
WoundRight ==
    \A i \in DOMAIN polygons : \A k \in DOMAIN polygons[i] :
        TurnsLeft(polygons[i][k]) = (k = 1)

(* A hole that meets no outer ring lies in the one it is cut from, and no   *)
(* outer ring within that one has it.                                       *)
HoleInnermost(hole, i) ==
    LET outer(j) == polygons[j][1]
    IN  (\A j \in DOMAIN polygons : Outline(hole) \cap Outline(outer(j)) = {}) =>
          /\ Within(hole, outer(i))
          /\ \A j \in DOMAIN polygons :
               Within(hole, outer(j)) /\ Within(outer(j), outer(i))
                 => Within(outer(i), outer(j))

(* The polygons of multipolygonGeometry, whatever the order and direction   *)
(* of the ways.  Area by area: a hole that lies in an outer ring is never   *)
(* refused, and none is cut from the land round the island whose pond it    *)
(* is, nor from a ring it lies beside; and all rings are wound as GeoJSON   *)
(* has them.  Number by number, for rings of any form: HolesHeld.           *)
PolygonsAreRight ==
    /\ HolesHeld
    /\ outcome # "" /\ role = "inner" /\ (\A r \in AllRings : Plain(r)) =>
         /\ WoundRight
         /\ outcome = "hole outside" =>
              \E h \in ToSet(rings) : \A i \in DOMAIN polygons : ~Within(h, polygons[i][1])
         /\ outcome \in {"Polygon", "MultiPolygon"} =>
              \A i \in DOMAIN polygons : \A k \in 2..Len(polygons[i]) :
                HoleInnermost(polygons[i][k], i)

=============================================================================
