---------------------------- MODULE MCGeoParquet ----------------------------
(* What GeoParquet encodes under TLC.                                       *)
EXTENDS GeoParquet

G(type, dim, parts) == [type |-> type, dim |-> dim, parts |-> parts]
Point(n) == G("Point", 2, <<<<<<n>>>>>>)
Tall == G("Point", 3, <<<<<<7>>>>>>)
Ring(n) == <<n, n + 1, n + 2, n>>
Geometries_ ==
    {NoGeometry, Point(1), Point(5), Tall, G("LineString", 2, <<<<<<2, 4>>>>>>),
     G("Polygon", 2, <<<<Ring(0)>>>>), G("Polygon", 2, <<<<Ring(0), Ring(10)>>>>),
     G("MultiLineString", 2, <<<<<<1, 2>>, <<3, 4, 5>>>>>>),
     G("MultiPolygon", 2, <<<<Ring(0)>>, <<Ring(10), Ring(20)>>>>),
     G("MultiPolygon", 2, <<<<Ring(0), Ring(30)>>, <<Ring(10)>>>>),
     G("GeometryCollection", 2, <<<<<<3, 6>>>>>>), G("MultiPoint", 0, <<>>),
     G("Point", 4, <<<<<<1>>>>>>)}

Num(point, value) == [form |-> "number", point |-> point, value |-> value]
Str == [form |-> "string", value |-> 0]
Bool == [form |-> "bool", value |-> 1]
List == [form |-> "json", value |-> 2]
Null == [form |-> "null"]
Geo(g) == [form |-> "geometry", geometry |-> g]

(* With three bits an integer is at most 3; with one, doubles from 3 on are *)
(* even.                                                                    *)
Values == {Num(FALSE, 3), Num(FALSE, 5), Num(TRUE, 1), Num(TRUE, 3), Str, Bool, List, Null}

A == Named("a")
Box == Named("bbox")
Shape == Named("shape")
Names_ == <<Named(""), Prefixed(Prefixed(Box)), Prefixed(Box), A, Box, Shape>>

F(g, ps) == [valid |-> TRUE, geometry |-> g, members |-> {}, null |-> FALSE, properties |-> ps]
Bare(g) == F(g, <<>>)
With(v) == F(NoGeometry, A :> v)
Odd == [F(Point(1), <<>>) EXCEPT !.null = TRUE, !.members = Members]
Broken == [Bare(Point(1)) EXCEPT !.valid = FALSE]

(* Properties with the names of columns; a name that is empty stands for no *)
(* column when the file is read, which -stream alone does not mind.         *)
Clashing(names) == {F(Point(1), [n \in ns |-> [form |-> "string", value |-> n[1]]]) :
                       ns \in SUBSET names}
Every == Elements(Names_)
HasName == Every \ {Named("")}

Shaped(v) == F(Point(1), (Shape :> v) @@ (A :> Null))
Shapes == {Shaped(v) : v \in {Null, Geo(Point(2)), Geo(Tall), Str, Geo(G("MultiPoint", 2, <<>>)),
                                 Geo(G("Point", 4, <<<<<<1>>>>>>))}}
          \union {Odd, Bare(Point(1))}

In(streaming, native, secondary, features) ==
    [streaming |-> streaming, native |-> native, secondary |-> secondary, features |-> features]

Inputs_ ==
    {In(s, n, <<>>, fs) : s \in BOOLEAN, n \in BOOLEAN,
        fs \in SeqOf({Bare(g) : g \in Geometries_}, 2)} \union
    {In(s, FALSE, <<>>, <<Bare(g), Bare(h), Bare(i)>>) : s \in BOOLEAN,
        g, h, i \in {NoGeometry, Point(1), Point(5), Tall}} \union
    {In(s, FALSE, <<>>, <<With(u), With(v), With(w)>>) : s \in BOOLEAN, u, v, w \in Values} \union
    {In(s, FALSE, <<>>, fs) : s \in BOOLEAN, fs \in SeqOf({Odd, Broken, With(Str)}, 2)} \union
    {In(FALSE, FALSE, <<>>, <<f>>) : f \in Clashing(HasName)} \union
    {In(TRUE, FALSE, <<>>, <<f>>) : f \in Clashing(Every)} \union
    {In(s, FALSE, <<Shape>>, fs) : s \in BOOLEAN, fs \in SeqOf(Shapes, 3)} \union
    {In(s, FALSE, names, <<>>) : s \in BOOLEAN, names \in {<<Box>>, <<Shape, Shape>>, <<Named("")>>}}

(* All of them also without -stream: what the property "" says is lost.     *)
NamelessInputs == {In(s, FALSE, <<>>, <<f>>) : s \in BOOLEAN, f \in Clashing(Every)}
=============================================================================
