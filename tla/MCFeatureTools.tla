--------------------------- MODULE MCFeatureTools ---------------------------
(* What the reader and its tools are given under TLC.                       *)
EXTENDS FeatureTools

At(lon, dim) == [lon |-> lon, lat |-> 0, dim |-> dim]
Box(dim, west, east) == [dim |-> dim, west |-> west, east |-> east, south |-> 0, north |-> 1]
Wrapped == Box(2, 2, -2)

Feature(name, bbox, ps) ==
    [id |-> name, type |-> "Feature", broken |-> "", null |-> FALSE,
     bbox |-> bbox, positions |-> ps, properties |-> <<>>,
     shape |-> IF Len(ps) = 1 THEN "Point" ELSE "MultiPoint"]
Edge == Feature("edge", NoBox, <<At(2, 2), At(-3, 2)>>)
Middle == Feature("middle", NoBox, <<At(0, 2)>>)
Solid == Feature("solid", NoBox, <<At(3, 3)>>)
Boxed == Feature("boxed", Wrapped, <<At(3, 2)>>)

(* Those that are refused, each for a reason of its own, and those without  *)
(* a position.                                                              *)
Odd == {[Edge EXCEPT !.broken = "geometry"], [Edge EXCEPT !.broken = "duplicate"],
        [Middle EXCEPT !.type = "Point"], [Edge EXCEPT !.broken = "members"],
        [Middle EXCEPT !.bbox = Wrapped], [Middle EXCEPT !.bbox = Box(3, 0, 0)],
        Feature("mixed", NoBox, <<At(3, 2), At(3, 3)>>),
        Feature("empty", NoBox, <<>>), Feature("empty", Wrapped, <<>>),
        [Feature("null", Wrapped, <<>>) EXCEPT !.null = TRUE]}

Items ==
    TupleOf({Edge, Middle, Solid, Boxed}, 2) \union TupleOf({Edge, Middle}, 3)
    \union {<<>>} \union {<<f>> : f \in Odd}
    \union {<<Middle, f>> : f \in Odd} \union {<<f, Edge>> : f \in Odd}

Boxes == {Wrapped, Box(2, -3, 3), Box(2, 1, 3), Box(3, 2, -2),
          [Wrapped EXCEPT !.south = 2]}

(* Every order of the members, some missing, some twice.                    *)
Orders == SetToAllKPermutations({"type", "features", "bbox"})
          \union {<<"type", "features", "features">>, <<"features", "type", "bbox", "type">>}

Object(keys, type, bbox, fs) ==
    [kind |-> "object", keys |-> keys, type |-> type, bbox |-> bbox,
     features |-> fs, feature |-> Middle]
List(items) == [list |-> TRUE, items |-> items]
NoList == [list |-> FALSE, items |-> <<>>]

Collections ==
    {Object(keys, "FeatureCollection", b, List(items)) :
        keys \in SetToAllKPermutations({"type", "features", "bbox"}), b \in Boxes, items \in Items}
Others ==
    {Object(keys, type, Wrapped, f) : keys \in Orders,
        type \in {"FeatureCollection", "Feature", "Point"},
        f \in {NoList, List(<<Edge>>), List(<<[Edge EXCEPT !.broken = "duplicate"]>>)}}

(* The tools and their flags.                                               *)
Flags == [program |-> "filter", output |-> "collection", limit |-> -1, null |-> FALSE,
          outOfRange |-> FALSE, types |-> {}, has |-> {}, where |-> <<>>, box |-> NoBox,
          select |-> {}, drop |-> {}]
Sequence == [Flags EXCEPT !.program = "seq", !.output = "jsonl"]
Check(null, outOfRange) ==
    [Flags EXCEPT !.program = "check", !.null = null, !.outOfRange = outOfRange]

Auto(vs) == [mode |-> "auto", framed |-> FALSE, tool |-> Sequence,
             records |-> <<[terminated |-> FALSE, values |-> vs]>>]
Array(es) == [kind |-> "array", elements |-> es]
Scalar == [kind |-> "scalar"]

Some == {Object(<<"type">>, "Feature", NoBox, NoList),
         Object(<<"features", "type">>, "FeatureCollection", NoBox, List(<<Edge, Edge>>)),
         Object(<<"type", "features">>, "FeatureCollection", NoBox, List(<<Middle>>)), Scalar}
Values == Some \union {Array(es) : es \in SeqOf(Some, 2)} \union {Array(<<Array(<<>>)>>)}

(* Features that filters tell apart.                                        *)
Line == [Feature("line", NoBox, <<At(-3, 2), At(0, 2), At(3, 2)>>) EXCEPT !.shape = "LineString"]
Ends == [Feature("ends", NoBox, <<At(-3, 2), At(3, 2)>>) EXCEPT
            !.properties = [a |-> "1", b |-> "2"]]
Spot == [Middle EXCEPT !.properties = [a |-> "2"]]
North == Feature("north", NoBox, <<[At(2, 2) EXCEPT !.lat = 2]>>)
Far == Feature("far", NoBox, <<At(9, 2)>>)
Beyond == Feature("beyond", NoBox, <<[At(1, 2) EXCEPT !.lat = 3]>>)
Null == [Feature("null", NoBox, <<>>) EXCEPT !.null = TRUE]

Kinds == {Line, Ends, Spot, North}
FilterBoxes == {Box(2, -2, -1), Box(2, 1, 2), Box(2, 2, -2), Box(2, 1, -3), [Box(2, -4, 4) EXCEPT !.south = 1]}

Filters ==
    {[Flags EXCEPT !.box = b, !.limit = l] : b \in FilterBoxes, l \in {-1, 1}} \union
    {[Flags EXCEPT !.limit = l, !.output = o, !.select = s, !.has = {"a"}] :
        l \in -1..2, o \in {"seq", "jsonl", "collection"}, s \in {{}, {"b"}}} \union
    {[Flags EXCEPT !.where = [a |-> "1"], !.drop = {"a", "c"}],
     [Flags EXCEPT !.types = {"MultiPoint", "null"}, !.null = TRUE],
     [Flags EXCEPT !.types = {"MultiPoint"}, !.box = Box(2, 1, 3), !.null = TRUE]}

Streamed(items) ==
    Auto(<<Object(<<"type", "features">>, "FeatureCollection", NoBox, List(items))>>)
Lone(f) == Auto(<<[Object(<<"type">>, "Feature", NoBox, NoList) EXCEPT !.feature = f]>>)

Used(in, tools) == {[i EXCEPT !.tool = t] : i \in in, t \in tools}

ToolInputs ==
    Used({Streamed(s) : s \in SeqOf(Kinds, 2) \union
                               {<<Spot, Far>>, <<Spot, Beyond>>, <<Ends, Far, Ends>>,
                                <<Null, Ends>>, <<Ends, Spot, Ends>>, <<Line, Ends, Spot>>}}
         \union {Auto(<<Object(<<"bbox", "type", "features">>, "FeatureCollection", Wrapped,
                               List(<<Ends, Ends, Spot>>))>>),
                 Auto(<<Object(<<"features", "bbox", "type">>, "FeatureCollection", Wrapped,
                               List(<<Ends, Ends, Spot>>))>>)}, Filters)
    \union Used({Lone(f) : f \in Kinds \union {Far, Beyond, Null} \union Odd},
                {Flags, Sequence, Check(FALSE, FALSE), Check(TRUE, TRUE)})
    \union Used({Streamed(s) : s \in SeqOf(Kinds \union {Null, Far, Beyond, Edge}, 2) \union
                                      TupleOf({North, Spot, Solid}, 3)},
                {Check(n, o) : n, o \in BOOLEAN})

Inputs_ ==
    ToolInputs \union
    {Auto(<<o>>) : o \in Collections \union Others} \union
    {Auto(vs) : vs \in SeqOf(Values, 2)} \union
    {[mode |-> m, framed |-> f, tool |-> Sequence, records |-> rs] :
        m \in {"auto", "seq"}, f \in {TRUE},
        rs \in {<<[terminated |-> t, values |-> vs], [terminated |-> TRUE, values |-> <<v>>]>> :
                   t \in BOOLEAN, v \in Some, vs \in SeqOf(Some, 2)}} \union
    {[Auto(<<v>>) EXCEPT !.mode = "seq"] : v \in Some}
=============================================================================
