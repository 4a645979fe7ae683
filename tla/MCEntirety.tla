----------------------------- MODULE MCEntirety -----------------------------
(* What Entirety reads under TLC.                                           *)
EXTENDS Entirety

TypeFirst == <<"type", "geometry", "properties">>
TypeLast == <<"properties", "geometry", "type">>
Malformed == [kind |-> "malformed"]
Scalar == [kind |-> "scalar"]
Array(elements) == [kind |-> "array", elements |-> elements]

(* Names of no byte, one, and two that differ in length.                    *)
Name(text) == [string |-> TRUE, text |-> text]
Object(type, keys, text, n) ==
    [kind |-> "object", keys |-> keys, type |-> type, unsound |-> "", point |-> TRUE,
     named |-> Name(text), longitude |-> n, latitude |-> -n, features |-> Scalar]

A == Object("Feature", TypeFirst, <<1>>, 1)
B == Object("Feature", TypeLast, <<2, 2>>, 2)
Unnamed_ == Object("Feature", TypeFirst, <<>>, 3)
Foreign == Object("Feature", <<"features", "type", "geometry", "properties", "other">>, <<1>>, 4)

Bad == {Malformed, Scalar, Object("Feature", <<"type", "geometry">>, <<1>>, 1),
        Object("Feature", <<"geometry", "properties">>, <<1>>, 1),
        Object("Feature", <<"geometry", "type", "geometry", "properties">>, <<1>>, 1),
        [A EXCEPT !.unsound = "geometry"], [A EXCEPT !.point = FALSE],
        [A EXCEPT !.named.string = FALSE], Object("Other", TypeFirst, <<1>>, 1)}

Collection(keys, features) ==
    [Object("FeatureCollection", keys, <<>>, 0) EXCEPT !.features = features]

Orders == {<<"type", "features">>, <<"features", "type">>, <<"type", "features", "other">>,
           <<"features", "type", "features">>, <<"type">>}

Features_ == {A, B, Unnamed_, Foreign} \union Bad
Lists == {Array(s) : s \in {<<>>, <<A, Unnamed_>>, <<A, B>>} \union {<<f>> : f \in Features_}
                             \union {<<A, f>> : f \in Bad}}

Values_ ==
    Features_ \union Lists \union {Array(<<Collection(k, Array(<<A>>))>>) : k \in Orders}
    \union {Array(<<Array(<<A>>)>>)}
    \union {Collection(k, fs) : k \in Orders, fs \in Lists \union {Scalar, Malformed}}
    \union {[Collection(k, Array(<<A>>)) EXCEPT !.unsound = "other"] : k \in Orders}

In(vs, limit, mode) == [values |-> vs, limit |-> limit, mode |-> mode]

FileInputs_ ==
    {In(<<v>>, limit, "all") : v \in Values_, limit \in {-1, 1}} \union
    {In(vs, limit, mode) : vs \in SeqOf({A, B, Unnamed_}, 3), limit \in {-1, 0, 1, 2},
        mode \in {"all", "points", "tags"}} \union
    {In(<<A, v>>, limit, mode) : v \in {Array(<<B, Unnamed_>>), Malformed,
        Collection(<<"features", "type">>, Array(<<Unnamed_, B>>))},
        limit \in {-1, 1, 2}, mode \in {"all", "points", "tags"}}

(* Degrees of two parts, parts of two steps: coordinates from -2.5 to 2.5   *)
(* degrees.                                                                 *)
Leaf(text, longitude, latitude) ==
    [text |-> text, longitude |-> longitude, latitude |-> latitude]
LeafInputs_ ==
    {[i \in DOMAIN s |-> Leaf(i, s[i][1], s[i][2])] :
        s \in SeqOf({-6, -1, 0, 1} \X {-3, 0, 1}, 2) \union SeqOf({-1, 0, 1, 4} \X {1}, 4)
              \union SeqOf({1} \X {-1, 0, 1, 4}, 4)}

=============================================================================
