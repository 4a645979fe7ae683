--------------------------- MODULE MCPbfConverter ---------------------------
(* Small files for PbfConverter. *)
EXTENDS PbfConverter

Members(kind, ids) == [i \in DOMAIN ids |-> [kind |-> kind, id |-> ids[i]]]

NodeOf(id, tags) == [kind |-> "node", id |-> id, tags |-> tags, refs |-> <<>>]
WayOf(id, tags, nodes) ==
    [kind |-> "way", id |-> id, tags |-> tags, refs |-> Members("node", nodes)]
RelationOf(id, tags, refs) ==
    [kind |-> "relation", id |-> id, tags |-> tags, refs |-> refs]

Orders(S) == UNION {SetToSeqs(T) : T \in SUBSET S}

FileNodes == {<<>>, <<NodeOf(1, {})>>, <<NodeOf(1, {}), NodeOf(2, {"match"})>>,
              <<NodeOf(1, {"outside"}), NodeOf(2, {})>>}
FileWays  == {WayOf(1, {}, <<1, 2>>), WayOf(2, {"match"}, <<2, 2>>)}

\* Relation 1 is selected; 2 and 3 are reached through it, if at all.
RelationSets ==
    {{RelationOf(1, {"match"}, Members("relation", <<2>>)),
      RelationOf(2, {}, two), RelationOf(3, {}, three)} :
        two \in {Members("way", <<1>>), Members("relation", <<3>>),
                 Members("node", <<1>>) \o Members("relation", <<3>>)},
        three \in {Members("way", <<1, 2>>), Members("relation", <<1>>),
                   Members("node", <<2>>) \o Members("unknown", <<1>>)}}
    \cup {{RelationOf(1, {"match", "area"}, Members("relation", <<2>>)),
           RelationOf(2, {"match"}, Members("way", <<1>>))}}

\* Nodes, then ways, then relations, any of them missing.
SortedFiles ==
    {n \o w \o r :
        n \in FileNodes,
        w \in {v \in Orders(FileWays) : Len(v) # 1 \/ v[1].id = 1},
        r \in UNION {Orders(R) : R \in RelationSets}}

\* Few elements in every order.
MixedFiles ==
    Orders({NodeOf(1, {"match"}), NodeOf(2, {}), NodeOf(3, {})} \cup
           {WayOf(1, {"match"}, <<1, 3>>)} \cup
           {RelationOf(1, {"match"},
                       Members("way", <<1>>) \o Members("relation", <<2>>)),
            RelationOf(2, {}, Members("node", <<2>>))})

SortedAndMixedFiles == SortedFiles \cup MixedFiles

UnsortedFiles == Orders({NodeOf(1, {}), NodeOf(2, {}),
                         WayOf(1, {"match"}, <<1, 1>>),
                         WayOf(2, {"match"}, <<2, 1>>)})
=============================================================================
