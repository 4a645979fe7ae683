------------------------------ MODULE OsmFiles ------------------------------
(***************************************************************************)
(* Small OSM XML documents: what the runs of OsmConverter and of           *)
(* OsmConversions convert.                                                 *)
(***************************************************************************)
EXTENDS Integers, FiniteSets, SequencesExt

To(kind, ids) == [i \in DOMAIN ids |-> [kind |-> kind, id |-> ids[i]]]
Node(id, tags) == [kind |-> "node", id |-> id, tags |-> tags, refs |-> <<>>]
Way(id, ids) ==
    [kind |-> "way", id |-> id, tags |-> {}, refs |-> To("node", ids)]
Relation(id, tags, refs) ==
    [kind |-> "relation", id |-> id, tags |-> tags, refs |-> refs]

MCNodeIDs == {1, 2}

(* Two versions of a node, and nodes that are not on the globe.             *)
Nodes == {Node(1, {}), Node(1, {"newer"}), Node(2, {}), Node(2, {"outside"})}

(* A way through one node twice, two versions of another, and one whose     *)
(* reference is not a number.                                               *)
Ways == {Way(10, <<1, 1>>), Way(11, <<1, 2>>), Way(11, <<2, 1, 2>>),
         Way(11, <<1, -1>>)}

(* Areas, one of which also refers to something unknown and one of which    *)
(* does not close; collections, nested, cyclic, and empty.                  *)
Relations ==
    {Relation(20, {"area"}, To("way", <<10>>)),
     Relation(20, {"area"}, To("way", <<10>>) \o To("unknown", <<1>>)),
     Relation(20, {"area", "open"}, To("way", <<10>>)),
     Relation(20, {}, To("relation", <<21>>) \o To("node", <<2>>)),
     Relation(21, {}, To("relation", <<20>>) \o To("node", <<1>>)),
     Relation(21, {"area"}, To("relation", <<20>>) \o To("way", <<11>>)),
     Relation(21, {}, <<>>)}

(* The ways to put up to n members of S one after the other.                *)
Arrangements(S, n) ==
    UNION {SetToSeqs(T) : T \in {U \in SUBSET S : Cardinality(U) <= n}}

(* Nodes, then ways, then relations.                                        *)
MCSorted ==
    {n \o w \o r : n \in Arrangements(Nodes, 2) , w \in Arrangements(Ways, 2),
                   r \in Arrangements(Relations, 2)}

(* Any order.                                                               *)
MCUnsorted == Arrangements(Nodes \cup Ways \cup Relations, 3)

MCFiles == MCSorted \cup MCUnsorted
=============================================================================
