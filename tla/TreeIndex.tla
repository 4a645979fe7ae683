----------------------------- MODULE TreeIndex -----------------------------
(***************************************************************************)
(* The spatial index of geojson2entirety, which its built-in test packs    *)
(* and walks: leaves are filed under the degrees and millionths of their   *)
(* longitude and latitude, then packed into four arrays in the order of    *)
(* their keys.  A node of an array holds where its children begin in the   *)
(* next one; they end where those of the node after it begin, so that each *)
(* array but the last ends with a node that stands for no key.             *)
(*                                                                         *)
(* A coordinate is a number of the smallest steps that a leaf tells apart: *)
(* Fine of them make the millionth of a degree that a key tells apart, and *)
(* Parts of those a degree.                                                *)
(*                                                                         *)
(* A definition whose name has an underscore is a fault: a mistaken form   *)
(* of the definition it stands before, which the properties must detect.   *)
(***************************************************************************)
EXTENDS Integers, FiniteSets, SequencesExt

CONSTANTS
    Parts, Fine,
    LeafInputs    \* sequences of leaves: [text, longitude, latitude]

ASSUME TreeAssumption ==
    /\ Parts \in Nat \ {0} /\ Fine \in Nat \ {0}
    /\ \A ls \in LeafInputs : /\ ls \in Seq(ToSet(ls))
                             /\ \A i \in DOMAIN ls : /\ ls[i].longitude \in Int
                                                    /\ ls[i].latitude \in Int

VARIABLES
    leaves,       \* what is to be filed
    added,        \* how many of them are
    tree,         \* the leaves under each <<l1, l2, l3, l4>>
    packed,       \* mapPack: [L1, L2, L3, L4]
    walked,       \* the calls IterateMp has made: [x, y, leaf]
    treeStep      \* "add", "walk" or "done"

treeVars == <<leaves, added, tree, packed, walked, treeStep>>

-----------------------------------------------------------------------------
(* int(): towards zero.                                                     *)
Truncated(n, d) == IF n >= 0 THEN n \div d ELSE -((-n) \div d)

Degree(n) == Truncated(n, Parts * Fine)
Part(n) == Truncated(n - Degree(n) * Parts * Fine, Fine)

Keys(leaf) == <<Degree(leaf.longitude), Part(leaf.longitude),
                Degree(leaf.latitude), Part(leaf.latitude)>>

(* In what order the keys of nested maps come when each is sorted.          *)
Precedes(p, q) ==
    \E n \in DOMAIN p : p[n] < q[n] /\ \A m \in 1..n - 1 : p[m] = q[m]

Sorted(S) ==
    CHOOSE s \in [1..Cardinality(S) -> S] :
        \A i, j \in DOMAIN s : i < j => Precedes(s[i], s[j])

(* What the n-th array has a node for: the keys that lead to it and, in the *)
(* last one, its place among the leaves with all four.                      *)
Level(n) ==
    IF n = 4 THEN UNION {{Append(keys, i) : i \in DOMAIN tree[keys]} : keys \in DOMAIN tree}
    ELSE {SubSeq(keys, 1, n) : keys \in DOMAIN tree}

(* How many nodes of the next array there are before those of path: m2last, *)
(* m3last and m4last as buildFinal counts them.                             *)
Before(path, n) ==
    Cardinality({p \in Level(n) : Precedes(SubSeq(p, 1, Len(path)), path)})

Nodes_NoSentinel(n) ==
    LET paths == Sorted(Level(n))
    IN [i \in DOMAIN paths |-> [key |-> paths[i][n], index |-> Before(paths[i], n + 1)]]

(* One array, with the node that ends it.                                   *)
Nodes(n) ==
    LET paths == Sorted(Level(n))
    IN Append([i \in DOMAIN paths |->
                  [key |-> paths[i][n], index |-> Before(paths[i], n + 1)]],
              [key |-> 0, index |-> Cardinality(Level(n + 1))])

Packed ==
    LET places == Sorted(Level(4))
    IN [L1 |-> Nodes(1), L2 |-> Nodes(2), L3 |-> Nodes(3),
        L4 |-> [i \in DOMAIN places |-> tree[Front(places[i])][Last(places[i])]]]

(* IterateMp: the indices of the array below that a node spans, from 1.     *)
Span(nodes, i) == nodes[i].index + 1 .. nodes[i + 1].index

Walk(pack) ==
    LET calls == {c \in (1..Len(pack.L1) - 1) \X (1..Len(pack.L2) - 1)
                         \X (1..Len(pack.L3) - 1) \X DOMAIN pack.L4 :
                     /\ c[2] \in Span(pack.L1, c[1]) /\ c[3] \in Span(pack.L2, c[2])
                     /\ c[4] \in Span(pack.L3, c[3])}
        sorted == Sorted(calls)
    IN [n \in DOMAIN sorted |->
          LET c == sorted[n] IN
          [x |-> pack.L1[c[1]].key * Parts + pack.L2[c[2]].key,
           y |-> pack.L3[c[3]].key * Parts + Part(pack.L4[c[4]].latitude),
           leaf |-> pack.L4[c[4]]]]

-----------------------------------------------------------------------------
NoPack == [L1 |-> <<>>, L2 |-> <<>>, L3 |-> <<>>, L4 |-> <<>>]

TreeInit(inputs) ==
    /\ leaves \in inputs
    /\ added = 0 /\ tree = <<>> /\ packed = NoPack /\ walked = <<>> /\ treeStep = "add"

(* treeIndexAdd: leaves with the same keys are kept in the order they came. *)
TreeIndexAdd ==
    /\ treeStep = "add" /\ added < Len(leaves)
    /\ LET leaf == leaves[added + 1]
           there == IF Keys(leaf) \in DOMAIN tree THEN tree[Keys(leaf)] ELSE <<>>
       IN tree' = [keys \in DOMAIN tree \union {Keys(leaf)} |->
                     IF keys = Keys(leaf) THEN Append(there, leaf) ELSE tree[keys]]
    /\ added' = added + 1 /\ UNCHANGED <<leaves, packed, walked, treeStep>>

BuildFinal ==
    /\ treeStep = "add" /\ added = Len(leaves)
    /\ packed' = Packed /\ treeStep' = "walk"
    /\ UNCHANGED <<leaves, added, tree, walked>>

IterateMp ==
    /\ treeStep = "walk"
    /\ walked' = Walk(packed) /\ treeStep' = "done"
    /\ UNCHANGED <<leaves, added, tree, packed>>

TreeNext == TreeIndexAdd \/ BuildFinal \/ IterateMp

-----------------------------------------------------------------------------
(* A walk over the packed arrays meets every leaf that was filed, once, in  *)
(* the order of the keys and, where those are equal, of coming, and gives   *)
(* each the place it was filed under (buildFinal and IterateMp).            *)
WalkMeetsEveryLeaf ==
    treeStep = "done" =>
      LET came == Sorted({Append(Keys(leaves[i]), i) : i \in DOMAIN leaves})
      IN walked = [n \in DOMAIN came |->
                     LET leaf == leaves[Last(came[n])] IN
                     [x |-> Truncated(leaf.longitude, Fine),
                      y |-> Truncated(leaf.latitude, Fine), leaf |-> leaf]]

=============================================================================
