--------------------------- MODULE RingStitching ---------------------------
(***************************************************************************)
(* How the ways of an area relation become rings: stitchRings of           *)
(* pbf2geojson, which osm2geojson repeats as osmStitchRings (main.go:658). *)
(* A ring grows at either end by the first way that fits, turned round if  *)
(* need be, until it closes.  A position is compared, never computed with, *)
(* so that it can be any value.                                            *)
(*                                                                         *)
(* A definition whose name has an underscore is a fault: a mistaken form   *)
(* of the definition it stands before, which the properties must detect.   *)
(***************************************************************************)
EXTENDS Integers, FiniteSets, SequencesExt

CONSTANT
    Positions    \* where a way may pass

VARIABLES
    segments,    \* the ways of the relation with the role in hand
    remaining,   \* those not yet part of a ring
    ring,        \* the ring that grows, empty between rings
    rings,       \* the rings closed
    result       \* "", then what stitchRings returns

stitching == <<segments, remaining, ring, rings, result>>

Start(s) == s[1]
End(s) == s[Len(s)]

Checked(ways) ==
    IF \E i \in DOMAIN ways : Len(ways[i]) < 2 THEN "short segment" ELSE ""

(* stitchRings is called with these ways.                                  *)
Begin(ways) ==
    /\ segments' = ways /\ remaining' = ways /\ ring' = <<>> /\ rings' = <<>>
    /\ result' = Checked(ways)

TakeSegment ==
    /\ result = "" /\ ring = <<>> /\ remaining # <<>>
    /\ ring' = Head(remaining) /\ remaining' = Tail(remaining)
    /\ UNCHANGED <<segments, rings, result>>

Joins_Unturned(r, s) == End(r) = Start(s) \/ Start(r) = End(s)

(* Two pieces join where an end of one is an end of the other.              *)
Joins(r, s) == {Start(r), End(r)} \cap {Start(s), End(s)} # {}

Joined_Unturned(r, s) ==
    CASE End(r) = Start(s)   -> r \o Tail(s)
      [] End(r) = End(s)     -> r \o Tail(s)
      [] Start(r) = End(s)   -> Front(s) \o r
      [] OTHER               -> Front(Reverse(s)) \o r

(* joinCoordinates: the first of its four cases that holds.                 *)
Joined(r, s) ==
    IF End(r) \in {Start(s), End(s)}
    THEN r \o Tail(IF End(r) = Start(s) THEN s ELSE Reverse(s))
    ELSE Front(IF Start(r) = End(s) THEN s ELSE Reverse(s)) \o r

Open == ring # <<>> /\ Start(ring) # End(ring)

(* The first segment remaining that joins.                                  *)
FirstThatJoins(i) ==
    /\ Joins(ring, remaining[i])
    /\ \A k \in 1..i-1 : ~Joins(ring, remaining[k])

Join(i) ==
    /\ ring' = Joined(ring, remaining[i])
    /\ remaining' = RemoveAt(remaining, i)

Grow ==
    /\ result = "" /\ Open
    /\ \E i \in DOMAIN remaining : FirstThatJoins(i) /\ Join(i)
    /\ UNCHANGED <<segments, rings, result>>

Stuck ==
    /\ result = "" /\ Open
    /\ \A i \in DOMAIN remaining : ~Joins(ring, remaining[i])
    /\ result' = "open ring"
    /\ UNCHANGED <<segments, remaining, ring, rings>>

CloseRing ==
    /\ result = "" /\ ring # <<>> /\ ~Open
    /\ IF Len(ring) < 4
       THEN result' = "short ring" /\ UNCHANGED <<ring, rings>>
       ELSE rings' = Append(rings, ring) /\ ring' = <<>> /\ UNCHANGED result
    /\ UNCHANGED <<segments, remaining>>

Return ==
    /\ result = "" /\ ring = <<>> /\ remaining = <<>>
    /\ result' = "nil"
    /\ UNCHANGED <<segments, remaining, ring, rings>>

Stitch == TakeSegment \/ Grow \/ Stuck \/ CloseRing \/ Return

-----------------------------------------------------------------------------
(* Properties. *)

Pieces == rings \o remaining \o (IF ring = <<>> THEN <<>> ELSE <<ring>>)

(* The stretches of the pieces of P.                                        *)
Stretches(P) == UNION {{{p[i], p[i+1]} : i \in 1..Len(p)-1} : p \in ToSet(P)}

(* Where the piece p passes along a stretch, in either direction, and how   *)
(* often the pieces of P do.                                                *)
Runs(p, stretch) == {i \in 1..Len(p)-1 : {p[i], p[i+1]} = stretch}

Passes(P, stretch) ==
    Cardinality(UNION {{k} \X Runs(P[k], stretch) : k \in DOMAIN P})

(* No stretch of a way is lost, doubled or invented, whatever is turned     *)
(* round and wherever it is joined.                                         *)
StretchesConserved ==
    \A s \in Stretches(Pieces) \cup Stretches(segments) :
        Passes(Pieces, s) = Passes(segments, s)

Met == UNION {ToSet(s) : s \in ToSet(segments)}

Ends(p) == Cardinality({i \in DOMAIN segments : Start(segments[i]) = p})
         + Cardinality({i \in DOMAIN segments : End(segments[i]) = p})

(* Taking the first way that fits, without ever going back, is enough: the  *)
(* ways are found not to close only if an odd number of them ends           *)
(* somewhere, and succeed only if none does.                                *)
StuckMeansOdd ==
    /\ result = "open ring" => \E p \in Met : Ends(p) % 2 = 1
    /\ result = "nil" => \A p \in Met : Ends(p) % 2 = 0

=============================================================================
