------------------------ MODULE OsmConversionsProofs ------------------------
(***************************************************************************)
(* Theorems about OsmConversions: for every document, of any length, and   *)
(* wherever the input or output of the two passes fails, what they drop    *)
(* does not show in what they write.                                       *)
(***************************************************************************)
EXTENDS OsmConversions, OsmConverterProofs

(* What is said of a conversion, said of the single pass.                   *)
SP == INSTANCE OsmConverterProofs WITH
    Mode <- "streaming",
    pass <- pass2, pos <- pos2, uses <- uses2,
    relationWays <- relationWays2, relations <- relations2, nodes <- nodes2,
    ways <- ways2, output <- output2, err <- err2

-----------------------------------------------------------------------------
(* The two conversions. *)

(* What is assumed of the inputs has nothing to do with the way they are    *)
(* converted.                                                               *)
LEMMA SameAssumption == SP!OsmAssumption
  <1>1. SP!NotNumeric = NotNumeric /\ SP!Ref = Ref
    BY DEF SP!NotNumeric, NotNumeric, SP!Ref, Ref
  <1>2. SP!Element = Element
    BY <1>1 DEF SP!Element, Element
  <1>3. \A e : SP!NamesNodes(e) <=> NamesNodes(e)
    BY <1>1 DEF SP!NamesNodes, NamesNodes, SP!ToSet, ToSet
  <1>4. \A e : SP!WayOfNodes(e) <=> WayOfNodes(e)
    BY DEF SP!WayOfNodes, WayOfNodes, SP!ToSet, ToSet
  <1> QED
    BY <1>1, <1>2, <1>3, <1>4, OsmAssumption DEF SP!OsmAssumption, SP!ToSet, ToSet


(* The single pass builds the same relations of the same members.           *)
LEMMA SameRelation ==
  \A e : /\ Streaming!RelationBuilds(e) <=> SP!RelationBuilds(e)
         /\ Streaming!Members(e) = SP!Members(e)
  <1>1. \A i : (Streaming!Known(i) <=> SP!Known(i)) /\ Streaming!ByID(i) = SP!ByID(i)
    BY DEF Streaming!Known, SP!Known, Streaming!ByID, SP!ByID, Streaming!ToSet, SP!ToSet
  <1>2. \A e : Streaming!Below(e) = SP!Below(e)
    BY DEF Streaming!Below, SP!Below, Streaming!NestedIDs, SP!NestedIDs, Streaming!Known,
           SP!Known, Streaming!ByID, SP!ByID, Streaming!ToSet, SP!ToSet, Streaming!RefIDs,
           SP!RefIDs
  <1>3. \A e : Streaming!Expansion(e) = SP!Expansion(e)
    BY <1>1, <1>2 DEF Streaming!Expansion, SP!Expansion
  <1>4. \A e : Streaming!Expands(e) <=> SP!Expands(e)
    BY <1>1, <1>2, <1>3 DEF Streaming!Expands, SP!Expands, Streaming!NotNumeric, SP!NotNumeric
  <1>5. \A e, kind : Streaming!MemberIDs(e, kind) = SP!MemberIDs(e, kind)
    BY <1>3 DEF Streaming!MemberIDs, SP!MemberIDs, Streaming!RefIDs, SP!RefIDs,
                Streaming!ToSet, SP!ToSet
  <1>6. \A s, i : (Streaming!Held(s, i) <=> SP!Held(s, i)) /\ Streaming!Get(s, i) = SP!Get(s, i)
    BY DEF Streaming!Held, SP!Held, Streaming!Get, SP!Get
  <1>7. \A e : Streaming!RelationBuilds(e) <=> SP!RelationBuilds(e)
    BY <1>3, <1>4, <1>5, <1>6
       DEF Streaming!RelationBuilds, SP!RelationBuilds, Streaming!NotNumeric, SP!NotNumeric
  <1>8. \A e : Streaming!Members(e) = SP!Members(e)
    BY <1>5, <1>6 DEF Streaming!Members, SP!Members
  <1> QED
    BY <1>7, <1>8

(* A step of the single pass is a step of one that something is proved of.  *)
LEMMA SameStep ==
  ASSUME Streaming!Step, pass2 # "index"
  PROVE  SP!Step
  <1>1. ~(Streaming!IndexNode \/ Streaming!IndexWay \/ Streaming!IndexRelation)
    BY DEF Streaming!IndexNode, Streaming!IndexWay, Streaming!IndexRelation, Streaming!At
  <1>2. Streaming!IndexEnd => SP!IndexEnd
    BY DEF Streaming!IndexEnd, SP!IndexEnd, Streaming!index, SP!index, Streaming!stores, SP!stores
  <1>3. Streaming!ConvertNode => SP!ConvertNode
    BY DEF Streaming!ConvertNode, SP!ConvertNode, Streaming!At, SP!At, Streaming!Advance,
           SP!Advance, Streaming!Fail, SP!Fail, Streaming!NotNumeric, SP!NotNumeric,
           Streaming!Put, SP!Put, Streaming!Key, SP!Key, Streaming!Write, SP!Write,
           Streaming!Feature, SP!Feature, Streaming!index, SP!index
  <1>4. Streaming!ConvertWay => SP!ConvertWay
    BY DEF Streaming!ConvertWay, SP!ConvertWay, Streaming!At, SP!At, Streaming!Advance,
           SP!Advance, Streaming!Fail, SP!Fail, Streaming!NotNumeric, SP!NotNumeric,
           Streaming!Put, SP!Put, Streaming!Key, SP!Key, Streaming!Write, SP!Write,
           Streaming!Feature, SP!Feature, Streaming!WayResolves, SP!WayResolves,
           Streaming!Numeric, SP!Numeric, Streaming!ToSet, SP!ToSet, Streaming!RefIDs,
           SP!RefIDs, Streaming!Held, SP!Held, Streaming!Positions, SP!Positions,
           Streaming!Get, SP!Get, Streaming!StoredWay, SP!StoredWay, Streaming!stores, SP!stores
  <1>5. Streaming!ConvertRelation => SP!ConvertRelation
    BY DEF Streaming!ConvertRelation, SP!ConvertRelation, Streaming!At, SP!At,
           Streaming!Advance, SP!Advance, Streaming!index, SP!index, Streaming!stores, SP!stores
  <1>6. Streaming!ConvertEnd => SP!ConvertEnd
    BY DEF Streaming!ConvertEnd, SP!ConvertEnd, Streaming!Fail, SP!Fail, Streaming!NotNumeric,
           SP!NotNumeric, Streaming!ToSet, SP!ToSet, Streaming!index, SP!index,
           Streaming!stores, SP!stores
  <1>7. Streaming!WriteRelation => SP!WriteRelation
    BY SameRelation
       DEF Streaming!WriteRelation, SP!WriteRelation, Streaming!Write, SP!Write,
           Streaming!Feature, SP!Feature, Streaming!Key, SP!Key, Streaming!Advance, SP!Advance,
           Streaming!Fail, SP!Fail, Streaming!index, SP!index, Streaming!stores, SP!stores
  <1>8. Streaming!Close => SP!Close
    BY DEF Streaming!Close, SP!Close, Streaming!index, SP!index, Streaming!stores, SP!stores
  <1> QED
    BY <1>1, <1>2, <1>3, <1>4, <1>5, <1>6, <1>7, <1>8 DEF Streaming!Step, SP!Step

(* A step of the two together is a step or no step of each.                 *)
LEMMA EachStep ==
  ASSUME [BothNext]_<<vars, second>>, pass2 # "index"
  PROVE  [Next]_vars /\ [SP!Next]_(SP!vars)
  <1>1. file' = file /\ UNCHANGED second => UNCHANGED SP!vars
    BY DEF second, SP!vars, SP!index, SP!stores
  <1>2. CASE ConvertFile
    <2>1. file' = file
      BY <1>2 DEF ConvertFile, Step, IndexNode, IndexWay, IndexRelation, IndexEnd, ConvertNode,
         ConvertWay, ConvertRelation, ConvertEnd, WriteRelation, Close, InputOutputFails
    <2> QED
      BY <1>1, <1>2, <2>1 DEF ConvertFile, Next
  <1>3. CASE ConvertPipe
    BY <1>3, SameStep DEF ConvertPipe, SP!Next
  <1>4. CASE BothReturned
    <2>1. Returned /\ file' = file
      BY <1>4 DEF BothReturned, Returned, vars
    <2> QED
      BY <1>1, <1>4, <2>1 DEF BothReturned, Next
  <1>5. CASE UNCHANGED <<vars, second>>
    <2>1. UNCHANGED vars /\ UNCHANGED second /\ file' = file
      BY <1>5 DEF vars
    <2> QED
      BY <1>1, <2>1
  <1> QED
    BY <1>2, <1>3, <1>4, <1>5 DEF BothNext

(* The single pass has no index, and does not fail for its input or output. *)
SinglePass ==
    file \in Files /\ pass2 # "index" /\ err2 # "input or output"

(* Each of the two conversions is one.                                      *)
LEMMA EachConverts ==
  BothSpec => Spec /\ SP!Spec /\ []SinglePass
  <1>1. BothInit => Init /\ SP!Init /\ SinglePass
    BY DEF BothInit, Init, Streaming!Init, SP!Init, SinglePass
  <1>2. SinglePass /\ [BothNext]_<<vars, second>> => SinglePass'
    <2> SUFFICES ASSUME SinglePass, [BothNext]_<<vars, second>>  PROVE SinglePass'
      OBVIOUS
    <2>1. CASE ConvertFile \/ BothReturned \/ UNCHANGED <<vars, second>>
      <3>1. file' = file
        BY <2>1 DEF ConvertFile, Step, IndexNode, IndexWay, IndexRelation, IndexEnd, ConvertNode,
           ConvertWay, ConvertRelation, ConvertEnd, WriteRelation, Close, InputOutputFails,
           BothReturned, Returned, vars
      <3>2. err2' = err2 /\ pass2' = pass2
        BY <2>1 DEF ConvertFile, BothReturned, second
      <3> QED
        BY <3>1, <3>2 DEF SinglePass
    <2>2. CASE ConvertPipe
      <3>1. file' = file
        BY <2>2 DEF ConvertPipe, vars
      <3>2. err2' \in {err2, "build", "reference"}
            /\ pass2' \in {pass2, "convert", "relations", "done"}
        BY <2>2 DEF ConvertPipe, Streaming!Step, Streaming!IndexNode, Streaming!IndexWay,
           Streaming!IndexRelation, Streaming!IndexEnd, Streaming!ConvertNode,
           Streaming!ConvertWay, Streaming!ConvertRelation, Streaming!ConvertEnd,
           Streaming!WriteRelation, Streaming!Close, Streaming!Advance, Streaming!Fail
      <3> QED
        BY <3>1, <3>2 DEF SinglePass
    <2> QED
      BY <2>1, <2>2 DEF BothNext
  <1>3. SinglePass /\ [BothNext]_<<vars, second>> => [Next]_vars /\ [SP!Next]_(SP!vars)
    BY EachStep DEF SinglePass
  <1> QED
    BY <1>1, <1>2, <1>3, PTL DEF BothSpec, Spec, SP!Spec

-----------------------------------------------------------------------------
(* What they return. *)

(* The elements of a kind are as many, where they are the same.             *)
LEMMA SameRank ==
  \A f, K, i : SP!Among(f, K, i) = Among(f, K, i) /\ SP!Rank(f, K, i) = Rank(f, K, i)
  <1>1. \A S : SP!Cardinality(S) = Cardinality(S)
    BY DEF SP!Cardinality, Cardinality
  <1>2. \A f, K, i : SP!Among(f, K, i) = Among(f, K, i)
    BY DEF SP!Among, Among
  <1> QED
    BY <1>1, <1>2 DEF SP!Rank, Rank

(* What is said of the file is the same for both.                           *)
LEMMA SameOfFile ==
  /\ SP!Upto = Upto
  /\ SP!AllGood(file, Upto) <=> AllGood(file, Upto)
  /\ \A i : SP!Good(file, i) <=> Good(file, i)
  /\ \A rels : SP!RelsOf(file, rels, Upto) <=> RelsOf(file, rels, Upto)
  /\ \A out, n : SP!WrittenOut(file, out, Upto, n) <=> WrittenOut(file, out, Upto, n)
  <1>1. SP!Upto = Upto
    BY DEF SP!Upto, Upto
  <1>2. \A e, kind : SP!RefIDs(e, kind) = RefIDs(e, kind)
    BY DEF SP!RefIDs, RefIDs, SP!ToSet, ToSet
  <1>3. \A e : SP!Numeric(e) <=> Numeric(e)
    BY DEF SP!Numeric, Numeric, SP!ToSet, ToSet, SP!NotNumeric, NotNumeric
  <1>4. \A i, key : SP!Met(file, i, key) <=> Met(file, i, key)
    BY DEF SP!Met, Met, SP!Key, Key
  <1>5. \A i : SP!Good(file, i) <=> Good(file, i)
    BY <1>2, <1>3, <1>4 DEF SP!Good, Good, SP!NotNumeric, NotNumeric
  <1>6. SP!AllGood(file, Upto) <=> AllGood(file, Upto)
    BY <1>5 DEF SP!AllGood, AllGood
  <1>7. \A K, i : SP!Rank(file, K, i) = Rank(file, K, i)
    BY SameRank
  <1>8. \A K, i : SP!Among(file, K, i) = Among(file, K, i)
    BY SameRank
  <1>9. \A rels : SP!RelsOf(file, rels, Upto) <=> RelsOf(file, rels, Upto)
    BY <1>7, <1>8 DEF SP!RelsOf, RelsOf, SP!Grouped, Grouped, SP!Element, Element, SP!Ref, Ref
  <1>10. \A i, of : SP!Resolved(file, i, of) <=> Resolved(file, i, of)
    BY DEF SP!Resolved, Resolved, SP!IsLast, IsLast, SP!Key, Key
  <1>11. \A i, x : SP!IsFeature(file, i, x) <=> IsFeature(file, i, x)
    BY <1>10 DEF SP!IsFeature, IsFeature, SP!Feature, Feature, SP!Key, Key
  <1>12. \A out, n : SP!WrittenOut(file, out, Upto, n) <=> WrittenOut(file, out, Upto, n)
    BY <1>7, <1>8, <1>11 DEF SP!WrittenOut, WrittenOut, SP!IsSeq, IsSeq, SP!Written, Written
  <1> QED
    BY <1>1, <1>5, <1>6, <1>9, <1>12

(* And so is what is said of the relations, where they are the same.        *)
LEMMA SameOfRelations ==
  ASSUME relations2 = relations
  PROVE  /\ \A e : SP!FileBuilds(e) <=> FileBuilds(e)
         /\ \A out, n : SP!GroupedOut(out, n) <=> GroupedOut(out, n)
  <1>1. \A i : (SP!Known(i) <=> Known(i)) /\ SP!ByID(i) = ByID(i)
    BY DEF SP!Known, Known, SP!ByID, ByID, SP!ToSet, ToSet
  <1>2. \A e : SP!Below(e) = Below(e)
    BY DEF SP!Below, Below, SP!NestedIDs, NestedIDs, SP!Known, Known, SP!ByID, ByID, SP!ToSet,
           ToSet, SP!RefIDs, RefIDs
  <1>3. \A e : SP!Expansion(e) = Expansion(e)
    BY <1>1, <1>2 DEF SP!Expansion, Expansion
  <1>4. \A e : SP!Expands(e) <=> Expands(e)
    BY <1>1, <1>2, <1>3 DEF SP!Expands, Expands, SP!NotNumeric, NotNumeric
  <1>5. \A e, kind : SP!MemberIDs(e, kind) = MemberIDs(e, kind)
    BY <1>3 DEF SP!MemberIDs, MemberIDs, SP!RefIDs, RefIDs, SP!ToSet, ToSet
  <1>6. \A key : SP!Met(file, Upto, key) <=> Met(file, Upto, key)
    BY DEF SP!Met, Met, SP!Key, Key
  <1>7. \A e : SP!FileBuilds(e) <=> FileBuilds(e)
    BY <1>3, <1>4, <1>5, <1>6, SameOfFile
       DEF SP!FileBuilds, FileBuilds, SP!NotNumeric, NotNumeric
  <1>8. \A i, key : SP!IsLast(file, i, Upto, key) <=> IsLast(file, i, Upto, key)
    BY DEF SP!IsLast, IsLast, SP!Key, Key
  <1>9. \A i, x : SP!WayAt(file, i, x) <=> WayAt(file, i, x)
    BY DEF SP!WayAt, WayAt, SP!Resolved, Resolved, SP!IsLast, IsLast, SP!Key, Key
  <1>10. \A e, m : /\ SP!WayMember(e, m) <=> WayMember(e, m)
                   /\ SP!NodeMember(e, m) <=> NodeMember(e, m)
    BY <1>5, <1>8, <1>9, SameOfFile
       DEF SP!WayMember, WayMember, SP!NodeMember, NodeMember
  <1>11. \A M, e : SP!IsMembers(M, e) <=> IsMembers(M, e)
    BY <1>10 DEF SP!IsMembers, IsMembers
  <1>12. \A e, x : SP!RelationOut(e, x) <=> RelationOut(e, x)
    BY <1>11 DEF SP!RelationOut, RelationOut, SP!Feature, Feature, SP!Key, Key
  <1>13. SP!Rank(file, SP!Written, SP!Upto) = Rank(file, Written, Upto)
    BY SameOfFile, SameRank DEF SP!Written, Written
  <1> QED
    BY <1>7, <1>12, <1>13 DEF SP!GroupedOut, GroupedOut

(* A list of relations and an output that a conversion of the file that     *)
(* succeeds has.                                                            *)
Success(rels, out) ==
    /\ AllGood(file, Upto) /\ RelsOf(file, rels, Upto)
    /\ \A e \in ToSet(rels) : e.id # NotNumeric
    /\ WrittenOut(file, out, Upto, Len(rels))

(* A node, a way or a relation that cannot be built.                        *)
Unbuilt(rels) ==
    \/ \E i \in DOMAIN file : ~Good(file, i)
    \/ RelsOf(file, rels, Upto) /\ \E e \in ToSet(rels) : ~FileBuilds(e)

(* The two passes.                                                          *)
LEMMA TwoPasses ==
  ASSUME pass = "done", Outcome
  PROVE  /\ err \in {"nil", "build", "reference", "input or output"}
         /\ err = "nil" => Success(relations, output) /\ GroupedOut(output, Len(relations))
         /\ err = "build" => Unbuilt(relations)
  BY DEF Outcome, Success, Unbuilt

(* The single pass, whose relations are those of the two if both list all.  *)
LEMMA OnePass ==
  ASSUME SinglePass, pass2 = "done", SP!Outcome
  PROVE  /\ err2 \in {"nil", "build", "reference"}
         /\ err2 = "nil" => /\ Success(relations2, output2)
                            /\ relations2 = relations =>
                                 GroupedOut(output2, Len(relations))
         /\ err2 = "build" =>
              \/ \E i \in DOMAIN file : ~Good(file, i)
              \/ /\ RelsOf(file, relations2, Upto)
                 /\ relations2 = relations => \E e \in ToSet(relations) : ~FileBuilds(e)
         /\ err2 = "reference" =>
              RelsOf(file, relations2, Upto) /\ \E e \in ToSet(relations2) : e.id = NotNumeric
  <1>1. \A s : SP!ToSet(s) = ToSet(s)
    BY DEF SP!ToSet, ToSet
  <1>2. SP!NotNumeric = NotNumeric
    BY DEF SP!NotNumeric, NotNumeric
  <1>3. err2 \in {"nil", "build", "reference"}
    BY DEF SP!Outcome, SinglePass
  <1>4. ASSUME err2 = "nil"
        PROVE  Success(relations2, output2)
               /\ (relations2 = relations => GroupedOut(output2, Len(relations)))
    <2>1. /\ SP!AllGood(file, SP!Upto) /\ SP!RelsOf(file, relations2, SP!Upto)
          /\ \A e \in SP!ToSet(relations2) : e.id # SP!NotNumeric
          /\ SP!WrittenOut(file, output2, SP!Upto, Len(relations2))
          /\ SP!GroupedOut(output2, Len(relations2))
      BY <1>4 DEF SP!Outcome
    <2>2. Success(relations2, output2)
      BY <1>1, <1>2, <2>1, SameOfFile DEF Success
    <2>3. relations2 = relations => GroupedOut(output2, Len(relations))
      BY <2>1, SameOfRelations
    <2> QED
      BY <2>2, <2>3
  <1>5. ASSUME err2 = "build"
        PROVE  \/ \E i \in DOMAIN file : ~Good(file, i)
               \/ /\ RelsOf(file, relations2, Upto)
                  /\ relations2 = relations => \E e \in ToSet(relations) : ~FileBuilds(e)
    <2>1. \/ \E i \in DOMAIN file : ~SP!Good(file, i)
          \/ /\ SP!RelsOf(file, relations2, SP!Upto)
             /\ \E e \in SP!ToSet(relations2) : ~SP!FileBuilds(e)
      BY <1>5 DEF SP!Outcome
    <2> QED
      BY <1>1, <2>1, SameOfFile, SameOfRelations
  <1>6. ASSUME err2 = "reference"
        PROVE  RelsOf(file, relations2, Upto) /\ \E e \in ToSet(relations2) : e.id = NotNumeric
    <2>1. /\ SP!RelsOf(file, relations2, SP!Upto)
          /\ \E e \in SP!ToSet(relations2) : e.id = SP!NotNumeric
      BY <1>6 DEF SP!Outcome
    <2> QED
      BY <1>1, <1>2, <2>1, SameOfFile
  <1> QED
    BY <1>3, <1>4, <1>5, <1>6

(* What holds of the file holds of both, so that they agree.                *)
LEMMA ConversionsAgree ==
  ASSUME SinglePass, Outcome, SP!Outcome
  PROVE  IndexedIsStreaming /\ OnlyTheIndexIsStricter
  <1> SUFFICES ASSUME Both  PROVE IndexedIsStreaming /\ OnlyTheIndexIsStricter
    BY DEF IndexedIsStreaming, OnlyTheIndexIsStricter
  <1>1. pass = "done" /\ pass2 = "done" /\ file \in Files
    BY DEF Both, SinglePass
  <1>2. Upto \in Nat \ {0} /\ DOMAIN file = 1..Upto-1
    BY <1>1, FileElements DEF Upto
  <1>3. \A rels : RelsOf(file, rels, Upto) /\ RelsOf(file, relations, Upto) => rels = relations
    BY <1>2, RelsUnique
  <1>4. AllGood(file, Upto) => \A i \in DOMAIN file : Good(file, i)
    BY <1>2 DEF AllGood
  <1>5. \A out : GroupedOut(out, Len(relations)) /\ RelsOf(file, relations, Upto) =>
                  \A e \in ToSet(relations) : FileBuilds(e)
    BY DEF GroupedOut, RelsOf, ToSet
  <1>6. ASSUME err = "nil"  PROVE err2 = "nil" /\ output = output2
    <2>1. Success(relations, output) /\ GroupedOut(output, Len(relations))
      BY <1>1, <1>6, TwoPasses
    <2>2. err2 # "build"
      BY <1>1, <1>3, <1>4, <1>5, <2>1, OnePass DEF Success
    <2>3. err2 # "reference"
      BY <1>1, <1>3, <2>1, OnePass DEF Success
    <2>4. err2 = "nil"
      BY <1>1, <2>2, <2>3, OnePass
    <2>5. Success(relations2, output2)
      BY <1>1, <2>4, OnePass
    <2>6. relations2 = relations
      BY <1>3, <2>1, <2>5 DEF Success
    <2>7. GroupedOut(output2, Len(relations))
      BY <1>1, <2>4, <2>6, OnePass
    <2>8. Len(relations) \in Nat
      BY <2>1 DEF Success, RelsOf
    <2>9. output = output2
      BY <1>1, <2>1, <2>5, <2>6, <2>7, <2>8, OutputUnique DEF Success
    <2> QED
      BY <2>4, <2>9
  <1>7. ASSUME err2 = "nil"  PROVE err \in {"nil", "reference", "input or output"}
    <2>1. Success(relations2, output2)
      BY <1>1, <1>7, OnePass
    <2>2. ASSUME err = "build"  PROVE FALSE
      <3>1. RelsOf(file, relations, Upto) /\ \E e \in ToSet(relations) : ~FileBuilds(e)
        BY <1>1, <1>4, <2>1, <2>2, TwoPasses DEF Unbuilt, Success
      <3>2. relations2 = relations
        BY <1>3, <2>1, <3>1 DEF Success
      <3>3. GroupedOut(output2, Len(relations))
        BY <1>1, <1>7, <3>2, OnePass
      <3> QED
        BY <1>5, <3>1, <3>3
    <2> QED
      BY <1>1, <2>2, TwoPasses
  <1> QED
    BY <1>6, <1>7 DEF IndexedIsStreaming, OnlyTheIndexIsStricter

(* Every behaviour of the two has all of it.                                *)
LEMMA BothAgree == BothSpec => [](IndexedIsStreaming /\ OnlyTheIndexIsStricter)
  <1>1. Outcome /\ SP!Outcome /\ SinglePass => IndexedIsStreaming /\ OnlyTheIndexIsStricter
    BY ConversionsAgree
  <1> QED
    BY <1>1, EachConverts, OutcomeFromFile, SP!OutcomeFromFile, SameAssumption, PTL

(* If the two passes convert a document, of any length, the single pass     *)
(* converts it too and writes the same features, made of the same nodes and *)
(* ways, in the same order: what convertIndexedOSM drops is never missed.   *)
THEOREM IndexedIsStreamingCorrect == BothSpec => []IndexedIsStreaming
  BY BothAgree, PTL

(* And one that the single pass converts fails in two passes only because   *)
(* of a reference that indexOSMReferences rejects, or of its input or       *)
(* output.                                                                  *)
THEOREM OnlyTheIndexIsStricterCorrect == BothSpec => []OnlyTheIndexIsStricter
  BY BothAgree, PTL
=============================================================================
