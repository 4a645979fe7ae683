------------------------- MODULE SequentialConverter -------------------------
(***************************************************************************)
(* What a Wikipedia tool promises, with no goroutine in sight: pages are   *)
(* read until the input ends or the limit is reached, the pages found to   *)
(* have content are written in the order they were read, the pages that    *)
(* failed are saved in any order, and the conversion succeeds only with    *)
(* nothing left to read, write or save.                                    *)
(***************************************************************************)
EXTENDS Integers, SequencesExt

CONSTANTS Kinds, Limit

NoLimit == -1

VARIABLES input,    \* the outcomes of the pages read
          ended,    \* whether the input has been found to have no more
          output,   \* the sequence numbers of the pages written
          saved,    \* the sequence numbers of the pages saved
          result    \* "running" until the conversion returns

absVars == <<input, ended, output, saved, result>>

PagesOf(kind) == {n \in 0..Len(input)-1 : input[n + 1] = kind}

Init == /\ input = <<>> /\ ended = FALSE
        /\ output = <<>> /\ saved = <<>> /\ result = "running"

MayRead == ~ended /\ (Limit = NoLimit \/ Len(input) < Limit)

Read == /\ MayRead
        /\ \E kind \in Kinds : input' = Append(input, kind)
        /\ UNCHANGED <<ended, output, saved, result>>

End == /\ MayRead
       /\ ended' = TRUE
       /\ UNCHANGED <<input, output, saved, result>>

Write == \E n \in PagesOf("found") \ ToSet(output) :
            /\ \A m \in PagesOf("found") : m < n => m \in ToSet(output)
            /\ output' = Append(output, n)
            /\ UNCHANGED <<input, ended, saved, result>>

Save == \E n \in PagesOf("broken") \ ToSet(saved) :
            /\ saved' = Append(saved, n)
            /\ UNCHANGED <<input, ended, output, result>>

Succeed == /\ ended \/ Len(input) = Limit
           /\ PagesOf("found") \subseteq ToSet(output)
           /\ PagesOf("broken") \subseteq ToSet(saved)
           /\ result' = "ok"

Fail == result' \in {"writer failed", "error file failed", "parser failed"}

Next == /\ result = "running"
        /\ \/ Read \/ End \/ Write \/ Save
           \/ (Succeed \/ Fail) /\ UNCHANGED <<input, ended, output, saved>>

Spec == Init /\ [][Next]_absVars
=============================================================================
