------------------------------ MODULE Entirety ------------------------------
(***************************************************************************)
(* main of geojson2entirety: with -test it files leaves and walks them,      *)
(* otherwise it converts.                                                  *)
(***************************************************************************)
EXTENDS EntiretyFiles, TreeIndex

VARIABLE program

vars == <<program, fileVars, treeVars>>

Init ==
    \/ /\ program = "test" /\ TreeInit(LeafInputs)
       /\ FilesInit({[values |-> <<>>, limit |-> -1, mode |-> "all"]})
    \/ /\ program = "convert" /\ TreeInit({<<>>}) /\ FilesInit(FileInputs)

Test == program = "test" /\ TreeNext /\ UNCHANGED <<program, fileVars>>
Convert == program = "convert" /\ FilesNext /\ UNCHANGED <<program, treeVars>>

Returned ==
    /\ IF program = "test" THEN treeStep = "done" ELSE step = "done"
    /\ UNCHANGED vars

Next == Test \/ Convert \/ Returned

Spec == Init /\ [][Next]_vars
=============================================================================
