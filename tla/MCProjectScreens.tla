-------------------------- MODULE MCProjectScreens --------------------------
(***************************************************************************)
(* One assistant director's browser: a board with a project of theirs and  *)
(* one that can be created, the page of the first of them, or its feed,    *)
(* with two transactions at a time, four entries and pages of one: a page  *)
(* may end between the two entries of one transaction, or of two that      *)
(* started at the same time, and one may commit behind the cursor.         *)
(***************************************************************************)
EXTENDS ProjectScreens, TLC

CONSTANTS film, clip, d1, d2, w1, w2

MCTexts == "title" :> {"a", "b"} @@ "description" :> {"", "a"}

MCRow(here) == [here |-> here, mine |-> TRUE, stage |-> "idea",
                brief |-> [f \in Fields |-> "a"]]

MCSeed == film :> MCRow(TRUE) @@ clip :> MCRow(FALSE)

MCFilters == {NoFilter, [mine |-> FALSE, stage |-> "idea"]}

=============================================================================
