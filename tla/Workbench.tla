------------------------------ MODULE Workbench ------------------------------
(***************************************************************************)
(* What one browser shows under a chosen version: the script tab itself,   *)
(* the comments under it or under a cut, and the video of a cut.  The      *)
(* parts share the id of the chosen version and no other state: a          *)
(* behaviour is one of the desk, with the others left alone, or one of a   *)
(* comment panel or of the player, to which the tab is an arbitrary        *)
(* sequence of choices.                                                    *)
(***************************************************************************)
EXTENDS Desk, CommentPanels, Player

VARIABLE part

benchVars == <<part, deskVars, panelVars, playerVars>>

DeskAway ==
    /\ script = <<>> /\ stage = "idea" /\ seenStage = "idea" /\ cached = None
    /\ desk = Unmounted /\ work = [h \in Slots |-> NoWork]
    /\ typed = Empty /\ unsafe = {} /\ crossed = FALSE

PanelAway == PanelInit /\ panel = "edit"

PlayerAway == PlayerInit

BenchInit ==
    \/ part = "desk" /\ DeskInit /\ PanelAway /\ PlayerAway
    \/ part = "comments" /\ PanelInit /\ DeskAway /\ PlayerAway
    \/ part = "player" /\ PlayerInit /\ DeskAway /\ PanelAway

BenchNext ==
    /\ UNCHANGED part
    /\ \/ part = "desk" /\ DeskNext /\ UNCHANGED <<panelVars, playerVars>>
       \/ part = "comments" /\ PanelNext /\ UNCHANGED <<deskVars, playerVars>>
       \/ part = "player" /\ PlayerNext /\ UNCHANGED <<deskVars, panelVars>>

BenchSpec == BenchInit /\ [][BenchNext]_benchVars

=============================================================================
