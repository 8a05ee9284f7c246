--------------------------- MODULE ProjectScreens ---------------------------
(***************************************************************************)
(* The screens about projects over one service: the board, the page of a   *)
(* project, and its tab with the activity feed.  A browser shows one of    *)
(* them at a time, and the one it opens mounts with fresh state; what it   *)
(* left behind on another is Somebody to it.  The board and the page read  *)
(* the rows of `projects`, the feed those of `activities` and no others.   *)
(***************************************************************************)
EXTENDS Board, ProjectPage, ActivityFeed

VARIABLE screen

screensVars == <<screen, boardVars, pageVars, rowVars, feedVars>>

BoardUnmounted ==
    /\ cards = <<>> /\ status = "ready" /\ filter = NoFilter /\ loads = <<>>
    /\ drag = [d \in Drags |-> NoDrag] /\ create = NoCreate
    /\ told = [p \in Projects |-> 0] /\ clean = TRUE

PageUnmounted ==
    /\ page = [status |-> "loading", copy |-> 0] /\ open = "brief"
    /\ calls = <<>> /\ form = NoForm
    /\ heard = 0 /\ apart = TRUE

ScreensInit ==
    /\ RowsInit /\ FeedInit
    /\ \/ screen = "board" /\ BoardMounted /\ PageUnmounted
       \/ screen = "project" /\ PageMounted /\ BoardUnmounted
       \/ screen = "activity" /\ BoardUnmounted /\ PageUnmounted

ScreensNext ==
    /\ UNCHANGED screen
    /\ \/ screen = "board" /\ BoardStep /\ UNCHANGED <<pageVars, feedVars>>
       \/ screen = "project" /\ PageStep /\ UNCHANGED <<boardVars, feedVars>>
       \/ /\ screen # "activity" /\ Somebody
          /\ UNCHANGED <<boardVars, pageVars, feedVars>>
       \/ /\ screen = "activity" /\ FeedNext
          /\ UNCHANGED <<boardVars, pageVars, rowVars>>

ScreensSpec == ScreensInit /\ [][ScreensNext]_screensVars

=============================================================================
