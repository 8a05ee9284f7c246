------------------------------- MODULE Board --------------------------------
(***************************************************************************)
(* The projects screen of one browser: useProjects, the kanban board, the  *)
(* filter bar and the create dialog.                                       *)
(*                                                                         *)
(* A dropped card moves at once; the answer of the server puts the row it  *)
(* sent in its place, a failure puts the whole list back as it was.  Lists *)
(* are asked for on every change of the filter, and their answers are not  *)
(* put in order.                                                           *)
(***************************************************************************)
EXTENDS ProjectRows, Gates

CONSTANTS
    MyRole,       \* the role of the signed-in user
    Drags,        \* slots for moves in flight
    Filters,      \* the settings of the filter bar that are used
    MaxInFlight   \* bound: requests of this screen in flight

Card   == [id: Projects, stage: Columns]
Filter == [mine: BOOLEAN, stage: Columns \cup {"all"}]

ASSUME BoardAssumption ==
    /\ IsFiniteSet(Drags) /\ Filters \subseteq Filter
    /\ MaxInFlight \in Nat \ {0}

VARIABLES
    cards,     \* the list of useProjects
    status,    \* its status
    filter,    \* the switch and the select of the filter bar
    loads,     \* list requests in flight, oldest first
    drag,      \* moves in flight
    create,    \* the submission of the create dialog
    told,      \* history: the latest commit about each project told to us
    clean      \* history: since the last lone load no two requests have met

boardVars == <<cards, status, filter, loads, drag, create, told, clean>>

NoDrag   == [on |-> FALSE, id |-> CHOOSE p \in Projects : TRUE,
             target |-> CHOOSE s \in Columns : TRUE, snapshot |-> <<>>,
             step |-> "asked", commit |-> 0]
NoCreate == [on |-> FALSE, id |-> CHOOSE p \in Projects : TRUE, commit |-> 0]

Load == [answer: 0..MaxCommits + 1, filter: Filter, met: BOOLEAN]

NoFilter == [mine |-> FALSE, stage |-> "all"]

InFlight == Len(loads) + Cardinality({d \in Drags : drag[d].on})
                       + IF create.on THEN 1 ELSE 0

\* list_projects: owner and stage are compared in the query.
Matches(p, row, f) ==
    row.here /\ (f.mine => row.mine) /\ (f.stage # "all" => row.stage = f.stage)

Listing(n, f) ==
    LET ids == {p \in Projects : Matches(p, log[n][p], f)}
    IN  [i \in 1..Cardinality(ids) |->
            LET p == SetToSeq(ids)[i] IN [id |-> p, stage |-> log[n][p].stage]]

\* prev.map((p) => p.id === id ? ... : p)
Patched(list, p, stage) ==
    [i \in DOMAIN list |->
        IF list[i].id = p THEN [list[i] EXCEPT !.stage = stage] ELSE list[i]]

\* A request starts: if others are in flight, they have met.
Meet(newLoads) ==
    /\ InFlight < MaxInFlight
    /\ clean' = (clean /\ InFlight = 0)
    /\ loads' = [i \in DOMAIN loads |-> [loads[i] EXCEPT !.met = TRUE]] \o newLoads

-----------------------------------------------------------------------------
\* useProjects.

\* reload(): on mount, on a change of the filter, and on "retry".
AskFor(f) ==
    /\ Meet(<<[answer |-> 0, filter |-> f, met |-> InFlight > 0]>>)
    /\ status' = "loading"
    /\ UNCHANGED <<cards, drag, create, told>>

SetFilter(f) == f # filter /\ filter' = f /\ AskFor(f) /\ UNCHANGED rowVars

Retry == status = "error" /\ AskFor(filter) /\ UNCHANGED <<filter, rowVars>>

ServeLoad(i) ==
    /\ loads[i].answer = 0
    /\ loads' = [loads EXCEPT ![i].answer = Len(log)]
    /\ UNCHANGED <<cards, status, filter, drag, create, told, clean, rowVars>>

DeliverLoad(i) ==
    /\ loads[i].answer # 0
    /\ cards' = Listing(loads[i].answer, loads[i].filter)
    /\ status' = "ready"
    /\ loads' = RemoveAt(loads, i)
    /\ clean' = ~loads[i].met
    /\ UNCHANGED <<filter, drag, create, told, rowVars>>

FailLoad(i) ==
    /\ status' = "error"
    /\ loads' = RemoveAt(loads, i)
    /\ UNCHANGED <<cards, filter, drag, create, told, clean, rowVars>>

-----------------------------------------------------------------------------
\* The board.

\* canDrop of a column: the user may move somebody's project into it.  It also
\* decides whether the cards of the column may be dragged out of it.
canDrop(stage) == \E isOwner \in BOOLEAN : canMoveToStage(MyRole, stage, isOwner)

\* onDragEnd, up to the request: the card moves, the list before it is kept.
Drop(i, target) ==
    /\ status = "ready"
    /\ \E d \in Drags : ~drag[d].on
    /\ target # cards[i].stage
    /\ canDrop(cards[i].stage) /\ canDrop(target)
    /\ canMoveToStage(MyRole, target, Current[cards[i].id].mine)
    /\ cards' = Patched(cards, cards[i].id, target)
    /\ drag' = [drag EXCEPT ![CHOOSE d \in Drags : ~drag[d].on] =
                  [on |-> TRUE, id |-> cards[i].id, target |-> target,
                   snapshot |-> cards, step |-> "asked", commit |-> 0]]
    /\ Meet(<<>>)
    /\ UNCHANGED <<status, filter, create, told, rowVars>>

\* POST /projects/{id}/stage; a row that is there already is left as it is.
ServeMove(d) ==
    /\ drag[d].on /\ drag[d].step = "asked"
    /\ Current[drag[d].id].here
    /\ IF Current[drag[d].id].stage = drag[d].target
       THEN UNCHANGED rowVars
       ELSE Commit(drag[d].id,
                   [Current[drag[d].id] EXCEPT !.stage = drag[d].target])
    /\ drag' = [drag EXCEPT ![d].step = "ok", ![d].commit = Len(log')]
    /\ UNCHANGED <<cards, status, filter, loads, create, told, clean>>

MoveDone(d) ==
    /\ drag[d].on /\ drag[d].step = "ok"
    /\ cards' = Patched(cards, drag[d].id,
                        log[drag[d].commit][drag[d].id].stage)
    /\ told' = [told EXCEPT ![drag[d].id] = Max({@, drag[d].commit})]
    /\ drag' = [drag EXCEPT ![d] = NoDrag]
    /\ UNCHANGED <<status, filter, loads, create, clean, rowVars>>

\* Broken on purpose: the card stays where it was dropped.
MoveFailedKept(d) ==
    /\ drag[d].on
    /\ drag' = [drag EXCEPT ![d] = NoDrag]
    /\ UNCHANGED <<cards, status, filter, loads, create, told, clean, rowVars>>

\* Refused, or the request or its answer is lost: setProjects(snapshot).
MoveFailed(d) ==
    /\ drag[d].on
    /\ cards' = drag[d].snapshot
    /\ drag' = [drag EXCEPT ![d] = NoDrag]
    /\ UNCHANGED <<status, filter, loads, create, told, clean, rowVars>>

-----------------------------------------------------------------------------
\* The create dialog, offered to CREATOR_ROLES; its button is disabled while
\* the form submits.

SubmitCreate(p) ==
    /\ MyRole \in CREATOR_ROLES
    /\ ~create.on /\ ~Current[p].here
    /\ create' = [on |-> TRUE, id |-> p, commit |-> 0]
    /\ Meet(<<>>)
    /\ UNCHANGED <<cards, status, filter, drag, told, rowVars>>

ServeCreate ==
    /\ create.on /\ create.commit = 0
    /\ Commit(create.id, [Current[create.id] EXCEPT !.here = TRUE])
    /\ create' = [create EXCEPT !.commit = Len(log')]
    /\ UNCHANGED <<cards, status, filter, loads, drag, told, clean>>

\* onCreated = prepend.
Created ==
    /\ create.on /\ create.commit # 0
    /\ cards' = <<[id |-> create.id,
                   stage |-> log[create.commit][create.id].stage]>> \o cards
    /\ told' = [told EXCEPT ![create.id] = create.commit]
    /\ create' = NoCreate
    /\ UNCHANGED <<status, filter, loads, drag, clean, rowVars>>

CreateFailed ==
    /\ create.on
    /\ create' = NoCreate
    /\ UNCHANGED <<cards, status, filter, loads, drag, told, clean, rowVars>>

-----------------------------------------------------------------------------
\* Mounting the screen, and leaving it.

BoardMounted ==
    /\ cards = <<>> /\ status = "loading" /\ filter = NoFilter
    /\ loads = <<[answer |-> 0, filter |-> NoFilter, met |-> FALSE]>>
    /\ drag = [d \in Drags |-> NoDrag] /\ create = NoCreate
    /\ told = [p \in Projects |-> 0] /\ clean = TRUE

Loading == \E i \in DOMAIN loads : ServeLoad(i) \/ DeliverLoad(i) \/ FailLoad(i)

Moving(d) == ServeMove(d) \/ MoveDone(d) \/ MoveFailed(d)

Creating == ServeCreate \/ Created \/ CreateFailed

BoardStep ==
    \/ \E f \in Filters : SetFilter(f)
    \/ Retry
    \/ Loading
    \/ \E i \in DOMAIN cards, target \in Columns : Drop(i, target)
    \/ \E d \in Drags : Moving(d)
    \/ \E p \in Projects : SubmitCreate(p)
    \/ Creating

-----------------------------------------------------------------------------
\* The shapes; the board says that it loads only while a list is on its way.
BoardTypeOK ==
    /\ RowsTypeOK
    /\ cards \in Seq(Card) /\ status \in {"loading", "ready", "error"}
    /\ filter \in Filter
    /\ loads \in Seq(Load) /\ Len(loads) =< MaxInFlight
    /\ status = "loading" => loads # <<>>
    /\ drag \in [Drags -> [on: BOOLEAN, id: Projects, target: Columns,
                           snapshot: Seq(Card), step: {"asked", "ok"},
                           commit: 0..MaxCommits + 1]]
    /\ create \in [on: BOOLEAN, id: Projects, commit: 0..MaxCommits + 1]
    /\ told \in [Projects -> 0..MaxCommits + 1] /\ clean \in BOOLEAN

\* At rest, if no two requests have met since the last list that was loaded
\* alone, every card stands where the service had the project when, or after,
\* it last answered this browser about it, and stands there once: a drop that
\* failed has left no trace and one that succeeded is not undone.
RestShowsTheBoard ==
    status = "ready" /\ InFlight = 0 /\ clean =>
        \A i \in DOMAIN cards :
            /\ \E n \in DOMAIN log :
                  /\ n >= told[cards[i].id]
                  /\ log[n][cards[i].id].here
                  /\ log[n][cards[i].id].stage = cards[i].stage
            /\ \A j \in DOMAIN cards : cards[j].id = cards[i].id => i = j

=============================================================================
