---------------------------- MODULE PreProduction ----------------------------
(***************************************************************************)
(* The locations, the cast and the shoots of a project: location_service,  *)
(* cast_service and shoot_service of app/services, with their routes.      *)
(*                                                                         *)
(* The three are alike: a request on a row loads the row first and its     *)
(* project after it, decides on both copies, and moves the project along   *)
(* when the row reaches a state that counts.  Confirming a cast member     *)
(* also reads two tables, while the UPDATE it has flushed holds the row's  *)
(* lock.                                                                   *)
(***************************************************************************)
EXTENDS ProjectStore, FiniteSets

CONSTANTS
    Locations, Cast, Shoots,    \* ids the rows of each table may get
    Details,                    \* abstract contents of the columns PATCH edits
    NoRow                       \* not an id

Ids == Locations \cup Cast \cup Shoots

ASSUME PreAssumption ==
    /\ Locations \cap Cast = {}
    /\ (Locations \cup Cast) \cap Shoots = {}
    /\ Details # {}
    /\ NoRow \notin Ids

VARIABLES
    child,      \* the committed rows, by id
    told,       \* history: the state the last entry about an id recorded
    held        \* the row a request loaded, and what it read since

preVars == <<child, told, held>>

States == {"unconfirmed", "confirmed", "scheduled", "in_progress", "wrapped"}

ChildRow == [state: States, detail: Details]

FirstDetail == CHOOSE d \in Details : TRUE

NewChild(c) ==
    [state  |-> IF c \in Shoots THEN "scheduled" ELSE "unconfirmed",
     detail |-> FirstDetail]

NoHold == [id |-> NoRow, seen |-> "nothing",
           row |-> [state |-> "unconfirmed", detail |-> FirstDetail]]

\* seen: how far the checks of a confirmation under way have come.
Hold == [id: Ids \cup {NoRow}, row: ChildRow,
         seen: {"nothing", "location", "everyone", "not_enough"}]

Created == [c \in Ids |-> IF c \in Locations THEN "location.created"
                          ELSE IF c \in Cast THEN "cast.created"
                          ELSE "shoot.created"]
Updated == [c \in Ids |-> IF c \in Locations THEN "location.updated"
                          ELSE IF c \in Cast THEN "cast.updated"
                          ELSE "shoot.updated"]
FileAdded == [c \in Ids |-> IF c \in Locations THEN "location.photo_added"
                            ELSE IF c \in Cast THEN "cast.release_uploaded"
                            ELSE "shoot.call_sheet_uploaded"]
Deleted == [c \in Ids |-> IF c \in Locations THEN "location.deleted"
                          ELSE IF c \in Cast THEN "cast.deleted"
                          ELSE "shoot.deleted"]
Confirmed == [c \in Ids |-> IF c \in Locations THEN "location.confirmed"
                            ELSE "cast.confirmed"]
Unconfirmed == [c \in Ids |-> IF c \in Locations THEN "location.unconfirmed"
                              ELSE "cast.unconfirmed"]

-----------------------------------------------------------------------------
\* Creating a row.

\* The commit of a row's entry, and of a stage change when it brings one.
RecordAndAdvance(r, action, advances, target) ==
    LET u == Caller(r)
        noted == <<Note(action, u)>>
    IN  \/ /\ advances
           /\ Commit(r, [Loaded(r) EXCEPT !.stage = target],
                     noted \o <<StageChanged(u, Loaded(r).stage, target)>>)
        \/ /\ ~advances
           /\ Commit(r, Loaded(r), noted)

EarlyStages == {"idea", "script_drafting", "script_review", "script_locked"}

CreateChild(r, c) ==
    /\ Serving(r, "edit")
    /\ held[r] = NoHold
    /\ c \notin DOMAIN told
    /\ child' = [d \in DOMAIN child \cup {c} |->
                   IF d = c THEN NewChild(c) ELSE child[d]]
    /\ told' = [d \in DOMAIN told \cup {c} |->
                  IF d = c THEN NewChild(c).state ELSE told[d]]
    /\ RecordAndAdvance(r, Created[c],
                        c \in Locations /\ Loaded(r).stage \in EarlyStages,
                        "location_scouting")
    /\ UNCHANGED held

-----------------------------------------------------------------------------
\* Working on a row.

\* get_location, get_cast_member, get_shoot: before the project is known.
LoadChild(r, u, c) ==
    /\ ~req[r].on /\ held[r] = NoHold
    /\ c \in DOMAIN child
    /\ held' = [held EXCEPT ![r] = [id |-> c, row |-> child[c],
                                    seen |-> "nothing"]]
    /\ req' = [req EXCEPT ![r].user = u]
    /\ UNCHANGED <<project, trail, child, told>>

\* _load_..._and_project
LoadProjectOfChild(r) ==
    /\ ~req[r].on /\ held[r] # NoHold
    /\ ~project.deleted
    /\ CanAccess(req[r].user, "edit")
    /\ req' = [req EXCEPT ![r].on = TRUE, ![r].row = project]
    /\ UNCHANGED <<project, trail, preVars>>

\* r works on a row of one of these tables, and no other request holds the lock
\* of that row.
Working(r, table) ==
    /\ req[r].on /\ held[r].id \in table
    /\ \A q \in Requests \ {r} :
         held[q].id = held[r].id => held[q].seen = "nothing"

\* The flush of the row: an UPDATE of a row that is gone fails, and like Merge
\* it sends the columns that differ from the loaded ones.
MergeChild(r, assigned) ==
    LET c == held[r].id
        loaded == held[r].row
    IN  /\ c \in DOMAIN child
        /\ child' = [child EXCEPT
                ![c].state  = Column(@, loaded.state, assigned.state),
                ![c].detail = Column(@, loaded.detail, assigned.detail)]
        /\ held' = [held EXCEPT ![r] = NoHold]

\* Broken on purpose: the call of record() is forgotten.
UpdateUnrecorded(r, detail) ==
    /\ Working(r, Ids)
    /\ held[r].seen = "nothing"
    /\ held[r].row.detail # detail
    /\ MergeChild(r, [held[r].row EXCEPT !.detail = detail])
    /\ Commit(r, Loaded(r), <<>>)
    /\ UNCHANGED told

\* PATCH records what changed, and nothing when nothing did.
UpdateChild(r, detail) ==
    /\ Working(r, Ids)
    /\ held[r].seen = "nothing"
    /\ held[r].row.detail # detail
    /\ MergeChild(r, [held[r].row EXCEPT !.detail = detail])
    /\ Commit(r, Loaded(r), <<Note(Updated[held[r].id], Caller(r))>>)
    /\ UNCHANGED told

\* A photo is a row that refers to its location, a release form and a call
\* sheet are columns; all three need the row to be there still.
AttachFile(r) ==
    /\ Working(r, Ids)
    /\ held[r].seen = "nothing"
    /\ MergeChild(r, held[r].row)
    /\ Commit(r, Loaded(r), <<Note(FileAdded[held[r].id], Caller(r))>>)
    /\ UNCHANGED told

\* The DELETE of a row that is gone is not an error, and is recorded.
DeleteChild(r) ==
    LET c == held[r].id
    IN  /\ Working(r, Ids)
        /\ held[r].seen = "nothing"
        /\ child' = [d \in DOMAIN child \ {c} |-> child[d]]
        /\ told' = [told EXCEPT ![c] = "deleted"]
        /\ held' = [held EXCEPT ![r] = NoHold]
        /\ Commit(r, Loaded(r), <<Note(Deleted[c], Caller(r))>>)

-----------------------------------------------------------------------------
\* Confirmations and transitions.

\* Broken on purpose: a confirmation of what is confirmed already goes through.
AlwaysDiffers(r, state) == TRUE

\* confirm_location and confirm_cast_member return early otherwise.
Differs(r, state) == held[r].row.state # state

SetState(r, state) ==
    /\ MergeChild(r, [held[r].row EXCEPT !.state = state])
    /\ told' = [told EXCEPT ![held[r].id] = state]

ConfirmLocation(r) ==
    /\ Working(r, Locations)
    /\ Differs(r, "confirmed")
    /\ SetState(r, "confirmed")
    /\ RecordAndAdvance(r, Confirmed[held[r].id],
                        Loaded(r).stage = "location_scouting", "casting")

Unconfirm(r) ==
    /\ Working(r, Locations \cup Cast)
    /\ held[r].seen = "nothing"
    /\ Differs(r, "unconfirmed")
    /\ SetState(r, "unconfirmed")
    /\ Commit(r, Loaded(r), <<Note(Unconfirmed[held[r].id], Caller(r))>>)

ConfirmedIn(table) ==
    {c \in DOMAIN child \cap table : child[c].state = "confirmed"}

\* Broken on purpose: the confirmation does not ask for a location.
SkipLocation(r) ==
    /\ Working(r, Cast)
    /\ held[r].seen = "nothing"
    /\ Differs(r, "confirmed")
    /\ Loaded(r).stage = "casting"
    /\ held[r].id \in DOMAIN child
    /\ held' = [held EXCEPT ![r].seen = "location"]
    /\ UNCHANGED <<storeVars, child, told>>

\* The first check of confirm_cast_member, after the flush.
FindLocation(r) ==
    /\ Working(r, Cast)
    /\ held[r].seen = "nothing"
    /\ Differs(r, "confirmed")
    /\ Loaded(r).stage = "casting"
    /\ held[r].id \in DOMAIN child
    /\ held' = [held EXCEPT ![r].seen =
                  IF ConfirmedIn(Locations) # {} THEN "location"
                                                 ELSE "not_enough"]
    /\ UNCHANGED <<storeVars, child, told>>

\* The second: the request sees its own confirmation, and of the others what is
\* committed.
ReadCast(r) ==
    /\ held[r].seen = "location"
    /\ held' = [held EXCEPT ![r].seen =
                  IF DOMAIN child \cap Cast \subseteq
                       ConfirmedIn(Cast) \cup {held[r].id}
                  THEN "everyone" ELSE "not_enough"]
    /\ UNCHANGED <<storeVars, child, told>>

ConfirmCast(r) ==
    /\ Working(r, Cast)
    /\ Differs(r, "confirmed")
    /\ \/ Loaded(r).stage # "casting"
       \/ held[r].seen \in {"everyone", "not_enough"}
    /\ SetState(r, "confirmed")
    /\ RecordAndAdvance(r, Confirmed[held[r].id], held[r].seen = "everyone",
                        "shoot_scheduled")

\* _VALID_TRANSITIONS: one way on, and none from wrapped.
NextStatus == [state \in {"scheduled", "in_progress"} |->
                 IF state = "scheduled" THEN "in_progress" ELSE "wrapped"]

TransitionShoot(r) ==
    LET state == held[r].row.state
    IN  /\ Working(r, Shoots)
        /\ state \in DOMAIN NextStatus
        /\ SetState(r, NextStatus[state])
        /\ RecordAndAdvance(r, "shoot.transitioned",
                            /\ NextStatus[state] = "wrapped"
                            /\ Loaded(r).stage = "shoot_scheduled",
                            "shoot_done")

-----------------------------------------------------------------------------
\* The other endpoints.

OpenPre(r, u) ==
    /\ held[r] = NoHold
    /\ Open(r, u)
    /\ UNCHANGED preVars

LeavePre(r) ==
    /\ req[r].on \/ held[r] # NoHold
    /\ req' = [req EXCEPT ![r] = Idle]
    /\ held' = [held EXCEPT ![r] = NoHold]
    /\ UNCHANGED <<project, trail, child, told>>

BoardStep(r) ==
    /\ held[r] = NoHold
    /\ ProjectEndpoint(r)
    /\ UNCHANGED preVars

PreInit ==
    /\ StoreInit
    /\ child = [c \in {} |-> NewChild(c)]
    /\ told = [c \in {} |-> "deleted"]
    /\ held = [r \in Requests |-> NoHold]

PreNext ==
    \E r \in Requests :
        \/ \E u \in Users : OpenPre(r, u)
        \/ LeavePre(r)
        \/ BoardStep(r)
        \/ \E c \in Ids : CreateChild(r, c)
        \/ \E u \in Users, c \in DOMAIN child : LoadChild(r, u, c)
        \/ LoadProjectOfChild(r)
        \/ \E d \in Details : UpdateChild(r, d)
        \/ AttachFile(r)
        \/ DeleteChild(r)
        \/ ConfirmLocation(r)
        \/ Unconfirm(r)
        \/ FindLocation(r)
        \/ ReadCast(r)
        \/ ConfirmCast(r)
        \/ TransitionShoot(r)

PreSpec == PreInit /\ [][PreNext]_<<storeVars, preVars>>

-----------------------------------------------------------------------------
\* Properties.

\* Types of the rows and of what requests hold of them.
PreTypeOK ==
    /\ StoreTypeOK
    /\ DOMAIN child \subseteq DOMAIN told /\ DOMAIN told \subseteq Ids
    /\ \A c \in DOMAIN child : child[c] \in ChildRow
    /\ \A c \in DOMAIN told : told[c] \in States \cup {"deleted"}
    /\ held \in [Requests -> Hold]

\* The last committed entry about a row tells its state, however stale the row's
\* writers were: a request records a confirmation or a transition only if it
\* assigns a state other than the one it loaded (the early returns of the three
\* services), so its UPDATE carries the column.  The order is that of the
\* commits; the feed sorts by created_at and may have another entry on top.
ChildMatchesTrail ==
    /\ \A c \in DOMAIN child : child[c].state = told[c]
    /\ \A c \in DOMAIN told \ DOMAIN child : told[c] = "deleted"

ChildAuditedStep ==
    \A c \in DOMAIN told' :
        /\ (c \in DOMAIN child') # (c \in DOMAIN child) =>
             Recorded({Created[c], Deleted[c]})
        /\ c \in DOMAIN child \cap DOMAIN child' =>
             /\ child'[c].state # child[c].state =>
                  Recorded({Confirmed[c], Unconfirmed[c], "shoot.transitioned"})
             /\ child'[c].detail # child[c].detail => Recorded({Updated[c]})

\* No request reverts a column of a row it did not set out to change: each
\* column changes only with an entry of an action about it.
ChildChangesAreAudited == [][ChildAuditedStep]_<<trail, child, told>>

\* No confirmation advances a project for which no location was ever confirmed,
\* however the checks of confirm_cast_member interleave with other requests.
AdvanceHasEvidence ==
    [][Recorded({"cast.confirmed"}) /\ Recorded({"project.stage_changed"}) =>
         \E i \in DOMAIN trail : trail[i].action = "location.confirmed"]_trail

=============================================================================
