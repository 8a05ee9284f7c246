---------------------------- MODULE ProjectStore ----------------------------
(***************************************************************************)
(* The project row, its activity trail, and the database session of a      *)
(* request: app/models/base.py, project_service.py, activity_service.py    *)
(* and the project routes.                                                 *)
(*                                                                         *)
(* A request loads the project once, when its access dependency runs, and  *)
(* every guard after that reads the loaded copy.  The session runs at READ *)
(* COMMITTED and takes no lock on the read, so other requests commit       *)
(* between the load and the commit.  At the commit only the columns whose  *)
(* assigned value differs from the loaded one are sent (Merge).  The row   *)
(* lock an UPDATE takes orders the writers of a row, so one atomic step    *)
(* per commit keeps every outcome.                                         *)
(***************************************************************************)
EXTENDS Access, Naturals, Sequences

CONSTANTS
    Requests,     \* slots for the requests in flight at one moment
    Targets,      \* the stages the board moves projects to (a bound for TLC)
    Titles,       \* abstract contents of the columns PATCH edits
    NoUser,       \* SQL NULL in a user column
    MaxTrail      \* bound on the length of the activity trail

Stages == {"idea", "script_drafting", "script_review", "script_locked",
           "location_scouting", "casting", "shoot_scheduled", "shoot_done",
           "editing", "final_review", "approved_published"}

NoStage == "none"

ASSUME StoreAssumption ==
    /\ Targets \subseteq Stages
    /\ Titles # {}
    /\ NoUser \notin Users
    /\ MaxTrail \in Nat

VARIABLES
    project,      \* the committed row of `projects`
    trail,        \* the committed rows of `activities`, in commit order
    req           \* what each request holds in its session

storeVars == <<project, trail, req>>

-----------------------------------------------------------------------------
\* Rows and sessions.

\* lockedAt is 0 for NULL; a lock stamps it with the position its entry takes
\* in the trail, so that no two stamps are equal, as no two datetime.now() are.
Row == [stage: Stages, lockedAt: Nat, lockedBy: Users \cup {NoUser},
        deleted: BOOLEAN, title: Titles]

Actions == {"project.created", "project.updated", "project.stage_changed",
            "project.deleted", "project.restored", "script.version_created",
            "script.submitted", "script.locked", "script.unlocked",
            "edit.uploaded", "edit.approved", "edit.changes_requested",
            "location.created", "location.updated", "location.confirmed",
            "location.unconfirmed", "location.photo_added", "location.deleted",
            "cast.created", "cast.updated", "cast.confirmed",
            "cast.unconfirmed", "cast.release_uploaded", "cast.deleted",
            "shoot.created", "shoot.updated", "shoot.transitioned",
            "shoot.call_sheet_uploaded", "shoot.deleted"}

\* `to` is metadata["to"], or the stage the action implies: an entry without
\* that key names a stage when the handler that wrote it moves the project.
Entry == [action: Actions, actor: Users,
          from: Stages \cup {NoStage}, to: Stages \cup {NoStage}]

Note(action, u) ==
    [action |-> action, actor |-> u, from |-> NoStage, to |-> NoStage]

StageNote(action, u, from, to) ==
    [action |-> action, actor |-> u, from |-> from, to |-> to]

\* Broken on purpose: the metadata names the stages the wrong way round.
StageChangedBackwards(u, from, to) ==
    StageNote("project.stage_changed", u, to, from)

StageChanged(u, from, to) == StageNote("project.stage_changed", u, from, to)

FirstTitle == CHOOSE t \in Titles : TRUE

FreshProject ==
    [stage |-> "idea", lockedAt |-> 0, lockedBy |-> NoUser,
     deleted |-> FALSE, title |-> FirstTitle]

Idle == [on |-> FALSE, user |-> Creator, row |-> FreshProject]

Request == [on: BOOLEAN, user: Users, row: Row]

\* One column at flush: sent only when it differs from what was loaded.
Column(current, loaded, assigned) ==
    IF assigned = loaded THEN current ELSE assigned

Merge(current, loaded, assigned) ==
    [stage    |-> Column(current.stage, loaded.stage, assigned.stage),
     lockedAt |-> Column(current.lockedAt, loaded.lockedAt, assigned.lockedAt),
     lockedBy |-> Column(current.lockedBy, loaded.lockedBy, assigned.lockedBy),
     deleted  |-> Column(current.deleted, loaded.deleted, assigned.deleted),
     title    |-> Column(current.title, loaded.title, assigned.title)]

Loaded(r) == req[r].row
Caller(r) == req[r].user

\* A request whose endpoint works on a live project the caller can reach.
Serving(r, level) ==
    /\ req[r].on
    /\ ~Loaded(r).deleted
    /\ CanAccess(Caller(r), level)

\* session.commit(): the row and its activity entries become visible at once.
Commit(r, assigned, entries) ==
    /\ Len(trail) + Len(entries) =< MaxTrail
    /\ project' = Merge(project, Loaded(r), assigned)
    /\ trail' = trail \o entries
    /\ req' = [req EXCEPT ![r] = Idle]

-----------------------------------------------------------------------------
\* The life of a request.

\* The access dependency: a deleted project is visible to a restore only.
Open(r, u) ==
    /\ ~req[r].on
    /\ IF project.deleted THEN Role[u] \in AdminRoles ELSE CanAccess(u, "view")
    /\ req' = [req EXCEPT ![r] = [on |-> TRUE, user |-> u, row |-> project]]
    /\ UNCHANGED <<project, trail>>

\* The session closes without a commit: the request was a read, was refused,
\* changed nothing, lost its client, hit a constraint or met a deadlock.
Leave(r) ==
    /\ req[r].on
    /\ req' = [req EXCEPT ![r] = Idle]
    /\ UNCHANGED <<project, trail>>

MoveStage(r, target) ==
    /\ Serving(r, "view")
    /\ CanMoveTo(Caller(r), target)
    /\ Loaded(r).stage # target
    /\ Commit(r, [Loaded(r) EXCEPT !.stage = target],
              <<StageChanged(Caller(r), Loaded(r).stage, target)>>)

UpdateProject(r, title) ==
    /\ Serving(r, "edit")
    /\ Loaded(r).title # title
    /\ Commit(r, [Loaded(r) EXCEPT !.title = title],
              <<Note("project.updated", Caller(r))>>)

SoftDelete(r) ==
    /\ Serving(r, "manage")
    /\ Commit(r, [Loaded(r) EXCEPT !.deleted = TRUE],
              <<Note("project.deleted", Caller(r))>>)

\* Broken on purpose: a restored project starts over without saying so.
RestoreStartingOver(r) ==
    /\ req[r].on
    /\ Role[Caller(r)] \in AdminRoles
    /\ Loaded(r).deleted
    /\ Commit(r, [Loaded(r) EXCEPT !.deleted = FALSE, !.stage = "idea"],
              <<Note("project.restored", Caller(r))>>)

Restore(r) ==
    /\ req[r].on
    /\ Role[Caller(r)] \in AdminRoles
    /\ Loaded(r).deleted
    /\ Commit(r, [Loaded(r) EXCEPT !.deleted = FALSE],
              <<Note("project.restored", Caller(r))>>)

ProjectEndpoint(r) ==
    \/ \E target \in Targets : MoveStage(r, target)
    \/ \E title \in Titles : UpdateProject(r, title)
    \/ SoftDelete(r)
    \/ Restore(r)

\* POST /projects has committed.
StoreInit ==
    /\ project = FreshProject
    /\ trail = <<StageNote("project.created", Creator, NoStage, "idea")>>
    /\ req = [r \in Requests |-> Idle]

StoreNext ==
    \E r \in Requests :
        \/ \E u \in Users : Open(r, u)
        \/ Leave(r)
        \/ ProjectEndpoint(r)

StoreSpec == StoreInit /\ [][StoreNext]_storeVars

-----------------------------------------------------------------------------
\* Properties of the store, whatever endpoints are composed with it.

\* Types of the row, the trail and the sessions.
StoreTypeOK ==
    /\ project \in Row
    /\ trail \in Seq(Entry)
    /\ req \in [Requests -> Request]

\* The activity trail tells the stage: the last committed entry that names a
\* stage names the one the row has, however stale the writers were.
StageMatchesTrail ==
    \E i \in DOMAIN trail :
        /\ trail[i].to = project.stage
        /\ \A j \in DOMAIN trail : j > i => trail[j].to = NoStage

\* Publishing is the CEO's alone: a published project got there by the last
\* stage change, and a CEO made it (can_user_move_to_stage, approve_edit).
PublishedByCeo ==
    project.stage = "approved_published" =>
        \E i \in DOMAIN trail :
            /\ trail[i].to = "approved_published"
            /\ Role[trail[i].actor] = "ceo"
            /\ \A j \in DOMAIN trail : j > i => trail[j].to = NoStage

\* What a step appended to the trail, by action.
Recorded(actions) ==
    \E i \in DOMAIN trail' : i > Len(trail) /\ trail'[i].action \in actions

AuditedStep ==
    /\ Len(trail') >= Len(trail)
    /\ SubSeq(trail', 1, Len(trail)) = trail
    /\ project'.title # project.title => Recorded({"project.updated"})
    /\ project'.deleted # project.deleted =>
         Recorded({"project.deleted", "project.restored"})
    /\ project'.stage # project.stage =>
         \E i \in DOMAIN trail' :
             i > Len(trail) /\ trail'[i].to = project'.stage
    /\ (project'.lockedAt # project.lockedAt
        \/ project'.lockedBy # project.lockedBy) =>
         Recorded({"script.locked", "script.unlocked"})

\* "Every mutating endpoint should call record()" and no request reverts a
\* column it does not own: each column changes only together with an entry of
\* an action that is about that column, and entries are never rewritten.
ChangesAreAudited == [][AuditedStep]_<<project, trail>>

=============================================================================
