----------------------------- MODULE ScriptPhase -----------------------------
(***************************************************************************)
(* The script of a project: app/services/script_service.py and the routes  *)
(* of app/routes/scripts.py that save, import, submit, lock and unlock.    *)
(*                                                                         *)
(* Saving takes two steps besides the load: the SELECT of the highest      *)
(* version number, and the commit of a row with the next one, which the    *)
(* unique constraint uq_script_version_number refuses when another request *)
(* took that number in between.  Importing a Google Doc runs the same      *)
(* steps with a Drive download between the load and the SELECT.            *)
(***************************************************************************)
EXTENDS ProjectStore, FiniteSets

CONSTANT MaxVersions    \* bound on the versions of the script

ASSUME ScriptAssumption == MaxVersions \in Nat

VARIABLES
    versions,   \* the committed rows of `script_versions`
    current,    \* the version scripts.current_version_id points to, 0 for none
    pin         \* what a request read of the versions before it writes

scriptVars == <<versions, current, pin>>

Version == [number: Nat, author: Users, submitted: BOOLEAN]

Purposes == {"none", "save", "submit"}
Pin == [purpose: Purposes, number: Nat]
NoPin == [purpose |-> "none", number |-> 0]

Numbers == {v.number : v \in versions}

\* coalesce(max(version_number), 0)
HighestNumber ==
    CHOOSE n \in Numbers \cup {0} : \A m \in Numbers : m =< n

-----------------------------------------------------------------------------
\* Saving a version.

\* Broken on purpose: the lock is not looked at.
NumberVersionUnlocked(r) ==
    /\ Serving(r, "edit")
    /\ pin[r] = NoPin
    /\ HighestNumber < MaxVersions
    /\ pin' = [pin EXCEPT ![r] = [purpose |-> "save",
                                  number  |-> HighestNumber + 1]]
    /\ UNCHANGED <<storeVars, versions, current>>

\* _get_or_create_script and _next_version_number.  A script row and its
\* first version commit together, so "no script yet" is "no version yet", and
\* the unique constraint on scripts.project_id fails with the one on number 1.
NumberVersion(r) ==
    /\ Serving(r, "edit")
    /\ pin[r] = NoPin
    /\ Loaded(r).stage # "script_locked"
    /\ HighestNumber < MaxVersions
    /\ pin' = [pin EXCEPT ![r] = [purpose |-> "save",
                                  number  |-> HighestNumber + 1]]
    /\ UNCHANGED <<storeVars, versions, current>>

\* Broken on purpose: no unique constraint.
NumberIsAlwaysFree(n) == TRUE

\* uq_script_version_number
NumberIsFree(n) == n \notin Numbers

\* Broken on purpose: a save that loses the race replaces the winner's row.
UpsertVersion(r) ==
    /\ pin[r].purpose = "save"
    /\ versions' = {v \in versions : v.number # pin[r].number} \cup
         {[number |-> pin[r].number, author |-> Caller(r), submitted |-> FALSE]}
    /\ current' = pin[r].number
    /\ pin' = [pin EXCEPT ![r] = NoPin]
    /\ Commit(r, Loaded(r), <<Note("script.version_created", Caller(r))>>)

SaveVersion(r) ==
    LET n == pin[r].number
        u == Caller(r)
        first == Loaded(r).stage = "idea"
        saved == <<Note("script.version_created", u)>>
    IN  /\ pin[r].purpose = "save"
        /\ NumberIsFree(n)
        /\ versions' = versions \cup
             {[number |-> n, author |-> u, submitted |-> FALSE]}
        /\ current' = n
        /\ pin' = [pin EXCEPT ![r] = NoPin]
        /\ \/ /\ first
              /\ Commit(r, [Loaded(r) EXCEPT !.stage = "script_drafting"],
                        <<StageChanged(u, "idea", "script_drafting")>> \o saved)
           \/ /\ ~first
              /\ Commit(r, Loaded(r), saved)

-----------------------------------------------------------------------------
\* Stage transitions of the script.

\* submit_script reads the latest version, and other requests may save a newer
\* one before it commits.
FindLatest(r) ==
    /\ Serving(r, "edit")
    /\ pin[r] = NoPin
    /\ Loaded(r).stage = "script_drafting"
    /\ pin' = [pin EXCEPT ![r] = [purpose |-> "submit",
                                  number  |-> HighestNumber]]
    /\ UNCHANGED <<storeVars, versions, current>>

\* submitted_at, set on version n.
Stamped(v, n) == IF v.number = n THEN [v EXCEPT !.submitted = TRUE] ELSE v

SubmitScript(r) ==
    /\ pin[r].purpose = "submit"
    /\ versions' = {Stamped(v, pin[r].number) : v \in versions}
    /\ pin' = [pin EXCEPT ![r] = NoPin]
    /\ Commit(r, [Loaded(r) EXCEPT !.stage = "script_review"],
              <<StageNote("script.submitted", Caller(r),
                          Loaded(r).stage, "script_review")>>)
    /\ UNCHANGED current

LockScript(r) ==
    /\ Serving(r, "view")
    /\ pin[r] = NoPin
    /\ Role[Caller(r)] \in DirectorRoles
    /\ Loaded(r).stage \in {"script_drafting", "script_review"}
    /\ Commit(r, [Loaded(r) EXCEPT !.stage = "script_locked",
                                   !.lockedAt = Len(trail) + 1,
                                   !.lockedBy = Caller(r)],
              <<StageNote("script.locked", Caller(r),
                          Loaded(r).stage, "script_locked")>>)
    /\ UNCHANGED scriptVars

\* Broken on purpose: the unlock records its own author in the lock audit.
UnlockRecordingUnlocker(r) ==
    /\ Serving(r, "view")
    /\ pin[r] = NoPin
    /\ Role[Caller(r)] \in AdminRoles
    /\ Loaded(r).stage = "script_locked"
    /\ Commit(r, [Loaded(r) EXCEPT !.stage = "script_review",
                                   !.lockedAt = 0,
                                   !.lockedBy = Caller(r)],
              <<StageNote("script.unlocked", Caller(r),
                          Loaded(r).stage, "script_review")>>)
    /\ UNCHANGED scriptVars

UnlockScript(r) ==
    /\ Serving(r, "view")
    /\ pin[r] = NoPin
    /\ Role[Caller(r)] \in AdminRoles
    /\ Loaded(r).stage = "script_locked"
    /\ Commit(r, [Loaded(r) EXCEPT !.stage = "script_review",
                                   !.lockedAt = 0,
                                   !.lockedBy = NoUser],
              <<StageNote("script.unlocked", Caller(r),
                          Loaded(r).stage, "script_review")>>)
    /\ UNCHANGED scriptVars

-----------------------------------------------------------------------------
\* The endpoints of the project store, and requests that end without effect.

OpenScript(r, u) == Open(r, u) /\ UNCHANGED scriptVars

LeaveScript(r) ==
    /\ Leave(r)
    /\ pin' = [pin EXCEPT ![r] = NoPin]
    /\ UNCHANGED <<versions, current>>

ProjectStep(r) ==
    /\ pin[r] = NoPin
    /\ ProjectEndpoint(r)
    /\ UNCHANGED scriptVars

ScriptInit ==
    /\ StoreInit
    /\ versions = {}
    /\ current = 0
    /\ pin = [r \in Requests |-> NoPin]

ScriptNext ==
    \E r \in Requests :
        \/ \E u \in Users : OpenScript(r, u)
        \/ LeaveScript(r)
        \/ ProjectStep(r)
        \/ NumberVersion(r)
        \/ SaveVersion(r)
        \/ FindLatest(r)
        \/ SubmitScript(r)
        \/ LockScript(r)
        \/ UnlockScript(r)

ScriptSpec == ScriptInit /\ [][ScriptNext]_<<storeVars, scriptVars>>

-----------------------------------------------------------------------------
\* Properties.

\* Types of the script's rows and of what requests read of them.
ScriptTypeOK ==
    /\ StoreTypeOK
    /\ versions \subseteq Version
    /\ current \in Nat
    /\ pin \in [Requests -> Pin]

\* Version numbers are 1, 2, 3, ... with no gap and no repetition, and the
\* current version is the last one, whatever saves, imports and failures race
\* (_next_version_number and uq_script_version_number).
VersionsDense ==
    /\ Numbers = 1 .. current
    /\ \A v, w \in versions : v.number = w.number => v = w

\* A number a request holds is at most one past the versions committed: what
\* makes VersionsDense inductive.
PinsAreReachable ==
    \A r \in Requests :
        /\ pin[r].number =< current + 1
        /\ pin[r].purpose = "save" => pin[r].number >= 1
        /\ pin[r].purpose # "none" => req[r].on

\* Evidence of a lock: the stamp on the row is that of a committed lock, and
\* whoever the row names did lock the script at some time and is a director
\* (routes/scripts.py, DirectorRoles).
LockHasEvidence ==
    /\ project.lockedAt # 0 =>
         /\ project.lockedAt \in DOMAIN trail
         /\ trail[project.lockedAt].action = "script.locked"
    /\ project.lockedBy # NoUser =>
         /\ Role[project.lockedBy] \in DirectorRoles
         /\ \E i \in DOMAIN trail : /\ trail[i].action = "script.locked"
                                    /\ trail[i].actor = project.lockedBy

\* The script is an append-only log: the row numbered n is the log's n-th
\* entry ("An immutable snapshot of the script", models/script.py).
VersionOf(n) == CHOOSE v \in versions : v.number = n

ScriptLog == INSTANCE VersionLog WITH
    Authors <- Users,
    log     <- [n \in 1 .. current |->
                  [author  |-> VersionOf(n).author,
                   stamped |-> VersionOf(n).submitted]]

ImplementsVersionLog == ScriptLog!LogSpec

\* "Cannot add a version while the script is locked" (script_service.py): a save
\* may test the lock on a row it loaded before, but each request in flight can
\* do so once.  Until the feed names another stage, fewer versions follow the
\* entry of a lock than there are requests besides the one that locked.
LateVersionsBounded ==
    \A i, j \in DOMAIN trail :
        /\ i < j /\ trail[i].action = "script.locked"
        /\ \A k \in i + 1 .. j : trail[k].to = NoStage
        => Cardinality({k \in i + 1 .. j : trail[k].action = "script.version_created"})
           < Cardinality(Requests)

=============================================================================
