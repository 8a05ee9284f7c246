-------------------------- MODULE VersionProofs --------------------------
(***************************************************************************)
(* Proofs about the two parts of a project that keep numbered versions.    *)
(* First the script phase: the store's invariant survives its endpoints,   *)
(* version numbers stay dense, a lock keeps its evidence, few versions     *)
(* slip into one.  Then the review of cuts: numbers stay dense, an         *)
(* approval keeps its evidence, and a CEO's publishes.  The versions of    *)
(* either implement the append-only log of VersionLog.                     *)
(***************************************************************************)
EXTENDS ScriptPhase, EditReview, StoreProofs, FiniteSetTheorems

\* What a request that pinned the latest version for a submission loaded.
PinsAreLoaded ==
    \A r \in Requests :
        pin[r].purpose = "submit" => Loaded(r).stage = "script_drafting"

-----------------------------------------------------------------------------
\* Numbers.

\* While versions are dense, the highest number is the current version's.
LEMMA HighestIsCurrent ==
    ASSUME ScriptTypeOK, VersionsDense
    PROVE  HighestNumber = current
<1>1. Numbers = 1 .. current /\ current \in Nat
  BY DEF ScriptTypeOK, VersionsDense
<1>2. /\ current \in Numbers \cup {0}
      /\ \A m \in Numbers : m =< current
  BY <1>1
<1>3. ASSUME NEW n \in Numbers \cup {0}, \A m \in Numbers : m =< n
      PROVE  n = current
  BY <1>1, <1>3
<1> QED
  BY <1>2, <1>3 DEF HighestNumber

\* The pins are typed when no session is pinned, and Init has none.
LEMMA NoPinType == NoPin \in Pin
BY DEF NoPin, Pin, Purposes

\* Saving the row with the next number keeps the numbering dense.
LEMMA SaveKeepsDense ==
    ASSUME ScriptTypeOK, VersionsDense, PinsAreReachable,
           NEW r \in Requests, SaveVersion(r)
    PROVE  VersionsDense' /\ current' = current + 1
<1> DEFINE n == pin[r].number
           v == [number |-> n, author |-> Caller(r), submitted |-> FALSE]
<1>1. /\ n \notin Numbers /\ current' = n
      /\ versions' = versions \cup {v}
      /\ pin[r].purpose = "save"
  BY DEF SaveVersion, NumberIsFree
<1>2. n = current + 1
  <2>1. n \in Nat /\ n >= 1 /\ n =< current + 1 /\ current \in Nat
    BY <1>1 DEF PinsAreReachable, ScriptTypeOK, Pin
  <2> QED
    BY <1>1, <2>1 DEF VersionsDense
<1>3. Numbers' = Numbers \cup {n}
  <2>1. v.number = n
    OBVIOUS
  <2> HIDE DEF v
  <2> QED
    BY <1>1, <2>1 DEF Numbers
<1>4. Numbers' = 1 .. current'
  BY <1>1, <1>2, <1>3 DEF VersionsDense, ScriptTypeOK
<1>5. ASSUME NEW a \in versions', NEW b \in versions', a.number = b.number
      PROVE  a = b
  <2>1. CASE a \in versions /\ b \in versions
    BY <1>5, <2>1 DEF VersionsDense
  <2>2. CASE a = v
    BY <1>1, <1>5, <2>2 DEF Numbers
  <2>3. CASE b = v
    BY <1>1, <1>5, <2>3 DEF Numbers
  <2> QED
    BY <1>1, <2>1, <2>2, <2>3
<1> QED
  BY <1>1, <1>2, <1>4, <1>5 DEF VersionsDense

\* A submission stamps a row and renumbers none.
LEMMA SubmitKeepsDense ==
    ASSUME ScriptTypeOK, VersionsDense, NEW r \in Requests, SubmitScript(r)
    PROVE  VersionsDense' /\ current' = current /\ versions' \subseteq Version
<1> DEFINE stamped(v) == Stamped(v, pin[r].number)
<1>1. /\ versions' = {stamped(v) : v \in versions} /\ current' = current
      /\ versions \subseteq Version
  BY DEF SubmitScript, ScriptTypeOK
<1>2. \A v \in versions : stamped(v) \in Version /\ stamped(v).number = v.number
  BY <1>1 DEF Version, Stamped
<1> HIDE DEF stamped
<1>3. Numbers' = Numbers
  BY <1>1, <1>2 DEF Numbers
<1>4. \A v, w \in versions :
         stamped(v).number = stamped(w).number => v = w
  BY <1>2 DEF VersionsDense
<1>5. \A a, b \in versions' : a.number = b.number => a = b
  BY <1>1, <1>4
<1> QED
  BY <1>1, <1>2, <1>3, <1>5 DEF VersionsDense

-----------------------------------------------------------------------------
\* The script's endpoints commit honestly.

\* A save: one entry on a script that has left the idea stage, two otherwise.
LEMMA SaveVersionCommits ==
    ASSUME ScriptTypeOK, NEW r \in Requests, SaveVersion(r)
    PROVE  HonestCommit(r)
<1>1. StoreTypeOK /\ "script.version_created" \in Actions
  BY DEF ScriptTypeOK, Actions
<1>2. CASE /\ Loaded(r).stage = "idea"
           /\ Commit(r, [Loaded(r) EXCEPT !.stage = "script_drafting"],
                     <<StageChanged(Caller(r), "idea", "script_drafting")>>
                     \o <<Note("script.version_created", Caller(r))>>)
  <2>1. "script_drafting" \in Stages /\ "script_drafting" # Loaded(r).stage
    BY <1>2 DEF Stages
  <2> QED
    BY <1>1, <1>2, <2>1, StageThenNoteCommits
<1>3. CASE Commit(r, Loaded(r), <<Note("script.version_created", Caller(r))>>)
  BY <1>1, <1>3, NoteCommits
<1> QED
  BY <1>2, <1>3 DEF SaveVersion

\* Submitting, locking and unlocking: one entry, naming a stage other than the
\* loaded one and other than the published one.
LEMMA ScriptStageCommits ==
    ASSUME ScriptTypeOK, NEW r \in Requests, NEW assigned \in Row,
           NEW action \in Actions,
           assigned.stage \in {"script_review", "script_locked"},
           assigned.stage # Loaded(r).stage,
           assigned.title = Loaded(r).title,
           assigned.deleted = Loaded(r).deleted,
           \/ action \in {"script.locked", "script.unlocked"}
           \/ /\ assigned.lockedAt = Loaded(r).lockedAt
              /\ assigned.lockedBy = Loaded(r).lockedBy,
           Commit(r, assigned, <<StageNote(action, Caller(r), Loaded(r).stage,
                                           assigned.stage)>>)
    PROVE  HonestCommit(r)
<1> DEFINE e == StageNote(action, Caller(r), Loaded(r).stage, assigned.stage)
<1>1. Loaded(r).stage \in Stages /\ Caller(r) \in Users
  BY LoadedType DEF ScriptTypeOK, Row
<1>2. e \in Entry /\ e.to = assigned.stage /\ e.action = action
  BY <1>1 DEF StageNote, Entry, Row
<1>3. /\ <<e>> \in Seq(Entry) /\ NamesStage(r, assigned, <<e>>)
      /\ action \in {"script.locked", "script.unlocked"} =>
           Mentions(<<e>>, {"script.locked", "script.unlocked"})
  BY <1>2, OneEntryNamesStage
<1>4. PublishesAsCeo(<<e>>)
  BY <1>2 DEF PublishesAsCeo
<1>5. AuditsColumns(r, assigned, <<e>>)
  BY <1>3 DEF AuditsColumns
<1> QED
  BY <1>3, <1>4, <1>5 DEF HonestCommit

\* A submission commits honestly: the row it loaded was in drafting.
LEMMA SubmitScriptCommits ==
    ASSUME ScriptTypeOK, PinsAreLoaded, NEW r \in Requests, SubmitScript(r)
    PROVE  HonestCommit(r)
<1> DEFINE assigned == [Loaded(r) EXCEPT !.stage = "script_review"]
<1>1. Loaded(r) \in Row /\ Loaded(r).stage = "script_drafting"
  BY LoadedType DEF ScriptTypeOK, PinsAreLoaded, SubmitScript
<1>2. /\ assigned \in Row
      /\ assigned.stage = "script_review"
      /\ assigned.title = Loaded(r).title
      /\ assigned.deleted = Loaded(r).deleted
      /\ assigned.lockedAt = Loaded(r).lockedAt
      /\ assigned.lockedBy = Loaded(r).lockedBy
  BY <1>1 DEF Row, Stages
<1>3. Commit(r, assigned, <<StageNote("script.submitted", Caller(r),
                                      Loaded(r).stage, assigned.stage)>>)
  BY <1>2 DEF SubmitScript
<1> HIDE DEF assigned
<1> QED
  BY <1>1, <1>2, <1>3, ScriptStageCommits DEF Actions

\* A lock commits honestly: its entry covers both columns of the lock audit.
LEMMA LockScriptCommits ==
    ASSUME ScriptTypeOK, NEW r \in Requests, LockScript(r)
    PROVE  HonestCommit(r)
<1> DEFINE assigned == [Loaded(r) EXCEPT !.stage = "script_locked",
                                         !.lockedAt = Len(trail) + 1,
                                         !.lockedBy = Caller(r)]
<1>1. /\ Loaded(r) \in Row /\ Caller(r) \in Users
      /\ Len(trail) + 1 \in Nat
      /\ Loaded(r).stage \in {"script_drafting", "script_review"}
  BY LoadedType DEF ScriptTypeOK, StoreTypeOK, LockScript
<1>2. /\ assigned \in Row
      /\ assigned.stage = "script_locked"
      /\ assigned.title = Loaded(r).title
      /\ assigned.deleted = Loaded(r).deleted
  BY <1>1 DEF Row, Stages
<1>3. Commit(r, assigned, <<StageNote("script.locked", Caller(r),
                                      Loaded(r).stage, assigned.stage)>>)
  BY <1>2 DEF LockScript
<1> HIDE DEF assigned
<1> QED
  BY <1>1, <1>2, <1>3, ScriptStageCommits DEF Actions

\* An unlock commits honestly: its entry covers the columns it clears.
LEMMA UnlockScriptCommits ==
    ASSUME ScriptTypeOK, NEW r \in Requests, UnlockScript(r)
    PROVE  HonestCommit(r)
<1> DEFINE assigned == [Loaded(r) EXCEPT !.stage = "script_review",
                                         !.lockedAt = 0,
                                         !.lockedBy = NoUser]
<1>1. Loaded(r) \in Row /\ Loaded(r).stage = "script_locked"
  BY LoadedType DEF ScriptTypeOK, UnlockScript
<1>2. /\ assigned \in Row
      /\ assigned.stage = "script_review"
      /\ assigned.title = Loaded(r).title
      /\ assigned.deleted = Loaded(r).deleted
  BY <1>1 DEF Row, Stages
<1>3. Commit(r, assigned, <<StageNote("script.unlocked", Caller(r),
                                      Loaded(r).stage, assigned.stage)>>)
  BY <1>2 DEF UnlockScript
<1> HIDE DEF assigned
<1> QED
  BY <1>1, <1>2, <1>3, ScriptStageCommits DEF Actions

-----------------------------------------------------------------------------
\* The pins.

PinInv == PinsAreReachable /\ PinsAreLoaded

\* A request that ends gives up its pin; more versions only help the others.
LEMMA EndingKeepsPins ==
    ASSUME ScriptTypeOK, PinInv, NEW r \in Requests,
           req' = [req EXCEPT ![r] = Idle],
           \/ pin' = [pin EXCEPT ![r] = NoPin]
           \/ pin[r] = NoPin /\ pin' = pin,
           current' \in Nat, current' >= current
    PROVE  PinInv' /\ pin' \in [Requests -> Pin]
<1>1. pin' \in [Requests -> Pin] /\ pin'[r] = NoPin
  BY NoPinType DEF ScriptTypeOK
<1>2. \A q \in Requests : q # r => pin'[q] = pin[q] /\ req'[q] = req[q]
  BY DEF ScriptTypeOK, StoreTypeOK
<1>3. \A q \in Requests : pin[q].number \in Nat /\ current \in Nat
  BY DEF ScriptTypeOK, Pin
<1>4. ASSUME NEW q \in Requests
      PROVE  /\ pin'[q].number =< current' + 1
             /\ pin'[q].purpose = "save" => pin'[q].number >= 1
             /\ pin'[q].purpose # "none" => req'[q].on
             /\ pin'[q].purpose = "submit" =>
                  Loaded(q)'.stage = "script_drafting"
  <2>1. CASE q = r
    BY <1>1, <2>1 DEF NoPin
  <2>2. CASE q # r
    BY <1>2, <1>3, <2>2 DEF PinInv, PinsAreReachable, PinsAreLoaded, Loaded
  <2> QED
    BY <2>1, <2>2
<1> QED
  BY <1>1, <1>4 DEF PinInv, PinsAreReachable, PinsAreLoaded

\* A request that pins a version it may pin.
LEMMA PinningKeepsPins ==
    ASSUME ScriptTypeOK, PinInv, NEW r \in Requests, NEW p \in Pin,
           UNCHANGED <<req, current>>,
           pin' = [pin EXCEPT ![r] = p],
           p.number =< current + 1, p.number >= 1 \/ p.purpose # "save",
           req[r].on,
           p.purpose = "submit" => Loaded(r).stage = "script_drafting"
    PROVE  PinInv' /\ pin' \in [Requests -> Pin]
<1>1. pin' \in [Requests -> Pin] /\ pin'[r] = p
  BY DEF ScriptTypeOK
<1>2. \A q \in Requests : q # r => pin'[q] = pin[q]
  BY DEF ScriptTypeOK
<1> QED
  BY <1>1, <1>2 DEF PinInv, PinsAreReachable, PinsAreLoaded, Loaded

-----------------------------------------------------------------------------
\* The invariant of the script phase.

ScriptInv ==
    /\ StoreInv
    /\ ScriptTypeOK
    /\ VersionsDense
    /\ PinInv

\* A project without versions establishes it.
LEMMA ScriptInitInv == ScriptInit => ScriptInv
<1> SUFFICES ASSUME ScriptInit PROVE ScriptInv
  OBVIOUS
<1>1. StoreInv
  BY StoreInitInv DEF ScriptInit
<1>2. ScriptTypeOK
  BY <1>1, NoPinType DEF StoreInv, ScriptInit, ScriptTypeOK
<1>3. VersionsDense
  BY DEF ScriptInit, VersionsDense, Numbers
<1>4. PinInv
  BY DEF ScriptInit, PinInv, PinsAreReachable, PinsAreLoaded, NoPin
<1> QED
  BY <1>1, <1>2, <1>3, <1>4 DEF ScriptInv

\* A commit that leaves the versions alone.
LEMMA CommitKeepsScript ==
    ASSUME ScriptInv, NEW r \in Requests, HonestCommit(r),
           UNCHANGED <<versions, current>>,
           \/ pin' = [pin EXCEPT ![r] = NoPin]
           \/ pin[r] = NoPin /\ pin' = pin
    PROVE  ScriptInv' /\ AuditedStep
<1>1. StoreInv' /\ AuditedStep
  BY HonestCommitKeepsInv DEF ScriptInv
<1>2. req' = [req EXCEPT ![r] = Idle]
  BY DEF HonestCommit, Commit
<1>3. current \in Nat /\ current' = current
  BY DEF ScriptInv, ScriptTypeOK
<1>4. current' \in Nat /\ current' >= current
  BY <1>3
<1>5. PinInv' /\ pin' \in [Requests -> Pin]
  BY <1>2, <1>4, EndingKeepsPins DEF ScriptInv
<1>6. ScriptTypeOK'
  BY <1>1, <1>5 DEF ScriptInv, ScriptTypeOK, StoreInv
<1>7. VersionsDense'
  BY DEF ScriptInv, VersionsDense, Numbers
<1> QED
  BY <1>1, <1>5, <1>6, <1>7 DEF ScriptInv

\* A step that commits nothing.
LEMMA QuietStepKeepsScript ==
    ASSUME ScriptInv, UNCHANGED <<project, trail, versions, current>>,
           req' \in [Requests -> Request], PinInv',
           pin' \in [Requests -> Pin]
    PROVE  ScriptInv'
<1>1. StoreInv'
  BY QuietStepKeepsInv DEF ScriptInv
<1>2. ScriptTypeOK'
  BY <1>1 DEF ScriptInv, ScriptTypeOK, StoreInv
<1>3. VersionsDense'
  BY DEF ScriptInv, VersionsDense, Numbers
<1> QED
  BY <1>1, <1>2, <1>3 DEF ScriptInv

\* Every step of the script phase keeps the invariant and is audited.
LEMMA ScriptStep ==
    ASSUME ScriptInv, ScriptNext
    PROVE  ScriptInv' /\ [AuditedStep]_<<project, trail>>
<1> PICK r \in Requests :
       \/ \E u \in Users : OpenScript(r, u)
       \/ LeaveScript(r)
       \/ ProjectStep(r)
       \/ NumberVersion(r)
       \/ SaveVersion(r)
       \/ FindLatest(r)
       \/ SubmitScript(r)
       \/ LockScript(r)
       \/ UnlockScript(r)
  BY DEF ScriptNext
<1> USE DEF ScriptInv
<1>1. ASSUME NEW u \in Users, OpenScript(r, u)
      PROVE  ScriptInv' /\ UNCHANGED <<project, trail>>
  <2>1. /\ req' \in [Requests -> Request]
        /\ UNCHANGED <<project, trail, versions, current, pin>>
        /\ ~req[r].on
        /\ \A q \in Requests : q # r => req'[q] = req[q]
    BY <1>1, OpenType DEF OpenScript, Open, scriptVars, StoreInv, StoreTypeOK
  <2>2. pin[r].purpose = "none"
    BY <2>1 DEF PinInv, PinsAreReachable
  <2>3. PinInv' /\ pin' \in [Requests -> Pin]
    BY <2>1, <2>2 DEF PinInv, PinsAreReachable, PinsAreLoaded, Loaded,
                      ScriptTypeOK
  <2> QED
    BY <2>1, <2>3, QuietStepKeepsScript
<1>2. CASE LeaveScript(r)
  <2>1. /\ req' = [req EXCEPT ![r] = Idle] /\ req' \in [Requests -> Request]
        /\ pin' = [pin EXCEPT ![r] = NoPin]
        /\ UNCHANGED <<project, trail, versions, current>>
    BY <1>2, LeaveType DEF LeaveScript, Leave, StoreInv
  <2>2. current' \in Nat /\ current' >= current
    BY <2>1 DEF ScriptTypeOK
  <2>3. PinInv' /\ pin' \in [Requests -> Pin]
    BY <2>1, <2>2, EndingKeepsPins
  <2> QED
    BY <2>1, <2>3, QuietStepKeepsScript
<1>3. CASE ProjectStep(r)
  <2>1. HonestCommit(r) /\ pin[r] = NoPin /\ UNCHANGED scriptVars
    BY <1>3, ProjectEndpointCommits DEF ProjectStep, StoreInv
  <2> QED
    BY <2>1, CommitKeepsScript DEF scriptVars
<1>4. CASE NumberVersion(r)
  <2> DEFINE p == [purpose |-> "save", number |-> HighestNumber + 1]
  <2>1. /\ UNCHANGED <<project, trail, req, versions, current>>
        /\ pin' = [pin EXCEPT ![r] = p] /\ req[r].on
    BY <1>4 DEF NumberVersion, storeVars, Serving
  <2>2. HighestNumber = current /\ current \in Nat
    BY HighestIsCurrent DEF ScriptTypeOK
  <2>3. /\ p \in Pin /\ p.number =< current + 1 /\ p.number >= 1
        /\ p.purpose # "submit"
    BY <2>2 DEF Pin, Purposes
  <2> HIDE DEF p
  <2>4. PinInv' /\ pin' \in [Requests -> Pin]
    BY <2>1, <2>3, PinningKeepsPins
  <2>5. req' \in [Requests -> Request]
    BY <2>1 DEF StoreInv, StoreTypeOK
  <2> QED
    BY <2>1, <2>4, <2>5, QuietStepKeepsScript
<1>5. CASE SaveVersion(r)
  <2>1. HonestCommit(r) /\ VersionsDense' /\ current' = current + 1
    BY <1>5, SaveVersionCommits, SaveKeepsDense DEF PinInv
  <2>2. StoreInv' /\ AuditedStep
    BY <2>1, HonestCommitKeepsInv
  <2>3. /\ req' = [req EXCEPT ![r] = Idle]
        /\ pin' = [pin EXCEPT ![r] = NoPin]
    BY <1>5 DEF SaveVersion, Commit
  <2>4. current' \in Nat /\ current' >= current
    BY <2>1 DEF ScriptTypeOK
  <2>5. PinInv' /\ pin' \in [Requests -> Pin]
    BY <2>3, <2>4, EndingKeepsPins
  <2>6. versions' \subseteq Version
    <3>1. pin[r].number \in Nat /\ Caller(r) \in Users
      BY LoadedType DEF ScriptTypeOK, Pin
    <3> DEFINE v == [number |-> pin[r].number, author |-> Caller(r),
                     submitted |-> FALSE]
    <3>2. versions' = versions \cup {v}
      BY <1>5 DEF SaveVersion
    <3>3. v \in Version
      BY <3>1 DEF Version
    <3> HIDE DEF v
    <3> QED
      BY <3>2, <3>3 DEF ScriptTypeOK
  <2> QED
    BY <2>1, <2>2, <2>4, <2>5, <2>6 DEF ScriptTypeOK, StoreInv
<1>6. CASE FindLatest(r)
  <2> DEFINE p == [purpose |-> "submit", number |-> HighestNumber]
  <2>1. /\ UNCHANGED <<project, trail, req, versions, current>>
        /\ pin' = [pin EXCEPT ![r] = p] /\ req[r].on
        /\ Loaded(r).stage = "script_drafting"
    BY <1>6 DEF FindLatest, storeVars, Serving
  <2>2. HighestNumber = current /\ current \in Nat
    BY HighestIsCurrent DEF ScriptTypeOK
  <2>3. p \in Pin /\ p.number =< current + 1 /\ p.purpose # "save"
    BY <2>2 DEF Pin, Purposes
  <2> HIDE DEF p
  <2>4. PinInv' /\ pin' \in [Requests -> Pin]
    BY <2>1, <2>3, PinningKeepsPins
  <2>5. req' \in [Requests -> Request]
    BY <2>1 DEF StoreInv, StoreTypeOK
  <2> QED
    BY <2>1, <2>4, <2>5, QuietStepKeepsScript
<1>7. CASE SubmitScript(r)
  <2>1. HonestCommit(r) /\ VersionsDense' /\ current' = current
        /\ versions' \subseteq Version
    BY <1>7, SubmitScriptCommits, SubmitKeepsDense DEF PinInv
  <2>2. StoreInv' /\ AuditedStep
    BY <2>1, HonestCommitKeepsInv
  <2>3. /\ req' = [req EXCEPT ![r] = Idle]
        /\ pin' = [pin EXCEPT ![r] = NoPin]
    BY <1>7 DEF SubmitScript, Commit
  <2>4. current' \in Nat /\ current' >= current
    BY <2>1 DEF ScriptTypeOK
  <2>5. PinInv' /\ pin' \in [Requests -> Pin]
    BY <2>3, <2>4, EndingKeepsPins
  <2> QED
    BY <2>1, <2>2, <2>4, <2>5 DEF ScriptTypeOK, StoreInv
<1>8. CASE LockScript(r)
  <2>1. HonestCommit(r) /\ pin[r] = NoPin /\ UNCHANGED scriptVars
    BY <1>8, LockScriptCommits DEF LockScript
  <2> QED
    BY <2>1, CommitKeepsScript DEF scriptVars
<1>9. CASE UnlockScript(r)
  <2>1. HonestCommit(r) /\ pin[r] = NoPin /\ UNCHANGED scriptVars
    BY <1>9, UnlockScriptCommits DEF UnlockScript
  <2> QED
    BY <2>1, CommitKeepsScript DEF scriptVars
<1> QED
  BY <1>1, <1>2, <1>3, <1>4, <1>5, <1>6, <1>7, <1>8, <1>9

\* A stuttering step keeps it.
LEMMA ScriptStutter ==
    ASSUME ScriptInv, UNCHANGED <<storeVars, scriptVars>>
    PROVE  ScriptInv'
BY DEF ScriptInv, StoreInv, StoreTypeOK, StageMatchesTrail, PublishedByCeo,
       ScriptTypeOK, VersionsDense, Numbers, PinInv, PinsAreReachable,
       PinsAreLoaded, Loaded, storeVars, scriptVars

-----------------------------------------------------------------------------
\* The lock audit.

\* Entries stay in the trail.
LEMMA EntriesStay ==
    ASSUME StoreTypeOK, StoreTypeOK', [AuditedStep]_<<project, trail>>
    PROVE  \A i \in DOMAIN trail : i \in DOMAIN trail' /\ trail'[i] = trail[i]
<1>1. CASE trail' = trail
  BY <1>1
<1>2. CASE AuditedStep
  BY <1>2 DEF AuditedStep, StoreTypeOK
<1> QED
  BY <1>1, <1>2

SameLock ==
    /\ project'.lockedAt = project.lockedAt
    /\ project'.lockedBy = project.lockedBy

\* A commit that does not assign the columns of the lock leaves them alone.
LEMMA UnassignedLock ==
    ASSUME NEW r, NEW assigned, NEW entries, Commit(r, assigned, entries),
           assigned.lockedAt = Loaded(r).lockedAt,
           assigned.lockedBy = Loaded(r).lockedBy
    PROVE  SameLock
BY DEF Commit, Merge, Column, SameLock

\* The board and the versions leave the lock alone.
LEMMA OthersKeepLock ==
    ASSUME ScriptInv, NEW r \in Requests,
           ProjectStep(r) \/ SaveVersion(r) \/ SubmitScript(r)
    PROVE  SameLock
<1>1. Loaded(r) \in Row
  BY LoadedType DEF ScriptInv, StoreInv
<1>2. \A s : /\ [Loaded(r) EXCEPT !.stage = s].lockedAt = Loaded(r).lockedAt
             /\ [Loaded(r) EXCEPT !.stage = s].lockedBy = Loaded(r).lockedBy
  BY <1>1 DEF Row
<1>3. \A d : /\ [Loaded(r) EXCEPT !.deleted = d].lockedAt = Loaded(r).lockedAt
             /\ [Loaded(r) EXCEPT !.deleted = d].lockedBy = Loaded(r).lockedBy
  BY <1>1 DEF Row
<1>4. \A t : /\ [Loaded(r) EXCEPT !.title = t].lockedAt = Loaded(r).lockedAt
             /\ [Loaded(r) EXCEPT !.title = t].lockedBy = Loaded(r).lockedBy
  BY <1>1 DEF Row
<1>5. CASE ProjectStep(r)
  <2>1. ProjectEndpoint(r)
    BY <1>5 DEF ProjectStep
  <2>2. CASE \E target \in Targets : MoveStage(r, target)
    BY <1>2, <2>2, UnassignedLock DEF MoveStage
  <2>3. CASE \E title \in Titles : UpdateProject(r, title)
    BY <1>4, <2>3, UnassignedLock DEF UpdateProject
  <2>4. CASE SoftDelete(r) \/ Restore(r)
    BY <1>3, <2>4, UnassignedLock DEF SoftDelete, Restore
  <2> QED
    BY <2>1, <2>2, <2>3, <2>4 DEF ProjectEndpoint
<1>6. CASE SaveVersion(r)
  <2> DEFINE drafted == [Loaded(r) EXCEPT !.stage = "script_drafting"]
  <2>1. PICK entries : Commit(r, drafted, entries) \/ Commit(r, Loaded(r), entries)
    BY <1>6 DEF SaveVersion
  <2>2. /\ drafted.lockedAt = Loaded(r).lockedAt
        /\ drafted.lockedBy = Loaded(r).lockedBy
    BY <1>2
  <2> HIDE DEF drafted
  <2> QED
    BY <2>1, <2>2, UnassignedLock
<1>7. CASE SubmitScript(r)
  BY <1>2, <1>7, UnassignedLock DEF SubmitScript
<1> QED
  BY <1>5, <1>6, <1>7

\* A lock stamps the row with the position of its own entry, or not at all.
LEMMA LockLeavesEvidence ==
    ASSUME ScriptInv, NEW r \in Requests, LockScript(r)
    PROVE  /\ project'.lockedAt \in {project.lockedAt, Len(trail) + 1}
           /\ project'.lockedBy \in {project.lockedBy, Caller(r)}
           /\ Role[Caller(r)] \in DirectorRoles
           /\ Len(trail) + 1 \in DOMAIN trail'
           /\ trail'[Len(trail) + 1].action = "script.locked"
           /\ trail'[Len(trail) + 1].actor = Caller(r)
<1> DEFINE assigned == [Loaded(r) EXCEPT !.stage = "script_locked",
                                         !.lockedAt = Len(trail) + 1,
                                         !.lockedBy = Caller(r)]
           e == StageNote("script.locked", Caller(r), Loaded(r).stage,
                          "script_locked")
           entries == <<e>>
<1>1. /\ StoreTypeOK /\ Loaded(r) \in Row /\ Caller(r) \in Users
      /\ Loaded(r).stage \in Stages
      /\ "script.locked" \in Actions /\ "script_locked" \in Stages
  BY LoadedType DEF ScriptInv, StoreInv, Row, Actions, Stages
<1>2. assigned.lockedAt = Len(trail) + 1 /\ assigned.lockedBy = Caller(r)
  BY <1>1 DEF Row
<1>3. e \in Entry /\ e.action = "script.locked" /\ e.actor = Caller(r)
  BY <1>1 DEF StageNote, Entry
<1>4. entries \in Seq(Entry) /\ 1 \in DOMAIN entries /\ entries[1] = e
  BY <1>3
<1>5. Commit(r, assigned, entries) /\ Role[Caller(r)] \in DirectorRoles
  BY DEF LockScript
<1> HIDE DEF assigned, entries, e
<1>6. /\ Len(trail) + 1 \in DOMAIN trail'
      /\ trail'[Len(trail) + 1] = e
  <2>1. /\ DOMAIN entries = 1 .. Len(entries) /\ Len(entries) \in Nat
        /\ Len(trail) \in Nat
        /\ DOMAIN trail' = 1 .. (Len(trail) + Len(entries))
        /\ \A i \in DOMAIN entries : trail'[Len(trail) + i] = entries[i]
    BY <1>1, <1>4, <1>5, CommittedTrail
  <2> QED
    BY <1>4, <2>1
<1>7. /\ project'.lockedAt \in {project.lockedAt, assigned.lockedAt}
      /\ project'.lockedBy \in {project.lockedBy, assigned.lockedBy}
  BY <1>5 DEF Commit, Merge, Column
<1> QED
  BY <1>2, <1>3, <1>5, <1>6, <1>7

\* An unlock clears the columns, or finds them cleared.
LEMMA UnlockClears ==
    ASSUME ScriptInv, NEW r \in Requests, UnlockScript(r)
    PROVE  /\ project'.lockedAt \in {project.lockedAt, 0}
           /\ project'.lockedBy \in {project.lockedBy, NoUser}
<1> DEFINE assigned == [Loaded(r) EXCEPT !.stage = "script_review",
                                         !.lockedAt = 0,
                                         !.lockedBy = NoUser]
<1>1. assigned.lockedAt = 0 /\ assigned.lockedBy = NoUser
  BY LoadedType DEF ScriptInv, StoreInv, Row
<1>2. project' = Merge(project, Loaded(r), assigned)
  BY DEF UnlockScript, Commit
<1> HIDE DEF assigned
<1> QED
  BY <1>1, <1>2 DEF Merge, Column

\* Evidence of a lock survives every step: nobody else writes its columns, and
\* a stale lock writes a stamp and a name that are its own.
LEMMA LockStep ==
    ASSUME ScriptInv, LockHasEvidence, ScriptNext
    PROVE  LockHasEvidence'
<1>1. /\ ScriptInv' /\ StoreTypeOK /\ StoreTypeOK'
      /\ [AuditedStep]_<<project, trail>>
  BY ScriptStep DEF ScriptInv, StoreInv
<1>2. \A i \in DOMAIN trail : i \in DOMAIN trail' /\ trail'[i] = trail[i]
  BY <1>1, EntriesStay
<1> PICK r \in Requests :
       \/ \E u \in Users : OpenScript(r, u)
       \/ LeaveScript(r)
       \/ ProjectStep(r)
       \/ NumberVersion(r)
       \/ SaveVersion(r)
       \/ FindLatest(r)
       \/ SubmitScript(r)
       \/ LockScript(r)
       \/ UnlockScript(r)
  BY DEF ScriptNext
<1>3. CASE \/ \E u \in Users : OpenScript(r, u)
           \/ LeaveScript(r) \/ NumberVersion(r) \/ FindLatest(r)
  <2>1. UNCHANGED <<project, trail>>
    BY <1>3 DEF OpenScript, Open, LeaveScript, Leave, NumberVersion, FindLatest,
                storeVars
  <2> QED
    BY <2>1 DEF LockHasEvidence
<1>4. CASE ProjectStep(r) \/ SaveVersion(r) \/ SubmitScript(r)
  <2>1. SameLock
    BY <1>4, OthersKeepLock
  <2> QED
    BY <1>2, <2>1 DEF SameLock, LockHasEvidence
<1>5. CASE LockScript(r)
  BY <1>2, <1>5, LockLeavesEvidence DEF LockHasEvidence
<1>6. CASE UnlockScript(r)
  BY <1>2, <1>6, UnlockClears DEF LockHasEvidence
<1> QED
  BY <1>3, <1>4, <1>5, <1>6

-----------------------------------------------------------------------------
\* Versions that slip into a lock.

\* The requests that may still save into the lock: their row was loaded before.
Armed == {r \in Requests : req[r].on /\ Loaded(r).stage # "script_locked"}

\* The versions after entry i up to j, and that entry i is a lock which stands
\* up to j.
Saved(feed, i, j) == {k \in i + 1 .. j : feed[k].action = "script.version_created"}

Standing(feed, i, j) ==
    /\ feed[i].action = "script.locked"
    /\ \A k \in i + 1 .. j : feed[k].to = NoStage

\* A request tests the lock before it pins a number; a lock's entry names its
\* stage.
SavesAreUnlocked ==
    \A r \in Requests :
        pin[r].purpose = "save" => Loaded(r).stage # "script_locked"

LocksNameTheirStage ==
    \A i \in DOMAIN trail :
        trail[i].action = "script.locked" => trail[i].to = "script_locked"

\* Each version that has slipped in leaves one request less that may.
SlotsAreSpent ==
    \A i \in DOMAIN trail :
        Standing(trail, i, Len(trail)) =>
            Cardinality(Saved(trail, i, Len(trail))) + Cardinality(Armed)
                < Cardinality(Requests)

LateInv ==
    /\ SavesAreUnlocked /\ LocksNameTheirStage
    /\ SlotsAreSpent /\ LateVersionsBounded

\* LateVersionsBounded in these words.
LEMMA BoundedMeans ==
    LateVersionsBounded <=>
        \A i, j \in DOMAIN trail :
            i < j /\ Standing(trail, i, j) => Cardinality(Saved(trail, i, j)) < Cardinality(Requests)
BY DEF LateVersionsBounded, Standing, Saved

\* A set of requests has a size, and no request left out makes it smaller.
LEMMA ArmedSize ==
    ASSUME IsFiniteSet(Requests)
    PROVE  /\ IsFiniteSet(Armed) /\ Cardinality(Armed) \in Nat
           /\ Cardinality(Requests) \in Nat
BY FS_Subset, FS_CardinalityType DEF Armed

LEMMA SavedSize ==
    ASSUME NEW feed, NEW i \in Nat, NEW j \in Nat
    PROVE  IsFiniteSet(Saved(feed, i, j)) /\ Cardinality(Saved(feed, i, j)) \in Nat
<1>1. IsFiniteSet(i + 1 .. j)
  BY FS_Interval
<1>2. Saved(feed, i, j) \subseteq i + 1 .. j
  BY DEF Saved
<1> QED
  BY <1>1, <1>2, FS_Subset, FS_CardinalityType

\* A standing lock is what the project's stage says.
LEMMA StandingIsLocked ==
    ASSUME StoreTypeOK, StageMatchesTrail, LocksNameTheirStage,
           NEW i \in DOMAIN trail, Standing(trail, i, Len(trail))
    PROVE  project.stage = "script_locked"
<1>1. DOMAIN trail = 1 .. Len(trail) /\ Len(trail) \in Nat
  BY DEF StoreTypeOK
<1>2. PICK k \in DOMAIN trail :
        /\ trail[k].to = project.stage
        /\ \A j \in DOMAIN trail : j > k => trail[j].to = NoStage
  BY DEF StageMatchesTrail
<1>3. trail[i].to = "script_locked" /\ "script_locked" # NoStage
  BY DEF LocksNameTheirStage, Standing, NoStage
<1>4. project.stage # NoStage
  BY DEF StoreTypeOK, Row, Stages, NoStage
<1>5. i =< k
  BY <1>1, <1>2, <1>3
<1>6. k =< i
  BY <1>1, <1>2, <1>4 DEF Standing
<1> QED
  BY <1>1, <1>2, <1>3, <1>5, <1>6

\* A step that commits nothing and arms nobody while a lock stands.
LEMMA QuietStepKeepsSlots ==
    ASSUME IsFiniteSet(Requests), StoreTypeOK, LateInv, trail' = trail,
           (\E i \in DOMAIN trail : Standing(trail, i, Len(trail)))
               => Armed' \subseteq Armed
    PROVE  LocksNameTheirStage' /\ SlotsAreSpent' /\ LateVersionsBounded'
<1>1. LocksNameTheirStage' /\ LateVersionsBounded'
  BY DEF LateInv, LocksNameTheirStage, LateVersionsBounded
<1>2. ASSUME NEW i \in DOMAIN trail, Standing(trail, i, Len(trail))
      PROVE  Cardinality(Saved(trail, i, Len(trail))) + Cardinality(Armed')
                 < Cardinality(Requests)
  <2>1. /\ Cardinality(Armed') =< Cardinality(Armed)
        /\ Cardinality(Armed') \in Nat /\ Cardinality(Armed) \in Nat
        /\ Cardinality(Requests) \in Nat
    BY <1>2, ArmedSize, FS_Subset, FS_CardinalityType
  <2>2. Cardinality(Saved(trail, i, Len(trail))) \in Nat
    BY <1>2, SavedSize DEF StoreTypeOK
  <2> QED
    BY <1>2, <2>1, <2>2 DEF LateInv, SlotsAreSpent
<1>3. SlotsAreSpent'
  BY <1>2 DEF SlotsAreSpent, Standing, Saved
<1> QED
  BY <1>1, <1>3

\* What a commit does to the words above: windows that end before it stay.
LEMMA OldWindows ==
    ASSUME StoreTypeOK, NEW n \in Nat, n = Len(trail),
           \A k \in DOMAIN trail : trail'[k] = trail[k],
           NEW i \in DOMAIN trail, NEW j \in 1 .. n
    PROVE  /\ Standing(trail', i, j) <=> Standing(trail, i, j)
           /\ Saved(trail', i, j) = Saved(trail, i, j)
<1>1. DOMAIN trail = 1 .. n
  BY DEF StoreTypeOK
<1> QED
  BY <1>1 DEF Standing, Saved

\* A request that commits is armed no more.
LEMMA CommitDisarms ==
    ASSUME StoreTypeOK, NEW r \in Requests, req' = [req EXCEPT ![r] = Idle]
    PROVE  Armed' = Armed \ {r}
<1>1. \A q \in Requests : q # r => req'[q] = req[q]
  BY DEF StoreTypeOK
<1>2. req'[r] = Idle /\ ~Idle.on
  BY DEF StoreTypeOK, Idle
<1> QED
  BY <1>1, <1>2 DEF Armed, Loaded

\* A commit of one entry that names no stage: a version takes one of the armed.
LEMMA NoteKeepsSlots ==
    ASSUME IsFiniteSet(Requests), StoreTypeOK, LateInv,
           NEW r \in Requests, req' = [req EXCEPT ![r] = Idle],
           NEW e, trail' = trail \o <<e>>,
           e.to = NoStage, e.action # "script.locked",
           e.action = "script.version_created" => r \in Armed
    PROVE  LocksNameTheirStage' /\ SlotsAreSpent' /\ LateVersionsBounded'
<1> DEFINE n == Len(trail)
<1>1. /\ n \in Nat /\ DOMAIN trail = 1 .. n
      /\ DOMAIN trail' = 1 .. n + 1 /\ Len(trail') = n + 1
      /\ \A k \in DOMAIN trail : trail'[k] = trail[k]
      /\ trail'[n + 1] = e
  BY DEF StoreTypeOK
<1> HIDE DEF n
<1>2. LocksNameTheirStage'
  BY <1>1 DEF LateInv, LocksNameTheirStage
<1>3. ASSUME NEW i \in DOMAIN trail', Standing(trail', i, n + 1)
      PROVE  /\ i \in DOMAIN trail
             /\ Cardinality(Saved(trail', i, n + 1)) + Cardinality(Armed')
                   < Cardinality(Requests)
  <2>1. i \in 1 .. n
    BY <1>1, <1>3 DEF Standing
  <2>2. Standing(trail, i, n)
    BY <1>1, <1>3, <2>1 DEF Standing
  <2>3. /\ IsFiniteSet(Saved(trail, i, n)) /\ Cardinality(Saved(trail, i, n)) \in Nat
        /\ IsFiniteSet(Armed) /\ Cardinality(Armed) \in Nat
        /\ Cardinality(Requests) \in Nat
    BY <1>1, <2>1, SavedSize, ArmedSize
  <2>4. Cardinality(Saved(trail, i, n)) + Cardinality(Armed) < Cardinality(Requests)
    BY <1>1, <2>1, <2>2 DEF LateInv, SlotsAreSpent, n
  <2>5. /\ Cardinality(Armed') \in Nat
        /\ Cardinality(Armed') =< Cardinality(Armed)
        /\ r \in Armed => Cardinality(Armed') = Cardinality(Armed) - 1
    <3>1. Armed' = Armed \ {r}
      BY CommitDisarms
    <3>2. /\ IsFiniteSet(Armed \ {r})
          /\ Cardinality(Armed \ {r}) =
                IF r \in Armed THEN Cardinality(Armed) - 1 ELSE Cardinality(Armed)
      BY <2>3, FS_RemoveElement
    <3>3. Cardinality(Armed \ {r}) \in Nat
      BY <3>2, FS_CardinalityType
    <3> QED
      BY <2>3, <3>1, <3>2, <3>3
  <2>6. CASE e.action = "script.version_created"
    <3>1. Saved(trail', i, n + 1) = Saved(trail, i, n) \cup {n + 1} /\ n + 1 \notin Saved(trail, i, n)
      BY <1>1, <2>1, <2>6 DEF Saved
    <3>2. Cardinality(Saved(trail', i, n + 1)) = Cardinality(Saved(trail, i, n)) + 1
      BY <2>3, <3>1, FS_AddElement
    <3> QED
      <4>1. r \in Armed /\ i \in DOMAIN trail
        BY <1>1, <2>1, <2>6
      <4> QED
        BY <2>3, <2>4, <2>5, <3>2, <4>1
  <2>7. CASE e.action # "script.version_created"
    <3>1. Saved(trail', i, n + 1) = Saved(trail, i, n)
      BY <1>1, <2>1, <2>7 DEF Saved
    <3> QED
      BY <2>1, <1>1, <2>3, <2>4, <2>5, <3>1
  <2> QED
    BY <2>6, <2>7
<1>4. SlotsAreSpent'
  BY <1>1, <1>3 DEF SlotsAreSpent
<1>5. ASSUME NEW i \in DOMAIN trail', NEW j \in DOMAIN trail',
             i < j, Standing(trail', i, j)
      PROVE  Cardinality(Saved(trail', i, j)) < Cardinality(Requests)
  <2>1. CASE j = n + 1
    <3>1. /\ Cardinality(Saved(trail', i, j)) + Cardinality(Armed') < Cardinality(Requests)
          /\ i \in DOMAIN trail
      BY <1>3, <1>5, <2>1
    <3>2. Cardinality(Armed') \in Nat /\ Cardinality(Requests) \in Nat
      BY ArmedSize, CommitDisarms, FS_RemoveElement, FS_CardinalityType
    <3>3. Cardinality(Saved(trail', i, j)) \in Nat
      BY <1>1, SavedSize
    <3> QED
      BY <3>1, <3>2, <3>3
  <2>2. CASE j # n + 1
    <3>1. j \in 1 .. n /\ i \in DOMAIN trail /\ j \in DOMAIN trail
      BY <1>1, <1>5, <2>2
    <3>2. Standing(trail, i, j) /\ Saved(trail', i, j) = Saved(trail, i, j)
      BY <1>1, <1>5, <3>1, OldWindows DEF n
    <3> QED
      BY <1>5, <3>1, <3>2, BoundedMeans DEF LateInv
  <2> QED
    BY <2>1, <2>2
<1>6. LateVersionsBounded'
  BY <1>5 DEF LateVersionsBounded, Standing, Saved
<1> QED
  BY <1>2, <1>4, <1>6

\* A commit whose first entry names a stage ends what stood; if it is a lock, it
\* is the only entry, and the request that locks is armed no more.
LEMMA StageKeepsSlots ==
    ASSUME IsFiniteSet(Requests), StoreTypeOK, LateInv,
           NEW r \in Requests, req' = [req EXCEPT ![r] = Idle],
           NEW entries \in Seq(Entry), trail' = trail \o entries,
           Len(entries) >= 1, entries[1].to # NoStage,
           \A k \in DOMAIN entries :
               entries[k].action = "script.locked" =>
                   Len(entries) = 1 /\ entries[k].to = "script_locked"
    PROVE  LocksNameTheirStage' /\ SlotsAreSpent' /\ LateVersionsBounded'
<1> DEFINE n == Len(trail)
           m == Len(trail) + Len(entries)
<1>1. /\ n \in Nat /\ m \in Nat /\ m > n /\ DOMAIN trail = 1 .. n
      /\ DOMAIN trail' = 1 .. m /\ Len(trail') = m
      /\ \A k \in DOMAIN trail : trail'[k] = trail[k]
      /\ trail'[n + 1] = entries[1]
      /\ \A k \in n + 1 .. m : trail'[k].action = "script.locked" =>
            m = n + 1 /\ trail'[k].to = "script_locked"
  <2>1. trail \in Seq(Entry)
    BY DEF StoreTypeOK
  <2>2. /\ n \in Nat /\ Len(entries) \in Nat
        /\ DOMAIN trail = 1 .. n /\ DOMAIN entries = 1 .. Len(entries)
        /\ DOMAIN trail' = 1 .. m /\ Len(trail') = m
        /\ \A k \in 1 .. n : trail'[k] = trail[k]
        /\ \A k \in n + 1 .. m : trail'[k] = entries[k - n]
    BY <2>1, ConcatProperties
  <2>3. m > n /\ (Len(entries) = 1 => m = n + 1) /\ (n + 1) - n = 1
    BY <2>2
  <2>4. trail'[n + 1] = entries[1]
    <3>1. n + 1 \in n + 1 .. m
      BY <2>2, <2>3
    <3> QED
      BY <2>2, <2>3, <3>1
  <2>5. ASSUME NEW k \in n + 1 .. m, trail'[k].action = "script.locked"
        PROVE  m = n + 1 /\ trail'[k].to = "script_locked"
    <3>1. k - n \in DOMAIN entries
      BY <2>2, <2>5
    <3>2. trail'[k] = entries[k - n]
      BY <2>2, <2>5
    <3> QED
      BY <2>3, <2>5, <3>1, <3>2
  <2>6. m \in Nat
    BY <2>2
  <2> QED
    BY <2>2, <2>3, <2>4, <2>5, <2>6
<1> HIDE DEF n, m
<1>2. LocksNameTheirStage'
  BY <1>1 DEF LateInv, LocksNameTheirStage
<1>3. ASSUME NEW i \in DOMAIN trail', NEW j \in n + 1 .. m, Standing(trail', i, j), i =< j
      PROVE  i = n + 1 /\ j = n + 1 /\ m = n + 1
  <2>1. i >= n + 1
    <3>1. trail'[n + 1].to # NoStage
      BY <1>1
    <3> QED
      BY <1>1, <1>3, <3>1 DEF Standing
  <2>2. trail'[i].action = "script.locked" /\ i \in n + 1 .. m
    BY <1>1, <1>3, <2>1 DEF Standing
  <2> QED
    BY <1>1, <1>3, <2>1, <2>2
<1>4. Cardinality(Armed') < Cardinality(Requests) /\ Cardinality(Armed') \in Nat
  <2>1. Armed' \subseteq Requests \ {r}
    BY CommitDisarms DEF Armed
  <2>2. /\ IsFiniteSet(Requests \ {r})
        /\ Cardinality(Requests \ {r}) = Cardinality(Requests) - 1
        /\ Cardinality(Requests) \in Nat
    BY FS_RemoveElement, FS_CardinalityType
  <2>3. /\ Cardinality(Armed') =< Cardinality(Requests \ {r})
        /\ Cardinality(Armed') \in Nat
    BY <2>1, <2>2, FS_Subset, FS_CardinalityType
  <2> QED
    BY <2>2, <2>3
<1>5. SlotsAreSpent'
  <2> SUFFICES ASSUME NEW i \in DOMAIN trail', Standing(trail', i, m)
               PROVE  Cardinality(Saved(trail', i, m)) + Cardinality(Armed')
                         < Cardinality(Requests)
    BY <1>1 DEF SlotsAreSpent
  <2>1. i = m
    BY <1>1, <1>3
  <2>2. Saved(trail', i, m) = {}
    BY <1>1, <2>1 DEF Saved
  <2> QED
    BY <1>4, <2>2, FS_EmptySet
<1>6. ASSUME NEW i \in DOMAIN trail', NEW j \in DOMAIN trail',
             i < j, Standing(trail', i, j)
      PROVE  Cardinality(Saved(trail', i, j)) < Cardinality(Requests)
  <2>1. j \notin n + 1 .. m
    BY <1>1, <1>3, <1>6
  <2>2. j \in 1 .. n /\ i \in DOMAIN trail /\ j \in DOMAIN trail
    BY <1>1, <1>6, <2>1
  <2>3. Standing(trail, i, j) /\ Saved(trail', i, j) = Saved(trail, i, j)
    BY <1>1, <1>6, <2>2, OldWindows DEF n
  <2> QED
    BY <1>6, <2>2, <2>3, BoundedMeans DEF LateInv
<1>7. LateVersionsBounded'
  BY <1>6 DEF LateVersionsBounded, Standing, Saved
<1> QED
  BY <1>2, <1>5, <1>7

\* The pins: a request that pins a number to save loaded an unlocked script.
LEMMA SavesStayUnlocked ==
    ASSUME ScriptInv, SavesAreUnlocked, ScriptNext
    PROVE  SavesAreUnlocked'
<1> PICK r \in Requests :
       \/ \E u \in Users : OpenScript(r, u)
       \/ LeaveScript(r)
       \/ ProjectStep(r)
       \/ NumberVersion(r)
       \/ SaveVersion(r)
       \/ FindLatest(r)
       \/ SubmitScript(r)
       \/ LockScript(r)
       \/ UnlockScript(r)
  BY DEF ScriptNext
<1>1. /\ pin \in [Requests -> Pin] /\ req \in [Requests -> Request]
      /\ \A q \in Requests : pin[q].purpose # "none" => req[q].on
      /\ NoPin.purpose = "none"
  BY DEF ScriptInv, ScriptTypeOK, StoreInv, StoreTypeOK, PinInv,
         PinsAreReachable, NoPin
<1>2. ASSUME NEW q \in Requests, q # r
      PROVE  pin'[q] = pin[q] /\ req'[q] = req[q]
  <2>1. CASE \/ LeaveScript(r) \/ NumberVersion(r) \/ FindLatest(r)
    BY <1>1, <1>2, <2>1 DEF LeaveScript, Leave, NumberVersion, FindLatest, storeVars
  <2>2. CASE \E u \in Users : OpenScript(r, u)
    BY <1>1, <1>2, <2>2 DEF OpenScript, Open, scriptVars
  <2>3. CASE ProjectStep(r)
    BY <1>1, <1>2, <2>3 DEF ProjectStep, ProjectEndpoint, MoveStage, UpdateProject,
                            SoftDelete, Restore, Commit, scriptVars
  <2>4. CASE SaveVersion(r) \/ SubmitScript(r)
    BY <1>1, <1>2, <2>4 DEF SaveVersion, SubmitScript, Commit
  <2>5. CASE LockScript(r) \/ UnlockScript(r)
    BY <1>1, <1>2, <2>5 DEF LockScript, UnlockScript, Commit, scriptVars
  <2> QED
    BY <2>1, <2>2, <2>3, <2>4, <2>5
<1>3. pin'[r].purpose = "save" => Loaded(r)'.stage # "script_locked"
  <2>1. CASE NumberVersion(r)
    BY <2>1 DEF NumberVersion, storeVars, Loaded
  <2>2. CASE FindLatest(r)
    BY <1>1, <2>2 DEF FindLatest
  <2>3. CASE \E u \in Users : OpenScript(r, u)
    BY <1>1, <2>3 DEF OpenScript, Open, scriptVars
  <2>4. CASE LeaveScript(r) \/ SaveVersion(r) \/ SubmitScript(r)
    BY <1>1, <2>4 DEF LeaveScript, SaveVersion, SubmitScript
  <2>5. CASE ProjectStep(r) \/ LockScript(r) \/ UnlockScript(r)
    BY <1>1, <2>5 DEF ProjectStep, LockScript, UnlockScript, scriptVars
  <2> QED
    BY <2>1, <2>2, <2>3, <2>4, <2>5
<1> QED
  BY <1>2, <1>3 DEF SavesAreUnlocked, Loaded

\* Every step keeps the count.
LEMMA LateStep ==
    ASSUME IsFiniteSet(Requests), ScriptInv, LateInv, ScriptNext
    PROVE  LateInv'
<1> PICK r \in Requests :
       \/ \E u \in Users : OpenScript(r, u)
       \/ LeaveScript(r)
       \/ ProjectStep(r)
       \/ NumberVersion(r)
       \/ SaveVersion(r)
       \/ FindLatest(r)
       \/ SubmitScript(r)
       \/ LockScript(r)
       \/ UnlockScript(r)
  BY DEF ScriptNext
<1> DEFINE Counted == LocksNameTheirStage' /\ SlotsAreSpent' /\ LateVersionsBounded'
<1> SUFFICES Counted
  BY SavesStayUnlocked DEF LateInv
<1>1. /\ StoreTypeOK /\ StageMatchesTrail
      /\ Loaded(r) \in Row /\ Loaded(r).stage \in Stages
      /\ Caller(r) \in Users /\ NoStage \notin Stages
      /\ \A a \in Actions, s \in Stages, t \in Stages :
            /\ StageNote(a, Caller(r), s, t) \in Entry
            /\ StageNote(a, Caller(r), s, t).to = t
            /\ StageNote(a, Caller(r), s, t).action = a
      /\ \A a : Note(a, Caller(r)).to = NoStage /\ Note(a, Caller(r)).action = a
  BY LoadedType DEF ScriptInv, StoreInv, Row, Stages, NoStage, StageNote, Note, Entry
<1>2. ASSUME NEW u \in Users, OpenScript(r, u) PROVE Counted
  <2>1. /\ trail' = trail /\ ~req[r].on
        /\ req' = [req EXCEPT ![r] = [on |-> TRUE, user |-> u, row |-> project]]
    BY <1>2 DEF OpenScript, Open
  <2>2. ASSUME NEW i \in DOMAIN trail, Standing(trail, i, Len(trail))
        PROVE  Armed' \subseteq Armed
    <3>1. project.stage = "script_locked"
      BY <1>1, <2>2, StandingIsLocked DEF LateInv
    <3>2. /\ \A q \in Requests : q # r => req'[q] = req[q]
          /\ req'[r].row = project
      BY <1>1, <2>1 DEF StoreTypeOK
    <3> QED
      BY <3>1, <3>2 DEF Armed, Loaded
  <2> QED
    BY <1>1, <2>1, <2>2, QuietStepKeepsSlots
<1>3. CASE LeaveScript(r)
  <2>1. trail' = trail /\ Armed' \subseteq Armed
    BY <1>1, <1>3, CommitDisarms DEF LeaveScript, Leave
  <2> QED
    BY <1>1, <2>1, QuietStepKeepsSlots
<1>4. CASE NumberVersion(r) \/ FindLatest(r)
  <2>1. trail' = trail /\ Armed' \subseteq Armed
    BY <1>4 DEF NumberVersion, FindLatest, storeVars, Armed, Loaded
  <2> QED
    BY <1>1, <2>1, QuietStepKeepsSlots
<1>5. ASSUME NEW assigned, NEW action \in Actions, NEW s \in Stages, NEW t \in Stages,
             action = "script.locked" => t = "script_locked",
             Commit(r, assigned, <<StageNote(action, Caller(r), s, t)>>)
      PROVE  Counted
  <2> DEFINE e == StageNote(action, Caller(r), s, t)
  <2>1. e \in Entry /\ e.to = t /\ e.action = action /\ t # NoStage
    BY <1>1
  <2>2. trail' = trail \o <<e>> /\ req' = [req EXCEPT ![r] = Idle]
    BY <1>5 DEF Commit
  <2> HIDE DEF e
  <2>3. /\ <<e>> \in Seq(Entry) /\ Len(<<e>>) = 1 /\ <<e>>[1] = e
        /\ DOMAIN <<e>> = {1}
    BY <2>1
  <2>4. \A k \in DOMAIN <<e>> :
           <<e>>[k].action = "script.locked" =>
               Len(<<e>>) = 1 /\ <<e>>[k].to = "script_locked"
    BY <1>5, <2>1, <2>3
  <2> QED
    <3>1. StoreTypeOK /\ Len(<<e>>) >= 1 /\ <<e>>[1].to # NoStage
      BY <1>1, <2>1, <2>3
    <3> QED
      BY <2>2, <2>3, <2>4, <3>1, StageKeepsSlots
<1>6. ASSUME NEW assigned, NEW action,
             action # "script.locked",
             action = "script.version_created" => r \in Armed,
             Commit(r, assigned, <<Note(action, Caller(r))>>)
      PROVE  Counted
  <2> DEFINE e == Note(action, Caller(r))
  <2>1. e.to = NoStage /\ e.action = action
    BY <1>1
  <2>2. trail' = trail \o <<e>> /\ req' = [req EXCEPT ![r] = Idle]
    BY <1>6 DEF Commit
  <2> HIDE DEF e
  <2> QED
    BY <1>1, <1>6, <2>1, <2>2, NoteKeepsSlots
<1>7. CASE ProjectStep(r)
  <2>1. ProjectEndpoint(r)
    BY <1>7 DEF ProjectStep
  <2>2. ASSUME NEW target \in Targets, MoveStage(r, target) PROVE Counted
    <3>1. target \in Stages /\ "project.stage_changed" \in Actions
      BY StoreAssumption DEF Actions
    <3> QED
      BY <1>1, <1>5, <2>2, <3>1 DEF MoveStage, StageChanged
  <2>3. CASE \E title \in Titles : UpdateProject(r, title)
    BY <1>6, <2>3 DEF UpdateProject
  <2>4. CASE SoftDelete(r) \/ Restore(r)
    BY <1>6, <2>4 DEF SoftDelete, Restore
  <2> QED
    BY <2>1, <2>2, <2>3, <2>4 DEF ProjectEndpoint
<1>8. CASE SaveVersion(r)
  <2> DEFINE u == Caller(r)
             moved == StageChanged(u, "idea", "script_drafting")
             saved == Note("script.version_created", u)
  <2>1. r \in Armed
    BY <1>8 DEF SaveVersion, ScriptInv, PinInv, PinsAreReachable, LateInv,
                SavesAreUnlocked, Armed
  <2>2. CASE Commit(r, Loaded(r), <<saved>>)
    BY <1>6, <2>1, <2>2
  <2>3. CASE Commit(r, [Loaded(r) EXCEPT !.stage = "script_drafting"],
                    <<moved>> \o <<saved>>)
    <3>1. /\ moved \in Entry /\ moved.to # NoStage
          /\ moved.action = "project.stage_changed"
      <4>1. /\ "idea" \in Stages /\ "script_drafting" \in Stages
            /\ "project.stage_changed" \in Actions
        BY DEF Stages, Actions
      <4> QED
        BY <1>1, <4>1 DEF StageChanged
    <3>2. saved \in Entry /\ saved.action = "script.version_created"
      BY <1>1 DEF Note, Entry, Actions
    <3> DEFINE both == <<moved>> \o <<saved>>
    <3>3. trail' = trail \o both /\ req' = [req EXCEPT ![r] = Idle]
      BY <2>3 DEF Commit
    <3> HIDE DEF moved, saved
    <3>4. /\ both \in Seq(Entry) /\ DOMAIN both = 1 .. 2 /\ Len(both) = 2
          /\ both[1] = moved /\ both[2] = saved
      BY <3>1, <3>2
    <3> HIDE DEF both
    <3>5. \A k \in DOMAIN both : both[k].action # "script.locked"
      BY <3>1, <3>2, <3>4
    <3> QED
      <4>1. StoreTypeOK /\ Len(both) >= 1 /\ both[1].to # NoStage
        BY <1>1, <3>1, <3>4
      <4> QED
        BY <3>3, <3>4, <3>5, <4>1, StageKeepsSlots
  <2> QED
    BY <1>8, <2>2, <2>3 DEF SaveVersion
<1>9. CASE SubmitScript(r) \/ LockScript(r) \/ UnlockScript(r)
  <2>1. /\ {"script.submitted", "script.locked", "script.unlocked"} \subseteq Actions
        /\ {"script_review", "script_locked"} \subseteq Stages
    BY DEF Actions, Stages
  <2> QED
    BY <1>1, <1>5, <1>9, <2>1 DEF SubmitScript, LockScript, UnlockScript
<1> QED
  BY <1>2, <1>3, <1>4, <1>7, <1>8, <1>9

-----------------------------------------------------------------------------
\* The versions implement an append-only log.

\* A row as an entry of the log, and the log that dense rows show: what the
\* refinement mapping of ScriptLog makes of them.
VersionShown(v) == [author |-> v.author, stamped |-> v.submitted]

ScriptLogOf(rows, n) ==
    [k \in 1 .. n |-> [author  |-> (CHOOSE v \in rows : v.number = k).author,
                       stamped |-> (CHOOSE v \in rows : v.number = k).submitted]]

Dense(rows, n) ==
    /\ {v.number : v \in rows} = 1 .. n
    /\ \A v, w \in rows : v.number = w.number => v = w

ScriptLogEntries == [author: Users, stamped: BOOLEAN]

\* Each entry of the log is that of the one row with its number.
LEMMA LogOfDense ==
    ASSUME NEW rows \in SUBSET Version, NEW n \in Nat, Dense(rows, n)
    PROVE  /\ ScriptLogOf(rows, n) \in Seq(ScriptLogEntries) /\ Len(ScriptLogOf(rows, n)) = n
           /\ \A v \in rows : /\ v.number \in 1 .. n
                              /\ ScriptLogOf(rows, n)[v.number] = VersionShown(v)
           /\ \A k \in 1 .. n : \E v \in rows : v.number = k
<1>1. /\ \A v \in rows : v.number \in 1 .. n
      /\ \A k \in 1 .. n : \E v \in rows : v.number = k
  BY DEF Dense
<1>2. ASSUME NEW v \in rows
      PROVE  ScriptLogOf(rows, n)[v.number] = VersionShown(v)
  <2>1. (CHOOSE w \in rows : w.number = v.number) = v
    BY DEF Dense
  <2> QED
    BY <1>1, <2>1 DEF ScriptLogOf, VersionShown
<1>3. ASSUME NEW v \in rows
      PROVE  VersionShown(v) \in ScriptLogEntries
  BY DEF Version, VersionShown, ScriptLogEntries
<1>4. \A k \in 1 .. n : ScriptLogOf(rows, n)[k] \in ScriptLogEntries
  BY <1>1, <1>2, <1>3
<1>5. ScriptLogOf(rows, n) \in [1 .. n -> ScriptLogEntries]
  BY <1>4 DEF ScriptLogOf
<1>6. ScriptLogOf(rows, n) \in Seq(ScriptLogEntries) /\ Len(ScriptLogOf(rows, n)) = n
  BY <1>5
<1> QED
  BY <1>1, <1>2, <1>6

\* A row with the next number extends the log by its entry.
LEMMA NextRowExtends ==
    ASSUME NEW rows \in SUBSET Version, NEW n \in Nat, Dense(rows, n),
           NEW v \in Version, v.number = n + 1, Dense(rows \cup {v}, n + 1)
    PROVE  ScriptLogOf(rows \cup {v}, n + 1) = Append(ScriptLogOf(rows, n), VersionShown(v))
<1> DEFINE more == rows \cup {v}
           s == ScriptLogOf(rows, n)
           t == ScriptLogOf(more, n + 1)
           e == VersionShown(v)
<1>1. /\ s \in Seq(ScriptLogEntries) /\ Len(s) = n
      /\ \A w \in rows : w.number \in 1 .. n /\ s[w.number] = VersionShown(w)
      /\ \A k \in 1 .. n : \E w \in rows : w.number = k
  BY LogOfDense
<1>2. more \in SUBSET Version /\ n + 1 \in Nat
  OBVIOUS
<1>3. /\ t \in Seq(ScriptLogEntries) /\ Len(t) = n + 1
      /\ \A w \in more : t[w.number] = VersionShown(w)
  BY <1>2, LogOfDense
<1>4. e \in ScriptLogEntries
  BY DEF Version, VersionShown, ScriptLogEntries
<1>5. t[n + 1] = e /\ \A k \in 1 .. n : t[k] = s[k]
  <2>1. v \in more /\ rows \subseteq more
    OBVIOUS
  <2>2. ASSUME NEW k \in 1 .. n PROVE t[k] = s[k]
    <3>1. PICK w \in rows : w.number = k
      BY <1>1
    <3> QED
      BY <1>1, <1>3, <2>1, <3>1
  <2> QED
    BY <1>3, <2>1, <2>2
<1> HIDE DEF s, t, e, more
<1> DEFINE u == Append(s, e)
<1>6. /\ u \in Seq(ScriptLogEntries) /\ Len(u) = n + 1
      /\ u[n + 1] = e /\ \A k \in 1 .. n : u[k] = s[k]
  BY <1>1, <1>4, AppendProperties
<1> HIDE DEF u
<1>7. \A k \in 1 .. Len(t) : t[k] = u[k]
  BY <1>3, <1>5, <1>6
<1>8. t = u
  BY <1>3, <1>6, <1>7, SeqEqual
<1> QED
  BY <1>8 DEF s, t, u, e, more

\* Stamping the row numbered m stamps the log's m-th entry, if there is one.
LEMMA StampedRowStamps ==
    ASSUME NEW rows \in SUBSET Version, NEW n \in Nat, Dense(rows, n),
           NEW m, NEW more \in SUBSET Version, Dense(more, n),
           \A v \in rows : Stamped(v, m) \in more
    PROVE  \/ ScriptLogOf(more, n) = ScriptLogOf(rows, n)
           \/ /\ m \in 1 .. n
              /\ ScriptLogOf(more, n) = [ScriptLogOf(rows, n) EXCEPT ![m].stamped = TRUE]
<1> DEFINE s == ScriptLogOf(rows, n)
           t == ScriptLogOf(more, n)
<1>1. /\ s \in Seq(ScriptLogEntries) /\ Len(s) = n
      /\ \A v \in rows : v.number \in 1 .. n /\ s[v.number] = VersionShown(v)
      /\ \A k \in 1 .. n : \E v \in rows : v.number = k
  BY LogOfDense
<1>2. /\ t \in Seq(ScriptLogEntries) /\ Len(t) = n
      /\ \A v \in more : t[v.number] = VersionShown(v)
  BY LogOfDense
<1>3. \A v \in rows : /\ Stamped(v, m) \in more
                      /\ Stamped(v, m).number = v.number
                      /\ v.number # m => Stamped(v, m) = v
  BY DEF Stamped, Version
<1>4. \A v \in rows : v.number # m => t[v.number] = s[v.number]
  BY <1>1, <1>2, <1>3
<1>5. ASSUME NEW v \in rows, v.number = m
      PROVE  t[m].author = s[m].author /\ t[m].stamped = TRUE
  <2>1. Stamped(v, m) = [v EXCEPT !.submitted = TRUE] /\ v \in Version
    BY <1>5 DEF Stamped
  <2>2. Stamped(v, m).author = v.author /\ Stamped(v, m).submitted = TRUE
    BY <2>1 DEF Version
  <2>3. VersionShown(Stamped(v, m)) = [author |-> v.author, stamped |-> TRUE]
    BY <2>2 DEF VersionShown
  <2>4. t[m] = VersionShown(Stamped(v, m)) /\ s[m] = VersionShown(v)
    BY <1>1, <1>2, <1>3, <1>5
  <2>5. s[m].author = v.author
    BY <2>4 DEF VersionShown
  <2> QED
    BY <2>3, <2>4, <2>5
<1> HIDE DEF s, t
<1>6. CASE m \in 1 .. n
  <2> DEFINE e == [s[m] EXCEPT !.stamped = TRUE]
             u == [s EXCEPT ![m] = e]
  <2>1. s[m] \in ScriptLogEntries /\ t[m] \in ScriptLogEntries
    BY <1>1, <1>2, <1>6
  <2>2. e \in ScriptLogEntries /\ e.author = s[m].author /\ e.stamped = TRUE
    BY <2>1 DEF ScriptLogEntries
  <2>3. t[m].author = e.author /\ t[m].stamped = e.stamped
    BY <1>1, <1>5, <1>6, <2>2
  <2> HIDE DEF e
  <2>4. t[m] = e
    BY <2>1, <2>2, <2>3 DEF ScriptLogEntries
  <2>5. ASSUME NEW k \in 1 .. n, k # m PROVE t[k] = s[k]
    <3>1. PICK v \in rows : v.number = k
      BY <1>1
    <3> QED
      BY <1>4, <2>5, <3>1
  <2>6. /\ u \in Seq(ScriptLogEntries) /\ Len(u) = n
        /\ \A k \in 1 .. n : u[k] = IF k = m THEN e ELSE s[k]
    BY <1>1, <1>6, <2>2, ExceptSeq
  <2>7. u = [s EXCEPT ![m].stamped = TRUE]
    BY DEF u, e
  <2> HIDE DEF u
  <2>8. \A k \in 1 .. Len(t) : t[k] = u[k]
    BY <1>2, <2>4, <2>5, <2>6
  <2>9. t = u
    BY <1>2, <2>6, <2>8, SeqEqual
  <2> QED
    BY <1>6, <2>7, <2>9 DEF s, t
<1>7. CASE m \notin 1 .. n
  <2>1. \A k \in 1 .. Len(t) : t[k] = s[k]
    BY <1>1, <1>2, <1>4, <1>7
  <2>2. t = s
    BY <1>1, <1>2, <2>1, SeqEqual
  <2> QED
    BY <2>2 DEF s, t
<1> QED
  BY <1>6, <1>7

\* The rows are dense, before and after a step.
LEMMA RowsAreDense ==
    /\ ScriptInv => /\ versions \in SUBSET Version /\ current \in Nat
                    /\ Dense(versions, current)
    /\ ScriptInv' => /\ versions' \in SUBSET Version /\ current' \in Nat
                     /\ Dense(versions', current')
BY DEF ScriptInv, ScriptTypeOK, VersionsDense, Numbers, Dense

\* What one step does to the log.
ScriptLogMove ==
    \/ \E a \in Users :
          ScriptLogOf(versions', current')
              = Append(ScriptLogOf(versions, current), [author |-> a, stamped |-> FALSE])
    \/ \E i \in DOMAIN ScriptLogOf(versions, current) :
          ScriptLogOf(versions', current')
              = [ScriptLogOf(versions, current) EXCEPT ![i].stamped = TRUE]
    \/ ScriptLogOf(versions', current') = ScriptLogOf(versions, current)

\* Every step extends the log, stamps an entry or leaves it alone.
LEMMA ScriptLogStep ==
    ASSUME ScriptInv, ScriptInv', [ScriptNext]_<<storeVars, scriptVars>>
    PROVE  ScriptLogMove
<1>0. /\ versions \in SUBSET Version /\ current \in Nat
      /\ Dense(versions, current)
      /\ versions' \in SUBSET Version /\ Dense(versions', current')
  BY RowsAreDense
<1>1. CASE UNCHANGED <<versions, current>>
  BY <1>1 DEF ScriptLogMove
<1>2. ASSUME NEW r \in Requests, SaveVersion(r)
      PROVE  ScriptLogMove
  <2> DEFINE v == [number |-> pin[r].number, author |-> Caller(r),
                   submitted |-> FALSE]
             e == [author |-> Caller(r), stamped |-> FALSE]
  <2>1. /\ current' = current + 1 /\ pin[r].number = current + 1
        /\ versions' = versions \cup {v}
        /\ Caller(r) \in Users
    BY <1>2, LoadedType, SaveKeepsDense
       DEF ScriptInv, StoreInv, PinInv, SaveVersion
  <2>2. v \in Version /\ v.number = current + 1 /\ VersionShown(v) = e
    BY <1>0, <2>1 DEF Version, VersionShown
  <2> HIDE DEF v
  <2>3. ScriptLogOf(versions', current') = Append(ScriptLogOf(versions, current), VersionShown(v))
    BY <1>0, <2>1, <2>2, NextRowExtends
  <2> QED
    BY <2>1, <2>2, <2>3 DEF ScriptLogMove
<1>3. ASSUME NEW r \in Requests, SubmitScript(r)
      PROVE  ScriptLogMove
  <2> DEFINE s == ScriptLogOf(versions, current)
             t == ScriptLogOf(versions', current)
  <2>1. current' = current /\ Dense(versions', current)
    BY <1>0, <1>3 DEF SubmitScript
  <2>2. PICK m : \A v \in versions : Stamped(v, m) \in versions'
    BY <1>3 DEF SubmitScript
  <2>3. \/ t = s
        \/ m \in 1 .. current /\ t = [s EXCEPT ![m].stamped = TRUE]
    <3> DEFINE rows == versions
               more == versions'
               n == current
    <3>1. /\ rows \in SUBSET Version /\ more \in SUBSET Version /\ n \in Nat
          /\ Dense(rows, n) /\ Dense(more, n)
          /\ \A v \in rows : Stamped(v, m) \in more
      BY <1>0, <2>1, <2>2
    <3> HIDE DEF rows, more, n
    <3>2. \/ ScriptLogOf(more, n) = ScriptLogOf(rows, n)
          \/ /\ m \in 1 .. n
             /\ ScriptLogOf(more, n) = [ScriptLogOf(rows, n) EXCEPT ![m].stamped = TRUE]
      BY <3>1, StampedRowStamps
    <3> QED
      BY <3>2 DEF rows, more, n
  <2>4. DOMAIN s = 1 .. current
    BY DEF ScriptLogOf
  <2> QED
    BY <2>1, <2>3, <2>4 DEF ScriptLogMove
<1>4. ASSUME NEW r \in Requests,
             \/ \E u \in Users : OpenScript(r, u)
             \/ LeaveScript(r) \/ ProjectStep(r) \/ NumberVersion(r)
             \/ FindLatest(r) \/ LockScript(r) \/ UnlockScript(r)
      PROVE  UNCHANGED <<versions, current>>
  BY <1>4 DEF OpenScript, LeaveScript, ProjectStep, NumberVersion, FindLatest,
              LockScript, UnlockScript, scriptVars
<1>5. CASE UNCHANGED <<storeVars, scriptVars>>
  BY <1>1, <1>5 DEF scriptVars
<1> QED
  BY <1>1, <1>2, <1>3, <1>4, <1>5 DEF ScriptNext

-----------------------------------------------------------------------------
\* The theorems of the script phase.

\* The strengthened invariant of the script phase holds of every reachable
\* state, for any team, any number of requests and any bounds.
THEOREM ScriptInvariant == ScriptSpec => []ScriptInv
<1>1. ScriptInv /\ [ScriptNext]_<<storeVars, scriptVars>> => ScriptInv'
  BY ScriptStep, ScriptStutter
<1> QED
  BY <1>1, ScriptInitInv, PTL DEF ScriptSpec

\* Rows, sessions and pins keep their types.
THEOREM ScriptTypes == ScriptSpec => []ScriptTypeOK
<1>1. ScriptInv => ScriptTypeOK
  BY DEF ScriptInv
<1> QED
  BY <1>1, ScriptInvariant, PTL

\* Whatever saves, imports and submissions race, version numbers are dense.
THEOREM ScriptVersionsDense == ScriptSpec => []VersionsDense
<1>1. ScriptInv => VersionsDense
  BY DEF ScriptInv
<1> QED
  BY <1>1, ScriptInvariant, PTL

\* Whatever locks and unlocks race, the lock audit on the row has a lock behind
\* each of its two columns, a director's.
THEOREM ScriptLockHasEvidence == ScriptSpec => []LockHasEvidence
<1>1. ScriptInv /\ LockHasEvidence /\ [ScriptNext]_<<storeVars, scriptVars>>
        => LockHasEvidence'
  <2>1. ScriptInv /\ LockHasEvidence /\ ScriptNext => LockHasEvidence'
    BY LockStep
  <2>2. LockHasEvidence /\ UNCHANGED <<storeVars, scriptVars>>
          => LockHasEvidence'
    BY DEF LockHasEvidence, storeVars
  <2> QED
    BY <2>1, <2>2
<1>2. ScriptInit => LockHasEvidence
  BY DEF ScriptInit, StoreInit, FreshProject, LockHasEvidence
<1> QED
  BY <1>1, <1>2, ScriptInvariant, PTL DEF ScriptSpec

\* However saves, imports, locks and the board race, fewer versions slip into a
\* standing lock than there are requests: each that does was in flight when the
\* script was locked, and the one that locked is not among them.
THEOREM ScriptLateVersionsBounded ==
    ASSUME IsFiniteSet(Requests)
    PROVE  ScriptSpec => []LateVersionsBounded
<1>1. ScriptInit => LateInv
  <2> SUFFICES ASSUME ScriptInit PROVE LateInv
    OBVIOUS
  <2>1. /\ DOMAIN trail = {1} /\ trail[1].action # "script.locked"
        /\ \A r \in Requests : pin[r].purpose = "none"
    BY DEF ScriptInit, StoreInit, StageNote, NoPin
  <2> QED
    BY <2>1 DEF LateInv, SavesAreUnlocked, LocksNameTheirStage, SlotsAreSpent,
                Standing, LateVersionsBounded
<1>2. ScriptInv /\ LateInv /\ [ScriptNext]_<<storeVars, scriptVars>> => LateInv'
  <2>1. ScriptInv /\ LateInv /\ ScriptNext => LateInv'
    BY LateStep
  <2>2. LateInv /\ UNCHANGED <<storeVars, scriptVars>> => LateInv'
    BY DEF LateInv, SavesAreUnlocked, LocksNameTheirStage, SlotsAreSpent,
           Standing, Saved, Armed, Loaded, LateVersionsBounded, storeVars, scriptVars
  <2> QED
    BY <2>1, <2>2
<1>3. LateInv => LateVersionsBounded
  BY DEF LateInv
<1> QED
  BY <1>1, <1>2, <1>3, ScriptInvariant, PTL DEF ScriptSpec

\* The script phase implements VersionLog: whatever saves, imports and
\* submissions race, a version that is there stays as it is but for its stamp.
THEOREM ScriptImplementsVersionLog == ScriptSpec => ImplementsVersionLog
<1> DEFINE shown == [n \in 1 .. current |-> [author  |-> VersionOf(n).author,
                                            stamped |-> VersionOf(n).submitted]]
<1>1. ScriptInit => ScriptLog!LogInit
  BY DEF ScriptInit, ScriptLog!LogInit
<1>2. ScriptInv /\ ScriptInv' /\ [ScriptNext]_<<storeVars, scriptVars>>
        => [ScriptLog!Extend \/ ScriptLog!Stamp]_shown
  <2>1. shown = ScriptLogOf(versions, current) /\ shown' = ScriptLogOf(versions', current')
    BY DEF ScriptLogOf, VersionOf
  <2> HIDE DEF shown
  <2> QED
    BY <2>1, ScriptLogStep DEF ScriptLogMove, ScriptLog!Extend, ScriptLog!Stamp, shown
<1> QED
  BY <1>1, <1>2, ScriptInvariant, PTL
     DEF ScriptSpec, ImplementsVersionLog, ScriptLog!LogSpec

\* The trail tells the stage while scripts are saved, submitted and locked.
THEOREM ScriptTellsStage == ScriptSpec => []StageMatchesTrail
<1>1. ScriptInv => StageMatchesTrail
  BY DEF ScriptInv, StoreInv
<1> QED
  BY <1>1, ScriptInvariant, PTL

\* A published project was published by a CEO: no endpoint of the script gets
\* around the board's reservation.
THEOREM ScriptPublishedByCeo == ScriptSpec => []PublishedByCeo
<1>1. ScriptInv => PublishedByCeo
  BY DEF ScriptInv, StoreInv
<1> QED
  BY <1>1, ScriptInvariant, PTL

\* No endpoint of the script changes a column without its entry.
THEOREM ScriptAudited == ScriptSpec => ChangesAreAudited
<1>1. ScriptInv /\ [ScriptNext]_<<storeVars, scriptVars>>
        => [AuditedStep]_<<project, trail>>
  BY ScriptStep DEF storeVars
<1> QED
  BY <1>1, ScriptInvariant, PTL DEF ScriptSpec, ChangesAreAudited

(***************************************************************************)
(* The cuts and their review: the store's invariant survives its           *)
(* endpoints, cuts are numbered densely and approvals keep their evidence. *)
(***************************************************************************)

\* CutsDense says 1 .. HighestCut, and HighestCut is chosen from the cuts: the
\* existence of an upper end is what the induction carries.
CutsAreNumbered == \E k \in Nat : DOMAIN cuts = 1 .. k

\* What a request holds of the cuts: a number at most one past the committed
\* ones, or a cut that exists; an approval it read has not been taken back.
HoldsAreReachable ==
    \A r \in Requests :
        /\ held[r].purpose = "finalise" =>
             held[r].number >= 1 /\ held[r].number =< HighestCut + 1
        /\ held[r].purpose = "review" =>
             /\ held[r].number \in DOMAIN cuts
             /\ held[r].cut.approvedBy # NoUser =>
                  cuts[held[r].number].approvedBy # NoUser

\* The cuts and the holds, without the evidence in the trail.
CutsInv ==
    /\ EditTypeOK
    /\ CutsAreNumbered
    /\ HoldsAreReachable

EditInv == StoreInv /\ CutsInv /\ ApprovalHasEvidence

-----------------------------------------------------------------------------
\* Numbers and holds.

\* The maximum of 1 .. k, with 0 for an empty range, is k.
LEMMA HighestOfRange ==
    ASSUME NEW k \in Nat, NEW S, S = 1 .. k
    PROVE  (CHOOSE n \in S \cup {0} : \A m \in S : m =< n) = k
<1>1. k \in S \cup {0} /\ \A m \in S : m =< k
  OBVIOUS
<1>2. ASSUME NEW n \in S \cup {0}, \A m \in S : m =< n
      PROVE  n = k
  <2>1. n \in Nat /\ n =< k /\ (k > 0 => k =< n)
    BY <1>2
  <2> QED
    BY <2>1
<1> QED
  BY <1>1, <1>2

\* So the highest number of cuts numbered 1 .. k is k, before and after a step.
LEMMA HighestOfDense ==
    ASSUME NEW k \in Nat
    PROVE  /\ DOMAIN cuts = 1 .. k => HighestCut = k
           /\ DOMAIN cuts' = 1 .. k => HighestCut' = k
BY HighestOfRange DEF HighestCut

\* So numbered cuts are dense, and their highest number is a number.
LEMMA NumberedIsDense ==
    ASSUME CutsAreNumbered
    PROVE  CutsDense /\ HighestCut \in Nat
BY HighestOfDense DEF CutsAreNumbered, CutsDense

\* A request that holds nothing holds something typed.
LEMMA NoHoldType ==
    NoHold \in Hold /\ \A u \in Users : NewCut(u) \in Cut
BY AccessAssumption DEF NoHold, Hold, NewCut, Cut, EditStatus

\* A request that gives up what it holds leaves the others where they were, as
\* long as no cut disappears, no approval is taken back and no number is lost.
LEMMA EndingKeepsHolds ==
    ASSUME EditTypeOK, CutsAreNumbered, HoldsAreReachable, NEW r \in Requests,
           \/ held' = [held EXCEPT ![r] = NoHold]
           \/ held[r] = NoHold /\ held' = held,
           DOMAIN cuts \subseteq DOMAIN cuts',
           \A n \in DOMAIN cuts :
              cuts[n].approvedBy # NoUser => cuts'[n].approvedBy # NoUser,
           HighestCut' \in Nat, HighestCut' >= HighestCut
    PROVE  HoldsAreReachable' /\ held' \in [Requests -> Hold]
<1>1. held' \in [Requests -> Hold] /\ held'[r] = NoHold
  BY NoHoldType DEF EditTypeOK
<1>2. \A q \in Requests : q # r => held'[q] = held[q]
  BY DEF EditTypeOK
<1>3. HighestCut \in Nat /\ \A q \in Requests : held[q].number \in Nat
  BY NumberedIsDense DEF EditTypeOK, Hold
<1>4. ASSUME NEW q \in Requests
      PROVE  /\ held'[q].purpose = "finalise" =>
                  held'[q].number >= 1 /\ held'[q].number =< HighestCut' + 1
             /\ held'[q].purpose = "review" =>
                  /\ held'[q].number \in DOMAIN cuts'
                  /\ held'[q].cut.approvedBy # NoUser =>
                       cuts'[held'[q].number].approvedBy # NoUser
  <2>1. CASE q = r
    BY <1>1, <2>1 DEF NoHold
  <2>2. CASE q # r
    BY <1>2, <1>3, <2>2 DEF HoldsAreReachable
  <2> QED
    BY <2>1, <2>2
<1> QED
  BY <1>1, <1>4 DEF HoldsAreReachable

\* A step that leaves the cuts alone leaves their highest number alone.
LEMMA SameCuts ==
    ASSUME CutsAreNumbered, cuts' = cuts
    PROVE  CutsAreNumbered' /\ HighestCut' = HighestCut
BY DEF CutsAreNumbered, HighestCut

\* A request that takes hold of something reachable.
LEMMA HoldingKeepsHolds ==
    ASSUME EditTypeOK, CutsAreNumbered, HoldsAreReachable, NEW r \in Requests,
           NEW h \in Hold, held' = [held EXCEPT ![r] = h], cuts' = cuts,
           h.purpose = "finalise" => h.number >= 1 /\ h.number =< HighestCut + 1,
           h.purpose = "review" => /\ h.number \in DOMAIN cuts
                                   /\ h.cut = cuts[h.number]
    PROVE  HoldsAreReachable' /\ held' \in [Requests -> Hold]
<1>1. held' \in [Requests -> Hold] /\ held'[r] = h
  BY DEF EditTypeOK
<1>2. \A q \in Requests : q # r => held'[q] = held[q]
  BY DEF EditTypeOK
<1>3. HighestCut' = HighestCut
  BY SameCuts
<1> QED
  BY <1>1, <1>2, <1>3 DEF HoldsAreReachable

-----------------------------------------------------------------------------
\* Approvals.

\* Evidence stays: entries are never removed from the trail.
LEMMA EvidenceStays ==
    ASSUME StoreTypeOK, NEW r \in Requests, HonestCommit(r)
    PROVE  \A i \in DOMAIN trail : i \in DOMAIN trail' /\ trail'[i] = trail[i]
BY CommittedTrail DEF HonestCommit

\* Merging a reviewed cut keeps the cuts typed, keeps approvals, and names only
\* approvers that were named before or that the review assigns.
LEMMA MergeCutKeeps ==
    ASSUME EditTypeOK, CutsAreNumbered, HoldsAreReachable, NEW r \in Requests,
           held[r].purpose = "review",
           NEW assigned \in Cut, MergeCut(r, assigned),
           \/ assigned.approvedBy = held[r].cut.approvedBy
           \/ assigned.approvedBy # NoUser
    PROVE  /\ DOMAIN cuts' = DOMAIN cuts
           /\ \A n \in DOMAIN cuts : cuts'[n] \in Cut
           /\ \A n \in DOMAIN cuts : n # held[r].number => cuts'[n] = cuts[n]
           /\ \A n \in DOMAIN cuts :
                 cuts[n].approvedBy # NoUser => cuts'[n].approvedBy # NoUser
           /\ cuts'[held[r].number].approvedBy
                 = Column(cuts[held[r].number].approvedBy,
                          held[r].cut.approvedBy, assigned.approvedBy)
           /\ cuts'[held[r].number].status
                 = Column(cuts[held[r].number].status,
                          held[r].cut.status, assigned.status)
<1> DEFINE n == held[r].number
           loaded == held[r].cut
           merged == [cuts[n] EXCEPT
                        !.status = Column(@, loaded.status, assigned.status),
                        !.approvedBy = Column(@, loaded.approvedBy,
                                              assigned.approvedBy)]
<1>1. n \in DOMAIN cuts /\ cuts[n] \in Cut /\ loaded \in Cut
  BY DEF HoldsAreReachable, EditTypeOK, Hold
<1>2. cuts' = [cuts EXCEPT ![n] = merged]
  BY <1>1 DEF MergeCut
<1>3. /\ merged.status = Column(cuts[n].status, loaded.status, assigned.status)
      /\ merged.approvedBy = Column(cuts[n].approvedBy, loaded.approvedBy,
                                    assigned.approvedBy)
      /\ merged \in Cut
  BY <1>1 DEF Cut, Column
<1> HIDE DEF merged
<1>4. /\ DOMAIN cuts' = DOMAIN cuts /\ cuts'[n] = merged
      /\ \A m \in DOMAIN cuts : m # n => cuts'[m] = cuts[m]
  BY <1>1, <1>2
<1>5. \A m \in DOMAIN cuts : cuts'[m] \in Cut
  BY <1>3, <1>4 DEF EditTypeOK
<1>6. cuts[n].approvedBy # NoUser => merged.approvedBy # NoUser
  BY <1>3 DEF Column
<1> QED
  BY <1>3, <1>4, <1>5, <1>6

\* Cut c may be in the table: its approval has evidence in the trail t.
Backed(c, t) ==
    /\ c.status = "approved" => c.approvedBy # NoUser
    /\ c.approvedBy # NoUser =>
         /\ Role[c.approvedBy] \in AdminRoles
         /\ \E i \in DOMAIN t :
              t[i].action = "edit.approved" /\ t[i].actor = c.approvedBy

\* The invariant says that of every cut.
LEMMA AllBacked ==
    /\ ApprovalHasEvidence <=> \A n \in DOMAIN cuts : Backed(cuts[n], trail)
    /\ ApprovalHasEvidence' <=> \A n \in DOMAIN cuts' : Backed(cuts'[n], trail')
BY DEF ApprovalHasEvidence, Backed

\* A cut that was backed stays so through an honest commit.
LEMMA BackingStays ==
    ASSUME StoreTypeOK, NEW r \in Requests, HonestCommit(r),
           NEW c, Backed(c, trail)
    PROVE  Backed(c, trail')
<1>1. \A i \in DOMAIN trail : i \in DOMAIN trail' /\ trail'[i] = trail[i]
  BY EvidenceStays
<1> QED
  BY <1>1 DEF Backed

-----------------------------------------------------------------------------
\* The endpoints.

\* A commit that leaves the cuts alone.
LEMMA CommitKeepsReview ==
    ASSUME EditInv, NEW r \in Requests, HonestCommit(r), held[r] = NoHold,
           UNCHANGED editVars
    PROVE  EditInv' /\ AuditedStep
<1>1. StoreInv' /\ AuditedStep
  BY HonestCommitKeepsInv DEF EditInv
<1>2. UNCHANGED <<cuts, held, approvals>> /\ EditTypeOK /\ CutsAreNumbered
  BY DEF editVars, EditInv, CutsInv
<1>3. HighestCut' = HighestCut /\ CutsAreNumbered'
  BY <1>2, SameCuts
<1>4. HoldsAreReachable'
  BY <1>2, <1>3 DEF EditInv, CutsInv, HoldsAreReachable
<1>5. EditTypeOK'
  BY <1>1, <1>2 DEF EditTypeOK, StoreInv
<1>6. ApprovalHasEvidence'
  BY <1>2, AllBacked, BackingStays DEF EditInv, EditTypeOK
<1> QED
  BY <1>1, <1>3, <1>4, <1>5, <1>6 DEF EditInv, CutsInv

\* A step that commits nothing.
LEMMA QuietStepKeepsReview ==
    ASSUME EditInv, UNCHANGED <<project, trail, cuts>>,
           req' \in [Requests -> Request], HoldsAreReachable',
           held' \in [Requests -> Hold], approvals' \subseteq Approval
    PROVE  EditInv'
<1>1. StoreInv'
  BY QuietStepKeepsInv DEF EditInv
<1>2. EditTypeOK'
  BY <1>1 DEF EditInv, CutsInv, EditTypeOK, StoreInv
<1>3. CutsAreNumbered'
  BY SameCuts DEF EditInv, CutsInv
<1>4. ApprovalHasEvidence'
  BY DEF EditInv, ApprovalHasEvidence
<1> QED
  BY <1>1, <1>2, <1>3, <1>4 DEF EditInv, CutsInv

\* A finalised upload gets the next number: cuts stay dense and backed.
LEMMA FinaliseStep ==
    ASSUME EditInv, NEW r \in Requests, FinaliseCut(r)
    PROVE  EditInv' /\ AuditedStep
<1> DEFINE n == held[r].number
           u == Caller(r)
<1>1. /\ StoreTypeOK /\ EditTypeOK /\ CutsAreNumbered /\ HoldsAreReachable
      /\ u \in Users /\ n \in Nat /\ approvals' = approvals
  BY LoadedType DEF EditInv, CutsInv, EditTypeOK, Hold, FinaliseCut
<1>2. HonestCommit(r)
  <2>1. "editing" \in Stages /\ "edit.uploaded" \in Actions
    BY DEF Stages, Actions
  <2>2. CASE Commit(r, Loaded(r), <<Note("edit.uploaded", u)>>)
    BY <1>1, <2>1, <2>2, NoteCommits
  <2>3. CASE /\ Loaded(r).stage \notin LateStages
             /\ Commit(r, [Loaded(r) EXCEPT !.stage = "editing"],
                       <<StageChanged(u, Loaded(r).stage, "editing")>>
                       \o <<Note("edit.uploaded", u)>>)
    <3>1. "editing" # Loaded(r).stage
      BY <2>3 DEF LateStages
    <3> QED
      BY <1>1, <2>1, <2>3, <3>1, StageThenNoteCommits
  <2> QED
    BY <2>2, <2>3 DEF FinaliseCut
<1>3. StoreInv' /\ AuditedStep
  BY <1>2, HonestCommitKeepsInv DEF EditInv
<1>4. PICK k \in Nat : DOMAIN cuts = 1 .. k /\ HighestCut = k
  BY <1>1, HighestOfDense DEF CutsAreNumbered
<1>5. /\ cuts' = [m \in DOMAIN cuts \cup {n} |->
                    IF m = n THEN NewCut(u) ELSE cuts[m]]
      /\ held' = [held EXCEPT ![r] = NoHold]
      /\ n \notin DOMAIN cuts
      /\ held[r].purpose = "finalise"
  BY DEF FinaliseCut, CutNumberIsFree
<1>6. n = k + 1
  BY <1>1, <1>4, <1>5 DEF HoldsAreReachable
<1>7. /\ DOMAIN cuts' = DOMAIN cuts \cup {n} /\ cuts'[n] = NewCut(u)
      /\ \A m \in DOMAIN cuts : cuts'[m] = cuts[m]
  BY <1>5
<1>8. DOMAIN cuts' = 1 .. (k + 1) /\ k + 1 \in Nat
  BY <1>4, <1>6, <1>7
<1>9. CutsAreNumbered'
  BY <1>8 DEF CutsAreNumbered
<1>10. HighestCut' = k + 1
  BY <1>8, HighestOfDense
<1>11. HoldsAreReachable' /\ held' \in [Requests -> Hold]
  <2>1. HighestCut' \in Nat /\ HighestCut' >= HighestCut
    BY <1>4, <1>10
  <2>2. /\ DOMAIN cuts \subseteq DOMAIN cuts'
        /\ \A m \in DOMAIN cuts :
              cuts[m].approvedBy # NoUser => cuts'[m].approvedBy # NoUser
    BY <1>7
  <2> QED
    BY <1>1, <1>5, <2>1, <2>2, EndingKeepsHolds
<1>12. EditTypeOK'
  <2>1. NewCut(u) \in Cut
    BY <1>1, NoHoldType
  <2>2. DOMAIN cuts' \subseteq Nat /\ \A m \in DOMAIN cuts' : cuts'[m] \in Cut
    BY <1>1, <1>7, <2>1 DEF EditTypeOK
  <2> QED
    BY <1>1, <1>3, <1>11, <2>2 DEF EditTypeOK, StoreInv
<1>13. ApprovalHasEvidence'
  <2>1. Backed(NewCut(u), trail')
    BY DEF Backed, NewCut
  <2>2. \A m \in DOMAIN cuts : Backed(cuts[m], trail')
    BY <1>1, <1>2, AllBacked, BackingStays DEF EditInv
  <2> QED
    BY <1>7, <2>1, <2>2, AllBacked
<1> QED
  BY <1>3, <1>9, <1>11, <1>12, <1>13 DEF EditInv, CutsInv

\* The entry a review ends its commit with is in the trail.
LEMMA ReviewIsRecorded ==
    ASSUME StoreTypeOK, NEW r \in Requests, NEW assigned,
           NEW action \in Actions, NEW to \in Stages,
           \/ Commit(r, assigned, <<Note(action, Caller(r))>>)
           \/ Commit(r, assigned, <<StageChanged(Caller(r), Loaded(r).stage, to)>>
                                  \o <<Note(action, Caller(r))>>)
    PROVE  \E i \in DOMAIN trail' :
              trail'[i].action = action /\ trail'[i].actor = Caller(r)
<1> DEFINE d == StageChanged(Caller(r), Loaded(r).stage, to)
           e == Note(action, Caller(r))
<1>1. /\ d \in Entry /\ e \in Entry
      /\ e.action = action /\ e.actor = Caller(r)
  BY LoadedType DEF StageChanged, StageNote, Note, Entry, Actions, Row
<1>2. Commit(r, assigned, <<e>>) \/ Commit(r, assigned, <<d>> \o <<e>>)
  OBVIOUS
<1> HIDE DEF d, e
<1>3. CASE Commit(r, assigned, <<e>>)
  <2> DEFINE s == <<e>>
  <2>1. s \in Seq(Entry) /\ Len(s) = 1 /\ 1 \in DOMAIN s /\ s[1] = e
    BY <1>1
  <2> HIDE DEF s
  <2>2. Commit(r, assigned, s)
    BY <1>3 DEF s
  <2>3. Len(trail) + 1 \in DOMAIN trail' /\ trail'[Len(trail) + 1] = e
    BY <2>1, <2>2, CommittedTrail
  <2> QED
    BY <1>1, <2>3
<1>4. CASE Commit(r, assigned, <<d>> \o <<e>>)
  <2> DEFINE s == <<d>> \o <<e>>
  <2>1. s \in Seq(Entry) /\ Len(s) = 2 /\ 2 \in DOMAIN s /\ s[2] = e
    BY <1>1
  <2> HIDE DEF s
  <2>2. Commit(r, assigned, s)
    BY <1>4 DEF s
  <2>3. Len(trail) + 2 \in DOMAIN trail' /\ trail'[Len(trail) + 2] = e
    BY <2>1, <2>2, CommittedTrail
  <2> QED
    BY <1>1, <2>3
<1> QED
  BY <1>2, <1>3, <1>4

\* A review of a cut, whatever it decides: it either leaves the approver alone
\* and does not approve, or names an admin whose approval it records.
LEMMA ReviewStep ==
    ASSUME EditInv, NEW r \in Requests, HonestCommit(r),
           held[r].purpose = "review",
           NEW assigned \in Cut, MergeCut(r, assigned),
           \/ /\ assigned.approvedBy = held[r].cut.approvedBy
              /\ assigned.status # "approved"
           \/ /\ assigned.approvedBy = Caller(r)
              /\ Role[Caller(r)] \in AdminRoles
              /\ \E i \in DOMAIN trail' :
                    /\ trail'[i].action = "edit.approved"
                    /\ trail'[i].actor = Caller(r),
           approvals' \subseteq Approval
    PROVE  EditInv' /\ AuditedStep
<1> DEFINE n == held[r].number
           loaded == held[r].cut
<1>1. /\ StoreTypeOK /\ EditTypeOK /\ CutsAreNumbered /\ HoldsAreReachable
      /\ Caller(r) \in Users /\ Caller(r) # NoUser
  BY LoadedType, StoreAssumption DEF EditInv, CutsInv, EditTypeOK
<1>2. StoreInv' /\ AuditedStep
  BY HonestCommitKeepsInv DEF EditInv
<1>3. /\ DOMAIN cuts' = DOMAIN cuts
      /\ \A m \in DOMAIN cuts : cuts'[m] \in Cut
      /\ \A m \in DOMAIN cuts : m # n => cuts'[m] = cuts[m]
      /\ \A m \in DOMAIN cuts :
            cuts[m].approvedBy # NoUser => cuts'[m].approvedBy # NoUser
      /\ cuts'[n].approvedBy = Column(cuts[n].approvedBy, loaded.approvedBy,
                                      assigned.approvedBy)
      /\ cuts'[n].status = Column(cuts[n].status, loaded.status,
                                  assigned.status)
  BY <1>1, MergeCutKeeps
<1>4. n \in DOMAIN cuts
  BY <1>1 DEF HoldsAreReachable
<1>5. PICK k \in Nat : DOMAIN cuts = 1 .. k
  BY <1>1 DEF CutsAreNumbered
<1>6. /\ CutsAreNumbered' /\ HighestCut' = k /\ HighestCut = k
  BY <1>3, <1>5, HighestOfDense DEF CutsAreNumbered
<1>7. HoldsAreReachable' /\ held' \in [Requests -> Hold]
  <2>1. held' = [held EXCEPT ![r] = NoHold]
    BY DEF MergeCut
  <2>2. HighestCut' \in Nat /\ HighestCut' >= HighestCut
    BY <1>6
  <2> QED
    BY <1>1, <1>3, <2>1, <2>2, EndingKeepsHolds
<1>8. EditTypeOK'
  BY <1>1, <1>2, <1>3, <1>7 DEF EditTypeOK, StoreInv
<1>9. \A m \in DOMAIN cuts : Backed(cuts[m], trail')
  BY <1>1, AllBacked, BackingStays DEF EditInv
<1>10. Backed(cuts'[n], trail')
  <2>1. CASE /\ assigned.approvedBy = loaded.approvedBy
             /\ assigned.status # "approved"
    <3>1. cuts'[n].approvedBy = cuts[n].approvedBy
      BY <1>3, <2>1 DEF Column
    <3>2. cuts'[n].status = "approved" => cuts[n].status = "approved"
      BY <1>3, <2>1 DEF Column
    <3> QED
      BY <1>4, <1>9, <3>1, <3>2 DEF Backed
  <2>2. CASE /\ assigned.approvedBy = Caller(r)
             /\ Role[Caller(r)] \in AdminRoles
             /\ \E i \in DOMAIN trail' :
                   /\ trail'[i].action = "edit.approved"
                   /\ trail'[i].actor = Caller(r)
    <3>1. \/ cuts'[n].approvedBy = Caller(r)
          \/ /\ cuts'[n].approvedBy = cuts[n].approvedBy
             /\ loaded.approvedBy # NoUser
      BY <1>1, <1>3, <2>2 DEF Column
    <3>2. cuts'[n].approvedBy # NoUser
      BY <1>1, <3>1 DEF HoldsAreReachable
    <3> QED
      BY <1>4, <1>9, <2>2, <3>1, <3>2 DEF Backed
  <2> QED
    BY <2>1, <2>2
<1>11. ApprovalHasEvidence'
  BY <1>3, <1>9, <1>10, AllBacked
<1> QED
  BY <1>2, <1>6, <1>7, <1>8, <1>11 DEF EditInv, CutsInv

\* Approving is such a review.
LEMMA ApproveStep ==
    ASSUME EditInv, NEW r \in Requests, ApproveCut(r)
    PROVE  EditInv' /\ AuditedStep
<1> DEFINE u == Caller(r)
           assigned == [held[r].cut EXCEPT !.status = "approved",
                                           !.approvedBy = u]
           publishing ==
             /\ Role[u] = "ceo" /\ Loaded(r).stage # "approved_published"
             /\ Commit(r, [Loaded(r) EXCEPT !.stage = "approved_published"],
                       <<StageChanged(u, Loaded(r).stage,
                                      "approved_published")>>
                       \o <<Note("edit.approved", u)>>)
           recording == Commit(r, Loaded(r), <<Note("edit.approved", u)>>)
<1>1. /\ StoreTypeOK /\ u \in Users /\ held[r] \in Hold
      /\ approvals \subseteq Approval
      /\ "approved_published" \in Stages /\ "edit.approved" \in Actions
  BY LoadedType DEF EditInv, CutsInv, EditTypeOK, Stages, Actions
<1>2. /\ Role[u] \in AdminRoles /\ held[r].purpose = "review"
      /\ MergeCut(r, assigned)
      /\ Approved(r)
      /\ publishing \/ recording
  BY DEF ApproveCut, Reviewing, Approvers
<1>3. /\ assigned \in Cut /\ assigned.approvedBy = u
  BY <1>1 DEF Hold, Cut, EditStatus
<1>4. HonestCommit(r)
  BY <1>1, <1>2, NoteCommits, StageThenNoteCommits
<1>5. \E i \in DOMAIN trail' :
         trail'[i].action = "edit.approved" /\ trail'[i].actor = u
  BY <1>1, <1>2, ReviewIsRecorded
<1>6. approvals' \subseteq Approval
  <2>1. StoreTypeOK'
    BY <1>4, HonestCommitKeepsInv DEF EditInv, StoreInv
  <2>2. Len(trail') \in Nat
    BY <2>1 DEF StoreTypeOK
  <2> QED
    BY <1>1, <1>2, <2>2 DEF Hold, Approval, Approved
<1> HIDE DEF assigned
<1> QED
  BY <1>2, <1>3, <1>4, <1>5, <1>6, ReviewStep

\* Requesting changes is one that approves nothing.
LEMMA RequestChangesStep ==
    ASSUME EditInv, NEW r \in Requests, RequestChanges(r)
    PROVE  EditInv' /\ AuditedStep
<1> DEFINE u == Caller(r)
           assigned == [held[r].cut EXCEPT !.status = "changes_requested"]
           moving ==
             /\ Loaded(r).stage # "editing"
             /\ Commit(r, [Loaded(r) EXCEPT !.stage = "editing"],
                       <<StageChanged(u, Loaded(r).stage, "editing")>>
                       \o <<Note("edit.changes_requested", u)>>)
           recording ==
             Commit(r, Loaded(r), <<Note("edit.changes_requested", u)>>)
<1>1. /\ StoreTypeOK /\ held[r] \in Hold
      /\ approvals \subseteq Approval
      /\ "editing" \in Stages /\ "edit.changes_requested" \in Actions
  BY DEF EditInv, CutsInv, EditTypeOK, Stages, Actions
<1>2. /\ held[r].purpose = "review"
      /\ MergeCut(r, assigned)
      /\ approvals' = approvals
      /\ moving \/ recording
  BY DEF RequestChanges, Reviewing
<1>3. /\ assigned \in Cut
      /\ assigned.approvedBy = held[r].cut.approvedBy
      /\ assigned.status # "approved"
  BY <1>1 DEF Hold, Cut, EditStatus
<1>4. HonestCommit(r)
  BY <1>1, <1>2, NoteCommits, StageThenNoteCommits
<1> HIDE DEF assigned
<1> QED
  BY <1>1, <1>2, <1>3, <1>4, ReviewStep

-----------------------------------------------------------------------------
\* The steps of the review.

\* No cuts yet: the invariant holds.
LEMMA EditInitInv == EditInit => EditInv
<1> SUFFICES ASSUME EditInit PROVE EditInv
  OBVIOUS
<1>1. StoreInv
  BY StoreInitInv DEF EditInit
<1>2. DOMAIN cuts = {} /\ approvals = {} /\ held = [r \in Requests |-> NoHold]
  BY DEF EditInit
<1>3. EditTypeOK
  BY <1>1, <1>2, NoHoldType DEF StoreInv, EditTypeOK
<1>4. CutsAreNumbered
  <2>1. DOMAIN cuts = 1 .. 0 /\ 0 \in Nat
    BY <1>2
  <2> QED
    BY <2>1 DEF CutsAreNumbered
<1>5. HoldsAreReachable /\ ApprovalHasEvidence
  BY <1>2 DEF HoldsAreReachable, NoHold, ApprovalHasEvidence
<1> QED
  BY <1>1, <1>3, <1>4, <1>5 DEF EditInv, CutsInv

\* Every step of the review keeps the invariant and is audited.
LEMMA EditStep ==
    ASSUME EditInv, EditNext
    PROVE  EditInv' /\ [AuditedStep]_<<project, trail>>
<1> PICK r \in Requests :
       \/ \E u \in Users : OpenProject(r, u)
       \/ LeaveReview(r)
       \/ BoardStep(r)
       \/ NumberCut(r)
       \/ FinaliseCut(r)
       \/ \E u \in Users, n \in DOMAIN cuts : LoadCut(r, u, n)
       \/ LoadProjectOfCut(r)
       \/ ApproveAgain(r)
       \/ ApproveCut(r)
       \/ RequestChanges(r)
  BY DEF EditNext
<1>0. /\ StoreTypeOK /\ EditTypeOK /\ CutsAreNumbered /\ HoldsAreReachable
      /\ CutsDense /\ HighestCut \in Nat
      /\ req \in [Requests -> Request] /\ held \in [Requests -> Hold]
      /\ approvals \subseteq Approval
  BY NumberedIsDense DEF EditInv, CutsInv, EditTypeOK, StoreTypeOK
<1>1. ASSUME NEW u \in Users, OpenProject(r, u)
      PROVE  EditInv' /\ UNCHANGED <<project, trail>>
  <2>1. /\ req' \in [Requests -> Request]
        /\ UNCHANGED <<project, trail, cuts, held, approvals>>
    BY <1>0, <1>1, OpenType DEF OpenProject, Open, editVars
  <2>2. HoldsAreReachable'
    BY <1>0, <2>1, SameCuts DEF HoldsAreReachable
  <2> QED
    BY <1>0, <2>1, <2>2, QuietStepKeepsReview
<1>2. CASE LeaveReview(r)
  <2>1. /\ req' = [req EXCEPT ![r] = Idle]
        /\ held' = [held EXCEPT ![r] = NoHold]
        /\ UNCHANGED <<project, trail, cuts, approvals>>
    BY <1>2 DEF LeaveReview
  <2>2. req' \in [Requests -> Request]
    BY <1>0, <2>1, FreshType
  <2>3. HighestCut' = HighestCut /\ HighestCut' >= HighestCut
    BY <1>0, <2>1, SameCuts
  <2>4. HoldsAreReachable' /\ held' \in [Requests -> Hold]
    BY <1>0, <2>1, <2>3, EndingKeepsHolds
  <2> QED
    BY <1>0, <2>1, <2>2, <2>4, QuietStepKeepsReview
<1>3. CASE BoardStep(r)
  <2>1. HonestCommit(r) /\ held[r] = NoHold /\ UNCHANGED editVars
    BY <1>0, <1>3, ProjectEndpointCommits DEF BoardStep
  <2> QED
    BY <2>1, CommitKeepsReview
<1>4. CASE NumberCut(r)
  <2> DEFINE h == [purpose |-> "finalise", number |-> HighestCut + 1,
                   cut |-> NewCut(Creator), read |-> 0]
  <2>1. /\ h \in Hold /\ h.purpose = "finalise"
        /\ h.number >= 1 /\ h.number =< HighestCut + 1
    BY <1>0, NoHoldType, AccessAssumption DEF Hold
  <2>2. /\ held' = [held EXCEPT ![r] = h]
        /\ UNCHANGED <<project, trail, req, cuts, approvals>>
    BY <1>0, <1>4 DEF NumberCut, NextCutNumber, NoHold, storeVars
  <2> HIDE DEF h
  <2>3. HoldsAreReachable' /\ held' \in [Requests -> Hold]
    BY <1>0, <2>1, <2>2, HoldingKeepsHolds
  <2> QED
    BY <1>0, <2>2, <2>3, QuietStepKeepsReview
<1>5. CASE FinaliseCut(r)
  BY <1>5, FinaliseStep
<1>6. ASSUME NEW u \in Users, NEW n \in DOMAIN cuts, LoadCut(r, u, n)
      PROVE  EditInv' /\ UNCHANGED <<project, trail>>
  <2> DEFINE h == [purpose |-> "review", number |-> n, cut |-> cuts[n],
                   read |-> 0]
  <2>1. /\ h \in Hold /\ h.purpose = "review" /\ h.number = n
        /\ h.cut = cuts[n]
    BY <1>0 DEF Hold, EditTypeOK
  <2>2. /\ held' = [held EXCEPT ![r] = h]
        /\ UNCHANGED <<project, trail, cuts, approvals>>
        /\ req' = [req EXCEPT ![r].user = u]
    BY <1>6 DEF LoadCut
  <2> HIDE DEF h
  <2>3. HoldsAreReachable' /\ held' \in [Requests -> Hold]
    BY <1>0, <2>1, <2>2, HoldingKeepsHolds
  <2>4. req' \in [Requests -> Request]
    BY <1>0, <2>2 DEF Request
  <2> QED
    BY <1>0, <2>2, <2>3, <2>4, QuietStepKeepsReview
<1>7. CASE LoadProjectOfCut(r)
  <2> DEFINE h == [held[r] EXCEPT !.read = Len(trail)]
  <2>1. /\ UNCHANGED <<project, trail, cuts, approvals>>
        /\ req' = [req EXCEPT ![r].on = TRUE, ![r].row = project]
        /\ held' = [held EXCEPT ![r] = h]
    BY <1>7 DEF LoadProjectOfCut
  <2>2. req' \in [Requests -> Request]
    BY <1>0, <2>1 DEF Request, StoreTypeOK
  <2>3. /\ h \in Hold /\ h.purpose = held[r].purpose
        /\ h.number = held[r].number /\ h.cut = held[r].cut
    <3>1. Len(trail) \in Nat /\ held[r] \in Hold
      BY <1>0 DEF StoreTypeOK
    <3> QED
      BY <3>1 DEF Hold
  <2> HIDE DEF h
  <2>4. held' \in [Requests -> Hold] /\ held'[r] = h
    BY <1>0, <2>1, <2>3
  <2>5. \A q \in Requests : q # r => held'[q] = held[q]
    BY <1>0, <2>1
  <2>6. HoldsAreReachable'
    BY <1>0, <2>1, <2>3, <2>4, <2>5, SameCuts DEF HoldsAreReachable
  <2> QED
    BY <1>0, <2>1, <2>2, <2>4, <2>6, QuietStepKeepsReview
<1>8. CASE ApproveAgain(r)
  <2>1. /\ req' = [req EXCEPT ![r] = Idle]
        /\ held' = [held EXCEPT ![r] = NoHold]
        /\ UNCHANGED <<project, trail, cuts, approvals>>
    BY <1>8 DEF ApproveAgain
  <2>2. req' \in [Requests -> Request]
    BY <1>0, <2>1, FreshType
  <2>4. HighestCut' = HighestCut /\ HighestCut' >= HighestCut
    BY <1>0, <2>1, SameCuts
  <2>5. HoldsAreReachable' /\ held' \in [Requests -> Hold]
    BY <1>0, <2>1, <2>4, EndingKeepsHolds
  <2> QED
    BY <1>0, <2>1, <2>2, <2>5, QuietStepKeepsReview
<1>9. CASE ApproveCut(r)
  BY <1>9, ApproveStep
<1>10. CASE RequestChanges(r)
  BY <1>10, RequestChangesStep
<1> QED
  BY <1>1, <1>2, <1>3, <1>4, <1>5, <1>6, <1>7, <1>8, <1>9, <1>10

\* A stuttering step keeps it.
LEMMA EditStutter ==
    ASSUME EditInv, UNCHANGED <<storeVars, editVars>>
    PROVE  EditInv'
<1>1. UNCHANGED <<project, trail, req, cuts, held, approvals>>
  BY DEF storeVars, editVars
<1>2. /\ req' \in [Requests -> Request] /\ held' \in [Requests -> Hold]
      /\ approvals' \subseteq Approval
  BY <1>1 DEF EditInv, CutsInv, EditTypeOK, StoreTypeOK
<1>3. HoldsAreReachable'
  BY <1>1, SameCuts DEF EditInv, CutsInv, HoldsAreReachable
<1> QED
  BY <1>1, <1>2, <1>3, QuietStepKeepsReview

-----------------------------------------------------------------------------
\* What a CEO's approval leaves behind.

\* PublishedAt and PublishedWith of a trail t, and a cut n approved within the
\* first k entries of a trail, by the approvals A.
PublishedIn(t, n) ==
    \E i \in 1 .. n :
        /\ t[i].to = "approved_published"
        /\ \A j \in i + 1 .. n : t[j].to = NoStage

PublishesIn(t, a) ==
    /\ t[a.entry - 1].to = "approved_published"
    /\ t[a.entry - 1].actor = a.by
    /\ t[a.entry].action = "edit.approved"

ApprovedBy(A, n, k) == \E a \in A : a.cut = n /\ a.entry \in 1 .. k

\* What the trail t and the approvals A tell of a cut c with number n, of an
\* approval a, and of a session s that holds h: a copy that shows an approval,
\* or a published project, was read after the trail said so.
CutTold(n, c, t, A) == c.status = "approved" => ApprovedBy(A, n, Len(t))

ApprovalTold(a, t) ==
    /\ a.read =< Len(t) /\ a.entry \in 2 .. Len(t)
    /\ Role[a.by] = "ceo" => PublishedIn(t, a.read) \/ PublishesIn(t, a)

SessionTold(s, h, t, A) ==
    /\ h.read =< Len(t)
    /\ h.purpose = "review" =>
         /\ s.on /\ s.row.stage = "approved_published" => PublishedIn(t, h.read)
         /\ h.cut.status = "approved" =>
              ApprovedBy(A, h.number, IF s.on THEN h.read ELSE Len(t))

ToldInv ==
    /\ \A n \in DOMAIN cuts : CutTold(n, cuts[n], trail, approvals)
    /\ \A a \in approvals : ApprovalTold(a, trail)
    /\ \A r \in Requests : SessionTold(req[r], held[r], trail, approvals)

\* A trail that extends another tells the same of what was read before.
LEMMA ToldStays ==
    ASSUME NEW t \in Seq(Entry), NEW u \in Seq(Entry), NEW A, NEW B,
           A \subseteq B, A \subseteq Approval, Len(t) =< Len(u),
           \A i \in 1 .. Len(t) : u[i] = t[i]
    PROVE  /\ \A n \in Nat, c \in Cut : CutTold(n, c, t, A) => CutTold(n, c, u, B)
           /\ \A a \in Approval : ApprovalTold(a, t) => ApprovalTold(a, u)
           /\ \A s \in Request, h \in Hold :
                 SessionTold(s, h, t, A) => SessionTold(s, h, u, B)
<1>1. Len(t) \in Nat /\ Len(u) \in Nat
  OBVIOUS
<1>2. ASSUME NEW n \in Nat, n =< Len(t), PublishedIn(t, n)
      PROVE  PublishedIn(u, n)
  <2>1. PICK i \in 1 .. n : /\ t[i].to = "approved_published"
                            /\ \A j \in i + 1 .. n : t[j].to = NoStage
    BY <1>2 DEF PublishedIn
  <2>2. u[i].to = "approved_published"
    BY <1>1, <1>2, <2>1
  <2>3. \A j \in i + 1 .. n : u[j].to = NoStage
    BY <1>1, <1>2, <2>1
  <2> QED
    BY <2>1, <2>2, <2>3 DEF PublishedIn
<1>3. ASSUME NEW n \in Nat, NEW k \in Nat, NEW m \in Nat, k =< m,
             ApprovedBy(A, n, k)
      PROVE  ApprovedBy(B, n, m)
  <2>1. PICK a \in A : a.cut = n /\ a.entry \in 1 .. k
    BY <1>3 DEF ApprovedBy
  <2> QED
    BY <1>3, <2>1 DEF ApprovedBy
<1>4. ASSUME NEW n \in Nat, NEW c \in Cut, CutTold(n, c, t, A)
      PROVE  CutTold(n, c, u, B)
  BY <1>1, <1>3, <1>4 DEF CutTold
<1>5. ASSUME NEW a \in Approval, ApprovalTold(a, t)
      PROVE  ApprovalTold(a, u)
  <2>1. a.read \in Nat /\ a.read =< Len(t) /\ a.entry \in 2 .. Len(t)
    BY <1>5 DEF Approval, ApprovalTold
  <2>2. u[a.entry - 1] = t[a.entry - 1] /\ u[a.entry] = t[a.entry]
    BY <1>1, <2>1
  <2>3. PublishesIn(t, a) => PublishesIn(u, a)
    BY <2>2 DEF PublishesIn
  <2>4. a.read =< Len(u) /\ a.entry \in 2 .. Len(u)
    BY <1>1, <2>1
  <2> QED
    BY <1>2, <1>5, <2>1, <2>3, <2>4 DEF ApprovalTold
<1>6. ASSUME NEW s \in Request, NEW h \in Hold, SessionTold(s, h, t, A)
      PROVE  SessionTold(s, h, u, B)
  <2>1. h.read \in Nat /\ h.number \in Nat /\ h.read =< Len(t) /\ h.read =< Len(u)
    BY <1>1, <1>6 DEF Hold, SessionTold
  <2>2. PublishedIn(t, h.read) => PublishedIn(u, h.read)
    BY <1>2, <2>1
  <2>3. /\ ApprovedBy(A, h.number, h.read) => ApprovedBy(B, h.number, h.read)
        /\ ApprovedBy(A, h.number, Len(t)) => ApprovedBy(B, h.number, Len(u))
    BY <1>1, <1>3, <2>1
  <2> QED
    BY <1>6, <2>1, <2>2, <2>3 DEF SessionTold
<1> QED
  BY <1>4, <1>5, <1>6

\* A step that extends the trail keeps the invariant if the cuts, approvals and
\* sessions it changes are told of.
LEMMA TellingStep ==
    ASSUME EditInv, EditInv', ToldInv, [AuditedStep]_<<project, trail>>,
           approvals \subseteq approvals',
           NEW r \in Requests,
           \A q \in Requests : q # r => req'[q] = req[q] /\ held'[q] = held[q],
           SessionTold(req'[r], held'[r], trail', approvals'),
           \A n \in DOMAIN cuts' :
              \/ /\ n \in DOMAIN cuts
                 /\ cuts'[n].status = "approved" => cuts[n].status = "approved"
              \/ CutTold(n, cuts'[n], trail', approvals'),
           \A a \in approvals' : a \in approvals \/ ApprovalTold(a, trail')
    PROVE  ToldInv'
<1>1. /\ trail \in Seq(Entry) /\ trail' \in Seq(Entry)
      /\ req \in [Requests -> Request] /\ held \in [Requests -> Hold]
      /\ approvals \subseteq Approval
      /\ DOMAIN cuts \subseteq Nat /\ \A n \in DOMAIN cuts : cuts[n] \in Cut
  BY DEF EditInv, CutsInv, EditTypeOK, StoreTypeOK
<1>2. Len(trail) =< Len(trail') /\ \A i \in 1 .. Len(trail) : trail'[i] = trail[i]
  <2>1. CASE trail' = trail
    BY <1>1, <2>1
  <2>2. CASE AuditedStep
    <3>1. /\ Len(trail') >= Len(trail) /\ Len(trail) \in Nat
          /\ Len(trail') \in Nat
          /\ SubSeq(trail', 1, Len(trail)) = trail
      BY <1>1, <2>2 DEF AuditedStep
    <3>2. \A i \in 1 .. Len(trail) : SubSeq(trail', 1, Len(trail))[i] = trail'[i]
      BY <1>1, <3>1
    <3> QED
      BY <3>1, <3>2
  <2> QED
    BY <2>1, <2>2
<1> DEFINE t == trail
           u == trail'
           A == approvals
           B == approvals'
<1>3. /\ \A n \in Nat, c \in Cut : CutTold(n, c, t, A) => CutTold(n, c, u, B)
      /\ \A a \in Approval : ApprovalTold(a, t) => ApprovalTold(a, u)
      /\ \A s \in Request, h \in Hold :
            SessionTold(s, h, t, A) => SessionTold(s, h, u, B)
  <2>1. /\ t \in Seq(Entry) /\ u \in Seq(Entry) /\ A \subseteq B
        /\ A \subseteq Approval /\ Len(t) =< Len(u)
        /\ \A i \in 1 .. Len(t) : u[i] = t[i]
    BY <1>1, <1>2
  <2> HIDE DEF t, u, A, B
  <2> QED
    BY <2>1, ToldStays
<1>4. ASSUME NEW n \in DOMAIN cuts'
      PROVE  CutTold(n, cuts'[n], trail', approvals')
  <2>1. CASE /\ n \in DOMAIN cuts
             /\ cuts'[n].status = "approved" => cuts[n].status = "approved"
    <3>1. CutTold(n, cuts[n], trail', approvals')
      BY <1>1, <1>3, <2>1 DEF ToldInv
    <3> QED
      BY <2>1, <3>1 DEF CutTold
  <2> QED
    BY <2>1
<1>5. \A a \in approvals' : ApprovalTold(a, trail')
  BY <1>1, <1>3 DEF ToldInv
<1>6. \A q \in Requests : SessionTold(req'[q], held'[q], trail', approvals')
  BY <1>1, <1>3 DEF ToldInv
<1> QED
  BY <1>4, <1>5, <1>6 DEF ToldInv

\* A request that holds no review is told of, whatever the trail.
LEMMA NoReviewTold ==
    ASSUME NEW s, NEW h, NEW t \in Seq(Entry), NEW A,
           h.read = 0, h.purpose # "review"
    PROVE  SessionTold(s, h, t, A)
BY DEF SessionTold

\* A published row is told by the whole trail, and no trail is empty.
LEMMA PublishedIsTold ==
    ASSUME StoreTypeOK, StageMatchesTrail
    PROVE  /\ Len(trail) \in Nat /\ Len(trail) >= 1
           /\ project.stage = "approved_published" =>
                PublishedIn(trail, Len(trail))
<1>1. trail \in Seq(Entry) /\ Len(trail) \in Nat /\ DOMAIN trail = 1 .. Len(trail)
  BY DEF StoreTypeOK
<1>2. PICK i \in DOMAIN trail :
        /\ trail[i].to = project.stage
        /\ \A j \in DOMAIN trail : j > i => trail[j].to = NoStage
  BY DEF StageMatchesTrail
<1>3. i \in 1 .. Len(trail) /\ \A j \in i + 1 .. Len(trail) : trail[j].to = NoStage
  BY <1>1, <1>2
<1> QED
  BY <1>1, <1>2, <1>3 DEF PublishedIn

\* An approval tells of itself: a CEO's has published, unless the request found
\* the project published, and the cut it approves is told by its entry.
LEMMA ApprovalTells ==
    ASSUME EditInv, EditInv', ToldInv, NEW r \in Requests, ApproveCut(r)
    PROVE  ToldInv'
<1> DEFINE u == Caller(r)
           n == held[r].number
           from == Loaded(r).stage
           d == StageChanged(u, from, "approved_published")
           e == Note("edit.approved", u)
           a == [by |-> u, cut |-> n, read |-> held[r].read,
                 entry |-> Len(trail')]
<1>1. /\ StoreTypeOK /\ StoreTypeOK' /\ EditTypeOK /\ StageMatchesTrail
      /\ CutsAreNumbered /\ HoldsAreReachable
      /\ u \in Users /\ Loaded(r) \in Row /\ held[r] \in Hold
      /\ req \in [Requests -> Request] /\ held \in [Requests -> Hold]
  BY LoadedType DEF EditInv, StoreInv, CutsInv, EditTypeOK, StoreTypeOK
<1>2. /\ req[r].on /\ held[r].purpose = "review"
      /\ held' = [held EXCEPT ![r] = NoHold]
      /\ req' = [req EXCEPT ![r] = Idle]
      /\ approvals' = approvals \cup {a}
  BY DEF ApproveCut, Reviewing, MergeCut, Commit, Approved
<1>3. /\ d \in Entry /\ e \in Entry
      /\ d.to = "approved_published" /\ d.actor = u
      /\ e.action = "edit.approved"
  BY <1>1 DEF StageChanged, StageNote, Note, Entry, Actions, Row, Stages
<1>4. \/ /\ Role[u] = "ceo" => from = "approved_published"
         /\ trail' = trail \o <<e>>
      \/ trail' = trail \o (<<d>> \o <<e>>)
  BY DEF ApproveCut, Commit
<1> HIDE DEF d, e
<1>5. /\ trail \in Seq(Entry) /\ trail' \in Seq(Entry)
      /\ Len(trail) \in Nat /\ Len(trail) >= 1
  BY <1>1, PublishedIsTold DEF StoreTypeOK
<1>6. \/ /\ Role[u] = "ceo" => from = "approved_published"
         /\ Len(trail') = Len(trail) + 1
      \/ /\ Len(trail') = Len(trail) + 2
         /\ trail'[Len(trail) + 1] = d /\ trail'[Len(trail) + 2] = e
  <2>1. CASE trail' = trail \o <<e>>
    BY <1>3, <1>4, <1>5, <2>1
  <2>2. CASE trail' = trail \o (<<d>> \o <<e>>)
    <3> DEFINE s == <<d>> \o <<e>>
    <3>1. s \in Seq(Entry) /\ Len(s) = 2 /\ s[1] = d /\ s[2] = e
      BY <1>3
    <3> HIDE DEF s
    <3>2. trail' = trail \o s
      BY <2>2 DEF s
    <3>3. /\ Len(trail \o s) = Len(trail) + Len(s)
          /\ \A i \in 1 .. Len(trail) + Len(s) :
                (trail \o s)[i] = IF i <= Len(trail) THEN trail[i]
                                 ELSE s[i - Len(trail)]
      BY <1>5, <3>1, ConcatProperties
    <3>4. /\ Len(trail') = Len(trail) + 2
          /\ trail'[Len(trail) + 1] = s[1] /\ trail'[Len(trail) + 2] = s[2]
      BY <1>5, <3>1, <3>2, <3>3
    <3> QED
      BY <3>1, <3>4
  <2> QED
    BY <1>4, <2>1, <2>2
<1>7. /\ [AuditedStep]_<<project, trail>>
      /\ approvals \subseteq approvals'
  BY <1>2, ApproveStep
<1>8. \A i \in 1 .. Len(trail) : trail'[i] = trail[i]
  <2>1. SubSeq(trail', 1, Len(trail)) = trail /\ Len(trail') >= Len(trail)
    BY <1>5, <1>6, ApproveStep DEF AuditedStep
  <2>2. \A i \in 1 .. Len(trail) : SubSeq(trail', 1, Len(trail))[i] = trail'[i]
    BY <1>5, <2>1
  <2> QED
    BY <2>1, <2>2
<1>9. /\ held[r].read \in Nat /\ held[r].read =< Len(trail) /\ n \in Nat
      /\ from = "approved_published" => PublishedIn(trail, held[r].read)
  BY <1>1, <1>2 DEF ToldInv, SessionTold, Loaded, Hold
<1>10. ASSUME PublishedIn(trail, held[r].read)
       PROVE  PublishedIn(trail', held[r].read)
  <2> DEFINE k == held[r].read
  <2>1. \A i \in 1 .. k : trail'[i] = trail[i]
    BY <1>5, <1>8, <1>9
  <2>2. k \in Nat /\ PublishedIn(trail, k)
    BY <1>9, <1>10
  <2> HIDE DEF k
  <2>3. PublishedIn(trail', k)
    BY <2>1, <2>2 DEF PublishedIn
  <2> QED
    BY <2>3 DEF k
<1>11. ApprovalTold(a, trail')
  <2>1. /\ a.by = u /\ a.read = held[r].read /\ a.entry = Len(trail')
        /\ a.cut = n
    OBVIOUS
  <2> HIDE DEF a
  <2>2. a.read =< Len(trail') /\ a.entry \in 2 .. Len(trail')
    BY <1>5, <1>6, <1>9, <2>1
  <2>3. CASE Role[u] = "ceo" => from = "approved_published"
    BY <1>9, <1>10, <2>1, <2>2, <2>3 DEF ApprovalTold
  <2>4. CASE /\ Len(trail') = Len(trail) + 2
             /\ trail'[Len(trail) + 1] = d /\ trail'[Len(trail) + 2] = e
    <3>1. trail'[a.entry - 1] = d /\ trail'[a.entry] = e
      BY <1>5, <2>1, <2>4
    <3> QED
      BY <1>3, <2>1, <2>2, <3>1 DEF ApprovalTold, PublishesIn
  <2> QED
    BY <1>6, <2>3, <2>4
<1>12. ApprovedBy(approvals', n, Len(trail'))
  <2>1. a \in approvals' /\ a.cut = n /\ a.entry = Len(trail')
    BY <1>2
  <2> HIDE DEF a
  <2>2. Len(trail') \in 1 .. Len(trail')
    BY <1>5, <1>6
  <2> QED
    BY <2>1, <2>2 DEF ApprovedBy
<1>13. \A m \in DOMAIN cuts' : m = n \/ (m \in DOMAIN cuts /\ cuts'[m] = cuts[m])
  BY DEF ApproveCut, MergeCut
<1>14. \A q \in Requests : q # r => req'[q] = req[q] /\ held'[q] = held[q]
  BY <1>1, <1>2
<1>15. SessionTold(req'[r], held'[r], trail', approvals')
  <2>1. held'[r] = NoHold
    BY <1>1, <1>2
  <2> QED
    BY <1>5, <2>1, NoReviewTold DEF NoHold
<1>16. \A m \in DOMAIN cuts' :
         \/ /\ m \in DOMAIN cuts
            /\ cuts'[m].status = "approved" => cuts[m].status = "approved"
         \/ CutTold(m, cuts'[m], trail', approvals')
  BY <1>12, <1>13 DEF CutTold
<1>17. \A b \in approvals' : b \in approvals \/ ApprovalTold(b, trail')
  BY <1>2, <1>11
<1> QED
  BY <1>7, <1>14, <1>15, <1>16, <1>17, TellingStep

\* A request for changes approves nothing.
LEMMA ChangesApproveNothing ==
    ASSUME EditInv, NEW r \in Requests, RequestChanges(r),
           NEW n \in DOMAIN cuts'
    PROVE  /\ n \in DOMAIN cuts
           /\ cuts'[n].status = "approved" => cuts[n].status = "approved"
<1> DEFINE assigned == [held[r].cut EXCEPT !.status = "changes_requested"]
<1>1. /\ EditTypeOK /\ CutsAreNumbered /\ HoldsAreReachable
      /\ held[r] \in Hold
  BY DEF EditInv, CutsInv, EditTypeOK
<1>2. held[r].purpose = "review" /\ MergeCut(r, assigned)
  BY DEF RequestChanges, Reviewing
<1>3. /\ assigned \in Cut
      /\ assigned.approvedBy = held[r].cut.approvedBy
      /\ assigned.status = "changes_requested"
  BY <1>1 DEF Hold, Cut, EditStatus
<1> HIDE DEF assigned
<1>4. /\ DOMAIN cuts' = DOMAIN cuts
      /\ \A m \in DOMAIN cuts : m # held[r].number => cuts'[m] = cuts[m]
      /\ cuts'[held[r].number].status
            = Column(cuts[held[r].number].status,
                     held[r].cut.status, assigned.status)
  BY <1>1, <1>2, <1>3, MergeCutKeeps
<1> QED
  BY <1>3, <1>4 DEF Column

\* Every step of the review keeps it.
LEMMA ToldStep ==
    ASSUME EditInv, EditNext, ToldInv
    PROVE  ToldInv'
<1>1. EditInv' /\ [AuditedStep]_<<project, trail>>
  BY EditStep
<1>2. /\ StoreTypeOK /\ EditTypeOK /\ StageMatchesTrail
      /\ held \in [Requests -> Hold] /\ req \in [Requests -> Request]
      /\ trail' \in Seq(Entry)
  BY <1>1 DEF EditInv, StoreInv, CutsInv, EditTypeOK, StoreTypeOK
<1>3. NoHold.purpose # "review" /\ NoHold.read = 0
  BY DEF NoHold
<1> PICK r \in Requests :
       \/ \E u \in Users : OpenProject(r, u)
       \/ LeaveReview(r)
       \/ BoardStep(r)
       \/ NumberCut(r)
       \/ FinaliseCut(r)
       \/ \E u \in Users, n \in DOMAIN cuts : LoadCut(r, u, n)
       \/ LoadProjectOfCut(r)
       \/ ApproveAgain(r)
       \/ ApproveCut(r)
       \/ RequestChanges(r)
  BY DEF EditNext
\* The steps that leave the request without a review.
<1>4. ASSUME UNCHANGED approvals,
             held' = [held EXCEPT ![r] = NoHold] \/ (held' = held /\ held[r] = NoHold),
             \A q \in Requests : q # r => req'[q] = req[q],
             \A n \in DOMAIN cuts' :
               \/ /\ n \in DOMAIN cuts
                  /\ cuts'[n].status = "approved" => cuts[n].status = "approved"
               \/ cuts'[n].status # "approved"
      PROVE  ToldInv'
  <2>1. /\ held'[r] = NoHold
        /\ \A q \in Requests : q # r => held'[q] = held[q]
    BY <1>2, <1>4
  <2>2. SessionTold(req'[r], held'[r], trail', approvals')
    BY <1>2, <1>3, <2>1, NoReviewTold
  <2>3. \A n \in DOMAIN cuts' :
          \/ /\ n \in DOMAIN cuts
             /\ cuts'[n].status = "approved" => cuts[n].status = "approved"
          \/ CutTold(n, cuts'[n], trail', approvals')
    BY <1>4 DEF CutTold
  <2> QED
    BY <1>1, <1>4, <2>1, <2>2, <2>3, TellingStep
<1>5. ASSUME NEW u \in Users, OpenProject(r, u)
      PROVE  ToldInv'
  <2>1. /\ held[r] = NoHold /\ UNCHANGED <<cuts, held, approvals>>
        /\ \A q \in Requests : q # r => req'[q] = req[q]
    BY <1>2, <1>5 DEF OpenProject, Open, editVars
  <2> QED
    BY <1>4, <2>1
<1>6. CASE LeaveReview(r) \/ ApproveAgain(r)
  <2>1. /\ held' = [held EXCEPT ![r] = NoHold]
        /\ UNCHANGED <<cuts, approvals>>
        /\ \A q \in Requests : q # r => req'[q] = req[q]
    BY <1>2, <1>6 DEF LeaveReview, ApproveAgain
  <2> QED
    BY <1>4, <2>1
<1>7. CASE BoardStep(r)
  <2>1. held[r] = NoHold /\ UNCHANGED <<cuts, held, approvals>>
    BY <1>7 DEF BoardStep, editVars
  <2>2. req' = [req EXCEPT ![r] = Idle]
    BY <1>7 DEF BoardStep, ProjectEndpoint, MoveStage, UpdateProject,
                SoftDelete, Restore, Commit
  <2>3. \A q \in Requests : q # r => req'[q] = req[q]
    BY <1>2, <2>2
  <2> QED
    BY <1>4, <2>1, <2>3
<1>8. CASE FinaliseCut(r)
  <2>1. /\ \A n \in DOMAIN cuts' : \/ n \in DOMAIN cuts /\ cuts'[n] = cuts[n]
                                   \/ cuts'[n] = NewCut(Caller(r))
        /\ held' = [held EXCEPT ![r] = NoHold]
        /\ approvals' = approvals
    BY <1>8 DEF FinaliseCut
  <2>2. \A q \in Requests : q # r => req'[q] = req[q]
    BY <1>2, <1>8 DEF FinaliseCut, Commit
  <2>3. NewCut(Caller(r)).status # "approved"
    BY DEF NewCut
  <2>4. \A n \in DOMAIN cuts' :
          \/ /\ n \in DOMAIN cuts
             /\ cuts'[n].status = "approved" => cuts[n].status = "approved"
          \/ cuts'[n].status # "approved"
    BY <2>1, <2>3
  <2> QED
    BY <1>4, <2>1, <2>2, <2>4
<1>9. CASE RequestChanges(r)
  <2>1. /\ held' = [held EXCEPT ![r] = NoHold]
        /\ approvals' = approvals
        /\ req' = [req EXCEPT ![r] = Idle]
    BY <1>9 DEF RequestChanges, MergeCut, Commit
  <2>2. \A q \in Requests : q # r => req'[q] = req[q]
    BY <1>2, <2>1
  <2> QED
    BY <1>4, <1>9, <2>1, <2>2, ChangesApproveNothing
<1>10. CASE NumberCut(r)
  <2> DEFINE h == [held[r] EXCEPT !.purpose = "finalise",
                                  !.number  = NextCutNumber]
  <2>1. /\ held[r] = NoHold
        /\ held' = [held EXCEPT ![r] = h]
        /\ UNCHANGED <<project, trail, req, cuts, approvals>>
    BY <1>2, <1>10 DEF NumberCut, storeVars
  <2>2. h.purpose # "review" /\ h.read = 0
    BY <2>1 DEF NoHold
  <2> HIDE DEF h
  <2>3. /\ held'[r] = h
        /\ \A q \in Requests : q # r => held'[q] = held[q]
    BY <1>2, <2>1
  <2>4. SessionTold(req'[r], held'[r], trail', approvals')
    BY <1>2, <2>2, <2>3, NoReviewTold
  <2> QED
    BY <1>1, <2>1, <2>3, <2>4, TellingStep
<1>11. ASSUME NEW u \in Users, NEW n \in DOMAIN cuts, LoadCut(r, u, n)
      PROVE  ToldInv'
  <2> DEFINE h == [purpose |-> "review", number |-> n, cut |-> cuts[n],
                   read |-> 0]
  <2>1. /\ held' = [held EXCEPT ![r] = h] /\ ~req[r].on
        /\ req' = [req EXCEPT ![r].user = u]
        /\ UNCHANGED <<project, trail, cuts, approvals>>
    BY <1>11 DEF LoadCut
  <2>2. h.number = n /\ h.cut = cuts[n] /\ h.read = 0
    OBVIOUS
  <2> HIDE DEF h
  <2>3. /\ held'[r] = h /\ req'[r].on = req[r].on
        /\ \A q \in Requests : q # r => held'[q] = held[q] /\ req'[q] = req[q]
    BY <1>2, <2>1 DEF Request
  <2>4. CutTold(n, cuts[n], trail, approvals)
    BY DEF ToldInv
  <2>5. SessionTold(req'[r], held'[r], trail', approvals')
    BY <1>2, <2>1, <2>2, <2>3, <2>4 DEF SessionTold, CutTold
  <2> QED
    BY <1>1, <2>1, <2>3, <2>5, TellingStep
<1>12. CASE LoadProjectOfCut(r)
  <2> DEFINE h == [held[r] EXCEPT !.read = Len(trail)]
  <2>1. /\ UNCHANGED <<project, trail, cuts, approvals>> /\ ~req[r].on
        /\ req' = [req EXCEPT ![r].on = TRUE, ![r].row = project]
        /\ held' = [held EXCEPT ![r] = h]
        /\ held[r].purpose = "review"
    BY <1>12 DEF LoadProjectOfCut
  <2>2. /\ h.purpose = held[r].purpose /\ h.number = held[r].number
        /\ h.cut = held[r].cut /\ h.read = Len(trail)
    BY <1>2 DEF Hold
  <2> HIDE DEF h
  <2>3. /\ held'[r] = h /\ req'[r].row = project
        /\ \A q \in Requests : q # r => held'[q] = held[q] /\ req'[q] = req[q]
    BY <1>2, <2>1 DEF Request
  <2>4. SessionTold(req[r], held[r], trail, approvals)
    BY DEF ToldInv
  <2>5. h.cut.status = "approved" => ApprovedBy(approvals, h.number, h.read)
    BY <2>1, <2>2, <2>4 DEF SessionTold
  <2>6. /\ Len(trail) \in Nat
        /\ project.stage = "approved_published" => PublishedIn(trail, h.read)
    BY <1>2, <2>2, PublishedIsTold
  <2>7. req'[r].on
    BY <1>2, <2>1 DEF Request
  <2>8. SessionTold(req'[r], held'[r], trail', approvals')
    BY <2>1, <2>2, <2>3, <2>5, <2>6, <2>7 DEF SessionTold
  <2> QED
    BY <1>1, <2>1, <2>3, <2>8, TellingStep
<1>13. CASE ApproveCut(r)
  BY <1>1, <1>13, ApprovalTells
<1> QED
  BY <1>5, <1>6, <1>7, <1>8, <1>9, <1>10, <1>11, <1>12, <1>13

\* Nothing is approved at first.
LEMMA ToldInitInv == EditInit => ToldInv
<1> SUFFICES ASSUME EditInit PROVE ToldInv
  OBVIOUS
<1>1. /\ DOMAIN cuts = {} /\ approvals = {}
      /\ held = [r \in Requests |-> NoHold]
      /\ trail \in Seq(Entry)
  BY StoreInitInv DEF EditInit, StoreInv, StoreTypeOK
<1>2. \A r \in Requests : SessionTold(req[r], held[r], trail, approvals)
  BY <1>1, NoReviewTold DEF NoHold
<1> QED
  BY <1>1, <1>2 DEF ToldInv

-----------------------------------------------------------------------------
\* The cuts implement an append-only log.

\* A cut as an entry of the log, and the log the first k cuts of a table show:
\* what the refinement mapping of CutLog makes of them.
CutLogEntries == [author: Users, stamped: BOOLEAN]

CutStamped(c) == c.approvedBy # NoUser

CutShown(c) == [author |-> c.uploader, stamped |-> CutStamped(c)]

CutLogOf(table, k) == [n \in 1 .. k |-> CutShown(table[n])]

\* The entries of a typed table are entries of a log.
LEMMA LogOfTyped ==
    ASSUME NEW table, NEW k \in Nat, \A n \in 1 .. k : table[n] \in Cut
    PROVE  /\ CutLogOf(table, k) \in Seq(CutLogEntries) /\ Len(CutLogOf(table, k)) = k
           /\ \A n \in 1 .. k : CutLogOf(table, k)[n] = CutShown(table[n])
<1>1. \A c \in Cut : CutStamped(c) \in BOOLEAN
  BY DEF CutStamped
<1>2. \A c \in Cut : CutShown(c) \in CutLogEntries
  BY <1>1 DEF CutShown, CutLogEntries, Cut
<1>3. \A n \in 1 .. k : CutLogOf(table, k)[n] = CutShown(table[n])
  BY DEF CutLogOf
<1>4. CutLogOf(table, k) \in [1 .. k -> CutLogEntries]
  BY <1>2 DEF CutLogOf
<1>5. CutLogOf(table, k) \in Seq(CutLogEntries) /\ Len(CutLogOf(table, k)) = k
  BY <1>4
<1> QED
  BY <1>3, <1>5

\* A table with one more cut shows a log with one more entry.
LEMMA NextCutExtends ==
    ASSUME NEW table, NEW more, NEW k \in Nat,
           \A n \in 1 .. k : table[n] \in Cut /\ more[n] = table[n],
           more[k + 1] \in Cut
    PROVE  CutLogOf(more, k + 1) = Append(CutLogOf(table, k), CutShown(more[k + 1]))
<1> DEFINE s == CutLogOf(table, k)
           t == CutLogOf(more, k + 1)
           e == CutShown(more[k + 1])
           u == Append(s, e)
<1>1. /\ s \in Seq(CutLogEntries) /\ Len(s) = k
      /\ \A n \in 1 .. k : s[n] = CutShown(table[n])
  BY LogOfTyped
<1>2. k + 1 \in Nat /\ \A n \in 1 .. k + 1 : more[n] \in Cut
  <2>1. \A n \in 1 .. k + 1 : n \in 1 .. k \/ n = k + 1
    OBVIOUS
  <2> QED
    BY <2>1
<1>3. /\ t \in Seq(CutLogEntries) /\ Len(t) = k + 1
      /\ \A n \in 1 .. k + 1 : t[n] = CutShown(more[n])
  BY <1>2, LogOfTyped
<1>4. t[k + 1] = e /\ \A n \in 1 .. k : t[n] = s[n]
  BY <1>1, <1>3
<1>5. e \in CutLogEntries
  BY <1>3, <1>4
<1> HIDE DEF s, t, e
<1>6. /\ u \in Seq(CutLogEntries) /\ Len(u) = k + 1
      /\ u[k + 1] = e /\ \A n \in 1 .. k : u[n] = s[n]
  BY <1>1, <1>5, AppendProperties
<1> HIDE DEF u
<1>7. \A n \in 1 .. Len(t) : t[n] = u[n]
  BY <1>3, <1>4, <1>6
<1>8. t = u
  BY <1>3, <1>6, <1>7, SeqEqual
<1> QED
  BY <1>8 DEF s, t, u, e

\* A table in which one cut is reviewed shows the log with, at most, one more
\* stamp.
LEMMA ReviewStamps ==
    ASSUME NEW table, NEW k \in Nat, \A n \in 1 .. k : table[n] \in Cut,
           NEW later, \A n \in 1 .. k : later[n] \in Cut,
           NEW m \in 1 .. k, \A n \in 1 .. k : n # m => later[n] = table[n],
           later[m].uploader = table[m].uploader,
           CutStamped(table[m]) => CutStamped(later[m])
    PROVE  \/ CutLogOf(later, k) = CutLogOf(table, k)
           \/ CutLogOf(later, k) = [CutLogOf(table, k) EXCEPT ![m].stamped = TRUE]
<1> DEFINE s == CutLogOf(table, k)
           t == CutLogOf(later, k)
           e == [s[m] EXCEPT !.stamped = TRUE]
           u == [s EXCEPT ![m] = e]
<1>1. /\ s \in Seq(CutLogEntries) /\ Len(s) = k
      /\ \A n \in 1 .. k : s[n] = CutShown(table[n])
  BY LogOfTyped
<1>2. /\ t \in Seq(CutLogEntries) /\ Len(t) = k
      /\ \A n \in 1 .. k : t[n] = CutShown(later[n])
  BY LogOfTyped
<1>3. \A n \in 1 .. k : n # m => t[n] = s[n]
  BY <1>1, <1>2
<1>4. s[m] \in CutLogEntries /\ t[m] \in CutLogEntries
  BY <1>1, <1>2
<1>5. t[m].author = s[m].author
  BY <1>1, <1>2 DEF CutShown
<1>6. t[m].stamped = CutStamped(later[m]) /\ s[m].stamped = CutStamped(table[m])
  BY <1>1, <1>2 DEF CutShown
<1> HIDE DEF s, t
<1>7. CASE t[m].stamped = s[m].stamped
  <2>1. t[m] = s[m]
    BY <1>4, <1>5, <1>7 DEF CutLogEntries
  <2>2. \A n \in 1 .. Len(t) : t[n] = s[n]
    BY <1>2, <1>3, <2>1
  <2>3. t = s
    BY <1>1, <1>2, <2>2, SeqEqual
  <2> QED
    BY <2>3 DEF s, t
<1>8. CASE t[m].stamped # s[m].stamped
  <2>1. t[m].stamped = TRUE
    <3>1. CutStamped(later[m])
      BY <1>6, <1>8 DEF CutStamped
    <3> QED
      BY <1>6, <3>1 DEF CutStamped
  <2>2. e \in CutLogEntries /\ e.author = s[m].author /\ e.stamped = TRUE
    BY <1>4 DEF CutLogEntries
  <2> HIDE DEF e
  <2>3. t[m] = e
    BY <1>4, <1>5, <2>1, <2>2 DEF CutLogEntries
  <2>4. /\ u \in Seq(CutLogEntries) /\ Len(u) = k
        /\ \A n \in 1 .. k : u[n] = IF n = m THEN e ELSE s[n]
    BY <1>1, <2>2, ExceptSeq
  <2>5. u = [s EXCEPT ![m].stamped = TRUE]
    BY DEF u, e
  <2> HIDE DEF u
  <2>6. \A n \in 1 .. Len(t) : t[n] = u[n]
    BY <1>2, <1>3, <2>3, <2>4
  <2>7. t = u
    BY <1>2, <2>4, <2>6, SeqEqual
  <2> QED
    BY <2>5, <2>7 DEF s, t
<1> QED
  BY <1>7, <1>8

\* What one step does to the log.
CutLogMove ==
    \/ \E a \in Users :
          CutLogOf(cuts', HighestCut')
              = Append(CutLogOf(cuts, HighestCut), [author |-> a, stamped |-> FALSE])
    \/ \E i \in DOMAIN CutLogOf(cuts, HighestCut) :
          CutLogOf(cuts', HighestCut')
              = [CutLogOf(cuts, HighestCut) EXCEPT ![i].stamped = TRUE]
    \/ CutLogOf(cuts', HighestCut') = CutLogOf(cuts, HighestCut)

\* A finalised upload extends the log by its author's entry.
LEMMA FinaliseExtends ==
    ASSUME EditInv, EditInv', NEW r \in Requests, FinaliseCut(r)
    PROVE  CutLogMove
<1> DEFINE n == held[r].number
           c == NewCut(Caller(r))
           e == [author |-> Caller(r), stamped |-> FALSE]
<1>1. /\ EditTypeOK /\ EditTypeOK' /\ CutsAreNumbered /\ CutsAreNumbered'
      /\ HoldsAreReachable /\ Caller(r) \in Users
  BY LoadedType DEF EditInv, CutsInv, EditTypeOK
<1>2. PICK k \in Nat : DOMAIN cuts = 1 .. k /\ HighestCut = k
  BY <1>1, HighestOfDense DEF CutsAreNumbered
<1>3. /\ cuts' = [m \in DOMAIN cuts \cup {n} |->
                    IF m = n THEN NewCut(Caller(r)) ELSE cuts[m]]
      /\ n \notin DOMAIN cuts /\ held[r].purpose = "finalise"
      /\ n \in Nat
  BY <1>1 DEF FinaliseCut, CutNumberIsFree, EditTypeOK, Hold
<1>4. n = k + 1
  BY <1>1, <1>2, <1>3 DEF HoldsAreReachable
<1>5. /\ DOMAIN cuts' = 1 .. k + 1 /\ cuts'[k + 1] = c
      /\ \A m \in 1 .. k : cuts'[m] = cuts[m]
  BY <1>2, <1>3, <1>4
<1>6. HighestCut' = k + 1
  BY <1>5, HighestOfDense
<1>7. c \in Cut /\ \A m \in 1 .. k : cuts[m] \in Cut
  BY <1>1, <1>2, NoHoldType DEF EditTypeOK
<1>8. CutLogOf(cuts', k + 1) = Append(CutLogOf(cuts, k), CutShown(cuts'[k + 1]))
  <2> DEFINE table == cuts
             more == cuts'
  <2>1. /\ \A m \in 1 .. k : table[m] \in Cut /\ more[m] = table[m]
        /\ more[k + 1] \in Cut
    BY <1>5, <1>7
  <2> HIDE DEF table, more
  <2>2. CutLogOf(more, k + 1) = Append(CutLogOf(table, k), CutShown(more[k + 1]))
    BY <2>1, NextCutExtends
  <2> QED
    BY <2>2 DEF table, more
<1>9. CutShown(cuts'[k + 1]) = e
  <2>1. CutStamped(c) = FALSE /\ c.uploader = Caller(r)
    BY DEF CutStamped, NewCut
  <2> HIDE DEF c
  <2>2. CutShown(c) = [author |-> c.uploader, stamped |-> CutStamped(c)]
    BY DEF CutShown
  <2> QED
    BY <1>5, <2>1, <2>2
<1> HIDE DEF e
<1>10. CutLogOf(cuts', HighestCut') = Append(CutLogOf(cuts, HighestCut), e)
  BY <1>2, <1>6, <1>8, <1>9
<1> QED
  BY <1>1, <1>10 DEF CutLogMove, e

\* A review leaves the log alone or stamps the entry of its cut.
LEMMA ReviewStampsLog ==
    ASSUME EditInv, EditInv', NEW r \in Requests, NEW assigned,
           held[r].purpose = "review", MergeCut(r, assigned),
           \/ assigned.approvedBy = held[r].cut.approvedBy
           \/ assigned.approvedBy # NoUser
    PROVE  CutLogMove
<1> DEFINE m == held[r].number
           loaded == held[r].cut
           merged == [cuts[m] EXCEPT
                        !.status = Column(@, loaded.status, assigned.status),
                        !.approvedBy = Column(@, loaded.approvedBy,
                                              assigned.approvedBy)]
<1>1. /\ EditTypeOK /\ EditTypeOK' /\ CutsAreNumbered /\ HoldsAreReachable
      /\ m \in DOMAIN cuts /\ cuts[m] \in Cut
      /\ loaded.approvedBy # NoUser => cuts[m].approvedBy # NoUser
  BY DEF EditInv, CutsInv, HoldsAreReachable, EditTypeOK
<1>2. cuts' = [cuts EXCEPT ![m] = merged]
  BY <1>1 DEF MergeCut
<1>3. /\ merged.approvedBy = Column(cuts[m].approvedBy, loaded.approvedBy,
                                    assigned.approvedBy)
      /\ merged.uploader = cuts[m].uploader
  BY <1>1 DEF Cut
<1> HIDE DEF merged
<1>4. CutStamped(cuts[m]) => CutStamped(merged)
  BY <1>1, <1>3 DEF Column, CutStamped
<1>5. PICK k \in Nat : DOMAIN cuts = 1 .. k
  BY <1>1 DEF CutsAreNumbered
<1>6. /\ DOMAIN cuts' = 1 .. k /\ cuts'[m] = merged
      /\ \A n \in 1 .. k : n # m => cuts'[n] = cuts[n]
  BY <1>1, <1>2, <1>5
<1>7. HighestCut = k /\ HighestCut' = k
  BY <1>5, <1>6, HighestOfDense
<1> DEFINE table == cuts
           later == cuts'
<1>8. /\ \A n \in 1 .. k : table[n] \in Cut /\ later[n] \in Cut
      /\ \A n \in 1 .. k : n # m => later[n] = table[n]
      /\ later[m].uploader = table[m].uploader
      /\ CutStamped(table[m]) => CutStamped(later[m])
      /\ m \in 1 .. k
  BY <1>1, <1>3, <1>4, <1>5, <1>6 DEF EditTypeOK
<1> HIDE DEF table, later, m
<1>9. \/ CutLogOf(later, k) = CutLogOf(table, k)
      \/ CutLogOf(later, k) = [CutLogOf(table, k) EXCEPT ![m].stamped = TRUE]
  BY <1>8, ReviewStamps
<1>10. DOMAIN CutLogOf(table, k) = 1 .. k
  BY DEF CutLogOf
<1> QED
  BY <1>7, <1>8, <1>9, <1>10 DEF CutLogMove, table, later

\* Every step extends the log, stamps an entry or leaves it alone.
LEMMA EditLogStep ==
    ASSUME EditInv, EditInv', [EditNext]_<<storeVars, editVars>>
    PROVE  CutLogMove
<1>1. CASE cuts' = cuts
  BY <1>1, SameCuts DEF EditInv, CutsInv, CutLogMove
<1>2. ASSUME NEW r \in Requests, ApproveCut(r)
      PROVE  CutLogMove
  <2> DEFINE assigned == [held[r].cut EXCEPT !.status = "approved",
                                             !.approvedBy = Caller(r)]
  <2>1. held[r].purpose = "review" /\ MergeCut(r, assigned)
    BY <1>2 DEF ApproveCut, Reviewing
  <2>2. /\ held[r] \in Hold
        /\ Caller(r) \in Users /\ Caller(r) # NoUser
    BY LoadedType, StoreAssumption DEF EditInv, CutsInv, EditTypeOK
  <2>3. assigned.approvedBy # NoUser
    BY <2>2 DEF Hold, Cut
  <2> HIDE DEF assigned
  <2> QED
    BY <2>1, <2>3, ReviewStampsLog
<1>3. ASSUME NEW r \in Requests, RequestChanges(r)
      PROVE  CutLogMove
  <2> DEFINE assigned == [held[r].cut EXCEPT !.status = "changes_requested"]
  <2>1. held[r].purpose = "review" /\ MergeCut(r, assigned)
    BY <1>3 DEF RequestChanges, Reviewing
  <2>2. held[r] \in Hold
    BY DEF EditInv, CutsInv, EditTypeOK
  <2>3. assigned.approvedBy = held[r].cut.approvedBy
    BY <2>2 DEF Hold, Cut
  <2> HIDE DEF assigned
  <2> QED
    BY <2>1, <2>3, ReviewStampsLog
<1>4. ASSUME NEW r \in Requests,
             \/ \E u \in Users : OpenProject(r, u)
             \/ LeaveReview(r) \/ BoardStep(r) \/ NumberCut(r)
             \/ \E u \in Users, n \in DOMAIN cuts : LoadCut(r, u, n)
             \/ LoadProjectOfCut(r) \/ ApproveAgain(r)
      PROVE  cuts' = cuts
  BY <1>4 DEF OpenProject, LeaveReview, BoardStep, NumberCut, LoadCut,
              LoadProjectOfCut, ApproveAgain, editVars
<1>5. CASE UNCHANGED <<storeVars, editVars>>
  BY <1>1, <1>5 DEF editVars
<1> QED
  BY <1>1, <1>2, <1>3, <1>4, <1>5, FinaliseExtends DEF EditNext

-----------------------------------------------------------------------------
\* The theorems of the review.

\* The strengthened invariant of the review holds of every reachable state.
THEOREM EditInvariant == EditSpec => []EditInv
<1>1. EditInv /\ [EditNext]_<<storeVars, editVars>> => EditInv'
  BY EditStep, EditStutter
<1> QED
  BY <1>1, EditInitInv, PTL DEF EditSpec

\* Rows, sessions and holds keep their types.
THEOREM EditTypes == EditSpec => []EditTypeOK
<1>1. EditInv => EditTypeOK
  BY DEF EditInv, CutsInv
<1> QED
  BY <1>1, EditInvariant, PTL

\* Whatever uploads race, cuts are V1, V2, V3, ... with no gap.
THEOREM EditCutsDense == EditSpec => []CutsDense
<1>1. EditInv => CutsDense
  BY NumberedIsDense DEF EditInv, CutsInv
<1> QED
  BY <1>1, EditInvariant, PTL

\* Whatever reviews race, an approved cut names an admin whose approval is in
\* the trail.
THEOREM EditApprovalHasEvidence == EditSpec => []ApprovalHasEvidence
<1>1. EditInv => ApprovalHasEvidence
  BY DEF EditInv
<1> QED
  BY <1>1, EditInvariant, PTL

\* Whatever approvals race, a CEO's that was answered with success has published,
\* or found the project published, or that very cut approved before.
THEOREM EditCeoApprovalPublishes == EditSpec => []CeoApprovalPublishes
<1>1. EditInv /\ ToldInv /\ [EditNext]_<<storeVars, editVars>> => ToldInv'
  <2>1. EditInv /\ ToldInv /\ EditNext => ToldInv'
    BY ToldStep
  <2>2. ToldInv /\ UNCHANGED <<storeVars, editVars>> => ToldInv'
    BY DEF ToldInv, storeVars, editVars
  <2> QED
    BY <2>1, <2>2
<1>2. ToldInv => CeoApprovalPublishes
  BY DEF ToldInv, ApprovalTold, SessionTold, PublishedIn, PublishesIn,
         ApprovedBy, CeoApprovalPublishes, PublishedAt, PublishedWith,
         ApprovedBefore, Reviewing
<1> QED
  BY <1>1, <1>2, EditInvariant, ToldInitInv, PTL DEF EditSpec

\* The review implements VersionLog: whatever uploads and reviews race, a cut
\* that is there stays its uploader's, and an approval is never cleared.
THEOREM EditImplementsCutLog == EditSpec => ImplementsCutLog
<1> DEFINE shown == [n \in 1 .. HighestCut |->
                       [author  |-> cuts[n].uploader,
                        stamped |-> cuts[n].approvedBy # NoUser]]
<1>1. EditInit => CutLog!LogInit
  <2> SUFFICES ASSUME EditInit PROVE CutLog!LogInit
    OBVIOUS
  <2>1. HighestCut = 0
    BY HighestOfDense DEF EditInit
  <2> QED
    BY <2>1 DEF CutLog!LogInit
<1>2. EditInv /\ EditInv' /\ [EditNext]_<<storeVars, editVars>>
        => [CutLog!Extend \/ CutLog!Stamp]_shown
  <2>1. shown = CutLogOf(cuts, HighestCut) /\ shown' = CutLogOf(cuts', HighestCut')
    BY DEF CutLogOf, CutShown, CutStamped
  <2> HIDE DEF shown
  <2> QED
    BY <2>1, EditLogStep DEF CutLogMove, CutLog!Extend, CutLog!Stamp, shown
<1> QED
  BY <1>1, <1>2, EditInvariant, PTL
     DEF EditSpec, ImplementsCutLog, CutLog!LogSpec

\* The trail tells the stage while cuts are uploaded, approved and rejected.
THEOREM EditTellsStage == EditSpec => []StageMatchesTrail
<1>1. EditInv => StageMatchesTrail
  BY DEF EditInv, StoreInv
<1> QED
  BY <1>1, EditInvariant, PTL

\* Approving a cut publishes the project for the CEO only.
THEOREM EditPublishedByCeo == EditSpec => []PublishedByCeo
<1>1. EditInv => PublishedByCeo
  BY DEF EditInv, StoreInv
<1> QED
  BY <1>1, EditInvariant, PTL

\* No endpoint of the review changes a column without its entry.
THEOREM EditAudited == EditSpec => ChangesAreAudited
<1>1. EditInv /\ [EditNext]_<<storeVars, editVars>>
        => [AuditedStep]_<<project, trail>>
  BY EditStep DEF storeVars
<1> QED
  BY <1>1, EditInvariant, PTL DEF EditSpec, ChangesAreAudited

=============================================================================
