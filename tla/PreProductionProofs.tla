------------------------- MODULE PreProductionProofs -------------------------
(***************************************************************************)
(* Proofs about locations, cast and shoots: every commit is honest in the  *)
(* sense of StoreProofs, the column a commit changes is the one its first  *)
(* entry tells of, and a project moves on with its evidence only.          *)
(***************************************************************************)
EXTENDS PreProduction, StoreProofs

\* Only a request on a project loaded in casting checks the cast.
ChecksInCasting ==
    \A r \in Requests :
        held[r].seen # "nothing" => req[r].on /\ Loaded(r).stage = "casting"

PreInv == StoreInv /\ PreTypeOK /\ ChildMatchesTrail /\ ChecksInCasting

-----------------------------------------------------------------------------
\* Rows and holds.

\* A new row and an empty hold are typed.
LEMMA NewChildType ==
    /\ \A c \in Ids : NewChild(c) \in ChildRow
    /\ NoHold \in Hold /\ NoHold.seen = "nothing"
<1>1. FirstDetail \in Details
  BY PreAssumption DEF FirstDetail
<1> QED
  BY <1>1 DEF NewChild, NoHold, Hold, ChildRow, States

\* The entries about rows are actions of the trail.
LEMMA RowActions ==
    ASSUME NEW c \in Ids
    PROVE  {Created[c], Updated[c], FileAdded[c], Deleted[c], Confirmed[c],
            Unconfirmed[c], "shoot.transitioned"} \subseteq Actions
BY DEF Created, Updated, FileAdded, Deleted, Confirmed, Unconfirmed, Actions

\* A step on one request keeps the others in casting while they check.
LEMMA OneRequestChecks ==
    ASSUME ChecksInCasting, NEW r \in Requests,
           \A q \in Requests : q # r => req'[q] = req[q] /\ held'[q] = held[q],
           \/ held'[r].seen = "nothing"
           \/ req'[r].on /\ req'[r].row.stage = "casting"
    PROVE  ChecksInCasting'
BY DEF ChecksInCasting, Loaded

\* A request that starts or ends leaves the other ones alone.
LEMMA RequestEnds ==
    ASSUME PreInv, NEW r \in Requests, req' = [req EXCEPT ![r] = Idle],
           held' = [held EXCEPT ![r] = NoHold]
    PROVE  /\ ChecksInCasting'
           /\ held' \in [Requests -> Hold] /\ req' \in [Requests -> Request]
<1>1. /\ held \in [Requests -> Hold] /\ req \in [Requests -> Request]
      /\ ChecksInCasting
  BY DEF PreInv, PreTypeOK, StoreTypeOK
<1>2. held' \in [Requests -> Hold] /\ req' \in [Requests -> Request]
  BY <1>1, NewChildType, FreshType
<1>3. held'[r].seen = "nothing"
  BY <1>1, NewChildType
<1>4. \A q \in Requests : q # r => req'[q] = req[q] /\ held'[q] = held[q]
  BY <1>1
<1> QED
  BY <1>1, <1>2, <1>3, <1>4, OneRequestChecks

-----------------------------------------------------------------------------
\* What a commit records.

\* The first entry of a commit is recorded by the step.
LEMMA FirstIsRecorded ==
    ASSUME StoreTypeOK, NEW r, NEW assigned, NEW e \in Entry, NEW d \in Entry,
           NEW actions, e.action \in actions,
           Commit(r, assigned, <<e>>) \/ Commit(r, assigned, <<e>> \o <<d>>)
    PROVE  Recorded(actions)
<1>1. CASE Commit(r, assigned, <<e>>)
  <2> DEFINE s == <<e>>
  <2>1. s \in Seq(Entry) /\ 1 \in DOMAIN s /\ s[1] = e
    OBVIOUS
  <2>2. Mentions(s, actions)
    BY <2>1 DEF Mentions
  <2> HIDE DEF s
  <2>3. Commit(r, assigned, s)
    BY <1>1 DEF s
  <2> QED
    BY <2>1, <2>2, <2>3, MentionedIsRecorded
<1>2. CASE Commit(r, assigned, <<e>> \o <<d>>)
  <2> DEFINE s == <<e>> \o <<d>>
  <2>1. s \in Seq(Entry) /\ 1 \in DOMAIN s /\ s[1] = e
    OBVIOUS
  <2>2. Mentions(s, actions)
    BY <2>1 DEF Mentions
  <2> HIDE DEF s
  <2>3. Commit(r, assigned, s)
    BY <1>2 DEF s
  <2> QED
    BY <2>1, <2>2, <2>3, MentionedIsRecorded
<1> QED
  BY <1>1, <1>2

\* Recording an action, and moving the project or not, commits honestly.
LEMMA RecordStep ==
    ASSUME StoreTypeOK, NEW r \in Requests, NEW action \in Actions,
           NEW advances \in BOOLEAN, NEW target \in Stages,
           advances => target # Loaded(r).stage,
           target # "approved_published",
           RecordAndAdvance(r, action, advances, target)
    PROVE  /\ HonestCommit(r)
           /\ \A actions : action \in actions => Recorded(actions)
           /\ req' = [req EXCEPT ![r] = Idle]
<1> DEFINE e == Note(action, Caller(r))
           d == StageChanged(Caller(r), Loaded(r).stage, target)
           moving == /\ advances
                     /\ Commit(r, [Loaded(r) EXCEPT !.stage = target],
                               <<e>> \o <<d>>)
           recording == Commit(r, Loaded(r), <<e>>)
<1>1. Loaded(r) \in Row /\ Caller(r) \in Users
  BY LoadedType
<1>2. e \in Entry /\ e.action = action /\ d \in Entry
  BY <1>1 DEF Note, StageChanged, StageNote, Entry, Actions, Row
<1>3. moving \/ recording
  BY DEF RecordAndAdvance
<1>4. HonestCommit(r)
  BY <1>3, NoteCommits, NoteThenStageCommits
<1>5. req' = [req EXCEPT ![r] = Idle]
  BY <1>3 DEF Commit
<1>6. PICK assigned :
        Commit(r, assigned, <<e>>) \/ Commit(r, assigned, <<e>> \o <<d>>)
  BY <1>3
<1> HIDE DEF e, d
<1>7. ASSUME NEW actions, action \in actions PROVE Recorded(actions)
  BY <1>2, <1>6, <1>7, FirstIsRecorded
<1> QED
  BY <1>4, <1>5, <1>7

\* The same of a commit that only records.
LEMMA RecordOnlyStep ==
    ASSUME StoreTypeOK, NEW r \in Requests, NEW action \in Actions,
           Commit(r, Loaded(r), <<Note(action, Caller(r))>>)
    PROVE  /\ HonestCommit(r)
           /\ \A actions : action \in actions => Recorded(actions)
           /\ req' = [req EXCEPT ![r] = Idle]
<1>1. RecordAndAdvance(r, action, FALSE, "idea") /\ "idea" \in Stages
  BY DEF RecordAndAdvance, Stages
<1> QED
  BY <1>1, RecordStep

-----------------------------------------------------------------------------
\* The rows.

\* A commit that leaves the rows alone.
LEMMA CommitKeepsRows ==
    ASSUME PreInv, NEW r \in Requests, HonestCommit(r), held[r] = NoHold,
           UNCHANGED preVars, req' = [req EXCEPT ![r] = Idle]
    PROVE  PreInv' /\ AuditedStep /\ [ChildAuditedStep]_<<trail, child, told>>
<1>1. StoreInv' /\ AuditedStep
  BY HonestCommitKeepsInv DEF PreInv
<1>2. UNCHANGED <<child, told, held>>
  BY DEF preVars
<1>3. PreTypeOK' /\ ChildMatchesTrail'
  BY <1>1, <1>2 DEF PreInv, StoreInv, PreTypeOK, ChildMatchesTrail
<1>4. held' = [held EXCEPT ![r] = NoHold]
  BY <1>2 DEF PreInv, PreTypeOK
<1>5. ChecksInCasting'
  BY <1>4, RequestEnds
<1>6. ChildAuditedStep
  BY <1>2 DEF ChildAuditedStep, PreInv, PreTypeOK
<1> QED
  BY <1>1, <1>3, <1>5, <1>6 DEF PreInv

\* A step that commits nothing.
LEMMA QuietStepKeepsRows ==
    ASSUME PreInv, UNCHANGED <<project, trail, child, told>>,
           req' \in [Requests -> Request], held' \in [Requests -> Hold],
           ChecksInCasting'
    PROVE  PreInv'
<1>1. StoreInv'
  BY QuietStepKeepsInv DEF PreInv
<1> QED
  BY <1>1 DEF PreInv, StoreInv, PreTypeOK, ChildMatchesTrail

\* The flush of a row whose state is left alone, or is changed and told.
LEMMA MergeStep ==
    ASSUME PreInv, NEW r \in Requests, HonestCommit(r),
           req' = [req EXCEPT ![r] = Idle], held[r].id \in Ids,
           NEW assigned \in ChildRow, MergeChild(r, assigned),
           \/ /\ assigned.state = held[r].row.state /\ told' = told
           \/ /\ assigned.state # held[r].row.state
              /\ told' = [told EXCEPT ![held[r].id] = assigned.state]
              /\ Recorded({Confirmed[held[r].id], Unconfirmed[held[r].id],
                           "shoot.transitioned"}),
           assigned.detail # held[r].row.detail =>
             Recorded({Updated[held[r].id]})
    PROVE  PreInv' /\ AuditedStep /\ ChildAuditedStep
<1> DEFINE c == held[r].id
           loaded == held[r].row
<1>1. StoreInv' /\ AuditedStep
  BY HonestCommitKeepsInv DEF PreInv
<1>2. /\ c \in DOMAIN child /\ DOMAIN child \subseteq DOMAIN told
      /\ DOMAIN told \subseteq Ids
      /\ \A d \in DOMAIN child : child[d] \in ChildRow
      /\ \A d \in DOMAIN told : told[d] \in States \cup {"deleted"}
      /\ loaded \in ChildRow /\ held' = [held EXCEPT ![r] = NoHold]
  BY DEF PreInv, PreTypeOK, MergeChild, Hold
<1>3. /\ DOMAIN child' = DOMAIN child
      /\ \A d \in DOMAIN child : d # c => child'[d] = child[d]
      /\ child'[c].state = Column(child[c].state, loaded.state, assigned.state)
      /\ child'[c].detail = Column(child[c].detail, loaded.detail,
                                   assigned.detail)
      /\ child'[c] \in ChildRow
  BY <1>2 DEF MergeChild, ChildRow, Column
<1>4. /\ DOMAIN told' = DOMAIN told
      /\ \A d \in DOMAIN told : d # c => told'[d] = told[d]
      /\ told'[c] = Column(told[c], loaded.state, assigned.state)
  BY <1>2 DEF Column
<1>5. ChecksInCasting' /\ held' \in [Requests -> Hold]
  BY <1>2, RequestEnds
<1>6. told'[c] \in States \cup {"deleted"}
  BY <1>2, <1>4 DEF Column, ChildRow
<1>7. PreTypeOK'
  BY <1>1, <1>2, <1>3, <1>4, <1>5, <1>6 DEF StoreInv, PreTypeOK
<1>8. ChildMatchesTrail'
  BY <1>2, <1>3, <1>4 DEF PreInv, ChildMatchesTrail, Column
<1>9. ChildAuditedStep
  BY <1>2, <1>3, <1>4 DEF ChildAuditedStep, Column
<1> QED
  BY <1>1, <1>5, <1>7, <1>8, <1>9 DEF PreInv

\* Creating a row tells of it.
LEMMA CreateStep ==
    ASSUME PreInv, NEW r \in Requests, NEW c \in Ids, CreateChild(r, c)
    PROVE  PreInv' /\ AuditedStep /\ ChildAuditedStep
<1>1. /\ StoreTypeOK /\ Created[c] \in Actions
      /\ "location_scouting" \in Stages
      /\ "location_scouting" \notin EarlyStages
  BY RowActions DEF PreInv, StoreInv, Stages, EarlyStages
<1>2. /\ HonestCommit(r) /\ req' = [req EXCEPT ![r] = Idle]
      /\ \A actions : Created[c] \in actions => Recorded(actions)
  BY <1>1, RecordStep DEF CreateChild
<1>3. StoreInv' /\ AuditedStep
  BY <1>2, HonestCommitKeepsInv DEF PreInv
<1>4. /\ c \notin DOMAIN told /\ c \notin DOMAIN child
      /\ DOMAIN child' = DOMAIN child \cup {c} /\ child'[c] = NewChild(c)
      /\ \A d \in DOMAIN child : child'[d] = child[d]
      /\ DOMAIN told' = DOMAIN told \cup {c} /\ told'[c] = NewChild(c).state
      /\ \A d \in DOMAIN told : told'[d] = told[d]
      /\ held' = held /\ held[r] = NoHold
  BY DEF CreateChild, PreInv, PreTypeOK
<1>5. held' = [held EXCEPT ![r] = NoHold]
  BY <1>4 DEF PreInv, PreTypeOK
<1>6. ChecksInCasting' /\ held' \in [Requests -> Hold]
  BY <1>2, <1>5, RequestEnds
<1>7. NewChild(c) \in ChildRow /\ NewChild(c).state \in States
  BY NewChildType DEF ChildRow
<1>8. PreTypeOK'
  BY <1>3, <1>4, <1>6, <1>7 DEF StoreInv, PreInv, PreTypeOK
<1>9. ChildMatchesTrail'
  BY <1>4 DEF PreInv, PreTypeOK, ChildMatchesTrail
<1>10. ChildAuditedStep
  BY <1>2, <1>4 DEF ChildAuditedStep, PreInv, PreTypeOK
<1> QED
  BY <1>3, <1>6, <1>8, <1>9, <1>10 DEF PreInv

\* So does deleting one, also when somebody else deleted it before.
LEMMA DeleteStep ==
    ASSUME PreInv, NEW r \in Requests, DeleteChild(r), req[r].on
    PROVE  PreInv' /\ AuditedStep /\ ChildAuditedStep
<1> DEFINE c == held[r].id
<1>1. /\ StoreTypeOK /\ c \in Ids /\ Deleted[c] \in Actions
      /\ Commit(r, Loaded(r), <<Note(Deleted[c], Caller(r))>>)
  BY RowActions DEF PreInv, StoreInv, DeleteChild, Working
<1>2. /\ HonestCommit(r) /\ req' = [req EXCEPT ![r] = Idle]
      /\ \A actions : Deleted[c] \in actions => Recorded(actions)
  BY <1>1, RecordOnlyStep
<1>3. StoreInv' /\ AuditedStep
  BY <1>2, HonestCommitKeepsInv DEF PreInv
<1>4. /\ DOMAIN child' = DOMAIN child \ {c}
      /\ \A d \in DOMAIN child : d # c => child'[d] = child[d]
      /\ DOMAIN told' = DOMAIN told
      /\ \A d \in DOMAIN told : d # c => told'[d] = told[d]
      /\ c \in DOMAIN told => told'[c] = "deleted"
      /\ held' = [held EXCEPT ![r] = NoHold]
  BY DEF DeleteChild
<1>5. ChecksInCasting' /\ held' \in [Requests -> Hold]
  BY <1>2, <1>4, RequestEnds
<1>6. PreTypeOK'
  BY <1>3, <1>4, <1>5 DEF StoreInv, PreInv, PreTypeOK
<1>7. ChildMatchesTrail'
  BY <1>4 DEF PreInv, PreTypeOK, ChildMatchesTrail
<1>8. ChildAuditedStep
  BY <1>2, <1>4 DEF ChildAuditedStep, PreInv, PreTypeOK
<1> QED
  BY <1>3, <1>5, <1>6, <1>7, <1>8 DEF PreInv

\* A request that sets a state it did not load, and records it.
LEMMA SetStateStep ==
    ASSUME PreInv, NEW r \in Requests, HonestCommit(r),
           req' = [req EXCEPT ![r] = Idle], held[r].id \in Ids,
           NEW state \in States, state # held[r].row.state, SetState(r, state),
           Recorded({Confirmed[held[r].id], Unconfirmed[held[r].id],
                     "shoot.transitioned"})
    PROVE  PreInv' /\ AuditedStep /\ ChildAuditedStep
<1> DEFINE assigned == [held[r].row EXCEPT !.state = state]
<1>1. held[r].row \in ChildRow
  BY DEF PreInv, PreTypeOK, Hold
<1>2. /\ assigned \in ChildRow /\ assigned.state = state
      /\ assigned.detail = held[r].row.detail
  BY <1>1 DEF ChildRow
<1>3. /\ MergeChild(r, assigned)
      /\ told' = [told EXCEPT ![held[r].id] = state]
  BY DEF SetState
<1> HIDE DEF assigned
<1> QED
  BY <1>2, <1>3, MergeStep

-----------------------------------------------------------------------------
\* The endpoints.

\* PATCH changes the edited columns, and records it.
LEMMA UpdateStep ==
    ASSUME PreInv, NEW r \in Requests, NEW detail \in Details,
           UpdateChild(r, detail)
    PROVE  PreInv' /\ AuditedStep /\ ChildAuditedStep
<1> DEFINE assigned == [held[r].row EXCEPT !.detail = detail]
           c == held[r].id
<1>1. /\ StoreTypeOK /\ held[r].row \in ChildRow /\ c \in Ids
      /\ Updated[c] \in Actions
  BY RowActions DEF PreInv, PreTypeOK, StoreInv, Hold, UpdateChild, Working
<1>2. /\ assigned \in ChildRow /\ assigned.state = held[r].row.state
  BY <1>1 DEF ChildRow
<1>3. /\ MergeChild(r, assigned) /\ told' = told
      /\ Commit(r, Loaded(r), <<Note(Updated[c], Caller(r))>>)
  BY DEF UpdateChild
<1>4. /\ HonestCommit(r) /\ req' = [req EXCEPT ![r] = Idle]
      /\ Recorded({Updated[c]})
  BY <1>1, <1>3, RecordOnlyStep
<1> HIDE DEF assigned
<1> QED
  BY <1>1, <1>2, <1>3, <1>4, MergeStep

\* A file leaves the row as it is.
LEMMA AttachStep ==
    ASSUME PreInv, NEW r \in Requests, AttachFile(r)
    PROVE  PreInv' /\ AuditedStep /\ ChildAuditedStep
<1> DEFINE c == held[r].id
<1>1. /\ StoreTypeOK /\ held[r].row \in ChildRow /\ c \in Ids
      /\ FileAdded[c] \in Actions
  BY RowActions DEF PreInv, PreTypeOK, StoreInv, Hold, AttachFile, Working
<1>2. /\ MergeChild(r, held[r].row) /\ told' = told
      /\ Commit(r, Loaded(r), <<Note(FileAdded[c], Caller(r))>>)
  BY DEF AttachFile
<1>3. HonestCommit(r) /\ req' = [req EXCEPT ![r] = Idle]
  BY <1>1, <1>2, RecordOnlyStep
<1> QED
  BY <1>1, <1>2, <1>3, MergeStep

\* A confirmed location may take a scouting project to casting.
LEMMA ConfirmLocationStep ==
    ASSUME PreInv, NEW r \in Requests, ConfirmLocation(r)
    PROVE  PreInv' /\ AuditedStep /\ ChildAuditedStep
<1> DEFINE c == held[r].id
<1>1. /\ StoreTypeOK /\ c \in Ids /\ Confirmed[c] \in Actions
      /\ "casting" \in Stages /\ "confirmed" \in States
  BY RowActions
  DEF PreInv, StoreInv, ConfirmLocation, Working, Ids, Stages, States
<1>2. /\ HonestCommit(r) /\ req' = [req EXCEPT ![r] = Idle]
      /\ \A actions : Confirmed[c] \in actions => Recorded(actions)
  BY <1>1, RecordStep DEF ConfirmLocation
<1>3. SetState(r, "confirmed") /\ "confirmed" # held[r].row.state
  BY DEF ConfirmLocation, Differs
<1> QED
  BY <1>1, <1>2, <1>3, SetStateStep

\* Taking a confirmation back moves nothing.
LEMMA UnconfirmStep ==
    ASSUME PreInv, NEW r \in Requests, Unconfirm(r)
    PROVE  PreInv' /\ AuditedStep /\ ChildAuditedStep
<1> DEFINE c == held[r].id
<1>1. /\ StoreTypeOK /\ c \in Ids /\ Unconfirmed[c] \in Actions
      /\ "unconfirmed" \in States
  BY RowActions DEF PreInv, StoreInv, Unconfirm, Working, Ids, States
<1>2. /\ HonestCommit(r) /\ req' = [req EXCEPT ![r] = Idle]
      /\ \A actions : Unconfirmed[c] \in actions => Recorded(actions)
  BY <1>1, RecordOnlyStep DEF Unconfirm
<1>3. SetState(r, "unconfirmed") /\ "unconfirmed" # held[r].row.state
  BY DEF Unconfirm, Differs
<1> QED
  BY <1>1, <1>2, <1>3, SetStateStep

\* The last confirmation of the cast may take a project out of casting.
LEMMA ConfirmCastStep ==
    ASSUME PreInv, NEW r \in Requests, ConfirmCast(r)
    PROVE  PreInv' /\ AuditedStep /\ ChildAuditedStep
<1> DEFINE c == held[r].id
           advances == held[r].seen = "everyone"
<1>1. /\ StoreTypeOK /\ c \in Ids /\ Confirmed[c] \in Actions
      /\ "shoot_scheduled" \in Stages /\ "confirmed" \in States
  BY RowActions
  DEF PreInv, StoreInv, ConfirmCast, Working, Ids, Stages, States
<1>2. advances => "shoot_scheduled" # Loaded(r).stage
  BY DEF PreInv, ChecksInCasting
<1>3. RecordAndAdvance(r, Confirmed[c], advances, "shoot_scheduled")
  BY DEF ConfirmCast
<1>4. /\ HonestCommit(r) /\ req' = [req EXCEPT ![r] = Idle]
      /\ \A actions : Confirmed[c] \in actions => Recorded(actions)
  BY <1>1, <1>2, <1>3, RecordStep
<1>5. SetState(r, "confirmed") /\ "confirmed" # held[r].row.state
  BY DEF ConfirmCast, Differs
<1> QED
  BY <1>1, <1>4, <1>5, SetStateStep

\* A shoot starts or wraps.
LEMMA TransitionStep ==
    ASSUME PreInv, NEW r \in Requests, TransitionShoot(r)
    PROVE  PreInv' /\ AuditedStep /\ ChildAuditedStep
<1> DEFINE c == held[r].id
           state == held[r].row.state
           advances == /\ NextStatus[state] = "wrapped"
                       /\ Loaded(r).stage = "shoot_scheduled"
<1>1. /\ StoreTypeOK /\ c \in Ids /\ "shoot.transitioned" \in Actions
      /\ "shoot_done" \in Stages
  BY RowActions DEF PreInv, StoreInv, TransitionShoot, Working, Ids, Stages
<1>2. /\ state \in DOMAIN NextStatus
      /\ SetState(r, NextStatus[state])
      /\ RecordAndAdvance(r, "shoot.transitioned", advances, "shoot_done")
  BY DEF TransitionShoot
<1>3. NextStatus[state] \in States /\ NextStatus[state] # state
  BY <1>2 DEF NextStatus, States
<1>4. /\ HonestCommit(r) /\ req' = [req EXCEPT ![r] = Idle]
      /\ \A actions : "shoot.transitioned" \in actions => Recorded(actions)
  BY <1>1, <1>2, RecordStep
<1> QED
  BY <1>1, <1>2, <1>3, <1>4, SetStateStep

\* A request that takes hold of a row, or goes on with its checks.
LEMMA HoldStep ==
    ASSUME PreInv, NEW r \in Requests, NEW h \in Hold,
           held' = [held EXCEPT ![r] = h],
           UNCHANGED <<project, trail, child, told>>,
           req' \in [Requests -> Request],
           \A q \in Requests : q # r => req'[q] = req[q],
           \/ h.seen = "nothing"
           \/ req'[r].on /\ req'[r].row.stage = "casting"
    PROVE  PreInv'
<1>1. /\ held' \in [Requests -> Hold] /\ held'[r] = h
      /\ \A q \in Requests : q # r => held'[q] = held[q]
  BY DEF PreInv, PreTypeOK
<1>2. ChecksInCasting'
  BY <1>1, OneRequestChecks DEF PreInv
<1> QED
  BY <1>1, <1>2, QuietStepKeepsRows

-----------------------------------------------------------------------------
\* The evidence an advance to scheduling rests on.

\* Some location was confirmed once.
LocationOnRecord ==
    \E i \in DOMAIN trail : trail[i].action = "location.confirmed"

Found == {"location", "everyone"}

\* A row that says so, and a request that found one, have it on record.
EvidenceInv ==
    /\ \A c \in DOMAIN child \cap Locations :
         child[c].state = "confirmed" => LocationOnRecord
    /\ \A r \in Requests : held[r].seen \in Found => LocationOnRecord

AdvanceStep ==
    Recorded({"cast.confirmed"}) /\ Recorded({"project.stage_changed"})
        => LocationOnRecord

\* A commit of one entry, and one that moves the project after it.
Appends(action) ==
    \E e \in Entry : e.action = action /\ trail' = trail \o <<e>>

AppendsMove(action) ==
    \E e, d \in Entry :
        /\ e.action = action /\ d.action = "project.stage_changed"
        /\ trail' = trail \o (<<e>> \o <<d>>)

\* The entries a request's commit may have.
LEMMA NoteAppends ==
    ASSUME StoreTypeOK, NEW r \in Requests, NEW action \in Actions,
           NEW assigned, Commit(r, assigned, <<Note(action, Caller(r))>>)
    PROVE  Appends(action)
<1>1. Note(action, Caller(r)) \in Entry
  BY LoadedType, NoteType
<1>2. /\ Note(action, Caller(r)).action = action
      /\ trail' = trail \o <<Note(action, Caller(r))>>
  BY DEF Commit, Note
<1> QED
  BY <1>1, <1>2 DEF Appends

LEMMA RecordAppends ==
    ASSUME StoreTypeOK, NEW r \in Requests, NEW action \in Actions,
           NEW advances \in BOOLEAN, NEW target \in Stages,
           RecordAndAdvance(r, action, advances, target)
    PROVE  Appends(action) \/ (advances /\ AppendsMove(action))
<1> DEFINE e == Note(action, Caller(r))
           d == StageChanged(Caller(r), Loaded(r).stage, target)
<1>1. Loaded(r) \in Row /\ Caller(r) \in Users
  BY LoadedType
<1>2. /\ e \in Entry /\ e.action = action
      /\ d \in Entry /\ d.action = "project.stage_changed"
  BY <1>1 DEF Note, StageChanged, StageNote, Entry, Actions, Row
<1>3. CASE Commit(r, Loaded(r), <<e>>)
  BY <1>3, NoteAppends
<1>4. CASE advances /\ Commit(r, [Loaded(r) EXCEPT !.stage = target], <<e>> \o <<d>>)
  <2>1. advances /\ trail' = trail \o (<<e>> \o <<d>>)
    BY <1>4 DEF Commit
  <2> HIDE DEF e, d
  <2> QED
    BY <1>2, <2>1 DEF AppendsMove
<1> QED
  BY <1>3, <1>4 DEF RecordAndAdvance

\* What such a commit leaves in the trail.
LEMMA AppendedTrail ==
    ASSUME StoreTypeOK, NEW action, Appends(action)
    PROVE  /\ \A i \in DOMAIN trail : i \in DOMAIN trail' /\ trail'[i] = trail[i]
           /\ \E i \in DOMAIN trail' : i > Len(trail) /\ trail'[i].action = action
           /\ \A i \in DOMAIN trail' : i > Len(trail) => trail'[i].action = action
<1> PICK e \in Entry : e.action = action /\ trail' = trail \o <<e>>
  BY DEF Appends
<1>1. /\ Len(trail) \in Nat /\ DOMAIN trail = 1 .. Len(trail)
      /\ DOMAIN trail' = 1 .. Len(trail) + 1
      /\ \A i \in DOMAIN trail : trail'[i] = trail[i]
      /\ trail'[Len(trail) + 1] = e
  BY DEF StoreTypeOK
<1> QED
  BY <1>1

LEMMA MovedTrail ==
    ASSUME StoreTypeOK, NEW action, AppendsMove(action)
    PROVE  /\ \A i \in DOMAIN trail : i \in DOMAIN trail' /\ trail'[i] = trail[i]
           /\ \E i \in DOMAIN trail' : i > Len(trail) /\ trail'[i].action = action
           /\ \A i \in DOMAIN trail' :
                i > Len(trail) => trail'[i].action \in {action, "project.stage_changed"}
<1> PICK e \in Entry, d \in Entry :
        /\ e.action = action /\ d.action = "project.stage_changed"
        /\ trail' = trail \o (<<e>> \o <<d>>)
  BY DEF AppendsMove
<1> DEFINE both == <<e>> \o <<d>>
<1>1. both \in Seq(Entry) /\ Len(both) = 2 /\ both[1] = e /\ both[2] = d
  OBVIOUS
<1>2. trail' = trail \o both
  OBVIOUS
<1> HIDE DEF both
<1>3. /\ Len(trail) \in Nat /\ DOMAIN trail = 1 .. Len(trail)
      /\ DOMAIN trail' = 1 .. Len(trail) + 2
      /\ \A i \in DOMAIN trail : trail'[i] = trail[i]
      /\ trail'[Len(trail) + 1] = e /\ trail'[Len(trail) + 2] = d
  BY <1>1, <1>2 DEF StoreTypeOK
<1> QED
  BY <1>3

\* A commit keeps the evidence if it moves the project on the confirmation of a
\* cast member only with evidence, and confirms a location only saying so.
LEMMA CommitKeepsEvidence ==
    ASSUME StoreTypeOK, EvidenceInv, NEW action,
           \/ Appends(action)
           \/ AppendsMove(action) /\ (action = "cast.confirmed" => LocationOnRecord),
           \A q \in Requests : held'[q].seen \in Found => held[q].seen \in Found,
           \A c \in DOMAIN child' \cap Locations :
               child'[c].state = "confirmed" =>
                   \/ c \in DOMAIN child /\ child[c].state = "confirmed"
                   \/ action = "location.confirmed"
    PROVE  EvidenceInv' /\ AdvanceStep
<1>1. /\ \A i \in DOMAIN trail : i \in DOMAIN trail' /\ trail'[i] = trail[i]
      /\ \E i \in DOMAIN trail' : trail'[i].action = action
  BY AppendedTrail, MovedTrail
<1>2. LocationOnRecord => LocationOnRecord'
  BY <1>1 DEF LocationOnRecord
<1>3. action = "location.confirmed" => LocationOnRecord'
  BY <1>1 DEF LocationOnRecord
<1>4. EvidenceInv'
  BY <1>2, <1>3 DEF EvidenceInv
<1>5. AdvanceStep
  <2>1. CASE Appends(action)
    BY <2>1, AppendedTrail DEF AdvanceStep, Recorded
  <2>2. CASE AppendsMove(action) /\ (action = "cast.confirmed" => LocationOnRecord)
    BY <2>2, MovedTrail DEF AdvanceStep, Recorded
  <2> QED
    BY <2>1, <2>2
<1> QED
  BY <1>4, <1>5

\* The flush of a row takes a location to confirmed only if the request does.
LEMMA MergeConfirms ==
    ASSUME PreInv, NEW r \in Requests, NEW assigned, MergeChild(r, assigned)
    PROVE  /\ \A q \in Requests : held'[q].seen \in Found => held[q].seen \in Found
           /\ \A c \in DOMAIN child' :
                child'[c].state = "confirmed" =>
                   \/ c \in DOMAIN child /\ child[c].state = "confirmed"
                   \/ /\ c = held[r].id /\ assigned.state = "confirmed"
                      /\ assigned.state # held[r].row.state
<1>1. \A q \in Requests : held'[q].seen \in Found => held[q].seen \in Found
  BY NewChildType DEF PreInv, PreTypeOK, MergeChild, Found
<1>2. /\ held[r].id \in DOMAIN child /\ DOMAIN child' = DOMAIN child
      /\ \A c \in DOMAIN child : c # held[r].id => child'[c] = child[c]
      /\ \A c \in DOMAIN child : child[c] \in ChildRow
      /\ child'[held[r].id].state =
           Column(child[held[r].id].state, held[r].row.state, assigned.state)
  BY DEF MergeChild, PreInv, PreTypeOK, ChildRow
<1> QED
  BY <1>1, <1>2 DEF Column

\* Every step keeps the evidence, and advances with it only.
LEMMA EvidenceStep ==
    ASSUME PreInv, EvidenceInv, PreNext
    PROVE  EvidenceInv' /\ [AdvanceStep]_trail
<1> PICK r \in Requests :
       \/ \E u \in Users : OpenPre(r, u)
       \/ LeavePre(r)
       \/ BoardStep(r)
       \/ \E c \in Ids : CreateChild(r, c)
       \/ \E u \in Users, c \in DOMAIN child : LoadChild(r, u, c)
       \/ LoadProjectOfChild(r)
       \/ \E d \in Details : UpdateChild(r, d)
       \/ AttachFile(r)
       \/ DeleteChild(r)
       \/ ConfirmLocation(r)
       \/ Unconfirm(r)
       \/ FindLocation(r)
       \/ ReadCast(r)
       \/ ConfirmCast(r)
       \/ TransitionShoot(r)
  BY DEF PreNext
<1>1. /\ StoreTypeOK /\ held \in [Requests -> Hold]
      /\ \A c \in Ids : {Created[c], Updated[c], FileAdded[c], Deleted[c], Confirmed[c],
                         Unconfirmed[c], "shoot.transitioned"} \subseteq Actions
      /\ {"location_scouting", "casting", "shoot_scheduled", "shoot_done"} \subseteq Stages
      /\ NoHold.seen \notin Found
  BY RowActions, NewChildType DEF PreInv, PreTypeOK, StoreInv, Stages, Found
<1>2. ASSUME UNCHANGED <<trail, child>>,
             \A q \in Requests : held'[q].seen \in Found =>
                 held[q].seen \in Found \/ LocationOnRecord
      PROVE  EvidenceInv' /\ [AdvanceStep]_trail
  BY <1>2 DEF EvidenceInv, LocationOnRecord
<1>3. CASE \/ \E u \in Users : OpenPre(r, u)
           \/ LeavePre(r)
           \/ LoadProjectOfChild(r)
           \/ \E u \in Users, c \in DOMAIN child : LoadChild(r, u, c)
  <2>1. UNCHANGED <<trail, child>>
    BY <1>3 DEF OpenPre, Open, LeavePre, LoadProjectOfChild, LoadChild, preVars
  <2>2. \A q \in Requests : held'[q].seen \in Found => held[q].seen \in Found
    BY <1>1, <1>3 DEF OpenPre, LeavePre, LoadProjectOfChild, LoadChild, preVars, Found
  <2> QED
    BY <1>2, <2>1, <2>2
<1>4. CASE FindLocation(r)
  <2>1. /\ UNCHANGED <<trail, child>>
        /\ held' = [held EXCEPT ![r].seen =
                      IF ConfirmedIn(Locations) # {} THEN "location" ELSE "not_enough"]
    BY <1>4 DEF FindLocation, storeVars
  <2>2. ConfirmedIn(Locations) # {} => LocationOnRecord
    BY DEF ConfirmedIn, EvidenceInv
  <2>3. \A q \in Requests : held'[q].seen \in Found =>
            held[q].seen \in Found \/ LocationOnRecord
    BY <1>1, <2>1, <2>2 DEF Found, Hold
  <2> QED
    BY <1>2, <2>1, <2>3
<1>5. CASE ReadCast(r)
  <2>1. UNCHANGED <<trail, child>> /\ held[r].seen \in Found
    BY <1>5 DEF ReadCast, storeVars, Found
  <2>2. \A q \in Requests : held'[q].seen \in Found => held[q].seen \in Found
    BY <1>1, <1>5, <2>1 DEF ReadCast
  <2> QED
    BY <1>2, <2>1, <2>2
<1>6. CASE BoardStep(r)
  <2>1. \E action \in Actions : Appends(action)
    <3>1. ASSUME NEW target \in Targets, MoveStage(r, target)
          PROVE  Appends("project.stage_changed")
      <4> DEFINE e == StageChanged(Caller(r), Loaded(r).stage, target)
      <4>1. /\ target \in Stages /\ Loaded(r).stage \in Stages
            /\ Caller(r) \in Users /\ "project.stage_changed" \in Actions
        BY <1>1, LoadedType, StoreAssumption DEF Row, Actions
      <4>2. e \in Entry /\ e.action = "project.stage_changed"
        BY <4>1 DEF StageChanged, StageNote, Entry
      <4>3. trail' = trail \o <<e>>
        BY <3>1 DEF MoveStage, Commit
      <4> HIDE DEF e
      <4> QED
        BY <4>2, <4>3 DEF Appends
    <3>2. {"project.stage_changed", "project.updated", "project.deleted",
           "project.restored"} \subseteq Actions
      BY DEF Actions
    <3>3. CASE \E title \in Titles : UpdateProject(r, title)
      BY <1>1, <3>2, <3>3, NoteAppends DEF UpdateProject
    <3>4. CASE SoftDelete(r)
      BY <1>1, <3>2, <3>4, NoteAppends DEF SoftDelete
    <3>5. CASE Restore(r)
      BY <1>1, <3>2, <3>5, NoteAppends DEF Restore
    <3> QED
      BY <1>6, <3>1, <3>2, <3>3, <3>4, <3>5 DEF BoardStep, ProjectEndpoint
  <2>2. held' = held /\ child' = child
    BY <1>6 DEF BoardStep, preVars
  <2> QED
    BY <1>1, <2>1, <2>2, CommitKeepsEvidence
<1>7. ASSUME NEW c \in Ids, CreateChild(r, c) PROVE EvidenceInv' /\ AdvanceStep
  <2>1. Appends(Created[c]) \/ AppendsMove(Created[c])
    BY <1>1, <1>7, RecordAppends DEF CreateChild
  <2>2. Created[c] # "cast.confirmed"
    BY DEF Created
  <2>3. /\ held' = held /\ DOMAIN child' = DOMAIN child \cup {c}
        /\ child'[c].state # "confirmed"
        /\ \A d \in DOMAIN child : d # c => child'[d] = child[d]
    BY <1>7 DEF CreateChild, NewChild
  <2> QED
    BY <1>1, <2>1, <2>2, <2>3, CommitKeepsEvidence
<1>8. ASSUME NEW d \in Details, UpdateChild(r, d) PROVE EvidenceInv' /\ AdvanceStep
  <2> DEFINE assigned == [held[r].row EXCEPT !.detail = d]
  <2>1. MergeChild(r, assigned) /\ Appends(Updated[held[r].id])
    BY <1>1, <1>8, NoteAppends DEF UpdateChild, Working
  <2>2. assigned.state = held[r].row.state
    BY <1>1 DEF Hold, ChildRow
  <2> HIDE DEF assigned
  <2> QED
    BY <1>1, <2>1, <2>2, MergeConfirms, CommitKeepsEvidence
<1>9. CASE AttachFile(r)
  <2>1. MergeChild(r, held[r].row) /\ Appends(FileAdded[held[r].id])
    BY <1>1, <1>9, NoteAppends DEF AttachFile, Working
  <2> QED
    BY <1>1, <2>1, MergeConfirms, CommitKeepsEvidence
<1>10. CASE DeleteChild(r)
  <2>1. Appends(Deleted[held[r].id])
    BY <1>1, <1>10, NoteAppends DEF DeleteChild, Working
  <2>2. /\ \A q \in Requests : held'[q].seen \in Found => held[q].seen \in Found
        /\ \A c \in DOMAIN child' : c \in DOMAIN child /\ child'[c] = child[c]
    BY <1>1, <1>10 DEF DeleteChild
  <2> QED
    BY <1>1, <2>1, <2>2, CommitKeepsEvidence
<1>11. CASE ConfirmLocation(r)
  <2> DEFINE assigned == [held[r].row EXCEPT !.state = "confirmed"]
  <2>1. held[r].id \in Locations /\ Confirmed[held[r].id] = "location.confirmed"
    BY <1>11 DEF ConfirmLocation, Working, Confirmed, Ids
  <2>2. MergeChild(r, assigned)
    BY <1>11 DEF ConfirmLocation, SetState
  <2>3. Appends("location.confirmed") \/ AppendsMove("location.confirmed")
    BY <1>1, <1>11, <2>1, RecordAppends DEF ConfirmLocation, Ids
  <2> HIDE DEF assigned
  <2> QED
    BY <1>1, <2>2, <2>3, MergeConfirms, CommitKeepsEvidence
<1>12. CASE Unconfirm(r)
  <2> DEFINE assigned == [held[r].row EXCEPT !.state = "unconfirmed"]
  <2>1. MergeChild(r, assigned)
    BY <1>12 DEF Unconfirm, SetState
  <2>2. Appends(Unconfirmed[held[r].id])
    BY <1>1, <1>12, NoteAppends DEF Unconfirm, Working, Ids
  <2>3. assigned.state = "unconfirmed"
    BY <1>1 DEF Hold, ChildRow
  <2> HIDE DEF assigned
  <2> QED
    BY <1>1, <2>1, <2>2, <2>3, MergeConfirms, CommitKeepsEvidence
<1>13. CASE ConfirmCast(r)
  <2> DEFINE assigned == [held[r].row EXCEPT !.state = "confirmed"]
  <2>1. /\ held[r].id \in Cast /\ held[r].id \notin Locations
        /\ Confirmed[held[r].id] \in Actions
    BY <1>1, <1>13, PreAssumption DEF ConfirmCast, Working, Ids
  <2>2. MergeChild(r, assigned)
    BY <1>13 DEF ConfirmCast, SetState
  <2>3. \/ Appends(Confirmed[held[r].id])
        \/ held[r].seen = "everyone" /\ AppendsMove(Confirmed[held[r].id])
    BY <1>1, <1>13, <2>1, RecordAppends DEF ConfirmCast
  <2>4. held[r].seen = "everyone" => LocationOnRecord
    BY DEF EvidenceInv, Found
  <2> HIDE DEF assigned
  <2> QED
    BY <1>1, <2>1, <2>2, <2>3, <2>4, MergeConfirms, CommitKeepsEvidence
<1>14. CASE TransitionShoot(r)
  <2> DEFINE state == held[r].row.state
             assigned == [held[r].row EXCEPT !.state = NextStatus[state]]
  <2>1. MergeChild(r, assigned) /\ held[r].id \in Shoots
    BY <1>14 DEF TransitionShoot, SetState, Working
  <2>2. held[r].id \notin Locations
    BY <2>1, PreAssumption
  <2>3. Appends("shoot.transitioned") \/ AppendsMove("shoot.transitioned")
    <3>1. "shoot.transitioned" \in Actions
      BY <1>1, <2>1 DEF Ids
    <3> QED
      BY <1>1, <1>14, <3>1, RecordAppends DEF TransitionShoot
  <2> HIDE DEF assigned
  <2> QED
    BY <1>1, <2>1, <2>2, <2>3, MergeConfirms, CommitKeepsEvidence
<1> QED
  BY <1>3, <1>4, <1>5, <1>6, <1>7, <1>8, <1>9, <1>10, <1>11, <1>12, <1>13, <1>14

-----------------------------------------------------------------------------
\* The theorems.

\* No rows yet: the invariant holds.
LEMMA PreInitInv == PreInit => PreInv
<1> SUFFICES ASSUME PreInit PROVE PreInv
  OBVIOUS
<1>1. StoreInv
  BY StoreInitInv DEF PreInit
<1>2. DOMAIN child = {} /\ DOMAIN told = {}
      /\ held = [r \in Requests |-> NoHold]
  BY DEF PreInit
<1>3. PreTypeOK
  BY <1>1, <1>2, NewChildType DEF StoreInv, PreTypeOK
<1>4. ChildMatchesTrail /\ ChecksInCasting
  BY <1>2, NewChildType DEF ChildMatchesTrail, ChecksInCasting
<1> QED
  BY <1>1, <1>3, <1>4 DEF PreInv

\* Every step keeps the invariant and is audited.
LEMMA PreStep ==
    ASSUME PreInv, PreNext
    PROVE  /\ PreInv' /\ [AuditedStep]_<<project, trail>>
           /\ [ChildAuditedStep]_<<trail, child, told>>
<1> PICK r \in Requests :
       \/ \E u \in Users : OpenPre(r, u)
       \/ LeavePre(r)
       \/ BoardStep(r)
       \/ \E c \in Ids : CreateChild(r, c)
       \/ \E u \in Users, c \in DOMAIN child : LoadChild(r, u, c)
       \/ LoadProjectOfChild(r)
       \/ \E d \in Details : UpdateChild(r, d)
       \/ AttachFile(r)
       \/ DeleteChild(r)
       \/ ConfirmLocation(r)
       \/ Unconfirm(r)
       \/ FindLocation(r)
       \/ ReadCast(r)
       \/ ConfirmCast(r)
       \/ TransitionShoot(r)
  BY DEF PreNext
<1>0. /\ StoreTypeOK /\ ChecksInCasting
      /\ req \in [Requests -> Request] /\ held \in [Requests -> Hold]
      /\ held = [held EXCEPT ![r] = held[r]] /\ held[r] \in Hold
      /\ DOMAIN child \subseteq Ids /\ \A c \in DOMAIN child : child[c] \in ChildRow
  BY DEF PreInv, PreTypeOK, StoreInv, StoreTypeOK
<1>1. ASSUME NEW u \in Users, OpenPre(r, u)
      PROVE  PreInv' /\ UNCHANGED <<project, trail, child, told>>
  <2>1. /\ req' \in [Requests -> Request] /\ held[r].seen = "nothing"
        /\ \A q \in Requests : q # r => req'[q] = req[q]
        /\ UNCHANGED <<project, trail, child, told, held>>
    BY <1>0, <1>1, OpenType, NewChildType DEF OpenPre, Open, preVars
  <2> QED
    BY <1>0, <2>1, HoldStep
<1>2. CASE LeavePre(r)
  <2>1. /\ req' = [req EXCEPT ![r] = Idle]
        /\ held' = [held EXCEPT ![r] = NoHold]
        /\ UNCHANGED <<project, trail, child, told>>
    BY <1>2 DEF LeavePre
  <2> QED
    BY <2>1, RequestEnds, QuietStepKeepsRows
<1>3. CASE BoardStep(r)
  <2>1. HonestCommit(r) /\ held[r] = NoHold /\ UNCHANGED preVars
    BY <1>0, <1>3, ProjectEndpointCommits DEF BoardStep
  <2>2. req' = [req EXCEPT ![r] = Idle]
    BY <2>1 DEF HonestCommit, Commit
  <2> QED
    BY <2>1, <2>2, CommitKeepsRows
<1>4. ASSUME NEW c \in Ids, CreateChild(r, c)
      PROVE  PreInv' /\ AuditedStep /\ ChildAuditedStep
  BY <1>4, CreateStep
<1>5. ASSUME NEW u \in Users, NEW c \in DOMAIN child, LoadChild(r, u, c)
      PROVE  PreInv' /\ UNCHANGED <<project, trail, child, told>>
  <2> DEFINE h == [id |-> c, row |-> child[c], seen |-> "nothing"]
  <2>1. h \in Hold /\ h.seen = "nothing"
    BY <1>0 DEF Hold
  <2>2. /\ held' = [held EXCEPT ![r] = h]
        /\ req' = [req EXCEPT ![r].user = u]
        /\ UNCHANGED <<project, trail, child, told>>
    BY <1>5 DEF LoadChild
  <2>3. /\ req' \in [Requests -> Request]
        /\ \A q \in Requests : q # r => req'[q] = req[q]
    BY <1>0, <2>2 DEF Request
  <2> HIDE DEF h
  <2> QED
    BY <2>1, <2>2, <2>3, HoldStep
<1>6. CASE LoadProjectOfChild(r)
  <2>1. /\ req' = [req EXCEPT ![r].on = TRUE, ![r].row = project]
        /\ UNCHANGED <<project, trail, child, told, held>> /\ ~req[r].on
    BY <1>6 DEF LoadProjectOfChild, preVars
  <2>2. /\ req' \in [Requests -> Request]
        /\ \A q \in Requests : q # r => req'[q] = req[q]
    BY <1>0, <2>1 DEF Request, StoreTypeOK
  <2>3. held[r].seen = "nothing"
    BY <1>0, <2>1 DEF ChecksInCasting
  <2> QED
    BY <1>0, <2>1, <2>2, <2>3, HoldStep
<1>7. ASSUME NEW d \in Details, UpdateChild(r, d)
      PROVE  PreInv' /\ AuditedStep /\ ChildAuditedStep
  BY <1>7, UpdateStep
<1>8. CASE AttachFile(r)
  BY <1>8, AttachStep
<1>9. CASE DeleteChild(r)
  <2>1. req[r].on
    BY <1>9 DEF DeleteChild, Working
  <2> QED
    BY <1>9, <2>1, DeleteStep
<1>10. CASE ConfirmLocation(r)
  BY <1>10, ConfirmLocationStep
<1>11. CASE Unconfirm(r)
  BY <1>11, UnconfirmStep
<1>12. CASE FindLocation(r)
  <2> DEFINE h == [held[r] EXCEPT !.seen =
                     IF ConfirmedIn(Locations) # {} THEN "location"
                                                    ELSE "not_enough"]
  <2>1. h \in Hold
    BY <1>0 DEF Hold
  <2>2. /\ held' = [held EXCEPT ![r] = h]
        /\ UNCHANGED <<project, trail, req, child, told>>
        /\ req[r].on /\ req[r].row.stage = "casting"
    BY <1>0, <1>12 DEF FindLocation, Working, Loaded, storeVars
  <2> HIDE DEF h
  <2> QED
    BY <1>0, <2>1, <2>2, HoldStep
<1>13. CASE ReadCast(r)
  <2> DEFINE h == [held[r] EXCEPT !.seen =
                     IF DOMAIN child \cap Cast \subseteq
                          ConfirmedIn(Cast) \cup {held[r].id}
                     THEN "everyone" ELSE "not_enough"]
  <2>1. h \in Hold
    BY <1>0 DEF Hold
  <2>2. /\ held' = [held EXCEPT ![r] = h]
        /\ UNCHANGED <<project, trail, req, child, told>>
        /\ held[r].seen = "location"
    BY <1>0, <1>13 DEF ReadCast, storeVars
  <2>3. req[r].on /\ req[r].row.stage = "casting"
    BY <1>0, <2>2 DEF ChecksInCasting, Loaded
  <2> HIDE DEF h
  <2> QED
    BY <1>0, <2>1, <2>2, <2>3, HoldStep
<1>14. CASE ConfirmCast(r)
  BY <1>14, ConfirmCastStep
<1>15. CASE TransitionShoot(r)
  BY <1>15, TransitionStep
<1> QED
  BY <1>1, <1>2, <1>3, <1>4, <1>5, <1>6, <1>7, <1>8, <1>9, <1>10, <1>11,
     <1>12, <1>13, <1>14, <1>15

\* A stuttering step keeps it.
LEMMA PreStutter ==
    ASSUME PreInv, UNCHANGED <<storeVars, preVars>>
    PROVE  PreInv'
<1>1. UNCHANGED <<project, trail, req, child, told, held>>
  BY DEF storeVars, preVars
<1>2. ChecksInCasting'
  BY <1>1 DEF PreInv, ChecksInCasting, Loaded
<1> QED
  BY <1>1, <1>2, QuietStepKeepsRows DEF PreInv, PreTypeOK, StoreTypeOK

\* The strengthened invariant of pre-production holds of every reachable state.
THEOREM PreInvariant == PreSpec => []PreInv
<1>1. PreInv /\ [PreNext]_<<storeVars, preVars>> => PreInv'
  BY PreStep, PreStutter
<1> QED
  BY <1>1, PreInitInv, PTL DEF PreSpec

\* Rows, sessions and holds keep their types.
THEOREM PreTypes == PreSpec => []PreTypeOK
<1>1. PreInv => PreTypeOK
  BY DEF PreInv
<1> QED
  BY <1>1, PreInvariant, PTL

\* Whatever requests race, the last committed entry about a row tells its state.
THEOREM PreChildMatchesTrail == PreSpec => []ChildMatchesTrail
<1>1. PreInv => ChildMatchesTrail
  BY DEF PreInv
<1> QED
  BY <1>1, PreInvariant, PTL

\* The trail tells the stage while rows are confirmed and shoots wrap.
THEOREM PreTellsStage == PreSpec => []StageMatchesTrail
<1>1. PreInv => StageMatchesTrail
  BY DEF PreInv, StoreInv
<1> QED
  BY <1>1, PreInvariant, PTL

\* No endpoint of pre-production changes a project column without its entry.
THEOREM PreAudited == PreSpec => ChangesAreAudited
<1>1. PreInv /\ [PreNext]_<<storeVars, preVars>>
        => [AuditedStep]_<<project, trail>>
  BY PreStep DEF storeVars
<1> QED
  BY <1>1, PreInvariant, PTL DEF PreSpec, ChangesAreAudited

\* No endpoint changes a row's column without its entry.
THEOREM PreChildAudited == PreSpec => ChildChangesAreAudited
<1>1. PreInv /\ [PreNext]_<<storeVars, preVars>>
        => [ChildAuditedStep]_<<trail, child, told>>
  BY PreStep DEF storeVars, preVars
<1> QED
  BY <1>1, PreInvariant, PTL DEF PreSpec, ChildChangesAreAudited

\* However the checks of a confirmation interleave with other requests, the
\* project moves on to its shoots only if some location was confirmed before.
THEOREM PreAdvanceHasEvidence == PreSpec => AdvanceHasEvidence
<1>1. PreInit => EvidenceInv
  BY NewChildType DEF PreInit, EvidenceInv, Found
<1>2. PreInv /\ EvidenceInv /\ [PreNext]_<<storeVars, preVars>>
        => EvidenceInv' /\ [AdvanceStep]_trail
  <2>1. PreInv /\ EvidenceInv /\ PreNext => EvidenceInv' /\ [AdvanceStep]_trail
    BY EvidenceStep
  <2>2. EvidenceInv /\ UNCHANGED <<storeVars, preVars>>
          => EvidenceInv' /\ [AdvanceStep]_trail
    BY DEF EvidenceInv, LocationOnRecord, storeVars, preVars
  <2> QED
    BY <2>1, <2>2
<1> QED
  BY <1>1, <1>2, PreInvariant, PTL
  DEF PreSpec, AdvanceHasEvidence, AdvanceStep, LocationOnRecord

=============================================================================
