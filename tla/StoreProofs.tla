----------------------------- MODULE StoreProofs -----------------------------
(***************************************************************************)
(* Proofs about the project store.  The lemmas speak of one request's      *)
(* Open, Leave and Commit, so that the modules that add endpoints reuse    *)
(* them; the theorems are those of StoreSpec, and that the screens offer   *)
(* what the service would do.                                              *)
(***************************************************************************)
EXTENDS ProjectStore, Gates, SequenceTheorems, TLAPS

\* A stage change writes an entry for it, the last of the commit that names a
\* stage; a commit that leaves the stage alone names none.
NamesStage(r, assigned, entries) ==
    \/ /\ assigned.stage = Loaded(r).stage
       /\ \A i \in DOMAIN entries : entries[i].to = NoStage
    \/ /\ assigned.stage # Loaded(r).stage
       /\ \E i \in DOMAIN entries :
            /\ entries[i].to = assigned.stage
            /\ \A j \in DOMAIN entries : j > i => entries[j].to = NoStage

\* Only a CEO's request writes an entry that publishes.
PublishesAsCeo(entries) ==
    \A i \in DOMAIN entries :
        entries[i].to = "approved_published" => Role[entries[i].actor] = "ceo"

\* A column that is changed on purpose comes with an entry about that column.
Mentions(entries, actions) ==
    \E i \in DOMAIN entries : entries[i].action \in actions

AuditsColumns(r, assigned, entries) ==
    /\ assigned.title # Loaded(r).title =>
         Mentions(entries, {"project.updated"})
    /\ assigned.deleted # Loaded(r).deleted =>
         Mentions(entries, {"project.deleted", "project.restored"})
    /\ assigned.lockedAt # Loaded(r).lockedAt
       \/ assigned.lockedBy # Loaded(r).lockedBy =>
         Mentions(entries, {"script.locked", "script.unlocked"})

\* What every endpoint that commits is shown to do.
HonestCommit(r) ==
    \E assigned \in Row, entries \in Seq(Entry) :
        /\ Commit(r, assigned, entries)
        /\ NamesStage(r, assigned, entries)
        /\ PublishesAsCeo(entries)
        /\ AuditsColumns(r, assigned, entries)

-----------------------------------------------------------------------------
\* Types.

\* What Column returns is one of the two values it chooses from.
LEMMA ColumnType ==
    ASSUME NEW S, NEW current \in S, NEW loaded, NEW assigned \in S
    PROVE  Column(current, loaded, assigned) \in S
BY DEF Column

\* Merging rows gives a row.
LEMMA MergeType ==
    ASSUME NEW current \in Row, NEW loaded \in Row, NEW assigned \in Row
    PROVE  Merge(current, loaded, assigned) \in Row
BY DEF Merge, Column, Row

\* The row POST /projects inserts, and a closed session, are typed.
LEMMA FreshType == FreshProject \in Row /\ Idle \in Request
<1>1. FirstTitle \in Titles
  BY StoreAssumption DEF FirstTitle
<1>2. FreshProject \in Row
  BY <1>1 DEF FreshProject, Row, Stages
<1> QED
  BY <1>2, AccessAssumption DEF Idle, Request

\* Entries of the trail, as the endpoints write them.
LEMMA NoteType ==
    ASSUME NEW a \in Actions, NEW u \in Users
    PROVE  Note(a, u) \in Entry /\ Note(a, u).to = NoStage
BY DEF Note, Entry

\* The same of the entries that name a stage.
LEMMA StageNoteType ==
    ASSUME NEW a \in Actions, NEW u \in Users,
           NEW from \in Stages, NEW to \in Stages
    PROVE  /\ StageNote(a, u, from, to) \in Entry
           /\ StageNote(a, u, from, to).to = to
           /\ StageNote(a, u, from, to).actor = u
BY DEF StageNote, Entry

\* A commit of typed columns and entries keeps the store typed.
LEMMA CommitType ==
    ASSUME StoreTypeOK, NEW r \in Requests, NEW assigned \in Row,
           NEW entries \in Seq(Entry), Commit(r, assigned, entries)
    PROVE  StoreTypeOK'
<1>1. Loaded(r) \in Row
  BY DEF StoreTypeOK, Loaded, Request
<1>2. project' \in Row
  BY <1>1, MergeType DEF StoreTypeOK, Commit
<1>3. trail' \in Seq(Entry)
  BY ConcatProperties DEF StoreTypeOK, Commit
<1>4. req' \in [Requests -> Request]
  BY FreshType DEF StoreTypeOK, Commit
<1> QED
  BY <1>2, <1>3, <1>4 DEF StoreTypeOK

-----------------------------------------------------------------------------
\* The trail and the stage.

\* Where the entries of a commit stand in the new trail.
LEMMA CommittedTrail ==
    ASSUME StoreTypeOK, NEW r, NEW assigned,
           NEW entries \in Seq(Entry), Commit(r, assigned, entries)
    PROVE  /\ DOMAIN trail = 1 .. Len(trail) /\ Len(trail) \in Nat
           /\ DOMAIN entries = 1 .. Len(entries) /\ Len(entries) \in Nat
           /\ DOMAIN trail' = 1 .. (Len(trail) + Len(entries))
           /\ \A i \in DOMAIN trail : trail'[i] = trail[i]
           /\ \A i \in DOMAIN entries : trail'[Len(trail) + i] = entries[i]
           /\ \A i \in DOMAIN trail' :
                i > Len(trail) => /\ i - Len(trail) \in DOMAIN entries
                                  /\ trail'[i] = entries[i - Len(trail)]
<1>1. trail' = trail \o entries
  BY DEF Commit
<1>2. trail \in Seq(Entry)
  BY DEF StoreTypeOK
<1> QED
  BY <1>1, <1>2, ConcatProperties

\* However stale its loaded row, a commit that names the stage it assigns
\* leaves the trail telling the stage.
LEMMA CommitKeepsStage ==
    ASSUME StoreTypeOK, StageMatchesTrail, NEW r \in Requests,
           NEW assigned \in Row, NEW entries \in Seq(Entry),
           Commit(r, assigned, entries), NamesStage(r, assigned, entries)
    PROVE  StageMatchesTrail'
<1>1. project'.stage = Column(project.stage, Loaded(r).stage, assigned.stage)
  BY DEF Commit, Merge
<1>2. CASE /\ assigned.stage = Loaded(r).stage
           /\ \A i \in DOMAIN entries : entries[i].to = NoStage
  <2>1. project'.stage = project.stage
    BY <1>1, <1>2 DEF Column
  <2>2. PICK i \in DOMAIN trail :
            /\ trail[i].to = project.stage
            /\ \A j \in DOMAIN trail : j > i => trail[j].to = NoStage
    BY DEF StageMatchesTrail
  <2>3. i \in DOMAIN trail' /\ trail'[i].to = project'.stage
    BY <2>1, <2>2, CommittedTrail
  <2>4. ASSUME NEW j \in DOMAIN trail', j > i PROVE trail'[j].to = NoStage
    <3>1. CASE j \in DOMAIN trail
      BY <2>2, <2>4, <3>1, CommittedTrail
    <3>2. CASE j \notin DOMAIN trail
      BY <1>2, <2>4, <3>2, CommittedTrail
    <3> QED
      BY <3>1, <3>2
  <2> QED
    BY <2>3, <2>4 DEF StageMatchesTrail
<1>3. CASE /\ assigned.stage # Loaded(r).stage
           /\ \E i \in DOMAIN entries :
                /\ entries[i].to = assigned.stage
                /\ \A j \in DOMAIN entries : j > i => entries[j].to = NoStage
  <2>1. project'.stage = assigned.stage
    BY <1>1, <1>3 DEF Column
  <2>2. PICK i \in DOMAIN entries :
            /\ entries[i].to = assigned.stage
            /\ \A j \in DOMAIN entries : j > i => entries[j].to = NoStage
    BY <1>3
  <2> DEFINE k == Len(trail) + i
  <2>3. k \in DOMAIN trail' /\ trail'[k].to = project'.stage
    BY <2>1, <2>2, CommittedTrail
  <2>4. ASSUME NEW j \in DOMAIN trail', j > k PROVE trail'[j].to = NoStage
    <3>1. /\ j - Len(trail) \in DOMAIN entries
          /\ j - Len(trail) > i
          /\ trail'[j] = entries[j - Len(trail)]
      BY <2>2, <2>4, CommittedTrail
    <3> QED
      BY <2>2, <3>1
  <2> QED
    BY <2>3, <2>4 DEF StageMatchesTrail
<1> QED
  BY <1>2, <1>3 DEF NamesStage

\* A commit that publishes only on a CEO's behalf leaves published projects
\* to CEOs.
LEMMA CommitKeepsPublished ==
    ASSUME StoreTypeOK, PublishedByCeo, NEW r \in Requests,
           NEW assigned \in Row, NEW entries \in Seq(Entry),
           Commit(r, assigned, entries), NamesStage(r, assigned, entries),
           PublishesAsCeo(entries)
    PROVE  PublishedByCeo'
<1> SUFFICES ASSUME project'.stage = "approved_published"
             PROVE  \E i \in DOMAIN trail' :
                      /\ trail'[i].to = "approved_published"
                      /\ Role[trail'[i].actor] = "ceo"
                      /\ \A j \in DOMAIN trail' :
                            j > i => trail'[j].to = NoStage
  BY DEF PublishedByCeo
<1>1. project'.stage = Column(project.stage, Loaded(r).stage, assigned.stage)
  BY DEF Commit, Merge
<1>2. CASE /\ assigned.stage = Loaded(r).stage
           /\ \A i \in DOMAIN entries : entries[i].to = NoStage
  <2>1. project.stage = "approved_published"
    BY <1>1, <1>2 DEF Column
  <2>2. PICK i \in DOMAIN trail :
            /\ trail[i].to = "approved_published"
            /\ Role[trail[i].actor] = "ceo"
            /\ \A j \in DOMAIN trail : j > i => trail[j].to = NoStage
    BY <2>1 DEF PublishedByCeo
  <2>3. i \in DOMAIN trail' /\ trail'[i] = trail[i]
    BY <2>2, CommittedTrail
  <2>4. ASSUME NEW j \in DOMAIN trail', j > i PROVE trail'[j].to = NoStage
    <3>1. CASE j \in DOMAIN trail
      BY <2>2, <2>4, <3>1, CommittedTrail
    <3>2. CASE j \notin DOMAIN trail
      BY <1>2, <2>4, <3>2, CommittedTrail
    <3> QED
      BY <3>1, <3>2
  <2> QED
    BY <2>2, <2>3, <2>4
<1>3. CASE /\ assigned.stage # Loaded(r).stage
           /\ \E i \in DOMAIN entries :
                /\ entries[i].to = assigned.stage
                /\ \A j \in DOMAIN entries : j > i => entries[j].to = NoStage
  <2>1. assigned.stage = "approved_published"
    BY <1>1, <1>3 DEF Column
  <2>2. PICK i \in DOMAIN entries :
            /\ entries[i].to = assigned.stage
            /\ \A j \in DOMAIN entries : j > i => entries[j].to = NoStage
    BY <1>3
  <2> DEFINE k == Len(trail) + i
  <2>3. k \in DOMAIN trail' /\ trail'[k] = entries[i]
    BY <2>2, CommittedTrail
  <2>4. trail'[k].to = "approved_published" /\ Role[trail'[k].actor] = "ceo"
    BY <2>1, <2>2, <2>3 DEF PublishesAsCeo
  <2>5. ASSUME NEW j \in DOMAIN trail', j > k PROVE trail'[j].to = NoStage
    <3>1. /\ j - Len(trail) \in DOMAIN entries
          /\ j - Len(trail) > i
          /\ trail'[j] = entries[j - Len(trail)]
      BY <2>2, <2>5, CommittedTrail
    <3> QED
      BY <2>2, <3>1
  <2> QED
    BY <2>3, <2>4, <2>5
<1> QED
  BY <1>2, <1>3 DEF NamesStage

-----------------------------------------------------------------------------
\* The audit.

\* An action mentioned in a commit is recorded in the trail by the step.
LEMMA MentionedIsRecorded ==
    ASSUME StoreTypeOK, NEW r, NEW assigned, NEW actions,
           NEW entries \in Seq(Entry), Commit(r, assigned, entries),
           Mentions(entries, actions)
    PROVE  Recorded(actions)
<1>1. PICK i \in DOMAIN entries : entries[i].action \in actions
  BY DEF Mentions
<1> DEFINE k == Len(trail) + i
<1>2. k \in DOMAIN trail' /\ k > Len(trail) /\ trail'[k] = entries[i]
  BY <1>1, CommittedTrail
<1> QED
  BY <1>1, <1>2 DEF Recorded

\* An honest commit appends to the trail, and changes no column without an
\* entry about it.
LEMMA CommitIsAudited ==
    ASSUME StoreTypeOK, NEW r \in Requests, NEW assigned \in Row,
           NEW entries \in Seq(Entry), Commit(r, assigned, entries),
           NamesStage(r, assigned, entries),
           AuditsColumns(r, assigned, entries)
    PROVE  AuditedStep
<1>1. project' = Merge(project, Loaded(r), assigned)
  BY DEF Commit
<1>2. Len(trail') >= Len(trail) /\ SubSeq(trail', 1, Len(trail)) = trail
  <2>1. trail' = trail \o entries /\ trail \in Seq(Entry)
    BY DEF Commit, StoreTypeOK
  <2>2. Len(trail') = Len(trail) + Len(entries) /\ Len(entries) \in Nat
    BY <2>1, ConcatProperties
  <2> DEFINE s == SubSeq(trail', 1, Len(trail))
  <2>3. trail' \in Seq(Entry) /\ Len(trail) \in Nat
    BY <2>1, ConcatProperties, LenProperties
  <2>4. /\ s \in Seq(Entry) /\ Len(s) = Len(trail)
        /\ \A i \in 1 .. Len(trail) : s[i] = trail'[i]
    BY <2>2, <2>3, SubSeqProperties
  <2>5. \A i \in 1 .. Len(trail) : s[i] = trail[i]
    BY <2>4, <2>3, CommittedTrail
  <2>6. s = trail
    BY <2>1, <2>4, <2>5, SeqEqual
  <2> QED
    BY <2>2, <2>3, <2>6
<1>3. project'.title # project.title => Recorded({"project.updated"})
  BY <1>1, MentionedIsRecorded DEF Merge, Column, AuditsColumns
<1>4. project'.deleted # project.deleted =>
        Recorded({"project.deleted", "project.restored"})
  BY <1>1, MentionedIsRecorded DEF Merge, Column, AuditsColumns
<1>5. ASSUME project'.stage # project.stage
      PROVE  \E i \in DOMAIN trail' :
                i > Len(trail) /\ trail'[i].to = project'.stage
  <2>1. /\ assigned.stage # Loaded(r).stage
        /\ project'.stage = assigned.stage
    BY <1>1, <1>5 DEF Merge, Column
  <2>2. PICK i \in DOMAIN entries : entries[i].to = assigned.stage
    BY <2>1 DEF NamesStage
  <2> DEFINE k == Len(trail) + i
  <2>3. k \in DOMAIN trail' /\ k > Len(trail) /\ trail'[k] = entries[i]
    BY <2>2, CommittedTrail
  <2> QED
    BY <2>1, <2>2, <2>3
<1>6. (project'.lockedAt # project.lockedAt
       \/ project'.lockedBy # project.lockedBy) =>
         Recorded({"script.locked", "script.unlocked"})
  BY <1>1, MentionedIsRecorded DEF Merge, Column, AuditsColumns
<1> QED
  BY <1>2, <1>3, <1>4, <1>5, <1>6 DEF AuditedStep

-----------------------------------------------------------------------------
\* The invariant of the store, and the endpoints of the project routes.

StoreInv == StoreTypeOK /\ StageMatchesTrail /\ PublishedByCeo

\* POST /projects establishes it.
LEMMA StoreInitInv == StoreInit => StoreInv
<1> SUFFICES ASSUME StoreInit PROVE StoreInv
  OBVIOUS
<1> DEFINE e == StageNote("project.created", Creator, NoStage, "idea")
<1>1. e \in Entry /\ e.to = "idea"
  BY AccessAssumption DEF StageNote, Entry, Actions, Stages
<1>2. trail = <<e>>
  BY DEF StoreInit
<1>3. StoreTypeOK
  BY <1>1, <1>2, FreshType DEF StoreInit, StoreTypeOK
<1>4. project.stage = "idea"
  BY DEF StoreInit, FreshProject
<1>5. StageMatchesTrail
  BY <1>1, <1>2, <1>4 DEF StageMatchesTrail
<1> QED
  BY <1>3, <1>4, <1>5 DEF StoreInv, PublishedByCeo

\* An honest commit keeps it.
LEMMA HonestCommitKeepsInv ==
    ASSUME StoreInv, NEW r \in Requests, HonestCommit(r)
    PROVE  StoreInv' /\ AuditedStep
<1>1. PICK assigned \in Row, entries \in Seq(Entry) :
        /\ Commit(r, assigned, entries)
        /\ NamesStage(r, assigned, entries)
        /\ PublishesAsCeo(entries)
        /\ AuditsColumns(r, assigned, entries)
  BY DEF HonestCommit
<1>2. StoreTypeOK'
  BY <1>1, CommitType DEF StoreInv
<1>3. StageMatchesTrail'
  BY <1>1, CommitKeepsStage DEF StoreInv
<1>4. PublishedByCeo'
  BY <1>1, CommitKeepsPublished DEF StoreInv
<1>5. AuditedStep
  BY <1>1, CommitIsAudited DEF StoreInv
<1> QED
  BY <1>2, <1>3, <1>4, <1>5 DEF StoreInv

\* So does a step that leaves the committed rows alone.
LEMMA QuietStepKeepsInv ==
    ASSUME StoreInv, UNCHANGED <<project, trail>>,
           req' \in [Requests -> Request]
    PROVE  StoreInv'
BY DEF StoreInv, StoreTypeOK, StageMatchesTrail, PublishedByCeo

\* Opening a session types it: the row it loads is the committed one.
LEMMA OpenType ==
    ASSUME StoreTypeOK, NEW r \in Requests, NEW u \in Users, Open(r, u)
    PROVE  req' \in [Requests -> Request]
BY DEF StoreTypeOK, Open, Request

\* Closing a session types it: it is the idle one.
LEMMA LeaveType ==
    ASSUME StoreTypeOK, NEW r \in Requests, Leave(r)
    PROVE  req' \in [Requests -> Request]
BY FreshType DEF StoreTypeOK, Leave

\* A commit of one entry that names no stage and leaves the stage alone, or
\* names the stage it assigns.
LEMMA OneEntryNamesStage ==
    ASSUME NEW r, NEW assigned, NEW e \in Entry,
           \/ assigned.stage = Loaded(r).stage /\ e.to = NoStage
           \/ assigned.stage # Loaded(r).stage /\ e.to = assigned.stage
    PROVE  /\ <<e>> \in Seq(Entry)
           /\ NamesStage(r, assigned, <<e>>)
           /\ \A actions : e.action \in actions => Mentions(<<e>>, actions)
BY DEF NamesStage, Mentions

\* The row a request loaded is typed, and so is the name of its caller.
LEMMA LoadedType ==
    ASSUME StoreTypeOK, NEW r \in Requests
    PROVE  Loaded(r) \in Row /\ Caller(r) \in Users
BY DEF StoreTypeOK, Request, Loaded, Caller

\* A commit that leaves the row alone and notes one action is honest.
LEMMA NoteCommits ==
    ASSUME StoreTypeOK, NEW r \in Requests, NEW action \in Actions,
           Commit(r, Loaded(r), <<Note(action, Caller(r))>>)
    PROVE  HonestCommit(r)
<1> DEFINE e == Note(action, Caller(r))
<1>1. Loaded(r) \in Row /\ e \in Entry /\ e.to = NoStage
  BY LoadedType, NoteType
<1>2. <<e>> \in Seq(Entry) /\ NamesStage(r, Loaded(r), <<e>>)
  BY <1>1, OneEntryNamesStage
<1>3. PublishesAsCeo(<<e>>) /\ AuditsColumns(r, Loaded(r), <<e>>)
  BY <1>1 DEF PublishesAsCeo, NoStage, AuditsColumns
<1> QED
  BY <1>1, <1>2, <1>3 DEF HonestCommit

\* So is one that moves the project on the way, unless it publishes for
\* somebody who is not the CEO.
LEMMA StageThenNoteCommits ==
    ASSUME StoreTypeOK, NEW r \in Requests, NEW action \in Actions,
           NEW to \in Stages, to # Loaded(r).stage,
           to = "approved_published" => Role[Caller(r)] = "ceo",
           Commit(r, [Loaded(r) EXCEPT !.stage = to],
                  <<StageChanged(Caller(r), Loaded(r).stage, to)>>
                  \o <<Note(action, Caller(r))>>)
    PROVE  HonestCommit(r)
<1> DEFINE assigned == [Loaded(r) EXCEPT !.stage = to]
           d == StageChanged(Caller(r), Loaded(r).stage, to)
           e == Note(action, Caller(r))
           entries == <<d>> \o <<e>>
<1>1. Loaded(r) \in Row /\ Caller(r) \in Users
  BY LoadedType
<1>2. /\ assigned \in Row
      /\ assigned.stage = to
      /\ assigned.title = Loaded(r).title
      /\ assigned.deleted = Loaded(r).deleted
      /\ assigned.lockedAt = Loaded(r).lockedAt
      /\ assigned.lockedBy = Loaded(r).lockedBy
  BY <1>1 DEF Row
<1>3. d \in Entry /\ d.to = to /\ d.actor = Caller(r)
  BY <1>1 DEF StageChanged, StageNote, Entry, Actions, Row
<1>4. e \in Entry /\ e.to = NoStage
  BY <1>1, NoteType
<1>5. Commit(r, assigned, entries)
  OBVIOUS
<1> HIDE DEF d, e, assigned
<1>6. /\ entries \in Seq(Entry) /\ DOMAIN entries = 1 .. 2
      /\ entries[1] = d /\ entries[2] = e
  BY <1>3, <1>4
<1> HIDE DEF entries
<1>7. NamesStage(r, assigned, entries)
  BY <1>2, <1>3, <1>4, <1>6 DEF NamesStage
<1>8. PublishesAsCeo(entries)
  BY <1>3, <1>4, <1>6 DEF PublishesAsCeo, NoStage
<1>9. AuditsColumns(r, assigned, entries)
  BY <1>2 DEF AuditsColumns
<1> QED
  BY <1>2, <1>5, <1>6, <1>7, <1>8, <1>9 DEF HonestCommit

\* And one that moves the project after the entry of what moved it.
LEMMA NoteThenStageCommits ==
    ASSUME StoreTypeOK, NEW r \in Requests, NEW action \in Actions,
           NEW to \in Stages, to # Loaded(r).stage,
           to # "approved_published",
           Commit(r, [Loaded(r) EXCEPT !.stage = to],
                  <<Note(action, Caller(r))>>
                  \o <<StageChanged(Caller(r), Loaded(r).stage, to)>>)
    PROVE  HonestCommit(r)
<1> DEFINE assigned == [Loaded(r) EXCEPT !.stage = to]
           d == StageChanged(Caller(r), Loaded(r).stage, to)
           e == Note(action, Caller(r))
           entries == <<e>> \o <<d>>
<1>1. Loaded(r) \in Row /\ Caller(r) \in Users
  BY LoadedType
<1>2. /\ assigned \in Row
      /\ assigned.stage = to
      /\ assigned.title = Loaded(r).title
      /\ assigned.deleted = Loaded(r).deleted
      /\ assigned.lockedAt = Loaded(r).lockedAt
      /\ assigned.lockedBy = Loaded(r).lockedBy
  BY <1>1 DEF Row
<1>3. d \in Entry /\ d.to = to
  BY <1>1 DEF StageChanged, StageNote, Entry, Actions, Row
<1>4. e \in Entry /\ e.to = NoStage
  BY <1>1, NoteType
<1>5. Commit(r, assigned, entries)
  OBVIOUS
<1> HIDE DEF d, e, assigned
<1>6. /\ entries \in Seq(Entry) /\ DOMAIN entries = 1 .. 2
      /\ entries[1] = e /\ entries[2] = d
  BY <1>3, <1>4
<1> HIDE DEF entries
<1>7. NamesStage(r, assigned, entries)
  BY <1>2, <1>3, <1>6 DEF NamesStage
<1>8. PublishesAsCeo(entries)
  BY <1>3, <1>4, <1>6 DEF PublishesAsCeo, NoStage
<1>9. AuditsColumns(r, assigned, entries)
  BY <1>2 DEF AuditsColumns
<1> QED
  BY <1>2, <1>5, <1>6, <1>7, <1>8, <1>9 DEF HonestCommit

\* POST .../stage commits honestly: one entry, naming the stage it moves to,
\* and the guard keeps the published stage to CEOs.
LEMMA MoveStageCommits ==
    ASSUME StoreTypeOK, NEW r \in Requests, NEW target \in Targets,
           MoveStage(r, target)
    PROVE  HonestCommit(r)
<1> DEFINE assigned == [Loaded(r) EXCEPT !.stage = target]
           e == StageChanged(Caller(r), Loaded(r).stage, target)
<1>1. Loaded(r) \in Row /\ Caller(r) \in Users /\ target \in Stages
  BY LoadedType, StoreAssumption
<1>2. /\ assigned \in Row
      /\ assigned.stage = target /\ target # Loaded(r).stage
      /\ assigned.title = Loaded(r).title
      /\ assigned.deleted = Loaded(r).deleted
      /\ assigned.lockedAt = Loaded(r).lockedAt
      /\ assigned.lockedBy = Loaded(r).lockedBy
  BY <1>1 DEF Row, MoveStage
<1>3. e \in Entry /\ e.to = target /\ e.actor = Caller(r)
  BY <1>1 DEF StageChanged, StageNote, Entry, Actions, Row
<1>4. <<e>> \in Seq(Entry) /\ NamesStage(r, assigned, <<e>>)
  BY <1>2, <1>3, OneEntryNamesStage
<1>5. PublishesAsCeo(<<e>>)
  BY <1>3 DEF PublishesAsCeo, MoveStage, CanMoveTo
<1>6. AuditsColumns(r, assigned, <<e>>)
  BY <1>2 DEF AuditsColumns
<1>7. Commit(r, assigned, <<e>>)
  BY DEF MoveStage
<1> QED
  BY <1>2, <1>4, <1>5, <1>6, <1>7 DEF HonestCommit

\* PATCH commits honestly: one entry, about the edited columns.
LEMMA UpdateProjectCommits ==
    ASSUME StoreTypeOK, NEW r \in Requests, NEW title \in Titles,
           UpdateProject(r, title)
    PROVE  HonestCommit(r)
<1> DEFINE assigned == [Loaded(r) EXCEPT !.title = title]
           e == Note("project.updated", Caller(r))
<1>1. Loaded(r) \in Row /\ Caller(r) \in Users
  BY LoadedType
<1>2. /\ assigned \in Row
      /\ assigned.stage = Loaded(r).stage
      /\ assigned.deleted = Loaded(r).deleted
      /\ assigned.lockedAt = Loaded(r).lockedAt
      /\ assigned.lockedBy = Loaded(r).lockedBy
  BY <1>1 DEF Row
<1>3. e \in Entry /\ e.to = NoStage /\ e.action = "project.updated"
  BY <1>1 DEF Note, Entry, Actions
<1>4. <<e>> \in Seq(Entry) /\ NamesStage(r, assigned, <<e>>)
      /\ Mentions(<<e>>, {"project.updated"})
  BY <1>2, <1>3, OneEntryNamesStage
<1>5. PublishesAsCeo(<<e>>)
  BY <1>3 DEF PublishesAsCeo, NoStage
<1>6. AuditsColumns(r, assigned, <<e>>)
  BY <1>2, <1>4 DEF AuditsColumns
<1>7. Commit(r, assigned, <<e>>)
  BY DEF UpdateProject
<1> QED
  BY <1>2, <1>4, <1>5, <1>6, <1>7 DEF HonestCommit

\* Deleting and restoring commit honestly: one entry, about deleted_at.
LEMMA DeletionCommits ==
    ASSUME StoreTypeOK, NEW r \in Requests,
           NEW action \in {"project.deleted", "project.restored"},
           NEW deleted \in BOOLEAN,
           Commit(r, [Loaded(r) EXCEPT !.deleted = deleted],
                  <<Note(action, Caller(r))>>)
    PROVE  HonestCommit(r)
<1> DEFINE assigned == [Loaded(r) EXCEPT !.deleted = deleted]
           e == Note(action, Caller(r))
<1>1. Loaded(r) \in Row /\ Caller(r) \in Users
  BY LoadedType
<1>2. /\ assigned \in Row
      /\ assigned.stage = Loaded(r).stage
      /\ assigned.title = Loaded(r).title
      /\ assigned.lockedAt = Loaded(r).lockedAt
      /\ assigned.lockedBy = Loaded(r).lockedBy
  BY <1>1 DEF Row
<1>3. e \in Entry /\ e.to = NoStage
      /\ e.action \in {"project.deleted", "project.restored"}
  BY <1>1 DEF Note, Entry, Actions
<1>4. <<e>> \in Seq(Entry) /\ NamesStage(r, assigned, <<e>>)
      /\ Mentions(<<e>>, {"project.deleted", "project.restored"})
  BY <1>2, <1>3, OneEntryNamesStage
<1>5. PublishesAsCeo(<<e>>)
  BY <1>3 DEF PublishesAsCeo, NoStage
<1>6. AuditsColumns(r, assigned, <<e>>)
  BY <1>2, <1>4 DEF AuditsColumns
<1> QED
  BY <1>2, <1>4, <1>5, <1>6 DEF HonestCommit

\* So every endpoint of the project routes commits honestly.
LEMMA ProjectEndpointCommits ==
    ASSUME StoreTypeOK, NEW r \in Requests, ProjectEndpoint(r)
    PROVE  HonestCommit(r)
<1>1. ASSUME NEW target \in Targets, MoveStage(r, target)
      PROVE  HonestCommit(r)
  BY <1>1, MoveStageCommits
<1>2. ASSUME NEW title \in Titles, UpdateProject(r, title)
      PROVE  HonestCommit(r)
  BY <1>2, UpdateProjectCommits
<1>3. CASE SoftDelete(r)
  BY <1>3, DeletionCommits DEF SoftDelete
<1>4. CASE Restore(r)
  BY <1>4, DeletionCommits DEF Restore
<1> QED
  BY <1>1, <1>2, <1>3, <1>4 DEF ProjectEndpoint

-----------------------------------------------------------------------------
\* The theorems of the store.

\* Every step of the store keeps the invariant and is audited.
LEMMA StoreStep ==
    ASSUME StoreInv, [StoreNext]_storeVars
    PROVE  StoreInv' /\ [AuditedStep]_<<project, trail>>
<1>1. ASSUME NEW r \in Requests, NEW u \in Users, Open(r, u)
      PROVE  StoreInv' /\ UNCHANGED <<project, trail>>
  <2>1. req' \in [Requests -> Request]
    BY <1>1, OpenType DEF StoreInv
  <2>2. UNCHANGED <<project, trail>>
    BY <1>1 DEF Open
  <2> QED
    BY <2>1, <2>2, QuietStepKeepsInv
<1>2. ASSUME NEW r \in Requests, Leave(r)
      PROVE  StoreInv' /\ UNCHANGED <<project, trail>>
  <2>1. req' \in [Requests -> Request]
    BY <1>2, LeaveType DEF StoreInv
  <2>2. UNCHANGED <<project, trail>>
    BY <1>2 DEF Leave
  <2> QED
    BY <2>1, <2>2, QuietStepKeepsInv
<1>3. ASSUME NEW r \in Requests, ProjectEndpoint(r)
      PROVE  StoreInv' /\ AuditedStep
  BY <1>3, ProjectEndpointCommits, HonestCommitKeepsInv DEF StoreInv
<1>4. CASE UNCHANGED storeVars
  <2>1. req' \in [Requests -> Request] /\ UNCHANGED <<project, trail>>
    BY <1>4 DEF storeVars, StoreInv, StoreTypeOK
  <2> QED
    BY <2>1, QuietStepKeepsInv
<1> QED
  BY <1>1, <1>2, <1>3, <1>4 DEF StoreNext

\* Whatever requests race, rows and sessions keep their types, the trail tells
\* the stage and a published project was published by a CEO.
THEOREM StoreInvariant == StoreSpec => []StoreInv
<1>1. StoreInv /\ [StoreNext]_storeVars => StoreInv'
  BY StoreStep
<1> QED
  BY <1>1, StoreInitInv, PTL DEF StoreSpec

\* The trail tells the stage: the invariant, by name.
THEOREM StoreTellsStage == StoreSpec => []StageMatchesTrail
<1>1. StoreInv => StageMatchesTrail
  BY DEF StoreInv
<1> QED
  BY <1>1, StoreInvariant, PTL

\* A published project was published by a CEO: the invariant, by name.
THEOREM StorePublishedByCeo == StoreSpec => []PublishedByCeo
<1>1. StoreInv => PublishedByCeo
  BY DEF StoreInv
<1> QED
  BY <1>1, StoreInvariant, PTL

\* Whatever requests race, no column changes without its entry in the trail.
THEOREM StoreAudited == StoreSpec => ChangesAreAudited
<1>1. StoreInv /\ [StoreNext]_storeVars => [AuditedStep]_<<project, trail>>
  BY StoreStep
<1> QED
  BY <1>1, StoreInvariant, PTL DEF StoreSpec, ChangesAreAudited

(***************************************************************************)
(* frontend/src/lib/enums.ts says of its role sets that they are mirrors   *)
(* of the backend's.  They are: what a screen offers is what the service   *)
(* would do, for every user, stage and owner.  Nothing keeps the two files *)
(* together but their authors.                                             *)
(***************************************************************************)

\* A card can be dragged, and the quick-approve button is shown, exactly when
\* POST /projects/{id}/stage would take the project there: canMoveToStage
\* (enums.ts:73) is can_user_move_to_stage (dependencies.py:170).
THEOREM ScreensMirrorMoves ==
    ASSUME NEW u \in Users, NEW stage
    PROVE  canMoveToStage(Role[u], stage, u = Owner) <=> CanMoveTo(u, stage)
BY DEF canMoveToStage, CanMoveTo, AdminRoles

\* The editing controls are shown exactly to those the "edit" dependency lets
\* through: canEditProject is _user_can_access_project at that level.
THEOREM ScreensMirrorEdits ==
    ASSUME NEW u \in Users
    PROVE  canEditProject(Role[u], u = Owner) <=> CanAccess(u, "edit")
BY DEF canEditProject, CanAccess

\* The remaining sets name the roles of the routes: creating, locking and asking
\* for changes are the directors', unlocking and approving the admins'.
THEOREM ScreensMirrorRoles ==
    /\ CREATOR_ROLES = DirectorRoles
    /\ SCRIPT_LOCKER_ROLES = DirectorRoles
    /\ CHANGE_REQUESTER_ROLES = DirectorRoles
    /\ SCRIPT_UNLOCKER_ROLES = AdminRoles
    /\ APPROVER_ROLES = AdminRoles
BY DEF CREATOR_ROLES, SCRIPT_LOCKER_ROLES, CHANGE_REQUESTER_ROLES,
       SCRIPT_UNLOCKER_ROLES, APPROVER_ROLES, DirectorRoles, AdminRoles

=============================================================================
