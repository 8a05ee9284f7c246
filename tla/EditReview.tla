----------------------------- MODULE EditReview -----------------------------
(***************************************************************************)
(* The cuts of a project: app/services/edit_service.py and the routes of   *)
(* app/routes/edits.py that finalise an upload, approve a cut and request  *)
(* changes.                                                                *)
(*                                                                         *)
(* Finalising is POST /projects/{id}/edits: the project is loaded by the   *)
(* access dependency, the SELECT of the highest number follows, then the   *)
(* commit, guarded by uq_edit_version_number.  A review is POST            *)
(* /edits/{id}/...: it loads the cut first, the project after it, and      *)
(* decides on both copies.                                                 *)
(***************************************************************************)
EXTENDS ProjectStore

CONSTANT MaxCuts        \* bound on the cuts of the project

ASSUME EditAssumption == MaxCuts \in Nat

VARIABLES
    cuts,       \* the committed rows of `edit_versions`, by version_number
    held,       \* what each request read of the cuts before it writes
    approvals   \* history: the approvals that were committed

editVars == <<cuts, held, approvals>>

EditStatus == {"in_review", "changes_requested", "approved"}

Cut == [uploader: Users, status: EditStatus, approvedBy: Users \cup {NoUser}]

NewCut(u) == [uploader |-> u, status |-> "in_review", approvedBy |-> NoUser]

\* A request holds nothing, the number of the cut it is about to insert, or a
\* copy of the cut it reviews; `read` is history: how long the trail was when
\* the review loaded its project.
NoHold == [purpose |-> "none", number |-> 0, cut |-> NewCut(Creator), read |-> 0]
Hold == [purpose: {"none", "finalise", "review"}, number: Nat, cut: Cut,
         read: Nat]

\* An approval: whose, of which cut, how much of the trail there was when it
\* loaded its project, and which entry of the trail is its edit.approved.
Approval == [by: Users, cut: Nat, read: Nat, entry: Nat]

HighestCut ==
    CHOOSE n \in DOMAIN cuts \cup {0} : \A m \in DOMAIN cuts : m =< n

\* Broken on purpose: a number is skipped.
SkippingCutNumber == HighestCut + 2

NextCutNumber == HighestCut + 1

-----------------------------------------------------------------------------
\* Finalising an upload.

NumberCut(r) ==
    /\ Serving(r, "edit")
    /\ held[r] = NoHold
    /\ HighestCut < MaxCuts
    /\ held' = [held EXCEPT ![r].purpose = "finalise",
                            ![r].number  = NextCutNumber]
    /\ UNCHANGED <<storeVars, cuts, approvals>>

\* Broken on purpose: no unique constraint.
CutNumberIsAlwaysFree(n) == TRUE

\* uq_edit_version_number
CutNumberIsFree(n) == n \notin DOMAIN cuts

\* The stages an upload does not pull back to editing.
LateStages == {"editing", "final_review", "approved_published"}

FinaliseCut(r) ==
    LET n == held[r].number
        u == Caller(r)
        from == Loaded(r).stage
        uploaded == <<Note("edit.uploaded", u)>>
    IN  /\ held[r].purpose = "finalise"
        /\ CutNumberIsFree(n)
        /\ cuts' = [m \in DOMAIN cuts \cup {n} |->
                      IF m = n THEN NewCut(u) ELSE cuts[m]]
        /\ held' = [held EXCEPT ![r] = NoHold]
        /\ \/ /\ from \in LateStages
              /\ Commit(r, Loaded(r), uploaded)
           \/ /\ from \notin LateStages
              /\ Commit(r, [Loaded(r) EXCEPT !.stage = "editing"],
                        <<StageChanged(u, from, "editing")>> \o uploaded)
        /\ UNCHANGED approvals

-----------------------------------------------------------------------------
\* Reviewing a cut.

\* EditApprovers, contained in ChangeRequesters.
Approvers == AdminRoles
Reviewers == DirectorRoles

\* get_edit, before anything is known of the project.  The request is not yet
\* on: it has no project.
LoadCut(r, u, n) ==
    /\ ~req[r].on /\ held[r] = NoHold
    /\ Role[u] \in Reviewers
    /\ n \in DOMAIN cuts
    /\ held' = [held EXCEPT ![r] = [purpose |-> "review", number |-> n,
                                    cut     |-> cuts[n],  read   |-> 0]]
    /\ req' = [req EXCEPT ![r].user = u]
    /\ UNCHANGED <<project, trail, cuts, approvals>>

\* _project_for_edit and the view check.
LoadProjectOfCut(r) ==
    /\ ~req[r].on /\ held[r].purpose = "review"
    /\ ~project.deleted
    /\ CanAccess(req[r].user, "view")
    /\ req' = [req EXCEPT ![r].on = TRUE, ![r].row = project]
    /\ held' = [held EXCEPT ![r].read = Len(trail)]
    /\ UNCHANGED <<project, trail, cuts, approvals>>

Reviewing(r, roles) ==
    /\ req[r].on /\ held[r].purpose = "review"
    /\ Role[Caller(r)] \in roles

\* Broken on purpose: approved_by is not written.
MergeStatusOnly(r, assigned) ==
    /\ cuts' = [cuts EXCEPT ![held[r].number].status =
                   Column(@, held[r].cut.status, assigned.status)]
    /\ held' = [held EXCEPT ![r] = NoHold]

\* The flush of the reviewed cut: like Merge, one column at a time.
MergeCut(r, assigned) ==
    LET n == held[r].number
        loaded == held[r].cut
    IN  /\ cuts' = [cuts EXCEPT
                ![n].status = Column(@, loaded.status, assigned.status),
                ![n].approvedBy = Column(@, loaded.approvedBy,
                                         assigned.approvedBy)]
        /\ held' = [held EXCEPT ![r] = NoHold]

Approved(r) ==
    approvals' = approvals \cup {[by   |-> Caller(r), cut   |-> held[r].number,
                                  read |-> held[r].read, entry |-> Len(trail')]}

\* approve_edit returns early: nothing to commit.
ApproveAgain(r) ==
    /\ Reviewing(r, Approvers)
    /\ held[r].cut.status = "approved"
    /\ held' = [held EXCEPT ![r] = NoHold]
    /\ req' = [req EXCEPT ![r] = Idle]
    /\ UNCHANGED <<project, trail, cuts, approvals>>

\* Broken on purpose: a CEO's approval leaves the stage as it is.
ApproveWithoutPublishing(r) ==
    /\ Reviewing(r, Approvers)
    /\ held[r].cut.status # "approved"
    /\ MergeCut(r, [held[r].cut EXCEPT !.status = "approved",
                                       !.approvedBy = Caller(r)])
    /\ Commit(r, Loaded(r), <<Note("edit.approved", Caller(r))>>)
    /\ Approved(r)

ApproveCut(r) ==
    LET u == Caller(r)
        from == Loaded(r).stage
        publishes == Role[u] = "ceo" /\ from # "approved_published"
        approved == <<Note("edit.approved", u)>>
    IN  /\ Reviewing(r, Approvers)
        /\ held[r].cut.status # "approved"
        /\ MergeCut(r, [held[r].cut EXCEPT !.status = "approved",
                                           !.approvedBy = u])
        /\ \/ /\ publishes
              /\ Commit(r, [Loaded(r) EXCEPT !.stage = "approved_published"],
                        <<StageChanged(u, from, "approved_published")>>
                        \o approved)
           \/ /\ ~publishes
              /\ Commit(r, Loaded(r), approved)
        /\ Approved(r)

RequestChanges(r) ==
    LET u == Caller(r)
        from == Loaded(r).stage
        requested == <<Note("edit.changes_requested", u)>>
    IN  /\ Reviewing(r, Reviewers)
        /\ held[r].cut.status # "approved"
        /\ MergeCut(r, [held[r].cut EXCEPT !.status = "changes_requested"])
        /\ \/ /\ from # "editing"
              /\ Commit(r, [Loaded(r) EXCEPT !.stage = "editing"],
                        <<StageChanged(u, from, "editing")>> \o requested)
           \/ /\ from = "editing"
              /\ Commit(r, Loaded(r), requested)
        /\ UNCHANGED approvals

-----------------------------------------------------------------------------
\* The other endpoints.

OpenProject(r, u) ==
    /\ held[r] = NoHold
    /\ Open(r, u)
    /\ UNCHANGED editVars

\* A review may also be refused before it has a project.
LeaveReview(r) ==
    /\ req[r].on \/ held[r] # NoHold
    /\ req' = [req EXCEPT ![r] = Idle]
    /\ held' = [held EXCEPT ![r] = NoHold]
    /\ UNCHANGED <<project, trail, cuts, approvals>>

BoardStep(r) ==
    /\ held[r] = NoHold
    /\ ProjectEndpoint(r)
    /\ UNCHANGED editVars

EditInit ==
    /\ StoreInit
    /\ cuts = [n \in {} |-> NewCut(Creator)]
    /\ held = [r \in Requests |-> NoHold]
    /\ approvals = {}

EditNext ==
    \E r \in Requests :
        \/ \E u \in Users : OpenProject(r, u)
        \/ LeaveReview(r)
        \/ BoardStep(r)
        \/ NumberCut(r)
        \/ FinaliseCut(r)
        \/ \E u \in Users, n \in DOMAIN cuts : LoadCut(r, u, n)
        \/ LoadProjectOfCut(r)
        \/ ApproveAgain(r)
        \/ ApproveCut(r)
        \/ RequestChanges(r)

EditSpec == EditInit /\ [][EditNext]_<<storeVars, editVars>>

-----------------------------------------------------------------------------
\* Properties.

\* Types of the cuts and of what requests hold of them.
EditTypeOK ==
    /\ StoreTypeOK
    /\ DOMAIN cuts \subseteq Nat
    /\ \A n \in DOMAIN cuts : cuts[n] \in Cut
    /\ held \in [Requests -> Hold]
    /\ approvals \subseteq Approval

\* Cuts are V1, V2, V3, ... with no gap, whatever uploads race
\* (_next_version_number and uq_edit_version_number).
CutsDense == DOMAIN cuts = 1 .. HighestCut

\* An approval leaves evidence whatever reviews race with it: an approved cut
\* names its approver, and whoever a cut names is an admin whose approval is in
\* the trail (approve_edit, EditApprovers).
ApprovalHasEvidence ==
    \A n \in DOMAIN cuts :
        /\ cuts[n].status = "approved" => cuts[n].approvedBy # NoUser
        /\ cuts[n].approvedBy # NoUser =>
             /\ Role[cuts[n].approvedBy] \in AdminRoles
             /\ \E i \in DOMAIN trail :
                    /\ trail[i].action = "edit.approved"
                    /\ trail[i].actor = cuts[n].approvedBy

\* After its first n entries the trail tells of a published project.
PublishedAt(n) ==
    \E i \in 1 .. n :
        /\ trail[i].to = "approved_published"
        /\ \A j \in i + 1 .. n : trail[j].to = NoStage

\* Approval a published: its own stage change comes right before its entry.
PublishedWith(a) ==
    /\ trail[a.entry - 1].to = "approved_published"
    /\ trail[a.entry - 1].actor = a.by
    /\ trail[a.entry].action = "edit.approved"

\* What the request reads as approved was approved before it loaded its project.
ApprovedBefore(r) ==
    \E a \in approvals : a.cut = held[r].number /\ a.entry \in 1 .. held[r].read

\* A CEO's approval answered with success publishes the project ("Approved /
\* Published ... CEO approves final cut", project_spec.md, section 4), but in two
\* cases: it found the project published already, or it is about to return
\* early (approve_edit) because that very cut had been approved before.
CeoApprovalPublishes ==
    /\ \A a \in approvals :
          Role[a.by] = "ceo" => PublishedAt(a.read) \/ PublishedWith(a)
    /\ \A r \in Requests :
          Reviewing(r, {"ceo"}) /\ held[r].cut.status = "approved"
            => ApprovedBefore(r)

\* The cuts are an append-only log whose uploader never changes and whose
\* approval stamp, once set, is never cleared (models/edit.py).
CutLog == INSTANCE VersionLog WITH
    Authors <- Users,
    log     <- [n \in 1 .. HighestCut |->
                  [author  |-> cuts[n].uploader,
                   stamped |-> cuts[n].approvedBy # NoUser]]

ImplementsCutLog == CutLog!LogSpec

=============================================================================
