------------------------------- MODULE CutTab -------------------------------
(***************************************************************************)
(* The list of cuts in EditsTab and its review buttons, in one browser.    *)
(*                                                                         *)
(* The list is loaded once, and a skeleton stands in its place before; a   *)
(* cut uploaded here is put at its end (EditsDesk has when), and the       *)
(* answer of a review replaces its row.  The buttons do not wait for one   *)
(* another.                                                                *)
(***************************************************************************)
EXTENDS Naturals, Sequences, SequencesExt, FiniteSets, Gates

CONSTANTS
    MaxCuts,      \* bound on the cuts of the project
    MaxReviews,   \* bound on the commits of reviews
    Requests,     \* slots for the reviews in flight
    ReviewerRole  \* the role of the signed-in user, who may edit

ASSUME CutAssumption == MaxCuts \in Nat \ {0} /\ MaxReviews \in Nat

Statuses == {"in_review", "changes_requested", "approved"}

VARIABLES
    history,   \* the statuses by version number after each commit
    reviews,   \* how many of the commits were reviews
    tab,       \* list, current cut and list request of the tab
    sent       \* the reviews in flight

cutVars == <<history, reviews, tab, sent>>

Now == Last(history)

States == 1 .. MaxCuts + MaxReviews + 1

\* A row of the list: the cut, and the commit its status is of.
TabRow == [cut: 1..MaxCuts, at: States]

Tab == [loaded: BOOLEAN, list: Seq(TabRow), current: 0..MaxCuts,
        asked: BOOLEAN, answer: {0} \cup States]

Kinds == {"approve", "request_changes"}

Nothing == [on |-> FALSE, kind |-> "approve", cut |-> 1, commit |-> 0]

Sent == [on: BOOLEAN, kind: Kinds, cut: 1..MaxCuts, commit: {0} \cup States]

Commit(statuses) == history' = Append(history, statuses)

-----------------------------------------------------------------------------
\* The service: add_edit_version, approve_edit, request_changes.

Recorded ==
    /\ Len(Now) < MaxCuts
    /\ Commit(Append(Now, "in_review"))
    /\ UNCHANGED reviews

\* An approved cut is approved again without a commit, and not sent back.
Reviewed(kind, cut) ==
    /\ cut \in DOMAIN Now
    /\ \/ kind = "approve" /\ Now[cut] = "approved" /\ UNCHANGED <<history, reviews>>
       \/ /\ Now[cut] # "approved" /\ reviews < MaxReviews
          /\ Commit([Now EXCEPT ![cut] = IF kind = "approve" THEN "approved"
                                                        ELSE "changes_requested"])
          /\ reviews' = reviews + 1

ServeReview(r) ==
    /\ sent[r].on /\ sent[r].commit = 0
    /\ Reviewed(sent[r].kind, sent[r].cut)
    /\ sent' = [sent EXCEPT ![r].commit = Len(history')]
    /\ UNCHANGED <<tab>>

Somebody ==
    /\ \/ \E kind \in Kinds, cut \in 1..MaxCuts : Reviewed(kind, cut)
       \/ Recorded
    /\ UNCHANGED <<tab, sent>>

-----------------------------------------------------------------------------
\* reload(), on mount.

Mounted == [loaded |-> FALSE, list |-> <<>>, current |-> 0, asked |-> TRUE,
            answer |-> 0]

ServeList ==
    /\ tab.asked /\ tab.answer = 0
    /\ tab' = [tab EXCEPT !.answer = Len(history)]
    /\ UNCHANGED <<history, reviews, sent>>

DeliverList ==
    /\ tab.answer # 0
    /\ LET n == Len(history[tab.answer])
       IN  tab' = [loaded |-> TRUE, asked |-> FALSE, answer |-> 0, current |-> n,
                   list |-> [i \in 1..n |-> [cut |-> i, at |-> tab.answer]]]
    /\ UNCHANGED <<history, reviews, sent>>

\* The skeleton stays: nothing asks again.
FailList ==
    /\ tab.asked
    /\ tab' = [tab EXCEPT !.asked = FALSE, !.answer = 0]
    /\ UNCHANGED <<history, reviews, sent>>

\* setCurrentId
Select(i) ==
    /\ tab.list[i].cut # tab.current
    /\ tab' = [tab EXCEPT !.current = tab.list[i].cut]
    /\ UNCHANGED <<history, reviews, sent>>

-----------------------------------------------------------------------------
\* The buttons.

Shown == {i \in DOMAIN tab.list : tab.list[i].cut = tab.current}

Status(row) == history[row.at][row.cut]

Offered(kind) ==
    CASE kind = "approve" -> Shown # {} /\ ReviewerRole \in APPROVER_ROLES
      [] kind = "request_changes" ->
             /\ ReviewerRole \in CHANGE_REQUESTER_ROLES
             /\ \E i \in Shown : Status(tab.list[i]) # "approved"

\* doApprove, doRequestChanges: there is no busy flag.
Press(kind) ==
    LET free == {r \in Requests : ~sent[r].on}
    IN  /\ Offered(kind)
        /\ free # {}
        /\ sent' = [r \in Requests |->
                      IF r = CHOOSE s \in free : TRUE
                      THEN [on |-> TRUE, kind |-> kind, cut |-> tab.current,
                            commit |-> 0]
                      ELSE sent[r]]
        /\ UNCHANGED <<history, reviews, tab>>

\* Broken on purpose: the row is added to the list.
ReviewedAtTheEnd(r) ==
    /\ sent[r].on /\ sent[r].commit # 0
    /\ tab' = [tab EXCEPT !.list =
                 Append(@, [cut |-> sent[r].cut, at |-> sent[r].commit])]
    /\ sent' = [sent EXCEPT ![r] = Nothing]
    /\ UNCHANGED <<history, reviews>>

\* The answer of a review replaces the row of its cut; refreshProject follows,
\* which the tab does not show.
ReviewAnswered(r) ==
    /\ sent[r].on /\ sent[r].commit # 0
    /\ tab' = [tab EXCEPT !.list =
                 [i \in DOMAIN @ |-> IF @[i].cut = sent[r].cut
                                     THEN [@[i] EXCEPT !.at = sent[r].commit]
                                     ELSE @[i]]]
    /\ sent' = [sent EXCEPT ![r] = Nothing]
    /\ UNCHANGED <<history, reviews>>

\* onUploaded: the answer holds the new cut as it was made.
Uploaded(cut) ==
    [tab EXCEPT !.current = cut,
                !.list = Append(@, [cut |-> cut, at |-> Len(history)])]

Fail(r) ==
    /\ sent[r].on
    /\ sent' = [sent EXCEPT ![r] = Nothing]
    /\ UNCHANGED <<history, reviews, tab>>

-----------------------------------------------------------------------------
CutInit ==
    /\ \E n \in 0..1 : history = <<[i \in 1..n |-> "in_review"]>>
    /\ reviews = 0
    /\ tab = Mounted
    /\ sent = [r \in Requests |-> Nothing]

Listing == ServeList \/ DeliverList \/ FailList

Answering(r) == ServeReview(r) \/ ReviewAnswered(r) \/ Fail(r)

CutNext ==
    \/ Listing
    \/ \E i \in DOMAIN tab.list : Select(i)
    \/ \E kind \in Kinds : Press(kind)
    \/ \E r \in Requests : Answering(r)
    \/ Somebody

CutSpec == CutInit /\ [][CutNext]_cutVars

-----------------------------------------------------------------------------
CutTypeOK ==
    /\ history \in Seq(Seq(Statuses)) /\ Len(history) \in States
    /\ reviews \in 0..MaxReviews
    /\ tab \in Tab
    /\ sent \in [Requests -> Sent]

=============================================================================
