--------------------------- MODULE CommentPanels ----------------------------
(***************************************************************************)
(* The two panels of one browser that show comments: ScriptComments under  *)
(* a version of the script, and EditsTab with VideoReviewPlayer and        *)
(* EditCommentsList under a cut.  A panel stays mounted while another      *)
(* version or cut is chosen, and its comments are then loaded anew.        *)
(*                                                                         *)
(* The edits tab cancels the load of a cut that is no longer chosen, the   *)
(* script panel does not; both append a comment they have added to the     *)
(* list they show, whatever is chosen by then.                             *)
(***************************************************************************)
EXTENDS Naturals, Sequences, SequencesExt, FiniteSets

CONSTANTS
    Targets,      \* ids of versions or cuts
    Comments,     \* ids of comments
    Calls,        \* slots for the requests of handlers
    MaxCommits,   \* bound on the commits
    MaxLoads      \* bound on the loads in flight

Nowhere == "none"

\* A panel is mounted once there is a version or cut to choose.
ASSUME PanelAssumption ==
    /\ Targets # {} /\ Nowhere \notin Targets
    /\ Comments # {} /\ IsFiniteSet(Comments)
    /\ MaxCommits \in Nat /\ MaxLoads \in Nat \ {0}

VARIABLES
    panel,     \* which of the two panels is mounted
    log,       \* the comments after each commit; the last are current
    chosen,    \* currentId
    shown,     \* the comments it shows: ids, with the commit they were read at
    loading,   \* ScriptComments hides its list while it loads
    loads,     \* list requests in flight, oldest first
    call,      \* the other requests in flight
    told,      \* history: the latest commit told of each comment
    clean      \* history: since the last lone load nothing failed or met

panelVars == <<panel, log, chosen, shown, loading, loads, call, told, clean>>

State == [of: [Comments -> Targets \cup {Nowhere}],  \* the version or cut
          resolved: [Comments -> BOOLEAN]]

Current == log[Len(log)]

Entry == [id: Comments, at: 1..MaxCommits + 1]

Load == [target: Targets, answer: 0..MaxCommits + 1, cancelled: BOOLEAN,
         met: BOOLEAN]

Kinds == {"comment", "resolve", "reopen"}

NoCall == [on |-> FALSE, kind |-> "comment", target |-> CHOOSE t \in Targets : TRUE,
           id |-> CHOOSE c \in Comments : TRUE, commit |-> 0]

Call == [on: BOOLEAN, kind: Kinds, target: Targets, id: Comments,
         commit: 0..MaxCommits + 1]

Quiet == loads = <<>> /\ \A k \in Calls : ~call[k].on

\* No request is in flight whose answer could change the list; a new load of the
\* edits tab cancels those before it.
Alone(cancelling) ==
    /\ \A k \in Calls : ~call[k].on
    /\ \A i \in DOMAIN loads : loads[i].cancelled \/ cancelling

-----------------------------------------------------------------------------
\* The service: add_comment, resolve_comment, reopen_comment and their
\* namesakes for cuts; a comment that is resolved already is left as it is.

After(kind, t, c) ==
    IF kind = "comment" THEN [Current EXCEPT !.of[c] = t]
                        ELSE [Current EXCEPT !.resolved[c] = (kind = "resolve")]

Write(kind, t, c) ==
    /\ IF kind = "comment" THEN Current.of[c] = Nowhere ELSE Current.of[c] = t
    /\ IF After(kind, t, c) = Current
       THEN UNCHANGED log
       ELSE Len(log) =< MaxCommits /\ log' = Append(log, After(kind, t, c))

Somebody(kind, t, c) ==
    /\ Write(kind, t, c)
    /\ UNCHANGED <<panel, chosen, shown, loading, loads, call, told, clean>>

-----------------------------------------------------------------------------
\* The list.

\* The effect on the id of the version or cut.
Ask(t) ==
    LET cancelling == panel = "edit"
    IN  /\ Len(loads) < MaxLoads
        /\ loads' = Append([i \in DOMAIN loads |->
                              [loads[i] EXCEPT !.cancelled = cancelling, !.met = TRUE]],
                           [target |-> t, answer |-> 0, cancelled |-> FALSE,
                            met |-> ~Alone(cancelling)])
        /\ loading' = ~cancelling
        /\ clean' = (clean /\ Alone(cancelling))

\* Another version or cut is chosen, or has just been made here.
Choose(t) ==
    /\ t # chosen
    /\ chosen' = t
    /\ Ask(t)
    /\ UNCHANGED <<panel, log, shown, call, told>>

ServeLoad(i) ==
    /\ loads[i].answer = 0
    /\ loads' = [loads EXCEPT ![i].answer = Len(log)]
    /\ UNCHANGED <<panel, log, chosen, shown, loading, call, told, clean>>

Listed(t, n) ==
    LET ids == SetToSeq({c \in Comments : log[n].of[c] = t})
    IN  [i \in DOMAIN ids |-> [id |-> ids[i], at |-> n]]

\* Broken on purpose: the list of a cut that is no longer chosen is shown.
DeliverAnyLoad(i) ==
    /\ loads[i].answer # 0
    /\ shown' = Listed(loads[i].target, loads[i].answer)
    /\ clean' = (IF loads[i].cancelled THEN clean ELSE ~loads[i].met)
    /\ loading' = FALSE
    /\ loads' = RemoveAt(loads, i)
    /\ UNCHANGED <<panel, log, chosen, call, told>>

DeliverLoad(i) ==
    /\ loads[i].answer # 0
    /\ IF loads[i].cancelled
       THEN UNCHANGED <<shown, clean>>
       ELSE /\ shown' = Listed(loads[i].target, loads[i].answer)
            /\ clean' = ~loads[i].met
    /\ loading' = FALSE
    /\ loads' = RemoveAt(loads, i)
    /\ UNCHANGED <<panel, log, chosen, call, told>>

\* The old list stays, and is shown again.
FailLoad(i) ==
    /\ loading' = FALSE
    /\ loads' = RemoveAt(loads, i)
    /\ clean' = (clean /\ loads[i].cancelled)
    /\ UNCHANGED <<panel, log, chosen, shown, call, told>>

-----------------------------------------------------------------------------
\* The handlers.

Shows(c) == ~loading /\ \E i \in DOMAIN shown : shown[i].id = c

IsResolved(c) == \E i \in DOMAIN shown : shown[i].id = c /\ log[shown[i].at].resolved[c]

\* A new comment; Resolve and Reopen as the comment is shown.
CanSend(kind, c) ==
    CASE kind = "comment" -> /\ Current.of[c] = Nowhere
                             /\ \A k \in Calls : call[k].on => call[k].id # c
      [] kind = "resolve" -> Shows(c) /\ ~IsResolved(c)
      [] kind = "reopen"  -> Shows(c) /\ IsResolved(c)

\* submitNew and submitComment, and toggle of either panel.
Send(kind, c) ==
    /\ CanSend(kind, c)
    /\ \E k \in Calls : ~call[k].on
    /\ call' = [call EXCEPT ![CHOOSE k \in Calls : ~call[k].on] =
                  [on |-> TRUE, kind |-> kind, target |-> chosen, id |-> c,
                   commit |-> 0]]
    /\ loads' = [i \in DOMAIN loads |-> [loads[i] EXCEPT !.met = TRUE]]
    /\ clean' = (clean /\ Alone(FALSE))
    /\ UNCHANGED <<panel, log, chosen, shown, loading, told>>

ServeCall(k) ==
    /\ call[k].on /\ call[k].commit = 0
    /\ Write(call[k].kind, call[k].target, call[k].id)
    /\ call' = [call EXCEPT ![k].commit = Len(log')]
    /\ UNCHANGED <<panel, chosen, shown, loading, loads, told, clean>>

\* prev.map((c) => c.id === updated.id ? updated : c)
Replaced(c, n) ==
    [i \in DOMAIN shown |-> IF shown[i].id = c THEN [shown[i] EXCEPT !.at = n]
                                               ELSE shown[i]]

Answered(k) ==
    LET c == call[k].id
        n == call[k].commit
    IN  /\ call[k].on /\ n # 0
        /\ shown' = IF call[k].kind = "comment"
                    THEN Append(shown, [id |-> c, at |-> n])
                    ELSE Replaced(c, n)
        /\ told' = [told EXCEPT ![c] = IF n > @ THEN n ELSE @]
        /\ call' = [call EXCEPT ![k] = NoCall]
        /\ UNCHANGED <<panel, log, chosen, loading, loads, clean>>

\* Refused, or the request or its answer is lost.
FailCall(k) ==
    /\ call[k].on
    /\ call' = [call EXCEPT ![k] = NoCall]
    /\ clean' = FALSE
    /\ UNCHANGED <<panel, log, chosen, shown, loading, loads, told>>

-----------------------------------------------------------------------------
PanelInit ==
    /\ panel \in {"script", "edit"}
    /\ log = <<[of |-> [c \in Comments |-> Nowhere],
                resolved |-> [c \in Comments |-> FALSE]]>>
    /\ chosen = CHOOSE t \in Targets : TRUE
    /\ shown = <<>>
    /\ loading = (panel = "script")
    /\ loads = <<[target |-> chosen, answer |-> 0, cancelled |-> FALSE,
                  met |-> FALSE]>>
    /\ call = [k \in Calls |-> NoCall]
    /\ told = [x \in Comments |-> 0] /\ clean = TRUE

Loading == \E i \in DOMAIN loads : ServeLoad(i) \/ DeliverLoad(i) \/ FailLoad(i)

Calling == \E k \in Calls : ServeCall(k) \/ Answered(k) \/ FailCall(k)

PanelNext ==
    \/ \E kind \in Kinds, t \in Targets, c \in Comments : Somebody(kind, t, c)
    \/ \E t \in Targets : Choose(t)
    \/ \E kind \in Kinds, c \in Comments : Send(kind, c)
    \/ Loading \/ Calling

PanelSpec == PanelInit /\ [][PanelNext]_panelVars

-----------------------------------------------------------------------------
PanelTypeOK ==
    /\ panel \in {"script", "edit"}
    /\ log \in Seq(State) /\ Len(log) \in 1..MaxCommits + 1
    /\ chosen \in Targets
    /\ shown \in Seq(Entry)
    /\ loading \in BOOLEAN
    /\ loads \in Seq(Load) /\ Len(loads) =< MaxLoads
    /\ call \in [Calls -> Call]
    /\ told \in [Comments -> 0..MaxCommits + 1] /\ clean \in BOOLEAN

\* At rest a panel shows comments of the chosen version or cut alone, each
\* once, no older than this browser was told they are; unless a request failed
\* or two have met since the last list that was loaded alone.  Choosing quickly
\* is no such excuse in the edits tab, which cancels the loads before.
RestShowsTheChosen ==
    Quiet /\ clean =>
        /\ \A i \in DOMAIN shown :
              /\ Current.of[shown[i].id] = chosen
              /\ shown[i].at >= told[shown[i].id]
        /\ \A i, j \in DOMAIN shown : shown[i].id = shown[j].id => i = j
        /\ \A c \in Comments :
              told[c] # 0 /\ Current.of[c] = chosen
                  => \E i \in DOMAIN shown : shown[i].id = c

=============================================================================
