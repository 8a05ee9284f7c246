---------------------------- MODULE ProjectPage -----------------------------
(***************************************************************************)
(* The page of one project in one browser: the copy of the project it      *)
(* shows, the brief with its form, and the tabs that change the project    *)
(* and then fetch it again.  The tab of the activity feed is ActivityFeed. *)
(*                                                                         *)
(* Copies are written as the commit they were read at.  The page hands its *)
(* setProject to the tabs, so an answer that arrives after its tab is gone *)
(* still replaces the copy.                                                *)
(***************************************************************************)
EXTENDS ProjectRows

CONSTANTS
    Here,         \* the project of the page
    MaxCalls      \* bound: requests about the project in flight

ASSUME PageAssumption ==
    /\ Here \in Projects
    /\ MaxCalls \in Nat \ {0}

VARIABLES
    page,      \* status, and the copy of the project
    open,      \* the tab that is mounted
    calls,     \* requests about the project in flight, oldest first
    form,      \* the brief: its fields and flags, the copy it began with;
               \* history: the fields typed into it, the commits of its saves
    heard,     \* history: the latest commit of this browser it was told of
    apart      \* history: since the last lone answer no two requests have met

pageVars == <<page, open, calls, form, heard, apart>>

OpenTabs == {"brief", "work", "activity"}

Call == [kind: {"load", "work", "save"},
         step: {"asked", "get", "ok"},     \* `get`: the change is made
         brief: [Fields -> (UNION Range(Texts)) \cup {Blank}], \* what a save sends
         answer: 0..MaxCommits + 1,
         own: 0..MaxCommits + 1,           \* the commit it made
         mount: BOOLEAN,                   \* its form is still mounted
         met: BOOLEAN]

NoBrief == [f \in Fields |-> Blank]

NewCall(kind) == [kind |-> kind, step |-> "asked", brief |-> NoBrief,
                  answer |-> 0, own |-> 0, mount |-> FALSE,
                  met |-> calls # <<>>]

NoForm == [fields |-> NoBrief, editing |-> FALSE, saving |-> FALSE, base |-> 0,
           typed |-> {}, saves |-> {}]

\* Broken on purpose: the fields keep what the first visit of the tab read.
FormOfFirstVisit(n) == [NoForm EXCEPT !.fields = log[1][Here].brief, !.base = n]

\* useState(project.title): the fields are read when the tab is mounted.
FormOf(n) == [NoForm EXCEPT !.fields = log[n][Here].brief, !.base = n]

Send(call) ==
    /\ Len(calls) < MaxCalls
    /\ calls' = Append([i \in DOMAIN calls |-> [calls[i] EXCEPT !.met = TRUE]],
                       call)
    /\ apart' = (apart /\ calls = <<>>)

Forget(i) == calls' = RemoveAt(calls, i)

-----------------------------------------------------------------------------
\* The tabs.

ChooseTab(t) ==
    /\ page.status = "ready" /\ t # open
    /\ open' = t
    /\ form' = IF t = "brief" THEN FormOf(page.copy) ELSE NoForm
    /\ calls' = [i \in DOMAIN calls |-> [calls[i] EXCEPT !.mount = FALSE]]
    /\ UNCHANGED <<page, heard, apart, rowVars>>

\* An answer about the project, whoever asked: setProject.  With the first one
\* the page becomes ready and mounts the brief.
Deliver(i) ==
    /\ calls[i].step = "ok"
    /\ page' = [status |-> "ready", copy |-> calls[i].answer]
    /\ form' = IF calls[i].kind = "load" /\ open = "brief"
               THEN FormOf(calls[i].answer)
               ELSE IF calls[i].mount
               THEN [form EXCEPT !.editing = FALSE, !.saving = FALSE]
               ELSE form
    /\ heard' = IF calls[i].own > heard THEN calls[i].own ELSE heard
    /\ apart' = ~calls[i].met
    /\ Forget(i)
    /\ UNCHANGED <<open, rowVars>>

\* Broken on purpose: a save that fails keeps its form disabled.
FailStillSaving(i) ==
    /\ page' = IF calls[i].kind = "load" THEN [page EXCEPT !.status = "error"]
                                         ELSE page
    /\ Forget(i)
    /\ UNCHANGED <<open, form, heard, apart, rowVars>>

\* Refused or lost; a save gives its form back, the page reports an error.
Fail(i) ==
    /\ page' = IF calls[i].kind = "load" THEN [page EXCEPT !.status = "error"]
                                         ELSE page
    /\ form' = IF calls[i].mount THEN [form EXCEPT !.saving = FALSE] ELSE form
    /\ Forget(i)
    /\ UNCHANGED <<open, heard, apart, rowVars>>

\* getProject.
Read(i) ==
    /\ \/ calls[i].kind = "load" /\ calls[i].step = "asked"
       \/ calls[i].step = "get"
    /\ calls' = [calls EXCEPT ![i].step = "ok", ![i].answer = Len(log)]
    /\ UNCHANGED <<page, open, form, heard, apart, rowVars>>

\* A button of the script or of the edits tab: change, then getProject.  These
\* buttons carry no busy flag.
Work ==
    /\ page.status = "ready" /\ open = "work"
    /\ Send(NewCall("work"))
    /\ UNCHANGED <<page, open, form, heard, rowVars>>

ServeWork(i) ==
    /\ calls[i].kind = "work" /\ calls[i].step = "asked"
    /\ \E stage \in Columns \ {Current[Here].stage} :
          Commit(Here, [Current[Here] EXCEPT !.stage = stage])
    /\ calls' = [calls EXCEPT ![i].step = "get", ![i].own = Len(log')]
    /\ UNCHANGED <<page, open, form, heard, apart>>

-----------------------------------------------------------------------------
\* The brief.

Edit ==
    /\ page.status = "ready" /\ open = "brief" /\ ~form.editing
    /\ form' = [form EXCEPT !.editing = TRUE]
    /\ UNCHANGED <<page, open, calls, heard, apart, rowVars>>

Type(f, text) ==
    /\ form.editing /\ form.fields[f] # text
    /\ form' = [form EXCEPT !.fields[f] = text, !.typed = @ \cup {f}]
    /\ UNCHANGED <<page, open, calls, heard, apart, rowVars>>

\* Cancel keeps what was typed.
Cancel ==
    /\ form.editing /\ ~form.saving
    /\ form' = [form EXCEPT !.editing = FALSE]
    /\ UNCHANGED <<page, open, calls, heard, apart, rowVars>>

Save ==
    /\ form.editing /\ ~form.saving
    /\ Send([NewCall("save") EXCEPT !.brief = form.fields, !.mount = TRUE])
    /\ form' = [form EXCEPT !.saving = TRUE]
    /\ UNCHANGED <<page, open, heard, rowVars>>

\* update_project: a column is assigned unless the request has null for it,
\* and the form sends null for an empty description.
PatchedBrief(row, sent) ==
    [row EXCEPT !.brief = [f \in Fields |-> IF sent[f] = Blank THEN @[f]
                                                               ELSE sent[f]]]

ServeSave(i) ==
    /\ calls[i].kind = "save" /\ calls[i].step = "asked"
    /\ LET row == PatchedBrief(Current[Here], calls[i].brief)
       IN  \/ row = Current[Here] /\ UNCHANGED <<form, rowVars>>
           \/ /\ row # Current[Here] /\ Commit(Here, row)
              /\ form' = IF calls[i].mount
                         THEN [form EXCEPT !.saves = @ \cup {Len(log')}]
                         ELSE form
    /\ calls' = [calls EXCEPT ![i].step = "ok", ![i].answer = Len(log'),
                              ![i].own = Len(log')]
    /\ UNCHANGED <<page, open, heard, apart>>

-----------------------------------------------------------------------------
PageMounted ==
    /\ page = [status |-> "loading", copy |-> 0]
    /\ open = "brief"
    /\ calls = <<[kind |-> "load", step |-> "asked", brief |-> NoBrief,
                  answer |-> 0, own |-> 0, mount |-> FALSE, met |-> FALSE]>>
    /\ form = NoForm
    /\ heard = 0 /\ apart = TRUE

Answering(i) == Read(i) \/ ServeWork(i) \/ ServeSave(i) \/ Deliver(i) \/ Fail(i)

PageStep ==
    \/ \E t \in OpenTabs : ChooseTab(t)
    \/ \E i \in DOMAIN calls : Answering(i)
    \/ Work
    \/ Edit \/ Cancel \/ Save
    \/ \E f \in Fields : \E text \in Texts[f] : Type(f, text)

-----------------------------------------------------------------------------
\* The shapes; a form that is being saved is open.
PageTypeOK ==
    /\ page \in [status: {"loading", "ready", "error"}, copy: 0..Len(log)]
    /\ open \in OpenTabs
    /\ calls \in Seq(Call) /\ Len(calls) =< MaxCalls
    /\ form \in [fields: [Fields -> (UNION Range(Texts)) \cup {Blank}],
                 editing: BOOLEAN, saving: BOOLEAN, base: 0..Len(log),
                 typed: SUBSET Fields, saves: SUBSET (1..Len(log))]
    /\ form.saving => form.editing
    /\ heard \in 0..Len(log) /\ apart \in BOOLEAN

\* At rest the page shows every change this browser was told had succeeded,
\* unless two requests have met since the last answer that came alone; and a
\* form that waits has its save in flight.
RestShowsOwnWork ==
    /\ calls = <<>> /\ apart /\ page.status = "ready" => page.copy >= heard
    /\ form.saving => \E i \in DOMAIN calls : calls[i].mount

\* A save writes every field of the form.  One that nobody typed into it holds
\* what the form was filled in with: such a save changes that column only if
\* somebody else, or another form, has changed it after the copy the form was
\* filled in from; it takes back a later change and never makes one of its own.
SaveRevertsLaterChangesOnly ==
    [][ \A i \in DOMAIN calls, f \in Fields \ form.typed :
          /\ ServeSave(i) /\ calls[i].mount
          /\ Current'[Here].brief[f] # Current[Here].brief[f]
          => \E c \in form.base + 1 .. Len(log) :
                /\ c \notin form.saves
                /\ log[c][Here].brief[f] # log[c - 1][Here].brief[f]
      ]_<<rowVars, pageVars>>

=============================================================================
