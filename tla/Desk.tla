-------------------------------- MODULE Desk --------------------------------
(***************************************************************************)
(* The script tab of one browser: ScriptTab, ScriptEditor and the import   *)
(* dialog, over the versions of one project's script.                      *)
(*                                                                         *)
(* The text in the editor is written to localStorage on every change and   *)
(* removed when a version is saved; the list of versions is asked for once *)
(* per mount, with nothing to stop a version from being made before it     *)
(* arrives.  Handlers run on when their tab is gone.                       *)
(***************************************************************************)
EXTENDS Naturals, Sequences, SequencesExt, FiniteSets, Gates

CONSTANTS
    Texts,        \* what can be typed
    Others,       \* what others save, and what stands in documents of Drive
    Empty,        \* the empty string
    BlankDoc,     \* the editor's HTML of an empty document
    None,         \* no item in localStorage
    MyRole,       \* the signed-in user's role, and whether the project is theirs
    IsOwner,
    Slots,        \* slots for handlers in flight
    MaxVersions   \* bound on the versions of the script

\* The editor's HTML is never the empty string, nor no item at all.
ASSUME DeskAssumption ==
    MaxVersions \in Nat \ {0} /\ Empty \notin Texts /\ None \notin Texts

Bodies == Texts \cup Others \cup {BlankDoc}
Drafts == Bodies \cup {Empty}

\* The stages that the desk tells apart.
ScriptStages == {"idea", "script_drafting", "script_review", "script_locked"}

VARIABLES
    script,     \* the bodies of the committed versions, by version number
    stage,      \* of the project, in the service
    seenStage,  \* of the page's copy of the project
    cached,     \* AUTOSAVE_KEY of this project in localStorage
    desk,       \* the mounted tab: its versions, currentId, draft, ...
    work,       \* the handlers in flight
    typed,      \* history: the text last typed and not put away since, ...
    unsafe,     \* ... and what may have removed it: a save, a report
    crossed     \* history: in this mount a new version met another or the list

deskVars == <<script, stage, seenStage, cached, desk, work, typed, unsafe, crossed>>

Creates == {"save", "import"}           \* kinds of handlers that make a version
Moves   == {"submit", "lock", "unlock"} \* and that move the project

\* `listing` is the list request: its answer is a prefix of the script.
DeskState == [mounted: BOOLEAN, versions: Seq(1..MaxVersions),
              current: 0..MaxVersions, draft: Drafts,
              listing: {"none", "asked", "ok"}, answer: 0..MaxVersions,
              listed: BOOLEAN, editor: BOOLEAN]

Unmounted == [mounted |-> FALSE, versions |-> <<>>, current |-> 0,
              draft |-> Empty, listing |-> "none", answer |-> 0,
              listed |-> FALSE, editor |-> FALSE]

Work == [on: BOOLEAN, kind: Creates, step: {"asked", "ok", "get"},
         body: Drafts, version: 0..MaxVersions,
         mine: BOOLEAN]       \* the tab that began it is still mounted

NoWork == [on |-> FALSE, kind |-> "save", step |-> "asked", body |-> Empty,
           version |-> 0, mine |-> FALSE]

locked  == seenStage = "script_locked"
canEdit == canEditProject(MyRole, IsOwner) /\ ~locked
current == Contains(desk.versions, desk.current)

isOnLatest == current /\ desk.current = Last(desk.versions)

\* `saving` until the handler ends, the dialog's `busy` until the import answers.
Busy(kind) ==
    \E h \in Slots :
        /\ work[h].on /\ work[h].mine /\ work[h].kind = kind
        /\ kind = "import" => work[h].step \in {"asked", "ok"}

\* setDraft, and the effect that writes a changed draft to localStorage.
SetDraft(text, new) ==
    /\ desk' = [new EXCEPT !.draft = text]
    /\ cached' = IF text # desk.draft /\ text # Empty THEN text ELSE cached

-----------------------------------------------------------------------------
\* The service: add_version, submit_script, lock_script, unlock_script.

\* Somebody else.
SomebodySaves(text) ==
    /\ Len(script) < MaxVersions
    /\ stage # "script_locked"
    /\ script' = Append(script, text)
    /\ stage' = IF stage = "idea" THEN "script_drafting" ELSE stage
    /\ UNCHANGED <<seenStage, cached, desk, work, typed, unsafe, crossed>>

MovesTo(kind) ==
    CASE kind = "submit" -> "script_review"
      [] kind = "lock"   -> "script_locked"
      [] kind = "unlock" -> "script_review"

Accepts(kind) ==
    CASE kind \in Creates  -> stage # "script_locked"
      [] kind = "submit"   -> stage = "script_drafting"
      [] kind = "lock"     -> stage \in {"script_drafting", "script_review"}
      [] kind = "unlock"   -> stage = "script_locked"

SomebodyMoves(kind) ==
    /\ Accepts(kind)
    /\ stage' = MovesTo(kind)
    /\ UNCHANGED <<script, seenStage, cached, desk, work, typed, unsafe, crossed>>

Serve(h) ==
    /\ work[h].on /\ work[h].step = "asked"
    /\ Accepts(work[h].kind) /\ Len(script) < MaxVersions
    /\ script' = Append(script, work[h].body)
    /\ stage' = IF stage = "idea" THEN "script_drafting" ELSE stage
    /\ work' = [work EXCEPT ![h].step = "ok", ![h].version = Len(script')]
    /\ UNCHANGED <<seenStage, cached, desk, typed, unsafe, crossed>>

-----------------------------------------------------------------------------
\* Mounting the tab, and its editor.

Mount ==
    /\ ~desk.mounted
    /\ desk' = [Unmounted EXCEPT !.mounted = TRUE, !.listing = "asked"]
    /\ crossed' = FALSE
    /\ UNCHANGED <<script, stage, seenStage, cached, work, typed, unsafe>>

Unmount ==
    /\ desk.mounted
    /\ desk' = Unmounted
    /\ work' = [h \in Slots |-> [work[h] EXCEPT !.mine = FALSE]]
    /\ crossed' = FALSE
    /\ UNCHANGED <<script, stage, seenStage, cached, typed, unsafe>>

\* The editor is made in an effect of the first render; setEditable then may
\* emit an update, and onUpdate hands the HTML it holds to setDraft.
EditorReady(reports) ==
    /\ desk.mounted /\ ~desk.editor
    /\ IF reports /\ desk.draft = Empty
       THEN /\ SetDraft(BlankDoc, [desk EXCEPT !.editor = TRUE])
            /\ unsafe' = IF typed = Empty THEN unsafe ELSE unsafe \cup {"report"}
       ELSE /\ desk' = [desk EXCEPT !.editor = TRUE]
            /\ UNCHANGED <<cached, unsafe>>
    /\ UNCHANGED <<script, stage, seenStage, work, typed, crossed>>

ServeList ==
    /\ desk.listing = "asked"
    /\ desk' = [desk EXCEPT !.listing = "ok", !.answer = Len(script)]
    /\ UNCHANGED <<script, stage, seenStage, cached, work, typed, unsafe, crossed>>

\* reload: the versions, and the draft from the autosave or else the latest.
DeliverList ==
    /\ desk.listing = "ok"
    /\ LET n   == desk.answer
           new == [desk EXCEPT !.listing = "none", !.answer = 0, !.listed = TRUE,
                               !.versions = [i \in 1..n |-> i]]
       IN  IF n = 0
           THEN desk' = new /\ UNCHANGED cached
           ELSE SetDraft(IF cached = None THEN script[n] ELSE cached,
                         [new EXCEPT !.current = IF @ = 0 THEN n ELSE @])
    /\ UNCHANGED <<script, stage, seenStage, work, typed, unsafe, crossed>>

FailList ==
    /\ desk.listing # "none"
    /\ desk' = [desk EXCEPT !.listing = "none", !.answer = 0]
    /\ UNCHANGED <<script, stage, seenStage, cached, work, typed, unsafe, crossed>>

-----------------------------------------------------------------------------
\* The person at the desk.

\* The editor takes input when it is editable: canEdit and on the latest.
Type(text) ==
    /\ desk.mounted /\ desk.editor /\ canEdit /\ isOnLatest
    /\ text # desk.draft
    /\ SetDraft(text, desk)
    /\ typed' = text
    /\ unsafe' = {"save" : h \in {g \in Slots : work[g].on /\ work[g].kind = "save"}}
    /\ UNCHANGED <<script, stage, seenStage, work, crossed>>

\* selectVersion replaces the text, and with it the autosave.
SelectVersion(v) ==
    /\ desk.mounted /\ Contains(desk.versions, v) /\ v # desk.current
    /\ SetDraft(script[v], [desk EXCEPT !.current = v])
    /\ typed' = Empty /\ unsafe' = {}
    /\ UNCHANGED <<script, stage, seenStage, work, crossed>>

\* The buttons and the dialog, as they are offered.
Offered(kind) ==
    /\ desk.mounted
    /\ CASE kind = "save"   -> canEdit /\ ~Busy("save") /\ desk.draft # Empty
         [] kind = "import" -> canEdit /\ ~Busy("import")
         [] kind = "submit" -> canEdit /\ seenStage = "script_drafting"
         [] kind = "lock"   -> /\ ~locked /\ MyRole \in SCRIPT_LOCKER_ROLES
                               /\ desk.versions # <<>>
         [] kind = "unlock" -> locked /\ MyRole \in SCRIPT_UNLOCKER_ROLES

Creating == {h \in Slots : work[h].on /\ work[h].step \in {"asked", "ok"}}

\* saveAsNewVersion, and submit of the import dialog.
Press(kind, body) ==
    /\ Offered(kind)
    /\ body \in IF kind = "save" THEN {desk.draft} ELSE Others
    /\ \E h \in Slots : ~work[h].on
    /\ work' = [work EXCEPT ![CHOOSE h \in Slots : ~work[h].on] =
                  [NoWork EXCEPT !.on = TRUE, !.kind = kind, !.body = body,
                                 !.mine = TRUE]]
    /\ crossed' = (crossed \/ Creating # {} \/ desk.listing # "none")
    /\ UNCHANGED <<script, stage, seenStage, cached, desk, typed, unsafe>>

\* submit, doLock and doUnlock, each with the getProject after it as one step:
\* they leave the tab alone (ProjectPage has their requests one by one).
Move(kind) ==
    /\ Offered(kind) /\ Accepts(kind)
    /\ stage' = MovesTo(kind)
    /\ seenStage' = stage'
    /\ UNCHANGED <<script, cached, desk, work, typed, unsafe, crossed>>

-----------------------------------------------------------------------------
\* The answers.

\* The new version goes to the end of the list and is current.
WithVersion(v) == [desk EXCEPT !.versions = Append(@, v), !.current = v]

\* Broken on purpose: the new version is put in front of the list.
AnswerInFront(h) ==
    /\ work[h].on /\ work[h].step = "ok"
    /\ CASE work[h].kind = "save" ->
              /\ desk' = IF work[h].mine
                         THEN [WithVersion(work[h].version) EXCEPT
                                 !.versions = <<work[h].version>> \o desk.versions]
                         ELSE desk
              /\ cached' = None
              /\ UNCHANGED <<typed, unsafe>>
         [] work[h].kind = "import" /\ work[h].mine ->
              /\ SetDraft(work[h].body, WithVersion(work[h].version))
              /\ typed' = Empty /\ unsafe' = {}
         [] OTHER -> UNCHANGED <<cached, desk, typed, unsafe>>
    /\ work' = [work EXCEPT ![h].step = "get", ![h].body = Empty, ![h].version = 0]
    /\ UNCHANGED <<script, stage, seenStage, crossed>>

\* A save removes the autosave whether or not its tab is still there; an import
\* replaces the text, in the tab that asked for it.
Answer(h) ==
    /\ work[h].on /\ work[h].step = "ok"
    /\ CASE work[h].kind = "save" ->
              /\ desk' = IF work[h].mine THEN WithVersion(work[h].version)
                                         ELSE desk
              /\ cached' = None
              /\ UNCHANGED <<typed, unsafe>>
         [] work[h].kind = "import" /\ work[h].mine ->
              /\ SetDraft(work[h].body, WithVersion(work[h].version))
              /\ typed' = Empty /\ unsafe' = {}
         [] OTHER -> UNCHANGED <<cached, desk, typed, unsafe>>
    /\ work' = [work EXCEPT ![h].step = "get", ![h].body = Empty, ![h].version = 0]
    /\ UNCHANGED <<script, stage, seenStage, crossed>>

\* getProject and onProjectUpdated (ProjectPage has what answers of these do to
\* each other).
Finish(h) ==
    /\ work[h].on /\ work[h].step = "get"
    /\ seenStage' = stage
    /\ work' = [work EXCEPT ![h] = NoWork]
    /\ UNCHANGED <<script, stage, cached, desk, typed, unsafe, crossed>>

\* Broken on purpose: the autosave of a save that fails is removed.
FailForgetting(h) ==
    /\ work[h].on
    /\ work' = [work EXCEPT ![h] = NoWork]
    /\ cached' = IF work[h].kind = "save" THEN None ELSE cached
    /\ UNCHANGED <<script, stage, seenStage, desk, typed, unsafe, crossed>>

\* Refused, or a request or its answer is lost: a toast.
Fail(h) ==
    /\ work[h].on
    /\ work' = [work EXCEPT ![h] = NoWork]
    /\ UNCHANGED <<script, stage, seenStage, cached, desk, typed, unsafe, crossed>>

-----------------------------------------------------------------------------
DeskInit ==
    /\ \/ script = <<>> /\ stage = "idea"
       \/ \E text \in Others : script = <<text>> /\ stage = "script_drafting"
    /\ seenStage = stage
    /\ cached = None
    /\ desk = Unmounted
    /\ work = [h \in Slots |-> NoWork]
    /\ typed = Empty /\ unsafe = {} /\ crossed = FALSE

Answering(h) == Serve(h) \/ Answer(h) \/ Finish(h) \/ Fail(h)

Listing == ServeList \/ DeliverList \/ FailList

DeskNext ==
    \/ \E text \in Others : SomebodySaves(text)
    \/ \E text \in Texts : Type(text)
    \/ \E kind \in Moves : SomebodyMoves(kind) \/ Move(kind)
    \/ Mount \/ Unmount
    \/ \E reports \in BOOLEAN : EditorReady(reports)
    \/ \E v \in 1..MaxVersions : SelectVersion(v)
    \/ \E kind \in Creates, body \in Drafts : Press(kind, body)
    \/ Listing
    \/ \E h \in Slots : Answering(h)

DeskSpec == DeskInit /\ [][DeskNext]_deskVars

-----------------------------------------------------------------------------
DeskTypeOK ==
    /\ script \in Seq(Bodies) /\ Len(script) =< MaxVersions
    /\ stage \in ScriptStages /\ seenStage \in ScriptStages
    /\ cached \in Bodies \cup {None}
    /\ desk \in DeskState
    /\ work \in [Slots -> Work]
    /\ typed \in Drafts /\ unsafe \subseteq {"save", "report"} /\ crossed \in BOOLEAN

\* A text that was typed is on the device or in the script until its author
\* puts it away (selectVersion, an import), however saves fail, versions race
\* and tabs come and go; with two exceptions, by name: a save that was in flight
\* while it was typed, whose answer removes the autosave, and the report of an
\* editor made since, which a tab that is opened again writes over it.
TypedTextIsKept ==
    typed # Empty /\ unsafe = {} => cached = typed \/ Contains(script, typed)

\* The list shows versions in their order and once, and its title names one of
\* them, if no version was made here while the list, or another one, was asked
\* for: isOnLatest, which opens the editor, takes the last of the list.
VersionsInOrder ==
    desk.mounted /\ desk.listed /\ ~crossed =>
        /\ \A i, j \in DOMAIN desk.versions :
              i < j => desk.versions[i] < desk.versions[j]
        /\ desk.versions # <<>> => current

\* Autosave drafts to local storage as a safety net: the text that was typed
\* and stands in the editor is on the device, or in the script.
AutosaveIsASafetyNet ==
    desk.mounted /\ desk.draft = typed /\ typed # Empty =>
        cached = typed \/ Contains(script, typed)

=============================================================================
