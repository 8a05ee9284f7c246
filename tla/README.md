# A TLA+ verification of the content pipeline

The repository is a content-management system for a video team: a FastAPI
service (`app/`) over PostgreSQL, a Next.js client with its own account server
(`frontend/`), an arq worker for push notifications, and object storage for
video. A *project* travels an eleven-stage pipeline from `idea` to
`approved_published`; people of six roles save scripts, scout locations, cast,
shoot, upload cuts and review them, and every change leaves an entry in an
activity trail.

The code is short. Two things about it are hard.

- Every endpoint of the service is a *load – decide – commit* over a session at
  READ COMMITTED that takes no row lock (`app/models/base.py:73-88`; no
  `with_for_update` anywhere in `app/`): the decision is made on a copy other
  requests may have overtaken by the commit.
- Every screen of the client keeps copies of rows in component state or in a
  query cache, sends requests that are not ordered among each other, and applies
  each answer when it comes: an answer may be older than what is shown, belong to
  what is no longer chosen, or come after the screen has gone.

The modules of the service model the first protocol once, put the endpoints on
top of it, and ask what survives every interleaving. The modules of the screens
ask what a browser shows and sends when its requests overlap, fail, or are
overtaken by somebody else's.

## 1. Inventory

The service:

| Part | State | Operations | What is hard | What makes it correct |
|---|---|---|---|---|
| Access control (`app/auth/dependencies.py`, the gates of the screens) | none (pure predicates of user, owner) | `_user_can_access_project`, `can_user_move_to_stage`, role gates; the screens' copies of them | the gate is evaluated on the loaded row | publishing is the CEO's alone; the screens offer what the service grants |
| Project store (`project_service.py`, `models/project.py`, `models/base.py`, `routes/projects.py`) | `projects` rows; the session of each request | create, update, move, soft-delete, restore | stale guards, column-wise UPDATE of a stale copy, delete against edit | no write reverts a column it does not own |
| Activity trail (`activity_service.py`) | `activities` rows | `record` in the caller's transaction; cursor feed | transactions commit in another order than `created_at` | the trail, in commit order, tells the row's history; the feed leaves out nothing that was there when its page was read, also among entries of one `created_at` |
| Script phase (`script_service.py`, `routes/scripts.py`) | `scripts`, `script_versions`, the lock columns of the project | save, import, submit, lock, unlock, comment | numbers by `max + 1`; a Drive download between load and write; lock against save | dense numbering, immutable versions, few versions while locked, lock audit |
| Locations, casting (`location_service.py`, `cast_service.py`) | `locations`, `cast_members` | create, confirm, delete, photos | confirming advances the stage after reading two tables | an advance has its evidence |
| Shoots (`shoot_service.py`) | `shoots` | schedule, start, wrap | the transition is validated on a stale status | the trail, in commit order, tells the state |
| Edit review (`edit_service.py`, `routes/edits.py`) | `edit_versions`, the stage of the project | init upload, finalise, approve, request changes, comment | two stale rows (cut and project) in one decision | dense numbering, evidence for approvals, a CEO's approval publishes unless it comes after another |
| One-time tokens, invitations (`frontend/src/server`) | `one_time_tokens`, `users` | mint, consume, invite, accept, reset, remove | mint races, the token is consumed before the password is stored | a token works once; old links are few and dead soon |
| Push subscriptions (`push_service.py`) | `push_subscriptions` | upsert, delete | find-or-insert without a constraint | one row per endpoint |
| Preferences, Drive connection, dashboard | one row per user; none | get-or-create, upsert; aggregations | insert races | one row per user |
| Push delivery (`queue_service.py`, `jobs/`) | the Redis queue | enqueue, deliver, retry, prune | nothing: `notify_user` has no caller, so no job is ever enqueued | – |

The client:

| Part | State | Operations | What is hard | What makes it correct |
|---|---|---|---|---|
| Kanban board (`useProjects.ts`, `ProjectsKanban.tsx`, `CreateProjectDialog.tsx`) | the query cache of one filter | list, optimistic move, rollback, create | a rollback to a snapshot older than another move; lists that answer in another order | at rest the cards are where the service has them |
| Project page (`projects/[id]/page.tsx`, `BriefTab.tsx`) | a copy of the project, a form | reload, save the brief | older copies arrive last; a form sends fields nobody typed | at rest it shows the browser's own work; a save takes back no more than came after its form |
| Activity tab (`ActivityFeed.tsx`) | pages of the feed, a cursor | load, turn the page | entries appear out of order while pages are read; pages end among entries of one `created_at` | what is shown is complete down to the cursor |
| List tabs (`LocationTab`, `CastingTab`, `ShootTab`) | a list, the handlers under way, uploads | create, confirm, delete, attach, tick | reloads that are not awaited, uploads of several files, a checklist sent whole | no file is recorded before its upload has returned; own writes are shown |
| Script tab (`ScriptTab`, `ScriptEditor`, `ScriptComments`) | the list of versions, the draft, its autosave in local storage | save, import, choose, submit, lock, comment | a save in flight under typing; lists that answer late | what was typed is kept; comments belong to what is chosen |
| Edits tab (`EditsTab`, `UploadDialog`, `resumable-upload.ts`, `VideoReviewPlayer`, `EditComments`) | the list of cuts, the dialog with its runs, the player, notes | upload in chunks, finalise, cancel, review, note | partial chunks, a cancelled run that goes on, a video that is not the chosen cut's | a recorded cut is whole and single; uploads end; notes meet their video |
| Sign-in and session (`auth.ts`, `middleware.ts`, the layouts and forms) | claims in a cookie, the session the tab fetched | sign in and out, accept, reset, change the password, redirect | claims are read at sign-in only; every read of the session sets the cookie again; middleware and effects decide on different copies | claims are current; redirections end |
| Push switch (`PushSettings`, `push.ts`) | the browser's subscription, the card in each tab | enable, disable | browser and service are two stores and one request apart | the registry matches the browser |
| Notification switches (`NotificationPrefsCard`) | the card | optimistic toggle | toggles that overlap; rollback of the whole card | at rest the card shows the row |

Service and client meet in the `projects` row: every phase writes its `stage`,
every write is recorded in the trail in the same transaction, and every screen
that writes shows the copy its answer carries.

## 2. Modules

```
Access ─┬► ProjectStore ──┬─► ScriptPhase ──► MCScriptPhase
        │         │       │       │  INSTANCE VersionLog (refinement)
        │         │       ├─► EditReview ───► MCEditReview
        │         │       │       │  INSTANCE VersionLog (refinement)
        │         │       └─► PreProduction ► MCPreProduction
        │         ├─► MCProjectStore
        │         └─► StoreProofs ──┬─► VersionProofs       (+ ScriptPhase, EditReview)
        │             (+ Gates)     └─► PreProductionProofs (+ PreProduction)

AuthTokens ────────────────────────────────────────────► MCAuthTokens

ProjectRows, Gates ─┬► Board ───────┬► ProjectScreens ─► MCProjectScreens
                    ├► ProjectPage ─┤
        ActivityFeed ───────────────┘
ListTabs ──────────────────────────────────────────────► MCListTabs
Desk (+ Gates), CommentPanels, Player ─► Workbench ────► MCWorkbench
Upload, CutTab (+ Gates) ──────────────► EditsDesk ────► MCEditsDesk
Session, PushCard, PrefsCard ──────────► Account ──────► MCAccount

ProjectScreens ► ScreensProofs    ListTabs ► ListTabsProofs    Workbench ► WorkbenchProofs
EditsDesk ► EditsDeskProofs       Account, AuthTokens ► AccountProofs
```

### The service

**`Access`** — `CanAccess` is `_user_can_access_project`, `CanMoveTo` is
`can_user_move_to_stage`; `AdminRoles` and `DirectorRoles` are the role gates of
the routes. Owner and creator are constants: one project is modelled and no
handler reassigns `owner_id`. **`Gates`** holds the copies the screens decide by
(`frontend/src/lib/enums.ts`).

**`ProjectStore`** — the committed row `project`, the committed trail `trail`
and, for each request in flight, what its session holds (`req`). `Open` is the
access dependency: it loads the row. An endpoint decides on `Loaded(r)` and ends
in `Commit`, which merges the assigned columns into the *current* row: a column
is sent only when its assigned value differs from the *loaded* one, which is
what SQLAlchemy emits, and the row and its entries become visible at once. A
request that is refused, disconnected or fails ends in `Leave`. PostgreSQL's row
locks make the writers of a row wait for each other until commit, so one atomic
step per commit keeps every outcome. `lockedAt` stands for `script_locked_at`:
it holds the position of the lock's entry in the trail, so that stamps are
distinct, as two `datetime.now()` are. `title` stands for the columns `PATCH`
edits. An entry's `to` is its metadata's `to`, or the stage its action implies.

**`ScriptPhase`** — adds `versions`, `current` and `pin`. `NumberVersion` and
`SaveVersion` are the two halves of `add_version`: the SELECT of the highest
number and the commit, between which other requests commit, guarded by the
unique constraint. Saving a text and importing a document are the same steps
(the download only widens the window). `FindLatest` and `SubmitScript` are the
two halves of `submit_script`. A lock and an unlock need nothing but the row.

**`EditReview`** — adds `cuts`, `held` (the number or the stale copy of the cut
a request holds) and the history `approvals`: who approved which cut, how much of
the trail the request had read when it loaded its project, and which entry of the
trail is its own. `NumberCut` / `FinaliseCut` are
`add_edit_version`; `LoadCut`, `LoadProjectOfCut`, then `ApproveCut`,
`ApproveAgain` (the early return) or `RequestChanges` are the review routes,
which load the cut first and the project after it. `MergeCut` is the flush of
the cut, `Approved` what a committed approval leaves in the history; a request that
returns early commits nothing and leaves nothing.

**`PreProduction`** — adds `child`, the rows of `locations`, `cast_members` and
`shoots` under one set of ids (the three services are the same shape), `held`,
the copy of a row a request works on, and the history `told`, the state the last
committed entry about a row recorded. `LoadChild` and `LoadProjectOfChild` are
`_load_..._and_project`: row first, project second. `UpdateChild`, `AttachFile`,
`DeleteChild`, `ConfirmLocation`, `Unconfirm` and `TransitionShoot` are one
commit each. Confirming a cast member of a project in casting takes three steps,
`FindLocation`, `ReadCast` and `ConfirmCast`, because the service runs two
queries after flushing its UPDATE: other rows change between them, this row does
not, as its lock is held (`Working`). An UPDATE of a deleted row fails, a DELETE
of one does not. A confirmation that changes nothing returns early and is a
`LeavePre`. Contact data, dates and file names are one abstract `detail`; photos
are entries of the trail here, and rows in `ListTabs`.

**`AuthTokens`** — the account server keeps its own pool of connections and meets
the rest of the system only in the account rows, so it is a module of its own. It
keeps `users`, `tokens`, how far each `call` of a route has come, and the history
`grants`. Every statement or transaction of a route commits by itself and is an
action: `FindInvitee` then `CreateInvitee` or `ReviveInvitee` (the SELECT of
`findOrCreateInvitedUser` and its INSERT or UPDATE, which also revives an accepted
account before refusing it), `Resend`, `RequestReset`, `VerifyPassword` and
`FindTarget` (the look at the account) before the statement it permits.
`FindEarlier` and `MintToken` are `mintToken`: what its DELETE sees when it
starts, and the commit, by which a concurrent mint may have inserted a row this
DELETE never sees; as PostgreSQL does, it waits for a row another call has locked
and evaluates its WHERE clause again. `ReadToken` takes the FOR UPDATE lock and
`ConsumeToken` ends that transaction; `StorePassword` comes after it, so a call
may stop (`LeaveCall`) with the link used up. `acceptedWith` and `password`
stand for `accepted_at` and `password_hash` and hold what set the column last: a
token, the owner, or the seed script. An expired token, a refusal, a password
that cannot be hashed and a dropped connection are all `LeaveCall`: the clock
adds nothing but a call that stops. Names, roles and avatars are left out.

**`VersionLog`** — the abstract promise of a numbered history: entries are
appended, belong to their author forever, and keep the stamp they were given.
Script versions and cuts are shown to implement it, with a refinement mapping
each.

### The screens

A screen is modelled as one browser sees it. What the service holds is a `log`
of committed states (the last is current), so that a copy is written as the
number of the commit it was read at and "older" is a comparison of numbers. A
request is asked, served and answered in three steps, in any order among
requests, and may fail at each of them. A handler that outlives its component
goes on, and its `setState` calls reach nothing. Somebody else commits at any
time. What another module has in detail is one step here: the service's own
races are the subject of the modules above.

Properties of the form "at rest the screen shows …" have to say when they do
not hold, since nothing in the client puts answers in order. A *history variable*
records that: `clean`, `apart` (no two requests have met since the last answer
that came alone), `crossed`, `met`, `drifted`, `stuck`, `astray`, `excuse`,
`slips`. Each is set by the very step that makes the exception and, where the
code recovers, cleared by the step that recovers; no guard reads one.

**`ProjectRows`** — the rows of `projects` after each commit. **`Board`** — `Drop`
moves a card at once and keeps the list before it, `MoveDone` puts the answered row
in its place, `MoveFailed` puts the whole list back; lists are asked for on each
change of the filter and replace what is shown when they arrive. **`ProjectPage`** —
the page's copy, which the answer of any tab replaces even when that tab is gone,
and the brief, whose fields are read at mounting (`FormOf`) and sent all together,
null for an empty one (`PatchedBrief` is what the service makes of it). The form has
two histories: the fields somebody typed into, and the commits its own saves made.

**`ActivityFeed`** — the rows of `activities` and the tab that reads them. An entry
is its `created_at` and its id, which is what `list_for_project` orders by. A
transaction takes `now()` when it begins (`Begin`) and gives it to each entry it
records, so that the two entries of an upload that moves the project have the same
(`CommitEntries`); ids are uuids, so any free ones in any order. `Below` is the
WHERE clause of the cursor and `FeedPage` the page with its `limit + 1`. The
history `owed` is what the reads of the tab could find: all that was committed
when the first page was read, and all that was below the cursor when a further one
was. The trail of this module has no actions or actors, as that of `ProjectStore`
has no times: neither reads what the other has.

**`ProjectScreens`** runs one of the three: the board or the page over the rows of
`projects`, or the feed over those of `activities`.

**`ListTabs`** — the location, casting and shoot tabs, one of them mounted, over
the rows of their lists. A handler of a row sends its requests one after another,
then calls `onChanged`, which is not awaited, so `reloads` overlap; the create
form alone waits for its own. An upload of several photos goes file by file:
session, bytes, finalise, and the next one whatever became of this one. `PutBytes`
is `performResumableUpload` as one step: it returns with the object whole, or short
of what was sent, since it takes a 308 for a chunk that was stored and returns
after one on the last chunk too (`Upload` has the loop chunk by chunk).
`ToggleGear` sends the whole checklist as the row shows it. The thumbnail of a
release is loaded once for its row.

**`Desk`** — the script tab: the list of versions, the draft with its copy in
local storage (`cached`), and the handlers that save, import, submit, lock and
unlock. `SetDraft` is `setDraft` with the effect that writes the autosave;
`EditorReady` is the editor made in an effect of the first render; `setEditable`
after it may emit an update, which reports an empty document, and the autosave is
overwritten with that. The history `unsafe` names what may have removed a typed
text: "save", one that was in flight while it was typed, and "report", that of an
editor made since. `Answer` removes the autosave of a save wherever its
tab is by then. **`CommentPanels`** — the comments under a version and under a
cut, two components that differ in whether choosing cancels the load before.
**`Player`** — the video and its notes: the player is not mounted anew when
another cut is chosen, so the video, the link on its way and the moment picked in
an open popover can each be of another cut. **`Workbench`** puts the three side
by side.

**`Upload`** — the dialog and its runs. A run asks for a session, puts the file
chunk by chunk (`PutMore` is a 308 answer, `PutFinal` a 200 or 201), has the cut
recorded and tells the dialog. `Kept` is the storage: it may keep less than it
was sent. `Cancel` aborts the run's controller and makes the dialog idle, while a
request that is out goes on; `LeaveTab` takes the dialog away and leaves the run.
**`CutTab`** — the list of cuts and the review buttons, which have no busy flag.
**`EditsDesk`** — the two together: a run that finalises has its cut recorded in
the service, and its end puts the cut into the list of a tab that is still there.

**`Session`** — the row of the user, the claims in the cookie, the session the
tab fetched last, and the page it is at. `Middleware` is the redirection of a
request by the cookie; `HomeEffect` and `LayoutEffect` are those of the pages, by
the session. Every read of the session signs the claims it was sent and sets the
cookie again (`SessionAnswered`). A handler is the list of its requests
(`Requests`), and may fail at each. **`PushCard`** — the browser's subscription,
the cards in its tabs, and the rows of the registry: `ServeUpsert` and `Insert`
are the SELECT and the INSERT of `upsert_subscription`. **`PrefsCard`** — the
switches, each shown at once, sent alone, answered with the whole row and put
back with the whole card. **`Account`** runs one of the three.

A composed module whose parts share nothing while they run (`Workbench`,
`EditsDesk`, `Account`, `ProjectScreens`) has a variable, `part` or `screen`,
that says which of them a behaviour follows: the parts rest otherwise, and their
product would add states and no behaviour.

Operators commented "Broken on purpose" are deliberate bugs used to confirm that
a property can fail; no specification uses them.

## 3. What the runs check

- **store** – three racing requests, four roles. `StageMatchesTrail`: the last
  entry naming a stage names the row's, although writers are stale.
  `PublishedByCeo`. `ChangesAreAudited`: no column changes without an entry about
  it, so no stale writer reverts another's column, and the trail is append-only.
- **script** – two racing requests. `VersionsDense`; `LockHasEvidence` (the stamp
  is that of a lock's entry and the name that of somebody who locked);
  `LateVersionsBounded` (fewer versions slip into a lock than there are requests
  in flight); the refinement `ImplementsVersionLog`.
- **edit** – two racing requests. `CutsDense`, `ApprovalHasEvidence`,
  `CeoApprovalPublishes`: an approval a CEO commits has the stage change to
  published, by the same CEO, right before its own entry, unless the request found
  the project published; and a CEO's request that is about to return early does so
  on that very cut's approval, which the trail had when the request loaded its
  project. The refinement `ImplementsCutLog`.
- **preproduction** – two racing requests on a location and a shoot.
  `ChildMatchesTrail`: the last entry about a row, in the order of the commits,
  tells its state, although confirmations and transitions are decided on copies. (The
  feed sorts by `created_at`, the start of the transaction: a confirmation that began
  before an unconfirmation and commits after it leaves a confirmed row under a feed
  whose top entry says unconfirmed.) `ChildChangesAreAudited`:
  no stale request reverts a column of a row it did not set out to change.
- **casting** – from a project in casting with a location and two cast members,
  nothing confirmed (`CastingSpec`, a state `PreSpec` reaches through the board
  and the create endpoints). `AdvanceHasEvidence`: however the checks of a
  confirmation interleave, an advance has a confirmation of a location behind it.
- **auth** – two calls at a time on the CEO's account and a teammate's.
  `TokenUsedOnce`. `AcceptanceHasEvidence`: an acceptance was made with a link of
  that very account, which stays on record. `PasswordMeansAccepted`: a row has a
  password exactly when it was accepted, although resets and changes are decided
  on earlier rows. `FirstAcceptanceStands`: a second live link does not overwrite
  `accepted_at`. `StaleTokensBounded`: racing mints leave no more live links than
  there are mints in flight, since the next mint takes them all away.
- **tabs** – two handlers and two reloads of the list tabs. `RecordedFilesWereSent`:
  whichever request of whichever file fails, no file is recorded, or shown, before
  its own upload has returned; that its bytes are whole nothing in the code
  ensures. `RestShowsOwnWrites`: at rest the list shows every write the
  browser was told of. `TickLostToOldListOnly`: a box somebody else ticked is lost
  only to a checklist built from a list older than that tick.
- **screens** – the board with two moves, lists and a create in flight, the page of
  a project, while somebody else commits, or its feed. `RestShowsTheBoard`: a drop
  that failed leaves no trace, one that succeeded is not undone, and no card stands
  twice. `RestShowsOwnWork`. `SaveRevertsLaterChangesOnly`: a save changes a field
  nobody typed into only if a commit that is none of this form's has changed it
  after the copy the form was filled in from; with fields kept from an earlier visit
  of the tab it would take back more. `FeedIsComplete`, with two transactions at a
  time, of one or two entries each, and pages of one entry: wherever a page ends,
  also between two entries of one `created_at`, the feed shows its entries once and
  in order and leaves out, down to its cursor, none that was committed when the page
  it belongs to was read. With a cursor of `created_at` alone it would skip the rest
  of a transaction.
- **workbench** – `TypedTextIsKept`: a typed text is on the device or in the
  script until its author puts it away, however saves fail, versions race and tabs
  come and go, with two exceptions: a save that was in flight while it was typed,
  whose answer removes the autosave, and the report of an editor made since, which
  overwrites the autosave when the tab is opened again; both are among the claims
  that fall, below. `VersionsInOrder`. `RestShowsTheChosen`: comments belong to the
  version or cut that is chosen. `VideoIsOfTheChosen`; `NotesMeetTheirVideo`: a
  note is recorded under the cut whose video its author saw.
- **edits_desk** – two runs of one dialog, or two reviews. `RecordedCutsAreWhole`:
  every byte of a recorded cut is stored if the storage keeps what it
  acknowledges. `OneFileOneCut`, `PhaseTellsTheTruth`, `CutsInOrder`: the three
  exceptions are a lost answer, a tab that is left, a cancelled run with a request
  out. `UploadSettles`: every upload ends and frees the dialog, which refuses to
  close until then.
- **account** – `ClaimIsCurrent`: who has changed the password is not sent to
  change it again, with the ways it may still happen named. `PinnedTabArrives`: no
  pair of redirections goes on for ever. `RegistryMatchesBrowser`: at rest one row
  for the browser's subscription, of the signed-in user, and none for any other.
  `RestShowsThePrefs`.

One run finds a claim false:

- **draft_lost** – "Autosave drafts to local storage as a safety net"
  (`implementation_plan.md:311`): the answer of a save removes the autosave of
  what was typed while the save was in flight (`ScriptTab.tsx:112`).
  `AutosaveIsASafetyNet` is violated by: type, save, type on, answer.

More claims fall, in behaviours the passing runs contain. What holds in spite of
each of them is named in brackets.

- "Cannot add a version while the script is locked" (`script_service.py`): a save
  that loaded the project before the lock commits into the locked script, and the
  board takes a locked project elsewhere so that the next save goes in without an
  unlock (`LateVersionsBounded`).
- Two locks, each UPDATE sending only the columns that differ from its loaded
  copy, leave a row whose `script_locked_by` and `script_locked_at` may belong to
  two users (`LockHasEvidence`).
- A submission decided before a lock takes the locked script back to review for
  somebody who may not unlock (`StageMatchesTrail`).
- "Cannot request changes on an approved cut": a change request decided before
  the approval takes it back (`ApprovalHasEvidence`).
- "CEO approves final cut": approving is a no-op on an approved cut, so a CEO's
  approval after an assistant director's publishes nothing and answers success
  (`CeoApprovalPublishes`, for that very cut and no other).
- The safety net again, without any save: type, leave the tab and open it. The new
  editor is ready before the list, `setEditable` (`ScriptEditor.tsx:52`) emits an
  update, as it does in Tiptap unless it is told not to, and the empty document it
  reports overwrites the autosave (`ScriptTab.tsx:98`), which the list then reads
  back as the draft. The model leaves open if there is a report (`EditorReady`);
  `TypedTextIsKept` excuses one as "report".
- A photo, a release or a call sheet is "uploaded" when its loop has returned, which
  it also does after a 308 on the last chunk (`resumable-upload.ts:64-72`): the row
  can name an object that lacks bytes (`RecordedFilesWereSent`).
- A feed of what happened to a row need not end with its state, as it sorts by the
  start of the transaction and the row follows the commits
  (`ChildMatchesTrail`); and an entry that commits above the cursor after its page
  was read is missing until the feed is loaded again (`FeedIsComplete`).
- "When every cast member on a project is confirmed AND a location is confirmed,
  the project auto-advances": nothing advances if the location is confirmed last,
  as only `confirm_cast_member` checks, nor if two last confirmations do not see
  each other; and what the two queries saw may change before the commit
  (`AdvanceHasEvidence`).
- A second start, decided before the first start and the wrap, takes a shoot back
  from `wrapped`, "Forward-only — there's no path back from WRAPPED"
  (`ChildMatchesTrail`).
- "'resend invite' / 'I forgot again' never leaves stale tokens lying around": two
  mints at once, and the earlier link stays alive (`StaleTokensBounded`).
- "Tokens cascade-delete via FK" (`frontend/src/server/users.ts:131`): the account
  is only marked deleted, so its links stay, and one that is used sets a password
  on the removed account (`AcceptanceHasEvidence`; signing in asks for an active
  account).
- `PATCH` has PATCH semantics (`app/schemas/project.py:33`) and takes null for
  "not sent"; the brief sends null for a description that was cleared
  (`BriefTab.tsx:52`), which therefore stays (`PatchedBrief`).
- A person who may not edit and opens a script on a device that holds an autosave
  is shown that text in place of the version (`ScriptTab.tsx:76`, `DeliverList`).
- The head of `resumable-upload.ts` speaks of a resumable session and the plan of
  308 answers and retries: a chunk that fails ends the run, the next one starts
  over, and the range a 308 answer names is not read (`RecordedCutsAreWhole`
  excuses it as "short"; `OneFileOneCut`).
- A read of the session that is answered after signing out sets the cookie again
  (`SessionAnswered`, "overtaken").
- The thumbnail of a release shows the first form its row had, not the one that
  replaced it (`CastingTab.tsx:338`, `Thumbnails`).
- The answer of a note clears the popover and with it a note begun meanwhile
  (`VideoReviewPlayer.tsx:91`, `NoteAnswered`).

### Type invariants

Each module states one, for the reader and for a TLC run of one's own; the runs
spend their time on properties that could be wrong. All of them are proved: each
is part of an inductive invariant of section 4, or follows from one.

### Bounds

`Requests` is the number of requests between load and commit at one moment, not
in total: slots are reused, so a run holds arbitrarily many requests one after
the other. Two are enough for every race of a stale decision against a commit;
the store run has three, so that a decision can be overtaken twice.
`MaxTrail` (4 to 10) bounds the committed writes, enough for one full cycle of
each phase and one overtaking commit; `MaxVersions` and `MaxCuts` (1 or 2) give
each number two contenders and a successor. A location and a shoot exercise every
row operation, as cast members differ from locations only in confirming; that is
what the casting run has two of, so that "all" and "one" differ, and it starts
in casting so that the bound is spent there. The pre-production runs have one
user: access is the other runs' subject. The account-server run has four tokens,
its only bound: enough for two racing mints, a third that cleans up after them,
and a reset beside an invitation. The CEO's account is seeded and the teammate's
is not, which makes both ways an account begins. `Targets` holds one stage that
matters to the phase and the published one; `Titles` has two values where `PATCH`
is under test. The teams hold each role that takes a different branch.

The screens' runs have two handlers (drags, calls, toggles, reviews) and two
reloads or list requests at a time: overtaking takes two, and the third finds the
same two kinds of copies. `MaxCommits` (2 or 3) gives an answer a predecessor and
a successor; the player has three links, so that a cancelled one can arrive
between two others. The board has two projects and two columns, of which the
assistant director may drop into each. A page of the feed holds one entry
(`PageSize`), so that every entry is a boundary; four entries (`Ids`) make two
transactions of two, and three moments (`MaxTime`) one before and one after the
moment two of them share. An upload has two chunks, a first
and a last, and two runs, as a third meets the second as the second met the first.
`MaxReads` is one read of the session beside those of the handler, which is
enough to be older than what it meets. The registry has two endpoints, two tabs
and two users. Gear, photos and texts come in twos, so that "this one" and
"another" differ.

Requests are interchangeable (`SYMMETRY` in the service's runs, and for the slots of
handlers and of requests in the workbench, whose `CHOOSE` takes any slot that is
free); users are not, as roles differ. The list tabs start with rows that are there
and with empty lists. Every bound is a guard. In the service's runs a bounded
behaviour ends in `Leave`. The screens' runs say `CHECK_DEADLOCK FALSE` where the
program itself may come to rest: a person has left every tab and used up the
commits, the runs or the notes of the bound, every request is answered, and
nothing more is offered.

### Fairness

The service's modules assume none: nothing in them retries, and the only waits
are for row locks, which end with the holder's call. Two runs do.

- `EditsFairness`: each run of an upload takes its next step. A request is
  answered, or the browser reports it as failed; what the code does with the
  answer is not left to chance. Persons owe nothing: nobody has to cancel or start.
- `AccountFairness`: effects of a mounted page run, reads of the session and the
  requests of a handler are answered or fail. Nobody has to click.

### Assumptions

- READ COMMITTED, `autoflush=False`, `expire_on_commit=False`: guards read the
  loaded copy to the end of the request.
- Roles do not change between a request's load and its commit. A re-invitation
  can change a role (`frontend/src/server/users.ts:183-190`); `AuthTokens` leaves
  roles out and the projects' modules fix them.
- The service's modules have one project: no handler writes two.
- A component's `setState` after it is unmounted does nothing; effects run in the
  order of their commits; `startTransition` and concurrent rendering are not used.

## 4. What is proved

With TLAPS, for every value of the constants: every team, owner, set of stages,
rows and texts, any number of requests, cuts, links, drags, tabs, chunks and
commits. Every invariant and every action property a passing run checks is a
theorem of the specification that run checks, or of each part of it. A theorem
shows for all sizes what the run shows for one; the run shows that the formula
says something on states that occur.

What is assumed of the constants is named in the module that declares them, and
TLC evaluates it on every run:

- the team and the store: users, roles and stages are those of the code, marks
  such as `NoUser` are none of the things they stand beside (`AccessAssumption`,
  `StoreAssumption`, `PreAssumption`, `AuthAssumption`, `NoFieldAssumption`, and
  in `DeskAssumption`, `PlayerAssumption`, `PanelAssumption`);
- what there is one of in any use is not empty: titles, details, passwords,
  comments, projects, columns, cuts, rows; a file has a chunk, a page an entry, a
  list a place for one request (`SessionAssumption`, `UploadAssumption`,
  `PageAssumption`, `BoardAssumption`, `TabsAssumption`, `CutAssumption`,
  `FeedAssumption`);
- bounds are natural numbers (`ScriptAssumption`, `EditAssumption`,
  `MaxEndpointsAssumption` and those above);
- the rows a screen begins with are rows, and every field has its texts
  (`RowsAssumption`, `TabsAssumption`);
- what is counted is finite: handlers, drags, comments, projects, calls, entries
  (`TabsAssumption`, `BoardAssumption`, `PanelAssumption`, `RowsAssumption`,
  `AuthAssumption`, `FeedAssumption`); `ScriptLateVersionsBounded` assumes it of the
  requests.

### The service

`StoreProofs` defines `HonestCommit`: a commit that names the stage it assigns
last, publishes only on a CEO's behalf, and has an entry for each column it
changes. The lemmas show that an honest commit preserves `StoreInv`
(`StoreTypeOK`, `StageMatchesTrail`, `PublishedByCeo`) and satisfies
`AuditedStep` *whatever row it was decided on*: if the assigned stage equals the
loaded one the row keeps its stage and the trail its last word, and if not both
take the assigned one. No fact about how stale the copy is enters the proof,
which is why the invariant survives. What remains for each endpoint is that its
commit is honest. The module also shows that the screens' gates grant what the
service grants, for every role, owner and stage (`ScreensMirrorMoves`,
`ScreensMirrorEdits`, `ScreensMirrorRoles`).

`VersionProofs` reuses that for the two parts that keep numbered versions. For
the script it proves `VersionsDense`. That one is not inductive alone: a save
inserts the number it read before, so the invariant is strengthened with
`PinsAreReachable` (a request holds a number between 1 and the highest plus one,
and one it may not insert when it is taken) and `PinsAreLoaded` (a pinned
submission decided in drafting). `LockHasEvidence` rests on two facts about a
step: entries stay (`EntriesStay`), and a commit that does not lock leaves the
pair of columns or clears both (`SameLock`). `LateVersionsBounded` is proved for
any finite number of requests by counting those that may still save into a lock
(`Armed`: in flight, with a row loaded while the script was not locked). A version
that slips in takes one of them, the locking request has ended, and while a lock
stands the stage of the row is `script_locked` (`StageMatchesTrail`), so nobody
who loads it is armed; hence versions so far plus armed requests stay below the
number of requests (`SlotsAreSpent`). `ScriptImplementsVersionLog` shows the
initial predicate and every step to be a step of the log or a stutter under the
refinement mapping.

For cuts, `CutsDense` mentions a maximum chosen from the cuts, so the induction
carries its existence (`CutsAreNumbered`). `ApprovalHasEvidence` needs
`HoldsAreReachable`: an approver a request has read is still there, so merging the
column it does not change cannot clear it. `CeoApprovalPublishes` needs three facts
more (`ToldInv`): an approval in the history names entries of the trail, which stay,
and a CEO's among them is published where it says (`ApprovalTold`); a cut that reads
approved has its approval in the history (`CutTold`); and what a request holds was
approved by the entries it had read when it loaded its project (`SessionTold`).
`EditImplementsCutLog` is the second refinement.

`PreProductionProofs` needs `ChecksInCasting` besides the types: a request that runs
the checks loaded the project in casting, so the stage change it records starts
where it says. `ChildMatchesTrail` rests on the early returns: they make sure that a
confirmation or transition assigns a state other than the loaded one, so the column
is always sent and the row takes the state the entry names, whatever the row's state
has become since. Without them the column would be left out and the last committed
entry would tell a state the row does not have. `AdvanceHasEvidence` carries
`EvidenceInv`: a location whose row says confirmed, and a request whose first check
found one, have a confirmation in the trail; entries stay, so the second check and
the commit may come as late as they like.

`AccountProofs` (its last part) states what each call of the account server relies
on until its next step (`Fits`): the account it found is still there, the account
a reset or a change is for is accepted, the token it holds is in the state it
read. `LocksExclude` says that FOR UPDATE admits one consumer of a token; with it
another call's step leaves those facts alone. The rest of `AuthInv` ties the
tokens to the accounts (`TokensHaveAccounts`) and the history to the tokens
(`GrantsCountConsumptions`, from which `TokenUsedOnce` follows). A step is shown to
make the accounts grow and nothing else (`UsersGrow`: an account stays, an
acceptance stays, password and acceptance come together), which is what every call
in flight needs of it. `StaleTokensBounded` is a count over sets of calls
(`RoomFor`): the live links that some of the calls about to delete will not
delete, and those calls themselves, are together no more than there are calls. A
call that looks dooms all there are; one that mints adds a link and leaves every
such set. With the empty set the formula is the property.

### The screens

Two ideas carry these proofs. The *log only grows*, so whatever a request carries
away from it (the commit it was read at, the row it was built from) stays true
until the request is answered. And *a request that has met no other was alone all
along*, so between its start and its answer nothing has been told to the screen:
that is what the history variables record, and why the properties "at rest" hold.

`ScreensProofs` proves the board, the page and the feed. `LoneLoad` and `OneAtATime`
say who may be in flight when nothing has met; `CardsStand` says what the cards are
then, with a card that is dragged: the list before it, patched. A move that fails
puts that list back, one that succeeds moves the card to where the row was
committed, not before the last answer about it. `CallsSafe` is the same for the
page: an answer is no older than the change it follows, and that of a lone request
no older than anything the page was told of. `ScreensSaveReverts` is the action
property and needs `AsFilled`: a field nobody typed into holds what stood at the
copy the form was filled in from, and a save in flight carries it, so a column that
the save changes has changed since; and this form's own saves put that same value
there or left the column alone. The feed is read in the order of `created_at` and
id, which is not the order of the commits. `Listed` says that the list is sorted,
lies at or above the cursor and has there everything the feed owes; `PageIsRight`
says the same of a page on its way, of what lay below its cursor when it was read.
`Before` is total on the entries, as their ids differ, so a page ends at one of them
and the next begins right below it.

`ListTabsProofs` carries `FilesWereSent` over every commit, not only the last, and
`Fits` for every handler: an upload has a session for each of its files and
finalises only one whose upload has returned; a checklist is that of the list it was
built from with one box changed, which gives `TickLostToOldListOnly`. `Lone` and
`ShowsTheAcked` give `RestShowsOwnWrites`; `Room` shows that a reload always finds
its place in the bound.

`WorkbenchProofs` proves the desk, the panels and the player each by itself.
`Kept` says where a typed text is that is in no version: in the autosave, and
nothing else may stand in the editor or be on its way in a save (`TypedTextIsKept`);
it is claimed where `unsafe` is empty, so the theorem, too, leaves out a text that was
typed during a save and one under which a new editor has reported.
`InTurn` says that, unless requests have met, one handler at most will put a
version at the end of the list, and that its version is behind all of them. Of the
panels, `Lone` covers the one difference between them, that one cancels the load
it replaces; `OneCall` and `Settled` say what is shown with a call under way and
without. The player's invariant says that the one link that is not cancelled is the
chosen cut's, and that an open popover that is not astray was opened on it.
`WorkbenchIsItsParts` shows each behaviour of the three side by side to be one of
each, so `WorkbenchIsSafe` has the five properties there.

`EditsDeskProofs` says of a run of an upload what it has stored by how far it has
come (`AsFarAs`), and what ties it to the dialog unless a cancelled run has gone on:
one run of the dialog's own, which the controller belongs to (`OneOfItsOwn`), the
file that is chosen (`FileStays`), and a file of a recorded cut that leaves the
dialog with its run (`FileGoes`): from these, `OneFileOneCut`. The list is kept in
order by `Numbers`: a cut that was made and is not yet in the list is none of the
list's and comes after them. `EditsRefineUploads` shows that each step of the tab
with its dialog is a step of `Upload` or leaves it alone, so that what is proved of
the uploads is proved once.

`AccountProofs` takes the session, the push switch and the notification switches
one by one. `OnItsWay` says which requests a handler at work can still have before
it; an old claim in the cookie has a recorded reason or is the handler's that has
changed the password and not signed out yet (`ClaimHasReason`). `OnCourse` fixes,
for each step of the one handler that is at work while nothing has slipped, where
the browser and the rows are. The invariant of the switches ties the card to the
row through the requests that are out, and says of a toggle that met no other what
its answer and its rollback would show. `AccountIsItsParts` and `AccountIsSafe` put
the three together.

### Only model-checked

- `UploadSettles` and `PinnedTabArrives`: liveness under fairness, and with it
  ENABLED, is out of the prover's reach.
- `AutosaveIsASafetyNet` is false, and its run shows it.
- That the bounds do not hide a behaviour: they are guards of the model, and the
  theorems hold for every value of them.

No module declares a RECURSIVE operator. `LatestFirst` is a choice of a sorted
sequence rather than a call of a sorting operator, which the prover cannot look
into.

## 5. Not modelled, and the plan

- **Push delivery**: `notify_user` has no caller in the repository and
  `queue_service.enqueue` none besides it, so the worker never has a job to retry,
  lose or repeat. A model would be one of code that does not run.
- **Dashboard, Google Drive connection, storage and e-mail adapters**: reads that
  change no state, one upsert of a row, and thin calls of external services. What
  the storage keeps of an upload is in `Upload`, the import of a document in
  `ScriptPhase` and `Desk`.
- **Team page**: a list that is reloaded after each action, as in `ListTabs`; the
  requests behind it are the calls of `AuthTokens`.
- **Sign-in with Google**, the signatures of tokens, the first read of the
  preferences (which inserts their row), names, roles and avatars of accounts.
- Form fields of the list tabs, the diff of two versions, playback, the ui kit,
  rendering, validation of request bodies, configuration, migrations: no protocol
  of their own.

What is left, in this order:

1. The fairness-free half of the two liveness properties, as theorems: a measure
   that every step of a run of an upload decreases, and the pages a pinned tab can
   be sent to.
2. The team page and its invite dialog against `AuthTokens`; the dashboard's
   aggregations against a reference definition on bounded trails.
