------------------------------ MODULE ListTabs ------------------------------
(***************************************************************************)
(* The three list tabs of the project page as they run in one browser:     *)
(* LocationTab, CastingTab and ShootTab of frontend/src/features.          *)
(*                                                                         *)
(* The page keeps one tab mounted.  A mounted tab shows the list of its    *)
(* last answered reload; a handler of a row sends its requests one after   *)
(* another and then asks for a reload without waiting for it, so answers   *)
(* of reloads may overtake each other.  Leaving the tab forgets what it    *)
(* shows and not what it has set going.                                    *)
(***************************************************************************)
EXTENDS Naturals, Sequences, SequencesExt, FiniteSets

CONSTANTS
    Locations, Cast, Shoots,  \* ids of the rows of the three lists
    Gear,           \* items on the gear checklist of a shoot
    Handlers,       \* slots for the handlers running in this browser
    Seeds,          \* the rows a reader may find: functions from ids to Row
    MaxChosen,      \* bound: photos chosen at once
    MaxCommits,     \* bound: commits of this screen and of all others
    MaxObjects,     \* bound: upload sessions opened
    MaxReloads      \* bound: reloads in flight

Rows == Locations \cup Cast \cup Shoots
Tabs == {"location", "casting", "shoot"}

RowsOf(t) == CASE t = "location" -> Locations
               [] t = "casting"  -> Cast
               [] t = "shoot"    -> Shoots

\* confirmed of locations and cast members, status of shoots; `files` are the
\* photos of a location, the release of a cast member, the call sheet.
Row == [life: {"unborn", "live", "deleted"},
        status: {"open", "confirmed", "scheduled", "in_progress", "wrapped"},
        gear: SUBSET Gear, files: SUBSET (1..MaxObjects)]

\* One file can be chosen at least, and a tab asks for its list once at least.
ASSUME TabsAssumption ==
    /\ Rows # {} /\ Seeds \subseteq [Rows -> Row] /\ IsFiniteSet(Handlers)
    /\ MaxChosen \in Nat \ {0} /\ MaxReloads \in Nat \ {0}
    /\ MaxCommits \in Nat /\ MaxObjects \in Nat

Kinds == {"create", "confirm", "unconfirm", "delete", "start", "wrap", "gear",
          "upload", "delete_photo"}

VARIABLES
    log,       \* the committed rows after each commit; the last are current
    stored,    \* what the storage has of each object
    opened,    \* how many upload sessions were opened
    tab,       \* the tab that is mounted
    seen,      \* the commit its list shows, 0 while the list is null
    reloads,   \* the list requests of the mounted tab in flight, oldest first
    handler,   \* the event handlers at work
    thumb,     \* the thumbnail of each cast member's release
    acked,     \* history: the latest commit this tab was told of
    clean      \* history: since the last lone reload, none failed or met

tabVars == <<log, stored, opened, tab, seen, reloads, handler, thumb, acked,
             clean>>

Idle == [on |-> FALSE, kind |-> "create", row |-> CHOOSE r \in Rows : TRUE,
         step |-> "asked", holder |-> "none", item |-> {}, gear |-> {},
         base |-> 0, object |-> 0, left |-> 0, won |-> 0, commit |-> 0]

Handler ==
    [on: BOOLEAN, kind: Kinds, row: Rows,
     step: {"asked", "put", "finalise", "ok", "reloading"},
     holder: {"row", "list", "none"},  \* the component its setState reaches
     item: SUBSET Gear,                \* the box ticked or unticked
     gear: SUBSET Gear,                \* the checklist it sends
     base: 0..MaxCommits + 1,          \* the commit it was built from
     object: 0..MaxObjects, left: 0..MaxChosen, won: 0..MaxChosen,
     commit: 0..MaxCommits + 1]        \* the commit its request made

Reload == [answer: 0..MaxCommits + 1,  \* the commit it read, 0 before that
           awaited: BOOLEAN,           \* onCreate waits for it
           met: BOOLEAN]               \* another one was in flight with it

\* An upload is open until performResumableUpload returns; then the storage has
\* the whole object, or falls short of what it was sent.
Ended == {f \in 1..MaxObjects : stored[f] # "open"}

Current == log[Len(log)]
Shown   == log[seen]

IsShown(r) == seen # 0 /\ r \in RowsOf(tab) /\ Shown[r].life = "live"

Busy(r) == \E h \in Handlers :
              handler[h].on /\ handler[h].row = r /\ handler[h].holder = "row"

Creating == \E h \in Handlers : handler[h].on /\ handler[h].kind = "create"
                                /\ handler[h].holder = "list"

Live == {h \in Handlers : handler[h].on /\ handler[h].holder # "none"}

NoThumb == [status |-> "unmounted", form |-> 0]

Thumb == [status: {"unmounted", "loading", "shown", "errored"},
          form: 0..MaxObjects]

-----------------------------------------------------------------------------
\* The service, as far as these tabs use it.

Permits(kind, row) ==
    CASE kind = "create"       -> row.life = "unborn"
      [] kind = "start"        -> row.life = "live" /\ row.status = "scheduled"
      [] kind = "wrap"         -> row.life = "live" /\ row.status = "in_progress"
      [] kind = "delete_photo" -> row.life = "live" /\ row.files # {}
      [] OTHER                 -> row.life = "live"

Changed(kind, row, gear, files) ==
    CASE kind = "create"    -> [row EXCEPT !.life = "live"]
      [] kind = "delete"    -> [row EXCEPT !.life = "deleted"]
      [] kind = "confirm"   -> [row EXCEPT !.status = "confirmed"]
      [] kind = "unconfirm" -> [row EXCEPT !.status = "open"]
      [] kind = "start"     -> [row EXCEPT !.status = "in_progress"]
      [] kind = "wrap"      -> [row EXCEPT !.status = "wrapped"]
      [] kind = "gear"      -> [row EXCEPT !.gear = gear]
      [] OTHER              -> [row EXCEPT !.files = files]

KindsFor(r) ==
    CASE r \in Locations -> {"confirm", "unconfirm", "delete"}
      [] r \in Cast      -> {"confirm", "unconfirm", "delete"}
      [] r \in Shoots    -> {"start", "wrap", "delete"}

Write(r, row) ==
    /\ Len(log) =< MaxCommits
    /\ log' = Append(log, [Current EXCEPT ![r] = row])

\* Somebody else, on a screen that is up to date.
SomebodyElse(r) ==
    /\ \/ \E kind \in KindsFor(r) :
              /\ Permits(kind, Current[r])
              /\ Changed(kind, Current[r], {}, {}) # Current[r]
              /\ Write(r, Changed(kind, Current[r], {}, {}))
       \/ /\ r \in Shoots /\ Current[r].life = "live"
          /\ \E g \in Gear :
                Write(r, Changed("gear", Current[r],
                                 SymDiff(Current[r].gear, {g}), {}))
    /\ UNCHANGED <<stored, opened, tab, seen, reloads, handler, thumb, acked,
                   clean>>

-----------------------------------------------------------------------------
\* Mounting, and the reloads.

FirstReload == [answer |-> 0, awaited |-> FALSE, met |-> FALSE]

\* One more list request; it and those in flight have met.
WithReload(awaited) ==
    Append([i \in DOMAIN reloads |-> [reloads[i] EXCEPT !.met = TRUE]],
           [answer |-> 0, awaited |-> awaited, met |-> reloads # <<>>])

\* The other tab unmounts (one at a time: what the tab before it left behind has
\* ended by then, a bound).  What it set going runs on, its setState calls and
\* the answers of its reloads do nothing any more.
OpenTab(t) ==
    /\ t # tab /\ \A h \in Handlers : handler[h].on => h \in Live
    /\ tab' = t
    /\ seen' = 0
    /\ reloads' = <<FirstReload>>
    /\ handler' = [h \in Handlers |->
                     IF handler[h].step \in {"ok", "reloading"} THEN Idle
                     ELSE [handler[h] EXCEPT !.holder = "none"]]
    /\ thumb' = [c \in Cast |-> NoThumb]
    /\ acked' = 0
    /\ clean' = TRUE
    /\ UNCHANGED <<log, stored, opened>>

ServeReload(i) ==
    /\ reloads[i].answer = 0
    /\ reloads' = [reloads EXCEPT ![i].answer = Len(log)]
    /\ UNCHANGED <<log, stored, opened, tab, seen, handler, thumb, acked, clean>>

\* The create handler that awaits reload i goes on to its finally block.
Released(i) ==
    [h \in Handlers |->
        IF reloads[i].awaited /\ handler[h].step = "reloading"
        THEN Idle ELSE handler[h]]

\* A thumbnail is mounted with the first release its row shows and loads once;
\* the effect depends on the id of the cast member alone.
Thumbnails(list) ==
    [c \in Cast |->
        IF ~(tab = "casting" /\ list[c].life = "live" /\ list[c].files # {})
        THEN NoThumb
        ELSE IF thumb[c] = NoThumb THEN [NoThumb EXCEPT !.status = "loading"]
        ELSE thumb[c]]

\* A row that left the list takes its component with it, busy flag included.
DeliverReload(i) ==
    /\ reloads[i].answer # 0
    /\ seen' = reloads[i].answer
    /\ handler' = [h \in Handlers |->
                     IF Released(i)[h].holder = "row"
                        /\ log[reloads[i].answer][handler[h].row].life # "live"
                     THEN [handler[h] EXCEPT !.holder = "list"]
                     ELSE Released(i)[h]]
    /\ thumb' = Thumbnails(log[reloads[i].answer])
    /\ reloads' = RemoveAt(reloads, i)
    /\ clean' = ~reloads[i].met
    /\ UNCHANGED <<log, stored, opened, tab, acked>>

\* The catch clause of reload: a toast, and the list stays as it was.
FailReload(i) ==
    /\ reloads' = RemoveAt(reloads, i)
    /\ handler' = Released(i)
    /\ clean' = FALSE
    /\ UNCHANGED <<log, stored, opened, tab, seen, thumb, acked>>

LoadThumbnail(c) ==
    /\ thumb[c].status = "loading"
    /\ \/ /\ Current[c].life = "live"
          /\ \E f \in Current[c].files :
                thumb' = [thumb EXCEPT ![c] = [status |-> "shown", form |-> f]]
       \/ thumb' = [thumb EXCEPT ![c].status = "errored"]
    /\ UNCHANGED <<log, stored, opened, tab, seen, reloads, handler, acked, clean>>

-----------------------------------------------------------------------------
\* The handlers of a row and of the create form.

Begin(new) ==
    /\ \E h \in Handlers : ~handler[h].on
    /\ Len(reloads) + Cardinality(Live) < MaxReloads
    /\ handler' = [handler EXCEPT ![CHOOSE h \in Handlers : ~handler[h].on] = new]
    /\ UNCHANGED <<log, stored, tab, seen, reloads, thumb, acked, clean>>

\* What the card of a row lets a person press, while its row is not busy.
Switch(r) == IF Shown[r].status = "confirmed" THEN "unconfirm" ELSE "confirm"

LocationCard(r) == {Switch(r), "delete", "upload"}
                   \cup IF Shown[r].files = {} THEN {} ELSE {"delete_photo"}

CastCard(r) == {Switch(r), "delete", "upload"}

ShootCard(r) ==
    {"delete", "upload"} \cup
    CASE Shown[r].status = "scheduled"   -> {"start", "gear"}
      [] Shown[r].status = "in_progress" -> {"wrap", "gear"}
      [] OTHER                           -> {}

Offered(r, kind) ==
    /\ IsShown(r) /\ ~Busy(r)
    /\ kind \in CASE r \in Locations -> LocationCard(r)
                  [] r \in Cast      -> CastCard(r)
                  [] r \in Shoots    -> ShootCard(r)

RowHandler(r, kind) ==
    [Idle EXCEPT !.on = TRUE, !.kind = kind, !.row = r, !.holder = "row"]

\* onCreate of the form above the list; its button is disabled while creating.
Create(r) ==
    /\ ~Creating
    /\ r \in RowsOf(tab) /\ Current[r].life = "unborn"
    /\ \A k \in Handlers : handler[k].on => handler[k].row # r
    /\ Begin([RowHandler(r, "create") EXCEPT !.holder = "list"])
    /\ UNCHANGED opened

CreateLocation(r) == r \in Locations /\ Create(r)
CreateCast(r)     == r \in Cast /\ Create(r)
CreateShoot(r)    == r \in Shoots /\ Create(r)

Press(r, kinds) ==
    /\ \E kind \in kinds : Offered(r, kind) /\ Begin(RowHandler(r, kind))
    /\ UNCHANGED opened

\* toggleConfirmed and onDelete, onDeletePhoto; toggle and onDelete; action.
PressLocation(r) == r \in Locations /\ Press(r, {"confirm", "unconfirm", "delete"})
DeletePhoto(r)   == r \in Locations /\ Press(r, {"delete_photo"})
PressCast(r)     == r \in Cast /\ Press(r, {"confirm", "unconfirm", "delete"})
PressShoot(r)    == r \in Shoots /\ Press(r, {"start", "wrap", "delete"})

\* Broken on purpose: the request names the ticked box alone.
TickAlone(r, g) ==
    /\ Offered(r, "gear")
    /\ Begin([RowHandler(r, "gear") EXCEPT !.item = {g}, !.base = seen,
                    !.gear = {g} \ Shown[r].gear])
    /\ UNCHANGED opened

\* toggleGear: the whole checklist, as the row shows it, with one box changed.
ToggleGear(r, g) ==
    /\ Offered(r, "gear")
    /\ Begin([RowHandler(r, "gear") EXCEPT !.item = {g}, !.base = seen,
                    !.gear = SymDiff(Shown[r].gear, {g})])
    /\ UNCHANGED opened

\* The upload handlers: n files, one after the other.
Upload(r, n) ==
    /\ Offered(r, "upload")
    /\ opened + n =< MaxObjects
    /\ opened' = opened + n
    /\ Begin([RowHandler(r, "upload") EXCEPT !.step = "put",
                    !.object = opened + 1, !.left = n])

UploadPhotos(r)    == r \in Locations /\ \E n \in 1..MaxChosen : Upload(r, n)
UploadRelease(r)   == r \in Cast /\ Upload(r, 1)
UploadCallSheet(r) == r \in Shoots /\ Upload(r, 1)

-----------------------------------------------------------------------------
\* The requests of a handler.

Step(h, new) ==
    /\ handler' = [handler EXCEPT ![h] = new]
    /\ UNCHANGED <<opened, tab, seen, reloads, thumb, acked, clean>>

\* The request has succeeded, at commit n.  A tab that is gone does not care.
Succeeded(current, n) ==
    IF current.holder = "none" THEN Idle
    ELSE [Idle EXCEPT !.on = TRUE, !.kind = current.kind, !.row = current.row,
                      !.holder = current.holder, !.step = "ok", !.commit = n]

\* A single request: confirm, start, PATCH, DELETE, POST.  A photo goes by id.
Serve(h) ==
    /\ handler[h].on /\ handler[h].step = "asked"
    /\ Permits(handler[h].kind, Current[handler[h].row])
    /\ LET row == Current[handler[h].row]
       IN  \E kept \in IF handler[h].kind = "delete_photo"
                       THEN {row.files \ {f} : f \in row.files}
                       ELSE {row.files} :
              Write(handler[h].row,
                    Changed(handler[h].kind, row, handler[h].gear, kept))
    /\ Step(h, Succeeded(handler[h], Len(log')))
    /\ UNCHANGED stored

\* The server refuses, or the request or its answer is lost: a toast, and the
\* busy flag is cleared.  The list is not reloaded.
Throw(h) ==
    /\ handler[h].on /\ handler[h].step \in {"asked", "ok"}
    /\ Step(h, Idle)
    /\ UNCHANGED <<log, stored>>

\* The init request opens an upload session, which changes no row, and
\* performResumableUpload returns.  It takes a 308 for a chunk that was stored in
\* full, and returns after one on the last chunk too, so bytes may be missing.
PutBytes(h) ==
    /\ handler[h].on /\ handler[h].step = "put"
    /\ \E kept \in {"whole", "short"} :
          stored' = [stored EXCEPT ![handler[h].object] = kept]
    /\ Step(h, [handler[h] EXCEPT !.step = "finalise"])
    /\ UNCHANGED log

\* On to the next file of the loop, or out of it: a reload if one succeeded.
NextFile(current, won, commit) ==
    IF current.left > 1
    THEN [current EXCEPT !.step = "put", !.object = @ + 1, !.left = @ - 1,
                         !.won = won, !.commit = commit]
    ELSE IF won > 0 THEN Succeeded(current, commit) ELSE Idle

\* A release form or a call sheet replaces the one before it.
Finalise(h) ==
    /\ handler[h].on /\ handler[h].step = "finalise"
    /\ LET r   == handler[h].row
           own == {handler[h].object}
       IN  /\ Current[r].life = "live"
           /\ Write(r, Changed("upload", Current[r], {},
                         IF r \in Locations THEN Current[r].files \cup own
                                            ELSE own))
    /\ Step(h, NextFile(handler[h], handler[h].won + 1, Len(log')))
    /\ UNCHANGED stored

\* Broken on purpose: a photo whose bytes did not arrive is finalised as well.
FailFileAndGoOn(h) ==
    /\ handler[h].on /\ handler[h].step = "put"
    /\ Step(h, [handler[h] EXCEPT !.step = "finalise"])
    /\ UNCHANGED <<log, stored>>

\* One file fails: a toast, and the loop goes on with the next one.
FailFile(h) ==
    /\ handler[h].on /\ handler[h].step \in {"put", "finalise"}
    /\ Step(h, NextFile(handler[h], handler[h].won, handler[h].commit))
    /\ UNCHANGED <<log, stored>>

\* Broken on purpose: the answer of a request that succeeded is dropped.
ReturnQuietly(h) ==
    /\ handler[h].on /\ handler[h].step = "ok"
    /\ handler' = [handler EXCEPT ![h] = Idle]
    /\ acked' = handler[h].commit
    /\ UNCHANGED <<log, stored, opened, tab, seen, reloads, thumb, clean>>

\* The rest of the handler: onChanged() without await, or `await reload()` of
\* onCreate, then the busy flag.
Return(h) ==
    /\ handler[h].on /\ handler[h].step = "ok"
    /\ reloads' = WithReload(handler[h].kind = "create")
    /\ acked' = IF handler[h].commit > acked THEN handler[h].commit ELSE acked
    /\ clean' = (clean /\ reloads = <<>>)
    /\ handler' = [handler EXCEPT ![h] =
                     IF @.kind = "create" THEN [@ EXCEPT !.step = "reloading"]
                                          ELSE Idle]
    /\ UNCHANGED <<log, stored, opened, tab, seen, thumb>>

-----------------------------------------------------------------------------
TabsInit ==
    /\ \E seed \in Seeds :
          /\ log = <<seed>>
          /\ stored = [f \in 1..MaxObjects |->
                         IF \E r \in Rows : f \in seed[r].files THEN "whole"
                                                               ELSE "open"]
    /\ opened = Cardinality(Ended)
    /\ tab \in Tabs
    /\ seen = 0
    /\ reloads = <<FirstReload>>
    /\ handler = [h \in Handlers |-> Idle]
    /\ thumb = [c \in Cast |-> NoThumb]
    /\ acked = 0
    /\ clean = TRUE

Pressing ==
    \E r \in Rows :
        \/ CreateLocation(r) \/ PressLocation(r) \/ DeletePhoto(r) \/ UploadPhotos(r)
        \/ CreateCast(r) \/ PressCast(r) \/ UploadRelease(r)
        \/ CreateShoot(r) \/ PressShoot(r) \/ UploadCallSheet(r)
        \/ \E g \in Gear : ToggleGear(r, g)

Advance(h) ==
    \/ Serve(h) \/ Throw(h) \/ PutBytes(h) \/ Finalise(h) \/ FailFile(h)
    \/ Return(h)

Answering ==
    \E i \in DOMAIN reloads : ServeReload(i) \/ DeliverReload(i) \/ FailReload(i)

TabsNext ==
    \/ \E t \in Tabs : OpenTab(t)
    \/ \E r \in RowsOf(tab) : SomebodyElse(r)
    \/ Pressing
    \/ \E h \in Handlers : Advance(h)
    \/ Answering
    \/ \E c \in Cast : LoadThumbnail(c)

TabsSpec == TabsInit /\ [][TabsNext]_tabVars

-----------------------------------------------------------------------------
TabsTypeOK ==
    /\ log \in Seq([Rows -> Row]) /\ Len(log) \in 1..MaxCommits + 1
    /\ stored \in [1..MaxObjects -> {"open", "short", "whole"}]
    /\ opened \in 0..MaxObjects
    /\ tab \in Tabs
    /\ seen \in 0..Len(log)
    /\ reloads \in Seq(Reload) /\ Len(reloads) =< MaxReloads
    /\ handler \in [Handlers -> Handler]
    /\ thumb \in [Cast -> Thumb]
    /\ acked \in 0..Len(log) /\ clean \in BOOLEAN

\* A file is recorded, or shown as a thumbnail, only when its own upload has
\* returned, whichever request of whichever file of the choice failed: the
\* storage has all of it, unless it fell short of what it had answered to
\* (performResumableUpload looks at no Range header).
RecordedFilesWereSent ==
    /\ \A r \in Rows : Current[r].files \subseteq Ended
    /\ \A c \in Cast : thumb[c].status = "shown" => thumb[c].form \in Ended

\* At rest the list shows every write this screen was told had succeeded,
\* unless a reload failed or overlapped another since the last one that ran
\* alone (onChanged is called after each action, and not awaited).
RestShowsOwnWrites ==
    Live = {} /\ reloads = <<>> /\ clean => seen >= acked

\* A box of the checklist changes only for somebody who clicked that box, or
\* under a PATCH whose whole checklist was built from a list older than the
\* latest change of the shoot.
TickLostToOldListOnly ==
    [][ \A r \in Shoots, h \in Handlers :
          /\ handler[h].kind = "gear" /\ handler[h].row = r
          /\ handler'[h].commit # handler[h].commit
          /\ SymDiff(Current'[r].gear, Current[r].gear) \ handler[h].item # {}
          => Current[r].gear # log[handler[h].base][r].gear
      ]_tabVars

=============================================================================
