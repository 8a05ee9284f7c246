-------------------------------- MODULE Player --------------------------------
(***************************************************************************)
(* VideoReviewPlayer in the edits tab of one browser: the video under the  *)
(* chosen cut and the notes that are pinned to a moment of it.             *)
(*                                                                         *)
(* The player is not mounted anew when another cut is chosen.  It goes on  *)
(* showing the video it has until the link of the chosen one arrives, and  *)
(* for good if that request fails; the popover of a note, with the moment  *)
(* that was picked, stays open as well.                                    *)
(***************************************************************************)
EXTENDS Naturals, Sequences, SequencesExt

CONSTANTS
    Cuts,        \* ids
    MaxLinks,    \* bound on the requests for a link in flight
    MaxNotes     \* bound on the notes sent

NoCut == "no_cut"

ASSUME PlayerAssumption ==
    /\ Cuts # {} /\ NoCut \notin Cuts
    /\ MaxLinks \in Nat \ {0} /\ MaxNotes \in Nat

VARIABLES
    edit,      \* the chosen cut
    url,       \* the cut whose video is shown, NoCut for null
    links,     \* requests for a link in flight, oldest first
    popover,   \* the cut of the video the moment was picked in
    draft,     \* a text stands in the popover
    notes,     \* the notes sent: the cut they go to, the cut that was seen
    stuck,     \* history: the request for the chosen cut's link has failed
    astray     \* history: the open popover has outlived what it was opened on

playerVars == <<edit, url, links, popover, draft, notes, stuck, astray>>

Link == [cut: Cuts, cancelled: BOOLEAN]

Note == [cut: Cuts, seen: Cuts, astray: BOOLEAN,
         step: {"asked", "made", "ended", "failed"}]

\* The link of the chosen cut is on its way.
Waiting == \E i \in DOMAIN links : ~links[i].cancelled

-----------------------------------------------------------------------------
\* The link.

\* The effect on edit.id: what was asked before is cancelled.
ChooseCut(cut) ==
    /\ cut # edit /\ Len(links) < MaxLinks
    /\ edit' = cut
    /\ links' = Append([i \in DOMAIN links |-> [links[i] EXCEPT !.cancelled = TRUE]],
                       [cut |-> cut, cancelled |-> FALSE])
    /\ stuck' = FALSE
    /\ astray' = (popover # NoCut)
    /\ UNCHANGED <<url, popover, draft, notes>>

\* Broken on purpose: the link of a cut that is no longer chosen is shown.
AnyLinkAnswered(i) ==
    /\ url' = links[i].cut
    /\ links' = RemoveAt(links, i)
    /\ UNCHANGED <<edit, popover, draft, notes, stuck, astray>>

LinkAnswered(i) ==
    /\ url' = IF links[i].cancelled THEN url ELSE links[i].cut
    /\ links' = RemoveAt(links, i)
    /\ UNCHANGED <<edit, popover, draft, notes, stuck, astray>>

\* Nothing catches the failure.
LinkFailed(i) ==
    /\ links' = RemoveAt(links, i)
    /\ stuck' = (stuck \/ ~links[i].cancelled)
    /\ UNCHANGED <<edit, url, popover, draft, notes, astray>>

-----------------------------------------------------------------------------
\* A note.

\* onTimelineClick; there is a timeline once there is a video.
PickMoment ==
    /\ url # NoCut
    /\ popover' = url
    /\ astray' = (Waiting \/ stuck)
    /\ UNCHANGED <<edit, url, links, draft, notes, stuck>>

\* A click elsewhere keeps the text, Cancel does not.
PutAway(keeping) ==
    /\ popover # NoCut
    /\ popover' = NoCut
    /\ draft' = (draft /\ keeping)
    /\ astray' = FALSE
    /\ UNCHANGED <<edit, url, links, notes, stuck>>

WriteNote ==
    /\ popover # NoCut /\ ~draft
    /\ draft' = TRUE
    /\ UNCHANGED <<edit, url, links, popover, notes, stuck, astray>>

\* submitComment; nothing keeps it from being pressed again.
AddNote ==
    /\ popover # NoCut /\ draft /\ Len(notes) < MaxNotes
    /\ notes' = Append(notes, [cut |-> edit, seen |-> popover, astray |-> astray,
                               step |-> "asked"])
    /\ UNCHANGED <<edit, url, links, popover, draft, stuck, astray>>

\* Broken on purpose: the note goes to the cut that is chosen when it arrives.
NoteServedLate(n) ==
    /\ notes[n].step = "asked"
    /\ notes' = [notes EXCEPT ![n].step = "made", ![n].cut = edit]
    /\ UNCHANGED <<edit, url, links, popover, draft, stuck, astray>>

NoteServed(n) ==
    /\ notes[n].step = "asked"
    /\ notes' = [notes EXCEPT ![n].step = "made"]
    /\ UNCHANGED <<edit, url, links, popover, draft, stuck, astray>>

\* The answer clears and closes the popover, whatever stands in it by now.
NoteAnswered(n) ==
    /\ notes[n].step = "made"
    /\ notes' = [notes EXCEPT ![n].step = "ended"]
    /\ popover' = NoCut /\ draft' = FALSE /\ astray' = FALSE
    /\ UNCHANGED <<edit, url, links, stuck>>

\* Refused or lost: a toast, and the popover stays.
NoteFailed(n) ==
    /\ notes[n].step \in {"asked", "made"}
    /\ notes' = [notes EXCEPT ![n].step = IF @ = "made" THEN "ended" ELSE "failed"]
    /\ UNCHANGED <<edit, url, links, popover, draft, stuck, astray>>

-----------------------------------------------------------------------------
\* Mounted with the tab's current cut.
PlayerInit ==
    /\ edit = CHOOSE cut \in Cuts : TRUE
    /\ url = NoCut
    /\ links = <<[cut |-> edit, cancelled |-> FALSE]>>
    /\ popover = NoCut /\ draft = FALSE /\ notes = <<>>
    /\ stuck = FALSE /\ astray = FALSE

Linking == \E i \in DOMAIN links : LinkAnswered(i) \/ LinkFailed(i)

Noting ==
    \/ PickMoment \/ WriteNote \/ AddNote
    \/ \E keeping \in BOOLEAN : PutAway(keeping)
    \/ \E n \in DOMAIN notes : NoteServed(n) \/ NoteAnswered(n) \/ NoteFailed(n)

PlayerNext == (\E cut \in Cuts : ChooseCut(cut)) \/ Linking \/ Noting

PlayerSpec == PlayerInit /\ [][PlayerNext]_playerVars

-----------------------------------------------------------------------------
\* The shapes; a note is written on a video that is shown, and the player waits
\* for one link at a time.
PlayerTypeOK ==
    /\ edit \in Cuts /\ url \in Cuts \cup {NoCut}
    /\ links \in Seq(Link) /\ Len(links) =< MaxLinks
    /\ \A i \in DOMAIN links : ~links[i].cancelled => i = Len(links)
    /\ popover \in Cuts \cup {NoCut} /\ (popover # NoCut => url # NoCut)
    /\ draft \in BOOLEAN
    /\ notes \in Seq(Note) /\ Len(notes) =< MaxNotes
    /\ stuck \in BOOLEAN /\ astray \in BOOLEAN

\* However quickly cuts are chosen and in whatever order their links arrive,
\* the video is the chosen cut's once no link is awaited, unless the request
\* for that very link failed.
VideoIsOfTheChosen == ~Waiting /\ ~stuck => url = edit

\* A note is recorded under the cut whose video its author saw, unless the
\* moment was picked before the chosen cut's video was there or another cut was
\* chosen under the open popover.
NotesMeetTheirVideo ==
    \A n \in DOMAIN notes :
        notes[n].step \in {"made", "ended"} /\ ~notes[n].astray =>
            notes[n].cut = notes[n].seen

=============================================================================
