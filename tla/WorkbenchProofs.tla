--------------------------- MODULE WorkbenchProofs ---------------------------
(***************************************************************************)
(* Proofs about what one browser shows under a chosen version: the script  *)
(* tab, the comments and the player.  Their steps leave one another alone, *)
(* so each is proved of its own specification, and the workbench is all    *)
(* three.                                                                  *)
(***************************************************************************)
EXTENDS Workbench, SequenceTheorems, FiniteSetTheorems, TLAPS

(***************************************************************************)
(* The review player, for any cuts, any number of links and notes in       *)
(* flight: whatever the order their answers come in, the video that stays  *)
(* is the chosen cut's, and a note is recorded under the cut whose video   *)
(* was seen.                                                               *)
(***************************************************************************)
\* The link that is awaited is the chosen cut's.
LinksFollow ==
    \A i \in DOMAIN links : ~links[i].cancelled => links[i].cut = edit

\* A popover that has outlived nothing was opened on the chosen cut's video.
PopoverFollows == popover # NoCut /\ ~astray => popover = edit

\* A note is sent to the cut that was seen; the answers do not change that.
NotesFollow ==
    \A n \in DOMAIN notes : ~notes[n].astray => notes[n].cut = notes[n].seen

PlayerInv ==
    /\ PlayerTypeOK
    /\ LinksFollow
    /\ VideoIsOfTheChosen
    /\ PopoverFollows
    /\ NotesFollow

-----------------------------------------------------------------------------
\* Sequences.

\* What is left of a sequence when its i-th element is taken out.
LEMMA TakingOut ==
    ASSUME NEW S, NEW s \in Seq(S), NEW i \in DOMAIN s
    PROVE  /\ RemoveAt(s, i) \in Seq(S)
           /\ Len(RemoveAt(s, i)) = Len(s) - 1
           /\ \A j \in DOMAIN RemoveAt(s, i) :
                 /\ j \in DOMAIN s /\ j + 1 \in DOMAIN s
                 /\ j < i => RemoveAt(s, i)[j] = s[j]
                 /\ j >= i => RemoveAt(s, i)[j] = s[j + 1]
<1> DEFINE a == SubSeq(s, 1, i - 1)
           b == SubSeq(s, i + 1, Len(s))
<1>1. Len(s) \in Nat /\ i \in 1 .. Len(s) /\ DOMAIN s = 1 .. Len(s)
  OBVIOUS
<1>2. /\ a \in Seq(S) /\ Len(a) = i - 1
      /\ \A j \in 1 .. i - 1 : a[j] = s[j]
  BY <1>1, SubSeqProperties
<1>3. /\ b \in Seq(S) /\ Len(b) = Len(s) - i
      /\ \A j \in 1 .. Len(s) - i : b[j] = s[i + j]
  BY <1>1, SubSeqProperties
<1> DEFINE c == a \o b
<1>4. RemoveAt(s, i) = c
  BY DEF RemoveAt
<1> HIDE DEF a, b
<1>5. /\ c \in Seq(S) /\ Len(c) = Len(a) + Len(b)
      /\ \A j \in 1 .. Len(a) + Len(b) :
            c[j] = IF j =< Len(a) THEN a[j] ELSE b[j - Len(a)]
  BY <1>2, <1>3, ConcatProperties
<1> HIDE DEF c
<1>6. Len(c) = Len(s) - 1 /\ DOMAIN c = 1 .. Len(s) - 1
  BY <1>1, <1>2, <1>3, <1>5
<1>7. ASSUME NEW j \in 1 .. Len(s) - 1
      PROVE  /\ j \in DOMAIN s /\ j + 1 \in DOMAIN s
             /\ j < i => c[j] = s[j]
             /\ j >= i => c[j] = s[j + 1]
  <2>1. j < i => c[j] = s[j]
    BY <1>1, <1>2, <1>3, <1>5
  <2>2. ASSUME j >= i PROVE c[j] = s[j + 1]
    <3> DEFINE k == j - (i - 1)
    <3>1. /\ k \in 1 .. Len(s) - i /\ i + k = j + 1
          /\ j \in 1 .. Len(a) + Len(b) /\ ~(j =< Len(a))
          /\ k = j - Len(a)
      BY <1>1, <1>2, <1>3, <2>2
    <3>2. c[j] = b[k]
      BY <1>5, <3>1
    <3>3. b[k] = s[i + k]
      BY <1>3, <3>1
    <3> QED
      BY <3>1, <3>2, <3>3
  <2> QED
    BY <1>1, <2>1, <2>2
<1> QED
  BY <1>4, <1>5, <1>6, <1>7

\* Taking out a link keeps the shape of the rest: each comes from the links that
\* were there, the awaited one is still the last, and only it can go missing.
LEMMA LinkGone ==
    ASSUME PlayerTypeOK, LinksFollow, NEW i \in DOMAIN links,
           links' = RemoveAt(links, i), edit' = edit
    PROVE  /\ links' \in Seq(Link) /\ Len(links') =< MaxLinks
           /\ \A j \in DOMAIN links' : ~links'[j].cancelled => j = Len(links')
           /\ LinksFollow'
           /\ links[i].cancelled /\ Waiting => Waiting'
           /\ ~links[i].cancelled => ~Waiting'
<1>1. /\ links \in Seq(Link) /\ Len(links) \in Nat /\ Len(links) =< MaxLinks
      /\ MaxLinks \in Nat /\ DOMAIN links = 1 .. Len(links)
      /\ \A j \in DOMAIN links : ~links[j].cancelled => j = Len(links)
  BY PlayerAssumption DEF PlayerTypeOK
<1>2. /\ links' \in Seq(Link) /\ Len(links') = Len(links) - 1
      /\ DOMAIN links' = 1 .. Len(links) - 1
      /\ \A j \in DOMAIN links' :
            /\ j \in DOMAIN links /\ j + 1 \in DOMAIN links
            /\ j < i => links'[j] = links[j]
            /\ j >= i => links'[j] = links[j + 1]
  <2> DEFINE rest == RemoveAt(links, i)
  <2>1. /\ rest \in Seq(Link) /\ Len(rest) = Len(links) - 1
        /\ \A j \in DOMAIN rest :
              /\ j \in DOMAIN links /\ j + 1 \in DOMAIN links
              /\ j < i => rest[j] = links[j]
              /\ j >= i => rest[j] = links[j + 1]
    BY <1>1, TakingOut
  <2> HIDE DEF rest
  <2>2. DOMAIN rest = 1 .. Len(links) - 1
    BY <1>1, <2>1
  <2>3. links' = rest
    BY DEF rest
  <2> QED
    BY <2>1, <2>2, <2>3
<1>3. ASSUME NEW j \in DOMAIN links', ~links'[j].cancelled
      PROVE  /\ j = Len(links') /\ links'[j].cut = edit
             /\ links[i].cancelled
  BY <1>1, <1>2, <1>3 DEF LinksFollow
<1>4. ASSUME links[i].cancelled, Waiting
      PROVE  Waiting'
  <2>1. PICK k \in DOMAIN links : ~links[k].cancelled
    BY <1>4 DEF Waiting
  <2>2. k = Len(links) /\ k # i
    BY <1>1, <1>4, <2>1
  <2>3. k - 1 \in DOMAIN links' /\ links'[k - 1] = links[k]
    BY <1>1, <1>2, <2>2
  <2> QED
    BY <2>1, <2>3 DEF Waiting
<1> QED
  BY <1>1, <1>2, <1>3, <1>4 DEF LinksFollow, Waiting

-----------------------------------------------------------------------------
\* The steps of the link.

\* Another cut is chosen: its link is asked for and is the one awaited.
LEMMA ChooseCutStep ==
    ASSUME PlayerInv, NEW cut \in Cuts, ChooseCut(cut)
    PROVE  PlayerInv'
<1> DEFINE dropped == [i \in DOMAIN links |-> [links[i] EXCEPT !.cancelled = TRUE]]
           asked == [cut |-> cut, cancelled |-> FALSE]
<1>1. /\ links \in Seq(Link) /\ Len(links) \in Nat /\ Len(links) < MaxLinks
      /\ MaxLinks \in Nat /\ DOMAIN links = 1 .. Len(links)
  BY PlayerAssumption DEF PlayerInv, PlayerTypeOK, ChooseCut
<1>2. /\ DOMAIN dropped = 1 .. Len(links)
      /\ \A i \in 1 .. Len(links) : dropped[i] \in Link /\ dropped[i].cancelled
  <2>1. ASSUME NEW l \in Link
        PROVE  /\ [l EXCEPT !.cancelled = TRUE] \in Link
               /\ [l EXCEPT !.cancelled = TRUE].cancelled
    BY DEF Link
  <2>2. \A i \in 1 .. Len(links) :
           links[i] \in Link
           /\ dropped[i] = [links[i] EXCEPT !.cancelled = TRUE]
    BY <1>1
  <2> QED
    BY <1>1, <2>1, <2>2
<1>3. asked \in Link /\ asked.cut = cut /\ ~asked.cancelled
  BY DEF Link
<1>4. links' = Append(dropped, asked) /\ edit' = cut
  BY DEF ChooseCut
<1> HIDE DEF dropped, asked
<1>5. dropped \in Seq(Link) /\ Len(dropped) = Len(links)
  <2>1. dropped \in [1 .. Len(links) -> Link]
    BY <1>2 DEF dropped
  <2> QED
    BY <1>1, <2>1
<1>6. /\ links' \in Seq(Link) /\ Len(links') = Len(links) + 1
      /\ DOMAIN links' = 1 .. Len(links) + 1
      /\ \A i \in 1 .. Len(links) : links'[i].cancelled
      /\ links'[Len(links) + 1] = asked
  BY <1>1, <1>2, <1>3, <1>4, <1>5
<1>7. /\ Len(links') =< MaxLinks
      /\ \A i \in DOMAIN links' : ~links'[i].cancelled => i = Len(links')
      /\ LinksFollow' /\ Waiting'
  BY <1>1, <1>3, <1>4, <1>6 DEF LinksFollow, Waiting
<1>8. PlayerTypeOK'
  BY <1>6, <1>7 DEF PlayerInv, PlayerTypeOK, ChooseCut
<1>9. VideoIsOfTheChosen' /\ PopoverFollows' /\ NotesFollow'
  BY <1>7 DEF PlayerInv, ChooseCut, VideoIsOfTheChosen, PopoverFollows,
              NotesFollow
<1> QED
  BY <1>7, <1>8, <1>9 DEF PlayerInv

\* A link arrives: the awaited one brings the chosen cut's video, a cancelled
\* one changes nothing that is shown.
LEMMA LinkAnsweredStep ==
    ASSUME PlayerInv, NEW i \in DOMAIN links, LinkAnswered(i)
    PROVE  PlayerInv'
<1>1. /\ PlayerTypeOK /\ LinksFollow /\ links' = RemoveAt(links, i)
      /\ edit' = edit /\ links[i] \in Link
  BY DEF PlayerInv, PlayerTypeOK, LinkAnswered
<1>2. /\ links' \in Seq(Link) /\ Len(links') =< MaxLinks
      /\ \A j \in DOMAIN links' : ~links'[j].cancelled => j = Len(links')
      /\ LinksFollow'
      /\ links[i].cancelled /\ Waiting => Waiting'
      /\ ~links[i].cancelled => ~Waiting'
  BY <1>1, LinkGone
<1>3. url' \in {url, links[i].cut} /\ url' \in Cuts \cup {NoCut}
  BY <1>1 DEF LinkAnswered, Link, PlayerTypeOK
<1>4. popover' # NoCut => url' # NoCut
  BY <1>1, <1>3, PlayerAssumption DEF LinkAnswered, Link, PlayerTypeOK
<1>5. PlayerTypeOK'
  BY <1>2, <1>3, <1>4 DEF PlayerInv, PlayerTypeOK, LinkAnswered
<1>6. VideoIsOfTheChosen'
  <2>1. CASE links[i].cancelled
    BY <1>2, <2>1 DEF PlayerInv, LinkAnswered, VideoIsOfTheChosen
  <2>2. CASE ~links[i].cancelled
    BY <1>1, <2>2 DEF LinkAnswered, LinksFollow, VideoIsOfTheChosen
  <2> QED
    BY <2>1, <2>2
<1>7. PopoverFollows' /\ NotesFollow'
  BY DEF PlayerInv, LinkAnswered, PopoverFollows, NotesFollow
<1> QED
  BY <1>2, <1>5, <1>6, <1>7 DEF PlayerInv

\* A link fails: if it was the awaited one, the player is stuck.
LEMMA LinkFailedStep ==
    ASSUME PlayerInv, NEW i \in DOMAIN links, LinkFailed(i)
    PROVE  PlayerInv'
<1>1. /\ PlayerTypeOK /\ LinksFollow /\ links' = RemoveAt(links, i)
      /\ edit' = edit
      /\ stuck' = (stuck \/ ~links[i].cancelled)
  BY DEF PlayerInv, LinkFailed
<1>2. /\ links' \in Seq(Link) /\ Len(links') =< MaxLinks
      /\ \A j \in DOMAIN links' : ~links'[j].cancelled => j = Len(links')
      /\ LinksFollow'
      /\ links[i].cancelled /\ Waiting => Waiting'
  BY <1>1, LinkGone
<1>3. stuck' \in BOOLEAN
  BY <1>1
<1>4. PlayerTypeOK'
  BY <1>2, <1>3 DEF PlayerInv, PlayerTypeOK, LinkFailed
<1>5. VideoIsOfTheChosen' /\ PopoverFollows' /\ NotesFollow'
  BY <1>1, <1>2 DEF PlayerInv, LinkFailed, VideoIsOfTheChosen, PopoverFollows,
                    NotesFollow
<1> QED
  BY <1>2, <1>4, <1>5 DEF PlayerInv

-----------------------------------------------------------------------------
\* The steps of a note.

\* The video and its links stay; what remains is said of the popover and notes.
LEMMA SameVideo ==
    ASSUME PlayerInv, UNCHANGED <<edit, url, links, stuck>>,
           popover' \in Cuts \cup {NoCut}, popover' # NoCut => url # NoCut,
           draft' \in BOOLEAN, astray' \in BOOLEAN,
           notes' \in Seq(Note), Len(notes') =< MaxNotes,
           PopoverFollows', NotesFollow'
    PROVE  PlayerInv'
BY DEF PlayerInv, PlayerTypeOK, LinksFollow, VideoIsOfTheChosen, Waiting

\* A moment is picked in the video that is shown.
LEMMA PickMomentStep ==
    ASSUME PlayerInv, PickMoment
    PROVE  PlayerInv'
<1>1. astray' \in BOOLEAN /\ UNCHANGED <<edit, url, links, stuck, notes, draft>>
  BY DEF PickMoment
<1>2. PopoverFollows'
  BY DEF PlayerInv, PickMoment, PopoverFollows, VideoIsOfTheChosen
<1>3. NotesFollow'
  BY <1>1 DEF PlayerInv, NotesFollow
<1> QED
  BY <1>1, <1>2, <1>3, SameVideo DEF PlayerInv, PlayerTypeOK, PickMoment

\* The popover is put away.
LEMMA PutAwayStep ==
    ASSUME PlayerInv, NEW keeping \in BOOLEAN, PutAway(keeping)
    PROVE  PlayerInv'
<1>1. /\ UNCHANGED <<edit, url, links, stuck, notes>>
      /\ draft' \in BOOLEAN /\ popover' = NoCut /\ astray' = FALSE
  BY DEF PutAway
<1>2. PopoverFollows' /\ NotesFollow'
  BY <1>1 DEF PlayerInv, PopoverFollows, NotesFollow
<1> QED
  BY <1>1, <1>2, SameVideo DEF PlayerInv, PlayerTypeOK

\* A text is written.
LEMMA WriteNoteStep ==
    ASSUME PlayerInv, WriteNote
    PROVE  PlayerInv'
<1>1. PopoverFollows' /\ NotesFollow'
  BY DEF PlayerInv, WriteNote, PopoverFollows, NotesFollow
<1> QED
  BY <1>1, SameVideo DEF PlayerInv, PlayerTypeOK, WriteNote

\* The note is sent: to the chosen cut, from the popover.
LEMMA AddNoteStep ==
    ASSUME PlayerInv, AddNote
    PROVE  PlayerInv'
<1> DEFINE note == [cut |-> edit, seen |-> popover, astray |-> astray,
                    step |-> "asked"]
<1>1. /\ note \in Note
      /\ note.cut = edit /\ note.seen = popover /\ note.astray = astray
      /\ popover # NoCut
  BY DEF PlayerInv, PlayerTypeOK, AddNote, Note
<1>2. /\ notes' = Append(notes, note) /\ Len(notes) < MaxNotes
      /\ UNCHANGED <<edit, url, links, popover, draft, stuck, astray>>
  BY DEF AddNote
<1>3. ~note.astray => note.cut = note.seen
  BY <1>1 DEF PlayerInv, PopoverFollows
<1> HIDE DEF note
<1>4. notes \in Seq(Note) /\ Len(notes) \in Nat /\ MaxNotes \in Nat
  BY PlayerAssumption DEF PlayerInv, PlayerTypeOK
<1>5. /\ notes' \in Seq(Note) /\ Len(notes') =< MaxNotes
      /\ \A n \in DOMAIN notes' :
            \/ n \in DOMAIN notes /\ notes'[n] = notes[n]
            \/ notes'[n] = note
  BY <1>1, <1>2, <1>4
<1>6. PopoverFollows' /\ NotesFollow'
  BY <1>2, <1>3, <1>5 DEF PlayerInv, PopoverFollows, NotesFollow
<1> QED
  BY <1>2, <1>5, <1>6, SameVideo DEF PlayerInv, PlayerTypeOK

\* A step of a note that was sent changes how far it has come and nothing else.
LEMMA NoteMoves ==
    ASSUME PlayerInv, NEW n \in DOMAIN notes,
           NEW step \in {"asked", "made", "ended", "failed"},
           notes' = [notes EXCEPT ![n].step = step]
    PROVE  notes' \in Seq(Note) /\ Len(notes') =< MaxNotes /\ NotesFollow'
<1> DEFINE note == [notes[n] EXCEPT !.step = step]
<1>1. notes \in Seq(Note) /\ notes[n] \in Note /\ Len(notes) =< MaxNotes
  BY DEF PlayerInv, PlayerTypeOK
<1>2. /\ note \in Note /\ note.cut = notes[n].cut
      /\ note.seen = notes[n].seen /\ note.astray = notes[n].astray
  BY <1>1 DEF Note
<1>3. notes' = [notes EXCEPT ![n] = note]
  BY <1>1
<1> HIDE DEF note
<1>4. notes' \in Seq(Note) /\ Len(notes') = Len(notes)
  BY <1>1, <1>2, <1>3
<1>5. \A m \in DOMAIN notes' :
         /\ m \in DOMAIN notes
         /\ \/ notes'[m] = notes[m]
            \/ m = n /\ notes'[m] = note
  BY <1>1, <1>3
<1> QED
  BY <1>1, <1>2, <1>4, <1>5 DEF PlayerInv, NotesFollow

\* A note is recorded, answered or refused.
LEMMA NoteStep ==
    ASSUME PlayerInv, NEW n \in DOMAIN notes,
           NoteServed(n) \/ NoteAnswered(n) \/ NoteFailed(n)
    PROVE  PlayerInv'
<1>1. \E step \in {"asked", "made", "ended", "failed"} :
         notes' = [notes EXCEPT ![n].step = step]
  BY DEF NoteServed, NoteAnswered, NoteFailed
<1>2. notes' \in Seq(Note) /\ Len(notes') =< MaxNotes /\ NotesFollow'
  BY <1>1, NoteMoves
<1>3. /\ UNCHANGED <<edit, url, links, stuck>>
      /\ \/ UNCHANGED <<popover, draft, astray>>
         \/ popover' = NoCut /\ draft' = FALSE /\ astray' = FALSE
  BY DEF NoteServed, NoteAnswered, NoteFailed
<1>4. PopoverFollows'
  BY <1>3 DEF PlayerInv, PopoverFollows
<1> QED
  BY <1>2, <1>3, <1>4, SameVideo DEF PlayerInv, PlayerTypeOK

-----------------------------------------------------------------------------
\* The theorems of the player.

\* Mounted: the first link is the chosen cut's.
LEMMA PlayerInitInv == PlayerInit => PlayerInv
<1> SUFFICES ASSUME PlayerInit PROVE PlayerInv
  OBVIOUS
<1> DEFINE asked == [cut |-> edit, cancelled |-> FALSE]
<1>1. edit \in Cuts
  BY PlayerAssumption DEF PlayerInit
<1>2. asked \in Link /\ asked.cut = edit /\ ~asked.cancelled
  BY <1>1 DEF Link
<1>3. links = <<asked>> /\ notes = <<>>
  BY DEF PlayerInit
<1> HIDE DEF asked
<1>4. /\ links \in Seq(Link) /\ Len(links) = 1 /\ DOMAIN links = {1}
      /\ links[1] = asked
      /\ notes \in Seq(Note) /\ Len(notes) = 0 /\ DOMAIN notes = {}
  BY <1>2, <1>3
<1>5. PlayerTypeOK
  <2>1. Len(links) =< MaxLinks /\ Len(notes) =< MaxNotes
    BY <1>4, PlayerAssumption
  <2>2. \A i \in DOMAIN links : ~links[i].cancelled => i = Len(links)
    BY <1>4
  <2>3. url = NoCut /\ popover = NoCut
    BY DEF PlayerInit
  <2>4. draft \in BOOLEAN /\ stuck \in BOOLEAN /\ astray \in BOOLEAN
    BY DEF PlayerInit
  <2> QED
    BY <1>1, <1>4, <2>1, <2>2, <2>3, <2>4 DEF PlayerTypeOK
<1>6. LinksFollow /\ VideoIsOfTheChosen /\ PopoverFollows /\ NotesFollow
  BY <1>2, <1>4 DEF PlayerInit, LinksFollow, VideoIsOfTheChosen, Waiting,
                    PopoverFollows, NotesFollow
<1> QED
  BY <1>5, <1>6 DEF PlayerInv

\* Links and notes in any order keep the player together.
THEOREM PlayerInvariant == PlayerSpec => []PlayerInv
<1>1. PlayerInv /\ [PlayerNext]_playerVars => PlayerInv'
  <2> SUFFICES ASSUME PlayerInv, [PlayerNext]_playerVars PROVE PlayerInv'
    OBVIOUS
  <2>1. ASSUME NEW cut \in Cuts, ChooseCut(cut) PROVE PlayerInv'
    BY <2>1, ChooseCutStep
  <2>2. CASE Linking
    BY <2>2, LinkAnsweredStep, LinkFailedStep DEF Linking
  <2>3. CASE Noting
    BY <2>3, PickMomentStep, PutAwayStep, WriteNoteStep, AddNoteStep, NoteStep
       DEF Noting
  <2>4. CASE UNCHANGED playerVars
    BY <2>4 DEF playerVars, PlayerInv, PlayerTypeOK, LinksFollow,
                VideoIsOfTheChosen, Waiting, PopoverFollows, NotesFollow
  <2> QED
    BY <2>1, <2>2, <2>3, <2>4 DEF PlayerNext
<1> QED
  BY <1>1, PlayerInitInv, PTL DEF PlayerSpec

\* The shapes of the player, and one awaited link at a time.
THEOREM PlayerTypes == PlayerSpec => []PlayerTypeOK
<1>1. PlayerInv => PlayerTypeOK
  BY DEF PlayerInv
<1> QED
  BY <1>1, PlayerInvariant, PTL

\* The video that stays is the chosen cut's, unless its own link failed.
THEOREM PlayerShowsTheChosen == PlayerSpec => []VideoIsOfTheChosen
<1>1. PlayerInv => VideoIsOfTheChosen
  BY DEF PlayerInv
<1> QED
  BY <1>1, PlayerInvariant, PTL

\* A note whose popover outlived nothing is recorded under the cut it is about.
THEOREM PlayerNotesMeetTheirVideo == PlayerSpec => []NotesMeetTheirVideo
<1>1. PlayerInv => NotesMeetTheirVideo
  BY DEF PlayerInv, NotesFollow, NotesMeetTheirVideo
<1> QED
  BY <1>1, PlayerInvariant, PTL

(***************************************************************************)
(* The script tab.  A text that is in no version must be in the autosave,  *)
(* in the editor, and in every save that is out; the versions are in order *)
(* because a version that will be put at the end is behind all of them.    *)
(***************************************************************************)
\* A handler of this mount that will put a version at the end of the list.
Creator(h) == work[h].on /\ work[h].mine /\ work[h].step \in {"asked", "ok"}

\* What is carried about is a body, and a version that is named is there.
Carried ==
    /\ \A h \in Slots : work[h].on /\ work[h].step \in {"asked", "ok"} =>
          work[h].body \in Bodies
    /\ \A h \in Slots : work[h].on /\ work[h].step = "ok" =>
          work[h].version \in 1 .. Len(script)
    /\ desk.answer =< Len(script)
    /\ \A i \in DOMAIN desk.versions : desk.versions[i] =< Len(script)

\* The text is put away in the script, ...
InScript == \E i \in 1 .. Len(script) : script[i] = typed

\* ... or in the autosave; and what stands in the editor, or is being saved, is
\* that text as long as it is not in the script.
Kept ==
    typed # Empty /\ unsafe = {} /\ ~InScript =>
        /\ cached = typed
        /\ desk.draft \in {Empty, typed}
        /\ \A h \in Slots : work[h].on /\ work[h].kind = "save" =>
              /\ work[h].step = "asked" => work[h].body = typed
              /\ work[h].step # "ok"

\* Unless something has met, there is one creator at most, none before the list
\* is there or after it has failed, and its version is behind all of the list.
InTurn ==
    /\ ~desk.mounted => \A h \in Slots : ~Creator(h)
    /\ desk.mounted /\ ~crossed =>
          /\ \A h, g \in Slots : Creator(h) /\ Creator(g) => h = g
          /\ desk.listing # "none" =>
                /\ \A h \in Slots : ~Creator(h)
                /\ desk.current = 0 /\ desk.versions = <<>>
          /\ \A h \in Slots : Creator(h) /\ work[h].step = "ok" =>
                \A i \in DOMAIN desk.versions : desk.versions[i] < work[h].version
          /\ \A i, j \in DOMAIN desk.versions :
                i < j => desk.versions[i] < desk.versions[j]
          /\ desk.versions # <<>> =>
                \E i \in DOMAIN desk.versions : desk.versions[i] = desk.current

DeskInv == DeskTypeOK /\ typed \in Texts \cup {Empty} /\ Carried /\ Kept /\ InTurn

-----------------------------------------------------------------------------
LEMMA DeskShape ==
    ASSUME DeskTypeOK
    PROVE  /\ script \in Seq(Bodies) /\ Len(script) \in 0 .. MaxVersions
           /\ MaxVersions \in Nat
           /\ DOMAIN script = 1 .. Len(script)
           /\ \A i \in 1 .. Len(script) : script[i] \in Bodies
           /\ desk.versions \in Seq(1 .. MaxVersions)
           /\ Len(desk.versions) \in Nat
           /\ DOMAIN desk.versions = 1 .. Len(desk.versions)
           /\ \A i \in DOMAIN desk.versions : desk.versions[i] \in 1 .. MaxVersions
           /\ desk.answer \in 0 .. MaxVersions /\ desk.draft \in Drafts
<1>1. script \in Seq(Bodies) /\ Len(script) =< MaxVersions /\ MaxVersions \in Nat
  BY DeskAssumption DEF DeskTypeOK
<1>2. desk.versions \in Seq(1 .. MaxVersions)
  BY DEF DeskTypeOK, DeskState
<1>3. desk.answer \in 0 .. MaxVersions /\ desk.draft \in Drafts
  BY DEF DeskTypeOK, DeskState
<1> QED
  BY <1>1, <1>2, <1>3

LEMMA AwayTypes == Unmounted \in DeskState /\ NoWork \in Work
<1>1. <<>> \in Seq(1 .. MaxVersions) /\ 0 \in 0 .. MaxVersions
  BY DeskAssumption
<1> QED
  BY <1>1 DEF Unmounted, DeskState, NoWork, Work, Drafts, Creates

LEMMA DeskInitInv == DeskInit => DeskInv
<1> SUFFICES ASSUME DeskInit PROVE DeskInv
  OBVIOUS
<1>1. script \in Seq(Bodies) /\ Len(script) \in 0 .. 1 /\ stage \in ScriptStages
  <2>1. CASE script = <<>> /\ stage = "idea"
    BY <2>1 DEF ScriptStages
  <2>2. CASE \E text \in Others : script = <<text>> /\ stage = "script_drafting"
    <3>1. PICK text \in Others : script = <<text>> /\ stage = "script_drafting"
      BY <2>2
    <3>2. text \in Bodies
      BY DEF Bodies
    <3> QED
      BY <3>1, <3>2 DEF ScriptStages
  <2> QED
    BY <2>1, <2>2 DEF DeskInit
<1>2. /\ seenStage = stage /\ cached = None /\ desk = Unmounted
      /\ work = [h \in Slots |-> NoWork]
      /\ typed = Empty /\ unsafe = {} /\ crossed = FALSE
  BY DEF DeskInit
<1>3. \A h \in Slots : ~work[h].on
  BY <1>2 DEF NoWork
<1>4. /\ desk.versions = <<>> /\ desk.answer = 0 /\ ~desk.mounted
  BY <1>2 DEF Unmounted
<1>5. DeskTypeOK
  <2>1. Len(script) =< MaxVersions
    <3>1. MaxVersions \in Nat \ {0}
      BY DeskAssumption
    <3> QED
      BY <1>1, <3>1
  <2>2. work \in [Slots -> Work] /\ desk \in DeskState
    BY <1>2, AwayTypes
  <2> QED
    BY <1>1, <1>2, <2>1, <2>2 DEF DeskTypeOK, Drafts
<1>6. Carried /\ Kept /\ InTurn
  BY <1>1, <1>2, <1>3, <1>4 DEF Carried, Kept, InTurn, Creator
<1> QED
  BY <1>2, <1>5, <1>6 DEF DeskInv

-----------------------------------------------------------------------------
\* The service moves the project, or nothing happens.
LEMMA DeskStays ==
    ASSUME DeskInv, stage' \in ScriptStages, seenStage' \in ScriptStages,
           UNCHANGED <<script, cached, desk, work, typed, unsafe, crossed>>
    PROVE  DeskInv'
<1>1. DeskTypeOK' /\ Carried' /\ Kept'
  BY DEF DeskInv, DeskTypeOK, Carried, Kept, InScript
<1>2. InTurn'
  BY DEF DeskInv, InTurn, Creator
<1> QED
  BY <1>1, <1>2 DEF DeskInv

\* A version is added to the script.
LEMMA ScriptGrows ==
    ASSUME DeskInv, NEW text \in Bodies, Len(script) < MaxVersions,
           script' = Append(script, text)
    PROVE  /\ script' \in Seq(Bodies) /\ Len(script') = Len(script) + 1
           /\ Len(script') =< MaxVersions
           /\ \A i \in 1 .. Len(script) : script'[i] = script[i]
           /\ script'[Len(script) + 1] = text
           /\ typed' = typed => /\ InScript => InScript'
                                /\ text = typed => InScript'
           /\ desk' = desk => /\ desk'.answer =< Len(script')
                              /\ \A i \in DOMAIN desk'.versions :
                                    desk'.versions[i] =< Len(script')
<1>1. /\ script \in Seq(Bodies) /\ Len(script) \in Nat /\ MaxVersions \in Nat
      /\ \A i \in DOMAIN desk.versions : desk.versions[i] \in Nat
      /\ desk.answer \in Nat
  BY DeskShape DEF DeskInv
<1>2. /\ script' \in Seq(Bodies) /\ Len(script') = Len(script) + 1
      /\ \A i \in 1 .. Len(script) : script'[i] = script[i]
      /\ script'[Len(script) + 1] = text
  BY <1>1, AppendProperties
<1>3. Len(script) + 1 \in 1 .. Len(script') /\ 1 .. Len(script) \subseteq 1 .. Len(script')
  BY <1>1, <1>2
<1>4. typed' = typed => /\ InScript => InScript'
                        /\ text = typed => InScript'
  BY <1>1, <1>2, <1>3 DEF InScript
<1>5. desk' = desk => /\ desk'.answer =< Len(script')
                      /\ \A i \in DOMAIN desk'.versions :
                            desk'.versions[i] =< Len(script')
  BY <1>1, <1>2 DEF DeskInv, Carried
<1> QED
  BY <1>1, <1>2, <1>4, <1>5

LEMMA SomebodySavesStep ==
    ASSUME DeskInv, NEW text \in Others, SomebodySaves(text)
    PROVE  DeskInv'
<1>1. /\ text \in Bodies /\ Len(script) < MaxVersions
      /\ script' = Append(script, text) /\ stage' \in ScriptStages
      /\ UNCHANGED <<seenStage, cached, desk, work, typed, unsafe, crossed>>
      /\ Len(script) \in Nat
  BY DeskShape DEF SomebodySaves, Bodies, ScriptStages, DeskInv, DeskTypeOK
<1>2. /\ script' \in Seq(Bodies) /\ Len(script') = Len(script) + 1
      /\ Len(script') =< MaxVersions /\ (InScript => InScript')
      /\ desk'.answer =< Len(script')
      /\ \A i \in DOMAIN desk'.versions : desk'.versions[i] =< Len(script')
  BY <1>1, ScriptGrows
<1>3. DeskTypeOK'
  BY <1>1, <1>2 DEF DeskInv, DeskTypeOK
<1>4. Carried'
  BY <1>1, <1>2 DEF DeskInv, Carried
<1>5. Kept'
  BY <1>1, <1>2 DEF DeskInv, Kept
<1>6. InTurn'
  BY <1>1 DEF DeskInv, InTurn, Creator
<1> QED
  BY <1>1, <1>3, <1>4, <1>5, <1>6 DEF DeskInv

\* A version is made here: it is behind every version that was there.
LEMMA ServeStep ==
    ASSUME DeskInv, NEW h \in Slots, Serve(h)
    PROVE  DeskInv'
<1>1. /\ work \in [Slots -> Work] /\ work[h].on /\ work[h].step = "asked"
      /\ work[h].body \in Bodies /\ Len(script) < MaxVersions
      /\ script' = Append(script, work[h].body)
      /\ work' = [work EXCEPT ![h].step = "ok", ![h].version = Len(script')]
      /\ stage' \in ScriptStages
      /\ UNCHANGED <<seenStage, cached, desk, typed, unsafe, crossed>>
      /\ Len(script) \in Nat /\ MaxVersions \in Nat
  BY DeskShape DEF Serve, ScriptStages, DeskInv, DeskTypeOK, Carried
<1>2. /\ script' \in Seq(Bodies) /\ Len(script') = Len(script) + 1
      /\ Len(script') =< MaxVersions
      /\ InScript => InScript'
      /\ work[h].body = typed => InScript'
      /\ desk'.answer =< Len(script')
      /\ \A i \in DOMAIN desk'.versions : desk'.versions[i] =< Len(script')
  BY <1>1, ScriptGrows
<1> DEFINE next == [work[h] EXCEPT !.step = "ok", !.version = Len(script')]
<1>3. /\ next \in Work /\ next.on /\ next.step = "ok" /\ next.version = Len(script) + 1
      /\ next.kind = work[h].kind /\ next.body = work[h].body
      /\ next.mine = work[h].mine
  <2>1. Len(script') \in 0 .. MaxVersions
    BY <1>1, <1>2
  <2> QED
    BY <1>1, <1>2, <2>1 DEF Work
<1>4. work' = [work EXCEPT ![h] = next]
  BY <1>1
<1> HIDE DEF next
<1>5. /\ work' \in [Slots -> Work] /\ work'[h] = next
      /\ \A g \in Slots \ {h} : work'[g] = work[g]
  BY <1>1, <1>3, <1>4
<1>6. DeskTypeOK'
  BY <1>1, <1>2, <1>5 DEF DeskInv, DeskTypeOK
<1>7. Carried'
  <2>1. \A g \in Slots : work'[g].on /\ work'[g].step \in {"asked", "ok"} =>
           work'[g].body \in Bodies
    BY <1>1, <1>3, <1>5 DEF DeskInv, Carried
  <2>2. \A g \in Slots : work'[g].on /\ work'[g].step = "ok" =>
           work'[g].version \in 1 .. Len(script')
    BY <1>1, <1>2, <1>3, <1>5 DEF DeskInv, Carried
  <2> QED
    BY <1>1, <1>2, <2>1, <2>2 DEF Carried
<1>8. Kept'
  <2> SUFFICES ASSUME typed # Empty, unsafe = {}, ~InScript'
               PROVE  /\ cached = typed /\ desk.draft \in {Empty, typed}
                      /\ \A g \in Slots : work'[g].on /\ work'[g].kind = "save" =>
                            /\ work'[g].step = "asked" => work'[g].body = typed
                            /\ work'[g].step # "ok"
    BY <1>1 DEF Kept
  <2>1. ~InScript /\ work[h].kind # "save"
    BY <1>1, <1>2 DEF DeskInv, Kept
  <2> QED
    BY <1>1, <1>3, <1>5, <2>1 DEF DeskInv, Kept
<1>9. InTurn'
  <2>1. \A g \in Slots : Creator(g)' <=> Creator(g)
    BY <1>1, <1>3, <1>5 DEF Creator
  <2>2. ASSUME desk.mounted, ~crossed, NEW g \in Slots, Creator(g), work'[g].step = "ok",
               NEW i \in DOMAIN desk.versions
        PROVE  desk.versions[i] < work'[g].version
    <3>1. CASE g = h
      <4>1. desk.versions[i] =< Len(script) /\ desk.versions[i] \in Nat
        BY DeskShape DEF DeskInv, Carried
      <4> QED
        BY <1>1, <1>3, <1>5, <3>1, <4>1
    <3>2. CASE g # h
      BY <1>5, <2>2, <3>2 DEF DeskInv, InTurn
    <3> QED
      BY <3>1, <3>2
  <2> QED
    BY <1>1, <2>1, <2>2 DEF DeskInv, InTurn
<1> QED
  BY <1>1, <1>6, <1>7, <1>8, <1>9 DEF DeskInv

\* A handler has ended.
LEMMA EndedStep ==
    ASSUME DeskInv, NEW h \in Slots, Finish(h) \/ Fail(h)
    PROVE  DeskInv'
<1>1. /\ work \in [Slots -> Work] /\ work' = [work EXCEPT ![h] = NoWork]
      /\ stage' \in ScriptStages /\ seenStage' \in ScriptStages
      /\ UNCHANGED <<script, cached, desk, typed, unsafe, crossed>>
  BY DEF Finish, Fail, DeskInv, DeskTypeOK
<1>2. /\ work' \in [Slots -> Work] /\ ~work'[h].on
      /\ \A g \in Slots \ {h} : work'[g] = work[g]
  BY <1>1, AwayTypes DEF NoWork
<1>3. DeskTypeOK' /\ Carried' /\ Kept'
  BY <1>1, <1>2 DEF DeskInv, DeskTypeOK, Carried, Kept, InScript
<1>4. \A g \in Slots : Creator(g)' => Creator(g) /\ work'[g] = work[g]
  BY <1>2 DEF Creator
<1>5. InTurn'
  BY <1>1, <1>4 DEF DeskInv, InTurn
<1> QED
  BY <1>1, <1>3, <1>5 DEF DeskInv

-----------------------------------------------------------------------------
\* The tab comes and goes: no handler is of its mount.
LEMMA MountStep ==
    ASSUME DeskInv, Mount \/ Unmount
    PROVE  DeskInv'
<1> DEFINE new == [Unmounted EXCEPT !.mounted = TRUE, !.listing = "asked"]
<1>1. /\ new \in DeskState /\ new.versions = <<>> /\ new.current = 0
      /\ new.answer = 0 /\ new.draft = Empty /\ new.mounted
  BY AwayTypes DEF Unmounted, DeskState
<1>2. /\ Unmounted.versions = <<>> /\ Unmounted.current = 0 /\ ~Unmounted.mounted
      /\ Unmounted.answer = 0 /\ Unmounted.draft = Empty
  BY DEF Unmounted
<1> HIDE DEF new
<1>3. /\ desk' \in {new, Unmounted} /\ crossed' = FALSE
      /\ UNCHANGED <<script, stage, seenStage, cached, typed, unsafe>>
      /\ work \in [Slots -> Work] /\ Len(script) \in Nat
  BY DeskShape DEF Mount, Unmount, new, DeskInv, DeskTypeOK
<1>4. /\ work' \in [Slots -> Work]
      /\ \A h \in Slots : ~Creator(h)'
      /\ \A h \in Slots : /\ work'[h].on = work[h].on /\ work'[h].kind = work[h].kind
                          /\ work'[h].step = work[h].step
                          /\ work'[h].body = work[h].body
                          /\ work'[h].version = work[h].version
  <2>1. CASE Mount
    BY <1>3, <2>1 DEF Mount, DeskInv, InTurn, Creator
  <2>2. CASE Unmount
    BY <1>3, <2>2 DEF Unmount, Work, Creator
  <2> QED
    BY <2>1, <2>2
<1>5. /\ desk' \in DeskState /\ desk'.versions = <<>> /\ desk'.current = 0
      /\ desk'.answer = 0 /\ desk'.draft = Empty
  BY <1>1, <1>2, <1>3, AwayTypes
<1>6. DeskTypeOK'
  BY <1>3, <1>4, <1>5 DEF DeskInv, DeskTypeOK
<1>7. Carried'
  BY <1>3, <1>4, <1>5 DEF DeskInv, Carried
<1>8. Kept'
  BY <1>3, <1>4, <1>5 DEF DeskInv, Kept, InScript
<1>9. InTurn'
  BY <1>4, <1>5 DEF InTurn
<1> QED
  BY <1>3, <1>6, <1>7, <1>8, <1>9 DEF DeskInv

-----------------------------------------------------------------------------
\* The tab alone has moved: what is left to say of it.
LEMMA TabMoves ==
    ASSUME DeskInv, UNCHANGED <<script, stage, seenStage, work>>,
           desk' \in DeskState, cached' \in Bodies \cup {None},
           typed' \in Texts \cup {Empty}, unsafe' \subseteq {"save", "report"}, crossed' \in BOOLEAN,
           desk'.answer =< Len(script),
           \A i \in DOMAIN desk'.versions : desk'.versions[i] =< Len(script),
           Kept', InTurn'
    PROVE  DeskInv'
<1>1. DeskTypeOK'
  BY DEF DeskInv, DeskTypeOK, Drafts, Bodies
<1>2. Carried'
  BY DEF DeskInv, Carried
<1> QED
  BY <1>1, <1>2 DEF DeskInv

\* The list is as it was, and nothing more is asked for.
LEMMA SameList ==
    ASSUME DeskInv, UNCHANGED work, crossed' = crossed,
           desk'.mounted = desk.mounted, desk'.versions = desk.versions,
           desk'.current = desk.current \/ \E i \in DOMAIN desk.versions :
                                              desk'.current = desk.versions[i],
           desk'.listing = desk.listing \/ desk'.listing = "none"
                                        \/ desk.listing # "none"
    PROVE  InTurn'
<1>1. \A h \in Slots : Creator(h)' <=> Creator(h)
  BY DEF Creator
<1> QED
  BY <1>1 DEF DeskInv, InTurn

LEMMA EditorReadyStep ==
    ASSUME DeskInv, NEW reports \in BOOLEAN, EditorReady(reports)
    PROVE  DeskInv'
<1>1. /\ desk \in DeskState /\ UNCHANGED <<script, stage, seenStage, work, typed, crossed>>
      /\ typed \in Texts \cup {Empty} /\ crossed \in BOOLEAN /\ unsafe \subseteq {"save", "report"}
      /\ BlankDoc \in Bodies /\ cached \in Bodies \cup {None}
  BY DEF EditorReady, DeskInv, DeskTypeOK, Bodies
<1>2. /\ desk' \in DeskState /\ desk'.answer = desk.answer
      /\ desk'.versions = desk.versions /\ desk'.current = desk.current
      /\ desk'.mounted = desk.mounted /\ desk'.listing = desk.listing
      /\ cached' \in Bodies \cup {None} /\ unsafe' \subseteq {"save", "report"}
      /\ \/ desk'.draft = desk.draft /\ cached' = cached /\ unsafe' = unsafe
         \/ typed = Empty \/ "report" \in unsafe'
  BY <1>1 DEF EditorReady, SetDraft, DeskState, Drafts
<1>3. InTurn'
  BY <1>1, <1>2, SameList
<1>4. Kept'
  BY <1>1, <1>2 DEF DeskInv, Kept, InScript
<1> QED
  BY <1>1, <1>2, <1>3, <1>4, TabMoves DEF DeskInv, Carried

\* The list is asked for, and fails.
LEMMA AskStep ==
    ASSUME DeskInv, ServeList \/ FailList
    PROVE  DeskInv'
<1>1. /\ desk \in DeskState /\ typed \in Texts \cup {Empty}
      /\ UNCHANGED <<script, stage, seenStage, cached, work, typed, unsafe, crossed>>
      /\ crossed \in BOOLEAN /\ unsafe \subseteq {"save", "report"} /\ cached \in Bodies \cup {None}
      /\ Len(script) \in 0 .. MaxVersions /\ 0 \in 0 .. MaxVersions
  BY DeskShape DEF ServeList, FailList, DeskInv, DeskTypeOK
<1>2. /\ desk' \in DeskState /\ desk'.answer \in {0, Len(script)}
      /\ desk'.versions = desk.versions /\ desk'.current = desk.current
      /\ desk'.mounted = desk.mounted /\ desk'.draft = desk.draft
      /\ desk.listing # "none"
  BY <1>1 DEF ServeList, FailList, DeskState
<1>3. InTurn'
  BY <1>1, <1>2, SameList
<1>4. Kept'
  BY <1>1, <1>2 DEF DeskInv, Kept, InScript
<1>5. desk'.answer =< Len(script)
  BY <1>1, <1>2
<1> QED
  BY <1>1, <1>2, <1>3, <1>4, <1>5, TabMoves DEF DeskInv, Carried

\* The list arrives, and the text with it: the autosave, if there is one.
LEMMA DeliverListStep ==
    ASSUME DeskInv, DeliverList
    PROVE  DeskInv'
<1> DEFINE n   == desk.answer
           rows == [i \in 1 .. n |-> i]
           new == [desk EXCEPT !.listing = "none", !.answer = 0, !.listed = TRUE,
                               !.versions = rows]
           text == IF cached = None THEN script[n] ELSE cached
           after == [new EXCEPT !.current = IF @ = 0 THEN n ELSE @]
<1>1. /\ desk \in DeskState /\ typed \in Texts \cup {Empty} /\ desk.listing = "ok"
      /\ UNCHANGED <<script, stage, seenStage, work, typed, unsafe, crossed>>
      /\ crossed \in BOOLEAN /\ unsafe \subseteq {"save", "report"} /\ cached \in Bodies \cup {None}
      /\ Len(script) \in 0 .. MaxVersions /\ MaxVersions \in Nat
      /\ n \in 0 .. Len(script)
      /\ \A i \in 1 .. Len(script) : script[i] \in Bodies
      /\ desk.current \in 0 .. MaxVersions
  BY DeskShape DEF DeliverList, DeskInv, DeskTypeOK, Carried, DeskState
<1>2. \/ n = 0 /\ desk' = new /\ cached' = cached
      \/ n # 0 /\ SetDraft(text, after)
  BY DEF DeliverList
<1> HIDE DEF n
<1>3. /\ rows \in Seq(1 .. MaxVersions) /\ DOMAIN rows = 1 .. n
      /\ \A i \in 1 .. n : rows[i] = i /\ rows[i] =< Len(script)
      /\ n # 0 => n \in 1 .. n
      /\ n = 0 => rows = <<>>
  <2>1. rows \in [1 .. n -> 1 .. MaxVersions]
    BY <1>1
  <2> QED
    BY <1>1, <2>1
<1> HIDE DEF rows
<1>4. /\ new \in DeskState /\ new.versions = rows /\ new.listing = "none"
      /\ new.answer = 0 /\ new.current = desk.current /\ new.draft = desk.draft
      /\ new.mounted = desk.mounted
  <2>1. 0 \in 0 .. MaxVersions /\ rows \in Seq(1 .. MaxVersions)
    BY <1>1, <1>3
  <2> QED
    BY <1>1, <2>1 DEF DeskState
<1> HIDE DEF new
<1>5. /\ after \in DeskState /\ after.versions = rows /\ after.listing = "none"
      /\ after.answer = 0 /\ after.mounted = desk.mounted
      /\ desk.current = 0 => after.current = n
  <2>1. n \in 0 .. MaxVersions
    BY <1>1
  <2> QED
    BY <1>1, <1>4, <2>1 DEF DeskState
<1> HIDE DEF after
<1>6. n # 0 => text \in Bodies
  BY <1>1
<1>7. /\ desk' \in DeskState /\ desk'.versions = rows /\ desk'.listing = "none"
      /\ desk'.answer = 0 /\ desk'.mounted = desk.mounted
      /\ n # 0 /\ desk.current = 0 => desk'.current = n
      /\ \/ n = 0 /\ desk'.draft = desk.draft /\ cached' = cached
         \/ /\ n # 0 /\ desk'.draft = text
            /\ cached' = IF text # desk.draft /\ text # Empty THEN text ELSE cached
  BY <1>2, <1>4, <1>5, <1>6 DEF SetDraft, DeskState, Drafts
<1>8. cached' \in Bodies \cup {None}
  BY <1>1, <1>6, <1>7
<1>9. InTurn'
  <2>1. \A h \in Slots : Creator(h)' <=> Creator(h)
    BY <1>1 DEF Creator
  <2>2. ASSUME desk.mounted, ~crossed
        PROVE  /\ \A h \in Slots : ~Creator(h)
               /\ desk.current = 0
    BY <1>1, <2>2 DEF DeskInv, InTurn
  <2>3. \A i, j \in 1 .. n : i < j => rows[i] < rows[j]
    BY <1>3
  <2>4. n # 0 => \E i \in 1 .. n : rows[i] = n
    BY <1>3
  <2>5. ~desk.mounted => \A h \in Slots : ~Creator(h)
    BY DEF DeskInv, InTurn
  <2> QED
    BY <1>1, <1>3, <1>7, <2>1, <2>2, <2>3, <2>4, <2>5 DEF InTurn
<1>10. Kept'
  <2> SUFFICES ASSUME typed # Empty, unsafe = {}, ~InScript
               PROVE  /\ cached' = typed
                      /\ desk'.draft \in {Empty, typed}
    BY <1>1 DEF DeskInv, Kept, InScript
  <2>1. cached = typed /\ desk.draft \in {Empty, typed} /\ typed # None
    BY <1>1, DeskAssumption DEF DeskInv, Kept
  <2> QED
    BY <1>7, <2>1
<1> QED
  BY <1>1, <1>3, <1>7, <1>8, <1>9, <1>10, TabMoves

-----------------------------------------------------------------------------
\* A text is typed: it goes to the device at once.
LEMMA TypeStep ==
    ASSUME DeskInv, NEW text \in Texts, Type(text)
    PROVE  DeskInv'
<1>1. /\ desk \in DeskState /\ UNCHANGED <<script, stage, seenStage, work, crossed>>
      /\ crossed \in BOOLEAN /\ text \in Bodies /\ text # Empty
      /\ SetDraft(text, desk) /\ typed' = text /\ text # desk.draft
      /\ unsafe' = {"save" : h \in {g \in Slots : work[g].on /\ work[g].kind = "save"}}
  BY DeskAssumption DEF Type, DeskInv, DeskTypeOK, Bodies
<1>2. /\ desk' \in DeskState /\ desk'.answer = desk.answer
      /\ desk'.versions = desk.versions /\ desk'.current = desk.current
      /\ desk'.mounted = desk.mounted /\ desk'.listing = desk.listing
      /\ desk'.draft = text /\ cached' = text
  BY <1>1 DEF SetDraft, DeskState, Drafts
<1>3. InTurn'
  BY <1>1, <1>2, SameList
<1>4. Kept'
  BY <1>1, <1>2 DEF Kept
<1> QED
  BY <1>1, <1>2, <1>3, <1>4, TabMoves DEF DeskInv, Carried

\* Another version is chosen: the text is put away.
LEMMA SelectVersionStep ==
    ASSUME DeskInv, NEW v \in 1 .. MaxVersions, SelectVersion(v)
    PROVE  DeskInv'
<1>1. /\ desk \in DeskState /\ UNCHANGED <<script, stage, seenStage, work, crossed>>
      /\ crossed \in BOOLEAN /\ cached \in Bodies \cup {None}
      /\ SetDraft(script[v], [desk EXCEPT !.current = v])
      /\ typed' = Empty /\ unsafe' = {}
      /\ Len(desk.versions) \in Nat /\ DOMAIN desk.versions = 1 .. Len(desk.versions)
  BY DeskShape DEF SelectVersion, DeskInv, DeskTypeOK
<1>2. PICK i \in DOMAIN desk.versions : desk.versions[i] = v
  BY <1>1 DEF SelectVersion, Contains
<1>3. script[v] \in Bodies
  BY <1>2, DeskShape DEF DeskInv, Carried
<1> DEFINE new == [desk EXCEPT !.current = v]
<1>4. /\ new \in DeskState /\ new.answer = desk.answer
      /\ new.versions = desk.versions /\ new.current = v
      /\ new.mounted = desk.mounted /\ new.listing = desk.listing
  <2>1. v \in 0 .. MaxVersions
    BY DeskAssumption
  <2> QED
    BY <1>1, <2>1 DEF DeskState
<1> HIDE DEF new
<1>5. /\ desk' \in DeskState /\ desk'.answer = desk.answer
      /\ desk'.versions = desk.versions /\ desk'.current = v
      /\ desk'.mounted = desk.mounted /\ desk'.listing = desk.listing
      /\ cached' \in Bodies \cup {None}
  <2>1. SetDraft(script[v], new)
    BY <1>1 DEF new
  <2> QED
    BY <1>1, <1>3, <1>4, <2>1 DEF SetDraft, DeskState, Drafts
<1>6. InTurn'
  BY <1>1, <1>2, <1>5, SameList
<1>7. Kept'
  BY <1>1 DEF Kept
<1> QED
  BY <1>1, <1>5, <1>6, <1>7, TabMoves DEF DeskInv, Carried

\* A version is asked for: the text that is saved is the one in the editor.
LEMMA PressStep ==
    ASSUME DeskInv, NEW kind \in Creates, NEW body \in Drafts, Press(kind, body)
    PROVE  DeskInv'
<1> DEFINE next == [NoWork EXCEPT !.on = TRUE, !.kind = kind, !.body = body,
                                  !.mine = TRUE]
<1>1. PICK h \in Slots : ~work[h].on /\ work' = [work EXCEPT ![h] = next]
  BY DEF Press
<1>2. /\ next \in Work /\ next.on /\ next.mine /\ next.step = "asked"
      /\ next.kind = kind /\ next.body = body
  BY AwayTypes DEF NoWork, Work
<1> HIDE DEF next
<1>3. /\ UNCHANGED <<script, stage, seenStage, cached, desk, typed, unsafe>>
      /\ work \in [Slots -> Work] /\ desk.mounted /\ crossed' \in BOOLEAN
      /\ crossed' = (crossed \/ Creating # {} \/ desk.listing # "none")
      /\ kind = "save" => body = desk.draft /\ desk.draft # Empty
      /\ kind # "save" => body \in Others
      /\ desk.draft \in Drafts
  BY DeskShape DEF Press, DeskInv, DeskTypeOK, Offered
<1>4. body \in Bodies
  BY <1>3 DEF Drafts, Bodies
<1>5. /\ work' \in [Slots -> Work] /\ work'[h] = next
      /\ \A g \in Slots \ {h} : work'[g] = work[g]
  BY <1>1, <1>2, <1>3
<1>6. DeskTypeOK'
  BY <1>3, <1>5 DEF DeskInv, DeskTypeOK
<1>7. Carried'
  BY <1>2, <1>3, <1>4, <1>5 DEF DeskInv, Carried
<1>8. Kept'
  BY <1>2, <1>3, <1>5 DEF DeskInv, Kept, InScript
<1>9. InTurn'
  <2>1. \A g \in Slots \ {h} : Creator(g)' <=> Creator(g)
    BY <1>5 DEF Creator
  <2>2. ~crossed' => ~crossed /\ desk.listing = "none" /\ \A g \in Slots : ~Creator(g)
    BY <1>3 DEF Creating, Creator
  <2> QED
    BY <1>2, <1>3, <1>5, <2>1, <2>2 DEF DeskInv, InTurn
<1> QED
  BY <1>3, <1>6, <1>7, <1>8, <1>9 DEF DeskInv

-----------------------------------------------------------------------------
\* A version is made and its handler is of this mount: it goes to the end.
LEMMA AppendedVersion ==
    ASSUME DeskInv, NEW h \in Slots, work[h].on, work[h].step = "ok"
    PROVE  LET new == WithVersion(work[h].version)
           IN  /\ new \in DeskState /\ new.current = work[h].version
               /\ new.versions \in Seq(1 .. MaxVersions)
               /\ DOMAIN new.versions = 1 .. Len(desk.versions) + 1
               /\ \A i \in 1 .. Len(desk.versions) :
                     new.versions[i] = desk.versions[i]
               /\ new.versions[Len(desk.versions) + 1] = work[h].version
               /\ \A i \in DOMAIN new.versions : new.versions[i] =< Len(script)
               /\ new.answer = desk.answer /\ new.mounted = desk.mounted
               /\ new.listing = desk.listing /\ new.draft = desk.draft
<1> DEFINE v    == work[h].version
           rows == Append(desk.versions, v)
           new  == [desk EXCEPT !.versions = rows, !.current = v]
<1>1. /\ desk \in DeskState /\ desk.versions \in Seq(1 .. MaxVersions)
      /\ Len(desk.versions) \in Nat /\ DOMAIN desk.versions = 1 .. Len(desk.versions)
      /\ Len(script) \in 0 .. MaxVersions /\ MaxVersions \in Nat
      /\ v \in 1 .. Len(script)
      /\ \A i \in DOMAIN desk.versions : desk.versions[i] =< Len(script)
  BY DeskShape DEF DeskInv, DeskTypeOK, Carried
<1>2. v \in 1 .. MaxVersions /\ v \in 0 .. MaxVersions
  BY <1>1
<1> HIDE DEF v
<1>3. /\ rows \in Seq(1 .. MaxVersions) /\ Len(rows) = Len(desk.versions) + 1
      /\ \A i \in 1 .. Len(desk.versions) : rows[i] = desk.versions[i]
      /\ rows[Len(desk.versions) + 1] = v
  BY <1>1, <1>2, AppendProperties
<1>4. DOMAIN rows = 1 .. Len(desk.versions) + 1
  BY <1>3
<1>5. \A i \in DOMAIN rows : rows[i] =< Len(script)
  BY <1>1, <1>3, <1>4
<1> HIDE DEF rows
<1>6. /\ new \in DeskState /\ new.versions = rows /\ new.current = v
      /\ new.answer = desk.answer /\ new.mounted = desk.mounted
      /\ new.listing = desk.listing /\ new.draft = desk.draft
  BY <1>1, <1>2, <1>3 DEF DeskState
<1>7. new = WithVersion(v)
  BY DEF WithVersion, rows
<1> HIDE DEF new
<1> QED
  BY <1>3, <1>4, <1>5, <1>6, <1>7 DEF v

LEMMA AnswerStep ==
    ASSUME DeskInv, NEW h \in Slots, Answer(h)
    PROVE  DeskInv'
<1> DEFINE new  == WithVersion(work[h].version)
           next == [work[h] EXCEPT !.step = "get", !.body = Empty, !.version = 0]
           saved == work[h].kind = "save"
           taken == saved \/ work[h].kind = "import"
           mine == work[h].mine
<1>1. /\ work \in [Slots -> Work] /\ work[h].on /\ work[h].step = "ok"
      /\ work' = [work EXCEPT ![h] = next]
      /\ UNCHANGED <<script, stage, seenStage, crossed>>
      /\ work[h].kind \in Creates /\ mine \in BOOLEAN
      /\ crossed \in BOOLEAN /\ unsafe \subseteq {"save", "report"} /\ cached \in Bodies \cup {None}
      /\ typed \in Texts \cup {Empty} /\ work[h].body \in Bodies
      /\ desk \in DeskState
      /\ Len(desk.versions) \in Nat /\ DOMAIN desk.versions = 1 .. Len(desk.versions)
  BY DeskShape DEF Answer, DeskInv, DeskTypeOK, Work, Carried
<1>2. /\ next \in Work /\ next.on /\ next.step = "get"
  <2>1. 0 \in 0 .. MaxVersions /\ Empty \in Drafts
    BY DeskAssumption DEF Drafts
  <2> QED
    BY <1>1, <2>1 DEF Work
<1> HIDE DEF next
<1>3. /\ work' \in [Slots -> Work] /\ work'[h] = next
      /\ \A g \in Slots \ {h} : work'[g] = work[g]
  BY <1>1, <1>2
<1>4. \A g \in Slots : Creator(g)' <=> Creator(g) /\ g # h
  BY <1>2, <1>3 DEF Creator
<1>5. /\ new \in DeskState /\ new.current = work[h].version
      /\ DOMAIN new.versions = 1 .. Len(desk.versions) + 1
      /\ \A i \in 1 .. Len(desk.versions) : new.versions[i] = desk.versions[i]
      /\ new.versions[Len(desk.versions) + 1] = work[h].version
      /\ \A i \in DOMAIN new.versions : new.versions[i] =< Len(script)
      /\ new.answer = desk.answer /\ new.mounted = desk.mounted
      /\ new.listing = desk.listing /\ new.draft = desk.draft
  BY <1>1, AppendedVersion
<1> HIDE DEF new
\* What the handler's tab is left with: its list, and the text of an import.
<1>6. /\ desk' \in DeskState /\ desk'.mounted = desk.mounted
      /\ desk'.listing = desk.listing /\ desk'.answer = desk.answer
      /\ IF mine THEN desk'.versions = new.versions /\ desk'.current = new.current
                 ELSE desk' = desk
      /\ cached' \in Bodies \cup {None}
      /\ \/ saved /\ desk'.draft = desk.draft /\ typed' = typed /\ unsafe' = unsafe
         \/ ~saved /\ mine /\ typed' = Empty /\ unsafe' = {}
         \/ ~saved /\ UNCHANGED <<cached, desk, typed, unsafe>>
  <2>1. CASE saved
    BY <1>1, <1>5, <2>1 DEF Answer, new
  <2>2. CASE ~saved /\ mine
    <3>1. SetDraft(work[h].body, new) /\ typed' = Empty /\ unsafe' = {}
      BY <1>1, <2>2 DEF Answer, new, Creates
    <3> QED
      BY <1>1, <1>5, <2>2, <3>1 DEF SetDraft, DeskState, Drafts
  <2>3. CASE ~saved /\ ~mine
    BY <1>1, <2>3 DEF Answer
  <2> QED
    BY <2>1, <2>2, <2>3
<1>7. DeskTypeOK' /\ typed' \in Texts \cup {Empty}
  BY <1>1, <1>3, <1>6 DEF DeskInv, DeskTypeOK, Drafts, Bodies
<1>8. Carried'
  BY <1>1, <1>2, <1>3, <1>5, <1>6 DEF DeskInv, Carried
<1>9. Kept'
  <2> SUFFICES ASSUME typed' # Empty, unsafe' = {}, ~InScript'
               PROVE  /\ cached' = typed' /\ desk'.draft \in {Empty, typed'}
                      /\ \A g \in Slots : work'[g].on /\ work'[g].kind = "save" =>
                            /\ work'[g].step = "asked" => work'[g].body = typed'
                            /\ work'[g].step # "ok"
    BY DEF Kept
  <2>1. typed' = typed /\ unsafe' = unsafe /\ (saved => desk'.draft = desk.draft)
        /\ (~saved => UNCHANGED <<cached, desk>>)
    BY <1>6
  <2>2. ~InScript
    BY <1>1, <2>1 DEF InScript
  <2>3. ~saved
    BY <1>1, <2>1, <2>2 DEF DeskInv, Kept
  <2> QED
    BY <1>2, <1>3, <2>1, <2>2, <2>3 DEF DeskInv, Kept
<1>10. InTurn'
  <2>1. CASE ~mine
    BY <1>1, <1>3, <1>4, <1>6, <2>1 DEF DeskInv, InTurn
  <2>2. CASE mine
    <3>1. Creator(h) /\ desk.mounted
      BY <1>1, <2>2 DEF Creator, DeskInv, InTurn
    <3> SUFFICES ASSUME ~crossed
                 PROVE  /\ \A g \in Slots : ~Creator(g)'
                        /\ desk.listing = "none"
                        /\ \A i, j \in DOMAIN new.versions :
                              i < j => new.versions[i] < new.versions[j]
                        /\ \E i \in DOMAIN new.versions : new.versions[i] = new.current
      BY <1>1, <1>6, <2>2, <3>1 DEF InTurn
    <3>2. \A g \in Slots : Creator(g) => g = h
      BY <3>1 DEF DeskInv, InTurn
    <3>3. desk.listing = "none"
      BY <3>1 DEF DeskInv, InTurn
    <3>4. \A i \in DOMAIN desk.versions : desk.versions[i] < work[h].version
      BY <1>1, <3>1 DEF DeskInv, InTurn
    <3>5. \A i, j \in DOMAIN desk.versions :
             i < j => desk.versions[i] < desk.versions[j]
      BY <3>1 DEF DeskInv, InTurn
    <3>6. ASSUME NEW i \in DOMAIN new.versions, NEW j \in DOMAIN new.versions, i < j
          PROVE  new.versions[i] < new.versions[j]
      <4>1. i \in 1 .. Len(desk.versions)
        BY <1>1, <1>5, <3>6
      <4>2. CASE j \in 1 .. Len(desk.versions)
        BY <1>1, <1>5, <3>5, <3>6, <4>1, <4>2
      <4>3. CASE j = Len(desk.versions) + 1
        BY <1>1, <1>5, <3>4, <4>1, <4>3
      <4> QED
        BY <1>1, <1>5, <4>2, <4>3
    <3>7. Len(desk.versions) + 1 \in DOMAIN new.versions
      BY <1>1, <1>5
    <3> QED
      BY <1>4, <1>5, <3>2, <3>3, <3>6, <3>7
  <2> QED
    BY <1>1, <2>1, <2>2
<1> QED
  BY <1>7, <1>8, <1>9, <1>10 DEF DeskInv

LEMMA DeskNextInv ==
    ASSUME DeskInv, [DeskNext]_deskVars
    PROVE  DeskInv'
<1>1. CASE UNCHANGED deskVars
  BY <1>1, DeskStays DEF deskVars, DeskInv, DeskTypeOK
<1>2. ASSUME NEW kind \in Moves, SomebodyMoves(kind) \/ Move(kind) PROVE DeskInv'
  <2>1. /\ stage' \in ScriptStages /\ seenStage' \in ScriptStages
        /\ UNCHANGED <<script, cached, desk, work, typed, unsafe, crossed>>
    BY <1>2 DEF SomebodyMoves, Move, MovesTo, Moves, ScriptStages, DeskInv, DeskTypeOK
  <2> QED
    BY <2>1, DeskStays
<1>3. CASE Mount \/ Unmount \/ Listing
  BY <1>3, MountStep, AskStep, DeliverListStep DEF Listing
<1>4. ASSUME NEW h \in Slots, Answering(h) PROVE DeskInv'
  BY <1>4, ServeStep, AnswerStep, EndedStep DEF Answering
<1> QED
  BY <1>1, <1>2, <1>3, <1>4, SomebodySavesStep, TypeStep, EditorReadyStep,
     SelectVersionStep, PressStep DEF DeskNext

(***************************************************************************)
(* The comment panels.  A load that has met nothing is of the chosen       *)
(* version and read after everything this browser was told, so its list    *)
(* can stand for the truth; from then on one call at a time keeps it so.   *)
(***************************************************************************)
\* Where a comment was made it stays.
Steady ==
    \A n, m \in DOMAIN log, c \in Comments :
        n =< m /\ log[n].of[c] # Nowhere => log[m].of[c] = log[n].of[c]

\* What was read, answered and told is in the log.
InTheLog ==
    /\ \A i \in DOMAIN loads : loads[i].answer =< Len(log)
    /\ \A k \in Calls : call[k].on /\ call[k].commit # 0 =>
          /\ call[k].commit =< Len(log)
          /\ log[call[k].commit].of[call[k].id] = call[k].target
    /\ \A c \in Comments :
          /\ told[c] =< Len(log)
          /\ told[c] # 0 => log[told[c]].of[c] # Nowhere

AllCancelled == \A i \in DOMAIN loads : loads[i].cancelled

\* The script panel cancels no load; one that has met nothing is that of the
\* chosen version or cut, and alone with cancelled ones.
Lone ==
    /\ panel = "script" => \A i \in DOMAIN loads : ~loads[i].cancelled
    /\ \A i \in DOMAIN loads : ~loads[i].met =>
          /\ ~loads[i].cancelled /\ loads[i].target = chosen
          /\ \A j \in DOMAIN loads : j # i => loads[j].cancelled
          /\ \A k \in Calls : ~call[k].on
          /\ loads[i].answer # 0 => \A c \in Comments : told[c] =< loads[i].answer

\* As long as nothing has failed or met, a call is the only one, for the chosen
\* version or cut, and the list has its comment unless the call makes it.
OneCall ==
    clean => \A k \in Calls : call[k].on =>
        /\ AllCancelled /\ call[k].target = chosen
        /\ \A l \in Calls : call[l].on => l = k
        /\ (\E i \in DOMAIN shown : shown[i].id = call[k].id)
              <=> call[k].kind # "comment"
        /\ call[k].commit # 0 => told[call[k].id] =< call[k].commit

\* What RestShowsTheChosen says of a panel at rest.
ShowsTheChosen ==
    /\ \A i \in DOMAIN shown :
          /\ Current.of[shown[i].id] = chosen
          /\ shown[i].at >= told[shown[i].id]
    /\ \A i, j \in DOMAIN shown : shown[i].id = shown[j].id => i = j
    /\ \A c \in Comments :
          told[c] # 0 /\ Current.of[c] = chosen => \E i \in DOMAIN shown : shown[i].id = c

Settled == clean /\ AllCancelled => ShowsTheChosen

PanelInv == PanelTypeOK /\ Steady /\ InTheLog /\ Lone /\ OneCall /\ Settled
-----------------------------------------------------------------------------
\* Sequences.

\* A set as a sequence: each of its elements once.
LEMMA SetAsSequence ==
    ASSUME NEW S, IsFiniteSet(S)
    PROVE  /\ SetToSeq(S) \in Seq(S)
           /\ \A i, j \in DOMAIN SetToSeq(S) : SetToSeq(S)[i] = SetToSeq(S)[j] => i = j
           /\ \A x \in S : \E i \in DOMAIN SetToSeq(S) : SetToSeq(S)[i] = x
<1> DEFINE n == Cardinality(S)
           s == SetToSeq(S)
<1>1. n \in Nat /\ ExistsBijection(1 .. n, S)
  BY FS_CardinalityType
<1>2. \E f \in [1 .. n -> S] : IsInjective(f)
  BY <1>1 DEF ExistsBijection, Bijection, Injection
<1>3. s \in [1 .. n -> S] /\ IsInjective(s)
  BY <1>2 DEF SetToSeq
<1> HIDE DEF s
<1>4. s \in Injection(1 .. n, S)
  BY <1>3 DEF Injection
<1>5. Cardinality(1 .. n) = n
  BY <1>1, FS_Interval
<1>6. s \in Surjection(1 .. n, S)
  BY <1>4, <1>5, FS_Injection
<1>7. s \in Seq(S) /\ DOMAIN s = 1 .. n
  BY <1>1, <1>3
<1> QED
  BY <1>3, <1>6, <1>7 DEF IsInjective, Surjection, s

\* What is left of the loads when the i-th is taken out, each under the place it
\* was at.
Was(i, j) == IF j < i THEN j ELSE j + 1

LEMMA LoadGone ==
    ASSUME PanelTypeOK, NEW i \in DOMAIN loads, loads' = RemoveAt(loads, i)
    PROVE  /\ loads' \in Seq(Load) /\ Len(loads') =< MaxLoads
           /\ \A j \in DOMAIN loads' :
                 /\ Was(i, j) \in DOMAIN loads \ {i} /\ loads'[j] = loads[Was(i, j)]
                 /\ \A k \in DOMAIN loads' : Was(i, j) = Was(i, k) => j = k
           /\ \A g \in DOMAIN loads \ {i} : \E j \in DOMAIN loads' : Was(i, j) = g
<1>1. /\ loads \in Seq(Load) /\ Len(loads) \in Nat /\ Len(loads) =< MaxLoads
      /\ MaxLoads \in Nat /\ DOMAIN loads = 1 .. Len(loads) /\ i \in 1 .. Len(loads)
  BY PanelAssumption DEF PanelTypeOK
<1>2. /\ loads' \in Seq(Load) /\ Len(loads') = Len(loads) - 1
      /\ \A j \in DOMAIN loads' :
            /\ j < i => loads'[j] = loads[j]
            /\ j >= i => loads'[j] = loads[j + 1]
  <2> DEFINE rest == RemoveAt(loads, i)
  <2>1. /\ rest \in Seq(Load) /\ Len(rest) = Len(loads) - 1
        /\ \A j \in DOMAIN rest :
              /\ j < i => rest[j] = loads[j]
              /\ j >= i => rest[j] = loads[j + 1]
    BY <1>1, TakingOut
  <2> HIDE DEF rest
  <2>2. loads' = rest
    BY DEF rest
  <2> QED
    BY <2>1, <2>2
<1>3. DOMAIN loads' = 1 .. Len(loads) - 1
  BY <1>1, <1>2
<1>4. \A j, k \in 1 .. Len(loads) - 1 :
         /\ Was(i, j) \in (1 .. Len(loads)) \ {i}
         /\ Was(i, j) = Was(i, k) => j = k
  BY <1>1 DEF Was
<1>5. \A g \in (1 .. Len(loads)) \ {i} :
         \E j \in 1 .. Len(loads) - 1 : Was(i, j) = g
  <2> TAKE g \in (1 .. Len(loads)) \ {i}
  <2>1. CASE g < i
    <3>1. g \in 1 .. Len(loads) - 1 /\ Was(i, g) = g
      BY <1>1, <2>1 DEF Was
    <3> QED
      BY <3>1
  <2>2. CASE g > i
    <3>1. g - 1 \in 1 .. Len(loads) - 1 /\ Was(i, g - 1) = g
      BY <1>1, <2>2 DEF Was
    <3> QED
      BY <3>1
  <2> QED
    BY <1>1, <2>1, <2>2
<1>6. \A j \in DOMAIN loads' : loads'[j] = loads[Was(i, j)]
  BY <1>1, <1>2, <1>3 DEF Was
<1>7. Len(loads') =< MaxLoads
  BY <1>1, <1>2
<1>8. \A j \in DOMAIN loads' :
         /\ Was(i, j) \in DOMAIN loads \ {i} /\ loads'[j] = loads[Was(i, j)]
         /\ \A k \in DOMAIN loads' : Was(i, j) = Was(i, k) => j = k
  BY <1>1, <1>3, <1>4, <1>6
<1>9. \A g \in DOMAIN loads \ {i} : \E j \in DOMAIN loads' : Was(i, j) = g
  BY <1>1, <1>3, <1>5
<1> QED
  BY <1>2, <1>7, <1>8, <1>9

-----------------------------------------------------------------------------
LEMMA PanelShape ==
    ASSUME PanelTypeOK
    PROVE  /\ log \in Seq(State) /\ Len(log) \in 1 .. MaxCommits + 1
           /\ Len(log) \in Nat \ {0} /\ MaxCommits \in Nat /\ MaxLoads \in Nat
           /\ DOMAIN log = 1 .. Len(log) /\ \A n \in DOMAIN log : log[n] \in State
           /\ Current \in State /\ Len(log) \in DOMAIN log
           /\ loads \in Seq(Load) /\ Len(loads) \in Nat
           /\ DOMAIN loads = 1 .. Len(loads)
           /\ \A i \in DOMAIN loads : loads[i] \in Load
           /\ shown \in Seq(Entry) /\ Len(shown) \in Nat
           /\ DOMAIN shown = 1 .. Len(shown)
           /\ \A i \in DOMAIN shown : shown[i] \in Entry
<1>1. /\ log \in Seq(State) /\ Len(log) \in 1 .. MaxCommits + 1
      /\ MaxCommits \in Nat /\ MaxLoads \in Nat
      /\ loads \in Seq(Load) /\ shown \in Seq(Entry)
  BY PanelAssumption DEF PanelTypeOK
<1>2. Len(log) \in Nat \ {0}
  BY <1>1
<1>3. Len(log) \in DOMAIN log /\ \A n \in DOMAIN log : log[n] \in State
  BY <1>1, <1>2
<1> QED
  BY <1>1, <1>2, <1>3 DEF Current

LEMMA NoCallIsCall == NoCall \in Call /\ ~NoCall.on
<1>1. 0 \in 0 .. MaxCommits + 1
  BY PanelAssumption
<1>2. (CHOOSE t \in Targets : TRUE) \in Targets /\ (CHOOSE c \in Comments : TRUE) \in Comments
  BY PanelAssumption
<1> QED
  BY <1>1, <1>2 DEF NoCall, Call, Kinds

LEMMA PanelInitInv == PanelInit => PanelInv
<1> SUFFICES ASSUME PanelInit PROVE PanelInv
  OBVIOUS
<1> DEFINE first == [of |-> [c \in Comments |-> Nowhere],
                     resolved |-> [c \in Comments |-> FALSE]]
           load  == [target |-> chosen, answer |-> 0, cancelled |-> FALSE,
                     met |-> FALSE]
<1>1. /\ panel \in {"script", "edit"} /\ log = <<first>> /\ loads = <<load>>
      /\ shown = <<>> /\ loading \in BOOLEAN /\ clean = TRUE
      /\ call = [k \in Calls |-> NoCall] /\ told = [x \in Comments |-> 0]
      /\ MaxCommits \in Nat /\ MaxLoads \in Nat \ {0}
  BY PanelAssumption DEF PanelInit
<1>2. chosen \in Targets
  BY PanelAssumption DEF PanelInit
<1>3. first \in State /\ \A c \in Comments : first.of[c] = Nowhere
  BY DEF State
<1>4. load \in Load /\ load.answer = 0 /\ ~load.cancelled /\ load.target = chosen
  <2>1. 0 \in 0 .. MaxCommits + 1
    BY <1>1
  <2> QED
    BY <1>2, <2>1 DEF Load
<1> HIDE DEF first, load
<1>5. /\ log \in Seq(State) /\ Len(log) = 1 /\ DOMAIN log = {1} /\ log[1] = first
      /\ loads \in Seq(Load) /\ Len(loads) = 1 /\ DOMAIN loads = {1} /\ loads[1] = load
  BY <1>1, <1>3, <1>4
<1>6. \A k \in Calls : ~call[k].on
  BY <1>1, NoCallIsCall
<1>7. PanelTypeOK
  <2>1. Len(log) \in 1 .. MaxCommits + 1 /\ Len(loads) =< MaxLoads /\ 0 \in 0 .. MaxCommits + 1
    BY <1>1, <1>5
  <2>2. shown \in Seq(Entry)
    BY <1>1
  <2>3. call \in [Calls -> Call] /\ told \in [Comments -> 0 .. MaxCommits + 1]
    BY <1>1, <2>1, NoCallIsCall
  <2> QED
    BY <1>1, <1>2, <1>5, <2>1, <2>2, <2>3 DEF PanelTypeOK
<1>8. Steady
  BY <1>3, <1>5 DEF Steady
<1>9. InTheLog
  BY <1>1, <1>4, <1>5, <1>6 DEF InTheLog
<1>10. Lone /\ OneCall
  BY <1>4, <1>5, <1>6 DEF Lone, OneCall
<1>11. Settled
  BY <1>4, <1>5 DEF Settled, AllCancelled
<1> QED
  BY <1>7, <1>8, <1>9, <1>10, <1>11 DEF PanelInv

-----------------------------------------------------------------------------
\* The service: a commit adds a state, and no comment moves.
Grown ==
    /\ log' \in Seq(State) /\ Len(log') \in 1 .. MaxCommits + 1
    /\ Len(log) =< Len(log') /\ \A n \in DOMAIN log : log'[n] = log[n]
    /\ \A c \in Comments : Current.of[c] # Nowhere => Current'.of[c] = Current.of[c]
    /\ Steady'

LEMMA WriteStep ==
    ASSUME PanelTypeOK, Steady, NEW kind \in Kinds, NEW t \in Targets,
           NEW c \in Comments, Write(kind, t, c)
    PROVE  Grown /\ Current'.of[c] = t
<1> DEFINE next == After(kind, t, c)
<1>1. /\ log \in Seq(State) /\ Len(log) \in Nat \ {0} /\ Current \in State
      /\ Len(log) \in 1 .. MaxCommits + 1 /\ MaxCommits \in Nat
      /\ DOMAIN log = 1 .. Len(log)
  BY PanelShape
<1>2. /\ next \in State /\ next.of[c] = t
      /\ \A d \in Comments : Current.of[d] # Nowhere => next.of[d] = Current.of[d]
  <2>1. CASE kind = "comment"
    <3>1. next = [Current EXCEPT !.of[c] = t] /\ Current.of[c] = Nowhere
      BY <2>1 DEF After, Write
    <3> QED
      BY <1>1, <3>1, PanelAssumption DEF State
  <2>2. CASE kind # "comment"
    <3>1. PICK b \in BOOLEAN :
             next = [Current EXCEPT !.resolved[c] = b] /\ Current.of[c] = t
      BY <2>2 DEF After, Write
    <3> DEFINE resolved == [Current.resolved EXCEPT ![c] = b]
    <3>2. /\ Current = [of |-> Current.of, resolved |-> Current.resolved]
          /\ Current.of \in [Comments -> Targets \cup {Nowhere}]
          /\ Current.resolved \in [Comments -> BOOLEAN]
      BY <1>1 DEF State
    <3>3. resolved \in [Comments -> BOOLEAN]
      BY <3>2, Zenon
    <3>4. next = [of |-> Current.of, resolved |-> resolved]
      BY <3>1, <3>2
    <3> HIDE DEF resolved, next
    <3>5. next \in State /\ next.of = Current.of
      BY <3>2, <3>3, <3>4 DEF State
    <3> QED
      BY <3>1, <3>5
  <2> QED
    BY <2>1, <2>2
<1>3. CASE log' = log
  <2>1. next = Current \/ log' = Append(log, next)
    BY DEF Write
  <2>2. next = Current
    <3> HIDE DEF next
    <3>1. Len(Append(log, next)) = Len(log) + 1
      BY <1>1, <1>2, AppendProperties
    <3>0. Len(log) \in Nat
      BY <1>1
    <3>2. Len(log) # Len(log) + 1
      BY <3>0
    <3> QED
      BY <1>3, <2>1, <3>1, <3>2
  <2> QED
    BY <1>1, <1>2, <1>3, <2>2 DEF Grown, Steady, Current
<1>4. CASE log' # log
  <2>1. Len(log) =< MaxCommits /\ log' = Append(log, next)
    BY <1>4 DEF Write
  <2> HIDE DEF next
  <2>2. /\ log' \in Seq(State) /\ Len(log') = Len(log) + 1
        /\ \A n \in 1 .. Len(log) : log'[n] = log[n]
        /\ log'[Len(log) + 1] = next
    BY <1>1, <1>2, <2>1, AppendProperties
  <2>3. DOMAIN log' = 1 .. Len(log) + 1 /\ Len(log') \in 1 .. MaxCommits + 1
    BY <1>1, <2>1, <2>2
  <2>4. Current' = next
    BY <2>2 DEF Current
  <2>5. Steady'
    <3> SUFFICES ASSUME NEW n \in 1 .. Len(log) + 1, NEW m \in 1 .. Len(log) + 1,
                        NEW d \in Comments, n =< m, log'[n].of[d] # Nowhere
                 PROVE  log'[m].of[d] = log'[n].of[d]
      BY <2>3 DEF Steady
    <3>1. CASE m \in 1 .. Len(log)
      BY <1>1, <2>2, <3>1 DEF Steady
    <3>2. CASE m = Len(log) + 1 /\ n = m
      BY <3>2
    <3>3. CASE m = Len(log) + 1 /\ n \in 1 .. Len(log)
      <4>1. Len(log) \in DOMAIN log /\ n \in DOMAIN log /\ n =< Len(log)
        BY <1>1, <3>3
      <4>2. log[Len(log)].of[d] = log[n].of[d] /\ log[n].of[d] # Nowhere
        BY <2>2, <3>3, <4>1 DEF Steady
      <4> QED
        BY <1>2, <2>2, <3>3, <4>2 DEF Current
    <3> QED
      BY <1>1, <3>1, <3>2, <3>3
  <2> QED
    BY <1>1, <1>2, <2>2, <2>3, <2>4, <2>5 DEF Grown
<1> QED
  BY <1>3, <1>4

\* What a comment was told of, and where it is shown, it stays.
LEMMA GrownShows ==
    ASSUME PanelInv, Grown, UNCHANGED <<chosen, shown, told>>
    PROVE  ShowsTheChosen => ShowsTheChosen'
<1>1. \A c \in Comments : told[c] # 0 => Current.of[c] # Nowhere
  <2> TAKE c \in Comments
  <2> HAVE told[c] # 0
  <2>1. /\ told[c] \in DOMAIN log /\ Len(log) \in DOMAIN log
        /\ told[c] =< Len(log)
    BY PanelShape DEF PanelInv, PanelTypeOK, InTheLog
  <2>2. log[told[c]].of[c] # Nowhere
    BY DEF PanelInv, InTheLog
  <2> QED
    BY <2>1, <2>2 DEF PanelInv, Steady, Current
<1>2. chosen # Nowhere
  BY PanelAssumption DEF PanelInv, PanelTypeOK
<1>3. \A i \in DOMAIN shown : shown[i].id \in Comments
  BY PanelShape DEF PanelInv, Entry
<1> SUFFICES ASSUME ShowsTheChosen PROVE ShowsTheChosen'
  OBVIOUS
<1> QED
  BY <1>1, <1>2, <1>3 DEF ShowsTheChosen, Grown

LEMMA SomebodyStep ==
    ASSUME PanelInv, NEW kind \in Kinds, NEW t \in Targets, NEW c \in Comments,
           Somebody(kind, t, c)
    PROVE  PanelInv'
<1>1. /\ Grown
      /\ UNCHANGED <<panel, chosen, shown, loading, loads, call, told, clean>>
  BY WriteStep DEF Somebody, PanelInv
<1>2. PanelTypeOK'
  BY <1>1 DEF PanelInv, PanelTypeOK, Grown
<1>3. InTheLog'
  <2>1. \A n \in 0 .. MaxCommits + 1 : n =< Len(log) =>
           n =< Len(log') /\ (n # 0 => n \in DOMAIN log)
    BY <1>1, PanelShape DEF Grown, PanelInv
  <2>2. /\ \A i \in DOMAIN loads : loads[i].answer \in 0 .. MaxCommits + 1
        /\ \A k \in Calls : call[k].commit \in 0 .. MaxCommits + 1
        /\ \A d \in Comments : told[d] \in 0 .. MaxCommits + 1
    BY PanelShape DEF PanelInv, PanelTypeOK, Load, Call
  <2> QED
    BY <1>1, <2>1, <2>2 DEF PanelInv, InTheLog, Grown
<1>4. Lone' /\ OneCall'
  BY <1>1 DEF PanelInv, Lone, OneCall, AllCancelled
<1>5. Settled'
  BY <1>1, GrownShows DEF PanelInv, Settled, AllCancelled
<1> QED
  BY <1>1, <1>2, <1>3, <1>4, <1>5 DEF PanelInv, Grown

\* A call is recorded: it alone was out, if nothing has met.
LEMMA ServeCallStep ==
    ASSUME PanelInv, NEW k \in Calls, ServeCall(k)
    PROVE  PanelInv'
<1>1. /\ call \in [Calls -> Call] /\ call[k].on /\ call[k].commit = 0
      /\ call' = [call EXCEPT ![k].commit = Len(log')]
      /\ UNCHANGED <<panel, chosen, shown, loading, loads, told, clean>>
      /\ Write(call[k].kind, call[k].target, call[k].id) /\ PanelTypeOK /\ Steady
      /\ call[k].kind \in Kinds /\ call[k].target \in Targets /\ call[k].id \in Comments
  BY DEF ServeCall, PanelInv, PanelTypeOK, Call
<1>2. Grown /\ Current'.of[call[k].id] = call[k].target
  BY <1>1, WriteStep
<1>3. Len(log') \in 1 .. MaxCommits + 1 /\ Len(log') \in Nat /\ Len(log) \in Nat
      /\ Len(log) =< Len(log') /\ MaxCommits \in Nat
  BY <1>1, <1>2, PanelShape DEF Grown
<1> DEFINE next == [call[k] EXCEPT !.commit = Len(log')]
<1>4. /\ next \in Call /\ next.on /\ next.commit = Len(log')
      /\ next.kind = call[k].kind /\ next.target = call[k].target
      /\ next.id = call[k].id
  <2>1. Len(log') \in 0 .. MaxCommits + 1
    BY <1>3
  <2> QED
    BY <1>1, <2>1 DEF Call
<1>5. call' = [call EXCEPT ![k] = next]
  BY <1>1
<1> HIDE DEF next
<1>6. /\ call' \in [Calls -> Call] /\ call'[k] = next
      /\ \A l \in Calls \ {k} : call'[l] = call[l]
  BY <1>1, <1>4, <1>5
<1>7. PanelTypeOK'
  BY <1>1, <1>2, <1>6 DEF PanelTypeOK, Grown
<1>8. InTheLog'
  <2>1. \A n \in 0 .. MaxCommits + 1 : n =< Len(log) =>
           n =< Len(log') /\ (n # 0 => log'[n] = log[n])
    BY <1>1, <1>2, <1>3, PanelShape DEF Grown
  <2>2. /\ \A i \in DOMAIN loads : loads[i].answer \in 0 .. MaxCommits + 1
        /\ \A l \in Calls : call[l].commit \in 0 .. MaxCommits + 1
        /\ \A d \in Comments : told[d] \in 0 .. MaxCommits + 1
    BY <1>1, PanelShape DEF PanelTypeOK, Load, Call
  <2>3. log'[Len(log')].of[call[k].id] = call[k].target
    BY <1>2 DEF Current
  <2>4. \A l \in Calls : call'[l].on /\ call'[l].commit # 0 =>
           /\ call'[l].commit =< Len(log')
           /\ log'[call'[l].commit].of[call'[l].id] = call'[l].target
    <3> TAKE l \in Calls
    <3>1. CASE l = k
      BY <1>3, <1>4, <1>6, <2>3, <3>1
    <3>2. CASE l # k
      BY <1>6, <2>1, <2>2, <3>2 DEF PanelInv, InTheLog
    <3> QED
      BY <3>1, <3>2
  <2> QED
    BY <1>1, <2>1, <2>2, <2>4 DEF PanelInv, InTheLog
<1>9. \A l \in Calls : /\ call'[l].on <=> call[l].on
                       /\ call'[l].kind = call[l].kind
                       /\ call'[l].target = call[l].target
                       /\ call'[l].id = call[l].id
  BY <1>1, <1>4, <1>6
<1>10. Lone'
  BY <1>1, <1>9 DEF PanelInv, Lone
<1>11. OneCall'
  <2>1. told[call[k].id] =< Len(log')
    <3>1. told[call[k].id] =< Len(log) /\ told[call[k].id] \in Nat
      BY <1>1, <1>3 DEF PanelInv, InTheLog, PanelTypeOK
    <3> QED
      BY <1>3, <3>1
  <2>2. \A l \in Calls : call'[l].on /\ call'[l].commit # 0 /\ clean =>
           told[call'[l].id] =< call'[l].commit
    BY <1>1, <1>4, <1>6, <2>1 DEF PanelInv, OneCall
  <2> QED
    BY <1>1, <1>9, <2>2 DEF PanelInv, OneCall, AllCancelled
<1>12. Settled'
  BY <1>1, <1>2, GrownShows DEF PanelInv, Settled, AllCancelled
<1> QED
  BY <1>2, <1>7, <1>8, <1>10, <1>11, <1>12 DEF PanelInv, Grown

-----------------------------------------------------------------------------
\* Another version or cut is chosen: its load meets the calls that are out, and
\* the loads that are not cancelled.
LEMMA ChooseStep ==
    ASSUME PanelInv, NEW t \in Targets, Choose(t)
    PROVE  PanelInv'
<1> DEFINE cancelling == panel = "edit"
           dropped == [i \in DOMAIN loads |->
                         [loads[i] EXCEPT !.cancelled = cancelling, !.met = TRUE]]
           asked == [target |-> t, answer |-> 0, cancelled |-> FALSE,
                     met |-> ~Alone(cancelling)]
           n == Len(loads)
<1>1. /\ loads \in Seq(Load) /\ n \in Nat /\ DOMAIN loads = 1 .. n
      /\ MaxCommits \in Nat /\ MaxLoads \in Nat /\ n < MaxLoads
      /\ \A i \in 1 .. n : loads[i] \in Load
      /\ cancelling \in BOOLEAN /\ Alone(cancelling) \in BOOLEAN
      /\ panel \in {"script", "edit"} /\ clean \in BOOLEAN /\ Len(log) \in Nat
  BY PanelShape DEF PanelInv, PanelTypeOK, Choose, Ask, Alone
<1>2. /\ loads' = Append(dropped, asked) /\ loading' \in BOOLEAN
      /\ clean' = (clean /\ Alone(cancelling)) /\ chosen' = t
      /\ UNCHANGED <<panel, log, shown, call, told>>
  BY DEF Choose, Ask
<1>3. /\ asked \in Load /\ asked.target = t /\ asked.answer = 0 /\ ~asked.cancelled
      /\ asked.met <=> ~Alone(cancelling)
  <2>1. 0 \in 0 .. MaxCommits + 1
    BY <1>1
  <2> QED
    BY <1>1, <2>1 DEF Load
<1>4. \A i \in 1 .. n : /\ dropped[i] \in Load /\ dropped[i].met
                        /\ dropped[i].cancelled <=> cancelling
                        /\ dropped[i].answer = loads[i].answer
  <2> TAKE i \in 1 .. n
  <2>1. dropped[i] = [loads[i] EXCEPT !.cancelled = cancelling, !.met = TRUE]
    BY <1>1
  <2> QED
    BY <1>1, <2>1 DEF Load
<1>5. dropped \in Seq(Load) /\ Len(dropped) = n
  <2>1. dropped \in [1 .. n -> Load] /\ n \in Nat
    BY <1>1, <1>4
  <2> HIDE DEF dropped, n
  <2> QED
    BY <2>1
<1> HIDE DEF dropped, asked
<1>6. /\ loads' \in Seq(Load) /\ Len(loads') = n + 1
      /\ \A i \in 1 .. n : loads'[i] = dropped[i]
      /\ loads'[n + 1] = asked
  BY <1>2, <1>3, <1>5, AppendProperties
<1>7. /\ DOMAIN loads' = 1 .. n + 1
      /\ \A i \in 1 .. n + 1 : i \in 1 .. n \/ i = n + 1
      /\ n + 1 \in 1 .. n + 1 /\ n + 1 =< MaxLoads
  BY <1>1, <1>6
<1> HIDE DEF cancelling, n
<1>8. PanelTypeOK'
  BY <1>1, <1>2, <1>6, <1>7 DEF PanelInv, PanelTypeOK
<1>9. Steady'
  BY <1>2 DEF PanelInv, Steady
<1>10. InTheLog'
  <2>1. \A i \in DOMAIN loads' : loads'[i].answer =< Len(log)
    BY <1>1, <1>3, <1>4, <1>6, <1>7 DEF PanelInv, InTheLog
  <2> QED
    BY <1>2, <2>1 DEF PanelInv, InTheLog
<1>11. Alone(cancelling) => /\ \A k \in Calls : ~call[k].on
                            /\ \A i \in 1 .. n : dropped[i].cancelled
  BY <1>1, <1>4 DEF Alone, PanelInv, Lone, cancelling
<1>12. Lone'
  <2>1. panel = "script" => \A i \in DOMAIN loads' : ~loads'[i].cancelled
    BY <1>3, <1>4, <1>6, <1>7 DEF cancelling
  <2>2. \A i \in DOMAIN loads' : ~loads'[i].met => i = n + 1 /\ Alone(cancelling)
    BY <1>3, <1>4, <1>6, <1>7
  <2> QED
    BY <1>2, <1>3, <1>6, <1>7, <1>11, <2>1, <2>2 DEF Lone
<1>13. OneCall'
  BY <1>2, <1>11 DEF OneCall
<1>14. Settled'
  BY <1>3, <1>6, <1>7 DEF Settled, AllCancelled
<1> QED
  BY <1>8, <1>9, <1>10, <1>12, <1>13, <1>14 DEF PanelInv

\* A load is read from the log: after all that was told.
LEMMA ServeLoadStep ==
    ASSUME PanelInv, NEW i \in DOMAIN loads, ServeLoad(i)
    PROVE  PanelInv'
<1> DEFINE next == [loads[i] EXCEPT !.answer = Len(log)]
<1>1. /\ loads \in Seq(Load) /\ Len(loads) \in Nat /\ DOMAIN loads = 1 .. Len(loads)
      /\ loads[i] \in Load /\ Len(log) \in 1 .. MaxCommits + 1 /\ MaxCommits \in Nat
      /\ loads' = [loads EXCEPT ![i] = next]
      /\ UNCHANGED <<panel, log, chosen, shown, loading, call, told, clean>>
  BY PanelShape DEF PanelInv, ServeLoad
<1>2. /\ next \in Load /\ next.answer = Len(log) /\ next.met = loads[i].met
      /\ next.cancelled = loads[i].cancelled /\ next.target = loads[i].target
  <2>1. Len(log) \in 0 .. MaxCommits + 1
    BY <1>1
  <2> QED
    BY <1>1, <2>1 DEF Load
<1> HIDE DEF next
<1>3. /\ loads' \in Seq(Load) /\ Len(loads') = Len(loads) /\ loads'[i] = next
      /\ DOMAIN loads' = DOMAIN loads
      /\ \A j \in DOMAIN loads : j # i => loads'[j] = loads[j]
  BY <1>1, <1>2, ExceptSeq
<1>4. PanelTypeOK' /\ Steady'
  BY <1>1, <1>3 DEF PanelInv, PanelTypeOK, Steady
<1>5. InTheLog'
  <2>1. \A j \in DOMAIN loads' : loads'[j].answer =< Len(log)
    BY <1>1, <1>2, <1>3 DEF PanelInv, InTheLog
  <2> QED
    BY <1>1, <2>1 DEF PanelInv, InTheLog
<1>6. \A j \in DOMAIN loads : /\ loads'[j].met = loads[j].met
                              /\ loads'[j].cancelled = loads[j].cancelled
                              /\ loads'[j].target = loads[j].target
                              /\ j # i => loads'[j].answer = loads[j].answer
  BY <1>2, <1>3
<1>7. Lone'
  BY <1>1, <1>2, <1>3, <1>6 DEF PanelInv, Lone, InTheLog
<1>8. AllCancelled' <=> AllCancelled
  BY <1>3, <1>6 DEF AllCancelled
<1>9. OneCall'
  BY <1>1, <1>8 DEF PanelInv, OneCall
<1>10. Settled'
  <2>1. ShowsTheChosen' <=> ShowsTheChosen
    BY <1>1 DEF ShowsTheChosen, Current
  <2> QED
    BY <1>1, <1>8, <2>1 DEF PanelInv, Settled
<1> QED
  BY <1>4, <1>5, <1>7, <1>9, <1>10 DEF PanelInv

-----------------------------------------------------------------------------
\* A list holds the comments of its version or cut, each once.
LEMMA ListedShape ==
    ASSUME PanelTypeOK, NEW t \in Targets, NEW n \in DOMAIN log
    PROVE  /\ Listed(t, n) \in Seq(Entry)
           /\ \A i \in DOMAIN Listed(t, n) :
                 /\ Listed(t, n)[i].id \in Comments /\ Listed(t, n)[i].at = n
                 /\ log[n].of[Listed(t, n)[i].id] = t
           /\ \A i, j \in DOMAIN Listed(t, n) :
                 Listed(t, n)[i].id = Listed(t, n)[j].id => i = j
           /\ \A c \in Comments : log[n].of[c] = t =>
                 \E i \in DOMAIN Listed(t, n) : Listed(t, n)[i].id = c
<1> DEFINE of == {c \in Comments : log[n].of[c] = t}
           ids == SetToSeq(of)
           rows == [i \in DOMAIN ids |-> [id |-> ids[i], at |-> n]]
<1>1. IsFiniteSet(of)
  BY PanelAssumption, FS_Subset
<1>2. /\ ids \in Seq(of)
      /\ \A i, j \in DOMAIN ids : ids[i] = ids[j] => i = j
      /\ \A c \in of : \E i \in DOMAIN ids : ids[i] = c
  <2> HIDE DEF of
  <2> QED
    BY <1>1, SetAsSequence
<1> HIDE DEF ids
<1>3. /\ Len(ids) \in Nat /\ DOMAIN ids = 1 .. Len(ids)
      /\ \A i \in DOMAIN ids : ids[i] \in of
  BY <1>2
<1>4. n \in 1 .. MaxCommits + 1
  BY PanelShape
<1>5. \A i \in DOMAIN ids : /\ rows[i] \in Entry /\ rows[i].id = ids[i]
                            /\ rows[i].at = n
  BY <1>3, <1>4 DEF Entry
<1>6. Listed(t, n) = rows
  BY DEF Listed, ids
<1>7. rows \in Seq(Entry) /\ DOMAIN rows = DOMAIN ids
  <2>1. rows \in [1 .. Len(ids) -> Entry] /\ DOMAIN rows = DOMAIN ids
    BY <1>3, <1>5
  <2> HIDE DEF rows
  <2> QED
    BY <1>3, <2>1
<1> HIDE DEF rows
<1> QED
  BY <1>2, <1>3, <1>5, <1>6, <1>7

\* A load that is gone leaves the others as they were.
LEMMA OtherLoads ==
    ASSUME PanelInv, NEW i \in DOMAIN loads, loads' = RemoveAt(loads, i),
           UNCHANGED <<panel, chosen, call, told>>
    PROVE  /\ Lone' /\ loads' \in Seq(Load) /\ Len(loads') =< MaxLoads
           /\ \A j \in DOMAIN loads' : loads'[j].answer =< Len(log)
           /\ loads[i].cancelled => (AllCancelled' <=> AllCancelled)
<1>1. /\ loads' \in Seq(Load) /\ Len(loads') =< MaxLoads
      /\ \A j \in DOMAIN loads' :
            /\ Was(i, j) \in DOMAIN loads \ {i} /\ loads'[j] = loads[Was(i, j)]
            /\ \A k \in DOMAIN loads' : Was(i, j) = Was(i, k) => j = k
      /\ \A g \in DOMAIN loads \ {i} : \E j \in DOMAIN loads' : Was(i, j) = g
  BY LoadGone DEF PanelInv
<1>2. Lone'
  <2>1. panel = "script" => \A j \in DOMAIN loads' : ~loads'[j].cancelled
    BY <1>1 DEF PanelInv, Lone
  <2>2. ASSUME NEW j \in DOMAIN loads', ~loads'[j].met
        PROVE  /\ ~loads'[j].cancelled /\ loads'[j].target = chosen
               /\ \A k \in DOMAIN loads' : k # j => loads'[k].cancelled
               /\ \A k \in Calls : ~call[k].on
               /\ loads'[j].answer # 0 => \A c \in Comments : told[c] =< loads'[j].answer
    <3>1. Was(i, j) \in DOMAIN loads /\ loads'[j] = loads[Was(i, j)]
      BY <1>1
    <3>2. \A k \in DOMAIN loads' : k # j =>
             Was(i, k) \in DOMAIN loads /\ Was(i, k) # Was(i, j)
      BY <1>1
    <3> QED
      BY <1>1, <2>2, <3>1, <3>2 DEF PanelInv, Lone
  <2> QED
    BY <2>1, <2>2 DEF Lone
<1>3. \A j \in DOMAIN loads' : loads'[j].answer =< Len(log)
  BY <1>1 DEF PanelInv, InTheLog
<1>4. loads[i].cancelled => (AllCancelled' <=> AllCancelled)
  BY <1>1 DEF AllCancelled
<1> QED
  BY <1>1, <1>2, <1>3, <1>4

\* A load that was cancelled comes or fails, or any other fails.
LEMMA LoadDropped ==
    ASSUME PanelInv, NEW i \in DOMAIN loads, loads' = RemoveAt(loads, i),
           UNCHANGED <<panel, log, chosen, shown, call, told>>,
           loading' \in BOOLEAN, clean' \in BOOLEAN,
           IF loads[i].cancelled THEN clean' = clean ELSE ~clean'
    PROVE  PanelInv'
<1>1. /\ Lone' /\ loads' \in Seq(Load) /\ Len(loads') =< MaxLoads
      /\ \A j \in DOMAIN loads' : loads'[j].answer =< Len(log)
      /\ loads[i].cancelled => (AllCancelled' <=> AllCancelled)
  BY OtherLoads
<1>2. PanelTypeOK' /\ Steady' /\ InTheLog'
  BY <1>1 DEF PanelInv, PanelTypeOK, Steady, InTheLog
<1>3. OneCall'
  BY <1>1 DEF PanelInv, OneCall
<1>4. Settled'
  <2>1. ShowsTheChosen' <=> ShowsTheChosen
    BY DEF ShowsTheChosen, Current
  <2> QED
    BY <1>1, <2>1 DEF PanelInv, Settled
<1> QED
  BY <1>1, <1>2, <1>3, <1>4 DEF PanelInv

LEMMA FailLoadStep ==
    ASSUME PanelInv, NEW i \in DOMAIN loads, FailLoad(i)
    PROVE  PanelInv'
<1>1. loads[i].cancelled \in BOOLEAN /\ clean \in BOOLEAN
  BY PanelShape DEF PanelInv, PanelTypeOK, Load
<1> QED
  BY <1>1, LoadDropped DEF FailLoad

\* A load comes: if it has met nothing, it is the truth about the chosen one.
LEMMA DeliverLoadStep ==
    ASSUME PanelInv, NEW i \in DOMAIN loads, DeliverLoad(i)
    PROVE  PanelInv'
<1>1. /\ loads[i] \in Load /\ clean \in BOOLEAN /\ loads[i].answer # 0
      /\ loads[i].answer =< Len(log) /\ Len(log) \in Nat \ {0}
      /\ DOMAIN log = 1 .. Len(log) /\ loading' = FALSE
      /\ loads' = RemoveAt(loads, i) /\ UNCHANGED <<panel, log, chosen, call, told>>
  BY PanelShape DEF PanelInv, PanelTypeOK, InTheLog, DeliverLoad
<1>2. CASE loads[i].cancelled
  BY <1>1, <1>2, LoadDropped DEF DeliverLoad
<1>3. CASE ~loads[i].cancelled
  <2> DEFINE t == loads[i].target
             n == loads[i].answer
             rows == Listed(t, n)
  <2>1. shown' = rows /\ clean' = ~loads[i].met /\ clean' \in BOOLEAN
    BY <1>1, <1>3 DEF DeliverLoad, Load
  <2>2. t \in Targets /\ n \in DOMAIN log /\ Len(log) \in DOMAIN log /\ n =< Len(log)
    BY <1>1 DEF Load
  <2>3. /\ rows \in Seq(Entry)
        /\ \A j \in DOMAIN rows : /\ rows[j].id \in Comments /\ rows[j].at = n
                                  /\ log[n].of[rows[j].id] = t
        /\ \A j, k \in DOMAIN rows : rows[j].id = rows[k].id => j = k
        /\ \A c \in Comments : log[n].of[c] = t => \E j \in DOMAIN rows : rows[j].id = c
    BY <2>2, ListedShape DEF PanelInv
  <2> HIDE DEF t, n, rows
  <2>4. /\ Lone' /\ loads' \in Seq(Load) /\ Len(loads') =< MaxLoads
        /\ \A j \in DOMAIN loads' : loads'[j].answer =< Len(log)
    BY <1>1, OtherLoads
  <2>5. PanelTypeOK' /\ Steady' /\ InTheLog'
    <3>1. shown' \in Seq(Entry) /\ clean' \in BOOLEAN /\ loading' \in BOOLEAN
      BY <1>1, <2>1, <2>3
    <3>2. PanelTypeOK'
      BY <1>1, <2>4, <3>1 DEF PanelInv, PanelTypeOK
    <3> QED
      BY <1>1, <2>4, <3>2 DEF PanelInv, Steady, InTheLog
  <2>6. ASSUME clean'
        PROVE  /\ t = chosen /\ \A k \in Calls : ~call[k].on
               /\ \A c \in Comments : told[c] =< n
    BY <1>1, <2>1, <2>6 DEF PanelInv, Lone, t, n
  <2>7. OneCall'
    BY <1>1, <2>6 DEF OneCall
  <2>8. ASSUME clean' PROVE ShowsTheChosen'
    <3>1. \A c \in Comments : log[n].of[c] # Nowhere => Current.of[c] = log[n].of[c]
      BY <2>2 DEF PanelInv, Steady, Current
    <3>2. chosen # Nowhere
      BY PanelAssumption DEF PanelInv, PanelTypeOK
    <3>3. \A j \in DOMAIN rows : Current.of[rows[j].id] = chosen /\ rows[j].at >= told[rows[j].id]
      <4> TAKE j \in DOMAIN rows
      <4>1. rows[j].id \in Comments /\ rows[j].at = n /\ log[n].of[rows[j].id] = chosen
        BY <2>3, <2>6, <2>8
      <4>2. told[rows[j].id] =< n /\ told[rows[j].id] \in Nat /\ n \in Nat
        BY <1>1, <2>2, <2>6, <2>8, <4>1, PanelAssumption DEF PanelInv, PanelTypeOK
      <4> QED
        BY <3>1, <3>2, <4>1, <4>2
    <3>4. ASSUME NEW c \in Comments, told[c] # 0, Current.of[c] = chosen
          PROVE  \E j \in DOMAIN rows : rows[j].id = c
      <4>1. told[c] \in 0 .. MaxCommits + 1 /\ told[c] =< n /\ MaxCommits \in Nat
        BY <2>6, <2>8, PanelAssumption DEF PanelInv, PanelTypeOK
      <4>2. told[c] \in DOMAIN log
        BY <1>1, <2>2, <3>4, <4>1
      <4>3. log[told[c]].of[c] # Nowhere
        BY <3>4 DEF PanelInv, InTheLog
      <4>4. log[n].of[c] = log[told[c]].of[c]
        BY <2>2, <4>1, <4>2, <4>3 DEF PanelInv, Steady
      <4>5. log[n].of[c] = chosen
        BY <3>1, <3>4, <4>3, <4>4
      <4> QED
        BY <2>3, <2>6, <2>8, <4>5
    <3>5. Current' = Current
      BY <1>1 DEF Current
    <3> QED
      BY <1>1, <2>1, <2>3, <3>3, <3>4, <3>5 DEF ShowsTheChosen
  <2> QED
    BY <2>4, <2>5, <2>7, <2>8 DEF PanelInv, Settled
<1> QED
  BY <1>2, <1>3

-----------------------------------------------------------------------------
\* A call is sent: every load that is out has met it.
LEMMA SendStep ==
    ASSUME PanelInv, NEW kind \in Kinds, NEW c \in Comments, Send(kind, c)
    PROVE  PanelInv'
<1> DEFINE next == [on |-> TRUE, kind |-> kind, target |-> chosen, id |-> c,
                    commit |-> 0]
           n == Len(loads)
<1>1. PICK k \in Calls : ~call[k].on /\ call' = [call EXCEPT ![k] = next]
  BY DEF Send
<1>2. /\ call \in [Calls -> Call] /\ chosen \in Targets /\ clean \in BOOLEAN
      /\ CanSend(kind, c) /\ clean' = (clean /\ Alone(FALSE))
      /\ loads' = [i \in DOMAIN loads |-> [loads[i] EXCEPT !.met = TRUE]]
      /\ UNCHANGED <<panel, log, chosen, shown, loading, told>>
      /\ n \in Nat /\ DOMAIN loads = 1 .. n /\ n =< MaxLoads
      /\ \A i \in 1 .. n : loads[i] \in Load
  BY PanelShape DEF PanelInv, PanelTypeOK, Send
<1>3. next \in Call /\ next.on /\ next.kind = kind /\ next.target = chosen
      /\ next.id = c /\ next.commit = 0
  <2>1. 0 \in 0 .. MaxCommits + 1
    BY PanelAssumption
  <2> QED
    BY <1>2, <2>1 DEF Call
<1> HIDE DEF next
<1>4. /\ call' \in [Calls -> Call] /\ call'[k] = next
      /\ \A l \in Calls \ {k} : call'[l] = call[l]
  BY <1>1, <1>2, <1>3
<1>5. /\ DOMAIN loads' = 1 .. n
      /\ \A i \in 1 .. n : /\ loads'[i] \in Load /\ loads'[i].met
                           /\ loads'[i].cancelled = loads[i].cancelled
                           /\ loads'[i].answer = loads[i].answer
  <2>1. DOMAIN loads' = 1 .. n
    BY <1>2
  <2>2. ASSUME NEW i \in 1 .. n
        PROVE  /\ loads'[i] \in Load /\ loads'[i].met
               /\ loads'[i].cancelled = loads[i].cancelled
               /\ loads'[i].answer = loads[i].answer
    <3>1. loads'[i] = [loads[i] EXCEPT !.met = TRUE] /\ loads[i] \in Load
      BY <1>2
    <3> QED
      BY <3>1 DEF Load
  <2> QED
    BY <2>1, <2>2
<1>6. loads' \in Seq(Load) /\ Len(loads') = n
  <2>1. loads' = [i \in 1 .. n |-> loads'[i]]
    BY <1>2
  <2>2. loads' \in [1 .. n -> Load] /\ n \in Nat
    BY <1>2, <1>5, <2>1
  <2> HIDE DEF n
  <2> QED
    BY <2>2
<1> HIDE DEF n
<1>7. PanelTypeOK'
  BY <1>2, <1>4, <1>6, Zenon DEF PanelInv, PanelTypeOK
<1>8. Steady'
  BY <1>2 DEF PanelInv, Steady
<1>9. InTheLog'
  <2>1. \A l \in Calls : call'[l].on /\ call'[l].commit # 0 => call'[l] = call[l]
    BY <1>3, <1>4
  <2>2. \A i \in DOMAIN loads' : loads'[i].answer =< Len(log)
    BY <1>2, <1>5 DEF PanelInv, InTheLog
  <2> QED
    BY <1>2, <2>1, <2>2 DEF PanelInv, InTheLog
<1>10. Lone'
  BY <1>2, <1>5 DEF PanelInv, Lone
<1>11. AllCancelled' <=> AllCancelled
  BY <1>2, <1>5 DEF AllCancelled
<1>12. clean' => clean /\ AllCancelled /\ \A l \in Calls : ~call[l].on
  BY <1>2 DEF Alone, AllCancelled
<1>13. clean' =>
         ((\E i \in DOMAIN shown : shown[i].id = c) <=> kind # "comment")
  <2>1. CASE kind # "comment"
    BY <1>2, <2>1 DEF CanSend, Shows, Kinds
  <2>2. CASE kind = "comment" /\ clean'
    <3>1. Current.of[c] # chosen
      BY <1>2, <2>2, PanelAssumption DEF CanSend
    <3>2. \A i \in DOMAIN shown : Current.of[shown[i].id] = chosen
      BY <1>12, <2>2 DEF PanelInv, Settled, ShowsTheChosen
    <3> QED
      BY <2>2, <3>1, <3>2
  <2> QED
    BY <2>1, <2>2
<1>14. OneCall'
  BY <1>2, <1>3, <1>4, <1>11, <1>12, <1>13 DEF OneCall
<1>15. Settled'
  <2>1. ShowsTheChosen' <=> ShowsTheChosen
    BY <1>2 DEF ShowsTheChosen, Current
  <2> QED
    BY <1>11, <1>12, <2>1 DEF PanelInv, Settled
<1> QED
  BY <1>7, <1>8, <1>9, <1>10, <1>14, <1>15 DEF PanelInv

\* A call is gone, answered or not: it was the only one, if nothing had met.
LEMMA CallGone ==
    ASSUME PanelInv, NEW k \in Calls, call[k].on,
           call' = [call EXCEPT ![k] = NoCall],
           UNCHANGED <<panel, log, chosen, loads>>, clean' => clean
    PROVE  /\ call' \in [Calls -> Call] /\ Steady' /\ Lone' /\ OneCall'
           /\ \A l \in Calls : call'[l].on => call'[l] = call[l]
           /\ AllCancelled' <=> AllCancelled
<1>1. call \in [Calls -> Call]
  BY DEF PanelInv, PanelTypeOK
<1>2. /\ call' \in [Calls -> Call] /\ ~call'[k].on
      /\ \A l \in Calls \ {k} : call'[l] = call[l]
  BY <1>1, NoCallIsCall
<1>3. Steady'
  BY DEF PanelInv, Steady
<1>4. Lone'
  BY DEF PanelInv, Lone
<1>5. OneCall'
  BY <1>2 DEF PanelInv, OneCall
<1> QED
  BY <1>2, <1>3, <1>4, <1>5 DEF AllCancelled

LEMMA FailCallStep ==
    ASSUME PanelInv, NEW k \in Calls, FailCall(k)
    PROVE  PanelInv'
<1>1. /\ call[k].on /\ call' = [call EXCEPT ![k] = NoCall] /\ clean' = FALSE
      /\ UNCHANGED <<panel, log, chosen, shown, loading, loads, told>>
  BY DEF FailCall
<1>2. /\ call' \in [Calls -> Call] /\ Steady' /\ Lone' /\ OneCall'
      /\ \A l \in Calls : call'[l].on => call'[l] = call[l]
  BY <1>1, CallGone
<1>3. PanelTypeOK' /\ InTheLog'
  BY <1>1, <1>2 DEF PanelInv, PanelTypeOK, InTheLog
<1> QED
  BY <1>1, <1>2, <1>3 DEF PanelInv, Settled

\* A call is answered: what it has made goes to the end, and what it has changed
\* replaces its row.
LEMMA AnsweredStep ==
    ASSUME PanelInv, NEW k \in Calls, Answered(k)
    PROVE  PanelInv'
<1> DEFINE c == call[k].id
           n == call[k].commit
           making == call[k].kind = "comment"
<1>1. /\ call[k].on /\ n # 0 /\ call' = [call EXCEPT ![k] = NoCall]
      /\ UNCHANGED <<panel, log, chosen, loading, loads, clean>>
      /\ shown' = IF making THEN Append(shown, [id |-> c, at |-> n]) ELSE Replaced(c, n)
      /\ told' = [told EXCEPT ![c] = IF n > @ THEN n ELSE @]
  BY DEF Answered
<1>2. /\ c \in Comments /\ n \in 1 .. MaxCommits + 1 /\ n =< Len(log)
      /\ n \in Nat /\ MaxCommits \in Nat
      /\ Len(log) \in Nat /\ n \in DOMAIN log /\ Len(log) \in DOMAIN log
      /\ log[n].of[c] = call[k].target /\ call[k].target \in Targets
      /\ told \in [Comments -> 0 .. MaxCommits + 1]
      /\ shown \in Seq(Entry) /\ Len(shown) \in Nat /\ DOMAIN shown = 1 .. Len(shown)
      /\ \A i \in DOMAIN shown : shown[i] \in Entry
  <2>1. call[k] \in Call
    BY DEF PanelInv, PanelTypeOK
  <2>2. n \in 1 .. MaxCommits + 1 /\ n =< Len(log) /\ MaxCommits \in Nat
        /\ log[n].of[c] = call[k].target
    BY <1>1, <2>1, PanelAssumption DEF Call, PanelInv, InTheLog
  <2> QED
    BY <2>1, <2>2, PanelShape DEF Call, PanelInv, PanelTypeOK
<1>3. /\ call' \in [Calls -> Call] /\ Steady' /\ Lone' /\ OneCall'
      /\ \A l \in Calls : call'[l].on => call'[l] = call[l]
      /\ AllCancelled' <=> AllCancelled
  BY <1>1, CallGone
<1> HIDE DEF c, n
<1>4. /\ told' \in [Comments -> 0 .. MaxCommits + 1]
      /\ told'[c] \in {n, told[c]} /\ (told[c] =< n => told'[c] = n)
      /\ \A d \in Comments \ {c} : told'[d] = told[d]
  <2>1. told[c] \in Nat
    BY <1>2
  <2> QED
    BY <1>1, <1>2, <2>1
\* The list with its new row, or its row replaced.
<1>5. /\ shown' \in Seq(Entry)
      /\ ~making =>
            /\ DOMAIN shown' = DOMAIN shown
            /\ \A i \in DOMAIN shown :
                  /\ shown'[i].id = shown[i].id
                  /\ shown'[i].at = IF shown[i].id = c THEN n ELSE shown[i].at
      /\ making =>
            /\ DOMAIN shown' = 1 .. Len(shown) + 1
            /\ \A i \in DOMAIN shown : shown'[i] = shown[i]
            /\ shown'[Len(shown) + 1].id = c /\ shown'[Len(shown) + 1].at = n
  <2>1. CASE making
    <3> DEFINE row == [id |-> c, at |-> n]
    <3>1. row \in Entry /\ row.id = c /\ row.at = n
      BY <1>2 DEF Entry
    <3>2. shown' = Append(shown, row)
      BY <1>1, <2>1
    <3> HIDE DEF row
    <3>3. /\ shown' \in Seq(Entry) /\ Len(shown') = Len(shown) + 1
          /\ \A i \in 1 .. Len(shown) : shown'[i] = shown[i]
          /\ shown'[Len(shown) + 1] = row
      BY <1>2, <3>1, <3>2, AppendProperties
    <3>4. DOMAIN shown' = 1 .. Len(shown) + 1
      BY <3>3
    <3> QED
      BY <1>2, <2>1, <3>1, <3>3, <3>4
  <2>2. CASE ~making
    <3> DEFINE rows == [i \in DOMAIN shown |->
                          IF shown[i].id = c THEN [shown[i] EXCEPT !.at = n]
                                             ELSE shown[i]]
    <3>1. shown' = rows
      BY <1>1, <2>2 DEF Replaced
    <3>2. \A i \in DOMAIN shown :
             /\ rows[i] \in Entry /\ rows[i].id = shown[i].id
             /\ rows[i].at = IF shown[i].id = c THEN n ELSE shown[i].at
      BY <1>2 DEF Entry
    <3>3. DOMAIN rows = DOMAIN shown /\ rows = [i \in 1 .. Len(shown) |-> rows[i]]
      BY <1>2
    <3> HIDE DEF rows
    <3>4. rows \in [1 .. Len(shown) -> Entry] /\ Len(shown) \in Nat
      BY <1>2, <3>2, <3>3
    <3>5. rows \in Seq(Entry)
      BY <3>4
    <3> QED
      BY <2>2, <3>1, <3>2, <3>3, <3>5
  <2> QED
    BY <2>1, <2>2
<1>6. PanelTypeOK'
  BY <1>1, <1>3, <1>4, <1>5 DEF PanelInv, PanelTypeOK
<1>7. log[n].of[c] # Nowhere
  BY <1>2, PanelAssumption
<1>8. InTheLog'
  BY <1>1, <1>2, <1>3, <1>4, <1>7 DEF PanelInv, InTheLog
<1>9. ASSUME clean, AllCancelled PROVE ShowsTheChosen'
  <2>1. /\ ShowsTheChosen /\ call[k].target = chosen /\ told[c] =< n
        /\ (\E i \in DOMAIN shown : shown[i].id = c) <=> ~making
    BY <1>1, <1>9 DEF PanelInv, Settled, OneCall, c, n
  <2>2. Current' = Current /\ chosen' = chosen /\ told'[c] = n
    BY <1>1, <1>4, <2>1 DEF Current
  <2>3. Current.of[c] = chosen
    BY <1>2, <1>7, <2>1 DEF PanelInv, Steady, Current
  <2>4. CASE ~making
    <3>1. \A i \in DOMAIN shown : shown[i].id \in Comments
      BY <1>2 DEF Entry
    <3>2. \A i \in DOMAIN shown : /\ Current.of[shown'[i].id] = chosen
                                  /\ shown'[i].at >= told'[shown'[i].id]
      <4> TAKE i \in DOMAIN shown
      <4>1. CASE shown[i].id = c
        BY <1>2, <1>5, <2>2, <2>3, <2>4, <4>1
      <4>2. CASE shown[i].id # c
        BY <1>4, <1>5, <2>1, <2>4, <3>1, <4>2 DEF ShowsTheChosen
      <4> QED
        BY <4>1, <4>2
    <3>3. \A d \in Comments : told'[d] # 0 => told[d] # 0 \/ d = c
      BY <1>4
    <3> QED
      BY <1>5, <2>1, <2>2, <2>4, <3>2, <3>3 DEF ShowsTheChosen
  <2>5. CASE making
    <3>1. \A i \in DOMAIN shown : shown[i].id \in Comments /\ shown[i].id # c
      BY <1>2, <2>1, <2>5 DEF Entry
    <3>2. /\ \A i \in 1 .. Len(shown) + 1 : i \in DOMAIN shown \/ i = Len(shown) + 1
          /\ Len(shown) + 1 \in 1 .. Len(shown) + 1
          /\ \A i \in DOMAIN shown : i \in 1 .. Len(shown) + 1
      BY <1>2
    <3>3. \A i \in DOMAIN shown' : /\ Current.of[shown'[i].id] = chosen
                                   /\ shown'[i].at >= told'[shown'[i].id]
      <4> SUFFICES ASSUME NEW i \in 1 .. Len(shown) + 1
                   PROVE  /\ Current.of[shown'[i].id] = chosen
                          /\ shown'[i].at >= told'[shown'[i].id]
        BY <1>5, <2>5
      <4>1. CASE i = Len(shown) + 1
        BY <1>2, <1>5, <2>2, <2>3, <2>5, <4>1
      <4>2. CASE i \in DOMAIN shown
        BY <1>4, <1>5, <2>1, <2>5, <3>1, <4>2 DEF ShowsTheChosen
      <4> QED
        BY <3>2, <4>1, <4>2
    <3>4. \A i, j \in DOMAIN shown' : shown'[i].id = shown'[j].id => i = j
      BY <1>5, <2>1, <2>5, <3>1, <3>2 DEF ShowsTheChosen
    <3>5. ASSUME NEW d \in Comments, told'[d] # 0, Current.of[d] = chosen
          PROVE  \E i \in DOMAIN shown' : shown'[i].id = d
      <4>1. CASE d = c
        BY <1>5, <2>5, <3>2, <4>1
      <4>2. CASE d # c
        <5>1. PICK i \in DOMAIN shown : shown[i].id = d
          BY <1>4, <2>1, <3>5, <4>2 DEF ShowsTheChosen
        <5> QED
          BY <1>5, <2>5, <3>2, <5>1
      <4> QED
        BY <4>1, <4>2
    <3> QED
      BY <2>2, <3>3, <3>4, <3>5 DEF ShowsTheChosen
  <2> QED
    BY <2>4, <2>5
<1>10. Settled'
  BY <1>1, <1>3, <1>9 DEF Settled
<1> QED
  BY <1>3, <1>6, <1>8, <1>10 DEF PanelInv

LEMMA PanelNextInv ==
    ASSUME PanelInv, [PanelNext]_panelVars
    PROVE  PanelInv'
<1>1. CASE UNCHANGED panelVars
  <2>1. UNCHANGED <<panel, log, chosen, shown, loading, loads, call, told, clean>>
    BY <1>1 DEF panelVars
  <2>2. PanelTypeOK' /\ Steady' /\ InTheLog'
    BY <2>1 DEF PanelInv, PanelTypeOK, Steady, InTheLog
  <2>3. Lone' /\ OneCall' /\ Settled'
    BY <2>1 DEF PanelInv, Lone, OneCall, Settled, AllCancelled, ShowsTheChosen, Current
  <2> QED
    BY <2>2, <2>3 DEF PanelInv
<1>2. CASE Loading
  BY <1>2, ServeLoadStep, DeliverLoadStep, FailLoadStep DEF Loading
<1>3. CASE Calling
  BY <1>3, ServeCallStep, AnsweredStep, FailCallStep DEF Calling
<1> QED
  BY <1>1, <1>2, <1>3, SomebodyStep, ChooseStep, SendStep DEF PanelNext


-----------------------------------------------------------------------------
\* The three parts, each by itself.

\* A typed text, and the order of the list, are safe in every step of the tab.
THEOREM DeskInvariant == DeskSpec => []DeskInv
<1>1. DeskInv /\ [DeskNext]_deskVars => DeskInv'
  BY DeskNextInv
<1> QED
  BY <1>1, DeskInitInv, PTL DEF DeskSpec

\* The shapes of the tab, its handlers and the script, whatever races.
THEOREM DeskTypes == DeskSpec => []DeskTypeOK
<1>1. DeskInv => DeskTypeOK
  BY DEF DeskInv
<1> QED
  BY <1>1, DeskInvariant, PTL

\* A text that was typed is in the autosave or in the script until its author
\* puts it away (saveAsNewVersion, selectVersion, reload and the import), unless
\* a save was in flight while it was typed, or a new editor has reported since.
THEOREM DeskTypedTextIsKept == DeskSpec => []TypedTextIsKept
<1>1. DeskInv => TypedTextIsKept
  <2> SUFFICES ASSUME DeskInv, typed # Empty, unsafe = {}, cached # typed
               PROVE  Contains(script, typed)
    BY DEF TypedTextIsKept
  <2>1. InScript /\ script \in Seq(Bodies)
    BY DEF DeskInv, DeskTypeOK, Kept
  <2> QED
    BY <2>1 DEF InScript, Contains
<1> QED
  BY <1>1, DeskInvariant, PTL

\* The list of versions is in order, and its current one is in it, unless a new
\* version met another or the list: reload and handleSaved.
THEOREM DeskVersionsInOrder == DeskSpec => []VersionsInOrder
<1>1. DeskInv => VersionsInOrder
  <2> SUFFICES ASSUME DeskInv, desk.mounted, ~crossed
               PROVE  /\ \A i, j \in DOMAIN desk.versions :
                            i < j => desk.versions[i] < desk.versions[j]
                      /\ desk.versions # <<>> => current
    BY DEF VersionsInOrder
  <2>1. desk.versions # <<>> =>
           \E i \in DOMAIN desk.versions : desk.versions[i] = desk.current
    BY DEF DeskInv, InTurn
  <2>2. desk.versions \in Seq(1 .. MaxVersions)
    BY DEF DeskInv, DeskTypeOK, DeskState
  <2>3. desk.versions # <<>> => current
    BY <2>1, <2>2 DEF current, Contains
  <2> QED
    BY <2>3 DEF DeskInv, InTurn
<1> QED
  BY <1>1, DeskInvariant, PTL

\* What the two panels show, and the calls on the way, stay in step.
THEOREM PanelInvariant == PanelSpec => []PanelInv
<1>1. PanelInv /\ [PanelNext]_panelVars => PanelInv'
  BY PanelNextInv
<1> QED
  BY <1>1, PanelInitInv, PTL DEF PanelSpec

\* The shapes of a panel, its list and its requests.
THEOREM PanelTypes == PanelSpec => []PanelTypeOK
<1>1. PanelInv => PanelTypeOK
  BY DEF PanelInv
<1> QED
  BY <1>1, PanelInvariant, PTL

\* At rest ScriptComments, and the comments of EditsTab, show those of the
\* chosen version or cut, each once and no older than was told.
THEOREM PanelsShowTheChosen == PanelSpec => []RestShowsTheChosen
<1>1. PanelInv => RestShowsTheChosen
  <2> SUFFICES ASSUME PanelInv, Quiet, clean PROVE ShowsTheChosen
    BY DEF RestShowsTheChosen, ShowsTheChosen
  <2>1. AllCancelled
    BY DEF Quiet, AllCancelled
  <2> QED
    BY <2>1 DEF PanelInv, Settled
<1> QED
  BY <1>1, PanelInvariant, PTL

\* The workbench is its parts: each of its behaviours is one of the desk, one
\* of the panels and one of the player.
THEOREM WorkbenchIsItsParts ==
    BenchSpec =>
        /\ DeskInit /\ [][DeskNext]_deskVars
        /\ PanelInit /\ [][PanelNext]_panelVars
        /\ PlayerInit /\ [][PlayerNext]_playerVars
<1>1. BenchInit => DeskInit /\ PanelInit /\ PlayerInit
  <2>1. DeskAway => DeskInit
    BY DEF DeskAway, DeskInit
  <2> QED
    BY <2>1 DEF BenchInit, PanelAway, PlayerAway
<1>2. [BenchNext]_benchVars =>
        [DeskNext]_deskVars /\ [PanelNext]_panelVars /\ [PlayerNext]_playerVars
  BY Zenon DEF BenchNext, benchVars
<1> QED
  BY <1>1, <1>2, PTL DEF BenchSpec

\* So on the workbench too typed text is kept, the list is in order, the panel
\* shows the chosen comments and the player the chosen cut's video.
THEOREM WorkbenchIsSafe ==
    BenchSpec => [](/\ TypedTextIsKept /\ VersionsInOrder
                    /\ RestShowsTheChosen /\ VideoIsOfTheChosen
                    /\ NotesMeetTheirVideo)
BY WorkbenchIsItsParts, DeskTypedTextIsKept, DeskVersionsInOrder,
   PanelsShowTheChosen, PlayerShowsTheChosen, PlayerNotesMeetTheirVideo, PTL
   DEF DeskSpec, PanelSpec, PlayerSpec

=============================================================================
