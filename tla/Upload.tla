------------------------------- MODULE Upload -------------------------------
(***************************************************************************)
(* The upload of a cut from one browser: UploadDialog of the edits tab,    *)
(* performResumableUpload, and the session of the storage that takes the   *)
(* bytes.                                                                  *)
(*                                                                         *)
(* A run is one call of startUpload: it asks for a session, puts the file  *)
(* chunk by chunk and has the cut recorded.  Its handler knows the dialog  *)
(* only by its setState calls, so a run that was cancelled, or whose tab   *)
(* is gone, may still be on its way when the next one is started.          *)
(***************************************************************************)
EXTENDS Naturals, FiniteSets, SequencesExt

CONSTANTS
    Chunks,      \* PUT requests that one file takes
    Remarks,     \* open comments of the previous cut: the checklist
    MaxRuns      \* bound on the calls of startUpload

\* A file has a byte to send: size_bytes is positive.
ASSUME UploadAssumption == Chunks \in Nat \ {0} /\ MaxRuns \in Nat

Runs == 1..MaxRuns

VARIABLES
    dialog,   \* the dialog of the mounted tab
    run,      \* the calls of startUpload, in order
    cuts,     \* the objects of the cuts recorded in the service: runs
    excuse    \* history: what has gone wrong that the properties speak of

uploadVars == <<dialog, run, cuts, excuse>>

\* `controller` is abortRef: the run it aborts, 0 for null.  `choice` counts
\* the files chosen.
Dialog == [open: BOOLEAN, file: BOOLEAN, choice: 0..MaxRuns,
           ticked: SUBSET Remarks, phase: {"idle", "uploading", "finalising"},
           controller: 0..MaxRuns]

Run == [step: {"none", "init", "put", "finalise", "made", "ended"},
        aborted: BOOLEAN,       \* its AbortController
        mine: BOOLEAN,          \* its dialog is still mounted
        choice: 0..MaxRuns,     \* the file
        ticked: SUBSET Remarks, \* the checklist when it began
        offset: 0..Chunks,      \* the chunks that were answered
        kept: 0..Chunks]        \* the chunks the storage holds

NoRun == [step |-> "none", aborted |-> FALSE, mine |-> FALSE,
          choice |-> 0, ticked |-> {}, offset |-> 0, kept |-> 0]

Excuses == {"short",    \* the storage kept less than it was sent
            "lost",     \* an answer to a finalise that had been done was lost
            "outlived", \* a cancelled run had a request out that went on
            "left"}     \* the tab was left during a run

Closed == [open |-> FALSE, file |-> FALSE, choice |-> 0, ticked |-> {},
           phase |-> "idle", controller |-> 0]

\* reset()
Reset(d) == [d EXCEPT !.file = FALSE, !.ticked = {}, !.phase = "idle",
                      !.controller = 0]

IsOn(r) == run[r].step \in {"init", "put", "finalise", "made"}

Started == {r \in Runs : run[r].step # "none"}

\* setPhase: it reaches the dialog the run was started from.
PhaseTo(r, phase) == IF run[r].mine THEN [dialog EXCEPT !.phase = phase] ELSE dialog

-----------------------------------------------------------------------------
\* The dialog.

OpenDialog ==
    /\ ~dialog.open
    /\ dialog' = [dialog EXCEPT !.open = TRUE]
    /\ UNCHANGED <<run, cuts, excuse>>

\* onOpenChange(false): refused in the middle of an upload.
CloseDialog ==
    /\ dialog.open /\ dialog.phase = "idle"
    /\ dialog' = [Reset(dialog) EXCEPT !.open = FALSE]
    /\ UNCHANGED <<run, cuts, excuse>>

\* The Cancel button of an idle dialog forgets nothing.
CancelIdle ==
    /\ dialog.open /\ dialog.phase = "idle"
    /\ dialog' = [dialog EXCEPT !.open = FALSE]
    /\ UNCHANGED <<run, cuts, excuse>>

\* onPick, of a file of the right type and size.
Pick ==
    /\ dialog.open /\ ~dialog.file /\ dialog.choice < MaxRuns
    /\ dialog' = [dialog EXCEPT !.file = TRUE, !.choice = @ + 1]
    /\ UNCHANGED <<run, cuts, excuse>>

PutBack ==
    /\ dialog.open /\ dialog.file /\ dialog.phase = "idle"
    /\ dialog' = [dialog EXCEPT !.file = FALSE]
    /\ UNCHANGED <<run, cuts, excuse>>

\* toggleResolved
Tick(c) ==
    /\ dialog.open /\ dialog.phase = "idle"
    /\ dialog' = [dialog EXCEPT !.ticked = SymDiff(@, {c})]
    /\ UNCHANGED <<run, cuts, excuse>>

\* startUpload, up to the init request.
Start ==
    /\ dialog.open /\ dialog.file /\ dialog.phase = "idle"
    /\ Cardinality(Started) < MaxRuns
    /\ LET r == Cardinality(Started) + 1
       IN  /\ run' = [run EXCEPT ![r] =
                        [NoRun EXCEPT !.step = "init", !.mine = TRUE,
                           !.choice = dialog.choice, !.ticked = dialog.ticked]]
           /\ dialog' = [dialog EXCEPT !.phase = "uploading", !.controller = r]
    /\ UNCHANGED <<cuts, excuse>>

\* cancel(): an aborted PUT rejects, and ends its run, before the next click;
\* the other requests do not listen to the controller.
Cancel ==
    /\ dialog.open /\ dialog.phase # "idle"
    /\ LET r == dialog.controller
       IN  IF r = 0 THEN UNCHANGED <<run, excuse>>
           ELSE /\ run' = [run EXCEPT ![r].aborted = TRUE,
                       ![r].step = IF @ = "put" THEN "ended" ELSE @]
                /\ excuse' = IF run[r].step = "put" THEN excuse
                                                    ELSE excuse \cup {"outlived"}
    /\ dialog' = [dialog EXCEPT !.phase = "idle"]
    /\ UNCHANGED cuts

\* The tab is left and opened again: nothing aborts its runs.
LeaveTab ==
    /\ dialog # Closed
    /\ dialog' = [Closed EXCEPT !.choice = dialog.choice]
    /\ run' = [r \in Runs |-> [run[r] EXCEPT !.mine = FALSE]]
    /\ excuse' = IF \E r \in Runs : IsOn(r) THEN excuse \cup {"left"} ELSE excuse
    /\ UNCHANGED cuts

-----------------------------------------------------------------------------
\* A run.

\* The first check of the loop is made when init answers.
InitAnswered(r) ==
    /\ run[r].step = "init" /\ ~run[r].aborted
    /\ run' = [run EXCEPT ![r].step = "put"]
    /\ UNCHANGED <<dialog, cuts, excuse>>

\* The bytes are out; setPhase("finalising"), and the request is sent.
BytesOut(r, kept, offset) ==
    /\ run' = [run EXCEPT ![r].step = "finalise", ![r].kept = kept,
                          ![r].offset = offset]
    /\ dialog' = PhaseTo(r, "finalising")

\* What the storage holds when a chunk at `offset` was put: it, too, if all
\* before it is there, unless the storage keeps less than it was sent.
Kept(r) == {run[r].kept} \cup
           IF run[r].kept = run[r].offset THEN {run[r].offset + 1} ELSE {}

\* 200 or 201, once the object is complete.
PutFinal(r) ==
    /\ run[r].step = "put"
    /\ Chunks \in Kept(r)
    /\ BytesOut(r, Chunks, Chunks)
    /\ UNCHANGED <<cuts, excuse>>

\* 308: the loop goes on behind the chunk it sent, whatever was kept of it, and
\* ends after the last.
PutMore(r) ==
    /\ run[r].step = "put"
    /\ \E kept \in Kept(r) \ {Chunks} :
          /\ IF run[r].offset + 1 = Chunks
             THEN BytesOut(r, kept, Chunks)
             ELSE /\ run' = [run EXCEPT ![r].kept = kept, ![r].offset = @ + 1]
                  /\ UNCHANGED dialog
          /\ excuse' = IF kept = run[r].offset + 1 THEN excuse
                                                   ELSE excuse \cup {"short"}
    /\ UNCHANGED cuts

\* add_edit_version: the service does not look at the object.
FinaliseServed(r) ==
    /\ run[r].step = "finalise"
    /\ run' = [run EXCEPT ![r].step = "made"]
    /\ cuts' = cuts \cup {r}
    /\ UNCHANGED <<dialog, excuse>>

\* Broken on purpose: the dialog keeps the file of the cut that was made.
DoneKeepingTheFile(r) ==
    /\ run[r].step = "made"
    /\ run' = [run EXCEPT ![r].step = "ended"]
    /\ dialog' = PhaseTo(r, "idle")
    /\ UNCHANGED <<cuts, excuse>>

\* onUploaded, setOpen(false), reset(): the dialog is closed whichever run it
\* is at.
Done(r) ==
    /\ run[r].step = "made"
    /\ run' = [run EXCEPT ![r].step = "ended"]
    /\ dialog' = IF run[r].mine THEN [Reset(dialog) EXCEPT !.open = FALSE]
                                ELSE dialog
    /\ UNCHANGED <<cuts, excuse>>

\* Broken on purpose: the phase stays as it was.
ThrowQuietly(r) ==
    /\ IsOn(r)
    /\ run' = [run EXCEPT ![r].step = "ended"]
    /\ excuse' = IF run[r].step = "made" THEN excuse \cup {"lost"} ELSE excuse
    /\ UNCHANGED <<dialog, cuts>>

\* Broken on purpose: a chunk that fails counts as sent.
ThrowAndGoOn(r) ==
    /\ IsOn(r)
    /\ IF run[r].step = "put"
       THEN BytesOut(r, run[r].kept, run[r].offset)
       ELSE /\ run' = [run EXCEPT ![r].step = "ended"]
            /\ dialog' = PhaseTo(r, "idle")
    /\ excuse' = IF run[r].step = "made" THEN excuse \cup {"lost"} ELSE excuse
    /\ UNCHANGED cuts

\* The catch clause: UploadAbortedError after init, a status that is
\* neither 2xx nor 308, a request or an answer that was lost.
Throw(r) ==
    /\ IsOn(r)
    /\ run' = [run EXCEPT ![r].step = "ended"]
    /\ dialog' = PhaseTo(r, "idle")
    /\ excuse' = IF run[r].step = "made" THEN excuse \cup {"lost"} ELSE excuse
    /\ UNCHANGED cuts

-----------------------------------------------------------------------------
UploadInit ==
    /\ dialog = Closed
    /\ run = [r \in Runs |-> NoRun]
    /\ cuts = {}
    /\ excuse = {}

\* What the next answer does to run r.
Progress(r) ==
    \/ InitAnswered(r) \/ PutFinal(r) \/ PutMore(r)
    \/ FinaliseServed(r) \/ Done(r) \/ Throw(r)

UploadNext ==
    \/ OpenDialog \/ CloseDialog \/ CancelIdle
    \/ Pick \/ PutBack \/ (\E c \in Remarks : Tick(c))
    \/ Start \/ Cancel \/ LeaveTab
    \/ \E r \in Runs : Progress(r)

\* Every request is answered, or reported as failed by the browser.
UploadFairness == \A r \in Runs : WF_uploadVars(Progress(r))

UploadSpec == UploadInit /\ [][UploadNext]_uploadVars /\ UploadFairness

-----------------------------------------------------------------------------
UploadTypeOK ==
    /\ dialog \in Dialog
    /\ run \in [Runs -> Run]
    /\ cuts \subseteq Runs
    /\ excuse \subseteq Excuses

\* A cut is recorded with every byte of its file stored, if the storage keeps
\* what it acknowledges: no request asks the storage what it holds.
RecordedCutsAreWhole ==
    \A r \in cuts : run[r].kept = Chunks \/ "short" \in excuse

\* One chosen file becomes two cuts only if an answer was lost, the tab was
\* left, or a cancelled run outlived its cancellation.
OneFileOneCut ==
    \A r, s \in cuts :
        run[r].choice = run[s].choice /\ r # s =>
            excuse \cap {"lost", "left", "outlived"} # {}

\* The dialog is idle when no run is on and busy when one is, so that it can be
\* closed, and started, exactly then; except after a cancelled run that still
\* had a request out, whose end speaks for the run that followed it.
PhaseTellsTheTruth ==
    "outlived" \notin excuse =>
        (dialog.phase = "idle" <=>
            \A r \in Runs : IsOn(r) /\ run[r].mine => run[r].aborted)

\* Every upload comes to an end: the loop advances with each 308, and the busy
\* dialog, which refuses to close, becomes idle again.
UploadSettles == dialog.phase # "idle" ~> dialog.phase = "idle"

=============================================================================
