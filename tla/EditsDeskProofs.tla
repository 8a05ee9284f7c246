--------------------------- MODULE EditsDeskProofs ---------------------------
(***************************************************************************)
(* Proofs about the edits tab and its upload dialog, for a file of any     *)
(* number of chunks, any number of runs, cuts, commits and reviews in      *)
(* flight.  A step of the tab is a step of its uploads or leaves them      *)
(* alone, so what is proved of the uploads holds of both specifications.   *)
(***************************************************************************)
EXTENDS EditsDesk, SequenceTheorems, FiniteSetTheorems, TLAPS

(***************************************************************************)
(* The uploads.                                                            *)
(***************************************************************************)
\* The runs are started in order, each with the file that was chosen last.
InTurn == \E n \in 0 .. MaxRuns : Started = 1 .. n

FilesInTurn == \A r \in Runs : run[r].choice =< dialog.choice

\* What is known of a run by how far it has come: the storage has what was put,
\* if it keeps what it acknowledges, and the loop has not passed the end.
AsFarAs(r) ==
    /\ run[r].step \in {"none", "init"} => run[r].offset = 0 /\ run[r].kept = 0
    /\ run[r].step = "put" =>
          /\ run[r].offset < Chunks
          /\ run[r].kept = run[r].offset \/ "short" \in excuse
    /\ run[r].step \in {"finalise", "made"} \/ r \in cuts =>
          run[r].kept = Chunks \/ "short" \in excuse
    /\ r \in cuts => run[r].step \in {"made", "ended"}

\* Unless a cancelled run had a request out, the dialog is at one run, the only
\* one of its own, and the controller is that run's.
OneOfItsOwn ==
    "outlived" \notin excuse =>
        /\ \A r \in Runs : IsOn(r) /\ run[r].mine =>
              ~run[r].aborted /\ dialog.controller = r /\ dialog.phase # "idle"
        /\ dialog.phase # "idle" =>
              /\ dialog.controller \in Runs
              /\ IsOn(dialog.controller) /\ run[dialog.controller].mine

\* Unless the tab was left during a run, no run is without its dialog.
NoneLeft == "left" \notin excuse => \A r \in Runs : IsOn(r) => run[r].mine

\* The file of a run that is on is the one in the dialog ...
FileStays ==
    excuse \cap {"left", "outlived"} = {} =>
        \A r \in Runs : IsOn(r) => dialog.file /\ run[r].choice = dialog.choice

\* ... and that of a cut is in the dialog only until its run has ended.
FileGoes ==
    excuse \cap {"lost", "left", "outlived"} = {} =>
        \A r \in cuts : dialog.file /\ run[r].choice = dialog.choice => IsOn(r)

UploadInv ==
    /\ UploadTypeOK
    /\ InTurn /\ FilesInTurn
    /\ \A r \in Runs : AsFarAs(r)
    /\ OneOfItsOwn /\ NoneLeft /\ FileStays /\ FileGoes
    /\ OneFileOneCut

-----------------------------------------------------------------------------
LEMMA Ranges ==
    /\ 0 \in 0 .. MaxRuns /\ Runs \subseteq 0 .. MaxRuns
    /\ 0 \in 0 .. Chunks /\ Chunks \in 0 .. Chunks
BY UploadAssumption DEF Runs

LEMMA UploadInitInv == UploadInit => UploadInv
<1> SUFFICES ASSUME UploadInit PROVE UploadInv
  OBVIOUS
<1>1. UploadTypeOK
  BY UploadAssumption DEF UploadInit, UploadTypeOK, Dialog, Closed, Run, NoRun, Runs
<1>2. \A r \in Runs : run[r] = NoRun
  BY DEF UploadInit
<1>3. InTurn
  <2>1. Started = 1 .. 0
    BY <1>2 DEF Started, NoRun
  <2> QED
    BY <2>1, UploadAssumption DEF InTurn
<1>4. FilesInTurn
  BY <1>2 DEF FilesInTurn, NoRun, UploadInit, Closed
<1>5. \A r \in Runs : AsFarAs(r)
  BY <1>2 DEF AsFarAs, NoRun, UploadInit
<1>6. \A r \in Runs : ~IsOn(r)
  BY <1>2 DEF IsOn, NoRun
<1> QED
  BY <1>1, <1>3, <1>4, <1>5, <1>6
     DEF UploadInv, OneOfItsOwn, NoneLeft, FileStays, FileGoes, OneFileOneCut,
         UploadInit, Closed

\* The runs that are started are counted by their number.
LEMMA NextRun ==
    ASSUME InTurn
    PROVE  /\ Cardinality(Started) \in 0 .. MaxRuns
           /\ Started = 1 .. Cardinality(Started)
<1>1. PICK n \in 0 .. MaxRuns : Started = 1 .. n
  BY DEF InTurn
<1>2. Cardinality(Started) = n
  BY <1>1, FS_Interval, UploadAssumption
<1> QED
  BY <1>1, <1>2

\* A step of the dialog while it is idle, or that opens it or chooses its file.
LEMMA IdleStep ==
    ASSUME UploadInv, dialog' \in Dialog,
           UNCHANGED <<run, cuts, excuse>>,
           dialog'.phase = dialog.phase,
           dialog.phase # "idle" => dialog'.controller = dialog.controller,
           dialog'.choice = dialog.choice,
           dialog'.file = dialog.file \/ (dialog.phase = "idle" /\ ~dialog'.file)
    PROVE  UploadInv'
<1>1. UploadTypeOK' /\ InTurn' /\ FilesInTurn'
  BY DEF UploadInv, UploadTypeOK, InTurn, Started, FilesInTurn
<1>2. \A r \in Runs : AsFarAs(r)'
  BY DEF UploadInv, AsFarAs
<1>3. OneOfItsOwn' /\ NoneLeft' /\ OneFileOneCut'
  BY DEF UploadInv, OneOfItsOwn, NoneLeft, OneFileOneCut, IsOn
<1>4. FileStays'
  BY DEF UploadInv, OneOfItsOwn, NoneLeft, FileStays, IsOn
<1>5. FileGoes'
  BY DEF UploadInv, FileGoes, IsOn
<1> QED
  BY <1>1, <1>2, <1>3, <1>4, <1>5 DEF UploadInv

LEMMA DialogueStep ==
    ASSUME UploadInv,
           OpenDialog \/ CloseDialog \/ CancelIdle \/ PutBack
           \/ (\E c \in Remarks : Tick(c))
    PROVE  UploadInv'
<1>1. dialog \in Dialog
  BY DEF UploadInv, UploadTypeOK
<1>2. CASE OpenDialog \/ CancelIdle \/ PutBack
  <2>1. dialog' \in Dialog
    BY <1>1, <1>2 DEF OpenDialog, CancelIdle, PutBack, Dialog
  <2>2. /\ dialog'.phase = dialog.phase /\ dialog'.controller = dialog.controller
        /\ dialog'.choice = dialog.choice
        /\ dialog'.file = dialog.file \/ (dialog.phase = "idle" /\ ~dialog'.file)
        /\ UNCHANGED <<run, cuts, excuse>>
    BY <1>1, <1>2 DEF OpenDialog, CancelIdle, PutBack, Dialog
  <2> QED
    BY <2>1, <2>2, IdleStep
<1>3. CASE CloseDialog
  <2>1. dialog' \in Dialog
    BY <1>1, <1>3, Ranges DEF CloseDialog, Reset, Dialog
  <2>2. /\ dialog.phase = "idle" /\ dialog'.phase = "idle"
        /\ dialog'.choice = dialog.choice /\ dialog'.file = FALSE
        /\ UNCHANGED <<run, cuts, excuse>>
    BY <1>1, <1>3 DEF CloseDialog, Reset, Dialog
  <2> QED
    BY <2>1, <2>2, IdleStep
<1>4. ASSUME NEW c \in Remarks, Tick(c) PROVE UploadInv'
  <2>1. dialog' \in Dialog
    <3>1. SymDiff(dialog.ticked, {c}) \in SUBSET Remarks
      BY <1>1 DEF Dialog, SymDiff
    <3> QED
      BY <1>1, <1>4, <3>1 DEF Tick, Dialog
  <2>2. /\ dialog'.phase = dialog.phase /\ dialog'.controller = dialog.controller
        /\ dialog'.choice = dialog.choice /\ dialog'.file = dialog.file
        /\ UNCHANGED <<run, cuts, excuse>>
    BY <1>1, <1>4 DEF Tick, Dialog
  <2> QED
    BY <2>1, <2>2, IdleStep
<1> QED
  BY <1>2, <1>3, <1>4

\* Another file: no run is on with it, and none has made a cut of it.
LEMMA PickStep ==
    ASSUME UploadInv, Pick
    PROVE  UploadInv'
<1>1. /\ dialog \in Dialog /\ ~dialog.file
      /\ dialog' = [dialog EXCEPT !.file = TRUE, !.choice = @ + 1]
      /\ dialog.choice < MaxRuns /\ UNCHANGED <<run, cuts, excuse>>
      /\ run \in [Runs -> Run]
  BY DEF UploadInv, UploadTypeOK, Pick
<1>2. /\ dialog' \in Dialog /\ dialog'.choice = dialog.choice + 1
      /\ dialog'.phase = dialog.phase /\ dialog'.controller = dialog.controller
  <2>1. dialog.choice \in 0 .. MaxRuns
    BY <1>1 DEF Dialog
  <2>2. dialog.choice + 1 \in 0 .. MaxRuns
    BY <1>1, <2>1, UploadAssumption
  <2> QED
    BY <1>1, <2>2 DEF Dialog
<1>3. \A r \in Runs : run[r].choice < dialog'.choice
  BY <1>1, <1>2, UploadAssumption DEF UploadInv, FilesInTurn, Dialog, Run
<1>4. UploadTypeOK' /\ InTurn'
  BY <1>1, <1>2 DEF UploadInv, UploadTypeOK, InTurn, Started
<1>5. FilesInTurn'
  BY <1>1, <1>2, UploadAssumption DEF UploadInv, FilesInTurn, Dialog, Run
<1>6. \A r \in Runs : AsFarAs(r)'
  BY <1>1 DEF UploadInv, AsFarAs
<1>7. OneOfItsOwn' /\ NoneLeft' /\ OneFileOneCut'
  BY <1>1, <1>2 DEF UploadInv, OneOfItsOwn, NoneLeft, OneFileOneCut, IsOn
<1>8. FileStays'
  BY <1>1 DEF UploadInv, FileStays, IsOn
<1>9. FileGoes'
  <2>1. \A r \in cuts : r \in Runs /\ run[r].choice # dialog'.choice
    BY <1>1, <1>2, <1>3, UploadAssumption DEF UploadInv, UploadTypeOK, Dialog, Run
  <2> QED
    BY <1>1, <2>1 DEF FileGoes
<1> QED
  BY <1>4, <1>5, <1>6, <1>7, <1>8, <1>9 DEF UploadInv

-----------------------------------------------------------------------------
\* The next run: the dialog was idle, so that no other run of its own is on.
LEMMA StartStep ==
    ASSUME UploadInv, Start
    PROVE  UploadInv'
<1> DEFINE r == Cardinality(Started) + 1
           begun == [NoRun EXCEPT !.step = "init", !.mine = TRUE,
                       !.choice = dialog.choice, !.ticked = dialog.ticked]
<1>1. /\ dialog \in Dialog /\ run \in [Runs -> Run]
      /\ dialog.file /\ dialog.phase = "idle" /\ r - 1 < MaxRuns
      /\ run' = [run EXCEPT ![r] = begun]
      /\ dialog' = [dialog EXCEPT !.phase = "uploading", !.controller = r]
      /\ UNCHANGED <<cuts, excuse>>
  BY NextRun, UploadAssumption DEF UploadInv, UploadTypeOK, Start
<1>2. /\ r \in Runs /\ Started = 1 .. r - 1
      /\ r \in 1 .. MaxRuns
  BY <1>1, NextRun, UploadAssumption DEF UploadInv, Runs
<1>3. run[r].step = "none" /\ r \notin cuts
  <2>1. r \notin Started
    BY <1>2
  <2> QED
    BY <1>2, <2>1 DEF Started, UploadInv, AsFarAs
<1>4. /\ begun \in Run /\ begun.step = "init" /\ begun.mine /\ ~begun.aborted
      /\ begun.choice = dialog.choice /\ begun.offset = 0 /\ begun.kept = 0
  <2>1. dialog.choice \in 0 .. MaxRuns /\ dialog.ticked \in SUBSET Remarks
    BY <1>1 DEF Dialog
  <2> QED
    BY <2>1, Ranges DEF NoRun, Run
<1> HIDE DEF r, begun
<1>5. /\ dialog' \in Dialog /\ dialog'.choice = dialog.choice /\ dialog'.file
      /\ dialog'.phase = "uploading" /\ dialog'.controller = r
  BY <1>1, <1>2, Ranges DEF Dialog
<1>6. /\ run' \in [Runs -> Run] /\ run'[r] = begun
      /\ \A s \in Runs \ {r} : run'[s] = run[s]
  BY <1>1, <1>2, <1>4
<1>7. UploadTypeOK'
  BY <1>1, <1>5, <1>6 DEF UploadInv, UploadTypeOK
<1>8. InTurn'
  <2>1. Started' = 1 .. r
    BY <1>2, <1>3, <1>4, <1>6 DEF Started, Runs
  <2> QED
    BY <1>2, <2>1, UploadAssumption DEF InTurn
<1>9. FilesInTurn'
  BY <1>1, <1>4, <1>5, <1>6 DEF UploadInv, FilesInTurn, Dialog
<1>10. ASSUME NEW s \in Runs PROVE AsFarAs(s)'
  BY <1>1, <1>3, <1>4, <1>6 DEF UploadInv, AsFarAs
<1>11. OneOfItsOwn'
  BY <1>1, <1>2, <1>4, <1>5, <1>6 DEF UploadInv, OneOfItsOwn, IsOn
<1>12. NoneLeft'
  BY <1>1, <1>4, <1>6 DEF UploadInv, NoneLeft, IsOn
<1>13. FileStays'
  BY <1>1, <1>4, <1>5, <1>6
     DEF UploadInv, FileStays, OneOfItsOwn, NoneLeft, IsOn
<1>14. \A s \in cuts : s \in Runs /\ s # r /\ run'[s] = run[s]
  BY <1>3, <1>6 DEF UploadInv, UploadTypeOK
<1>15. FileGoes' /\ OneFileOneCut'
  BY <1>1, <1>5, <1>14 DEF UploadInv, FileGoes, OneFileOneCut, IsOn
<1> QED
  BY <1>7, <1>8, <1>9, <1>10, <1>11, <1>12, <1>13, <1>15 DEF UploadInv

LEMMA CancelStep ==
    ASSUME UploadInv, Cancel
    PROVE  UploadInv'
<1> PICK r : r = dialog.controller
  OBVIOUS
<1>1. /\ dialog \in Dialog /\ run \in [Runs -> Run] /\ dialog.phase # "idle"
      /\ dialog' = [dialog EXCEPT !.phase = "idle"] /\ UNCHANGED cuts
  BY DEF UploadInv, UploadTypeOK, Cancel
<1>2. /\ dialog' \in Dialog /\ dialog'.phase = "idle" /\ dialog'.file = dialog.file
      /\ dialog'.choice = dialog.choice /\ dialog'.controller = dialog.controller
  BY <1>1 DEF Dialog
<1>3. CASE r = 0
  <2>1. UNCHANGED <<run, excuse>>
    BY <1>3 DEF Cancel
  <2>2. "outlived" \in excuse
    BY <1>1, <1>3, UploadAssumption DEF UploadInv, OneOfItsOwn, Runs
  <2>3. UploadTypeOK' /\ InTurn' /\ FilesInTurn'
    BY <1>1, <1>2, <2>1 DEF UploadInv, UploadTypeOK, InTurn, Started, FilesInTurn
  <2>4. \A s \in Runs : AsFarAs(s)'
    BY <1>1, <2>1 DEF UploadInv, AsFarAs
  <2>5. NoneLeft'
    BY <2>1 DEF UploadInv, NoneLeft, IsOn
  <2> QED
    BY <1>1, <2>1, <2>2, <2>3, <2>4, <2>5
       DEF UploadInv, OneOfItsOwn, FileStays, FileGoes, OneFileOneCut
<1>4. CASE r # 0
  <2>1. /\ run' = [run EXCEPT ![r].aborted = TRUE,
                     ![r].step = IF @ = "put" THEN "ended" ELSE @]
        /\ excuse' = IF run[r].step = "put" THEN excuse ELSE excuse \cup {"outlived"}
    BY <1>4 DEF Cancel
  <2>2. r \in Runs
    BY <1>1, <1>4, UploadAssumption DEF Dialog, Runs
  <2>3. /\ run'[r].step = (IF run[r].step = "put" THEN "ended" ELSE run[r].step)
        /\ run'[r].mine = run[r].mine /\ run'[r].choice = run[r].choice
        /\ run'[r].offset = run[r].offset /\ run'[r].kept = run[r].kept
        /\ \A s \in Runs \ {r} : run'[s] = run[s]
    BY <1>1, <2>1, <2>2 DEF Run
  <2>4. run' \in [Runs -> Run]
    <3>1. run[r] \in Run
      BY <1>1, <2>2
    <3>2. [run[r] EXCEPT !.aborted = TRUE,
                         !.step = IF @ = "put" THEN "ended" ELSE @] \in Run
      BY <3>1 DEF Run
    <3>3. run' = [run EXCEPT ![r] = [run[r] EXCEPT !.aborted = TRUE,
                         !.step = IF @ = "put" THEN "ended" ELSE @]]
      BY <1>1, <2>1, <2>2 DEF Run
    <3> QED
      BY <1>1, <3>2, <3>3
  <2>5. UploadTypeOK'
    BY <1>1, <1>2, <2>1, <2>4 DEF UploadInv, UploadTypeOK, Excuses
  <2>6. InTurn'
    <3>1. Started' = Started
      BY <2>3 DEF Started
    <3> QED
      BY <3>1 DEF UploadInv, InTurn
  <2>7. FilesInTurn'
    BY <1>2, <2>3 DEF UploadInv, FilesInTurn
  <2>8. ASSUME NEW s \in Runs PROVE AsFarAs(s)'
    BY <1>1, <2>1, <2>3 DEF UploadInv, AsFarAs
  <2>9. NoneLeft'
    BY <2>1, <2>3 DEF UploadInv, NoneLeft, IsOn
  <2>10. OneFileOneCut'
    BY <1>1, <2>1, <2>3 DEF UploadInv, UploadTypeOK, OneFileOneCut
  <2>11. CASE run[r].step # "put"
    BY <2>1, <2>5, <2>6, <2>7, <2>8, <2>9, <2>10, <2>11
       DEF UploadInv, OneOfItsOwn, FileStays, FileGoes
  <2>12. CASE run[r].step = "put"
    <3>1. /\ excuse' = excuse /\ ~IsOn(r)'
          /\ \A s \in Runs \ {r} : IsOn(s)' <=> IsOn(s)
      <4>1. excuse' = excuse
        BY <2>1, <2>12
      <4>2. ~IsOn(r)'
        BY <2>3, <2>12 DEF IsOn
      <4>3. ASSUME NEW s \in Runs \ {r} PROVE IsOn(s)' <=> IsOn(s)
        BY <2>3 DEF IsOn
      <4> QED
        BY <4>1, <4>2, <4>3
    <3>2. OneOfItsOwn'
      BY <1>1, <1>2, <2>3, <3>1 DEF UploadInv, OneOfItsOwn
    <3>3. FileStays'
      BY <1>2, <2>3, <3>1 DEF UploadInv, FileStays
    <3>4. r \notin cuts
      BY <2>2, <2>12 DEF UploadInv, AsFarAs
    <3>5. FileGoes'
      BY <1>1, <1>2, <2>3, <3>1, <3>4 DEF UploadInv, UploadTypeOK, FileGoes
    <3> QED
      BY <2>5, <2>6, <2>7, <2>8, <2>9, <2>10, <3>2, <3>3, <3>5 DEF UploadInv
  <2> QED
    BY <2>11, <2>12
<1> QED
  BY <1>3, <1>4

LEMMA LeaveTabStep ==
    ASSUME UploadInv, LeaveTab
    PROVE  UploadInv'
<1>1. /\ dialog \in Dialog /\ run \in [Runs -> Run]
      /\ dialog' = [Closed EXCEPT !.choice = dialog.choice]
      /\ run' = [r \in Runs |-> [run[r] EXCEPT !.mine = FALSE]]
      /\ excuse' = IF \E r \in Runs : IsOn(r) THEN excuse \cup {"left"} ELSE excuse
      /\ UNCHANGED cuts
  BY DEF UploadInv, UploadTypeOK, LeaveTab
<1>2. /\ dialog' \in Dialog /\ dialog'.phase = "idle" /\ dialog'.file = FALSE
      /\ dialog'.choice = dialog.choice
  BY <1>1, Ranges DEF Dialog, Closed
<1>3. ASSUME NEW r \in Runs
      PROVE  /\ run'[r] \in Run /\ run'[r].mine = FALSE
             /\ run'[r].step = run[r].step /\ run'[r].choice = run[r].choice
             /\ run'[r].offset = run[r].offset /\ run'[r].kept = run[r].kept
  BY <1>1 DEF Run
<1>4. UploadTypeOK'
  <2>1. run' \in [Runs -> Run]
    BY <1>1, <1>3
  <2> QED
    BY <1>1, <1>2, <2>1 DEF UploadInv, UploadTypeOK, Excuses
<1>5. InTurn'
  <2>1. Started' = Started
    BY <1>3 DEF Started
  <2> QED
    BY <2>1 DEF UploadInv, InTurn
<1>6. FilesInTurn'
  BY <1>2, <1>3 DEF UploadInv, FilesInTurn
<1>7. ASSUME NEW r \in Runs PROVE AsFarAs(r)'
  BY <1>1, <1>3 DEF UploadInv, AsFarAs
<1>8. OneOfItsOwn'
  BY <1>2, <1>3 DEF OneOfItsOwn
<1>9. NoneLeft' /\ FileStays'
  BY <1>1, <1>3 DEF NoneLeft, FileStays, IsOn
<1>10. FileGoes' /\ OneFileOneCut'
  BY <1>1, <1>2, <1>3 DEF UploadInv, UploadTypeOK, FileGoes, OneFileOneCut
<1> QED
  BY <1>4, <1>5, <1>6, <1>7, <1>8, <1>9, <1>10 DEF UploadInv

-----------------------------------------------------------------------------
\* The runs.

\* What a step of run r that is on leaves as it was.
OnlyRun(r) ==
    /\ run' \in [Runs -> Run]
    /\ run'[r].mine = run[r].mine /\ run'[r].aborted = run[r].aborted
    /\ run'[r].choice = run[r].choice
    /\ run'[r].step # "none"
    /\ \A s \in Runs \ {r} : run'[s] = run[s]

LEMMA RunFrame ==
    ASSUME UploadInv, NEW r \in Runs, IsOn(r), OnlyRun(r),
           dialog'.choice = dialog.choice
    PROVE  InTurn' /\ FilesInTurn'
<1>1. Started' = Started
  BY DEF Started, OnlyRun, IsOn
<1> QED
  BY <1>1 DEF UploadInv, InTurn, FilesInTurn, OnlyRun

\* Telling the dialog that the bytes are out.
LEMMA PhaseShape ==
    ASSUME dialog \in Dialog, NEW r,
           dialog' = dialog \/ dialog' = PhaseTo(r, "finalising")
    PROVE  /\ dialog' \in Dialog /\ dialog'.choice = dialog.choice
           /\ dialog'.file = dialog.file /\ dialog'.controller = dialog.controller
           /\ \/ dialog'.phase = dialog.phase
              \/ run[r].mine /\ dialog'.phase = "finalising"
<1>1. CASE dialog' = dialog
  BY <1>1
<1>2. CASE run[r].mine /\ dialog' = [dialog EXCEPT !.phase = "finalising"]
  BY <1>2 DEF Dialog
<1> QED
  BY <1>1, <1>2 DEF PhaseTo

\* A run that goes on; the dialog is told its phase, if it is the dialog's.
LEMMA GoesOn ==
    ASSUME UploadInv, NEW r \in Runs, IsOn(r), OnlyRun(r), IsOn(r)',
           dialog' = dialog \/ dialog' = PhaseTo(r, "finalising"),
           cuts' = cuts, excuse \subseteq excuse', excuse' \subseteq Excuses,
           excuse' \cap {"lost", "left", "outlived"}
              = excuse \cap {"lost", "left", "outlived"},
           AsFarAs(r)'
    PROVE  UploadInv'
<1>1. dialog \in Dialog
  BY DEF UploadInv, UploadTypeOK
<1>2. /\ dialog' \in Dialog /\ dialog'.choice = dialog.choice
      /\ dialog'.file = dialog.file /\ dialog'.controller = dialog.controller
      /\ \/ dialog'.phase = dialog.phase
         \/ run[r].mine /\ dialog'.phase = "finalising"
  BY <1>1, PhaseShape
<1>3. \A s \in Runs : IsOn(s)' <=> IsOn(s)
  BY DEF OnlyRun, IsOn
<1>4. /\ "lost" \in excuse' <=> "lost" \in excuse
      /\ "left" \in excuse' <=> "left" \in excuse
      /\ "outlived" \in excuse' <=> "outlived" \in excuse
  OBVIOUS
<1>5. UploadTypeOK'
  BY <1>2 DEF UploadInv, UploadTypeOK, OnlyRun
<1>6. InTurn' /\ FilesInTurn'
  BY <1>2, RunFrame
<1>7. ASSUME NEW s \in Runs PROVE AsFarAs(s)'
  BY DEF UploadInv, AsFarAs, OnlyRun
<1>8. /\ \A s \in Runs : run'[s].mine = run[s].mine
      /\ \A s \in Runs : run'[s].aborted = run[s].aborted
      /\ \A s \in Runs : run'[s].choice = run[s].choice
  BY DEF OnlyRun
<1>9. OneOfItsOwn'
  BY <1>2, <1>3, <1>4, <1>8 DEF UploadInv, OneOfItsOwn
<1>10. NoneLeft'
  BY <1>3, <1>4, <1>8 DEF UploadInv, NoneLeft
<1>11. FileStays'
  BY <1>2, <1>3, <1>4, <1>8 DEF UploadInv, FileStays
<1>12. cuts \subseteq Runs
  BY DEF UploadInv, UploadTypeOK
<1>13. FileGoes'
  BY <1>2, <1>3, <1>4, <1>8, <1>12 DEF UploadInv, FileGoes
<1>14. OneFileOneCut'
  BY <1>4, <1>8, <1>12 DEF UploadInv, OneFileOneCut
<1> QED
  BY <1>5, <1>6, <1>7, <1>9, <1>10, <1>11, <1>13, <1>14 DEF UploadInv

LEMMA InitAnsweredStep ==
    ASSUME UploadInv, NEW r \in Runs, InitAnswered(r)
    PROVE  UploadInv'
<1>1. /\ run \in [Runs -> Run] /\ run[r].step = "init"
      /\ run' = [run EXCEPT ![r].step = "put"]
      /\ UNCHANGED <<dialog, cuts, excuse>>
      /\ run[r].offset = 0 /\ run[r].kept = 0 /\ r \notin cuts
      /\ excuse \subseteq Excuses
  BY DEF UploadInv, UploadTypeOK, InitAnswered, AsFarAs
<1>2. OnlyRun(r) /\ IsOn(r) /\ IsOn(r)'
  BY <1>1 DEF OnlyRun, IsOn, Run
<1>3. AsFarAs(r)'
  BY <1>1, UploadAssumption DEF AsFarAs, Run
<1> QED
  BY <1>1, <1>2, <1>3, GoesOn

\* The bytes are out.
LEMMA BytesOutShape ==
    ASSUME UploadInv, NEW r \in Runs, run[r].step = "put",
           NEW kept \in 0 .. Chunks, BytesOut(r, kept, Chunks)
    PROVE  /\ OnlyRun(r) /\ IsOn(r) /\ IsOn(r)'
           /\ run'[r].step = "finalise" /\ run'[r].kept = kept
           /\ dialog' = PhaseTo(r, "finalising")
<1>1. /\ run \in [Runs -> Run]
      /\ run' = [run EXCEPT ![r].step = "finalise", ![r].kept = kept,
                            ![r].offset = Chunks]
      /\ dialog' = PhaseTo(r, "finalising")
  BY DEF UploadInv, UploadTypeOK, BytesOut
<1> DEFINE next == [run[r] EXCEPT !.step = "finalise", !.kept = kept,
                                  !.offset = Chunks]
<1>2. /\ next \in Run /\ next.step = "finalise" /\ next.kept = kept
      /\ next.mine = run[r].mine /\ next.aborted = run[r].aborted
      /\ next.choice = run[r].choice
  BY <1>1, Ranges DEF Run
<1>3. run' = [run EXCEPT ![r] = next]
  BY <1>1 DEF Run
<1> HIDE DEF next
<1>4. run' \in [Runs -> Run] /\ run'[r] = next /\ \A s \in Runs \ {r} : run'[s] = run[s]
  BY <1>1, <1>2, <1>3
<1> QED
  BY <1>1, <1>2, <1>4 DEF OnlyRun, IsOn

LEMMA PutFinalStep ==
    ASSUME UploadInv, NEW r \in Runs, PutFinal(r)
    PROVE  UploadInv'
<1>1. /\ run[r].step = "put" /\ BytesOut(r, Chunks, Chunks) /\ UNCHANGED <<cuts, excuse>>
      /\ excuse \subseteq Excuses /\ r \notin cuts
  BY DEF UploadInv, UploadTypeOK, PutFinal, AsFarAs
<1>2. /\ OnlyRun(r) /\ IsOn(r) /\ IsOn(r)'
      /\ run'[r].step = "finalise" /\ run'[r].kept = Chunks
      /\ dialog' = PhaseTo(r, "finalising")
  BY <1>1, Ranges, BytesOutShape
<1>3. AsFarAs(r)'
  BY <1>1, <1>2 DEF AsFarAs
<1> QED
  BY <1>1, <1>2, <1>3, GoesOn

\* The storage has taken the chunk, or what it acknowledges it has not kept.
LEMMA PutMoreStep ==
    ASSUME UploadInv, NEW r \in Runs, PutMore(r)
    PROVE  UploadInv'
<1>1. PICK kept \in Kept(r) \ {Chunks} :
          /\ IF run[r].offset + 1 = Chunks
             THEN BytesOut(r, kept, Chunks)
             ELSE /\ run' = [run EXCEPT ![r].kept = kept, ![r].offset = @ + 1]
                  /\ UNCHANGED dialog
          /\ excuse' = IF kept = run[r].offset + 1 THEN excuse
                                                   ELSE excuse \cup {"short"}
  BY DEF PutMore
<1>2. /\ run[r].step = "put" /\ UNCHANGED cuts /\ run \in [Runs -> Run]
      /\ excuse \subseteq Excuses /\ r \notin cuts
      /\ run[r].offset \in 0 .. Chunks /\ run[r].offset < Chunks
      /\ run[r].kept \in 0 .. Chunks
  BY DEF UploadInv, UploadTypeOK, PutMore, AsFarAs, Run
<1>3. kept \in 0 .. Chunks /\ run[r].offset + 1 \in 0 .. Chunks
  BY <1>1, <1>2, UploadAssumption DEF Kept
<1>4. /\ excuse \subseteq excuse' /\ excuse' \subseteq Excuses
      /\ excuse' \cap {"lost", "left", "outlived"}
            = excuse \cap {"lost", "left", "outlived"}
      /\ kept = run[r].offset + 1 \/ "short" \in excuse'
  BY <1>1, <1>2 DEF Excuses
<1>5. CASE run[r].offset + 1 = Chunks
  <2>1. /\ OnlyRun(r) /\ IsOn(r) /\ IsOn(r)'
        /\ run'[r].step = "finalise" /\ run'[r].kept = kept
        /\ dialog' = PhaseTo(r, "finalising")
    BY <1>1, <1>2, <1>3, <1>5, BytesOutShape
  <2>2. AsFarAs(r)'
    BY <1>1, <1>2, <1>4, <1>5, <2>1 DEF AsFarAs
  <2> QED
    BY <1>2, <1>4, <2>1, <2>2, GoesOn
<1>6. CASE run[r].offset + 1 # Chunks
  <2> DEFINE next == [run[r] EXCEPT !.kept = kept, !.offset = @ + 1]
  <2>1. /\ next \in Run /\ next.step = "put" /\ next.kept = kept
        /\ next.offset = run[r].offset + 1
        /\ next.mine = run[r].mine /\ next.aborted = run[r].aborted
        /\ next.choice = run[r].choice
    BY <1>2, <1>3 DEF Run
  <2>2. run' = [run EXCEPT ![r] = next]
    BY <1>1, <1>2, <1>6 DEF Run
  <2> HIDE DEF next
  <2>3. /\ run' \in [Runs -> Run] /\ run'[r] = next
        /\ \A s \in Runs \ {r} : run'[s] = run[s]
    BY <1>2, <2>1, <2>2
  <2>4. OnlyRun(r) /\ IsOn(r) /\ IsOn(r)'
    BY <1>2, <2>1, <2>3 DEF OnlyRun, IsOn
  <2>5. AsFarAs(r)'
    BY <1>2, <1>4, <1>6, <2>1, <2>3, UploadAssumption DEF AsFarAs
  <2> QED
    BY <1>1, <1>2, <1>4, <1>6, <2>4, <2>5, GoesOn
<1> QED
  BY <1>5, <1>6

\* The cut is recorded: no other cut has this run's file.
LEMMA FinaliseServedStep ==
    ASSUME UploadInv, NEW r \in Runs, FinaliseServed(r)
    PROVE  UploadInv'
<1>1. /\ run \in [Runs -> Run] /\ run[r].step = "finalise"
      /\ run' = [run EXCEPT ![r].step = "made"] /\ cuts' = cuts \cup {r}
      /\ UNCHANGED <<dialog, excuse>> /\ cuts \subseteq Runs
  BY DEF UploadInv, UploadTypeOK, FinaliseServed
<1>2. /\ OnlyRun(r) /\ IsOn(r) /\ IsOn(r)' /\ run'[r].step = "made"
      /\ run'[r].kept = run[r].kept
  BY <1>1 DEF OnlyRun, IsOn, Run
<1>3. /\ \A s \in Runs : IsOn(s)' <=> IsOn(s)
      /\ \A s \in Runs : run'[s].mine = run[s].mine
      /\ \A s \in Runs : run'[s].aborted = run[s].aborted
      /\ \A s \in Runs : run'[s].choice = run[s].choice
  BY <1>2 DEF OnlyRun, IsOn
<1>4. UploadTypeOK' /\ InTurn' /\ FilesInTurn'
  BY <1>1, <1>2, RunFrame DEF UploadInv, UploadTypeOK, OnlyRun
<1>5. ASSUME NEW s \in Runs PROVE AsFarAs(s)'
  BY <1>1, <1>2 DEF UploadInv, AsFarAs, OnlyRun
<1>6. OneOfItsOwn' /\ NoneLeft' /\ FileStays'
  BY <1>1, <1>3 DEF UploadInv, OneOfItsOwn, NoneLeft, FileStays
<1>7. FileGoes'
  BY <1>1, <1>2, <1>3 DEF UploadInv, FileGoes
<1>8. ASSUME excuse \cap {"lost", "left", "outlived"} = {}, NEW s \in cuts,
             run[s].choice = run[r].choice
      PROVE  s = r
  <2>1. dialog.file /\ run[r].choice = dialog.choice
    BY <1>2, <1>8 DEF UploadInv, FileStays
  <2>2. IsOn(s) /\ s \in Runs
    BY <1>1, <1>8, <2>1 DEF UploadInv, FileGoes
  <2>3. run[s].mine /\ run[r].mine
    BY <1>2, <1>8, <2>2 DEF UploadInv, NoneLeft
  <2> QED
    BY <1>2, <1>8, <2>2, <2>3 DEF UploadInv, OneOfItsOwn
<1>9. OneFileOneCut'
  BY <1>1, <1>3, <1>8 DEF UploadInv, OneFileOneCut
<1> QED
  BY <1>4, <1>5, <1>6, <1>7, <1>9 DEF UploadInv

\* A run ends, well or not: its dialog becomes idle.
LEMMA RunEnds ==
    ASSUME UploadInv, NEW r \in Runs, IsOn(r), OnlyRun(r),
           run'[r].step = "ended", run'[r].kept = run[r].kept, cuts' = cuts,
           dialog' \in Dialog, dialog'.choice = dialog.choice,
           IF run[r].mine
           THEN dialog'.phase = "idle"
                /\ (dialog'.file = dialog.file \/ ~dialog'.file)
           ELSE dialog' = dialog,
           excuse \subseteq excuse', excuse' \subseteq excuse \cup {"lost"},
           "lost" \in excuse' \/ r \notin cuts \/ ~run[r].mine \/ ~dialog'.file
    PROVE  UploadInv'
<1>1. /\ run \in [Runs -> Run] /\ dialog \in Dialog
      /\ cuts \subseteq Runs /\ excuse \subseteq Excuses
  BY DEF UploadInv, UploadTypeOK
<1>2. /\ ~IsOn(r)' /\ \A s \in Runs \ {r} : IsOn(s)' <=> IsOn(s)
      /\ \A s \in Runs : run'[s].mine = run[s].mine
      /\ \A s \in Runs : run'[s].aborted = run[s].aborted
      /\ \A s \in Runs : run'[s].choice = run[s].choice
  BY DEF OnlyRun, IsOn
<1>3. /\ "left" \in excuse' <=> "left" \in excuse
      /\ "outlived" \in excuse' <=> "outlived" \in excuse
      /\ excuse' \subseteq Excuses
  BY <1>1 DEF Excuses
<1>4. UploadTypeOK' /\ InTurn' /\ FilesInTurn'
  BY <1>1, <1>3, RunFrame DEF UploadTypeOK, OnlyRun
<1>5. ASSUME NEW s \in Runs PROVE AsFarAs(s)'
  BY DEF UploadInv, AsFarAs, OnlyRun, IsOn
<1>6. OneOfItsOwn'
  BY <1>2, <1>3 DEF UploadInv, OneOfItsOwn
<1>7. NoneLeft'
  BY <1>2, <1>3 DEF UploadInv, NoneLeft
<1>8. FileStays'
  <2> SUFFICES ASSUME excuse' \cap {"left", "outlived"} = {},
                      NEW s \in Runs, IsOn(s)'
               PROVE  dialog'.file /\ run'[s].choice = dialog'.choice
    BY DEF FileStays
  <2>1. s # r /\ IsOn(s) /\ "left" \notin excuse /\ "outlived" \notin excuse
    BY <1>2, <1>3
  <2>2. run[s].mine /\ run[r].mine
    BY <2>1 DEF UploadInv, NoneLeft
  <2> QED
    BY <2>1, <2>2 DEF UploadInv, OneOfItsOwn
<1>9. FileGoes'
  <2> SUFFICES ASSUME excuse' \cap {"lost", "left", "outlived"} = {},
                      NEW s \in cuts, dialog'.file, run'[s].choice = dialog'.choice
               PROVE  IsOn(s)'
    BY DEF FileGoes
  <2>1. excuse \cap {"lost", "left", "outlived"} = {}
    OBVIOUS
  <2>2. dialog.file /\ run[s].choice = dialog.choice /\ s \in Runs
    BY <1>1, <1>2
  <2>3. IsOn(s)
    BY <2>1, <2>2 DEF UploadInv, FileGoes
  <2>4. s # r
    BY <2>1, <2>2, <2>3 DEF UploadInv, NoneLeft
  <2> QED
    BY <1>2, <2>2, <2>3, <2>4
<1>10. OneFileOneCut'
  BY <1>1, <1>2 DEF UploadInv, OneFileOneCut
<1> QED
  BY <1>4, <1>5, <1>6, <1>7, <1>8, <1>9, <1>10 DEF UploadInv

LEMMA DoneStep ==
    ASSUME UploadInv, NEW r \in Runs, Done(r)
    PROVE  UploadInv'
<1>1. /\ run \in [Runs -> Run] /\ dialog \in Dialog /\ run[r].step = "made"
      /\ run' = [run EXCEPT ![r].step = "ended"] /\ UNCHANGED <<cuts, excuse>>
      /\ dialog' = IF run[r].mine THEN [Reset(dialog) EXCEPT !.open = FALSE]
                                  ELSE dialog
  BY DEF UploadInv, UploadTypeOK, Done
<1>2. /\ OnlyRun(r) /\ IsOn(r) /\ run'[r].step = "ended"
      /\ run'[r].kept = run[r].kept
  BY <1>1 DEF OnlyRun, IsOn, Run
<1>3. /\ dialog' \in Dialog /\ dialog'.choice = dialog.choice
      /\ run[r].mine => dialog'.phase = "idle" /\ ~dialog'.file
      /\ ~run[r].mine => dialog' = dialog
  BY <1>1, Ranges DEF Reset, Dialog
<1> QED
  BY <1>1, <1>2, <1>3, RunEnds

LEMMA ThrowStep ==
    ASSUME UploadInv, NEW r \in Runs, Throw(r)
    PROVE  UploadInv'
<1>1. /\ run \in [Runs -> Run] /\ dialog \in Dialog /\ IsOn(r)
      /\ run' = [run EXCEPT ![r].step = "ended"] /\ UNCHANGED cuts
      /\ dialog' = PhaseTo(r, "idle")
      /\ excuse' = IF run[r].step = "made" THEN excuse \cup {"lost"} ELSE excuse
  BY DEF UploadInv, UploadTypeOK, Throw
<1>2. OnlyRun(r) /\ run'[r].step = "ended" /\ run'[r].kept = run[r].kept
  BY <1>1 DEF OnlyRun, Run
<1>3. /\ dialog' \in Dialog /\ dialog'.choice = dialog.choice
      /\ run[r].mine => dialog'.phase = "idle" /\ dialog'.file = dialog.file
      /\ ~run[r].mine => dialog' = dialog
  BY <1>1 DEF PhaseTo, Dialog
<1>4. "lost" \in excuse' \/ r \notin cuts
  BY <1>1 DEF UploadInv, AsFarAs, IsOn
<1> QED
  BY <1>1, <1>2, <1>3, <1>4, RunEnds

LEMMA UploadNextInv ==
    ASSUME UploadInv, [UploadNext]_uploadVars
    PROVE  UploadInv'
<1>1. CASE UNCHANGED uploadVars
  <2>1. UNCHANGED <<dialog, run, cuts, excuse>>
    BY <1>1 DEF uploadVars
  <2>2. UploadTypeOK' /\ InTurn' /\ FilesInTurn'
    BY <2>1 DEF UploadInv, UploadTypeOK, InTurn, Started, FilesInTurn
  <2>3. \A r \in Runs : AsFarAs(r)'
    BY <2>1 DEF UploadInv, AsFarAs
  <2> QED
    BY <2>1, <2>2, <2>3 DEF UploadInv, OneOfItsOwn, NoneLeft, FileStays, FileGoes,
                            OneFileOneCut, IsOn
<1>2. CASE Start \/ Cancel \/ LeaveTab \/ Pick
  BY <1>2, StartStep, CancelStep, LeaveTabStep, PickStep
<1>3. ASSUME NEW r \in Runs, Progress(r) PROVE UploadInv'
  BY <1>3, InitAnsweredStep, PutFinalStep, PutMoreStep, FinaliseServedStep, DoneStep,
     ThrowStep DEF Progress
<1> QED
  BY <1>1, <1>2, <1>3, DialogueStep DEF UploadNext

(***************************************************************************)
(* The list of cuts.  A run that has made its cut will put it at the end   *)
(* of the list, so the invariant says of such a run that its number is in  *)
(* no row and behind all of them.                                          *)
(***************************************************************************)
\* The service never takes a cut back, and counts its commits.
Service ==
    /\ history \in Seq(Seq(Statuses)) /\ Len(history) \in States
    /\ reviews \in 0 .. MaxReviews
    /\ Len(history) =< 1 + reviews + Len(Now)
    /\ Len(Now) =< MaxCuts
    /\ \A k \in DOMAIN history : Len(history[k]) =< Len(Now)

\* The list holds cuts there are, each once, and one of them is current; its
\* request is out only while the skeleton stands in its place.
ListOfCuts ==
    /\ \A i \in DOMAIN tab.list : tab.list[i].cut =< Len(Now)
    /\ \A i, j \in DOMAIN tab.list : tab.list[i].cut = tab.list[j].cut => i = j
    /\ tab.list # <<>> => \E i \in DOMAIN tab.list : tab.list[i].cut = tab.current
    /\ tab.loaded => tab.answer = 0 /\ ~tab.asked
    /\ tab.answer =< Len(history)

InOrder ==
    "outlived" \notin excuse =>
        \A i \in DOMAIN tab.list : tab.list[i].cut =< tab.list[Len(tab.list)].cut

\* A run whose cut is made and not yet in the list.
Awaited(r) == run[r].step = "made" /\ run[r].mine

\* The numbers of the cuts that were made here: a cut that the list awaits is
\* none of the list's, and comes after all of them.
Numbers ==
    /\ number \in [Runs -> 0 .. MaxCuts]
    /\ \A r \in Runs : number[r] =< Len(Now)
    /\ \A r \in Runs : run[r].step = "made" => number[r] # 0
    /\ \A r, s \in Runs :
          run[r].step = "made" /\ run[s].step = "made" /\ number[r] = number[s]
             => r = s
    /\ \A r \in Runs : IsOn(r) /\ run[r].mine => tab.loaded
    /\ \A r \in Runs : Awaited(r) =>
          \A i \in DOMAIN tab.list :
              /\ tab.list[i].cut # number[r]
              /\ "outlived" \notin excuse => tab.list[i].cut < number[r]

TabInv ==
    /\ Service
    /\ tab \in Tab /\ sent \in [Requests -> Sent]
    /\ ListOfCuts /\ InOrder /\ Numbers

EditsInv == UploadInv /\ TabInv

-----------------------------------------------------------------------------
LEMMA EditsInitInv == EditsInit => EditsInv
<1> SUFFICES ASSUME EditsInit PROVE EditsInv
  OBVIOUS
<1>1. UploadInv
  BY UploadInitInv DEF EditsInit
<1>2. /\ number = [r \in Runs |-> 0] /\ run = [r \in Runs |-> NoRun] /\ reviews = 0
      /\ tab = Mounted /\ sent = [r \in Requests |-> Nothing] /\ excuse = {}
  BY DEF EditsInit, UploadInit, CutInit
<1>3. PICK n \in 0 .. 1 : history = <<[i \in 1 .. n |-> "in_review"]>>
  BY DEF EditsInit, CutInit
<1>4. Service
  <2> DEFINE first == [i \in 1 .. n |-> "in_review"]
  <2>1. first \in Seq(Statuses) /\ Len(first) = n
    BY DEF Statuses
  <2>2. history = <<first>>
    BY <1>3
  <2> HIDE DEF first
  <2>3. /\ history \in Seq(Seq(Statuses)) /\ Len(history) = 1 /\ history[1] = first
        /\ DOMAIN history = {1} /\ Now = first
    BY <2>1, <2>2 DEF Now, Last
  <2> QED
    BY <1>2, <2>1, <2>3, CutAssumption DEF Service, States
<1>5. tab \in Tab /\ sent \in [Requests -> Sent]
  BY <1>2, CutAssumption DEF Tab, Mounted, Sent, Nothing, Kinds
<1>6. ListOfCuts /\ InOrder
  BY <1>2, <1>4 DEF ListOfCuts, InOrder, Mounted, Service, States
<1>7. Numbers
  BY <1>2, <1>4, CutAssumption DEF Numbers, NoRun, IsOn, Awaited, Service
<1> QED
  BY <1>1, <1>4, <1>5, <1>6, <1>7 DEF EditsInv, TabInv

LEMMA RowsOfTab ==
    ASSUME tab \in Tab
    PROVE  /\ tab.list \in Seq(TabRow) /\ Len(tab.list) \in Nat
           /\ DOMAIN tab.list = 1 .. Len(tab.list)
           /\ \A i \in DOMAIN tab.list :
                 tab.list[i] \in TabRow /\ tab.list[i].cut \in 1 .. MaxCuts
<1>1. tab.list \in Seq(TabRow)
  BY DEF Tab
<1>2. /\ Len(tab.list) \in Nat /\ DOMAIN tab.list = 1 .. Len(tab.list)
      /\ \A i \in DOMAIN tab.list : tab.list[i] \in TabRow
  BY <1>1
<1> QED
  BY <1>1, <1>2 DEF TabRow

\* A commit.
LEMMA CommitShape ==
    ASSUME Service, NEW statuses \in Seq(Statuses), Commit(statuses)
    PROVE  /\ history' \in Seq(Seq(Statuses)) /\ Len(history') = Len(history) + 1
           /\ Now' = statuses /\ Now \in Seq(Statuses)
           /\ \A k \in DOMAIN history : history'[k] = history[k]
           /\ DOMAIN history' = 1 .. Len(history) + 1
           /\ history'[Len(history) + 1] = statuses
<1>1. /\ history \in Seq(Seq(Statuses)) /\ Len(history) \in Nat \ {0}
      /\ history' = Append(history, statuses)
  BY DEF Service, States, Commit
<1>2. /\ history' \in Seq(Seq(Statuses)) /\ Len(history') = Len(history) + 1
      /\ \A k \in 1 .. Len(history) : history'[k] = history[k]
      /\ history'[Len(history) + 1] = statuses
  BY <1>1, AppendProperties
<1>3. DOMAIN history = 1 .. Len(history) /\ DOMAIN history' = 1 .. Len(history')
  BY <1>1, <1>2
<1>4. Now' = statuses /\ Now \in Seq(Statuses)
  BY <1>1, <1>2 DEF Now, Last
<1> QED
  BY <1>1, <1>2, <1>3, <1>4

LEMMA RecordedStep ==
    ASSUME Service, Recorded
    PROVE  /\ Service' /\ Len(Now') = Len(Now) + 1 /\ Len(Now) \in Nat
           /\ Len(history') = Len(history) + 1
<1>1. /\ Now \in Seq(Statuses) /\ Len(Now) < MaxCuts /\ UNCHANGED reviews
      /\ Commit(Append(Now, "in_review"))
  BY DEF Service, States, Now, Last, Recorded
<1> DEFINE next == Append(Now, "in_review")
<1>2. next \in Seq(Statuses) /\ Len(next) = Len(Now) + 1 /\ Len(Now) \in Nat
  BY <1>1, AppendProperties DEF Statuses
<1> HIDE DEF next
<1>3. /\ history' \in Seq(Seq(Statuses)) /\ Len(history') = Len(history) + 1
      /\ Now' = next
      /\ \A k \in DOMAIN history : history'[k] = history[k]
      /\ DOMAIN history' = 1 .. Len(history) + 1
      /\ history'[Len(history) + 1] = next
  BY <1>1, <1>2, CommitShape DEF next
<1>4. Len(history') \in States
  BY <1>1, <1>2, <1>3, CutAssumption DEF Service, States
<1>5. \A k \in DOMAIN history' : Len(history'[k]) =< Len(Now')
  <2> SUFFICES ASSUME NEW k \in 1 .. Len(history) + 1 PROVE Len(history'[k]) =< Len(Now')
    BY <1>3
  <2>1. CASE k = Len(history) + 1
    BY <2>1, <1>2, <1>3
  <2>2. CASE k # Len(history) + 1
    <3>1. k \in DOMAIN history /\ history[k] \in Seq(Statuses)
      BY <2>2 DEF Service, States
    <3>2. Len(history[k]) =< Len(Now) /\ Len(history[k]) \in Nat
      BY <3>1 DEF Service
    <3> QED
      BY <3>1, <3>2, <1>2, <1>3
  <2> QED
    BY <2>1, <2>2
<1> QED
  BY <1>1, <1>2, <1>3, <1>4, <1>5, CutAssumption DEF Service, States

LEMMA ReviewedStep ==
    ASSUME Service, NEW kind, NEW cut, Reviewed(kind, cut)
    PROVE  /\ Service' /\ Len(Now') = Len(Now) /\ Len(Now) \in Nat
           /\ Len(history') >= Len(history)
<1>1. Now \in Seq(Statuses) /\ Len(Now) \in Nat
  BY DEF Service, States, Now, Last
<1>2. CASE UNCHANGED <<history, reviews>>
  BY <1>1, <1>2 DEF Service, Now, States
<1>3. CASE ~UNCHANGED <<history, reviews>>
  <2> DEFINE next == [Now EXCEPT ![cut] = IF kind = "approve" THEN "approved"
                                                        ELSE "changes_requested"]
  <2>1. /\ Commit(next) /\ reviews < MaxReviews /\ reviews' = reviews + 1
    BY <1>3 DEF Reviewed
  <2>2. next \in Seq(Statuses) /\ Len(next) = Len(Now)
    <3> DEFINE status == IF kind = "approve" THEN "approved" ELSE "changes_requested"
    <3>1. status \in Statuses
      BY DEF Statuses
    <3>a. next = [Now EXCEPT ![cut] = status]
      OBVIOUS
    <3> HIDE DEF status, next
    <3>b. Now \in [1 .. Len(Now) -> Statuses]
      BY <1>1
    <3>2. next \in [1 .. Len(Now) -> Statuses]
      BY <3>a, <3>b, <3>1
    <3> QED
      BY <1>1, <3>2
  <2> HIDE DEF next
  <2>3. /\ history' \in Seq(Seq(Statuses)) /\ Len(history') = Len(history) + 1
        /\ Now' = next
        /\ \A k \in DOMAIN history : history'[k] = history[k]
        /\ DOMAIN history' = 1 .. Len(history) + 1
        /\ history'[Len(history) + 1] = next
    BY <2>1, <2>2, CommitShape
  <2>4. /\ Len(history') \in States /\ reviews' \in 0 .. MaxReviews
        /\ Len(history') =< 1 + reviews' + Len(Now')
    BY <1>1, <2>1, <2>2, <2>3, CutAssumption DEF Service, States
  <2>5. \A k \in DOMAIN history' : Len(history'[k]) =< Len(Now')
    <3> SUFFICES ASSUME NEW k \in 1 .. Len(history) + 1 PROVE Len(history'[k]) =< Len(Now')
      BY <2>3
    <3>1. CASE k = Len(history) + 1
      BY <3>1, <1>1, <2>2, <2>3
    <3>2. CASE k # Len(history) + 1
      <4>1. k \in DOMAIN history
        BY <3>2 DEF Service, States
      <4> QED
        BY <4>1, <2>2, <2>3 DEF Service
    <3> QED
      BY <3>1, <3>2
  <2> QED
    BY <1>1, <2>2, <2>3, <2>4, <2>5 DEF Service, States
<1> QED
  BY <1>2, <1>3

\* The service alone has moved, and a review may have been answered.
LEMMA ServiceMoves ==
    ASSUME EditsInv, Service', Len(Now') >= Len(Now), Len(Now) \in Nat,
           Len(history') >= Len(history), sent' \in [Requests -> Sent],
           UNCHANGED <<tab, number, uploadVars>>
    PROVE  TabInv'
<1>1. /\ tab' = tab /\ number' = number /\ run' = run /\ excuse' = excuse
      /\ tab \in Tab /\ Len(Now') \in Nat /\ Len(history) \in Nat
      /\ Len(history') \in Nat
  BY DEF EditsInv, TabInv, uploadVars, Service, States, Now, Last
<1>2. ListOfCuts'
  <2>1. \A i \in DOMAIN tab.list : tab.list[i].cut \in Nat
    BY <1>1, RowsOfTab, CutAssumption
  <2>2. tab.answer \in Nat
    BY <1>1 DEF Tab, States
  <2>3. \A i \in DOMAIN tab.list : tab.list[i].cut =< Len(Now')
    BY <1>1, <2>1 DEF EditsInv, TabInv, ListOfCuts
  <2>4. tab.answer =< Len(history')
    BY <1>1, <2>2 DEF EditsInv, TabInv, ListOfCuts
  <2> QED
    BY <1>1, <2>3, <2>4 DEF EditsInv, TabInv, ListOfCuts
<1>3. InOrder'
  BY <1>1 DEF EditsInv, TabInv, InOrder
<1>4. Numbers'
  BY <1>1, CutAssumption DEF EditsInv, TabInv, Numbers, IsOn, Awaited
<1> QED
  BY <1>1, <1>2, <1>3, <1>4 DEF EditsInv, TabInv

\* The tab alone has moved: once loaded, its list keeps its cuts.
LEMMA TabMoves ==
    ASSUME EditsInv, UNCHANGED <<history, reviews, number, uploadVars>>,
           sent' \in [Requests -> Sent], tab' \in Tab, ListOfCuts', InOrder',
           tab.loaded => /\ tab'.loaded /\ DOMAIN tab'.list = DOMAIN tab.list
                         /\ \A i \in DOMAIN tab.list : tab'.list[i].cut = tab.list[i].cut
    PROVE  TabInv'
<1>1. number' = number /\ run' = run /\ excuse' = excuse /\ Now' = Now
  BY DEF uploadVars, Now
<1>2. Service'
  BY <1>1 DEF EditsInv, TabInv, Service
<1>3. Numbers'
  BY <1>1 DEF EditsInv, TabInv, Numbers, IsOn, Awaited
<1> QED
  BY <1>2, <1>3 DEF TabInv

\* Runs alone have moved: none has made a cut, or is back in a dialog.
LEMMA RunsMove ==
    ASSUME EditsInv, UNCHANGED <<number, cutVars>>, excuse \subseteq excuse',
           \A r \in Runs : /\ run'[r].step = "made" => run[r].step = "made"
                           /\ Awaited(r)' => Awaited(r)
                           /\ IsOn(r)' /\ run'[r].mine => tab.loaded
    PROVE  TabInv'
<1>1. /\ number' = number /\ history' = history /\ reviews' = reviews
      /\ tab' = tab /\ sent' = sent
  BY DEF cutVars
<1>2. Service' /\ ListOfCuts' /\ InOrder' /\ tab' \in Tab /\ Now' = Now
      /\ sent' \in [Requests -> Sent]
  BY <1>1 DEF EditsInv, TabInv, Service, ListOfCuts, InOrder, Now
<1>3. Numbers'
  BY <1>1, <1>2 DEF EditsInv, TabInv, Numbers
<1> QED
  BY <1>2, <1>3 DEF TabInv

-----------------------------------------------------------------------------
\* The list is asked for while it is not there, and comes whole.
LEMMA ListingStep ==
    ASSUME EditsInv, Listing, UNCHANGED <<number, uploadVars>>
    PROVE  TabInv'
<1>1. /\ tab \in Tab /\ ListOfCuts /\ InOrder /\ Service
      /\ UNCHANGED <<history, reviews, sent>> /\ sent' \in [Requests -> Sent]
      /\ excuse' = excuse /\ Now' = Now
  BY DEF EditsInv, TabInv, Listing, ServeList, DeliverList, FailList, uploadVars, Now
<1>2. Len(history) \in Nat \ {0} /\ Len(history) \in States
  BY <1>1 DEF Service, States
<1>3. ~tab.loaded
  BY <1>1 DEF Listing, ServeList, DeliverList, FailList, ListOfCuts
<1>4. CASE ServeList \/ FailList
  <2>1. /\ tab'.list = tab.list /\ tab'.loaded = tab.loaded
        /\ tab'.current = tab.current /\ tab'.answer \in {0, Len(history)}
        /\ tab' \in Tab
    BY <1>1, <1>2, <1>4 DEF ServeList, FailList, Tab
  <2>2. ListOfCuts' /\ InOrder'
    BY <1>1, <1>2, <1>3, <2>1 DEF ListOfCuts, InOrder
  <2> QED
    BY <1>1, <1>3, <2>1, <2>2, TabMoves
<1>5. CASE DeliverList
  <2> DEFINE n == Len(history[tab.answer])
             rows == [i \in 1 .. n |-> [cut |-> i, at |-> tab.answer]]
  <2>1. /\ tab' = [loaded |-> TRUE, asked |-> FALSE, answer |-> 0, current |-> n,
                   list |-> rows]
        /\ tab.answer # 0
    BY <1>5 DEF DeliverList
  <2>2. tab.answer \in States /\ tab.answer \in DOMAIN history
    <3>1. tab.answer \in States
      BY <1>1, <2>1 DEF Tab
    <3> QED
      BY <1>1, <3>1, CutAssumption DEF Service, ListOfCuts, States
  <2>3. n \in Nat /\ n =< Len(Now)
    BY <1>1, <2>2 DEF Service
  <2>4. n \in 0 .. MaxCuts
    BY <1>1, <2>3, CutAssumption DEF Service, States, Now, Last
  <2> HIDE DEF n
  <2>5. rows \in Seq(TabRow)
    <3>1. \A i \in 1 .. n : [cut |-> i, at |-> tab.answer] \in TabRow
      BY <2>2, <2>4, CutAssumption DEF TabRow
    <3>2. rows \in [1 .. n -> TabRow]
      BY <3>1
    <3> HIDE DEF rows
    <3> QED
      BY <2>3, <3>2
  <2>6. /\ DOMAIN rows = 1 .. n /\ Len(rows) = n
        /\ \A i \in 1 .. n : rows[i].cut = i
    BY <2>3
  <2> HIDE DEF rows
  <2>7. tab' \in Tab /\ tab'.list = rows /\ tab'.current = n /\ tab'.answer = 0
        /\ tab'.loaded /\ ~tab'.asked
    BY <2>1, <2>4, <2>5 DEF Tab
  <2>8. rows # <<>> => n \in 1 .. n
    BY <2>3, <2>5, <2>6
  <2>9. ListOfCuts'
    <3>1. \A i \in 1 .. n : i =< Len(Now)
      BY <1>1, <2>3 DEF Service, States, Now, Last
    <3> QED
      BY <1>1, <1>2, <2>3, <2>6, <2>7, <2>8, <3>1 DEF ListOfCuts
  <2>10. InOrder'
    BY <2>3, <2>6, <2>7 DEF InOrder
  <2> QED
    BY <1>1, <1>3, <2>7, <2>9, <2>10, TabMoves
<1> QED
  BY <1>4, <1>5 DEF Listing

\* The steps of the review buttons and of the list.
LEMMA CutNextStep ==
    ASSUME EditsInv, CutNext, UNCHANGED <<number, uploadVars>>
    PROVE  TabInv'
<1>1. /\ tab \in Tab /\ ListOfCuts /\ InOrder /\ Service
      /\ sent \in [Requests -> Sent] /\ excuse' = excuse
  BY DEF EditsInv, TabInv, uploadVars
<1>2. Len(history) \in States /\ Len(history) \in Nat
  BY <1>1 DEF Service, States
<1>3. Len(Now) \in Nat
  BY <1>1 DEF Service, States, Now, Last
<1>4. ASSUME NEW i \in DOMAIN tab.list, Select(i) PROVE TabInv'
  <2>1. /\ tab' = [tab EXCEPT !.current = tab.list[i].cut]
        /\ UNCHANGED <<history, reviews, sent>> /\ Now' = Now
    BY <1>4 DEF Select, Now
  <2>2. tab.list[i].cut \in 1 .. MaxCuts
    BY <1>1, RowsOfTab
  <2>3. /\ tab' \in Tab /\ tab'.list = tab.list /\ tab'.loaded = tab.loaded
        /\ tab'.answer = tab.answer /\ tab'.asked = tab.asked
        /\ tab'.current = tab.list[i].cut
    BY <1>1, <2>1, <2>2, CutAssumption DEF Tab
  <2>4. ListOfCuts' /\ InOrder'
    BY <1>1, <2>1, <2>3 DEF ListOfCuts, InOrder
  <2> QED
    BY <1>1, <2>1, <2>3, <2>4, TabMoves
<1>5. ASSUME NEW kind \in Kinds, Press(kind) PROVE TabInv'
  <2>1. UNCHANGED <<history, reviews, tab>> /\ Now' = Now
    BY <1>5 DEF Press, Now
  <2>2. tab.current \in 1 .. MaxCuts
    BY <1>1, <1>5, RowsOfTab DEF Press, Offered, Shown, Kinds
  <2>3. [on |-> TRUE, kind |-> kind, cut |-> tab.current, commit |-> 0] \in Sent
    BY <1>5, <2>2 DEF Sent
  <2>4. sent' \in [Requests -> Sent]
    BY <1>1, <1>5, <2>3 DEF Press
  <2> QED
    BY <1>1, <1>2, <1>3, <2>1, <2>4, ServiceMoves DEF Service
<1>6. ASSUME NEW r \in Requests, ServeReview(r) PROVE TabInv'
  <2>1. /\ Reviewed(sent[r].kind, sent[r].cut) /\ tab' = tab
        /\ sent' = [sent EXCEPT ![r].commit = Len(history')]
    BY <1>6 DEF ServeReview
  <2>2. /\ Service' /\ Len(Now') = Len(Now) /\ Len(history') >= Len(history)
    BY <1>1, <2>1, ReviewedStep
  <2>3. sent' \in [Requests -> Sent]
    BY <1>1, <2>1, <2>2 DEF Service, Sent
  <2> QED
    BY <1>1, <1>2, <1>3, <2>1, <2>2, <2>3, ServiceMoves
<1>7. ASSUME NEW r \in Requests, ReviewAnswered(r) PROVE TabInv'
  <2> DEFINE rows == [i \in DOMAIN tab.list |->
                        IF tab.list[i].cut = sent[r].cut
                        THEN [tab.list[i] EXCEPT !.at = sent[r].commit]
                        ELSE tab.list[i]]
  <2>1. /\ tab' = [tab EXCEPT !.list = rows] /\ sent' = [sent EXCEPT ![r] = Nothing]
        /\ UNCHANGED <<history, reviews>> /\ Now' = Now /\ sent[r].commit # 0
    BY <1>7 DEF ReviewAnswered, Now
  <2>2. sent[r].commit \in States
    BY <1>1, <2>1 DEF Sent
  <2>3. \A i \in DOMAIN tab.list : rows[i] \in TabRow /\ rows[i].cut = tab.list[i].cut
    BY <1>1, <2>2, RowsOfTab DEF TabRow
  <2>4. DOMAIN rows = DOMAIN tab.list /\ DOMAIN tab.list = 1 .. Len(tab.list)
        /\ Len(tab.list) \in Nat
    BY <1>1, RowsOfTab
  <2>4a. rows = [i \in 1 .. Len(tab.list) |-> rows[i]]
    BY <2>4
  <2> HIDE DEF rows
  <2>5. rows \in Seq(TabRow) /\ Len(rows) = Len(tab.list)
    <3>1. rows \in [1 .. Len(tab.list) -> TabRow]
      BY <2>3, <2>4, <2>4a
    <3> QED
      BY <2>4, <3>1
  <2>6. /\ tab' \in Tab /\ tab'.list = rows /\ tab'.loaded = tab.loaded
        /\ tab'.answer = tab.answer /\ tab'.asked = tab.asked
        /\ tab'.current = tab.current
    BY <1>1, <2>1, <2>5 DEF Tab
  <2>7. sent' \in [Requests -> Sent]
    BY <1>1, <2>1, CutAssumption DEF Nothing, Sent, Kinds
  <2>8. ListOfCuts'
    <3>1. rows # <<>> => tab.list # <<>>
      BY <2>4, <2>5, <1>1, RowsOfTab
    <3> QED
      BY <1>1, <2>1, <2>3, <2>4, <2>6, <3>1 DEF ListOfCuts
  <2>9. InOrder'
    <3>1. DOMAIN tab.list # {} => Len(tab.list) \in DOMAIN tab.list
      BY <2>4
    <3> QED
      BY <1>1, <2>3, <2>4, <2>5, <2>6, <3>1 DEF InOrder
  <2> QED
    BY <2>1, <2>3, <2>4, <2>6, <2>7, <2>8, <2>9, TabMoves
<1>8. ASSUME NEW r \in Requests, Fail(r) PROVE TabInv'
  <2>1. UNCHANGED <<history, reviews, tab>> /\ sent' = [sent EXCEPT ![r] = Nothing]
        /\ Now' = Now
    BY <1>8 DEF Fail, Now
  <2>2. sent' \in [Requests -> Sent]
    BY <1>1, <2>1, CutAssumption DEF Nothing, Sent, Kinds
  <2> QED
    BY <1>1, <1>2, <1>3, <2>1, <2>2, ServiceMoves DEF Service
<1>9. ASSUME Somebody PROVE TabInv'
  <2>1. UNCHANGED <<tab, sent>>
    BY <1>9 DEF Somebody
  <2>2. Service' /\ Len(Now') >= Len(Now) /\ Len(history') >= Len(history)
    BY <1>1, <1>2, <1>3, <1>9, RecordedStep, ReviewedStep DEF Somebody
  <2> QED
    BY <1>1, <1>2, <1>3, <2>1, <2>2, ServiceMoves
<1> QED
  BY <1>4, <1>5, <1>6, <1>7, <1>8, <1>9, ListingStep DEF CutNext, Answering

-----------------------------------------------------------------------------
\* The steps of the dialog: a run begins only in a tab that is loaded.
LEMMA DialogueTabStep ==
    ASSUME EditsInv, Dialogue
    PROVE  TabInv'
<1>1. tab.loaded /\ UNCHANGED <<number, cutVars>> /\ run \in [Runs -> Run]
  BY DEF Dialogue, EditsInv, UploadInv, UploadTypeOK
<1>2. CASE Start
  <2>1. Cardinality(Started) + 1 \in Runs /\ UNCHANGED excuse
    BY <1>2, NextRun, UploadAssumption DEF Start, EditsInv, UploadInv, Runs
  <2> PICK r \in Runs : r = Cardinality(Started) + 1
    BY <2>1
  <2> DEFINE next == [NoRun EXCEPT !.step = "init", !.mine = TRUE,
                        !.choice = dialog.choice, !.ticked = dialog.ticked]
  <2>2. next.step = "init"
    BY DEF NoRun
  <2>3. run' = [run EXCEPT ![r] = next]
    BY <1>2 DEF Start
  <2> HIDE DEF next
  <2>4. run'[r].step = "init" /\ \A s \in Runs \ {r} : run'[s] = run[s]
    BY <1>1, <2>2, <2>3
  <2> QED
    BY <1>1, <2>1, <2>4, RunsMove DEF Awaited
<1>3. CASE Cancel
  <2>1. excuse \subseteq excuse'
    BY <1>3 DEF Cancel
  <2>2. \A r \in Runs : /\ run'[r].mine = run[r].mine
                        /\ run'[r].step = "made" => run[r].step = "made"
    <3> PICK c : c = dialog.controller
      OBVIOUS
    <3>1. \/ run' = run
          \/ run' = [run EXCEPT ![c].aborted = TRUE,
                       ![c].step = IF @ = "put" THEN "ended" ELSE @]
      BY <1>3 DEF Cancel
    <3>2. CASE run' = run
      BY <3>2
    <3>3. CASE run' = [run EXCEPT ![c].aborted = TRUE,
                          ![c].step = IF @ = "put" THEN "ended" ELSE @]
      BY <1>1, <3>3 DEF Run
    <3> QED
      BY <3>1, <3>2, <3>3
  <2> QED
    BY <1>1, <2>1, <2>2, RunsMove DEF Awaited
<1>4. CASE UNCHANGED <<run, excuse>>
  BY <1>1, <1>4, RunsMove DEF Awaited, IsOn
<1> QED
  BY <1>2, <1>3, <1>4
     DEF Dialogue, OpenDialog, CloseDialog, CancelIdle, Pick, PutBack, Tick

\* Leaving the tab: no run is awaited any more.
LEMMA LeaveStep ==
    ASSUME EditsInv, Leave
    PROVE  TabInv'
<1>1. /\ tab' = Mounted /\ UNCHANGED <<history, reviews, sent, number>>
      /\ run' = [r \in Runs |-> [run[r] EXCEPT !.mine = FALSE]]
      /\ run \in [Runs -> Run] /\ Now' = Now
  BY DEF Leave, LeaveTab, EditsInv, UploadInv, UploadTypeOK, Now
<1>2. \A r \in Runs : run'[r].step = run[r].step /\ ~run'[r].mine
  BY <1>1 DEF Run
<1>3. Service' /\ sent' \in [Requests -> Sent] /\ Len(history) \in Nat
  BY <1>1 DEF EditsInv, TabInv, Service, States
<1>4. tab' \in Tab /\ tab'.list = <<>> /\ ~tab'.loaded /\ tab'.answer = 0
  BY <1>1, CutAssumption DEF Mounted, Tab
<1>5. ListOfCuts' /\ InOrder'
  BY <1>1, <1>3, <1>4 DEF ListOfCuts, InOrder
<1>6. Numbers'
  BY <1>1, <1>2 DEF EditsInv, TabInv, Numbers, Awaited
<1> QED
  BY <1>3, <1>4, <1>5, <1>6 DEF TabInv

\* A run that sends: its cut is not made yet.
LEMMA SendingStep ==
    ASSUME EditsInv, NEW r \in Runs, Sending(r)
    PROVE  TabInv'
<1>1. UNCHANGED <<number, cutVars>> /\ run \in [Runs -> Run] /\ IsOn(r)
  BY DEF Sending, EditsInv, UploadInv, UploadTypeOK, IsOn, InitAnswered, PutFinal,
         PutMore, Throw
<1>2. PICK next : /\ run' = [run EXCEPT ![r] = next]
                  /\ next.step # "made" /\ next.mine = run[r].mine
  <2>1. CASE InitAnswered(r) \/ Throw(r)
    <3>1. \E step \in {"put", "ended"} : run' = [run EXCEPT ![r].step = step]
      BY <2>1 DEF InitAnswered, Throw
    <3> QED
      BY <1>1, <3>1 DEF Run
  <2>2. ASSUME NEW kept, BytesOut(r, kept, Chunks)
        PROVE  \E next : /\ run' = [run EXCEPT ![r] = next]
                         /\ next.step # "made" /\ next.mine = run[r].mine
    <3> DEFINE next == [run[r] EXCEPT !.step = "finalise", !.kept = kept,
                                      !.offset = Chunks]
    <3>1. run' = [run EXCEPT ![r] = next] /\ next.step = "finalise"
          /\ next.mine = run[r].mine
      BY <1>1, <2>2 DEF BytesOut, Run
    <3> HIDE DEF next
    <3> QED
      BY <3>1
  <2>3. ASSUME NEW kept, run[r].step = "put",
               run' = [run EXCEPT ![r].kept = kept, ![r].offset = @ + 1]
        PROVE  \E next : /\ run' = [run EXCEPT ![r] = next]
                         /\ next.step # "made" /\ next.mine = run[r].mine
    <3> DEFINE next == [run[r] EXCEPT !.kept = kept, !.offset = @ + 1]
    <3>1. run' = [run EXCEPT ![r] = next] /\ next.step = "put"
          /\ next.mine = run[r].mine
      BY <1>1, <2>3 DEF Run
    <3> HIDE DEF next
    <3> QED
      BY <3>1
  <2> QED
    BY <2>1, <2>2, <2>3 DEF Sending, PutFinal, PutMore
<1>3. /\ run'[r].step # "made" /\ run'[r].mine = run[r].mine
      /\ \A s \in Runs \ {r} : run'[s] = run[s]
  BY <1>1, <1>2
<1>4. excuse \subseteq excuse'
  BY DEF Sending, InitAnswered, PutFinal, PutMore, Throw
<1> QED
  BY <1>1, <1>3, <1>4, RunsMove DEF Awaited, IsOn, EditsInv, TabInv, Numbers

\* A cut is made: its number is the latest.
LEMMA FinaliseStep ==
    ASSUME EditsInv, NEW r \in Runs, Finalise(r)
    PROVE  TabInv'
<1>1. /\ Recorded /\ UNCHANGED <<tab, sent, excuse>>
      /\ run[r].step = "finalise" /\ run \in [Runs -> Run]
      /\ run' = [run EXCEPT ![r].step = "made"]
      /\ number' = [number EXCEPT ![r] = Len(Now')]
  BY DEF Finalise, FinaliseServed, EditsInv, UploadInv, UploadTypeOK
<1>2. /\ Service' /\ Len(Now') = Len(Now) + 1 /\ Len(Now) \in Nat
      /\ Len(history') = Len(history) + 1 /\ Len(history) \in Nat
  BY <1>1, RecordedStep DEF EditsInv, TabInv, Service, States
<1>3. /\ run'[r].step = "made" /\ run'[r].mine = run[r].mine
      /\ \A s \in Runs \ {r} : run'[s] = run[s]
  BY <1>1 DEF Run
<1>4. tab \in Tab /\ sent' \in [Requests -> Sent]
  BY <1>1 DEF EditsInv, TabInv
<1>5. \A i \in DOMAIN tab.list : tab.list[i].cut \in Nat /\ tab.list[i].cut =< Len(Now)
  BY <1>4, RowsOfTab, CutAssumption DEF EditsInv, TabInv, ListOfCuts
<1>6. ListOfCuts'
  <2>1. \A i \in DOMAIN tab.list : tab.list[i].cut =< Len(Now')
    BY <1>2, <1>5
  <2>2. tab.answer =< Len(history')
    BY <1>2, <1>4 DEF Tab, States, EditsInv, TabInv, ListOfCuts
  <2> QED
    BY <1>1, <2>1, <2>2 DEF EditsInv, TabInv, ListOfCuts
<1>7. InOrder'
  BY <1>1 DEF EditsInv, TabInv, InOrder
<1>8. Numbers'
  <2>1. /\ number' \in [Runs -> 0 .. MaxCuts] /\ number'[r] = Len(Now) + 1
        /\ \A s \in Runs \ {r} : number'[s] = number[s]
        /\ \A s \in Runs : number[s] \in Nat /\ number[s] =< Len(Now)
    BY <1>1, <1>2, CutAssumption DEF EditsInv, TabInv, Numbers, Service
  <2>2. \A s \in Runs : number'[s] =< Len(Now')
    BY <1>2, <2>1
  <2>3. \A s \in Runs : run'[s].step = "made" => number'[s] # 0
    BY <1>2, <1>3, <2>1 DEF EditsInv, TabInv, Numbers
  <2>4. \A s, t \in Runs :
           run'[s].step = "made" /\ run'[t].step = "made" /\ number'[s] = number'[t]
              => s = t
    <3>1. \A s \in Runs \ {r} : number'[s] # number'[r]
      BY <1>2, <2>1
    <3> QED
      BY <1>3, <2>1, <3>1 DEF EditsInv, TabInv, Numbers
  <2>5. \A s \in Runs : IsOn(s)' /\ run'[s].mine => tab'.loaded
    BY <1>1, <1>3 DEF EditsInv, TabInv, Numbers, IsOn
  <2>6. ASSUME NEW s \in Runs, Awaited(s)', NEW i \in DOMAIN tab'.list
        PROVE  /\ tab'.list[i].cut # number'[s]
               /\ "outlived" \notin excuse' => tab'.list[i].cut < number'[s]
    <3>1. CASE s = r
      BY <1>1, <1>2, <1>5, <2>1, <3>1
    <3>2. CASE s # r
      BY <1>1, <1>3, <2>1, <2>6, <3>2 DEF EditsInv, TabInv, Numbers, Awaited
    <3> QED
      BY <3>1, <3>2
  <2> QED
    BY <2>1, <2>2, <2>3, <2>4, <2>5, <2>6 DEF Numbers
<1> QED
  BY <1>1, <1>2, <1>4, <1>6, <1>7, <1>8 DEF TabInv

\* An upload ends in its dialog: its cut goes to the end of the list.  No other
\* run of the dialog is on, unless one outlived its cancellation.
LEMMA FinishStep ==
    ASSUME EditsInv, NEW r \in Runs, Finish(r)
    PROVE  TabInv'
<1>1. /\ UNCHANGED <<history, reviews, sent, number, excuse>> /\ Now' = Now
      /\ run[r].step = "made" /\ run \in [Runs -> Run]
      /\ run' = [run EXCEPT ![r].step = "ended"]
      /\ tab' = IF run[r].mine THEN Uploaded(number[r]) ELSE tab
  BY DEF Finish, Done, EditsInv, UploadInv, UploadTypeOK, Now
<1>2. /\ run'[r].step = "ended" /\ \A s \in Runs \ {r} : run'[s] = run[s]
  BY <1>1 DEF Run
<1>3. CASE ~run[r].mine
  <2>1. UNCHANGED <<number, cutVars>>
    BY <1>1, <1>3 DEF cutVars
  <2> QED
    BY <1>1, <1>2, <2>1, RunsMove DEF Awaited, IsOn, EditsInv, TabInv, Numbers
<1>4. CASE run[r].mine
  <2> DEFINE row == [cut |-> number[r], at |-> Len(history)]
             rows == Append(tab.list, row)
  <2>1. tab' = [tab EXCEPT !.current = number[r], !.list = rows]
    BY <1>1, <1>4 DEF Uploaded
  <2>2. /\ number[r] \in 1 .. MaxCuts /\ number[r] =< Len(Now)
        /\ Len(history) \in States /\ Len(history) \in Nat /\ tab.loaded
    BY <1>1, <1>4, CutAssumption
       DEF EditsInv, TabInv, Numbers, Service, States, IsOn
  <2>3. /\ tab \in Tab /\ tab.list \in Seq(TabRow) /\ DOMAIN tab.list = 1 .. Len(tab.list)
        /\ Len(tab.list) \in Nat
    BY RowsOfTab DEF EditsInv, TabInv
  <2>4. row \in TabRow /\ row.cut = number[r]
    BY <2>2 DEF TabRow
  <2> HIDE DEF row
  <2>5. /\ rows \in Seq(TabRow) /\ Len(rows) = Len(tab.list) + 1 /\ rows # <<>>
        /\ \A i \in 1 .. Len(tab.list) : rows[i] = tab.list[i]
        /\ rows[Len(tab.list) + 1] = row
    BY <2>3, <2>4, AppendProperties
  <2>6. DOMAIN rows = 1 .. Len(tab.list) + 1
    BY <2>5
  <2> HIDE DEF rows
  <2>7. /\ tab' \in Tab /\ tab'.list = rows /\ tab'.current = number[r]
        /\ tab'.loaded = tab.loaded /\ tab'.answer = tab.answer
        /\ tab'.asked = tab.asked
    <3>1. number[r] \in 0 .. MaxCuts
      BY <2>2, CutAssumption
    <3> QED
      BY <2>1, <2>3, <2>5, <3>1 DEF Tab
  <2>8. /\ \A i \in DOMAIN tab.list : tab.list[i].cut # number[r]
        /\ "outlived" \notin excuse =>
              \A i \in DOMAIN tab.list : tab.list[i].cut < number[r]
    BY <1>1, <1>4 DEF EditsInv, TabInv, Numbers, Awaited
  <2>9. /\ DOMAIN tab'.list = 1 .. Len(tab.list) + 1
        /\ \A i \in 1 .. Len(tab.list) : tab'.list[i].cut = tab.list[i].cut
        /\ tab'.list[Len(tab.list) + 1].cut = number[r]
        /\ Len(tab'.list) = Len(tab.list) + 1
    BY <2>4, <2>5, <2>6, <2>7
  <2>9a. \A i \in 1 .. Len(tab.list) + 1 : i \in 1 .. Len(tab.list) \/ i = Len(tab.list) + 1
    BY <2>3
  <2>9b. Len(tab.list) + 1 \in 1 .. Len(tab.list) + 1
    BY <2>3
  <2>10. ListOfCuts'
    <3>1. \A i \in DOMAIN tab'.list : tab'.list[i].cut =< Len(Now')
      BY <1>1, <2>2, <2>3, <2>9, <2>9a DEF EditsInv, TabInv, ListOfCuts
    <3>2. \A i, j \in DOMAIN tab'.list : tab'.list[i].cut = tab'.list[j].cut => i = j
      BY <2>3, <2>8, <2>9, <2>9a DEF EditsInv, TabInv, ListOfCuts
    <3>3. \E i \in DOMAIN tab'.list : tab'.list[i].cut = tab'.current
      BY <2>7, <2>9, <2>9b
    <3> QED
      BY <1>1, <2>7, <3>1, <3>2, <3>3 DEF EditsInv, TabInv, ListOfCuts
  <2>11. InOrder'
    <3>1. "outlived" \notin excuse => \A i \in DOMAIN tab.list : tab.list[i].cut =< number[r]
      BY <2>2, <2>3, <2>8, RowsOfTab
    <3>2. "outlived" \notin excuse => \A i \in DOMAIN tab'.list : tab'.list[i].cut =< number[r]
      BY <2>2, <2>9, <2>9a, <3>1
    <3> QED
      BY <1>1, <2>9, <3>2 DEF InOrder
  <2>12. Numbers'
    <3>1. ASSUME NEW s \in Runs, Awaited(s)', NEW i \in DOMAIN tab'.list
          PROVE  /\ tab'.list[i].cut # number[s]
                 /\ "outlived" \notin excuse => tab'.list[i].cut < number[s]
      <4>1. s # r /\ Awaited(s)
        BY <1>2, <3>1 DEF Awaited
      <4>2. CASE i \in 1 .. Len(tab.list)
        BY <2>3, <2>9, <4>1, <4>2 DEF EditsInv, TabInv, Numbers
      <4>3. CASE i = Len(tab.list) + 1
        <5>1. "outlived" \in excuse
          BY <1>1, <1>4, <4>1 DEF EditsInv, UploadInv, OneOfItsOwn, Awaited, IsOn
        <5>2. number[s] # number[r]
          BY <1>1, <4>1 DEF EditsInv, TabInv, Numbers, Awaited
        <5> QED
          BY <2>9, <4>3, <5>1, <5>2
      <4> QED
        BY <2>9, <2>9a, <4>2, <4>3
    <3>2. \A s \in Runs : run'[s].step = "made" => run[s].step = "made" /\ s # r
      BY <1>2
    <3>3. \A s \in Runs : IsOn(s)' /\ run'[s].mine => tab'.loaded
      BY <2>2, <2>7
    <3> QED
      BY <1>1, <3>1, <3>2, <3>3 DEF EditsInv, TabInv, Numbers
  <2>13. Service'
    BY <1>1 DEF EditsInv, TabInv, Service
  <2> QED
    BY <1>1, <2>7, <2>10, <2>11, <2>12, <2>13 DEF EditsInv, TabInv
<1> QED
  BY <1>3, <1>4

-----------------------------------------------------------------------------
\* A step of the tab is a step of its uploads, or leaves them alone.
LEMMA EditsStepUploads == [EditsNext]_editsVars => [UploadNext]_uploadVars
<1> SUFFICES ASSUME [EditsNext]_editsVars PROVE [UploadNext]_uploadVars
  OBVIOUS
<1>1. CASE UNCHANGED editsVars
  BY <1>1 DEF editsVars
<1>2. CASE Dialogue \/ Leave
  BY <1>2 DEF Dialogue, Leave, UploadNext
<1>3. ASSUME NEW r \in Runs, RunStep(r) PROVE UploadNext
  <2>1. Progress(r)
    BY <1>3 DEF RunStep, Sending, Finalise, Finish, Progress
  <2> QED
    BY <2>1 DEF UploadNext
<1> QED
  BY <1>1, <1>2, <1>3 DEF EditsNext

LEMMA EditsNextInv ==
    ASSUME EditsInv, [EditsNext]_editsVars
    PROVE  EditsInv'
<1>1. UploadInv'
  BY EditsStepUploads, UploadNextInv DEF EditsInv
<1>2. CASE UNCHANGED editsVars
  <2>1. UNCHANGED <<number, uploadVars>> /\ UNCHANGED cutVars
    BY <1>2 DEF editsVars
  <2>2. /\ excuse' = excuse /\ run' = run
    BY <2>1 DEF uploadVars
  <2> QED
    BY <1>1, <2>1, <2>2, RunsMove DEF EditsInv, TabInv, Numbers, Awaited, IsOn
<1>3. ASSUME NEW r \in Runs, RunStep(r) PROVE TabInv'
  BY <1>3, SendingStep, FinaliseStep, FinishStep DEF RunStep
<1> QED
  BY <1>1, <1>2, <1>3, DialogueTabStep, LeaveStep, ListingStep, CutNextStep
     DEF EditsNext, EditsInv

LEMMA Unfold ==
    ASSUME EditsInv
    PROVE  /\ UploadTypeOK /\ CutTypeOK
           /\ RecordedCutsAreWhole /\ OneFileOneCut /\ PhaseTellsTheTruth
           /\ CutsInOrder
<1>1. UploadTypeOK /\ CutTypeOK /\ OneFileOneCut
  BY DEF EditsInv, UploadInv, TabInv, Service, CutTypeOK
<1>2. RecordedCutsAreWhole
  BY <1>1 DEF EditsInv, UploadInv, UploadTypeOK, AsFarAs, RecordedCutsAreWhole
<1>3. PhaseTellsTheTruth
  BY DEF EditsInv, UploadInv, OneOfItsOwn, PhaseTellsTheTruth
<1>4. CutsInOrder
  <2>1. tab.list # <<>> => Shown # {}
    BY DEF EditsInv, TabInv, ListOfCuts, Shown
  <2> QED
    BY <2>1 DEF EditsInv, TabInv, ListOfCuts, InOrder, CutsInOrder, Last
<1> QED
  BY <1>1, <1>2, <1>3, <1>4

-----------------------------------------------------------------------------
\* The theorems of the edits tab.

\* The dialog, the runs it knows and those it does not fit together, for
\* uploads by themselves.
THEOREM UploadInvariant == UploadSpec => []UploadInv
<1>1. UploadInit => UploadInv
  BY UploadInitInv
<1>2. UploadInv /\ [UploadNext]_uploadVars => UploadInv'
  BY UploadNextInv
<1> QED
  BY <1>1, <1>2, PTL DEF UploadSpec

\* The tab's dialog does what the upload by itself may do and nothing else.
THEOREM EditsRefineUploads == EditsSpec => UploadInit /\ [][UploadNext]_uploadVars
<1>1. EditsInit => UploadInit
  BY DEF EditsInit
<1> QED
  BY <1>1, EditsStepUploads, PTL DEF EditsSpec

\* The list, the cuts of the service and the runs whose cuts the list awaits
\* fit together: the strengthened invariant is inductive.
THEOREM EditsInvariant == EditsSpec => []EditsInv
<1>1. EditsInit => EditsInv
  BY EditsInitInv
<1>2. EditsInv /\ [EditsNext]_editsVars => EditsInv'
  BY EditsNextInv
<1> QED
  BY <1>1, <1>2, PTL DEF EditsSpec

\* The dialog, the runs, the commits and the list keep their shapes.
THEOREM EditsTypes == EditsSpec => [](UploadTypeOK /\ CutTypeOK)
BY EditsInvariant, Unfold, PTL

\* A cut is recorded with all its bytes stored if the storage keeps what it
\* acknowledges: performResumableUpload asks nothing and counts answers.
THEOREM EditsCutsAreWhole == EditsSpec => []RecordedCutsAreWhole
BY EditsInvariant, Unfold, PTL

\* One chosen file becomes one cut, outside the excused cases: the dialog that
\* has its cut recorded forgets the file (reset() in UploadDialog).
THEOREM EditsOneFileOneCut == EditsSpec => []OneFileOneCut
BY EditsInvariant, Unfold, PTL

\* The dialog is idle exactly when none of its runs is on that it has not
\* cancelled, unless a cancelled run outlived its cancellation.
THEOREM EditsPhaseTellsTheTruth == EditsSpec => []PhaseTellsTheTruth
BY EditsInvariant, Unfold, PTL

\* The list of EditsTab holds each cut once, one of them current, the latest
\* last, unless a cancelled run outlived its cancellation.
THEOREM EditsCutsInOrder == EditsSpec => []CutsInOrder
BY EditsInvariant, Unfold, PTL

=============================================================================
