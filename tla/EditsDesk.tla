------------------------------ MODULE EditsDesk ------------------------------
(***************************************************************************)
(* The edits tab with its upload dialog.  The dialog is there once the     *)
(* list is; a run that finalises has its cut recorded in the service, and  *)
(* the end of a run whose tab is still mounted puts that cut at the end of *)
(* the list.  Leaving the tab forgets the list with the dialog.            *)
(*                                                                         *)
(* Reviews and uploads share the list and nothing else: a behaviour has    *)
(* the reviews of one cut by several hands, or uploads.                    *)
(***************************************************************************)
EXTENDS Upload, CutTab

VARIABLES
    part,
    number     \* the version number a run's cut was given

editsVars == <<part, number, uploadVars, cutVars>>

Dialogue ==
    /\ tab.loaded
    /\ \/ OpenDialog \/ CloseDialog \/ CancelIdle
       \/ Pick \/ PutBack \/ (\E c \in Remarks : Tick(c))
       \/ Start \/ Cancel
    /\ UNCHANGED <<number, cutVars>>

Leave ==
    /\ LeaveTab
    /\ tab' = Mounted
    /\ UNCHANGED <<history, reviews, sent, number>>

Finalise(r) ==
    /\ FinaliseServed(r)
    /\ Recorded
    /\ number' = [number EXCEPT ![r] = Len(Now')]
    /\ UNCHANGED <<tab, sent>>

Finish(r) ==
    /\ Done(r)
    /\ tab' = IF run[r].mine THEN Uploaded(number[r]) ELSE tab
    /\ UNCHANGED <<history, reviews, sent, number>>

Sending(r) ==
    /\ InitAnswered(r) \/ PutFinal(r) \/ PutMore(r) \/ Throw(r)
    /\ UNCHANGED <<number, cutVars>>

RunStep(r) == part = "upload" /\ (Sending(r) \/ Finalise(r) \/ Finish(r))
                              /\ UNCHANGED part

EditsInit ==
    /\ part \in {"upload", "review"}
    /\ number = [r \in Runs |-> 0]
    /\ UploadInit /\ CutInit
    /\ part = "upload" => Now = <<>>

EditsNext ==
    \/ /\ part = "upload"
       /\ Dialogue \/ Leave \/ (Listing /\ UNCHANGED <<number, uploadVars>>)
       /\ UNCHANGED part
    \/ \E r \in Runs : RunStep(r)
    \/ /\ part = "review"
       /\ CutNext
       /\ UNCHANGED <<part, number, uploadVars>>

\* Every request of a run is answered, or reported as failed by the browser.
EditsFairness == \A r \in Runs : WF_editsVars(RunStep(r))

EditsSpec == EditsInit /\ [][EditsNext]_editsVars /\ EditsFairness

-----------------------------------------------------------------------------
\* Every cut is listed once and one of them is current; the list is in the
\* order of the cuts, so that the last, whose open comments are the checklist of
\* the next upload, is the latest this browser knows of, unless a cancelled run
\* outlived its cancellation and answers after its successor.
CutsInOrder ==
    /\ \A i, j \in DOMAIN tab.list : tab.list[i].cut = tab.list[j].cut => i = j
    /\ tab.list # <<>> => Shown # {}
    /\ "outlived" \notin excuse =>
          \A i \in DOMAIN tab.list : tab.list[i].cut =< Last(tab.list).cut

=============================================================================
