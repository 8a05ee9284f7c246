------------------------------ MODULE PrefsCard -------------------------------
(***************************************************************************)
(* The notification switches of the settings page and the row they write.  *)
(* Every toggle shows at once, sends its field, and is answered with the   *)
(* whole row; a failure puts back the whole card as the toggle found it.   *)
(* One `busy` field disables one switch, whichever was touched last.       *)
(***************************************************************************)
EXTENDS Naturals

CONSTANTS
    Fields,     \* push_project_created, push_script_submitted, ...
    Toggles,    \* bound: the requests that can be out at once
    NoField

ASSUME NoFieldAssumption == NoField \notin Fields

VARIABLES
    prefs,    \* the row of user_notification_prefs
    shown,    \* the card, before and after the row has come
    busy,     \* the disabled switch
    toggle,   \* the requests
    drifted   \* history: why the card may differ from the row

prefsVars == <<prefs, shown, busy, toggle, drifted>>

Prefs == [Fields -> BOOLEAN]

\* `undo` is the card before the toggle; `copy` the row as the request loaded
\* it, then as it is answered; `met` says that another request was out too.
ToggleCall == [step: {"none", "asked", "loaded", "saved", "answered"},
               field: Fields \cup {NoField}, next: BOOLEAN,
               undo: Prefs, copy: Prefs, met: BOOLEAN]

AllOn == [f \in Fields |-> TRUE]

NoToggle == [step |-> "none", field |-> NoField, next |-> TRUE,
             undo |-> AllOn, copy |-> AllOn, met |-> FALSE]

Out == {c \in Toggles : toggle[c].step # "none"}

-----------------------------------------------------------------------------
\* Mounting: fetchPrefs is answered, before the card shows anything to touch.
ShowPrefs ==
    /\ ~shown.ready
    /\ shown' = [ready |-> TRUE, prefs |-> prefs]
    /\ UNCHANGED <<prefs, busy, toggle, drifted>>

\* The switch of a field, by the card's `busy` and not by its own request.
SwitchOffered(f) == shown.ready /\ busy # f

Toggle(c, f) ==
    /\ toggle[c].step = "none" /\ SwitchOffered(f)
    /\ LET next == ~shown.prefs[f]
       IN  /\ shown' = [shown EXCEPT !.prefs[f] = next]
           /\ toggle' = [d \in Toggles |->
                IF d = c THEN [NoToggle EXCEPT !.step = "asked", !.field = f,
                                 !.next = next, !.undo = shown.prefs,
                                 !.met = Out # {}]
                ELSE [toggle[d] EXCEPT !.met = d \in Out]]
    /\ busy' = f
    /\ UNCHANGED <<prefs, drifted>>

\* update_prefs: the row is loaded, its field set, and the column written if that
\* is a change to the copy; the answer reads the row once more.
LoadPrefs(c) ==
    /\ toggle[c].step = "asked"
    /\ toggle' = [toggle EXCEPT ![c].step = "loaded", ![c].copy = prefs]
    /\ UNCHANGED <<prefs, shown, busy, drifted>>

SavePrefs(c) ==
    /\ toggle[c].step = "loaded"
    /\ LET call == toggle[c]
       IN  prefs' = IF call.copy[call.field] = call.next THEN prefs
                    ELSE [prefs EXCEPT ![call.field] = call.next]
    /\ toggle' = [toggle EXCEPT ![c].step = "saved"]
    /\ UNCHANGED <<shown, busy, drifted>>

RefreshPrefs(c) ==
    /\ toggle[c].step = "saved"
    /\ toggle' = [toggle EXCEPT ![c].step = "answered", ![c].copy = prefs]
    /\ UNCHANGED <<prefs, shown, busy, drifted>>

\* setPrefs(saved), and the `finally`, which enables every switch.
ToggleAnswered(c) ==
    /\ toggle[c].step = "answered"
    /\ shown' = [shown EXCEPT !.prefs = toggle[c].copy]
    /\ busy' = NoField
    /\ toggle' = [toggle EXCEPT ![c] = NoToggle]
    /\ drifted' = toggle[c].met
    /\ UNCHANGED prefs

\* Broken on purpose: a refused toggle stays on the card.
ToggleLostQuietly(c) ==
    /\ toggle[c].step # "none"
    /\ busy' = NoField
    /\ toggle' = [toggle EXCEPT ![c] = NoToggle]
    /\ drifted' = (drifted \/ toggle[c].met \/ toggle[c].step \in {"saved", "answered"})
    /\ UNCHANGED <<prefs, shown>>

\* Refused, or the request or its answer is lost: the card goes back.
ToggleLost(c) ==
    /\ toggle[c].step # "none"
    /\ shown' = [shown EXCEPT !.prefs = toggle[c].undo]
    /\ busy' = NoField
    /\ toggle' = [toggle EXCEPT ![c] = NoToggle]
    /\ drifted' = (drifted \/ toggle[c].met \/ toggle[c].step \in {"saved", "answered"})
    /\ UNCHANGED prefs

-----------------------------------------------------------------------------
PrefsInit ==
    /\ prefs = AllOn
    /\ shown = [ready |-> FALSE, prefs |-> AllOn]
    /\ busy = NoField
    /\ toggle = [c \in Toggles |-> NoToggle]
    /\ drifted = FALSE

PrefsNext ==
    \/ ShowPrefs
    \/ \E c \in Toggles :
          \/ \E f \in Fields : Toggle(c, f)
          \/ LoadPrefs(c) \/ SavePrefs(c) \/ RefreshPrefs(c)
          \/ ToggleAnswered(c) \/ ToggleLost(c)

PrefsSpec == PrefsInit /\ [][PrefsNext]_prefsVars

-----------------------------------------------------------------------------
\* The shapes of the card and its requests; a switch is disabled only while some
\* request is out.
PrefsTypeOK ==
    /\ prefs \in Prefs
    /\ shown \in [ready: BOOLEAN, prefs: Prefs]
    /\ busy \in Fields \cup {NoField}
    /\ toggle \in [Toggles -> ToggleCall]
    /\ drifted \in BOOLEAN
    /\ busy # NoField => Out # {}

\* At rest the card shows the row, except after toggles that overlapped or an
\* answer that was lost, and then only until a toggle is answered alone.
RestShowsThePrefs ==
    Out = {} /\ shown.ready => shown.prefs = prefs \/ drifted

=============================================================================
