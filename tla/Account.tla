------------------------------- MODULE Account --------------------------------
(***************************************************************************)
(* What one user does about the account in one browser: signing in and out *)
(* and changing the password, the push switch, the notification switches.  *)
(* They share nothing but who is signed in: a behaviour follows one of     *)
(* them, the `part`, while the others rest.                                *)
(***************************************************************************)
EXTENDS Session, PushCard, PrefsCard

VARIABLE part

accountVars == <<part, sessionVars, pushVars, prefsVars>>

\* A step of the session, and of nothing else.
InSession(A) == part = "session" /\ A /\ UNCHANGED <<part, pushVars, prefsVars>>

AccountInit ==
    /\ part \in {"session", "push", "prefs"}
    /\ SessionInit /\ PushInit /\ PrefsInit
    /\ part # "session" => account.accepted /\ ~account.must
    /\ part # "push" => user = CHOOSE u \in Users : TRUE

AccountNext ==
    \/ InSession(SessionNext)
    \/ part = "push" /\ PushNext /\ UNCHANGED <<part, sessionVars, prefsVars>>
    \/ part = "prefs" /\ PrefsNext /\ UNCHANGED <<part, sessionVars, pushVars>>

\* Effects run, and requests are answered or fail.
AccountFairness ==
    /\ WF_accountVars(InSession(Effects))
    /\ WF_accountVars(InSession(Reading))
    /\ WF_accountVars(InSession(Handling))

AccountSpec == AccountInit /\ [][AccountNext]_accountVars /\ AccountFairness

=============================================================================
