---------------------------- MODULE MCScriptPhase ----------------------------
(***************************************************************************)
(* Small teams for TLC: each .cfg picks the accounts that take part.       *)
(***************************************************************************)
EXTENDS ScriptPhase, TLC

CONSTANTS r1, r2, ceo, ad, jd, ed

Team == ceo :> "ceo" @@ ad :> "assistant_director"
        @@ jd :> "junior_director" @@ ed :> "editor"

MCRole == [u \in Users |-> Team[u]]

Symmetry == Permutations({r1, r2})

=============================================================================
