---------------------------- MODULE MCEditReview ----------------------------
(***************************************************************************)
(* Small teams for TLC: each .cfg picks the accounts that take part.       *)
(***************************************************************************)
EXTENDS EditReview, TLC

CONSTANTS r1, r2, ceo, ad, jd

Team == ceo :> "ceo" @@ ad :> "assistant_director" @@ jd :> "junior_director"

MCRole == [u \in Users |-> Team[u]]

Symmetry == Permutations({r1, r2})

=============================================================================
