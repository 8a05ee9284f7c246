---------------------------- MODULE MCAuthTokens ----------------------------
(***************************************************************************)
(* A CEO and a teammate to be, and a few tokens.                           *)
(***************************************************************************)
EXTENDS AuthTokens, TLC

CONSTANTS r1, r2, t1, t2, t3, t4, ceo, ann

Symmetry == Permutations({r1, r2}) \cup Permutations(Tokens)

=============================================================================
