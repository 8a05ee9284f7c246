---------------------------- MODULE MCProjectStore ----------------------------
(***************************************************************************)
(* A board in use: three requests of a CEO, an assistant director, the     *)
(* junior director who owns the project, and a crew member.                *)
(***************************************************************************)
EXTENDS ProjectStore, TLC

CONSTANTS r1, r2, r3, ceo, ad, jd, crew

MCRole == ceo :> "ceo" @@ ad :> "assistant_director"
          @@ jd :> "junior_director" @@ crew :> "crew"

Symmetry == Permutations({r1, r2, r3})

=============================================================================
