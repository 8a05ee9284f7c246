----------------------------- MODULE MCWorkbench -----------------------------
(***************************************************************************)
(* A script of up to two versions at the desk of a user who may edit it,   *)
(* one comment under one of two versions or cuts, and two notes on the     *)
(* video of one of two cuts.                                               *)
(***************************************************************************)
EXTENDS Workbench

CONSTANTS h1, h2, v1, v2, c1, k1, k2

\* Slots of handlers and of requests are only told apart: a CHOOSE takes any
\* slot that is free.
Symmetry == Permutations(Slots) \cup Permutations(Calls)

=============================================================================
