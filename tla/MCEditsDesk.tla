----------------------------- MODULE MCEditsDesk -----------------------------
(***************************************************************************)
(* Two uploads of a file of two chunks, with one open comment to tick; or  *)
(* two reviews of the two cuts of a project.                               *)
(***************************************************************************)
EXTENDS EditsDesk

CONSTANTS r1, r2, c1

=============================================================================
