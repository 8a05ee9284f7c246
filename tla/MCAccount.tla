------------------------------ MODULE MCAccount ------------------------------
(***************************************************************************)
(* One user with two passwords and a session read in flight; two tabs of   *)
(* the settings page and two users of the browser; two switches.           *)
(***************************************************************************)
EXTENDS Account

CONSTANTS t1, t2, ann, bob, f1, f2, c1, c2

=============================================================================
