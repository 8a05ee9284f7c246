----------------------------- MODULE VersionLog -----------------------------
(***************************************************************************)
(* What a numbered history promises its readers: an append-only log.  A    *)
(* version gets the next number, belongs to its author forever, is never   *)
(* removed or renumbered, and keeps the stamp (submitted_at of a script    *)
(* version, approved_at of a cut) it was once given.                       *)
(***************************************************************************)
EXTENDS Naturals, Sequences

CONSTANT Authors

VARIABLE log    \* the versions in the order of their numbers

LogEntry == [author: Authors, stamped: BOOLEAN]

LogInit == log = <<>>

Extend == \E a \in Authors :
              log' = Append(log, [author |-> a, stamped |-> FALSE])

Stamp == \E i \in DOMAIN log : log' = [log EXCEPT ![i].stamped = TRUE]

LogSpec == LogInit /\ [][Extend \/ Stamp]_log

=============================================================================
