------------------------------ MODULE MCOutbox ------------------------------
(* Outbox for TLC. *)
EXTENDS Outbox

CONSTANTS j1, j2

TwoJobs == {j1, j2}
=============================================================================
