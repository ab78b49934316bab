-------------------------- MODULE MCDomainProfile --------------------------
(* DomainProfile for TLC. *)
EXTENDS DomainProfile

CONSTANTS w1, w2

TwoWorkers == {w1, w2}
Targets == {0, 1}
NoAnswer == {}
=============================================================================
