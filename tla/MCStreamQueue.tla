--------------------------- MODULE MCStreamQueue ---------------------------
(* StreamQueue for TLC: identities are model values, so they are symmetric. *)
EXTENDS StreamQueue, TLC

CONSTANTS c1, c2, m1, m2

Workers == {c1, c2}
OneMessage == {m1}
TwoMessages == {m1, m2}
SecondMalformed == {m2}

Symmetry == Permutations(Workers)
=============================================================================
