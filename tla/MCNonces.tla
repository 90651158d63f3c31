------------------------------ MODULE MCNonces ------------------------------
(* Nonces for TLC: two strikes, and a clock that can be set to any lower     *)
(* value the bound allows.                                                   *)
EXTENDS Nonces, TLC

CONSTANTS s1, s2

TwoStrikes == {s1, s2}
Symmetry == Permutations(Strikes)
=============================================================================
