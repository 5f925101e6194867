------------------------------- MODULE MCClaims -------------------------------
(* Instances of Claims for TLC. *)
EXTENDS Claims, TLC

CONSTANTS alice, bob, p, q

TwoOwners == {alice, bob}
TwoPaths  == {p, q}
Sym == Permutations({alice, bob}) \cup Permutations({p, q})
=============================================================================
