-------------------------- MODULE MCBrokerLifecycle --------------------------
(* Instances of BrokerLifecycle for TLC. *)
EXTENDS BrokerLifecycle, TLC

CONSTANTS b1, b2, b3, c1, c2

TwoBrokers   == {b1, b2}
ThreeBrokers == {b1, b2, b3}
TwoClients   == {c1, c2}
OneClient    == {c2}
Sym == Permutations({b1, b2, b3})
=============================================================================
