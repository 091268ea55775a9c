------------------------------ MODULE MCBroker ------------------------------
(* Instances of Broker for TLC: the symmetry of connections. *)
EXTENDS Broker, TLC

ConnSymmetry == Permutations(Conns)

=============================================================================
