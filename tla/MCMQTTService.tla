-------------------------- MODULE MCMQTTService --------------------------
(* MQTTService on small instances.  Two battery types tell a stale config  *)
(* from a fresh one; a connection takes a number and its loss another, so  *)
(* MaxConnectionID = 3 is a connection, its loss and a reconnection, 2 a    *)
(* connection lost for good.                                               *)
EXTENDS MQTTService, TLC

Symmetry == Permutations(Batteries)
==========================================================================
