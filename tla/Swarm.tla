-------------------------------- MODULE Swarm --------------------------------
(* The addresses of a swarm, for the modules that hand peers to each other. *)
EXTENDS FiniteSets

CONSTANT Peers      \* every peer that may ever be heard of

ASSUME PeersAssumption == IsFiniteSet(Peers)
=============================================================================
