--------------------------- MODULE MCActorRuntime ---------------------------
(* ActorRuntime on two actors: model values and bounds are in the cfg files. *)
EXTENDS RuntimeInbox, TLC

ClientSymmetry == Permutations(Clients)
=============================================================================
