--------------------------- MODULE MCActorSystem ----------------------------
(* Instances of ActorSystem for TLC. *)
EXTENDS ActorSystem, TLC

\* Workers are interchangeable, and so are the clients that send alike.
Symm == Permutations(Workers) \union Permutations(Clients \ Direct)
=============================================================================
