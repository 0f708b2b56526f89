----------------------------- MODULE MCMpmcQueue -----------------------------
(* Instances of MpmcQueue for TLC. *)
EXTENDS MpmcQueue, TLC

\* Producers, consumers and items are interchangeable.
Symm == Permutations(Producers) \union Permutations(Consumers)
          \union Permutations(Items)
=============================================================================
