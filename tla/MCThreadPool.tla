---------------------------- MODULE MCThreadPool -----------------------------
(* Instances of ThreadPool for TLC. *)
EXTENDS ThreadPool, TLC

\* Workers and tasks are interchangeable.
Symm == Permutations(Workers) \union Permutations(Tasks)
=============================================================================
