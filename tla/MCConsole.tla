----------------------------- MODULE MCConsole ------------------------------
(* Instances of Console for model checking. *)
EXTENDS Console, TLC

Symmetry == Permutations(Readers) \cup Permutations(Writers)
=============================================================================
