------------------------------ MODULE MCBcache ------------------------------
(* Instances of Bcache for TLC. *)
EXTENDS Bcache, TLC

Symmetry ==
  Permutations(Procs) \cup Permutations(Vals) \cup Permutations(Blocks \ (LogBlocks \cup Indirect))
=============================================================================
