------------------------------ MODULE MCSched ------------------------------
(* Sched with interchangeable CPUs. *)
EXTENDS Sched, TLC

Symmetry == Permutations(Cpus)
=============================================================================
