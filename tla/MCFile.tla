------------------------------- MODULE MCFile -------------------------------
(* Instances of File for TLC. *)
EXTENDS File

Symmetry == Permutations(Procs)

OneFile == <<1>>
BootNames == <<"a">>
=============================================================================
