-------------------------------- MODULE MCVm --------------------------------
(* Instances of Vm for model checking. *)
EXTENDS Vm, TLC

Symmetry == Permutations(Procs \ {init})

(* A program of one segment, one whose segments do not fill a page, and    *)
(* one whose second segment lies below the end of the first.               *)
MCProgs == {<<2>>, <<1, 3>>, <<3, 1>>}
=============================================================================
