------------------------------- MODULE MCDir --------------------------------
(* Instances of Dir for model checking. *)
EXTENDS Dir, TLC

Symmetry == Permutations(Procs)

(* "/a", "/a/b", "b" and "..": names from the root and from the current    *)
(* directory, and the way back up; a link is made as "/a/b" or "b".        *)
Abs(elems) == [abs |-> TRUE, elems |-> elems]
Rel(elems) == [abs |-> FALSE, elems |-> elems]
MCPaths == {Abs(<<"a">>), Abs(<<"a", "b">>), Rel(<<"b">>), Rel(<<"..">>)}
MCNewPaths == {Abs(<<"a", "b">>), Rel(<<"b">>)}
=============================================================================
