------------------------------- MODULE MCPipe -------------------------------
(* Instances of Pipe for TLC. *)
EXTENDS Pipe, TLC

Symmetry == Permutations(Byte) \cup Permutations(Readers) \cup Permutations(Writers)
=============================================================================
