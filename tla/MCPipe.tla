------------------------------- MODULE MCPipe -------------------------------
(* An instance of Pipe for TLC: the writers are interchangeable. *)
EXTENDS Pipe, TLC

PipeSymmetry == Permutations(Writers)
=============================================================================
