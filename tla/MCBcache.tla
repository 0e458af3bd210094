------------------------------ MODULE MCBcache ------------------------------
(* Instances of Bcache for TLC. *)
EXTENDS Bcache

BcacheSymmetry == Permutations(Procs) \cup Permutations(Blocks)
=============================================================================
