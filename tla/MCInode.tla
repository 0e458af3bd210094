------------------------------- MODULE MCInode -------------------------------
\* Module Inode for TLC.
EXTENDS Inode, TLC

Symmetry == Permutations(Procs)
=============================================================================
