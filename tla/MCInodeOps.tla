----------------------------- MODULE MCInodeOps -----------------------------
(* InodeOps for TLC: two tasks on two inode numbers. *)
EXTENDS InodeOps, TLC

Symmetry == Permutations(Threads)
=============================================================================
