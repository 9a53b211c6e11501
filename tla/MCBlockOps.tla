----------------------------- MODULE MCBlockOps -----------------------------
(* BlockOps for TLC: one or two data clusters in each of one or two groups. *)
EXTENDS BlockOps, TLC

Symmetry == Permutations(Threads) \cup Permutations(Groups)
=============================================================================
