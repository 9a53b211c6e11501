------------------------------ MODULE MCNamei ------------------------------
(* Namei with inode numbers other than the root's, and names, exchangeable. *)
EXTENDS Namei, TLC

CONSTANTS Others   \* the inode numbers other than Root

MCInos == {Root} \cup Others
Symmetry == Permutations(Others) \cup Permutations(Names)
=============================================================================
