----------------------------- MODULE MCDentryOps -----------------------------
EXTENDS DentryOps, TLC

Symmetry == Permutations(Threads)
=============================================================================
