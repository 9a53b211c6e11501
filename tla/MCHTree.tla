------------------------------- MODULE MCHTree -------------------------------
EXTENDS HTree, TLC

\* One short name with a hash of its own; long names with one hash between
\* them, of which one has another minor hash.
CONSTANTS Short, Twins, Odd

MCNames == {Short, Odd} \cup Twins
MCHash == [n \in MCNames |-> IF n = Short THEN 2 ELSE 4]
MCMinor == [n \in MCNames |-> IF n = Odd THEN 1 ELSE 0]
MCSize == [n \in MCNames |-> IF n = Short THEN 1 ELSE 2]
MCRanks == {r \in [MCNames -> 1 .. 3] :
              r[Short] = 1 /\ \A m, n \in MCNames \ {Short} : m # n => r[m] # r[n]}

Symmetry == Permutations(Twins)
==============================================================================
