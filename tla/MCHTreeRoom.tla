----------------------------- MODULE MCHTreeRoom -----------------------------
(* Blocks of 1024 bytes with a checksum tail, in units of 4 bytes: the      *)
(* names have 255 letters, or four at the most.                              *)
EXTENDS HTree

LongNames == {"A", "B", "C", "D"}
MCNames == LongNames \cup {"x", "y", "z"}
MCHash == [A |-> 2, B |-> 4, C |-> 6, D |-> 8, x |-> 10, y |-> 12, z |-> 14]
MCMinor == [n \in MCNames |-> 0]
MCSize == [n \in MCNames |-> IF n \in LongNames THEN 66 ELSE 3]
MCRanks == {[n \in MCNames |-> 1]}
==============================================================================
