---------------------------- MODULE MCMemoryTools ----------------------------
EXTENDS MemoryTools, TLC
CONSTANTS o1, o2, m1, m2, m3, c1, c2, r1

MCAuthor == [m \in {m1, m2, m3} |-> IF m = m3 THEN o2 ELSE o1]
Symmetry == Permutations({c1, c2}) \cup Permutations({m1, m2})
=============================================================================
