------------------------------ MODULE MCConnectors ------------------------------
EXTENDS ConnectorSystem, TLC

CONSTANTS d1, d2, j1, j2, t1, t2, s1, s2

OneSource == [d \in {d1} |-> s1]
TwoSources == [d \in {d1, d2} |-> IF d = d1 THEN s1 ELSE s2]
Alone == [d \in {d1} |-> NoDoc]
PageAndAttachment == [d \in {d1, d2} |-> IF d = d1 THEN NoDoc ELSE d1]
Symmetry == Permutations(Jobs) \cup Permutations(Threads)
=============================================================================
