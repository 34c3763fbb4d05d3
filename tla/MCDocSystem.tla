------------------------------- MODULE MCDocSystem -------------------------------
EXTENDS DocSystem, TLC

CONSTANTS s1, s2, d1, d2, j1, j2, j3

OneSource == [d \in {d1, d2} |-> s1]
OneDoc == [d \in {d1} |-> s1]
TwoSources == [d \in {d1, d2} |-> IF d = d1 THEN s1 ELSE s2]
JobSymmetry == Permutations(Jobs)
=============================================================================
