----------------------------- MODULE MCSearchCache -----------------------------
EXTENDS SearchCache, TLC

CONSTANTS a, b, ka, kab, s1

\* One query searches one knowledge base, the other both.
TwoKbs == [k \in {ka, kab} |-> IF k = ka THEN {a} ELSE {a, b}]

\* Bound: errors and invalidations cut off one entry at a time.
FewTainted == Cardinality(tainted) <= 1
=============================================================================
