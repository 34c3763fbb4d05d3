------------------------------- MODULE Sorting -------------------------------
(***************************************************************************)
(* Python's sorted() where its key tells all elements apart.                 *)
(***************************************************************************)
EXTENDS Integers, FiniteSets

\* A finite set in the order of a relation that is total on it.
Arranged(S, R) ==
  [i \in 1 .. Cardinality(S) |-> CHOOSE x \in S : Cardinality({y \in S : <<y, x>> \in R}) = i - 1]
=============================================================================
