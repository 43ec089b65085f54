----------------------------- MODULE MCDataMule -----------------------------
(* Model-checking instances of DataMule. *)
EXTENDS DataMule, TLC, FiniteSets

CONSTANTS o1, o2

Requests1 == {o1}
Requests2 == {o1, o2}

\* The callers of SetSimulationMode are interchangeable.
OperatorSymmetry == Permutations(Operators)
=============================================================================
