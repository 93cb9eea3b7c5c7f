------------------------------ MODULE MCStore -------------------------------
(* Instances of Store for TLC.                                             *)
EXTENDS Store, TLC

\* The setters are interchangeable, and so are the rangers.
Symmetry == Permutations(Setters) \cup Permutations(Rangers)

MCRequirements ==
  {[last |-> m, version |-> -1, compare |-> "EQUAL"] : m \in 0..1}
    \cup {[last |-> -1, version |-> 1, compare |-> "GREATER"]}

=============================================================================
