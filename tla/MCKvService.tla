----------------------------- MODULE MCKvService -----------------------------
(* Instances of KvService for TLC. *)
EXTENDS KvService, TLC

\* Calls and nodes differ only in what they do.
Symmetry == Permutations(Calls) \cup Permutations(Nodes)

\* mod_revision = 0 (the key is not there) and version = 1.
MCRequirements ==
  {[last |-> 0, version |-> -1, compare |-> "EQUAL"],
   [last |-> -1, version |-> 1, compare |-> "EQUAL"]}

=============================================================================
