----------------------------- MODULE MCRaftStore -----------------------------
(* Instances of RaftStore for TLC. *)
EXTENDS RaftStore

\* Nodes differ only in what they do.
Symmetry == Permutations(Nodes)

=============================================================================
