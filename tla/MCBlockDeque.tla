---------------------------- MODULE MCBlockDeque ----------------------------
(* Instances of BlockDeque for TLC.                                        *)
EXTENDS BlockDeque, TLC

\* The pushers are interchangeable, and so are the readers.
Symmetry == Permutations(Pushers) \cup Permutations(Readers)

=============================================================================
