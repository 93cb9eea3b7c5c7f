--------------------------- MODULE MCWatchStream ----------------------------
(* Instances of WatchStream for TLC.                                       *)
EXTENDS WatchStream, TLC

\* The writers are interchangeable.
Symmetry == Permutations(Writers)

=============================================================================
