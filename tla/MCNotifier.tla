----------------------------- MODULE MCNotifier -----------------------------
(* Instances of Notifier for TLC.                                          *)
EXTENDS Notifier, TLC

\* Writers and watchers are interchangeable; used by the safety runs only.
Symmetry == Permutations(Writers) \cup Permutations(Watchers)

=============================================================================
