----------------------------- MODULE MCWatcher -----------------------------
(* Watcher for TLC.  Paths and contents are interchangeable.               *)
EXTENDS Watcher, TLC

Symmetry == Permutations(Paths) \cup Permutations(Contents)
=============================================================================
