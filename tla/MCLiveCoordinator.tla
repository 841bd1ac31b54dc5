-------------------------- MODULE MCLiveCoordinator --------------------------
(* Instances of LiveCoordinator for TLC. *)
EXTENDS LiveCoordinator, TLC

\* Goroutines, entries, lanes and nodes are interchangeable.
Symmetry == Permutations(Callers) \cup Permutations(Entries)
            \cup Permutations(Lanes) \cup Permutations(Nodes)
==============================================================================
