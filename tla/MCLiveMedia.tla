----------------------------- MODULE MCLiveMedia -----------------------------
(* Small instances of LiveMedia for TLC.                                   *)
EXTENDS LiveMedia, TLC

\* Channels, SSRCs and nodes are interchangeable where no liveness is checked.
Symmetry == Permutations(Channels) \cup Permutations(Ssrcs) \cup Permutations(Nodes)
===============================================================================
