-------------------------- MODULE MCCleanupFamily ---------------------------
(* A small instance of CleanupFamily. *)
EXTENDS CleanupFamily, TLC

CONSTANTS n1
MCKeepName == [r \in Resources |-> n1]
MCSymmetry == Permutations(Controls) \cup Permutations(Threads)
=============================================================================
