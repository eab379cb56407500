--------------------------- MODULE MCTempResource ---------------------------
(* Small instances of TempResource for TLC. *)
EXTENDS TempResource

CONSTANTS r1, n1

\* Every resource would generate its sibling at the same name.
MCKeepName == [r \in Resources |-> n1]
=============================================================================
