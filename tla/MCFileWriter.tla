---------------------------- MODULE MCFileWriter ----------------------------
(* Small instances of FileWriter for TLC. *)
EXTENDS FileWriter, TLC

MCSymmetry == Permutations(Writers)
=============================================================================
