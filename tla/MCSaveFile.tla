----------------------------- MODULE MCSaveFile -----------------------------
(* Values for model checking SaveFile.                                     *)
EXTENDS SaveFile, TLC

CONSTANTS s1, s2, s3, l1

SaveSymmetry == Permutations(Saves)
=============================================================================
