------------------------- MODULE MCScriptedToolbar -------------------------
(* Values for model checking ScriptedToolbar.                              *)
EXTENDS ScriptedToolbar, TLC

CONSTANTS c1, c2, c3

CallerSymmetry == Permutations(Callers)
=============================================================================
