------------------------ MODULE MCDebuggerInstances ------------------------
(* Values for model checking DebuggerInstances: requests that may each be  *)
(* of any kind.                                                            *)
EXTENDS DebuggerInstances

CONSTANTS s1, c1, r1, r2

AnyKind == [r \in Requests |-> Kinds]
=============================================================================
