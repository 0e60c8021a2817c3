------------------------------- MODULE MCRpc -------------------------------
(* Values for model checking Rpc: a request that opens a workspace and one *)
(* that loads a file of full buffers only, and requests of one text.       *)
EXTENDS Rpc, TLC

CONSTANTS c1, c2, r1, r2, r3

(* Connections differ in nothing but their names; used for safety only.    *)
ConnSymmetry == Permutations(Conns)

KindsOpenLoad == r1 :> "open" @@ r2 :> "loadFile"
LengthsMultiple == r1 :> 0 @@ r2 :> 2

KindsAll == r1 :> "open" @@ r2 :> "query" @@ r3 :> "unserved"
LengthsNone == r1 :> 0 @@ r2 :> 0 @@ r3 :> 0
=============================================================================
