---------------------------- MODULE MCWsStreamer ----------------------------
(* Values for model checking WsStreamer.                                   *)
EXTENDS WsStreamer

CONSTANTS s1, s2, k1, k2, r1, r2

Symmetry == Permutations(Sessions) \cup Permutations(Sockets) \cup Permutations(Requests)
=============================================================================
