--------------------------- MODULE MCHttpStreamer ---------------------------
(* Values for model checking HttpStreamer.                                 *)
EXTENDS HttpStreamer, TLC

CONSTANTS l1, l2, h1, h2, s1

TwoHosts == l1 :> h1 @@ l2 :> h2
OneHost == l1 :> h1 @@ l2 :> h1
=============================================================================
