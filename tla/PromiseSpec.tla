---------------------------- MODULE PromiseSpec ----------------------------
(***************************************************************************)
(* What the frontend's API promises to its callers, with nothing said of   *)
(* how: a call gets a promise, which is settled once; it is resolved only  *)
(* after the backend has answered that very call, and rejected at any      *)
(* time.  A call made without a connection is dropped.                     *)
(***************************************************************************)
CONSTANT Calls

VARIABLES
  promise,   (* promise[k]: "idle", "void", "pending", "resolved",         *)
             (* "rejected"                                                 *)
  answered   (* the calls the backend has answered with success            *)

vars == <<promise, answered>>

Init ==
  /\ promise = [k \in Calls |-> "idle"]
  /\ answered = {}

Make(k) ==
  /\ promise[k] = "idle"
  /\ \E s \in {"void", "pending"} : promise' = [promise EXCEPT ![k] = s]
  /\ UNCHANGED answered

Answer(k) ==
  /\ answered' = answered \cup {k}
  /\ UNCHANGED promise

Resolve(k) ==
  /\ promise[k] = "pending" /\ k \in answered
  /\ promise' = [promise EXCEPT ![k] = "resolved"]
  /\ UNCHANGED answered

(* A timeout rejects several calls at once.                                *)
Reject(S) ==
  /\ \A k \in S : promise[k] = "pending"
  /\ promise' = [k \in Calls |-> IF k \in S THEN "rejected" ELSE promise[k]]
  /\ UNCHANGED answered

Next ==
  \/ \E k \in Calls : Make(k) \/ Answer(k) \/ Resolve(k)
  \/ \E S \in SUBSET Calls : Reject(S)

Settles == \A k \in Calls :
  promise[k] = "pending" ~> promise[k] \in {"resolved", "rejected"}

Safety == Init /\ [][Next]_vars

Spec == Safety /\ Settles
=============================================================================
