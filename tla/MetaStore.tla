----------------------------- MODULE MetaStore -----------------------------
(***************************************************************************)
(* What the handlers of the worker that keep small json files promise to   *)
(* their callers, with nothing said of how: as long as no two of them      *)
(* change a file at a time, and the worker does not die while one does, a  *)
(* file is a variable that is read and changed in one step.                *)
(***************************************************************************)
CONSTANTS
  Files,
  Clients,
  Whole(_),        (* Whole(f): what f may hold                            *)
  Changed(_, _),   (* Changed(f, v): what one change may make of v         *)
  Flaws            (* what a file may hold, or a client be told, otherwise *)

VARIABLES
  value,     (* value[f]: what f holds                                     *)
  changing,  (* changing[f]: the clients that are changing f               *)
  spoiled,   (* files that two have changed at a time, that one died on, or   *)
             (* that do not hold all that was given                        *)
  told       (* told[c]: what c was told it had read, of which file        *)

vars == <<value, changing, spoiled, told>>

Held(f) == Whole(f) \cup Flaws

Init ==
  /\ value \in {v \in [Files -> UNION {Held(f) : f \in Files}] : \A f \in Files : v[f] \in Held(f)}
  /\ changing = [f \in Files |-> {}]
  /\ spoiled = {}
  /\ told = [c \in Clients |-> <<>>]

(* c begins to change f: it reads it or opens it.                          *)
Open(c, f) ==
  /\ changing' = [changing EXCEPT ![f] = @ \cup {c}]
  /\ spoiled' = IF changing[f] = {} THEN spoiled ELSE spoiled \cup {f}
  /\ UNCHANGED <<value, told>>

Change(c, f) ==
  /\ c \in changing[f]
  /\ changing' = [changing EXCEPT ![f] = @ \ {c}]
  /\ \E v \in Held(f) :
       /\ f \notin spoiled => v \in Changed(f, value[f])
       /\ value' = [value EXCEPT ![f] = v]
  /\ UNCHANGED <<spoiled, told>>

(* Nothing is changed, and c may be told what there is; what c wanted to   *)
(* change may be kept elsewhere than in the file.                          *)
GiveUp(c, f) ==
  /\ c \in changing[f]
  /\ changing' = [changing EXCEPT ![f] = @ \ {c}]
  /\ spoiled' \in {spoiled, spoiled \cup {f}}
  /\ \/ UNCHANGED told
     \/ \E v \in Held(f) :
          /\ f \notin spoiled => v = value[f]
          /\ told' = [told EXCEPT ![c] = <<f, v>>]
  /\ UNCHANGED value

(* A client reads what the file holds; if it is just being changed, that   *)
(* is what it held, what it will hold, or a flaw.                          *)
Read(c, f) ==
  /\ \E v \in Held(f) :
       /\ f \notin spoiled /\ changing[f] = {} => v = value[f]
       /\ f \notin spoiled => v \in {value[f]} \cup Changed(f, value[f]) \cup Flaws
       /\ told' = [told EXCEPT ![c] = <<f, v>>]
  /\ UNCHANGED <<value, changing, spoiled>>

(* The worker dies: what was being changed may be lost.                    *)
Die ==
  /\ changing' = [f \in Files |-> {}]
  /\ spoiled' = spoiled \cup {f \in Files : changing[f] # {}}
  /\ value' \in [Files -> UNION {Held(f) : f \in Files}]
  /\ \A f \in Files : value'[f] = value[f] \/ (changing[f] # {} /\ value'[f] \in Held(f))
  /\ UNCHANGED told

Next ==
  \/ \E f \in Files : \E c \in Clients : Open(c, f) \/ Change(c, f) \/ GiveUp(c, f) \/ Read(c, f)
  \/ Die

Spec == Init /\ [][Next]_vars
=============================================================================
