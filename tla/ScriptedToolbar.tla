-------------------------- MODULE ScriptedToolbar --------------------------
(***************************************************************************)
(* scripted_toolbar.cpp and the routes of routers/toolbar.cpp: the threads *)
(* of the http server that run functions of a toolbar's script, which in   *)
(* turn start, ask for and kill a process (LuaProcess).  Every route but   *)
(* that of cancelAction holds globalMutex, for which it waits 500 ms.      *)
(***************************************************************************)
EXTENDS LuaProcess, FiniteSets

CONSTANTS
  Actions,   (* what the script's actions call on the process              *)
  Cancels    (* what its cancel functions call                             *)

(* A cancel function runs beside the functions of actions, with no mutex.  *)
(* What a toolbar's script does is not fixed by the code: it is taken that *)
(* cancel functions start nothing, for two calls of execute at once write  *)
(* the members of the Process object with nothing between them.            *)
ASSUME ToolbarAssumption ==
  /\ IsFiniteSet(Callers)
  /\ Actions \subseteq {"execute", "executeShort", "tryGetExitStatus", "kill"}
  /\ Cancels \subseteq {"tryGetExitStatus", "kill"}

vars == <<objectVars, osVars, threadVars, callVars>>

(* The worker goes on unless one of its threads has used a null pointer.   *)
Runs_on == \A r \in Runs : at[r] # "crash"

(* Bound: an action that starts a process is called while one is left.     *)
Pending == {c \in Callers : Executes(c) /\ pc[c] \in {"lock", "check", "join", "joining", "go"}}

Left == runs + Cardinality(Pending) < MaxRuns

(* What the function does that a click, an entry of a menu, a combobox or  *)
(* a double click in the log names.                                        *)
Called == {called \in Actions : called \in {"execute", "executeShort"} => Left}

(* The body is read, and the toolbar looked up in a copy of the session;   *)
(* without either the request is answered here.                            *)
Request(c) ==
  /\ pc[c] = "idle"
  /\ \E called \in Called : op' = [op EXCEPT ![c] = called]
  /\ pc' = [pc EXCEPT ![c] = "lock"]
  /\ answer' = [answer EXCEPT ![c] = NoStatus]
  /\ UNCHANGED <<dying, lock, objectVars, osVars, threadVars>>

(* try_lock_for, then the lookup of the item and its function: either may  *)
(* fail.                                                                   *)
Action(c) ==
  /\ pc[c] = "lock"
  /\ \/ Returns(c, NoStatus)
     \/ /\ lock = None
        /\ lock' = c
        /\ pc' = [pc EXCEPT ![c] = "check"]
        /\ UNCHANGED <<op, dying, answer>>
  /\ UNCHANGED <<objectVars, osVars, threadVars>>

RequestCancel(c) ==
  /\ Goes(c, "idle", "getItem")
  /\ answer' = [answer EXCEPT ![c] = NoStatus]
  /\ UNCHANGED <<op, dying, lock, objectVars, osVars, threadVars>>

(* getItem takes globalMutex, without a limit, and gives it back; the      *)
(* function is called without it.                                          *)
CancelAction(c) ==
  /\ pc[c] = "getItem" /\ lock = None
  /\ \/ Returns(c, NoStatus)
     \/ /\ \E called \in Cancels : op' = [op EXCEPT ![c] = called]
        /\ pc' = [pc EXCEPT ![c] = "check"]
        /\ UNCHANGED <<dying, answer, lock>>
  /\ UNCHANGED <<objectVars, osVars, threadVars>>

CallerStep(c) == Action(c) \/ CancelAction(c) \/ ProcessCall(c)

Next ==
  /\ Runs_on
  /\ \/ \E c \in Callers : Request(c) \/ RequestCancel(c) \/ CallerStep(c)
     \/ \E r \in Runs : LifetimeStep(r) \/ ChildEnds(r)

Spec == Init /\ [][Next]_vars

(* Threads go on, processes end, and a thread that waits for the mutex     *)
(* gets it if it is free again and again.                                  *)
Fairness ==
  /\ \A c \in Callers : WF_vars(Runs_on /\ CallerStep(c))
  /\ \A r \in Runs : /\ SF_vars(Runs_on /\ LifetimeStep(r))
                     /\ WF_vars(Runs_on /\ ChildEnds(r))

FairSpec == Spec /\ Fairness

-----------------------------------------------------------------------------

(* process.cpp:85,151,206: a process runs beside a later one of the same   *)
(* Process object only if its start was answered with an error, and the    *)
(* thread that waits for one is never assigned over, whatever the callers  *)
(* do meanwhile.                                                           *)
OneAtATime ==
  /\ \A r, s \in Running : r < s => r \in refused
  /\ \A r \in Runs : at[r] \notin {"none", "done"} => thread = r

(* process.cpp:153-165: onExit is called at most once for a process, after *)
(* its end, before it is called for a later one, and it is the callback    *)
(* that came with the process if one did.                                  *)
ExitsReported ==
  \A i \in DOMAIN reports :
    LET e == reports[i] IN
    /\ child[e.run] = "over"
    /\ e.run \in own => e.callback = e.run
    /\ \A j \in 1 .. i - 1 : reports[j].run < e.run

(* process.cpp:215-221: what try_get_exit_status answers is the status of  *)
(* the process whose start was last answered with no error, and that one   *)
(* has ended; as long as kill was never called.  Of a process that runs    *)
(* though its start was answered with an error nothing is ever answered.   *)
StatusOfTheProcess ==
  \A c \in Callers :
    LET a == answer[c] IN
    a.is = "status" => a.kill \/ (~a.running /\ a.status = a.of)

(* process.hpp:39-42, "@return pair of <has returned?, exit status>": the  *)
(* call that asks whether the process has returned comes back itself.      *)
TryReturns ==
  \A c \in Callers :
    (pc[c] = "check" /\ op[c] = "tryGetExitStatus") ~> pc[c] = "idle"
=============================================================================
