----------------------------- MODULE LuaProcess -----------------------------
(***************************************************************************)
(* process.cpp of the worker's scripting engine: one Process object of a   *)
(* toolbar script, the threads that call it, and the thread that waits for *)
(* the end of the operating system's process ("lifetimeControl").          *)
(*                                                                         *)
(* The processes that were started are numbered; an exit status is known   *)
(* by the number of the process that it is the status of.                  *)
(***************************************************************************)
EXTENDS Naturals, Sequences

CONSTANTS
  Callers,   (* http threads, each of which calls a script's function      *)
  MaxRuns    (* bound: how often a process is started                      *)

ASSUME ProcessAssumption == MaxRuns \in Nat \ {0} /\ Callers \cap Nat = {}

Runs == 1 .. MaxRuns

None == 0

VARIABLES
  runs,        (* how many Process objects were constructed                *)
  child,       (* child[r]: what has become of the process itself          *)
  own,         (* the runs that came with callbacks of their own           *)
  refused,     (* the runs whose start was answered with an error          *)
  process,     (* impl_->process, or None                                  *)
  thread,      (* impl_->lifetimeControl: the run it waits for, or None    *)
  at,          (* at[r]: where the lifetime thread of run r is             *)
  kill,        (* impl_->kill                                              *)
  ended,       (* impl_->ended                                             *)
  exitStatus,  (* impl_->exitStatus                                        *)
  onExit,      (* impl_->onExit: the run it was given for                  *)
  reports,     (* the calls of onExit that were made                       *)
  lock,        (* the caller that holds globalMutex, or None               *)
  pc,          (* pc[c]: what caller c does next                           *)
  op,          (* op[c]: the member function that c calls                  *)
  dying,       (* dying[c]: the Process object that c is destroying        *)
  answer       (* answer[c]: what c's last call came to                    *)

objectVars == <<process, thread, kill, ended, exitStatus, onExit>>
osVars == <<runs, child, own, refused>>
threadVars == <<at, reports>>
callVars == <<pc, op, dying, answer, lock>>

(* An answer that gives no status: an error, or that a process was started *)
(* or killed, or that it runs.                                             *)
NoStatus == [is |-> "none"]

Statuses == [is : {"status"}, status : 0 .. MaxRuns, of : 0 .. MaxRuns,
             running : BOOLEAN, kill : BOOLEAN]

TypeOK ==
  /\ runs \in 0 .. MaxRuns
  /\ child \in [Runs -> {"none", "failed", "running", "over"}]
  /\ {own, refused} \subseteq SUBSET Runs
  /\ {process, thread, exitStatus, onExit} \subseteq 0 .. MaxRuns
  /\ at \in [Runs -> {"none", "start", "loop", "last", "over", "notify", "done", "crash"}]
  /\ {kill, ended} \subseteq BOOLEAN
  /\ reports \in Seq([run : Runs, callback : Runs])
  /\ lock \in Callers \cup {None}
  /\ pc \in [Callers -> {"idle", "lock", "getItem", "check", "join", "joining",
                         "go", "destroy", "store", "reset"}]
  /\ op \in [Callers -> {"execute", "executeShort", "tryGetExitStatus", "kill"}]
  /\ dying \in [Callers -> 0 .. MaxRuns]
  /\ answer \in [Callers -> {NoStatus} \cup Statuses]

Init ==
  /\ runs = 0
  /\ child = [r \in Runs |-> "none"]
  /\ own = {}
  /\ refused = {}
  /\ process = None
  /\ thread = None
  /\ at = [r \in Runs |-> "none"]
  /\ kill = FALSE
  /\ ended = FALSE
  /\ exitStatus = None
  /\ onExit = None
  /\ reports = <<>>
  /\ lock = None
  /\ pc = [c \in Callers |-> "idle"]
  /\ op = [c \in Callers |-> "kill"]
  /\ dying = [c \in Callers |-> None]
  /\ answer = [c \in Callers |-> NoStatus]

-----------------------------------------------------------------------------
(* The calls.  A call of a script that was made under globalMutex gives it *)
(* back when the script's function returns.                                *)

Goes(c, from, to) == pc[c] = from /\ pc' = [pc EXCEPT ![c] = to]

Returns(c, a) ==
  /\ pc' = [pc EXCEPT ![c] = "idle"]
  /\ answer' = [answer EXCEPT ![c] = a]
  /\ lock' = IF lock = c THEN None ELSE lock
  /\ op' = [op EXCEPT ![c] = "kill"]
  /\ dying' = [dying EXCEPT ![c] = None]

Calls(c, from, to) == Goes(c, from, to) /\ UNCHANGED <<op, dying, answer, lock>>

Executes(c) == op[c] \in {"execute", "executeShort"}

(* A slip: whether the thread has ended is not asked.                      *)
RunAnyway(c) ==
  /\ pc[c] = "check" /\ op[c] # "kill"
  /\ Calls(c, "check", "go")
  /\ UNCHANGED <<objectVars, osVars, threadVars>>

(* runCheckAndJoin: nothing is done while the thread of an earlier run has *)
(* not set ended; otherwise that thread is joined.                         *)
RunCheckAndJoin(c) ==
  /\ pc[c] = "check" /\ op[c] # "kill"
  /\ \/ thread = None /\ Calls(c, "check", "go")
     \/ thread # None /\ ended /\ Calls(c, "check", "join")
     \/ thread # None /\ ~ended /\ Returns(c, NoStatus)
  /\ UNCHANGED <<objectVars, osVars, threadVars>>

(* std::thread::join: a thread that was joined, or that another caller     *)
(* waits for, makes it throw.                                              *)
Join(c) ==
  /\ pc[c] = "join"
  /\ IF thread = None \/ \E d \in Callers : pc[d] = "joining"
     THEN Returns(c, NoStatus)
     ELSE Calls(c, "join", "joining")
  /\ UNCHANGED <<objectVars, osVars, threadVars>>

Joined(c) ==
  /\ pc[c] = "joining" /\ at[thread] = "done"
  /\ Calls(c, "joining", IF op[c] = "kill" THEN "reset" ELSE "go")
  /\ thread' = None
  /\ UNCHANGED <<process, kill, ended, exitStatus, onExit, osVars, threadVars>>

(* A slip: the exit callback is kept from the first execute.               *)
KeepsCallback(c) == IF op[c] = "execute" /\ onExit = None THEN runs + 1 ELSE onExit

Callback(c) == IF op[c] = "execute" THEN runs + 1 ELSE onExit

(* execute takes the callbacks; executeShort, which it goes on to, leaves  *)
(* those of an earlier execute in place.  The new Process is constructed   *)
(* before the old one is destroyed.                                        *)
ExecuteShort(c) ==
  /\ pc[c] = "go" /\ Executes(c)
  /\ onExit' = Callback(c)
  /\ runs' = runs + 1
  /\ own' = IF op[c] = "execute" THEN own \cup {runs'} ELSE own
  /\ \E became \in {"failed", "running"} : child' = [child EXCEPT ![runs'] = became]
  /\ process' = runs'
  /\ Goes(c, "go", "destroy")
  /\ dying' = [dying EXCEPT ![c] = process]
  /\ UNCHANGED <<op, answer, lock, refused, thread, kill, ended, exitStatus, threadVars>>

(* The destructor of a Process waits for the ends of its output, that is,  *)
(* for the end of the process.                                             *)
Running == {r \in Runs : child[r] = "running"}

Destroyed(c) == pc[c] = "destroy" /\ dying[c] \notin Running

(* error is what errno is by now, and nobody has reset it: a failed start  *)
(* has set it, and an older failure of the same http thread makes the      *)
(* start of a process that runs look failed too.  Without an error the     *)
(* lifetime thread of the new process is created.                          *)
Launch(c) ==
  /\ Destroyed(c) /\ Executes(c)
  /\ \/ /\ Returns(c, NoStatus)
        /\ refused' = refused \cup {runs}
        /\ UNCHANGED <<thread, at>>
     \/ /\ child[runs] # "failed"
        /\ thread' = runs
        /\ at' = [at EXCEPT ![runs] = "start"]
        /\ Returns(c, NoStatus)
        /\ UNCHANGED refused
  /\ UNCHANGED <<process, kill, ended, exitStatus, onExit, runs, child, own, reports>>

LastRun ==
  LET Started == {r \in Runs \ refused : child[r] \in {"running", "over"}} IN
  IF Started = {} THEN None ELSE CHOOSE r \in Started : \A s \in Started : s <= r

(* What is answered is kept with what held then: the process whose start   *)
(* was last said to have worked, whether such a one was running, and       *)
(* whether kill had been set.                                              *)
TryGetExitStatus(c) ==
  /\ pc[c] = "go" /\ op[c] = "tryGetExitStatus"
  /\ Returns(c, [is |-> "status", status |-> exitStatus, of |-> LastRun,
                 running |-> Running \ refused # {}, kill |-> kill])
  /\ UNCHANGED <<objectVars, osVars, threadVars>>

(* LuaProcess::kill: joinable, the flag, the join, and the Process.        *)
Kill(c) ==
  /\ pc[c] = "check" /\ op[c] = "kill"
  /\ IF thread = None THEN Returns(c, NoStatus) ELSE Calls(c, "check", "store")
  /\ UNCHANGED <<objectVars, osVars, threadVars>>

StoreKill(c) ==
  /\ Calls(c, "store", "join")
  /\ kill' = TRUE
  /\ UNCHANGED <<process, thread, ended, exitStatus, onExit, osVars, threadVars>>

ResetProcess(c) ==
  /\ Goes(c, "reset", "destroy")
  /\ dying' = [dying EXCEPT ![c] = process]
  /\ process' = None
  /\ UNCHANGED <<op, answer, lock, thread, kill, ended, exitStatus, onExit, osVars, threadVars>>

Killed(c) ==
  /\ Destroyed(c) /\ op[c] = "kill"
  /\ Returns(c, NoStatus)
  /\ UNCHANGED <<objectVars, osVars, threadVars>>

ProcessCall(c) ==
  \/ RunCheckAndJoin(c) \/ Join(c) \/ Joined(c)
  \/ ExecuteShort(c) \/ Launch(c) \/ TryGetExitStatus(c)
  \/ Kill(c) \/ StoreKill(c) \/ ResetProcess(c) \/ Killed(c)

-----------------------------------------------------------------------------
(* The lifetime thread of run r.                                           *)

Begin(r) ==
  /\ at[r] = "start"
  /\ ended' = FALSE
  /\ at' = [at EXCEPT ![r] = "loop"]
  /\ UNCHANGED <<process, thread, kill, exitStatus, onExit, osVars, reports, callVars>>

(* A slip: the status is not kept.                                         *)
KeepsOldStatus == UNCHANGED exitStatus

KeepStatus == exitStatus' = process

(* One round of the loop that sees the flag or the end of the process.     *)
(* Nobody keeps *process from being reset meanwhile.                       *)
Loop(r) ==
  /\ at[r] = "loop"
  /\ \/ /\ kill
        /\ at' = [at EXCEPT ![r] = "last"]
        /\ UNCHANGED exitStatus
     \/ /\ ~kill /\ process = None
        /\ at' = [at EXCEPT ![r] = "crash"]
        /\ UNCHANGED exitStatus
     \/ /\ ~kill /\ process # None /\ child[process] = "over"
        /\ at' = [at EXCEPT ![r] = "over"]
        /\ KeepStatus
  /\ UNCHANGED <<process, thread, kill, ended, onExit, osVars, reports, callVars>>

(* After the loop was left on the flag: the process is killed if it has    *)
(* not ended.  The status is reported, but not kept.                       *)
Last(r) ==
  /\ at[r] = "last"
  /\ IF process = None
     THEN at' = [at EXCEPT ![r] = "crash"] /\ UNCHANGED child
     ELSE at' = [at EXCEPT ![r] = "over"] /\ child' = [child EXCEPT ![process] = "over"]
  /\ UNCHANGED <<runs, own, refused, objectVars, reports, callVars>>

(* A slip: whether there is a callback is not asked.                       *)
WhenExitAlways(r) ==
  /\ at[r] = "over"
  /\ ended' = TRUE
  /\ at' = [at EXCEPT ![r] = "notify"]
  /\ UNCHANGED <<process, thread, kill, exitStatus, onExit, osVars, reports, callVars>>

WhenExit(r) ==
  /\ at[r] = "over"
  /\ ended' = TRUE
  /\ at' = [at EXCEPT ![r] = IF onExit = None THEN "done" ELSE "notify"]
  /\ UNCHANGED <<process, thread, kill, exitStatus, onExit, osVars, reports, callVars>>

(* The guard of whenExit has a name: the callback is run under globalMutex.*)
Report(r) ==
  /\ at[r] = "notify" /\ lock = None
  /\ reports' = Append(reports, [run |-> r, callback |-> onExit])
  /\ at' = [at EXCEPT ![r] = "done"]
  /\ UNCHANGED <<objectVars, osVars, callVars>>

LifetimeStep(r) == Begin(r) \/ Loop(r) \/ Last(r) \/ WhenExit(r) \/ Report(r)

(* The process ends by itself.                                             *)
ChildEnds(r) ==
  /\ child[r] = "running"
  /\ child' = [child EXCEPT ![r] = "over"]
  /\ UNCHANGED <<runs, own, refused, objectVars, threadVars, callVars>>
=============================================================================
