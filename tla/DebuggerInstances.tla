------------------------- MODULE DebuggerInstances -------------------------
(***************************************************************************)
(* routers/debugger.cpp and debugger/debugger.cpp of the worker: requests  *)
(* that start, delete and use debuggers of a session, and the thread of    *)
(* each debugger that watches for its end.                                 *)
(*                                                                         *)
(* A Debugger is owned by shared pointers, one in every copy of a session  *)
(* made since it was stored: that of the storage, those of the handlers    *)
(* and of onExit, and the one a script keeps.  Whoever drops the last one  *)
(* destroys it.                                                            *)
(***************************************************************************)
EXTENDS SessionStorage

CONSTANTS
  Session,        (* the session                                           *)
  Requests,       (* the requests made in it                               *)
  MayBe,          (* MayBe[r]: the kinds of request that r may be          *)
  Configs,        (* the names of run configurations                       *)
  MaxInstances    (* bound: debuggers that are created                     *)

Instances == 1 .. MaxInstances

Kinds == {"createInstance", "deleteInstance", "command", "setActiveProject"}

ASSUME DebuggerAssumption ==
  /\ Session \in Sessions
  /\ MayBe \in [Requests -> SUBSET Kinds]
  /\ MaxInstances \in Nat
  /\ None \notin Requests

VARIABLES
  request,      (* request[r]: a handler and its copy of the session       *)
  debugger,     (* debugger[i]: the Debugger object i and its thread       *)
  toSave,       (* the debuggers in partially_save_session's copy          *)
  memorized,    (* those in the session that a script memorized            *)
  ids,          (* the number of ids that were generated                   *)
  crashed,      (* has an object been used that is null or no more?        *)
  created,      (* the debuggers that were stored                          *)
  deleted       (* the debuggers that were deleted on request              *)

history == <<created, deleted>>
vars == <<storageVars, request, debugger, toSave, memorized, ids, crashed, history>>

Owned == stored[Session].debuggerInstances

(* The debuggers that somebody but the onExit of a watchdog points to.     *)
Pointers ==
  UNION ({Owned, toSave, memorized} \cup {request[r].copy.debuggerInstances : r \in Requests})

SessionType == [root : {None}, toolbarStore : {None}, activeProject : Requests \cup {None},
                dataId : {NoStream}, controlId : {NoStream}, debuggerInstances : SUBSET Instances]

RequestType ==
  [pc : {"idle", "save", "start", "assign", "store", "use", "drop", "done"},
   kind : Kinds \cup {"none"}, config : Configs \cup {None}, allowDuplicate : BOOLEAN, copy : SessionType,
   instance : Instances \cup {None}, answer : {"none", "ok", "error"}]

DebuggerType ==
  [object : {"none", "built", "stopping", "gone"}, config : Configs \cup {None},
   process : {"none", "running", "exited", "stopped"},
   member : {"null", "thread", "detached"}, stop : BOOLEAN, joins : BOOLEAN,
   watchdog : {"none", "poll", "detach", "load", "erase", "drop", "ended"},
   held : SUBSET Instances, unseen : SUBSET Instances]

TypeOK ==
  /\ stored \in [Sessions -> SessionType]
  /\ storageLock \in Requests \cup {None}
  /\ request \in [Requests -> RequestType]
  /\ debugger \in [Instances -> DebuggerType]
  /\ {toSave, memorized, created, deleted} \subseteq SUBSET Instances
  /\ ids \in 0 .. MaxInstances
  /\ crashed \in BOOLEAN

Init ==
  /\ stored = [s \in Sessions |-> EmptySession]
  /\ storageLock = None
  /\ request = [r \in Requests |->
       [pc |-> "idle", kind |-> "none", config |-> None, allowDuplicate |-> FALSE,
        copy |-> EmptySession, instance |-> None, answer |-> "none"]]
  /\ debugger = [i \in Instances |->
       [object |-> "none", config |-> None, process |-> "none", member |-> "null",
        stop |-> FALSE, joins |-> FALSE, watchdog |-> "none", held |-> {}, unseen |-> {}]]
  /\ toSave = {} /\ memorized = {} /\ ids = 0 /\ crashed = FALSE /\ created = {} /\ deleted = {}

-----------------------------------------------------------------------------
(* ~Debugger, stop: reset makes the member null, and if the thread was not *)
(* detached it is told to stop and waited for; then the process is ended.  *)

Destroyed(d) ==
  [d EXCEPT !.object = "stopping", !.member = "null",
            !.joins = (d.member = "thread"), !.stop = (d.member = "thread")]

(* What becomes of the debuggers d when the other pointers are those of    *)
(* the next state.                                                         *)
Dropped(d) ==
  LET left == Pointers' \cup UNION {d[i].held : i \in Instances}
  IN [i \in Instances |-> IF d[i].object = "built" /\ i \notin left THEN Destroyed(d[i]) ELSE d[i]]

(* A slip: the process is left to itself.                                  *)
Leave(i) ==
  /\ debugger[i].object = "stopping"
  /\ debugger[i].joins => debugger[i].watchdog = "ended"
  /\ debugger' = [debugger EXCEPT ![i].object = "gone"]
  /\ UNCHANGED <<storageVars, request, toSave, memorized, ids, crashed, history>>

Stop(i) ==
  /\ debugger[i].object = "stopping"
  /\ debugger[i].joins => debugger[i].watchdog = "ended"
  /\ debugger' = [debugger EXCEPT ![i].object = "gone",
                                  ![i].process = IF @ = "running" THEN "stopped" ELSE @]
  /\ UNCHANGED <<storageVars, request, toSave, memorized, ids, crashed, history>>

-----------------------------------------------------------------------------
(* The handlers.                                                           *)

Unchanged == UNCHANGED <<toSave, memorized, ids, crashed, history>>

(* A slip: the other debuggers of the session are not looked at.           *)
AnyConfig(copy, config, allow) == TRUE

MayCreate(copy, config, allow) ==
  allow \/ \A i \in copy.debuggerInstances : debugger[i].config # config

(* The session is copied, and what the request needs is looked for in the  *)
(* copy, which lives until the handler returns.                            *)
Begin(r) ==
  /\ request[r].pc = "idle" /\ Unlocked
  /\ \E kind \in MayBe[r] :
       LET copy == Load(Session)
           begun == [request[r] EXCEPT !.kind = kind, !.copy = copy]
           goes(q) == request' = [request EXCEPT ![r] = q]
       IN \/ goes([begun EXCEPT !.pc = "drop", !.answer = "error"])
          \/ /\ kind = "createInstance"
             /\ ids < MaxInstances
             /\ \E config \in Configs, allow \in BOOLEAN :
                  /\ MayCreate(copy, config, allow)
                  /\ goes([begun EXCEPT !.pc = "save", !.config = config, !.allowDuplicate = allow])
          \/ /\ kind = "deleteInstance"
             /\ \E i \in copy.debuggerInstances : goes([begun EXCEPT !.pc = "save", !.instance = i])
          \/ /\ kind = "command"
             /\ \E i \in copy.debuggerInstances : goes([begun EXCEPT !.pc = "use", !.instance = i])
          \/ /\ kind = "setActiveProject"
             /\ goes([begun EXCEPT !.pc = "save"])
  /\ UNCHANGED <<storageVars, debugger>> /\ Unchanged

(* createInstance: save_partial keeps the storage locked while the         *)
(* debugger is made and started.                                           *)
Create(r) ==
  /\ request[r].pc = "save" /\ request[r].kind = "createInstance"
  /\ Unlocked /\ ids < MaxInstances
  /\ storageLock' = r
  /\ ids' = ids + 1
  /\ toSave' = Owned \cup {ids'}
  /\ request' = [request EXCEPT ![r].pc = "start", ![r].instance = ids']
  /\ debugger' = [debugger EXCEPT ![ids'].object = "built", ![ids'].config = request[r].config,
                     ![ids'].unseen = Owned \ request[r].copy.debuggerInstances]
  /\ UNCHANGED <<stored, memorized, crashed, history>>

(* start: the process, then the thread, and only then the member; if the   *)
(* process cannot be started, the copy is dropped and the lock given back. *)
Start(r) ==
  /\ request[r].pc = "start"
  /\ \/ /\ request' = [request EXCEPT ![r].pc = "assign"]
        /\ debugger' = [debugger EXCEPT ![request[r].instance].process = "running",
                                        ![request[r].instance].watchdog = "poll"]
        /\ UNCHANGED <<storageLock, toSave>>
     \/ /\ request' = [request EXCEPT ![r].pc = "drop", ![r].answer = "error"]
        /\ toSave' = {}
        /\ storageLock' = None
        /\ UNCHANGED <<stored, memorized>>
        /\ debugger' = Dropped(debugger)
  /\ UNCHANGED <<stored, memorized, ids, crashed, history>>

Assign(r) ==
  /\ request[r].pc = "assign"
  /\ request' = [request EXCEPT ![r].pc = "store"]
  /\ debugger' = [debugger EXCEPT ![request[r].instance].member = "thread"]
  /\ UNCHANGED storageVars /\ Unchanged

Store(r) ==
  /\ request[r].pc = "store"
  /\ stored' = [stored EXCEPT ![Session].debuggerInstances = toSave]
  /\ toSave' = {}
  /\ storageLock' = None
  /\ created' = created \cup {request[r].instance}
  /\ request' = [request EXCEPT ![r].pc = "drop", ![r].answer = "ok"]
  /\ UNCHANGED <<debugger, memorized, ids, crashed, deleted>>

Erase(i, copy) ==
  PartiallySave(Session, copy, "debuggerInstances", Owned \ {i})

(* deleteInstance sends no answer when it succeeds.                        *)
Delete(r) ==
  /\ request[r].pc = "save" /\ request[r].kind = "deleteInstance"
  /\ Erase(request[r].instance, request[r].copy)
  /\ request' = [request EXCEPT ![r].pc = "drop"]
  /\ deleted' = deleted \cup {request[r].instance}
  /\ UNCHANGED <<debugger, toSave, memorized, ids, crashed, created>>

(* command and rawCommand.                                                 *)
Command(r) ==
  /\ request[r].pc = "use"
  /\ IF debugger[request[r].instance].object = "built"
     THEN request' = [request EXCEPT ![r].pc = "drop", ![r].answer = "ok"] /\ UNCHANGED crashed
     ELSE crashed' = TRUE /\ UNCHANGED request
  /\ UNCHANGED <<storageVars, debugger, toSave, memorized, ids, history>>

SetActiveProject(r) ==
  /\ request[r].pc = "save" /\ request[r].kind = "setActiveProject"
  /\ PartiallySave(Session, request[r].copy, "activeProject", r)
  /\ request' = [request EXCEPT ![r].pc = "drop", ![r].answer = "ok"]
  /\ UNCHANGED debugger /\ Unchanged

(* The handler returns.                                                    *)
Return(r) ==
  /\ request[r].pc = "drop"
  /\ request' = [request EXCEPT ![r].pc = "done", ![r].copy = EmptySession]
  /\ UNCHANGED storageVars /\ Unchanged
  /\ debugger' = Dropped(debugger)

(* SessionObtainer::reload, by the first use of a session in a script and  *)
(* by its reloadInformation.                                               *)
Memorize ==
  /\ Unlocked
  /\ memorized # Owned
  /\ memorized' = Owned
  /\ UNCHANGED <<storageVars, request, toSave, ids, crashed, history>>
  /\ debugger' = Dropped(debugger)

-----------------------------------------------------------------------------
(* The watchdog thread of debugger i, and its process.                     *)

ProcessExits(i) ==
  /\ debugger[i].process = "running"
  /\ debugger' = [debugger EXCEPT ![i].process = "exited"]
  /\ UNCHANGED <<storageVars, request>> /\ Unchanged

Watches(i, from, to) ==
  /\ debugger[i].watchdog = from
  /\ debugger' = [debugger EXCEPT ![i].watchdog = to]

EndsLoop(i) ==
  /\ debugger[i].stop
  /\ Watches(i, "poll", "ended")
  /\ UNCHANGED <<storageVars, request>> /\ Unchanged

(* A slip: the exit is taken for the order to stop.                        *)
StopsAtExit(i) ==
  /\ debugger[i].process = "exited"
  /\ Watches(i, "poll", "ended")
  /\ UNCHANGED <<storageVars, request>> /\ Unchanged

(* The exit is seen and relayed; that the thread is to stop was looked at  *)
(* before.                                                                 *)
SeesExit(i) ==
  /\ debugger[i].process = "exited"
  /\ Watches(i, "poll", "detach")
  /\ UNCHANGED <<storageVars, request>> /\ Unchanged

Crash == crashed' = TRUE /\ UNCHANGED <<storageVars, request, debugger, toSave, memorized, ids, history>>

(* A slip: the thread stays one that its destructor waits for.             *)
KeepsThread(i) ==
  /\ Watches(i, "detach", "load")
  /\ UNCHANGED <<storageVars, request>> /\ Unchanged

Detach(i) ==
  /\ debugger[i].watchdog = "detach"
  /\ IF debugger[i].member = "null"
     THEN Crash
     ELSE /\ debugger' = [debugger EXCEPT ![i].watchdog = "load", ![i].member = "detached"]
          /\ UNCHANGED <<storageVars, request>> /\ Unchanged

(* onExit is a member of the debugger, and so is what it captures.         *)
LoadsSession(i) ==
  /\ debugger[i].watchdog = "load"
  /\ IF debugger[i].object = "gone"
     THEN Crash
     ELSE /\ Unlocked
          /\ debugger' = [debugger EXCEPT ![i].watchdog = "erase", ![i].held = Owned]
          /\ UNCHANGED <<storageVars, request>> /\ Unchanged

ErasesItself(i) ==
  /\ debugger[i].watchdog = "erase"
  /\ IF debugger[i].object = "gone"
     THEN Crash
     ELSE /\ Erase(i, [Load(Session) EXCEPT !.debuggerInstances = debugger[i].held])
          /\ Watches(i, "erase", "drop")
          /\ UNCHANGED request /\ Unchanged

(* The copy of onExit is dropped.  A thread that would wait for its own    *)
(* end terminates the worker.                                              *)
ReturnsFromExit(i) ==
  /\ debugger[i].watchdog = "drop"
  /\ UNCHANGED <<storageVars, request, toSave, memorized, ids, history>>
  /\ LET d == Dropped([debugger EXCEPT ![i].watchdog = "ended", ![i].held = {}])
     IN /\ debugger' = d
        /\ crashed' = (debugger[i].object = "built" /\ d[i].joins)

-----------------------------------------------------------------------------

RequestStep(r) ==
  \/ Begin(r) \/ Create(r) \/ Start(r) \/ Assign(r) \/ Store(r) \/ Delete(r)
  \/ Command(r) \/ SetActiveProject(r) \/ Return(r)

WatchdogStep(i) ==
  \/ EndsLoop(i) \/ SeesExit(i) \/ Detach(i)
  \/ LoadsSession(i) \/ ErasesItself(i) \/ ReturnsFromExit(i)

Next ==
  /\ ~crashed
  /\ \/ \E r \in Requests : RequestStep(r)
     \/ \E i \in Instances : WatchdogStep(i) \/ Stop(i) \/ ProcessExits(i)
     \/ Memorize

Spec == Init /\ [][Next]_vars

(* Handlers and threads go on once they have begun; a thread that waits    *)
(* for the storage gets it if it is free again and again.                  *)
Fairness ==
  /\ \A r \in Requests : SF_vars(~crashed /\ request[r].pc # "idle" /\ RequestStep(r))
  /\ \A i \in Instances : SF_vars(~crashed /\ WatchdogStep(i)) /\ WF_vars(~crashed /\ Stop(i))

FairSpec == Spec /\ Fairness

-----------------------------------------------------------------------------

(* routers/debugger.cpp:230-260: the session holds just the debuggers that *)
(* were created, not deleted, and have not been erased by their exit; no   *)
(* handler that copied the session before brings one back or loses one.    *)
ExactlyTheLive ==
  Owned = {i \in created \ deleted : debugger[i].watchdog \notin {"drop", "ended"}}

(* routers/debugger.cpp:213-227: two debuggers of one configuration are    *)
(* there unasked only if neither request could see the other's debugger.   *)
DuplicatesWereUnseen ==
  \A r \in Requests :
    LET i == request[r].instance IN
    request[r].kind = "createInstance" /\ ~request[r].allowDuplicate /\ i # None =>
      \A j \in Owned : j < i /\ debugger[j].config = debugger[i].config => j \in debugger[i].unseen

(* debugger.cpp:230-234 and :267-268: the exit of a debugger breaks        *)
(* nothing, unless it is deleted at the same time, or ends before the      *)
(* thread that watches it is assigned.                                     *)
ExitsAreSafe ==
  crashed =>
    \/ \E i \in deleted : debugger[i].watchdog \in {"detach", "load", "erase"}
    \/ \E r \in Requests : request[r].pc = "assign" /\ debugger[request[r].instance].process = "exited"

(* debugger.cpp:261-268: a debugger that has exited is erased from the     *)
(* session.                                                                *)
ExitIsNoticed ==
  \A i \in Instances :
    (i \in Owned /\ debugger[i].process = "exited") ~> (i \notin Owned \/ crashed)

(* debugger.cpp:71-75: the process of a debugger that was deleted ends, as *)
(* soon as nobody uses it; a script that memorized the session does.       *)
DeletedIsStopped ==
  \A i \in Instances :
    i \in deleted ~> (debugger[i].process # "running" \/ i \in memorized \/ crashed)
=============================================================================
