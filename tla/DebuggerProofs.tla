--------------------------- MODULE DebuggerProofs ---------------------------
(***************************************************************************)
(* Proofs about the debuggers of a session: that the session holds just    *)
(* the live ones, that duplicates were unseen, and that their exits break  *)
(* nothing but in the two races that ExitsAreSafe names.                   *)
(***************************************************************************)
EXTENDS DebuggerInstances, TLAPS

(* i is in a session that is stored or was copied.                        *)
Shared(i) ==
  \/ i \in Owned \/ i \in memorized
  \/ \E r \in Requests : i \in request[r].copy.debuggerInstances
  \/ \E j \in Instances : i \in debugger[j].held

Kept(i) == Shared(i) \/ i \in toSave

(* The handler r is at pc with the debugger i.                             *)
IsAt(r, pc, i) == request[r].pc = pc /\ request[r].instance = i

(* What a request is about, by how far it is.                              *)
About(r) ==
  LET q == request[r]
  IN /\ q.pc = "idle" => q.instance = None
     /\ q.pc = "save" /\ q.kind = "createInstance" =>
          /\ q.instance = None
          /\ q.allowDuplicate \/ \A i \in q.copy.debuggerInstances : debugger[i].config # q.config
     /\ q.pc = "save" /\ q.kind = "deleteInstance" => q.instance \in q.copy.debuggerInstances
     /\ q.pc = "use" => q.instance \in q.copy.debuggerInstances
     /\ q.instance <= ids

(* While a debugger is made the storage is locked, and what will be stored *)
(* is what is stored now and the new one.                                  *)
Makes(r) ==
  request[r].pc \in {"start", "assign", "store"} =>
    /\ storageLock = r
    /\ request[r].instance = ids /\ ids \in Instances
    /\ toSave = Owned \cup {ids}
    /\ ids \notin created
    /\ debugger[ids].object = "built" /\ debugger[ids].held = {}
    /\ request[r].pc \in {"start", "assign"} => debugger[ids].member = "null"
    /\ request[r].pc = "start" => debugger[ids].watchdog = "none"
    /\ request[r].pc = "assign" => debugger[ids].watchdog \in {"poll", "detach"}
    /\ request[r].pc = "store" => debugger[ids].watchdog \in {"poll", "detach", "load"}

(* Whatever is pointed to is alive, and was stored or is about to be.      *)
Alive ==
  \A i \in Instances :
    /\ Shared(i) => i \in created
    /\ Kept(i) => debugger[i].object = "built"

Numbered ==
  /\ created \subseteq 1 .. ids
  /\ deleted \subseteq created
  /\ \A i \in Instances : i > ids =>
       /\ debugger[i].object = "none" /\ debugger[i].watchdog = "none"
       /\ debugger[i].member = "null" /\ debugger[i].held = {}

(* A thread and its debugger.                                              *)
Watchdog(i) ==
  LET d == debugger[i]
  IN /\ d.object \in {"none", "built"} => ~d.stop /\ ~d.joins
     /\ d.watchdog # "none" /\ i \notin created => \E r \in Requests : IsAt(r, "assign", i) \/ IsAt(r, "store", i)
     /\ d.watchdog # "none" /\ d.object = "built" /\ d.member = "null" =>
          \E r \in Requests : IsAt(r, "assign", i)
     /\ d.watchdog \in {"load", "erase", "drop"} /\ d.object = "built" => d.member = "detached"
     /\ d.watchdog = "detach" => d.process = "exited"
     /\ d.object = "none" => d.watchdog = "none"

(* Of two debuggers of r's configuration r did not see the earlier one.    *)
Unseen(r) ==
  LET i == request[r].instance IN
  request[r].kind = "createInstance" /\ ~request[r].allowDuplicate /\ i # None =>
    \A j \in Owned : j < i /\ debugger[j].config = debugger[i].config => j \in debugger[i].unseen

IInv ==
  /\ TypeOK
  /\ (\A r \in Requests : About(r) /\ Makes(r) /\ Unseen(r))
  /\ Alive /\ Numbered
  /\ (\A i \in Instances : Watchdog(i))
  /\ ExactlyTheLive /\ ExitsAreSafe

-----------------------------------------------------------------------------

LEMMA Constants ==
  /\ None = 0 /\ None \notin Requests /\ Session \in Sessions
  /\ MaxInstances \in Nat /\ Instances = 1 .. MaxInstances
  /\ None \notin Instances
BY DebuggerAssumption DEF None, Instances

LEMMA Types ==
  ASSUME TypeOK
  PROVE  /\ \A r \in Requests : request[r] \in RequestType
         /\ \A i \in Instances : debugger[i] \in DebuggerType
         /\ stored[Session] \in SessionType /\ Owned \subseteq Instances
BY Constants DEF TypeOK, Owned, SessionType

LEMMA PointersAre ==
  ASSUME NEW i, i \notin Pointers'
  PROVE  ~ (\/ i \in Owned \/ i \in toSave \/ i \in memorized
            \/ \E r \in Requests : i \in request[r].copy.debuggerInstances)'
<1> DEFINE sets == {Owned', toSave', memorized'} \cup {request'[r].copy.debuggerInstances : r \in Requests}
<1>1. Pointers' = UNION sets
  BY DEF Pointers
<1>2. \A S \in sets : i \notin S
  BY <1>1
<1> QED
  BY <1>2

(* Dropping a pointer leaves a debugger alone that somebody points to.     *)
LEMMA DroppedIs ==
  ASSUME NEW d, \A j \in Instances : debugger'[j].held = d[j].held, debugger' = Dropped(d), NEW i \in Instances
  PROVE  \/ debugger'[i] = d[i]
         \/ d[i].object = "built" /\ ~Kept(i)' /\ debugger'[i] = Destroyed(d[i])
<1> DEFINE left == Pointers' \cup UNION {d[j].held : j \in Instances}
<1>1. debugger'[i] = IF d[i].object = "built" /\ i \notin left THEN Destroyed(d[i]) ELSE d[i]
  BY DEF Dropped
<1>2. ASSUME i \notin left  PROVE ~Kept(i)'
  <2>1. i \notin Pointers' /\ \A j \in Instances : i \notin debugger'[j].held
    BY <1>2
  <2>2. ~ (\/ i \in Owned \/ i \in toSave \/ i \in memorized
           \/ \E r \in Requests : i \in request[r].copy.debuggerInstances)'
    BY <2>1, PointersAre
  <2> QED
    BY <2>1, <2>2 DEF Kept, Shared
<1> HIDE DEF left
<1> QED
  BY <1>1, <1>2

-----------------------------------------------------------------------------

(* A request keeps what it has said of its debugger.                       *)
Keeps(r) ==
  /\ request'[r].kind = request[r].kind /\ request'[r].config = request[r].config
  /\ request'[r].allowDuplicate = request[r].allowDuplicate
  /\ request'[r].instance = request[r].instance

(* A debugger is as it was, or it was destroyed because nobody points to   *)
(* it; its thread is where it was, or has ended.                           *)
Rests(i) ==
  LET d == debugger[i]
      e == debugger'[i]
  IN /\ e.config = d.config /\ e.unseen = d.unseen /\ e.process = d.process
     /\ \/ e.watchdog = d.watchdog /\ e.held = d.held
        \/ d.watchdog = "drop" /\ e.watchdog = "ended" /\ e.held = {}
     /\ \/ e.object = d.object /\ e.member = d.member /\ e.stop = d.stop /\ e.joins = d.joins
        \/ d.object = "built" /\ e.object = "stopping" /\ ~Kept(i)'

LEMMA DroppedFrame ==
  ASSUME IInv, TypeOK', ~crashed',
         UNCHANGED <<ids, created, deleted>>, Owned' = Owned, toSave' \subseteq toSave,
         \A i \in Instances : Rests(i) /\ (Shared(i)' => Shared(i)),
         \A r \in Requests :
           \/ request'[r] = request[r]
           \/ Keeps(r) /\ request[r].pc # "idle" /\ request'[r].pc \in {"drop", "done"}
              /\ request[r].pc \in {"start", "drop"},
         \A r \in Requests : request'[r].pc \in {"start", "assign", "store"} =>
           UNCHANGED <<storageLock, toSave>>
  PROVE  IInv'
<1>1. ASSUME NEW r \in Requests  PROVE About(r)' /\ Unseen(r)'
  <2>1. About(r) /\ Unseen(r)
    BY DEF IInv
  <2>2. \A i \in Instances : debugger'[i].config = debugger[i].config /\ debugger'[i].unseen = debugger[i].unseen
    BY DEF Rests
  <2>3. Owned \subseteq Instances /\ request[r] \in RequestType
    BY Types DEF IInv
  <2>4. request[r].copy.debuggerInstances \subseteq Instances /\ request[r].instance \in Instances \cup {None}
    BY <2>3 DEF RequestType, SessionType
  <2>5. About(r)'
    <3>1. CASE request'[r] = request[r]
      BY <2>1, <2>2, <2>4, <3>1 DEF About
    <3>2. CASE Keeps(r) /\ request'[r].pc \in {"drop", "done"}
      BY <2>1, <3>2 DEF About, Keeps
    <3> QED
      BY <3>1, <3>2
  <2>6. Keeps(r)
    BY DEF Keeps
  <2>7. Unseen(r)'
    BY <2>1, <2>2, <2>3, <2>4, <2>6 DEF Unseen, Keeps
  <2> QED
    BY <2>5, <2>7
<1>2. ASSUME NEW r \in Requests  PROVE Makes(r)'
  <2> SUFFICES ASSUME request'[r].pc \in {"start", "assign", "store"}
               PROVE  Makes(r)'
    BY DEF Makes
  <2>1. request'[r] = request[r] /\ UNCHANGED <<storageLock, toSave>> /\ Makes(r)
    BY DEF IInv
  <2>2. ids \in Instances /\ Rests(ids) /\ ids \in toSave
    BY <2>1 DEF Makes
  <2>3. /\ debugger'[ids].object = debugger[ids].object
        /\ debugger'[ids].watchdog = debugger[ids].watchdog /\ debugger'[ids].held = {}
        /\ debugger'[ids].member = debugger[ids].member
    BY <2>1, <2>2 DEF Makes, Rests, Kept
  <2> QED
    BY <2>1, <2>2, <2>3 DEF Makes
<1>3. Alive'
  <2>1. ASSUME NEW i \in Instances, Kept(i)'
        PROVE  debugger'[i].object = "built"
    <3>1. Kept(i)
      BY <2>1 DEF Kept
    <3> QED
      BY <2>1, <3>1 DEF IInv, Alive, Rests
  <2>2. ASSUME NEW i \in Instances, Shared(i)'
        PROVE  i \in created'
    BY <2>2 DEF IInv, Alive
  <2> QED
    BY <2>1, <2>2 DEF Alive
<1>4. Numbered'
  BY DEF IInv, Numbered, Rests
<1>5. ASSUME NEW i \in Instances  PROVE Watchdog(i)'
  <2>1. Watchdog(i) /\ Rests(i)
    BY DEF IInv
  <2>2. \A r \in Requests : IsAt(r, "assign", i) => IsAt(r, "assign", i)'
    BY DEF IsAt
  <2>3. \A r \in Requests : IsAt(r, "store", i) => IsAt(r, "store", i)'
    BY DEF IsAt
  <2> QED
    BY <2>1, <2>2, <2>3 DEF Watchdog, Rests
<1>6. ExactlyTheLive'
  <2>1. \A i \in Instances : debugger'[i].watchdog \in {"drop", "ended"} <=> debugger[i].watchdog \in {"drop", "ended"}
    BY DEF Rests
  <2>2. created \subseteq Instances
    BY DEF IInv, TypeOK
  <2> QED
    BY <2>1, <2>2 DEF IInv, ExactlyTheLive
<1>7. ExitsAreSafe'
  BY DEF ExitsAreSafe
<1> QED
  BY <1>1, <1>2, <1>3, <1>4, <1>5, <1>6, <1>7 DEF IInv

LEMMA DroppedOr ==
  ASSUME NEW d, debugger' = Dropped(d), NEW i \in Instances
  PROVE  debugger'[i] = d[i] \/ debugger'[i] = Destroyed(d[i])
<1> DEFINE left == Pointers' \cup UNION {d[j].held : j \in Instances}
<1>1. debugger'[i] = IF d[i].object = "built" /\ i \notin left THEN Destroyed(d[i]) ELSE d[i]
  BY DEF Dropped
<1> HIDE DEF left
<1> QED
  BY <1>1

LEMMA DestroyedIs ==
  ASSUME NEW d \in DebuggerType
  PROVE  /\ Destroyed(d) \in DebuggerType /\ Destroyed(d).object = "stopping"
         /\ Destroyed(d).config = d.config /\ Destroyed(d).unseen = d.unseen
         /\ Destroyed(d).process = d.process /\ Destroyed(d).watchdog = d.watchdog
         /\ Destroyed(d).held = d.held
         /\ d.member # "thread" => Destroyed(d).joins = FALSE
<1>1. PICK wait \in BOOLEAN : wait = (d.member = "thread")
  OBVIOUS
<1>2. Destroyed(d) = [d EXCEPT !.object = "stopping", !.member = "null", !.joins = wait, !.stop = wait]
  BY <1>1 DEF Destroyed
<1>3. d.member # "thread" => wait = FALSE
  BY <1>1
<1> QED
  BY <1>2, <1>3 DEF DebuggerType

(* Pointers are dropped, and nothing else happens to debuggers.            *)
LEMMA DropsGo ==
  ASSUME IInv, ~crashed, debugger' = Dropped(debugger),
         request' \in [Requests -> RequestType], stored' = stored, storageLock' \in Requests \cup {None},
         UNCHANGED <<ids, crashed, created, deleted>>, toSave' \subseteq toSave, memorized' \subseteq memorized \cup Owned,
         \A r \in Requests :
           /\ \/ request'[r] = request[r]
              \/ Keeps(r) /\ request[r].pc # "idle" /\ request'[r].pc \in {"drop", "done"}
                 /\ request[r].pc \in {"start", "drop"}
           /\ request'[r].copy.debuggerInstances \subseteq request[r].copy.debuggerInstances,
         \A r \in Requests : request'[r].pc \in {"start", "assign", "store"} =>
           UNCHANGED <<storageLock, toSave>>
  PROVE  IInv'
<1>1. Owned' = Owned /\ Owned \subseteq Instances
  BY Types DEF Owned, IInv
<1>2. ASSUME NEW i \in Instances
      PROVE  debugger'[i] \in DebuggerType /\ Rests(i) /\ debugger'[i].held = debugger[i].held
  <2>1. \A j \in Instances : debugger[j] \in DebuggerType
    BY Types DEF IInv
  <2>2. \A j \in Instances : debugger'[j] = debugger[j] \/ debugger'[j] = Destroyed(debugger[j])
    BY DroppedOr
  <2>3. ASSUME NEW j \in Instances  PROVE debugger'[j].held = debugger[j].held
    <3>1. PICK d \in DebuggerType : d = debugger[j]
      BY <2>1
    <3>2. Destroyed(d).held = d.held
      BY DestroyedIs
    <3> QED
      BY <2>2, <3>1, <3>2
  <2>4. \/ debugger'[i] = debugger[i]
        \/ debugger[i].object = "built" /\ ~Kept(i)' /\ debugger'[i] = Destroyed(debugger[i])
    BY <2>3, DroppedIs
  <2>5. CASE debugger'[i] = debugger[i]
    BY <2>1, <2>5 DEF Rests
  <2>6. CASE debugger[i].object = "built" /\ ~Kept(i)' /\ debugger'[i] = Destroyed(debugger[i])
    <3>0. PICK d \in DebuggerType : d = debugger[i]
      BY <2>1
    <3>1. PICK e : e = debugger'[i] /\ e = Destroyed(d)
      BY <2>6, <3>0
    <3>2. /\ e.object = "stopping" /\ e.config = debugger[i].config /\ e.unseen = debugger[i].unseen
          /\ e.process = debugger[i].process /\ e.watchdog = debugger[i].watchdog /\ e.held = debugger[i].held
      <4>1. /\ Destroyed(d).object = "stopping" /\ Destroyed(d).config = d.config
            /\ Destroyed(d).unseen = d.unseen /\ Destroyed(d).process = d.process
            /\ Destroyed(d).watchdog = d.watchdog /\ Destroyed(d).held = d.held
        BY DestroyedIs
      <4> QED
        BY <3>0, <3>1, <4>1
    <3>3. e \in DebuggerType
      BY <3>0, <3>1, DestroyedIs
    <3>4. Rests(i)
      BY <2>6, <3>1, <3>2 DEF Rests
    <3> QED
      BY <3>1, <3>2, <3>3, <3>4
  <2> QED
    BY <2>4, <2>5, <2>6
<1>3. debugger' \in [Instances -> DebuggerType]
  BY <1>2 DEF Dropped
<1>4. TypeOK'
  BY <1>1, <1>3 DEF IInv, TypeOK
<1>5. \A i \in Instances : Shared(i)' => Shared(i)
  BY <1>1, <1>2 DEF Shared
<1> QED
  BY <1>1, <1>2, <1>4, <1>5, DroppedFrame

(* r goes on, and the debuggers and the rest are as they were.             *)
LEMMA RequestGoes ==
  ASSUME IInv, TypeOK', ~crashed', NEW r \in Requests, NEW q, request' = [request EXCEPT ![r] = q],
         UNCHANGED <<debugger, ids, storageLock, toSave, memorized, created, deleted>>, Owned' = Owned,
         request[r].pc \notin {"start", "assign", "store"}, q.pc \notin {"start", "assign", "store"},
         q.copy.debuggerInstances \subseteq Owned \cup request[r].copy.debuggerInstances,
         About(r)',
         \/ q.kind = "createInstance" => q.instance = None
         \/ Keeps(r)
  PROVE  IInv'
<1>1. request'[r] = q /\ \A s \in Requests : s # r => request'[s] = request[s]
  BY DEF IInv, TypeOK
<1>2. ASSUME NEW s \in Requests  PROVE About(s)' /\ Makes(s)' /\ Unseen(s)'
  <2>1. CASE s = r
    <3>1. Unseen(r)'
      BY <1>1 DEF IInv, Unseen, Keeps
    <3>2. Makes(r)'
      BY <1>1 DEF Makes
    <3> QED
      BY <2>1, <3>1, <3>2
  <2>2. CASE s # r
    BY <1>1, <2>2 DEF IInv, About, Makes, Unseen
  <2> QED
    BY <2>1, <2>2
<1>3. \A i \in Instances : Shared(i)' => Shared(i)
  BY <1>1 DEF Shared
<1>4. Alive' /\ Numbered'
  BY <1>3 DEF IInv, Alive, Kept, Numbered
<1>5. ASSUME NEW i \in Instances  PROVE Watchdog(i)'
  <2>1. \A s \in Requests : IsAt(s, "assign", i) => IsAt(s, "assign", i)'
    BY <1>1 DEF IsAt
  <2>2. \A s \in Requests : IsAt(s, "store", i) => IsAt(s, "store", i)'
    BY <1>1 DEF IsAt
  <2> QED
    BY <2>1, <2>2 DEF IInv, Watchdog
<1>6. ExactlyTheLive' /\ ExitsAreSafe'
  BY DEF IInv, ExactlyTheLive, ExitsAreSafe
<1> QED
  BY <1>2, <1>4, <1>5, <1>6 DEF IInv

(* Only debugger i changes.                                                *)
LEMMA InstanceGoes ==
  ASSUME IInv, crashed' = FALSE, NEW i \in Instances, NEW d \in DebuggerType, debugger' = [debugger EXCEPT ![i] = d],
         UNCHANGED <<storageVars, request, toSave, memorized, ids, history>>,
         \/ d.object = debugger[i].object
         \/ debugger[i].object = "stopping" /\ d.object = "gone",
         d.config = debugger[i].config, d.unseen = debugger[i].unseen,
         debugger[i].watchdog = "none" =>
           d.watchdog = "none" /\ d.held = debugger[i].held /\ d.member = debugger[i].member,
         d.held \subseteq debugger[i].held \cup Owned,
         d.watchdog \in {"drop", "ended"} => i \notin Owned,
         debugger[i].watchdog \in {"drop", "ended"} => d.watchdog = debugger[i].watchdog,
         \A r \in Requests : Makes(r)',
         Watchdog(i)'
  PROVE  IInv'
<1>1. debugger'[i] = d /\ \A j \in Instances : j # i => debugger'[j] = debugger[j]
  BY DEF IInv, TypeOK
<1>2. TypeOK'
  BY DEF IInv, TypeOK, storageVars, history
<1>3. \A j \in Instances : debugger'[j].config = debugger[j].config /\ debugger'[j].unseen = debugger[j].unseen
  BY <1>1
<1>4. Owned' = Owned /\ request' = request /\ ids' = ids /\ created' = created /\ deleted' = deleted
  BY DEF Owned, storageVars, history
<1>5. ASSUME NEW r \in Requests  PROVE About(r)' /\ Unseen(r)'
  <2>1. Owned \subseteq Instances /\ request[r] \in RequestType
    BY Types DEF IInv
  <2>2. request[r].copy.debuggerInstances \subseteq Instances /\ request[r].instance \in Instances \cup {None}
    BY <2>1 DEF RequestType, SessionType
  <2> QED
    BY <1>3, <1>4, <2>1, <2>2 DEF IInv, About, Unseen
<1>6. \A j \in Instances : Shared(j)' => Shared(j)
  BY <1>1, <1>4 DEF Shared
<1>7. Alive'
  BY <1>1, <1>4, <1>6 DEF IInv, Alive, Kept
<1>8. Numbered'
  BY <1>1, <1>4 DEF IInv, Numbered
<1>9. ASSUME NEW j \in Instances  PROVE Watchdog(j)'
  <2>1. CASE j = i
    BY <2>1
  <2>2. CASE j # i
    BY <1>1, <1>4, <2>2 DEF IInv, Watchdog, IsAt
  <2> QED
    BY <2>1, <2>2
<1>10. ExactlyTheLive'
  <2>1. i \in Owned => debugger[i].watchdog \notin {"drop", "ended"} /\ d.watchdog \notin {"drop", "ended"}
    BY DEF IInv, ExactlyTheLive
  <2>2. i \notin Owned => i \notin created \/ i \in deleted \/ debugger[i].watchdog \in {"drop", "ended"}
    BY DEF IInv, ExactlyTheLive
  <2>3. created \subseteq Instances
    BY DEF IInv, TypeOK
  <2> QED
    BY <1>1, <1>4, <2>1, <2>2, <2>3 DEF IInv, ExactlyTheLive
<1>11. ExitsAreSafe'
  BY DEF ExitsAreSafe
<1> QED
  BY <1>2, <1>5, <1>7, <1>8, <1>9, <1>10, <1>11 DEF IInv

-----------------------------------------------------------------------------
(* The steps of the handlers.                                              *)

LEMMA BeginStep ==
  ASSUME IInv, ~crashed, NEW r \in Requests, Begin(r)
  PROVE  IInv'
<1> DEFINE copy == Load(Session)
<1>1. /\ request[r].pc = "idle" /\ request[r].instance = None
      /\ UNCHANGED <<storageVars, debugger, toSave, memorized, ids, crashed, history>>
  BY DEF Begin, Unchanged, IInv, About
<1>2. PICK kind \in MayBe[r] :
        LET begun == [request[r] EXCEPT !.kind = kind, !.copy = copy]
            goes(q) == request' = [request EXCEPT ![r] = q]
        IN \/ goes([begun EXCEPT !.pc = "drop", !.answer = "error"])
           \/ /\ kind = "createInstance"
              /\ ids < MaxInstances
              /\ \E config \in Configs, allow \in BOOLEAN :
                   /\ MayCreate(copy, config, allow)
                   /\ goes([begun EXCEPT !.pc = "save", !.config = config, !.allowDuplicate = allow])
           \/ /\ kind = "deleteInstance"
              /\ \E i \in copy.debuggerInstances : goes([begun EXCEPT !.pc = "save", !.instance = i])
           \/ /\ kind = "command"
              /\ \E i \in copy.debuggerInstances : goes([begun EXCEPT !.pc = "use", !.instance = i])
           \/ /\ kind = "setActiveProject"
              /\ goes([begun EXCEPT !.pc = "save"])
  BY DEF Begin
<1>3. kind \in Kinds /\ copy \in SessionType /\ copy.debuggerInstances = Owned /\ request[r] \in RequestType
  BY DebuggerAssumption, Types DEF Load, Owned, IInv
<1>4. Owned \subseteq created /\ created \subseteq 1 .. ids /\ ids \in 0 .. MaxInstances
  BY DEF IInv, ExactlyTheLive, Numbered, TypeOK
<1> DEFINE begun == [request[r] EXCEPT !.kind = kind, !.copy = copy]
<1>5. PICK q \in RequestType :
        /\ request' = [request EXCEPT ![r] = q] /\ q.copy = copy /\ q.kind = kind
        /\ \/ q.pc = "drop" /\ q.instance = None
           \/ /\ q.pc = "save" /\ kind = "createInstance" /\ q.instance = None
              /\ MayCreate(copy, q.config, q.allowDuplicate)
           \/ q.pc = "save" /\ kind = "deleteInstance" /\ q.instance \in Owned
           \/ q.pc = "use" /\ kind = "command" /\ q.instance \in Owned
           \/ q.pc = "save" /\ kind = "setActiveProject" /\ q.instance = None
  <2>1. CASE request' = [request EXCEPT ![r] = [begun EXCEPT !.pc = "drop", !.answer = "error"]]
    <3>1. [begun EXCEPT !.pc = "drop", !.answer = "error"] \in RequestType
      BY <1>3 DEF RequestType
    <3> QED
      BY <1>1, <1>3, <2>1, <3>1 DEF RequestType
  <2>2. CASE /\ kind = "createInstance"
             /\ \E config \in Configs, allow \in BOOLEAN :
                  /\ MayCreate(copy, config, allow)
                  /\ request' = [request EXCEPT ![r] =
                                   [begun EXCEPT !.pc = "save", !.config = config, !.allowDuplicate = allow]]
    <3>1. PICK config \in Configs, allow \in BOOLEAN :
            /\ MayCreate(copy, config, allow)
            /\ request' = [request EXCEPT ![r] =
                             [begun EXCEPT !.pc = "save", !.config = config, !.allowDuplicate = allow]]
      BY <2>2
    <3> HIDE DEF copy
    <3> DEFINE made == [begun EXCEPT !.pc = "save", !.config = config, !.allowDuplicate = allow]
    <3>2. /\ made \in RequestType /\ made.copy = copy /\ made.kind = kind /\ made.pc = "save"
          /\ made.instance = None /\ made.config = config /\ made.allowDuplicate = allow
      BY <1>1, <1>3 DEF RequestType
    <3>3. request' = [request EXCEPT ![r] = made]
      BY <3>1
    <3> HIDE DEF made
    <3>4. MayCreate(copy, made.config, made.allowDuplicate)
      BY <3>1, <3>2
    <3> QED
      BY <2>2, <3>2, <3>3, <3>4
  <2>3. CASE kind = "deleteInstance" /\ \E i \in copy.debuggerInstances :
               request' = [request EXCEPT ![r] = [begun EXCEPT !.pc = "save", !.instance = i]]
    <3>1. PICK i \in Owned : request' = [request EXCEPT ![r] = [begun EXCEPT !.pc = "save", !.instance = i]]
      BY <1>3, <2>3
    <3> DEFINE found == [begun EXCEPT !.pc = "save", !.instance = i]
    <3>2. found \in RequestType
      BY <1>3, Types DEF RequestType, IInv
    <3>3. found.copy = copy /\ found.kind = kind /\ found.pc = "save" /\ found.instance = i
      BY <1>3 DEF RequestType
    <3>4. request' = [request EXCEPT ![r] = found]
      BY <3>1
    <3> HIDE DEF found
    <3> QED
      BY <2>3, <3>1, <3>2, <3>3, <3>4
  <2>4. CASE kind = "command" /\ \E i \in copy.debuggerInstances :
               request' = [request EXCEPT ![r] = [begun EXCEPT !.pc = "use", !.instance = i]]
    <3>1. PICK i \in Owned : request' = [request EXCEPT ![r] = [begun EXCEPT !.pc = "use", !.instance = i]]
      BY <1>3, <2>4
    <3> DEFINE found == [begun EXCEPT !.pc = "use", !.instance = i]
    <3>2. found \in RequestType
      BY <1>3, Types DEF RequestType, IInv
    <3>3. found.copy = copy /\ found.kind = kind /\ found.pc = "use" /\ found.instance = i
      BY <1>3 DEF RequestType
    <3>4. request' = [request EXCEPT ![r] = found]
      BY <3>1
    <3> HIDE DEF found
    <3> QED
      BY <2>4, <3>1, <3>2, <3>3, <3>4
  <2>5. CASE kind = "setActiveProject" /\ request' = [request EXCEPT ![r] = [begun EXCEPT !.pc = "save"]]
    <3>1. [begun EXCEPT !.pc = "save"] \in RequestType
      BY <1>3 DEF RequestType
    <3> QED
      BY <1>1, <1>3, <2>5, <3>1 DEF RequestType
  <2> QED
    BY <1>2, <2>1, <2>2, <2>3, <2>4, <2>5
<1> HIDE DEF copy, begun
<1>6. TypeOK'
  BY <1>1, <1>5 DEF IInv, TypeOK, storageVars, history
<1>7. request'[r] = q
  BY <1>5 DEF IInv, TypeOK
<1>8. About(r)'
  <2>1. q.instance <= ids /\ (q.instance \in Owned => q.instance # None)
    BY <1>4, <1>5, Constants
  <2>2. q.copy.debuggerInstances = Owned
    BY <1>3, <1>5
  <2> QED
    BY <1>1, <1>3, <1>5, <1>7, <2>1, <2>2 DEF About, MayCreate
<1>9. Owned' = Owned
  BY <1>1 DEF Owned, storageVars
<1> QED
  BY <1>1, <1>3, <1>5, <1>6, <1>8, <1>9, RequestGoes DEF storageVars, history

LEMMA CommandStep ==
  ASSUME IInv, ~crashed, NEW r \in Requests, Command(r)
  PROVE  IInv'
<1> DEFINE q == [request[r] EXCEPT !.pc = "drop", !.answer = "ok"]
<1>1. request[r].instance \in Instances /\ debugger[request[r].instance].object = "built"
  <2>1. request[r].instance \in request[r].copy.debuggerInstances /\ request[r] \in RequestType
    BY Types DEF Command, IInv, About
  <2>2. request[r].instance \in Instances
    BY <2>1 DEF RequestType, SessionType
  <2> QED
    BY <2>1, <2>2 DEF IInv, Alive, Kept, Shared
<1>2. /\ request[r].pc = "use" /\ request' = [request EXCEPT ![r] = q]
      /\ UNCHANGED <<storageVars, debugger, toSave, memorized, ids, history, crashed>>
  BY <1>1 DEF Command
<1>3. q \in RequestType /\ q.pc = "drop" /\ q.copy = request[r].copy /\ q.instance = request[r].instance
      /\ q.kind = request[r].kind /\ q.config = request[r].config /\ q.allowDuplicate = request[r].allowDuplicate
  BY Types DEF IInv, RequestType
<1> HIDE DEF q
<1>4. request'[r] = q
  BY <1>2 DEF IInv, TypeOK
<1>5. TypeOK'
  BY <1>2, <1>3 DEF IInv, TypeOK, storageVars, history
<1>6. About(r)' /\ Keeps(r)
  BY <1>2, <1>3, <1>4 DEF IInv, About, Keeps
<1>7. Owned' = Owned
  BY <1>2 DEF Owned, storageVars
<1> QED
  BY <1>2, <1>3, <1>5, <1>6, <1>7, RequestGoes DEF storageVars, history

LEMMA SetActiveProjectStep ==
  ASSUME IInv, ~crashed, NEW r \in Requests, SetActiveProject(r)
  PROVE  IInv'
<1> DEFINE q == [request[r] EXCEPT !.pc = "drop", !.answer = "ok"]
<1>2. /\ request[r].pc = "save" /\ request' = [request EXCEPT ![r] = q]
      /\ stored' = [stored EXCEPT ![Session]["activeProject"] = r]
      /\ UNCHANGED <<storageLock, debugger, toSave, memorized, ids, history, crashed>>
  BY DEF SetActiveProject, PartiallySave, Unchanged
<1>3. q \in RequestType /\ q.pc = "drop" /\ q.copy = request[r].copy /\ q.instance = request[r].instance
      /\ q.kind = request[r].kind /\ q.config = request[r].config /\ q.allowDuplicate = request[r].allowDuplicate
  BY Types DEF IInv, RequestType
<1> HIDE DEF q
<1>4. request'[r] = q
  BY <1>2 DEF IInv, TypeOK
<1>5. stored'[Session] = [stored[Session] EXCEPT !.activeProject = r] /\ stored[Session] \in SessionType
  BY <1>2, Constants, Types DEF IInv, TypeOK
<1>6. stored'[Session] \in SessionType /\ Owned' = Owned
  BY <1>5 DEF SessionType, Owned
<1>7. stored' \in [Sessions -> SessionType]
  BY <1>2, <1>5, <1>6, Constants DEF IInv, TypeOK
<1>8. TypeOK'
  BY <1>2, <1>3, <1>7 DEF IInv, TypeOK, history
<1>9. About(r)' /\ Keeps(r)
  BY <1>2, <1>3, <1>4 DEF IInv, About, Keeps
<1> QED
  BY <1>2, <1>3, <1>6, <1>8, <1>9, RequestGoes DEF history

(* Nobody makes a debugger while the storage is free, and one at most.     *)
LEMMA OneMakes ==
  ASSUME IInv
  PROVE  /\ Unlocked => \A r \in Requests : request[r].pc \notin {"start", "assign", "store"}
         /\ \A r, s \in Requests :
              request[r].pc \in {"start", "assign", "store"} /\ request[s].pc \in {"start", "assign", "store"} => r = s
BY Constants DEF IInv, Makes, Unlocked

LEMMA CreateStep ==
  ASSUME IInv, ~crashed, NEW r \in Requests, Create(r)
  PROVE  IInv'
<1> DEFINE i == ids + 1
<1> DEFINE q == [request[r] EXCEPT !.pc = "start", !.instance = i]
<1> DEFINE d == [debugger[i] EXCEPT !.object = "built", !.config = request[r].config,
                                    !.unseen = Owned \ request[r].copy.debuggerInstances]
<1>1. /\ request[r].pc = "save" /\ request[r].kind = "createInstance" /\ Unlocked /\ ids < MaxInstances
      /\ storageLock' = r /\ ids' = i /\ toSave' = Owned \cup {i}
      /\ UNCHANGED <<stored, memorized, crashed, created, deleted>>
  BY DEF Create, history
<1>2. /\ i \in Instances /\ i # None /\ ids \in 0 .. MaxInstances /\ i > ids
      /\ request[r] \in RequestType /\ debugger[i] \in DebuggerType /\ Owned \subseteq Instances
      /\ stored[Session] \in SessionType
  BY <1>1, Constants, Types DEF IInv, TypeOK
<1>3. request' = [request EXCEPT ![r] = q] /\ debugger' = [debugger EXCEPT ![i] = d]
  BY <1>1, <1>2 DEF Create, IInv, TypeOK
<1>4. /\ q \in RequestType /\ q.pc = "start" /\ q.instance = i /\ q.copy = request[r].copy
      /\ q.kind = "createInstance" /\ q.config = request[r].config /\ q.allowDuplicate = request[r].allowDuplicate
  BY <1>1, <1>2 DEF RequestType
<1>5. /\ d \in DebuggerType /\ d.object = "built" /\ d.config = request[r].config
      /\ d.unseen = Owned \ request[r].copy.debuggerInstances
      /\ d.watchdog = debugger[i].watchdog /\ d.held = debugger[i].held /\ d.member = debugger[i].member
      /\ d.stop = debugger[i].stop /\ d.joins = debugger[i].joins
  BY <1>2 DEF DebuggerType, RequestType
<1>6. /\ debugger[i].object = "none" /\ debugger[i].watchdog = "none"
      /\ debugger[i].member = "null" /\ debugger[i].held = {}
  BY <1>2 DEF IInv, Numbered
<1> HIDE DEF i, q, d
<1>7. request'[r] = q /\ \A s \in Requests : s # r => request'[s] = request[s]
  BY <1>3 DEF IInv, TypeOK
<1>8. debugger'[i] = d /\ \A j \in Instances : j # i => debugger'[j] = debugger[j]
  BY <1>2, <1>3 DEF IInv, TypeOK
<1>9. Owned' = Owned
  BY <1>1 DEF Owned
<1>10. TypeOK'
  <2>1. i \in 0 .. MaxInstances
    BY <1>1, <1>2, Constants DEF i
  <2>2. toSave' \subseteq Instances
    BY <1>1, <1>2
  <2> QED
    BY <1>1, <1>3, <1>4, <1>5, <2>1, <2>2 DEF IInv, TypeOK
<1>11. i \notin created /\ i \notin deleted /\ i \notin Owned
  <2>1. i \notin created
    BY <1>2 DEF IInv, Numbered, i
  <2> QED
    BY <2>1 DEF IInv, Numbered, ExactlyTheLive
<1>12. \A s \in Requests :
         request[s].instance \in Instances \cup {None} /\ request[s].copy.debuggerInstances \subseteq Instances
  BY Types DEF IInv, RequestType, SessionType
<1>13. ASSUME NEW s \in Requests, s # r  PROVE About(s)' /\ Makes(s)' /\ Unseen(s)'
  <2>1. About(s) /\ Unseen(s) /\ request'[s] = request[s] /\ request[s].pc \notin {"start", "assign", "store"}
    BY <1>1, <1>7, <1>13, OneMakes DEF IInv
  <2>2. request[s].instance <= ids /\ ids \in Nat /\ i = ids + 1
    BY <1>2, <2>1 DEF About, i
  <2>3. \A j \in Owned \cup request[s].copy.debuggerInstances : j # i /\ j \in Instances
    <3>1. \A j \in Instances : Shared(j) => j \in created
      BY DEF IInv, Alive
    <3> QED
      BY <1>2, <1>11, <1>12, <3>1 DEF Shared
  <2>4. request[s].instance # i /\ request[s].instance <= ids'
    <3>1. request[s].instance \in Nat /\ ids' = i
      BY <1>1, <1>12, Constants
    <3> QED
      BY <2>2, <3>1
  <2>5. About(s)'
    <3>1. \A j \in request[s].copy.debuggerInstances : debugger'[j].config = debugger[j].config
      BY <1>8, <2>3
    <3> QED
      BY <2>1, <2>4, <3>1 DEF About
  <2>6. Makes(s)'
    BY <2>1 DEF Makes
  <2>7. Unseen(s)'
    <3>1. \A j \in Owned : debugger'[j] = debugger[j]
      BY <1>8, <2>3
    <3>2. request[s].instance # None => debugger'[request[s].instance] = debugger[request[s].instance]
      BY <1>8, <1>12, <2>4
    <3> QED
      BY <1>9, <2>1, <3>1, <3>2 DEF Unseen
  <2> QED
    BY <2>5, <2>6, <2>7
<1>14. About(r)' /\ Makes(r)'
  <2>1. request'[r].pc = "start" /\ request'[r].instance = i /\ ids' = i
    BY <1>1, <1>4, <1>7
  <2>2. /\ debugger'[i].object = "built" /\ debugger'[i].held = {}
        /\ debugger'[i].watchdog = "none" /\ debugger'[i].member = "null"
    BY <1>5, <1>6, <1>8
  <2>3. i <= ids'
    BY <1>2, <2>1, Constants
  <2>4. About(r)'
    BY <2>1, <2>3 DEF About
  <2>5. Makes(r)'
    BY <1>1, <1>2, <1>9, <1>11, <2>1, <2>2 DEF Makes
  <2> QED
    BY <2>4, <2>5
<1>15. Unseen(r)'
  <2>1. \A j \in Owned : j # i /\ debugger'[j] = debugger[j]
    BY <1>2, <1>8, <1>11
  <2>2. request[r].allowDuplicate \/ \A j \in request[r].copy.debuggerInstances : debugger[j].config # request[r].config
    BY <1>1 DEF IInv, About
  <2>3. request'[r].instance = i /\ debugger'[i] = d
    BY <1>4, <1>7, <1>8
  <2> QED
    BY <1>4, <1>5, <1>7, <1>9, <2>1, <2>2, <2>3 DEF Unseen
<1>16. Alive'
  <2>1. \A j \in Instances : Shared(j)' => Shared(j)
    BY <1>1, <1>4, <1>5, <1>7, <1>8, <1>9 DEF Shared
  <2>2. ASSUME NEW j \in Instances, Kept(j)'  PROVE debugger'[j].object = "built"
    <3>1. CASE j = i
      BY <1>5, <1>8, <3>1
    <3>2. CASE j # i
      <4>1. Kept(j)
        BY <1>1, <2>1, <2>2, <3>2 DEF Kept, Shared
      <4> QED
        BY <1>8, <3>2, <4>1 DEF IInv, Alive
    <3> QED
      BY <3>1, <3>2
  <2> QED
    BY <1>1, <2>1, <2>2 DEF IInv, Alive
<1>17. Numbered'
  <2>1. \A j \in Instances : j > i => j > ids /\ j # i
    BY <1>2, Constants DEF i
  <2>2. created \subseteq 1 .. i
    BY <1>2 DEF IInv, Numbered, i
  <2> QED
    BY <1>1, <1>8, <2>1, <2>2 DEF IInv, Numbered
<1>18. ASSUME NEW j \in Instances  PROVE Watchdog(j)'
  <2>1. CASE j = i
    BY <1>5, <1>6, <1>8, <2>1 DEF IInv, Watchdog
  <2>2. CASE j # i
    <3>1. \A s \in Requests : ~IsAt(s, "assign", j) /\ ~IsAt(s, "store", j)
      BY <1>1, OneMakes DEF IsAt
    <3> QED
      BY <1>1, <1>8, <2>2, <3>1 DEF IInv, Watchdog
  <2> QED
    BY <2>1, <2>2
<1>19. ExactlyTheLive'
  <2>1. \A j \in created : debugger'[j] = debugger[j]
    BY <1>8, <1>11 DEF IInv, TypeOK
  <2> QED
    BY <1>1, <1>9, <2>1 DEF IInv, ExactlyTheLive
<1>20. ExitsAreSafe'
  BY <1>1 DEF ExitsAreSafe
<1> QED
  BY <1>10, <1>13, <1>14, <1>15, <1>16, <1>17, <1>18, <1>19, <1>20 DEF IInv

(* r goes on to the program counter to, making debugger i, which nobody    *)
(* else can see.                                                           *)
Making(r, to, i, d) ==
  /\ request[r].instance = i /\ request[r].pc \in {"start", "assign"}
  /\ request' = [request EXCEPT ![r].pc = to] /\ debugger' = [debugger EXCEPT ![i] = d]
  /\ UNCHANGED <<storageVars, toSave, memorized, ids, crashed, history>>
  /\ d \in DebuggerType /\ d.watchdog \in {"poll", "detach"}
  /\ d.object = debugger[i].object /\ d.config = debugger[i].config /\ d.unseen = debugger[i].unseen
  /\ d.held = debugger[i].held /\ d.stop = debugger[i].stop /\ d.joins = debugger[i].joins
  /\ to = "store" => d.member # "null"
  /\ to = "assign" => d.member = "null"
  /\ d.watchdog = "detach" => d.process = "exited"

LEMMA MakingGoes ==
  ASSUME IInv, ~crashed, NEW r \in Requests, NEW to \in {"assign", "store"}, NEW i, NEW d, Making(r, to, i, d)
  PROVE  IInv'
<1>0. /\ request[r].instance = i /\ request[r].pc \in {"start", "assign"}
      /\ request' = [request EXCEPT ![r].pc = to] /\ debugger' = [debugger EXCEPT ![i] = d]
      /\ UNCHANGED <<storageVars, toSave, memorized, ids, crashed, history>>
      /\ d \in DebuggerType /\ d.watchdog \in {"poll", "detach"}
      /\ d.object = debugger[i].object /\ d.config = debugger[i].config /\ d.unseen = debugger[i].unseen
      /\ d.held = debugger[i].held
      /\ to = "store" => d.member # "null"
      /\ to = "assign" => d.member = "null"
      /\ d.watchdog = "detach" => d.process = "exited"
  BY DEF Making
<1>1. /\ i = ids /\ i \in Instances /\ i \notin created /\ Makes(r) /\ i \in toSave
      /\ debugger[i].object = "built" /\ debugger[i].held = {}
  BY <1>0 DEF IInv, Makes
<1>2. debugger'[i] = d /\ \A j \in Instances : j # i => debugger'[j] = debugger[j]
  BY <1>0, <1>1 DEF IInv, TypeOK
<1>3. /\ \A s \in Requests : s # r => request'[s] = request[s]
      /\ request'[r] = [request[r] EXCEPT !.pc = to]
  BY <1>0 DEF IInv, TypeOK
<1>4. /\ request'[r] \in RequestType /\ request'[r].pc = to /\ Keeps(r) /\ request'[r].copy = request[r].copy
  BY <1>0, <1>3, Types DEF IInv, RequestType, Keeps
<1>5. Owned' = Owned
  BY <1>0 DEF Owned, storageVars
<1>6. TypeOK'
  <2>1. request' \in [Requests -> RequestType]
    BY <1>0, <1>3, <1>4 DEF IInv, TypeOK
  <2> QED
    BY <1>0, <2>1 DEF IInv, TypeOK, storageVars, history
<1>7. \A j \in Instances : /\ debugger'[j].config = debugger[j].config /\ debugger'[j].unseen = debugger[j].unseen
                          /\ debugger'[j].held = debugger[j].held /\ debugger'[j].object = debugger[j].object
  BY <1>0, <1>2
<1>8. \A s \in Requests : Keeps(s) /\ request'[s].copy = request[s].copy
  BY <1>0, <1>3, <1>4 DEF Keeps
<1>9. ASSUME NEW s \in Requests  PROVE About(s)' /\ Unseen(s)'
  <2>1. Owned \subseteq Instances /\ request[s] \in RequestType
    BY <1>0, Types DEF IInv
  <2>2. request[s].copy.debuggerInstances \subseteq Instances /\ request[s].instance \in Instances \cup {None}
    BY <1>0, <2>1 DEF RequestType, SessionType
  <2>3. Unseen(s)'
    BY <1>0, <1>5, <1>7, <1>8, <2>1, <2>2 DEF IInv, Unseen, Keeps
  <2>4. About(s)'
    <3>1. CASE s = r
      BY <1>0, <1>4, <1>8, <3>1 DEF IInv, About, Keeps
    <3>2. CASE s # r
      BY <1>0, <1>3, <1>7, <2>2, <3>2 DEF IInv, About
    <3> QED
      BY <1>0, <3>1, <3>2
  <2> QED
    BY <1>0, <2>3, <2>4
<1>10. ASSUME NEW s \in Requests  PROVE Makes(s)'
  <2>1. CASE s = r
    BY <1>0, <1>1, <1>2, <1>4, <1>5, <2>1 DEF Makes, Keeps, storageVars, history
  <2>2. CASE s # r
    BY <1>0, <1>3, <2>2, OneMakes DEF Makes
  <2> QED
    BY <1>0, <2>1, <2>2
<1>11. \A j \in Instances : Shared(j)' => Shared(j)
  BY <1>0, <1>5, <1>7, <1>8 DEF Shared
<1>12. Alive'
  BY <1>0, <1>7, <1>11 DEF IInv, Alive, Kept, history
<1>13. Numbered'
  <2>1. ids \in Nat
    BY <1>0, Constants DEF IInv, TypeOK
  <2>2. \A j \in Instances : j > ids => debugger'[j] = debugger[j]
    BY <1>0, <1>1, <1>2, <2>1
  <2> QED
    BY <1>0, <2>2 DEF IInv, Numbered, history
<1>14. ASSUME NEW j \in Instances  PROVE Watchdog(j)'
  <2>1. CASE j = i
    <3>1. IsAt(r, to, i)'
      BY <1>0, <1>4 DEF IsAt, Keeps
    <3>2. ~d.stop /\ ~d.joins
      BY <1>1 DEF IInv, Watchdog, Making
    <3> QED
      BY <1>0, <1>1, <1>2, <2>1, <3>1, <3>2 DEF Watchdog
  <2>2. CASE j # i
    <3>1. \A s \in Requests : ~IsAt(s, "assign", j) /\ ~IsAt(s, "store", j)
      BY <1>0, <2>2, OneMakes DEF IsAt
    <3> QED
      BY <1>0, <1>2, <2>2, <3>1 DEF IInv, Watchdog, history
  <2> QED
    BY <1>0, <2>1, <2>2
<1>15. ExactlyTheLive'
  <2>1. \A j \in created : debugger'[j] = debugger[j]
    BY <1>0, <1>1, <1>2 DEF IInv, TypeOK
  <2> QED
    BY <1>0, <1>5, <2>1 DEF IInv, ExactlyTheLive, history
<1>16. ExitsAreSafe'
  BY <1>0 DEF ExitsAreSafe
<1> QED
  BY <1>0, <1>6, <1>9, <1>10, <1>12, <1>13, <1>14, <1>15, <1>16 DEF IInv

LEMMA AssignStep ==
  ASSUME IInv, ~crashed, NEW r \in Requests, Assign(r)
  PROVE  IInv'
<1>1. PICK i \in Instances : request[r].instance = i
  BY DEF IInv, Makes, Assign
<1> DEFINE d == [debugger[i] EXCEPT !.member = "thread"]
<1>2. /\ request[r].pc = "assign" /\ debugger[i].watchdog \in {"poll", "detach"} /\ debugger[i] \in DebuggerType
      /\ debugger[i].watchdog = "detach" => debugger[i].process = "exited"
  BY <1>1, Types DEF Assign, IInv, Makes, Watchdog
<1>3. /\ d \in DebuggerType /\ d.member = "thread"
      /\ d.object = debugger[i].object /\ d.config = debugger[i].config /\ d.unseen = debugger[i].unseen
      /\ d.held = debugger[i].held /\ d.stop = debugger[i].stop /\ d.joins = debugger[i].joins
      /\ d.watchdog = debugger[i].watchdog /\ d.process = debugger[i].process
  BY <1>2 DEF DebuggerType
<1>4. /\ request' = [request EXCEPT ![r].pc = "store"]
      /\ debugger' = [debugger EXCEPT ![i] = d]
      /\ UNCHANGED <<storageVars, toSave, memorized, ids, crashed, history>>
  BY <1>1 DEF Assign, Unchanged
<1> HIDE DEF d
<1>5. Making(r, "store", i, d)
  BY <1>1, <1>2, <1>3, <1>4 DEF Making
<1> QED
  BY <1>5, MakingGoes

LEMMA StartStep ==
  ASSUME IInv, ~crashed, NEW r \in Requests, Start(r)
  PROVE  IInv'
<1>0. request[r].pc = "start" /\ Makes(r)
  BY DEF Start, IInv
<1>1. PICK i \in Instances : request[r].instance = i
  BY <1>0 DEF Makes
<1>2. /\ request[r].pc = "start" /\ debugger[i] \in DebuggerType /\ i = ids /\ storageLock = r
      /\ request[r] \in RequestType
  BY <1>0, <1>1, Types DEF IInv, Makes
<1>3. UNCHANGED <<stored, memorized, ids, crashed, history>>
  BY DEF Start
<1>4. CASE /\ request' = [request EXCEPT ![r].pc = "assign"]
           /\ debugger' = [debugger EXCEPT ![request[r].instance].process = "running",
                                           ![request[r].instance].watchdog = "poll"]
           /\ UNCHANGED <<storageLock, toSave>>
  <2> DEFINE d == [debugger[i] EXCEPT !.process = "running", !.watchdog = "poll"]
  <2>1. /\ d.watchdog = "poll" /\ d.member = debugger[i].member
        /\ d.object = debugger[i].object /\ d.config = debugger[i].config /\ d.unseen = debugger[i].unseen
        /\ d.held = debugger[i].held
    BY <1>2 DEF DebuggerType
  <2>2. d \in DebuggerType
    <3> DEFINE runs == [debugger[i] EXCEPT !.process = "running"]
    <3>1. runs \in DebuggerType
      BY <1>2 DEF DebuggerType
    <3>2. d = [runs EXCEPT !.watchdog = "poll"]
      BY <1>2 DEF DebuggerType
    <3> HIDE DEF runs, d
    <3> QED
      BY <3>1, <3>2 DEF DebuggerType
  <2>3. d.stop = debugger[i].stop /\ d.joins = debugger[i].joins
    BY <1>2 DEF DebuggerType
  <2>4. debugger' = [debugger EXCEPT ![i] = d]
    BY <1>1, <1>4 DEF IInv, TypeOK
  <2> HIDE DEF d
  <2>5. UNCHANGED <<storageVars, toSave, memorized, ids, crashed, history>>
    BY <1>3, <1>4 DEF storageVars
  <2>6. debugger[i].member = "null"
    BY <1>0, <1>1, <1>2 DEF Makes
  <2>7. Making(r, "assign", i, d)
    BY <1>1, <1>2, <1>4, <2>1, <2>4, <2>5, <2>6, <2>3, <2>2 DEF Making
  <2> QED
    BY <2>7, MakingGoes
<1>5. CASE /\ request' = [request EXCEPT ![r].pc = "drop", ![r].answer = "error"]
           /\ toSave' = {}
           /\ storageLock' = None
           /\ debugger' = Dropped(debugger)
  <2> DEFINE q == [request[r] EXCEPT !.pc = "drop", !.answer = "error"]
  <2>1. /\ q \in RequestType /\ q.pc = "drop" /\ q.copy = request[r].copy /\ q.instance = request[r].instance
        /\ q.kind = request[r].kind /\ q.config = request[r].config /\ q.allowDuplicate = request[r].allowDuplicate
    BY <1>2 DEF RequestType
  <2>2. request' = [request EXCEPT ![r] = q]
    BY <1>5 DEF IInv, TypeOK
  <2> HIDE DEF q
  <2>3. request'[r] = q /\ \A s \in Requests : s # r => request'[s] = request[s]
    BY <2>2 DEF IInv, TypeOK
  <2>4. request' \in [Requests -> RequestType]
    BY <2>1, <2>2 DEF IInv, TypeOK
  <2>5. \A s \in Requests : request'[s].pc \notin {"start", "assign", "store"}
    BY <1>2, <2>1, <2>3, OneMakes
  <2>6. \A s \in Requests :
          \/ request'[s] = request[s]
          \/ Keeps(s) /\ request[s].pc # "idle" /\ request'[s].pc \in {"drop", "done"}
             /\ request[s].pc \in {"start", "drop"}
    BY <1>2, <2>1, <2>3 DEF Keeps
  <2>7. Owned' = Owned
    BY <1>3 DEF Owned
  <2>8. \A s \in Requests : request'[s].copy = request[s].copy
    BY <2>1, <2>3
  <2> QED
    BY <1>3, <1>5, <2>4, <2>5, <2>6, <2>7, <2>8, DropsGo, Constants DEF storageVars, history
<1> QED
  BY <1>3, <1>4, <1>5 DEF Start

(* What is put into the stored session.                                    *)
LEMMA StoredIs ==
  ASSUME TypeOK, NEW left, left \subseteq Instances,
         stored' = [stored EXCEPT ![Session].debuggerInstances = left]
  PROVE  Owned' = left /\ stored' \in [Sessions -> SessionType]
<1>1. stored[Session] \in SessionType /\ Session \in Sessions /\ stored \in [Sessions -> SessionType]
  BY Types, Constants DEF TypeOK
<1>2. stored' = [stored EXCEPT ![Session] = [stored[Session] EXCEPT !.debuggerInstances = left]]
  BY <1>1
<1>3. /\ [stored[Session] EXCEPT !.debuggerInstances = left] \in SessionType
      /\ [stored[Session] EXCEPT !.debuggerInstances = left].debuggerInstances = left
  BY <1>1 DEF SessionType
<1> QED
  BY <1>1, <1>2, <1>3 DEF Owned

LEMMA StoreStep ==
  ASSUME IInv, ~crashed, NEW r \in Requests, Store(r)
  PROVE  IInv'
<1> DEFINE q == [request[r] EXCEPT !.pc = "drop", !.answer = "ok"]
<1>1. request[r].pc = "store" /\ Makes(r) /\ request[r] \in RequestType
  BY Types DEF Store, IInv
<1>2. PICK i \in Instances : i = ids /\ i = request[r].instance
  BY <1>1 DEF Makes
<1>3. /\ toSave = Owned \cup {i} /\ i \notin created
      /\ debugger[i].object = "built" /\ debugger[i].held = {} /\ debugger[i].watchdog \in {"poll", "detach", "load"}
  BY <1>1, <1>2 DEF Makes
<1>4. /\ stored' = [stored EXCEPT ![Session].debuggerInstances = toSave]
      /\ toSave' = {} /\ storageLock' = None /\ created' = created \cup {i}
      /\ UNCHANGED <<debugger, memorized, ids, crashed, deleted>>
      /\ request' = [request EXCEPT ![r] = q]
  BY <1>2 DEF Store, IInv, TypeOK
<1>5. /\ q \in RequestType /\ q.pc = "drop" /\ q.copy = request[r].copy /\ q.instance = request[r].instance
      /\ q.kind = request[r].kind /\ q.config = request[r].config /\ q.allowDuplicate = request[r].allowDuplicate
  BY <1>1 DEF RequestType
<1> HIDE DEF q
<1>6. request'[r] = q /\ \A s \in Requests : s # r => request'[s] = request[s]
  BY <1>4 DEF IInv, TypeOK
<1>7. /\ Owned' = Owned \cup {i} /\ stored' \in [Sessions -> SessionType]
      /\ Owned \subseteq Instances /\ created \subseteq Instances
  <2>1. toSave \in SUBSET Instances /\ created \subseteq Instances
    BY DEF IInv, TypeOK
  <2> QED
    BY <1>3, <1>4, <2>1, StoredIs, Types DEF IInv
<1>8. TypeOK'
  BY <1>4, <1>5, <1>7 DEF IInv, TypeOK
<1>9. ASSUME NEW s \in Requests  PROVE About(s)' /\ Makes(s)' /\ Unseen(s)'
  <2>1. Keeps(s) /\ (request'[s] = request[s] \/ request'[s].pc = "drop") /\ About(s) /\ Unseen(s)
    BY <1>5, <1>6 DEF Keeps, IInv
  <2>2. request'[s].pc \notin {"start", "assign", "store"}
    BY <1>1, <1>5, <1>6, OneMakes
  <2>3. request[s].instance \in Instances \cup {None} /\ ids \in Nat /\ i \in Nat /\ request[s].instance \in Nat
    BY <1>2, Types, Constants DEF IInv, RequestType
  <2>4. request[s].instance <= ids
    BY <2>1 DEF About
  <2>5. ~(i < request[s].instance)
    BY <1>2, <2>3, <2>4
  <2>6. About(s)'
    BY <1>4, <2>1 DEF About, Keeps
  <2>7. Unseen(s)'
    BY <1>4, <1>7, <2>1, <2>5 DEF Unseen, Keeps
  <2> QED
    BY <2>2, <2>6, <2>7 DEF Makes
<1>10. \A j \in Instances : Shared(j)' => Shared(j) \/ j = i
  BY <1>4, <1>5, <1>6, <1>7 DEF Shared
<1>11. Alive'
  BY <1>3, <1>4, <1>10 DEF IInv, Alive, Kept
<1>12. Numbered'
  <2>0. i \in Nat /\ 1 <= i
    BY Constants
  <2>1. i \in 1 .. i
    BY <2>0
  <2>2. ids' = ids
    BY <1>4
  <2>3. created' \subseteq 1 .. ids
    BY <1>2, <1>4, <2>1 DEF IInv, Numbered
  <2> QED
    BY <1>4, <2>2, <2>3 DEF IInv, Numbered
<1>13. ASSUME NEW j \in Instances  PROVE Watchdog(j)'
  <2>1. \A s \in Requests : ~IsAt(s, "assign", j) /\ (IsAt(s, "store", j) => s = r /\ j = i)
    BY <1>1, <1>2, OneMakes DEF IsAt
  <2>2. CASE j = i
    <3>1. Watchdog(i) /\ i \in created' /\ debugger'[i] = debugger[i]
      BY <1>4 DEF IInv
    <3>2. debugger[i].member # "null"
      BY <1>3, <2>1, <2>2, <3>1 DEF Watchdog
    <3> QED
      BY <2>2, <3>1, <3>2 DEF Watchdog
  <2>3. CASE j # i
    BY <1>4, <2>1, <2>3 DEF IInv, Watchdog
  <2> QED
    BY <2>2, <2>3
<1>14. ExactlyTheLive'
  <2>1. i \notin deleted
    BY <1>3 DEF IInv, Numbered
  <2> QED
    BY <1>3, <1>4, <1>7, <2>1 DEF IInv, ExactlyTheLive
<1>15. ExitsAreSafe'
  BY <1>4 DEF ExitsAreSafe
<1> QED
  BY <1>8, <1>9, <1>11, <1>12, <1>13, <1>14, <1>15 DEF IInv

LEMMA DeleteStep ==
  ASSUME IInv, ~crashed, NEW r \in Requests, Delete(r)
  PROVE  IInv'
<1> DEFINE q == [request[r] EXCEPT !.pc = "drop"]
<1>1. request[r].pc = "save" /\ request[r].kind = "deleteInstance" /\ Unlocked /\ request[r] \in RequestType
  BY Types DEF Delete, Erase, PartiallySave, IInv
<1>2. PICK i : i = request[r].instance /\ i \in request[r].copy.debuggerInstances
  BY <1>1 DEF IInv, About
<1>3. i \in Instances /\ i \in created
  <2>1. i \in Instances
    BY <1>1, <1>2 DEF RequestType, SessionType
  <2> QED
    BY <1>2, <2>1 DEF IInv, Alive, Shared
<1>4. /\ stored' = [stored EXCEPT ![Session].debuggerInstances = Owned \ {i}]
      /\ UNCHANGED <<storageLock, debugger, toSave, memorized, ids, crashed, created>>
      /\ deleted' = deleted \cup {i} /\ request' = [request EXCEPT ![r] = q]
  BY <1>2 DEF Delete, Erase, PartiallySave, IInv, TypeOK
<1>5. /\ q \in RequestType /\ q.pc = "drop" /\ q.copy = request[r].copy /\ q.instance = request[r].instance
      /\ q.kind = request[r].kind /\ q.config = request[r].config /\ q.allowDuplicate = request[r].allowDuplicate
  BY <1>1 DEF RequestType
<1> HIDE DEF q
<1>6. request'[r] = q /\ \A s \in Requests : s # r => request'[s] = request[s]
  BY <1>4 DEF IInv, TypeOK
<1>7. Owned' = Owned \ {i} /\ stored' \in [Sessions -> SessionType] /\ Owned \subseteq Instances
  <2>1. Owned \subseteq Instances /\ TypeOK
    BY Types DEF IInv
  <2> QED
    BY <1>4, <2>1, StoredIs
<1>8. TypeOK'
  BY <1>3, <1>4, <1>5, <1>7 DEF IInv, TypeOK
<1>9. ASSUME NEW s \in Requests  PROVE About(s)' /\ Makes(s)' /\ Unseen(s)'
  <2>1. Keeps(s) /\ (request'[s] = request[s] \/ request'[s].pc = "drop") /\ About(s) /\ Unseen(s)
    BY <1>5, <1>6 DEF Keeps, IInv
  <2>2. request'[s].pc \notin {"start", "assign", "store"}
    BY <1>1, <1>5, <1>6, OneMakes
  <2>3. About(s)'
    BY <1>4, <2>1 DEF About, Keeps
  <2>4. Unseen(s)'
    BY <1>4, <1>7, <2>1 DEF Unseen, Keeps
  <2> QED
    BY <2>2, <2>3, <2>4 DEF Makes
<1>10. \A j \in Instances : Shared(j)' => Shared(j)
  BY <1>4, <1>5, <1>6, <1>7 DEF Shared
<1>11. Alive'
  BY <1>4, <1>10 DEF IInv, Alive, Kept
<1>12. Numbered'
  BY <1>3, <1>4 DEF IInv, Numbered
<1>13. ASSUME NEW j \in Instances  PROVE Watchdog(j)'
  <2>1. \A s \in Requests : ~IsAt(s, "assign", j) /\ ~IsAt(s, "store", j)
    BY <1>1, OneMakes DEF IsAt
  <2> QED
    BY <1>4, <2>1 DEF IInv, Watchdog
<1>14. ExactlyTheLive'
  BY <1>4, <1>7 DEF IInv, ExactlyTheLive
<1>15. ExitsAreSafe'
  BY <1>4 DEF ExitsAreSafe
<1> QED
  BY <1>8, <1>9, <1>11, <1>12, <1>13, <1>14, <1>15 DEF IInv

LEMMA ReturnStep ==
  ASSUME IInv, ~crashed, NEW r \in Requests, Return(r)
  PROVE  IInv'
<1> DEFINE q == [request[r] EXCEPT !.pc = "done", !.copy = EmptySession]
<1>1. request[r].pc = "drop" /\ request[r] \in RequestType
  BY Types DEF Return, IInv
<1>2. EmptySession \in SessionType /\ EmptySession.debuggerInstances = {}
  BY DEF EmptySession, SessionType
<1>3. /\ q \in RequestType /\ q.pc = "done" /\ q.copy = EmptySession /\ q.instance = request[r].instance
      /\ q.kind = request[r].kind /\ q.config = request[r].config /\ q.allowDuplicate = request[r].allowDuplicate
  BY <1>1, <1>2 DEF RequestType
<1>4. /\ request' = [request EXCEPT ![r] = q] /\ debugger' = Dropped(debugger)
      /\ UNCHANGED <<stored, storageLock, toSave, memorized, ids, crashed, created, deleted>>
  BY DEF Return, IInv, TypeOK, storageVars, Unchanged, history
<1> HIDE DEF q
<1>5. request'[r] = q /\ (\A s \in Requests : s # r => request'[s] = request[s])
      /\ request' \in [Requests -> RequestType]
  BY <1>3, <1>4 DEF IInv, TypeOK
<1>6. \A s \in Requests :
        /\ \/ request'[s] = request[s]
           \/ Keeps(s) /\ request[s].pc # "idle" /\ request'[s].pc \in {"drop", "done"}
              /\ request[s].pc \in {"start", "drop"}
        /\ request'[s].copy.debuggerInstances \subseteq request[s].copy.debuggerInstances
  BY <1>1, <1>2, <1>3, <1>5 DEF Keeps
<1>7. storageLock' \in Requests \cup {None}
  BY <1>4 DEF IInv, TypeOK
<1> QED
  BY <1>4, <1>5, <1>6, <1>7, DropsGo

LEMMA MemorizeStep ==
  ASSUME IInv, ~crashed, Memorize
  PROVE  IInv'
<1>1. /\ request' = request /\ debugger' = Dropped(debugger) /\ memorized' = Owned
      /\ UNCHANGED <<stored, storageLock, toSave, ids, crashed, created, deleted>>
  BY DEF Memorize, storageVars, history
<1>2. request' \in [Requests -> RequestType] /\ storageLock' \in Requests \cup {None}
  BY <1>1 DEF IInv, TypeOK
<1> QED
  BY <1>1, <1>2, DropsGo
-----------------------------------------------------------------------------
(* The steps of the threads and processes.                                 *)

(* A debugger that is still being made is built and its thread not told to *)
(* stop, so a step of another one, or one that the making allows, is fine. *)
LEMMA MakesGoes ==
  ASSUME IInv, NEW i \in Instances, NEW d \in DebuggerType, debugger' = [debugger EXCEPT ![i] = d],
         UNCHANGED <<storageVars, request, toSave, ids, history>>,
         \/ debugger[i].object # "built"
         \/ \A r \in Requests : request[r].pc \notin {"start", "assign", "store"}
         \/ /\ d.object = debugger[i].object /\ d.held = debugger[i].held
            /\ \/ d.watchdog = debugger[i].watchdog /\ d.member = debugger[i].member
               \/ debugger[i].watchdog = "poll" /\ d.watchdog = "detach" /\ d.member = debugger[i].member
               \/ debugger[i].member # "null" /\ debugger[i].watchdog = "detach" /\ d.watchdog = "load"
  PROVE  \A r \in Requests : Makes(r)'
<1> TAKE r \in Requests
<1> SUFFICES ASSUME request[r].pc \in {"start", "assign", "store"}
             PROVE  Makes(r)'
  BY DEF Makes
<1>1. Makes(r) /\ Owned' = Owned /\ request'[r] = request[r] /\ ids' = ids /\ ids \in Instances
  BY DEF IInv, Makes, Owned, storageVars
<1>2. debugger'[i] = d /\ \A j \in Instances : j # i => debugger'[j] = debugger[j]
  BY DEF IInv, TypeOK
<1>3. CASE i # ids
  BY <1>1, <1>2, <1>3 DEF Makes, storageVars, history
<1>4. CASE i = ids
  <2>1. /\ debugger[ids].object = "built" /\ d.object = "built" /\ d.held = {} /\ debugger'[ids] = d
        /\ \/ d.watchdog = debugger[ids].watchdog /\ d.member = debugger[ids].member
           \/ debugger[ids].watchdog = "poll" /\ d.watchdog = "detach" /\ d.member = debugger[ids].member
           \/ debugger[ids].member # "null" /\ debugger[ids].watchdog = "detach" /\ d.watchdog = "load"
    BY <1>1, <1>2, <1>4 DEF Makes
  <2>2. /\ request[r].pc \in {"start", "assign"} => d.member = "null"
        /\ request[r].pc = "start" => d.watchdog = "none"
        /\ request[r].pc = "assign" => d.watchdog \in {"poll", "detach"}
        /\ request[r].pc = "store" => d.watchdog \in {"poll", "detach", "load"}
    BY <1>1, <2>1 DEF Makes
  <2>3. storageLock' = r /\ request[r].instance = ids /\ toSave' = Owned \cup {ids} /\ ids \notin created'
    BY <1>1 DEF Makes, storageVars, history
  <2> QED
    BY <1>1, <2>1, <2>2, <2>3 DEF Makes
<1> QED
  BY <1>3, <1>4

LEMMA StopStep ==
  ASSUME IInv, ~crashed, NEW i \in Instances, Stop(i)
  PROVE  IInv'
<1> DEFINE d == [debugger[i] EXCEPT !.object = "gone", !.process = IF @ = "running" THEN "stopped" ELSE @]
<1>1. /\ debugger[i].object = "stopping" /\ debugger[i] \in DebuggerType /\ debugger' = [debugger EXCEPT ![i] = d]
      /\ UNCHANGED <<storageVars, request, toSave, memorized, ids, crashed, history>>
  BY Types DEF Stop, IInv, TypeOK
<1>2. /\ d \in DebuggerType /\ d.object = "gone" /\ d.config = debugger[i].config /\ d.unseen = debugger[i].unseen
      /\ d.watchdog = debugger[i].watchdog /\ d.held = debugger[i].held /\ d.member = debugger[i].member
      /\ (debugger[i].process = "exited" => d.process = "exited")
  BY <1>1 DEF DebuggerType
<1> HIDE DEF d
<1>3. debugger'[i] = d /\ created' = created /\ request' = request /\ crashed' = FALSE
  BY <1>1 DEF IInv, TypeOK, history
<1>4. Watchdog(i)'
  BY <1>1, <1>2, <1>3 DEF IInv, Watchdog, IsAt
<1>5. \A r \in Requests : Makes(r)'
  BY <1>1, <1>2, MakesGoes
<1>6. d.watchdog \in {"drop", "ended"} => i \notin Owned
  BY <1>2 DEF IInv, ExactlyTheLive
<1> QED
  BY <1>1, <1>2, <1>3, <1>4, <1>5, <1>6, InstanceGoes

LEMMA ProcessExitsStep ==
  ASSUME IInv, ~crashed, NEW i \in Instances, ProcessExits(i)
  PROVE  IInv'
<1> DEFINE d == [debugger[i] EXCEPT !.process = "exited"]
<1>1. /\ debugger[i] \in DebuggerType /\ debugger' = [debugger EXCEPT ![i] = d]
      /\ UNCHANGED <<storageVars, request, toSave, memorized, ids, crashed, history>>
  BY Types DEF ProcessExits, IInv, TypeOK, Unchanged
<1>2. /\ d \in DebuggerType /\ d.object = debugger[i].object /\ d.config = debugger[i].config
      /\ d.unseen = debugger[i].unseen /\ d.watchdog = debugger[i].watchdog /\ d.held = debugger[i].held
      /\ d.member = debugger[i].member /\ d.process = "exited"
  BY <1>1 DEF DebuggerType
<1>3. d.stop = debugger[i].stop /\ d.joins = debugger[i].joins
  BY <1>1 DEF DebuggerType
<1> HIDE DEF d
<1>4. debugger'[i] = d /\ created' = created /\ request' = request /\ crashed' = FALSE
  BY <1>1 DEF IInv, TypeOK, history
<1>5. Watchdog(i)'
  BY <1>1, <1>2, <1>3, <1>4 DEF IInv, Watchdog, IsAt
<1>6. \A r \in Requests : Makes(r)'
  BY <1>1, <1>2, MakesGoes
<1>7. d.watchdog \in {"drop", "ended"} => i \notin Owned
  BY <1>2 DEF IInv, ExactlyTheLive
<1> QED
  BY <1>1, <1>2, <1>4, <1>5, <1>6, <1>7, InstanceGoes

LEMMA EndsLoopStep ==
  ASSUME IInv, ~crashed, NEW i \in Instances, EndsLoop(i)
  PROVE  IInv'
<1> DEFINE d == [debugger[i] EXCEPT !.watchdog = "ended"]
<1>1. /\ debugger[i] \in DebuggerType /\ debugger' = [debugger EXCEPT ![i] = d] /\ debugger[i].watchdog = "poll"
      /\ UNCHANGED <<storageVars, request, toSave, memorized, ids, crashed, history>>
  BY Types DEF EndsLoop, Watches, IInv, TypeOK, Unchanged
<1>2. debugger[i].object \notin {"none", "built"}
  BY DEF EndsLoop, IInv, Watchdog
<1>3. /\ d \in DebuggerType /\ d.object = debugger[i].object /\ d.config = debugger[i].config
      /\ d.unseen = debugger[i].unseen /\ d.watchdog = "ended" /\ d.held = debugger[i].held
  BY <1>1 DEF DebuggerType
<1> HIDE DEF d
<1>4. debugger'[i] = d /\ created' = created /\ request' = request /\ crashed' = FALSE
  BY <1>1 DEF IInv, TypeOK, history
<1>5. Watchdog(i)'
  <2>1. debugger[i].watchdog # "none" /\ i \notin created =>
          \E r \in Requests : IsAt(r, "assign", i) \/ IsAt(r, "store", i)
    BY DEF IInv, Watchdog
  <2> QED
    BY <1>1, <1>2, <1>3, <1>4, <2>1 DEF Watchdog, IsAt
<1>6. \A r \in Requests : Makes(r)'
  BY <1>1, <1>2, <1>3, MakesGoes
<1>7. i \notin Owned
  BY <1>2 DEF IInv, Alive, Kept, Shared
<1> QED
  BY <1>1, <1>2, <1>3, <1>4, <1>5, <1>6, <1>7, InstanceGoes

LEMMA SeesExitStep ==
  ASSUME IInv, ~crashed, NEW i \in Instances, SeesExit(i)
  PROVE  IInv'
<1> DEFINE d == [debugger[i] EXCEPT !.watchdog = "detach"]
<1>1. /\ debugger[i] \in DebuggerType /\ debugger' = [debugger EXCEPT ![i] = d]
      /\ debugger[i].watchdog = "poll" /\ debugger[i].process = "exited"
      /\ UNCHANGED <<storageVars, request, toSave, memorized, ids, crashed, history>>
  BY Types DEF SeesExit, Watches, IInv, TypeOK, Unchanged
<1>2. /\ d \in DebuggerType /\ d.object = debugger[i].object /\ d.config = debugger[i].config
      /\ d.unseen = debugger[i].unseen /\ d.watchdog = "detach" /\ d.held = debugger[i].held
      /\ d.member = debugger[i].member /\ d.process = debugger[i].process
  BY <1>1 DEF DebuggerType
<1>3. d.stop = debugger[i].stop /\ d.joins = debugger[i].joins
  BY <1>1 DEF DebuggerType
<1> HIDE DEF d
<1>4. debugger'[i] = d /\ created' = created /\ request' = request /\ crashed' = FALSE
  BY <1>1 DEF IInv, TypeOK, history
<1>5. Watchdog(i)'
  BY <1>1, <1>2, <1>3, <1>4 DEF IInv, Watchdog, IsAt
<1>6. \A r \in Requests : Makes(r)'
  BY <1>1, <1>2, MakesGoes
<1> QED
  BY <1>1, <1>2, <1>4, <1>5, <1>6, InstanceGoes

(* A debugger whose exit is handled and that is not there any more was     *)
(* deleted.                                                                *)
LEMMA GoneWasDeleted ==
  ASSUME IInv, NEW i \in Instances, debugger[i].object # "built",
         debugger[i].watchdog \in {"detach", "load", "erase"}
  PROVE  i \in deleted
<1>1. i \notin Owned
  BY DEF IInv, Alive, Kept, Shared
<1>2. \A r \in Requests : ~IsAt(r, "assign", i) /\ ~IsAt(r, "store", i)
  BY DEF IInv, Makes, IsAt
<1>3. i \in created
  BY <1>2 DEF IInv, Watchdog
<1> QED
  BY <1>1, <1>3 DEF IInv, ExactlyTheLive

LEMMA CrashStep ==
  ASSUME IInv, Crash, ExitsAreSafe'
  PROVE  IInv'
<1>1. /\ UNCHANGED <<stored, storageLock, request, debugger, toSave, memorized, ids, created, deleted>>
      /\ crashed' = TRUE
  BY DEF Crash, storageVars, history
<1>2. Owned' = Owned
  BY <1>1 DEF Owned
<1>3. TypeOK' /\ Alive' /\ Numbered' /\ ExactlyTheLive'
  BY <1>1, <1>2 DEF IInv, TypeOK, Alive, Kept, Shared, Numbered, ExactlyTheLive
<1>4. \A r \in Requests : About(r)' /\ Makes(r)' /\ Unseen(r)'
  BY <1>1, <1>2 DEF IInv, About, Makes, Unseen
<1>5. \A i \in Instances : Watchdog(i)'
  BY <1>1 DEF IInv, Watchdog, IsAt
<1> QED
  BY <1>3, <1>4, <1>5 DEF IInv

LEMMA DetachStep ==
  ASSUME IInv, ~crashed, NEW i \in Instances, Detach(i)
  PROVE  IInv'
<1>1. debugger[i].watchdog = "detach" /\ debugger[i] \in DebuggerType /\ Watchdog(i)
  BY Types DEF Detach, IInv
<1>2. CASE debugger[i].member = "null"
  <2>1. Crash
    BY <1>2 DEF Detach
  <2>2. ExitsAreSafe'
    <3>1. request' = request /\ debugger' = debugger /\ deleted' = deleted
      BY <2>1 DEF Crash, history
    <3>2. CASE debugger[i].object = "built"
      <4>1. PICK r \in Requests : IsAt(r, "assign", i)
        BY <1>1, <1>2, <3>2 DEF Watchdog
      <4>2. debugger[i].process = "exited"
        BY <1>1 DEF Watchdog
      <4> QED
        BY <3>1, <4>1, <4>2 DEF ExitsAreSafe, IsAt
    <3>3. CASE debugger[i].object # "built"
      BY <1>1, <3>1, <3>3, GoneWasDeleted DEF ExitsAreSafe
    <3> QED
      BY <3>2, <3>3
  <2> QED
    BY <2>1, <2>2, CrashStep
<1>3. CASE debugger[i].member # "null"
  <2> DEFINE d == [debugger[i] EXCEPT !.watchdog = "load", !.member = "detached"]
  <2>1. /\ debugger' = [debugger EXCEPT ![i] = d]
        /\ UNCHANGED <<storageVars, request, toSave, memorized, ids, crashed, history>>
    BY <1>1, <1>3 DEF Detach, IInv, TypeOK, Unchanged
  <2>2. /\ d \in DebuggerType /\ d.object = debugger[i].object /\ d.config = debugger[i].config
        /\ d.unseen = debugger[i].unseen /\ d.watchdog = "load" /\ d.held = debugger[i].held
        /\ d.member = "detached" /\ d.process = debugger[i].process
    BY <1>1 DEF DebuggerType
  <2>3. d.stop = debugger[i].stop /\ d.joins = debugger[i].joins
    BY <1>1 DEF DebuggerType
  <2> HIDE DEF d
  <2>4. debugger'[i] = d /\ created' = created /\ request' = request /\ crashed' = FALSE
    BY <2>1 DEF IInv, TypeOK, history
  <2>5. Watchdog(i)'
    BY <1>1, <2>2, <2>3, <2>4 DEF Watchdog, IsAt
  <2>6. \A r \in Requests : Makes(r)'
    BY <1>1, <1>3, <2>1, <2>2, MakesGoes
  <2> QED
    BY <1>1, <2>1, <2>2, <2>4, <2>5, <2>6, InstanceGoes
<1> QED
  BY <1>2, <1>3

LEMMA LoadsSessionStep ==
  ASSUME IInv, ~crashed, NEW i \in Instances, LoadsSession(i)
  PROVE  IInv'
<1>1. debugger[i].watchdog = "load" /\ debugger[i] \in DebuggerType /\ Watchdog(i) /\ Owned \subseteq Instances
  BY Types DEF LoadsSession, IInv
<1>2. CASE debugger[i].object = "gone"
  <2>1. Crash /\ i \in deleted
    BY <1>1, <1>2, GoneWasDeleted DEF LoadsSession
  <2>2. ExitsAreSafe'
    BY <1>1, <2>1 DEF ExitsAreSafe, Crash, history
  <2> QED
    BY <2>1, <2>2, CrashStep
<1>3. CASE debugger[i].object # "gone"
  <2> DEFINE d == [debugger[i] EXCEPT !.watchdog = "erase", !.held = Owned]
  <2>1. /\ debugger' = [debugger EXCEPT ![i] = d] /\ Unlocked
        /\ UNCHANGED <<storageVars, request, toSave, memorized, ids, crashed, history>>
    BY <1>1, <1>3 DEF LoadsSession, IInv, TypeOK, Unchanged
  <2>2. /\ d \in DebuggerType /\ d.object = debugger[i].object /\ d.config = debugger[i].config
        /\ d.unseen = debugger[i].unseen /\ d.watchdog = "erase" /\ d.held = Owned
        /\ d.member = debugger[i].member /\ d.process = debugger[i].process
    BY <1>1 DEF DebuggerType
  <2>3. d.stop = debugger[i].stop /\ d.joins = debugger[i].joins
    BY <1>1 DEF DebuggerType
  <2> HIDE DEF d
  <2>4. debugger'[i] = d /\ created' = created /\ request' = request /\ crashed' = FALSE
    BY <2>1 DEF IInv, TypeOK, history
  <2>5. Watchdog(i)'
    BY <1>1, <2>2, <2>3, <2>4 DEF Watchdog, IsAt
  <2>6. \A r \in Requests : request[r].pc \notin {"start", "assign", "store"}
    BY <2>1, OneMakes
  <2>7. \A r \in Requests : Makes(r)'
    BY <2>1, <2>2, <2>6, MakesGoes
  <2> QED
    BY <1>1, <2>1, <2>2, <2>4, <2>5, <2>7, InstanceGoes
<1> QED
  BY <1>2, <1>3

LEMMA ErasesItselfStep ==
  ASSUME IInv, ~crashed, NEW i \in Instances, ErasesItself(i)
  PROVE  IInv'
<1>1. debugger[i].watchdog = "erase" /\ debugger[i] \in DebuggerType /\ Watchdog(i) /\ Owned \subseteq Instances
  BY Types DEF ErasesItself, IInv
<1>2. CASE debugger[i].object = "gone"
  <2>1. Crash /\ i \in deleted
    BY <1>1, <1>2, GoneWasDeleted DEF ErasesItself
  <2>2. ExitsAreSafe'
    BY <1>1, <2>1 DEF ExitsAreSafe, Crash, history
  <2> QED
    BY <2>1, <2>2, CrashStep
<1>3. CASE debugger[i].object # "gone"
  <2> DEFINE d == [debugger[i] EXCEPT !.watchdog = "drop"]
  <2>1. /\ debugger' = [debugger EXCEPT ![i] = d] /\ Unlocked
        /\ stored' = [stored EXCEPT ![Session].debuggerInstances = Owned \ {i}]
        /\ UNCHANGED <<storageLock, request, toSave, memorized, ids, crashed, created, deleted>>
    BY <1>1, <1>3 DEF ErasesItself, Erase, PartiallySave, Watches, IInv, TypeOK, Unchanged, history
  <2>2. /\ d \in DebuggerType /\ d.object = debugger[i].object /\ d.config = debugger[i].config
        /\ d.unseen = debugger[i].unseen /\ d.watchdog = "drop" /\ d.held = debugger[i].held
        /\ d.member = debugger[i].member /\ d.process = debugger[i].process
    BY <1>1 DEF DebuggerType
  <2>3. d.stop = debugger[i].stop /\ d.joins = debugger[i].joins
    BY <1>1 DEF DebuggerType
  <2> HIDE DEF d
  <2>4. debugger'[i] = d /\ \A j \in Instances : j # i => debugger'[j] = debugger[j]
    BY <2>1 DEF IInv, TypeOK
  <2>5. Owned' = Owned \ {i} /\ stored' \in [Sessions -> SessionType]
    BY <1>1, <2>1, StoredIs DEF IInv
  <2>6. TypeOK'
    BY <2>1, <2>2, <2>5 DEF IInv, TypeOK
  <2>7. \A r \in Requests : request[r].pc \notin {"start", "assign", "store"}
    BY <2>1, OneMakes
  <2>8. \A j \in Instances : /\ debugger'[j].config = debugger[j].config /\ debugger'[j].unseen = debugger[j].unseen
                            /\ debugger'[j].held = debugger[j].held /\ debugger'[j].object = debugger[j].object
    BY <2>2, <2>4
  <2>9. ASSUME NEW r \in Requests  PROVE About(r)' /\ Makes(r)' /\ Unseen(r)'
    <3>1. request[r].copy.debuggerInstances \subseteq Instances /\ request[r].instance \in Instances \cup {None}
      BY Types DEF IInv, RequestType, SessionType
    <3>2. About(r)' /\ Unseen(r)'
      BY <1>1, <2>1, <2>5, <2>8, <3>1 DEF IInv, About, Unseen
    <3> QED
      BY <2>1, <2>7, <3>2 DEF Makes
  <2>10. \A j \in Instances : Shared(j)' => Shared(j)
    BY <2>1, <2>5, <2>8 DEF Shared
  <2>11. Alive'
    BY <2>1, <2>8, <2>10 DEF IInv, Alive, Kept
  <2>12. Numbered'
    BY <1>1, <2>1, <2>4 DEF IInv, Numbered
  <2>13. ASSUME NEW j \in Instances  PROVE Watchdog(j)'
    <3>1. CASE j = i
      BY <1>1, <2>1, <2>2, <2>3, <2>4, <3>1 DEF Watchdog, IsAt
    <3>2. CASE j # i
      BY <2>1, <2>4, <3>2 DEF IInv, Watchdog, IsAt
    <3> QED
      BY <3>1, <3>2
  <2>14. ExactlyTheLive'
    <3>1. created \subseteq Instances
      BY DEF IInv, TypeOK
    <3> QED
      BY <2>1, <2>2, <2>4, <2>5, <3>1 DEF IInv, ExactlyTheLive
  <2>15. ExitsAreSafe'
    BY <2>1 DEF ExitsAreSafe
  <2> QED
    BY <2>6, <2>9, <2>11, <2>12, <2>13, <2>14, <2>15 DEF IInv
<1> QED
  BY <1>2, <1>3

LEMMA ReturnsFromExitStep ==
  ASSUME IInv, ~crashed, NEW i \in Instances, ReturnsFromExit(i)
  PROVE  IInv'
<1>1. debugger[i].watchdog = "drop" /\ Watchdog(i)
  BY DEF ReturnsFromExit, IInv
<1>2. PICK from \in [Instances -> DebuggerType] :
        from = [debugger EXCEPT ![i].watchdog = "ended", ![i].held = {}]
  <2> DEFINE d == [debugger[i] EXCEPT !.watchdog = "ended", !.held = {}]
  <2>0. debugger[i] \in DebuggerType
    BY Types DEF IInv
  <2>1. d \in DebuggerType
    BY <2>0 DEF DebuggerType
  <2>2. [debugger EXCEPT ![i].watchdog = "ended", ![i].held = {}] = [debugger EXCEPT ![i] = d]
    BY DEF IInv, TypeOK
  <2> HIDE DEF d
  <2> QED
    BY <2>1, <2>2 DEF IInv, TypeOK
<1>3. /\ from[i].watchdog = "ended" /\ from[i].held = {} /\ from[i].object = debugger[i].object
      /\ from[i].config = debugger[i].config /\ from[i].unseen = debugger[i].unseen
      /\ from[i].process = debugger[i].process /\ from[i].member = debugger[i].member
      /\ \A j \in Instances : j # i => from[j] = debugger[j]
  BY <1>2, Types DEF IInv, TypeOK, DebuggerType
<1>4. from[i].stop = debugger[i].stop /\ from[i].joins = debugger[i].joins
  BY <1>2, Types DEF IInv, TypeOK, DebuggerType
<1>5. /\ debugger' = Dropped(from)
      /\ UNCHANGED <<stored, storageLock, request, toSave, memorized, ids, created, deleted>>
      /\ crashed' = (debugger[i].object = "built" /\ debugger'[i].joins)
  BY <1>2 DEF ReturnsFromExit, storageVars, history
<1>6. \A j \in Instances : debugger'[j] = from[j] \/ debugger'[j] = Destroyed(from[j])
  BY <1>5, DroppedOr
<1>7. \A j \in Instances : debugger'[j].held = from[j].held
  BY <1>6, DestroyedIs
<1>8. ASSUME NEW j \in Instances
      PROVE  /\ debugger'[j] \in DebuggerType /\ Rests(j)
             /\ debugger'[j].held \subseteq debugger[j].held
  <2>1. \/ debugger'[j] = from[j]
        \/ from[j].object = "built" /\ ~Kept(j)' /\ debugger'[j] = Destroyed(from[j])
    BY <1>5, <1>7, DroppedIs
  <2>2. /\ from[j].config = debugger[j].config /\ from[j].unseen = debugger[j].unseen
        /\ from[j].process = debugger[j].process /\ from[j].object = debugger[j].object
        /\ from[j].member = debugger[j].member
        /\ \/ from[j].watchdog = debugger[j].watchdog /\ from[j].held = debugger[j].held
           \/ debugger[j].watchdog = "drop" /\ from[j].watchdog = "ended" /\ from[j].held = {}
    BY <1>1, <1>3
  <2>3. from[j].stop = debugger[j].stop /\ from[j].joins = debugger[j].joins
    BY <1>3, <1>4
  <2>4. CASE debugger'[j] = from[j]
    BY <2>2, <2>3, <2>4 DEF Rests
  <2>5. CASE from[j].object = "built" /\ ~Kept(j)' /\ debugger'[j] = Destroyed(from[j])
    <3>0. PICK d \in DebuggerType : d = from[j]
      OBVIOUS
    <3>1. PICK e : e = debugger'[j] /\ e = Destroyed(d)
      BY <2>5, <3>0
    <3>2. /\ Destroyed(d) \in DebuggerType /\ Destroyed(d).object = "stopping" /\ Destroyed(d).config = d.config
          /\ Destroyed(d).unseen = d.unseen /\ Destroyed(d).process = d.process
          /\ Destroyed(d).watchdog = d.watchdog /\ Destroyed(d).held = d.held
      BY DestroyedIs
    <3>3. /\ e \in DebuggerType /\ e.object = "stopping" /\ e.config = d.config /\ e.unseen = d.unseen
          /\ e.process = d.process /\ e.watchdog = d.watchdog /\ e.held = d.held
      BY <3>1, <3>2
    <3>4. Rests(j)
      BY <2>2, <2>5, <3>0, <3>1, <3>3 DEF Rests
    <3> QED
      BY <2>2, <3>0, <3>1, <3>3, <3>4
  <2> QED
    BY <2>1, <2>4, <2>5
<1>9. crashed' = FALSE
  <2>1. CASE debugger[i].object # "built"
    BY <1>5, <2>1
  <2>2. CASE debugger[i].object = "built"
    <3>1. debugger[i].member = "detached" /\ debugger[i].joins = FALSE
      <4>1. debugger[i].member = "detached" /\ ~debugger[i].joins /\ debugger[i] \in DebuggerType
        BY <1>1, <2>2, Types DEF Watchdog, IInv
      <4> QED
        BY <4>1 DEF DebuggerType
    <3>2. CASE debugger'[i] = from[i]
      BY <1>4, <1>5, <3>1, <3>2
    <3>3. CASE debugger'[i] = Destroyed(from[i])
      <4>1. Destroyed(from[i]).joins = FALSE
        BY <1>3, <3>1, DestroyedIs
      <4> QED
        BY <1>5, <3>3, <4>1
    <3> QED
      BY <1>6, <3>2, <3>3
  <2> QED
    BY <2>1, <2>2
<1>10. Owned' = Owned
  BY <1>5 DEF Owned
<1>11. debugger' \in [Instances -> DebuggerType]
  BY <1>5, <1>8 DEF Dropped
<1>12. TypeOK'
  BY <1>5, <1>9, <1>11 DEF IInv, TypeOK
<1>13. \A j \in Instances : Shared(j)' => Shared(j)
  BY <1>5, <1>8, <1>10 DEF Shared
<1>14. /\ \A r \in Requests : request'[r] = request[r]
       /\ \A r \in Requests : request'[r].pc \in {"start", "assign", "store"} => UNCHANGED <<storageLock, toSave>>
       /\ UNCHANGED <<ids, created, deleted>> /\ toSave' \subseteq toSave /\ ~crashed'
  BY <1>5, <1>9
<1> QED
  BY <1>8, <1>10, <1>12, <1>13, <1>14, DroppedFrame

-----------------------------------------------------------------------------

LEMMA Stutters ==
  ASSUME IInv, UNCHANGED vars
  PROVE  IInv'
<1>1. UNCHANGED <<stored, storageLock, request, debugger, toSave, memorized, ids, crashed, created, deleted>>
  BY DEF vars, storageVars, history
<1>2. Owned' = Owned
  BY <1>1 DEF Owned
<1>3. TypeOK' /\ Alive' /\ Numbered' /\ ExactlyTheLive' /\ ExitsAreSafe'
  BY <1>1, <1>2 DEF IInv, TypeOK, Alive, Kept, Shared, Numbered, ExactlyTheLive, ExitsAreSafe
<1>4. \A r \in Requests : About(r)' /\ Makes(r)' /\ Unseen(r)'
  BY <1>1, <1>2 DEF IInv, About, Makes, Unseen
<1>5. \A i \in Instances : Watchdog(i)'
  BY <1>1 DEF IInv, Watchdog, IsAt
<1> QED
  BY <1>3, <1>4, <1>5 DEF IInv

LEMMA Initially == Init => IInv
<1> SUFFICES ASSUME Init  PROVE IInv
  OBVIOUS
<1>1. EmptySession \in SessionType /\ EmptySession.debuggerInstances = {}
  BY DEF EmptySession, SessionType
<1>2. /\ stored = [s \in Sessions |-> EmptySession] /\ storageLock = None
      /\ toSave = {} /\ memorized = {} /\ ids = 0 /\ crashed = FALSE /\ created = {} /\ deleted = {}
  BY DEF Init
<1>3. \A r \in Requests : /\ request[r] \in RequestType /\ request[r].pc = "idle" /\ request[r].instance = None
                          /\ request[r].copy = EmptySession /\ request[r].kind = "none"
  BY <1>1 DEF Init, RequestType
<1>4. request \in [Requests -> RequestType]
  BY <1>3 DEF Init
<1>5. \A i \in Instances :
        /\ debugger[i] \in DebuggerType /\ debugger[i].object = "none" /\ debugger[i].watchdog = "none"
        /\ debugger[i].member = "null" /\ debugger[i].held = {}
        /\ debugger[i].stop = FALSE /\ debugger[i].joins = FALSE
  BY DEF Init, DebuggerType
<1>6. debugger \in [Instances -> DebuggerType]
  BY <1>5 DEF Init
<1>7. Owned = {}
  BY <1>1, <1>2, Constants DEF Owned
<1>8. TypeOK
  <2>1. stored \in [Sessions -> SessionType]
    BY <1>1, <1>2
  <2>2. {toSave, memorized, created, deleted} \subseteq SUBSET Instances
    BY <1>2
  <2>3. crashed \in BOOLEAN /\ storageLock \in Requests \cup {None}
    BY <1>2
  <2>4. 0 \in 0 .. MaxInstances
    BY DebuggerAssumption
  <2>5. ids \in 0 .. MaxInstances
    BY <1>2, <2>4
  <2> QED
    BY <1>4, <1>6, <2>1, <2>2, <2>3, <2>5 DEF TypeOK
<1>9. \A r \in Requests : About(r) /\ Makes(r) /\ Unseen(r)
  <2>1. None <= ids
    BY <1>2, Constants
  <2> QED
    BY <1>3, <2>1 DEF About, Makes, Unseen
<1>10. Alive
  BY <1>1, <1>2, <1>3, <1>5, <1>7 DEF Alive, Kept, Shared
<1>11. Numbered
  BY <1>2, <1>5 DEF Numbered
<1>12. \A i \in Instances : Watchdog(i)
  BY <1>5 DEF Watchdog
<1>13. ExactlyTheLive /\ ExitsAreSafe
  BY <1>2, <1>7 DEF ExactlyTheLive, ExitsAreSafe
<1> QED
  BY <1>8, <1>9, <1>10, <1>11, <1>12, <1>13 DEF IInv

LEMMA Inductive == IInv /\ [Next]_vars => IInv'
<1> SUFFICES ASSUME IInv, [Next]_vars  PROVE IInv'
  OBVIOUS
<1>1. ASSUME ~crashed, NEW r \in Requests, RequestStep(r)  PROVE IInv'
  BY <1>1, BeginStep, CreateStep, StartStep, AssignStep, StoreStep, DeleteStep, CommandStep,
     SetActiveProjectStep, ReturnStep DEF RequestStep
<1>2. ASSUME ~crashed, NEW i \in Instances, WatchdogStep(i) \/ Stop(i) \/ ProcessExits(i)  PROVE IInv'
  BY <1>2, EndsLoopStep, SeesExitStep, DetachStep, LoadsSessionStep, ErasesItselfStep, ReturnsFromExitStep,
     StopStep, ProcessExitsStep DEF WatchdogStep
<1>3. ASSUME ~crashed, Memorize  PROVE IInv'
  BY <1>3, MemorizeStep
<1>4. CASE UNCHANGED vars
  BY <1>4, Stutters
<1> QED
  BY <1>1, <1>2, <1>3, <1>4 DEF Next

LEMMA Always == Spec => []IInv
BY Initially, Inductive, PTL DEF Spec

(* The variables keep their types.                                         *)
THEOREM TypeCorrect == Spec => []TypeOK
<1>1. IInv => TypeOK
  BY DEF IInv
<1> QED
  BY <1>1, Always, PTL

(* routers/debugger.cpp:230-260: whatever requests and exits overlap, the  *)
(* session holds just the debuggers that were created, not deleted, and    *)
(* have not been erased by their exit.                                     *)
THEOREM ExactlyTheLiveCorrect == Spec => []ExactlyTheLive
<1>1. IInv => ExactlyTheLive
  BY DEF IInv
<1> QED
  BY <1>1, Always, PTL

(* routers/debugger.cpp:213-227: a second debugger of a configuration is   *)
(* made unasked only next to one that its request could not see.           *)
THEOREM DuplicatesWereUnseenCorrect == Spec => []DuplicatesWereUnseen
<1>1. IInv => DuplicatesWereUnseen
  BY DEF IInv, Unseen, DuplicatesWereUnseen
<1> QED
  BY <1>1, Always, PTL

(* debugger.cpp:230-268: an object that is null or no more is used only    *)
(* when a debugger is deleted while its exit is handled, or ends before    *)
(* the thread that watches it is assigned.                                 *)
THEOREM ExitsAreSafeCorrect == Spec => []ExitsAreSafe
<1>1. IInv => ExitsAreSafe
  BY DEF IInv
<1> QED
  BY <1>1, Always, PTL
=============================================================================
