----------------------------- MODULE WsStreamer -----------------------------
(***************************************************************************)
(* ws_streamer.cpp and stream_session.cpp of the worker: websockets on     *)
(* which the worker sends messages to its clients, the sessions they log   *)
(* in to, and what sends to them: the handlers of routers/workspace.cpp,   *)
(* scripts of toolbars, and debuggers.  All of them, and the callbacks of  *)
(* different websockets, run on several threads.                           *)
(***************************************************************************)
EXTENDS SessionStorage, Sequences, SequencesExt

CONSTANTS
  Sockets,    (* websockets that clients open                              *)
  Requests,   (* requests, objects of scripts, and debuggers               *)
  MaxSends    (* bound: how often an object of a script sends              *)

ASSUME WsAssumption == MaxSends \in Nat /\ None \notin Requests

Channels == {"Control", "Data"}

(* StreamSession::channel_ is not initialized.                             *)
Unset == "Unset"

Handlers == {"open", "enlist", "loadFile", "toggleSourceHeader", "deleteFile", "loadAll"}

(* They keep the first copy of their session that they use: the Streamer   *)
(* and the ProjectControl of a script, and a debugger.                     *)
Keepers == {"Streamer", "ProjectControl", "Debugger"}

Kinds == Handlers \cup Keepers

VARIABLES
  increment,     (* IdProvider::increment_                                 *)
  freeIds,       (* IdProvider::freeIds_                                   *)
  connections,   (* connections_: ids and their websockets                 *)
  socket,        (* socket[k]: the StreamSession of k                      *)
  sent,          (* sent[k]: whose messages, and what of them, k was sent  *)
  request,       (* request[r]: a handler, or an object, and its copy of   *)
                 (* the session                                            *)
  crashed        (* has a StreamSession been used that is no more?         *)

streamVars == <<increment, freeIds, connections, socket, sent>>
vars == <<storageVars, streamVars, request, crashed>>

Field(channel) == IF channel = "Data" THEN "dataId" ELSE "controlId"

ChannelOf(kind) ==
  IF kind \in {"open", "enlist", "loadFile", "ProjectControl"} THEN "Data" ELSE "Control"

(* writeMessage: the head with its length, the data if there is some, and  *)
(* the line feed, each of them a write of its own.                         *)
Parts(kind) == IF kind \in {"loadFile", "ProjectControl"} THEN <<"head", "data", "end">> ELSE <<"head", "end">>

Ids == 0 .. increment

SessionType == [root : Requests \cup {None}, toolbarStore : Requests \cup {None}, activeProject : {None},
                dataId : Ids, controlId : Ids, debuggerInstances : {{}}]

SocketPCs == {"none", "Initial", "save", "accept", "Listening", "closing", "closed"}
RequestPCs == {"idle", "loaded", "write", "make", "save", "done"}
SomeChannel == Channels \cup {Unset}
SomeSession == Sessions \cup {None}
SomeSocket == Sockets \cup {None}
SomeKind == Kinds \cup {"none"}
Statuses == {0, 200, 400}
Sends == 0 .. MaxSends
Left == 0 .. 3

SocketType ==
  [pc : SocketPCs, streamId : Ids, channel : SomeChannel, session : SomeSession, copy : SessionType]

RequestType ==
  [pc : RequestPCs, kind : SomeKind, sends : Sends, session : SomeSession, copy : SessionType,
   to : SomeSocket, left : Left, status : Statuses]

TypeOK ==
  /\ stored \in [Sessions -> SessionType]
  /\ storageLock = None
  /\ increment \in Nat
  /\ freeIds \subseteq 1 .. increment
  /\ connections \in SUBSET ((1 .. increment) \X Sockets)
  /\ \A c \in connections : socket[c[2]].streamId = c[1]
  /\ socket \in [Sockets -> SocketType]
  /\ sent \in [Sockets -> SUBSET ((Sockets \cup Requests) \X {"head", "data", "end"})]
  /\ request \in [Requests -> RequestType]
  /\ crashed \in BOOLEAN

Init ==
  /\ stored = [s \in Sessions |-> EmptySession]
  /\ storageLock = None
  /\ increment = 0
  /\ freeIds = {}
  /\ connections = {}
  /\ socket = [k \in Sockets |-> [pc |-> "none", streamId |-> 0, channel |-> Unset,
                                session |-> None, copy |-> EmptySession]]
  /\ sent = [k \in Sockets |-> {}]
  /\ request = [r \in Requests |->
       [pc |-> "idle", kind |-> "none", sends |-> 0, session |-> None, copy |-> EmptySession,
        to |-> None, left |-> 0, status |-> 0]]
  /\ crashed = FALSE

-----------------------------------------------------------------------------
(* The websockets.                                                         *)

(* A slip: the number is taken before it is incremented.                   *)
IdBefore == IF freeIds = {} THEN increment ELSE CHOOSE i \in freeIds : TRUE

(* IdProvider::acquireId.                                                  *)
AcquiredId == IF freeIds = {} THEN increment + 1 ELSE CHOOSE i \in freeIds : TRUE

(* setup: the websocket knows its id, and no session yet.                  *)
Setup(k, id) == [socket EXCEPT ![k].pc = "Initial", ![k].streamId = id]

(* start: the callback of a new websocket holds connectionGuard_.          *)
Accept(k) ==
  /\ socket[k].pc = "none"
  /\ socket' = Setup(k, AcquiredId)
  /\ connections' = connections \cup {<<AcquiredId, k>>}
  /\ increment' = IF freeIds = {} THEN increment + 1 ELSE increment
  /\ freeIds' = freeIds \ {AcquiredId}
  /\ UNCHANGED <<storageVars, sent, request, crashed>>

(* The first text: the session and the path are looked up, and if one of   *)
(* them is wrong the websocket is told so and closed; one that is no json  *)
(* throws into the library, which is taken for the end of the websocket.   *)
Authenticate(k) ==
  /\ socket[k].pc = "Initial"
  /\ \/ \E s \in Sessions, channel \in Channels :
          socket' = [socket EXCEPT ![k].pc = "save", ![k].channel = channel,
                                   ![k].session = s, ![k].copy = Load(s)]
     \/ socket' = [socket EXCEPT ![k].pc = "closing"]
  /\ UNCHANGED <<storageVars, increment, freeIds, connections, sent, request, crashed>>

SaveStreamId(k) ==
  /\ socket[k].pc = "save"
  /\ socket' = [socket EXCEPT ![k].pc = "accept", ![k].copy = EmptySession]
  /\ PartiallySave(socket[k].session, socket[k].copy, Field(socket[k].channel), socket[k].streamId)
  /\ UNCHANGED <<increment, freeIds, connections, sent, request, crashed>>

(* "authentication_accepted"; from then on texts are logged and no more.   *)
Accepted(k) ==
  /\ socket[k].pc = "accept"
  /\ LET part == IF <<k, "head">> \in sent[k] THEN "end" ELSE "head"
     IN /\ sent' = [sent EXCEPT ![k] = @ \cup {<<k, part>>}]
        /\ socket' = IF part = "end" THEN [socket EXCEPT ![k].pc = "Listening"] ELSE socket
  /\ UNCHANGED <<storageVars, increment, freeIds, connections, request, crashed>>

(* A slip: the id is given back, and the next websocket gets it.           *)
RemoveAndFree(k) ==
  /\ connections' = connections \ {<<socket[k].streamId, k>>}
  /\ freeIds' = freeIds \cup {socket[k].streamId}

RemoveConnection(k) ==
  /\ connections' = connections \ {<<socket[k].streamId, k>>}
  /\ UNCHANGED freeIds

(* on_close: the session keeps the id.                                     *)
OnClose(k) ==
  /\ socket[k].pc \in {"Initial", "Listening", "closing"}
  /\ socket' = [socket EXCEPT ![k].pc = "closed"]
  /\ RemoveConnection(k)
  /\ UNCHANGED <<storageVars, increment, sent, request, crashed>>

-----------------------------------------------------------------------------
(* The handlers.                                                           *)

Answer(r, status) ==
  [request EXCEPT ![r] = [@ EXCEPT !.pc = "done", !.status = status, !.copy = EmptySession, !.to = None, !.left = 0]]

(* The session is copied and what the request needs of it is looked at; a  *)
(* body or a path that is wrong is refused.                                *)
Begin(r, kind, pc, ready) ==
  /\ request[r].pc = "idle" /\ request[r].kind = "none"
  /\ \E s \in Sessions :
       LET begun == [request[r] EXCEPT !.kind = kind, !.session = s]
       IN \/ s \in ready /\ request' = [request EXCEPT ![r] = [begun EXCEPT !.pc = pc, !.copy = Load(s)]]
          \/ request' = [request EXCEPT ![r] = [begun EXCEPT !.pc = "done", !.status = 400]]
  /\ UNCHANGED <<storageVars, streamVars, crashed>>

HasRoot == {s \in Sessions : Load(s).root # None}

Hears(field) == {s \in Sessions : Load(s)[field] # NoStream}

Open(r) == Begin(r, "open", "loaded", Hears("dataId"))

Enlist(r) == Begin(r, "enlist", "loaded", HasRoot \intersect Hears("dataId"))

LoadFile(r) == Begin(r, "loadFile", "loaded", HasRoot \intersect Hears("dataId"))

ToggleSourceHeader(r) == Begin(r, "toggleSourceHeader", "loaded", HasRoot \intersect Hears("controlId"))

(* Nothing is deleted: the path is checked and logged.                     *)
DeleteFile(r) ==
  /\ request[r].pc = "idle" /\ request[r].kind = "none"
  /\ \E s \in Sessions, status \in Statuses \ {0} :
       /\ status = 200 => s \in HasRoot
       /\ request' = [request EXCEPT ![r] = [@ EXCEPT !.kind = "deleteFile", !.session = s,
                                                      !.pc = "done", !.status = status]]
  /\ UNCHANGED <<storageVars, streamVars, crashed>>

(* The toolbars of the copy are dropped.                                   *)
LoadAll(r) == Begin(r, "loadAll", "make", Sessions)

(* The scripts are run.  One that fails, as does a toolbar without items,  *)
(* ends the request, and the session keeps the toolbars it had.            *)
MakeToolbars(r) ==
  /\ request[r].pc = "make"
  /\ request' \in {[request EXCEPT ![r].pc = "save"], Answer(r, 400)}
  /\ UNCHANGED <<storageVars, streamVars, crashed>>

-----------------------------------------------------------------------------
(* What keeps its copy of the session.                                     *)

(* SessionObtainer::session: the session is copied when it is first used.  *)
Kept(r) ==
  IF request[r].session # None THEN {[session |-> request[r].session, copy |-> request[r].copy]}
  ELSE {[session |-> s, copy |-> Load(s)] : s \in Sessions}

Use(r, kind, pc) ==
  /\ request[r].pc = "idle" /\ request[r].kind \in {"none", kind}
  /\ \E kept \in Kept(r) :
       request' = [request EXCEPT ![r] = [@ EXCEPT !.kind = kind, !.pc = pc,
                                                   !.session = kept.session, !.copy = kept.copy]]
  /\ UNCHANGED <<storageVars, streamVars, crashed>>

(* send_error and the others of a script's Streamer.                       *)
SendMessage(r) == request[r].sends < MaxSends /\ Use(r, "Streamer", "loaded")

(* open_file_at; a file that is not there is not sent.                     *)
OpenFileAt(r) ==
  request[r].sends < MaxSends /\ (Use(r, "ProjectControl", "loaded") \/ Use(r, "ProjectControl", "idle"))

(* The directories, which are those of the copy.                           *)
GetDirectory(r) == request[r].session = None /\ Use(r, "ProjectControl", "idle")

(* update: a Streamer keeps its copy.                                      *)
ReloadInformation(r) ==
  /\ request[r].pc = "idle" /\ request[r].kind = "ProjectControl"
  /\ request' = [request EXCEPT ![r].copy = Load(request[r].session)]
  /\ UNCHANGED <<storageVars, streamVars, crashed>>

(* A debugger is made with the ids of the session.                         *)
StartDebugger(r) == request[r].kind = "none" /\ Use(r, "Debugger", "idle")

(* relayMessage: what the debugger says is sent, one message at a time.    *)
RelayMessage(r) ==
  request[r].kind = "Debugger" /\ request[r].sends < MaxSends /\ Use(r, "Debugger", "loaded")

-----------------------------------------------------------------------------
(* The sending.                                                            *)

(* Keepers do not look at what send returns.                               *)
Return(r, answered) ==
  IF request[r].kind \in Keepers
  THEN [request EXCEPT ![r] = [@ EXCEPT !.pc = "idle", !.sends = request[r].sends + 1, !.to = None, !.left = 0]]
  ELSE answered

Find(r) ==
  {c[2] : c \in {c \in connections :
     /\ c[1] = request[r].copy[Field(ChannelOf(request[r].kind))]
     /\ socket[c[2]].channel = ChannelOf(request[r].kind)}}

(* send, until the websocket is found: connectionGuard_ is not taken.      *)
Send(r) ==
  /\ request[r].pc = "loaded"
  /\ IF Find(r) = {}
     THEN request' = Return(r, Answer(r, 400))
     ELSE \E k \in Find(r) :
            request' = [request EXCEPT ![r] = [@ EXCEPT !.pc = "write", !.to = k,
                                                        !.left = Len(Parts(request[r].kind))]]
  /\ UNCHANGED <<storageVars, streamVars, crashed>>

(* open goes on when the directory was sent.                               *)
Sent(r) ==
  IF request[r].kind = "open"
  THEN [request EXCEPT ![r] = [@ EXCEPT !.pc = "save", !.to = None, !.left = 0]]
  ELSE Answer(r, 200)

(* A slip: the workspace is saved before the directory was sent.           *)
WriteNothing(r) ==
  /\ request[r].pc = "write"
  /\ request' = Return(r, Sent(r))
  /\ UNCHANGED <<storageVars, streamVars, crashed>>

(* writeMessage: its parts one after the other, with no mutex held.  The   *)
(* StreamSession is gone if the websocket was closed meanwhile.            *)
Write(r) ==
  /\ request[r].pc = "write"
  /\ IF socket[request[r].to].pc = "closed"
     THEN crashed' = TRUE /\ UNCHANGED <<sent, request>>
     ELSE LET parts == Parts(request[r].kind)
              part == parts[Len(parts) + 1 - request[r].left]
          IN /\ sent' = [sent EXCEPT ![request[r].to] = @ \cup {<<r, part>>}]
             /\ request' = IF part # "end" THEN [request EXCEPT ![r].left = @ - 1]
                           ELSE Return(r, Sent(r))
             /\ UNCHANGED crashed
  /\ UNCHANGED <<storageVars, increment, freeIds, connections, socket>>

(* loadAll: the toolbars of the copy are stored.                           *)
SaveToolbars(r) ==
  /\ request[r].pc = "save" /\ request[r].kind = "loadAll"
  /\ PartiallySave(request[r].session, request[r].copy, "toolbarStore", r)
  /\ request' = Answer(r, 200)
  /\ UNCHANGED <<streamVars, crashed>>

(* open: the root of the copy is stored.                                   *)
SaveRoot(r) ==
  /\ request[r].pc = "save" /\ request[r].kind = "open"
  /\ PartiallySave(request[r].session, request[r].copy, "root", r)
  /\ request' = Answer(r, 200)
  /\ UNCHANGED <<streamVars, crashed>>

-----------------------------------------------------------------------------

SocketStep(k) == Accept(k) \/ Authenticate(k) \/ SaveStreamId(k) \/ Accepted(k) \/ OnClose(k)

HandlerStep(r) ==
  \/ Open(r) \/ Enlist(r) \/ LoadFile(r) \/ ToggleSourceHeader(r) \/ DeleteFile(r)
  \/ LoadAll(r) \/ MakeToolbars(r) \/ SaveToolbars(r) \/ SaveRoot(r)

KeeperStep(r) ==
  SendMessage(r) \/ OpenFileAt(r) \/ GetDirectory(r) \/ ReloadInformation(r) \/ StartDebugger(r) \/ RelayMessage(r)

RequestStep(r) == HandlerStep(r) \/ KeeperStep(r) \/ Send(r) \/ Write(r)

Next ==
  /\ ~crashed
  /\ (\E k \in Sockets : SocketStep(k)) \/ (\E r \in Requests : RequestStep(r))

Spec == Init /\ [][Next]_vars

-----------------------------------------------------------------------------

(* What k was sent by others than itself.                                  *)
Messages(k) == {e[1] : e \in sent[k]} \ {k}

(* ws_streamer.cpp:27 and :70: the ids that sessions keep when their       *)
(* websockets have closed, and the copies that scripts and debuggers have  *)
(* kept since, never name a websocket of another session or channel, so    *)
(* that a message only goes to where the client it is for listens.         *)
OwnStream ==
  \A k \in Sockets : \A r \in Messages(k) :
    /\ request[r].session = socket[k].session
    /\ ChannelOf(request[r].kind) = socket[k].channel

LoggedIn(k) == socket[k].pc \in {"accept", "Listening"}

(* session_storage.hpp:73-87: what a websocket, an open and a loadAll      *)
(* saved in a session survives whatever is saved by others that copied the *)
(* session before.                                                         *)
NothingForgotten ==
  /\ \A k \in Sockets : LoggedIn(k) =>
       \E q \in Sockets :
         /\ socket[q].session = socket[k].session /\ socket[q].channel = socket[k].channel
         /\ stored[socket[k].session][Field(socket[k].channel)] = socket[q].streamId
  /\ \A r \in Requests : request[r].status = 200 =>
       /\ request[r].kind = "open" => stored[request[r].session].root # None
       /\ request[r].kind = "loadAll" => stored[request[r].session].toolbarStore # None

(* workspace.cpp:86-101: a workspace is open only if all of its directory  *)
(* was sent to a data stream of the session.                               *)
OpenedWasSent ==
  \A s \in Sessions : stored[s].root # None =>
    \E k \in Sockets :
      /\ socket[k].session = s /\ socket[k].channel = "Data"
      /\ {stored[s].root} \X ToSet(Parts("open")) \subseteq sent[k]
=============================================================================
