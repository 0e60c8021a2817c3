-------------------------- MODULE WsStreamerProofs --------------------------
(***************************************************************************)
(* Proofs about the websocket streamer: the types; that a message only     *)
(* goes to a websocket of the session and channel it is for; that what is  *)
(* saved in sessions is not forgotten; and that a workspace that is open   *)
(* was sent.                                                               *)
(***************************************************************************)
EXTENDS WsStreamer, TLAPS

(* Ids are not given back, so that each websocket has one of its own.      *)
IdsAreOwn ==
  /\ freeIds = {}
  /\ \A k \in Sockets : socket[k].pc # "none" => socket[k].streamId \in 1 .. increment
  /\ \A j, k \in Sockets :
       socket[j].pc # "none" /\ socket[k].pc # "none" /\ socket[j].streamId = socket[k].streamId => j = k
  /\ \A c \in connections : socket[c[2]].pc # "none"

LoggedInTo(k, s, channel) ==
  /\ socket[k].pc \notin {"none", "Initial"}
  /\ socket[k].session = s /\ socket[k].channel = channel

LoginsSound ==
  \A k \in Sockets : socket[k].pc = "save" => socket[k].session \in Sessions /\ socket[k].channel \in Channels

(* The websockets whose ids the copy has are those of s.                   *)
Owns(copy, s) ==
  \A channel \in Channels : \A k \in Sockets :
    socket[k].pc # "none" /\ socket[k].streamId = copy[Field(channel)] => LoggedInTo(k, s, channel)

StoredOwns == \A s \in Sessions : Owns(stored[s], s)

(* What a request may be, given the websockets there are.                  *)
Sound(q) ==
  /\ q.kind = "none" => q.session = None /\ q.pc = "idle" /\ q.copy = EmptySession
  /\ q.kind # "none" => q.session \in Sessions
  /\ Owns(q.copy, q.session)
  /\ q.kind \in Keepers /\ q.pc # "idle" => q.sends < MaxSends
  /\ q.pc \in {"make", "save"} => q.kind \notin Keepers
  /\ q.pc = "write" =>
       /\ q.to \in Sockets /\ LoggedInTo(q.to, q.session, ChannelOf(q.kind))
       /\ q.left \in 1 .. Len(Parts(q.kind))

RequestsSound == \A r \in Requests : Sound(request[r])

(* Who sent to k: itself, or a request that was for it.                    *)
SentBy(k, a) ==
  \/ a = k
  \/ /\ a \in Requests /\ request[a].kind # "none"
     /\ LoggedInTo(k, request[a].session, ChannelOf(request[a].kind))

SentSound == \A k \in Sockets : \A e \in sent[k] : SentBy(k, e[1])

(* The inductive invariant.                                                *)
IInv == TypeOK /\ IdsAreOwn /\ LoginsSound /\ StoredOwns /\ RequestsSound /\ SentSound

-----------------------------------------------------------------------------

LEMMA FieldType ==
  ASSUME NEW channel \in Channels
  PROVE  Field(channel) \in {"dataId", "controlId"}
BY DEF Field

LEMMA PartsType ==
  ASSUME NEW kind
  PROVE  /\ Len(Parts(kind)) \in {2, 3}
         /\ \A i \in 1 .. Len(Parts(kind)) : Parts(kind)[i] \in {"head", "data", "end"}
         /\ \A i \in 1 .. Len(Parts(kind)) : Parts(kind)[i] # "end" => i < Len(Parts(kind))
<1>1. CASE kind \in {"loadFile", "ProjectControl"}
  <2>1. Parts(kind) = <<"head", "data", "end">>
    BY <1>1 DEF Parts
  <2> QED
    BY <2>1
<1>2. CASE kind \notin {"loadFile", "ProjectControl"}
  <2>1. Parts(kind) = <<"head", "end">>
    BY <1>2 DEF Parts
  <2> QED
    BY <2>1
<1> QED
  BY <1>1, <1>2

(* A session that knows no websocket owns what it knows.                   *)
LEMMA EmptyOwns ==
  ASSUME IInv, NEW s
  PROVE  EmptySession \in SessionType /\ Owns(EmptySession, s)
<1>1. EmptySession \in SessionType
  BY DEF IInv, TypeOK, EmptySession, SessionType, Ids, None, NoStream
<1>2. \A channel \in Channels : EmptySession[Field(channel)] = 0
  BY FieldType DEF EmptySession, NoStream
<1>3. \A k \in Sockets : socket[k].pc # "none" => socket[k].streamId # 0
  BY DEF IInv, IdsAreOwn, TypeOK
<1> QED
  BY <1>1, <1>2, <1>3 DEF Owns

-----------------------------------------------------------------------------
(* Requests.                                                               *)

(* Only r changes, stays sound, and of the kind and session that it had.   *)
Moves(r, new) ==
  \E q \in RequestType :
    /\ new = [request EXCEPT ![r] = q]
    /\ Sound(q)
    /\ request[r].kind # "none" => q.kind = request[r].kind /\ q.session = request[r].session

(* Such a step keeps the invariant, if sessions know only their websockets *)
(* after it, and what it sends is for its receiver.                        *)
LEMMA RequestMoves ==
  ASSUME IInv, NEW r \in Requests, Moves(r, request'),
         UNCHANGED <<storageLock, increment, freeIds, connections, socket>>,
         stored' \in [Sessions -> SessionType], \A s \in Sessions : Owns(stored'[s], s),
         sent' \in [Sockets -> SUBSET ((Sockets \cup Requests) \X {"head", "data", "end"})],
         \A k \in Sockets : \A e \in sent'[k] : SentBy(k, e[1]),
         crashed' \in BOOLEAN
  PROVE  IInv'
<1>1. PICK q \in RequestType :
        /\ request' = [request EXCEPT ![r] = q]
        /\ Sound(q)
        /\ request[r].kind # "none" => q.kind = request[r].kind /\ q.session = request[r].session
  BY DEF Moves
<1>2. TypeOK'
  BY <1>1 DEF IInv, TypeOK, SessionType, SocketType, RequestType, Ids
<1>3. IdsAreOwn'
  BY DEF IInv, IdsAreOwn
<1>4. StoredOwns'
  BY DEF IInv, StoredOwns, Owns, LoggedInTo
<1>5. \A p \in Requests : request'[p] = IF p = r THEN q ELSE request[p]
  BY <1>1 DEF IInv, TypeOK
<1>6. RequestsSound'
  <2> SUFFICES ASSUME NEW p \in Requests  PROVE Sound(request[p])'
    BY DEF RequestsSound
  <2> DEFINE w == IF p = r THEN q ELSE request[p]
  <2>1. w = request'[p] /\ Sound(w)
    BY <1>1, <1>5 DEF IInv, RequestsSound
  <2> HIDE DEF w
  <2> QED
    BY <2>1 DEF Sound, Owns, LoggedInTo
<1>7. SentSound'
  <2> SUFFICES ASSUME NEW k \in Sockets, NEW e \in sent'[k]  PROVE SentBy(k, e[1])'
    BY DEF SentSound
  <2>1. SentBy(k, e[1])
    OBVIOUS
  <2> QED
    BY <2>1, <1>1, <1>5 DEF SentBy, LoggedInTo
<1>8. LoginsSound'
  BY DEF IInv, LoginsSound
<1> QED
  BY <1>2, <1>3, <1>4, <1>6, <1>7, <1>8 DEF IInv

LEMMA RequestAlone ==
  ASSUME IInv, NEW r \in Requests, Moves(r, request'),
         UNCHANGED <<storageVars, streamVars, crashed>>
  PROVE  IInv'
<1>1. UNCHANGED <<stored, storageLock, increment, freeIds, connections, socket, sent, crashed>>
  BY DEF storageVars, streamVars
<1>2. /\ stored' \in [Sessions -> SessionType] /\ \A s \in Sessions : Owns(stored'[s], s)
      /\ sent' \in [Sockets -> SUBSET ((Sockets \cup Requests) \X {"head", "data", "end"})]
      /\ \A k \in Sockets : \A e \in sent'[k] : SentBy(k, e[1])
      /\ crashed' \in BOOLEAN
  BY <1>1 DEF IInv, TypeOK, StoredOwns, SentSound
<1> QED
  BY <1>1, <1>2, RequestMoves

LEMMA RequestTypes ==
  ASSUME IInv, NEW r \in Requests
  PROVE  request \in [Requests -> RequestType] /\ request[r] \in RequestType /\ Sound(request[r])
BY DEF IInv, TypeOK, RequestsSound

LEMMA AnswerMoves ==
  ASSUME IInv, NEW r \in Requests, NEW status \in Statuses,
         request[r].kind \notin Keepers \cup {"none"}
  PROVE  Moves(r, Answer(r, status))
<1> DEFINE p == request[r]
<1> DEFINE q == [p EXCEPT !.pc = "done", !.status = status, !.copy = EmptySession, !.to = None, !.left = 0]
<1>1. Answer(r, status) = [request EXCEPT ![r] = q]
  BY DEF Answer
<1>2. p \in RequestType /\ Sound(p) /\ p.kind \notin Keepers \cup {"none"}
  BY RequestTypes
<1>3. EmptySession \in SessionType /\ Owns(EmptySession, p.session)
  BY EmptyOwns
<1>4. "done" \in RequestPCs /\ None \in SomeSocket /\ 0 \in Left
  BY DEF RequestPCs, SomeSocket, Left
<1> HIDE DEF p
<1>5. q \in RequestType
  BY <1>2, <1>3, <1>4 DEF RequestType
<1>6. q.kind = p.kind /\ q.session = p.session /\ q.pc = "done" /\ q.copy = EmptySession
  BY <1>2 DEF RequestType
<1> HIDE DEF q
<1>7. Sound(q)
  BY <1>2, <1>3, <1>6 DEF Sound
<1> QED
  BY <1>1, <1>5, <1>6, <1>7 DEF Moves, p

(* A keeper that has sent is idle again.                                   *)
LEMMA KeeperMoves ==
  ASSUME IInv, NEW r \in Requests, NEW x,
         request[r].kind \in Keepers, request[r].pc # "idle"
  PROVE  Moves(r, Return(r, x))
<1> DEFINE p == request[r]
<1> DEFINE q == [p EXCEPT !.pc = "idle", !.sends = p.sends + 1, !.to = None, !.left = 0]
<1>1. Return(r, x) = [request EXCEPT ![r] = q]
  BY DEF Return
<1>2. p \in RequestType /\ Sound(p) /\ p.kind \in Keepers /\ p.kind # "none" /\ p.pc # "idle"
  BY RequestTypes DEF Keepers
<1> HIDE DEF p
<1>3. p.sends \in Sends /\ p.sends < MaxSends
  BY <1>2 DEF RequestType, Sound
<1>4. p.sends + 1 \in Sends
  BY <1>3, WsAssumption DEF Sends
<1>5. "idle" \in RequestPCs /\ None \in SomeSocket /\ 0 \in Left
  BY DEF RequestPCs, SomeSocket, Left
<1>6. q \in RequestType
  BY <1>2, <1>4, <1>5 DEF RequestType
<1>7. q.kind = p.kind /\ q.session = p.session /\ q.pc = "idle" /\ q.copy = p.copy
  BY <1>2 DEF RequestType
<1> HIDE DEF q
<1>8. Sound(q)
  BY <1>2, <1>7 DEF Sound
<1> QED
  BY <1>1, <1>6, <1>7, <1>8 DEF Moves, p

-----------------------------------------------------------------------------
(* The actions of requests.                                                *)

(* A request that begins with what is stored in a session.                 *)
LEMMA BeginStep ==
  ASSUME IInv, NEW r \in Requests, NEW kind \in Handlers, NEW pc \in {"loaded", "make"}, NEW ready,
         Begin(r, kind, pc, ready)
  PROVE  IInv'
<1> DEFINE p == request[r]
<1>1. PICK s \in Sessions :
        \/ request' = [request EXCEPT ![r] = [[p EXCEPT !.kind = kind, !.session = s] EXCEPT !.pc = pc, !.copy = Load(s)]]
        \/ request' = [request EXCEPT ![r] = [[p EXCEPT !.kind = kind, !.session = s] EXCEPT !.pc = "done", !.status = 400]]
  BY DEF Begin
<1>2. p \in RequestType /\ Sound(p) /\ p.kind = "none" /\ UNCHANGED <<storageVars, streamVars, crashed>>
  BY RequestTypes DEF Begin
<1>3. Load(s) \in SessionType /\ Owns(Load(s), s) /\ p.copy = EmptySession /\ Owns(EmptySession, s)
  BY <1>2, EmptyOwns DEF IInv, TypeOK, StoredOwns, Load, Sound
<1>4. /\ {pc, "done"} \subseteq RequestPCs /\ kind \in SomeKind /\ s \in SomeSession /\ 400 \in Statuses
      /\ kind \notin Keepers \cup {"none"}
  BY DEF RequestPCs, SomeKind, Kinds, SomeSession, Statuses, Handlers, Keepers
<1> HIDE DEF p
<1>5. CASE request' = [request EXCEPT ![r] = [[p EXCEPT !.kind = kind, !.session = s] EXCEPT !.pc = pc, !.copy = Load(s)]]
  <2> DEFINE q == [[p EXCEPT !.kind = kind, !.session = s] EXCEPT !.pc = pc, !.copy = Load(s)]
  <2>1. q \in RequestType
    BY <1>2, <1>3, <1>4 DEF RequestType
  <2>2. q.kind = kind /\ q.session = s /\ q.pc = pc /\ q.copy = Load(s)
    BY <1>2 DEF RequestType
  <2> HIDE DEF q
  <2>3. Sound(q)
    BY <1>3, <1>4, <2>2 DEF Sound
  <2> HIDE <1>5
  <2>4. request' = [request EXCEPT ![r] = q]
    BY <1>5 DEF q
  <2>5. Moves(r, request')
    BY <1>2, <2>1, <2>3, <2>4 DEF Moves, p
  <2> QED
    BY <1>2, <2>5, RequestAlone
<1>6. CASE request' = [request EXCEPT ![r] = [[p EXCEPT !.kind = kind, !.session = s] EXCEPT !.pc = "done", !.status = 400]]
  <2> DEFINE q == [[p EXCEPT !.kind = kind, !.session = s] EXCEPT !.pc = "done", !.status = 400]
  <2>1. q \in RequestType
    BY <1>2, <1>4 DEF RequestType
  <2>2. q.kind = kind /\ q.session = s /\ q.pc = "done" /\ q.copy = p.copy
    BY <1>2 DEF RequestType
  <2> HIDE DEF q
  <2>3. Sound(q)
    BY <1>3, <1>4, <2>2 DEF Sound
  <2>4. request' = [request EXCEPT ![r] = q]
    BY <1>6 DEF q
  <2>5. Moves(r, request')
    BY <1>2, <2>1, <2>3, <2>4 DEF Moves, p
  <2> QED
    BY <1>2, <2>5, RequestAlone
<1> QED
  BY <1>1, <1>5, <1>6

(* A keeper that takes its session, for the first time or again.           *)
LEMMA UseStep ==
  ASSUME IInv, NEW r \in Requests, NEW kind \in Keepers, NEW pc \in {"loaded", "idle"},
         pc = "loaded" => request[r].sends < MaxSends,
         Use(r, kind, pc)
  PROVE  IInv'
<1> DEFINE p == request[r]
<1>1. PICK kept \in Kept(r) :
        request' = [request EXCEPT ![r] = [p EXCEPT !.kind = kind, !.pc = pc, !.session = kept.session, !.copy = kept.copy]]
  BY DEF Use
<1> DEFINE q == [p EXCEPT !.kind = kind, !.pc = pc, !.session = kept.session, !.copy = kept.copy]
<1>2. /\ p \in RequestType /\ Sound(p) /\ p.kind \in {"none", kind} /\ p.pc = "idle"
      /\ UNCHANGED <<storageVars, streamVars, crashed>>
  BY RequestTypes DEF Use
<1>3. /\ kept.session \in Sessions /\ kept.copy \in SessionType /\ Owns(kept.copy, kept.session)
      /\ p.kind # "none" => kept.session = p.session
  <2>1. CASE p.session # None
    <3>1. kept.session = p.session /\ kept.copy = p.copy
      BY <2>1 DEF Kept
    <3> QED
      BY <1>2, <2>1, <3>1 DEF Sound, RequestType
  <2>2. CASE p.session = None
    <3>1. p.kind = "none"
      BY <1>2, <2>2, SessionAssumption DEF Sound, None
    <3>2. PICK s \in Sessions : kept.session = s /\ kept.copy = Load(s)
      BY <2>2 DEF Kept
    <3> QED
      BY <3>1, <3>2 DEF IInv, TypeOK, StoredOwns, Load
  <2> QED
    BY <2>1, <2>2
<1>4. pc \in RequestPCs /\ kind \in SomeKind /\ kept.session \in SomeSession /\ kind # "none"
  BY <1>3 DEF RequestPCs, SomeKind, Kinds, SomeSession, Keepers
<1>5. pc = "loaded" => p.sends < MaxSends
  OBVIOUS
<1> HIDE DEF p
<1>6. q \in RequestType
  BY <1>2, <1>3, <1>4 DEF RequestType
<1>7. q.kind = kind /\ q.session = kept.session /\ q.pc = pc /\ q.copy = kept.copy /\ q.sends = p.sends
  BY <1>2 DEF RequestType
<1>8. request' = [request EXCEPT ![r] = q]
  BY <1>1
<1> HIDE DEF q
<1>9. Sound(q)
  BY <1>3, <1>4, <1>5, <1>7 DEF Sound
<1>10. Moves(r, request')
  BY <1>2, <1>3, <1>6, <1>7, <1>8, <1>9 DEF Moves, p
<1> QED
  BY <1>2, <1>10, RequestAlone

LEMMA DeleteFileStep ==
  ASSUME IInv, NEW r \in Requests, DeleteFile(r)
  PROVE  IInv'
<1> DEFINE p == request[r]
<1>1. PICK s \in Sessions, status \in Statuses :
        request' = [request EXCEPT ![r] = [p EXCEPT !.kind = "deleteFile", !.session = s, !.pc = "done", !.status = status]]
  BY DEF DeleteFile
<1> DEFINE q == [p EXCEPT !.kind = "deleteFile", !.session = s, !.pc = "done", !.status = status]
<1>3. p \in RequestType /\ Sound(p) /\ p.kind = "none" /\ UNCHANGED <<storageVars, streamVars, crashed>>
  BY RequestTypes DEF DeleteFile
<1>4. p.copy = EmptySession /\ Owns(EmptySession, s)
  BY <1>3, EmptyOwns DEF Sound
<1>5. /\ "done" \in RequestPCs /\ s \in SomeSession
      /\ "deleteFile" \in SomeKind /\ "deleteFile" \notin Keepers
  BY DEF RequestPCs, SomeKind, Kinds, SomeSession, Handlers, Keepers
<1> HIDE DEF p
<1>6. q \in RequestType
  BY <1>3, <1>5 DEF RequestType
<1>7. q.kind = "deleteFile" /\ q.session = s /\ q.pc = "done" /\ q.copy = p.copy
  BY <1>3 DEF RequestType
<1>8. request' = [request EXCEPT ![r] = q]
  BY <1>1
<1> HIDE DEF q
<1>9. Sound(q)
  BY <1>4, <1>5, <1>7 DEF Sound
<1>10. Moves(r, request')
  BY <1>3, <1>6, <1>8, <1>9 DEF Moves, p
<1> QED
  BY <1>3, <1>10, RequestAlone

LEMMA MakeToolbarsStep ==
  ASSUME IInv, NEW r \in Requests, MakeToolbars(r)
  PROVE  IInv'
<1> DEFINE p == request[r]
<1>1. p \in RequestType /\ Sound(p) /\ p.pc = "make" /\ UNCHANGED <<storageVars, streamVars, crashed>>
  BY RequestTypes DEF MakeToolbars
<1>1a. p.kind \notin Keepers \cup {"none"}
  BY <1>1 DEF Sound
<1>2. CASE request' = [request EXCEPT ![r].pc = "save"]
  <2> DEFINE q == [p EXCEPT !.pc = "save"]
  <2>1. request' = [request EXCEPT ![r] = q]
    BY <1>2
  <2>2. "save" \in RequestPCs
    BY DEF RequestPCs
  <2> HIDE DEF p
  <2>3. q \in RequestType /\ q.kind = p.kind /\ q.session = p.session /\ q.pc = "save" /\ q.copy = p.copy
    BY <1>1, <2>2 DEF RequestType
  <2> HIDE DEF q
  <2>4. Sound(q)
    BY <1>1, <2>3 DEF Sound
  <2>5. Moves(r, request')
    BY <2>1, <2>3, <2>4 DEF Moves, p
  <2> QED
    BY <1>1, <2>5, RequestAlone
<1>3. CASE request' = Answer(r, 400)
  <2>1. Moves(r, request')
    BY <1>1, <1>1a, <1>3, AnswerMoves DEF Statuses
  <2> QED
    BY <1>1, <2>1, RequestAlone
<1> QED
  BY <1>2, <1>3 DEF MakeToolbars

LEMMA ReloadInformationStep ==
  ASSUME IInv, NEW r \in Requests, ReloadInformation(r)
  PROVE  IInv'
<1> DEFINE p == request[r]
<1> DEFINE q == [p EXCEPT !.copy = Load(p.session)]
<1>1. /\ p \in RequestType /\ Sound(p) /\ p.pc = "idle" /\ p.kind = "ProjectControl"
      /\ UNCHANGED <<storageVars, streamVars, crashed>>
      /\ request' = [request EXCEPT ![r] = q]
  BY RequestTypes DEF ReloadInformation
<1> HIDE DEF p
<1>2. Load(p.session) \in SessionType /\ Owns(Load(p.session), p.session)
  BY <1>1 DEF IInv, TypeOK, StoredOwns, Load, Sound
<1>3. q \in RequestType /\ q.kind = p.kind /\ q.session = p.session /\ q.pc = p.pc /\ q.copy = Load(p.session)
  BY <1>1, <1>2 DEF RequestType
<1> HIDE DEF q
<1>4. Sound(q)
  BY <1>1, <1>2, <1>3 DEF Sound
<1>5. Moves(r, request')
  BY <1>1, <1>3, <1>4 DEF Moves, p
<1> QED
  BY <1>1, <1>5, RequestAlone

-----------------------------------------------------------------------------
(* Sending and saving.                                                     *)

LEMMA SendStep ==
  ASSUME IInv, NEW r \in Requests, Send(r)
  PROVE  IInv'
<1> DEFINE p == request[r]
<1>1. p \in RequestType /\ Sound(p) /\ p.pc = "loaded" /\ UNCHANGED <<storageVars, streamVars, crashed>>
  BY RequestTypes DEF Send
<1>2. p.kind # "none" /\ p.session \in Sessions
  BY <1>1 DEF Sound
<1>3. CASE request' = Return(r, Answer(r, 400))
  <2>1. Moves(r, request')
    <3>1. CASE p.kind \in Keepers
      BY <1>1, <1>3, <3>1, KeeperMoves
    <3>2. CASE p.kind \notin Keepers
      <4>1. request' = Answer(r, 400)
        BY <1>3, <3>2 DEF Return
      <4> QED
        BY <1>2, <3>2, <4>1, AnswerMoves DEF Statuses
    <3> QED
      BY <3>1, <3>2
  <2> QED
    BY <1>1, <2>1, RequestAlone
<1>4. ASSUME NEW k \in Find(r), request' = [request EXCEPT ![r] = [@ EXCEPT !.pc = "write", !.to = k,
                                                                   !.left = Len(Parts(request[r].kind))]]
      PROVE  IInv'
  <2> DEFINE left == Len(Parts(p.kind))
  <2>1. left \in Left /\ left \in 1 .. left
    BY PartsType DEF Left
  <2> HIDE DEF left
  <2> DEFINE q == [p EXCEPT !.pc = "write", !.to = k, !.left = left]
  <2>2. request' = [request EXCEPT ![r] = q]
    BY <1>4 DEF left
  <2>3. k \in Sockets /\ LoggedInTo(k, p.session, ChannelOf(p.kind))
    <3>1. PICK c \in connections :
            /\ k = c[2] /\ c[1] = p.copy[Field(ChannelOf(p.kind))]
            /\ socket[c[2]].channel = ChannelOf(p.kind)
      BY DEF Find
    <3>2. k \in Sockets /\ socket[k].streamId = c[1] /\ socket[k].pc # "none"
      BY <3>1 DEF IInv, TypeOK, IdsAreOwn
    <3>3. ChannelOf(p.kind) \in Channels
      BY DEF ChannelOf, Channels
    <3> HIDE DEF p
    <3> QED
      BY <1>1, <3>1, <3>2, <3>3 DEF Sound, Owns
  <2>4. "write" \in RequestPCs /\ k \in SomeSocket
    BY <2>3 DEF RequestPCs, SomeSocket
  <2> HIDE DEF p
  <2>5. q \in RequestType
    BY <1>1, <2>1, <2>4 DEF RequestType
  <2>6. /\ q.kind = p.kind /\ q.session = p.session /\ q.pc = "write" /\ q.copy = p.copy /\ q.sends = p.sends
        /\ q.to = k /\ q.left = left
    BY <1>1 DEF RequestType
  <2> HIDE DEF q
  <2>7. Sound(q)
    BY <1>1, <1>2, <2>1, <2>3, <2>6 DEF Sound, left
  <2>8. Moves(r, request')
    BY <2>2, <2>5, <2>6, <2>7 DEF Moves, p
  <2> QED
    BY <1>1, <2>8, RequestAlone
<1> QED
  BY <1>3, <1>4 DEF Send

(* The last part of a message.                                             *)
LEMMA SentMoves ==
  ASSUME IInv, NEW r \in Requests, request[r].pc = "write"
  PROVE  Moves(r, Return(r, Sent(r)))
<1> DEFINE p == request[r]
<1>1. p \in RequestType /\ Sound(p) /\ p.pc = "write"
  BY RequestTypes
<1>2. p.kind # "none"
  BY <1>1 DEF Sound
<1>3. CASE p.kind \in Keepers
  BY <1>1, <1>3, KeeperMoves
<1>4. CASE p.kind \notin Keepers /\ p.kind # "open"
  <2>1. Return(r, Sent(r)) = Answer(r, 200)
    BY <1>4 DEF Return, Sent
  <2> QED
    BY <1>2, <1>4, <2>1, AnswerMoves DEF Statuses
<1>5. CASE p.kind \notin Keepers /\ p.kind = "open"
  <2> DEFINE q == [p EXCEPT !.pc = "save", !.to = None, !.left = 0]
  <2>1. Return(r, Sent(r)) = [request EXCEPT ![r] = q]
    BY <1>5 DEF Return, Sent
  <2>2. "save" \in RequestPCs /\ None \in SomeSocket /\ 0 \in Left
    BY DEF RequestPCs, SomeSocket, Left
  <2> HIDE DEF p
  <2>3. q \in RequestType
    BY <1>1, <2>2 DEF RequestType
  <2>4. q.kind = p.kind /\ q.session = p.session /\ q.pc = "save" /\ q.copy = p.copy
    BY <1>1 DEF RequestType
  <2> HIDE DEF q
  <2>5. Sound(q)
    BY <1>1, <1>5, <2>4 DEF Sound
  <2> QED
    BY <2>1, <2>3, <2>4, <2>5 DEF Moves, p
<1> QED
  BY <1>3, <1>4, <1>5

LEMMA WriteStep ==
  ASSUME IInv, NEW r \in Requests, Write(r)
  PROVE  IInv'
<1> DEFINE p == request[r]
<1> DEFINE parts == Parts(p.kind)
<1> DEFINE part == parts[Len(parts) + 1 - p.left]
<1>1. p \in RequestType /\ Sound(p) /\ p.pc = "write"
  BY RequestTypes DEF Write
<1>2. /\ p.kind # "none" /\ p.to \in Sockets /\ LoggedInTo(p.to, p.session, ChannelOf(p.kind))
      /\ p.left \in 1 .. Len(parts)
  BY <1>1 DEF Sound
<1>3. /\ UNCHANGED <<stored, storageLock, increment, freeIds, connections, socket>>
      /\ stored' \in [Sessions -> SessionType] /\ \A s \in Sessions : Owns(stored'[s], s)
  BY DEF Write, storageVars, IInv, TypeOK, StoredOwns
<1>4. part \in {"head", "data", "end"} /\ (part # "end" => p.left - 1 \in 1 .. Len(parts) /\ p.left - 1 \in Left)
  <2> DEFINE n == Len(parts)  i == n + 1 - p.left
  <2>1. /\ n \in {2, 3} /\ \A j \in 1 .. n : parts[j] \in {"head", "data", "end"}
        /\ \A j \in 1 .. n : parts[j] # "end" => j < n
    BY PartsType
  <2>2. p.left \in 1 .. n
    BY <1>2
  <2> HIDE DEF n, parts, p
  <2>3. i \in 1 .. n /\ i = n + 1 - p.left
    BY <2>1, <2>2
  <2>4. part = parts[i]
    BY DEF n
  <2> HIDE DEF i, part
  <2>5. part \in {"head", "data", "end"} /\ (part # "end" => i < n)
    BY <2>1, <2>3, <2>4
  <2>6. i < n => p.left - 1 \in 1 .. n /\ p.left - 1 \in 0 .. 3
    BY <2>1, <2>2, <2>3
  <2> QED
    BY <2>5, <2>6 DEF n, Left
<1>5. CASE crashed' = TRUE /\ UNCHANGED <<sent, request>>
  <2>1. Moves(r, request')
    <3>1. request \in [Requests -> RequestType] /\ p \in RequestType /\ Sound(p)
      BY RequestTypes
    <3>2. request' = [request EXCEPT ![r] = p]
      BY <1>5, <3>1
    <3> QED
      BY <3>1, <3>2 DEF Moves
  <2>2. /\ sent' \in [Sockets -> SUBSET ((Sockets \cup Requests) \X {"head", "data", "end"})]
        /\ \A k \in Sockets : \A e \in sent'[k] : SentBy(k, e[1])
    BY <1>5 DEF IInv, TypeOK, SentSound
  <2> QED
    BY <1>3, <1>5, <2>1, <2>2, RequestMoves
<1>6. CASE /\ sent' = [sent EXCEPT ![p.to] = @ \cup {<<r, part>>}]
           /\ request' = IF part # "end" THEN [request EXCEPT ![r].left = @ - 1]
                         ELSE Return(r, Sent(r))
           /\ UNCHANGED crashed
  <2>1. /\ sent' \in [Sockets -> SUBSET ((Sockets \cup Requests) \X {"head", "data", "end"})]
        /\ \A k \in Sockets : \A e \in sent'[k] : SentBy(k, e[1])
    <3> DEFINE to == p.to
    <3>1. SentBy(to, r)
      BY <1>2 DEF SentBy
    <3>2. sent' = [sent EXCEPT ![to] = sent[to] \cup {<<r, part>>}]
      BY <1>6
    <3>3. to \in Sockets
      BY <1>2
    <3>4. part \in {"head", "data", "end"}
      BY <1>4
    <3> HIDE DEF to, part, p
    <3>5. \A k \in Sockets : sent'[k] = IF k = to THEN sent[to] \cup {<<r, part>>} ELSE sent[k]
      BY <3>2, <3>3 DEF IInv, TypeOK
    <3>6. sent' \in [Sockets -> SUBSET ((Sockets \cup Requests) \X {"head", "data", "end"})]
      BY <3>2, <3>3, <3>4 DEF IInv, TypeOK
    <3>7. ASSUME NEW k \in Sockets, NEW e \in sent'[k]
          PROVE  SentBy(k, e[1])
      <4>1. CASE e \in sent[k]
        BY <4>1 DEF IInv, SentSound
      <4>2. CASE k = to /\ e = <<r, part>>
        <5>1. e[1] = r
          BY <4>2
        <5> QED
          BY <3>1, <4>2, <5>1
      <4> QED
        BY <3>5, <3>7, <4>1, <4>2
    <3> QED
      BY <3>6, <3>7
  <2>2. Moves(r, request')
    <3>1. CASE part = "end"
      BY <1>1, <1>6, <3>1, SentMoves
    <3>2. CASE part # "end"
      <4> DEFINE left == p.left - 1
      <4> DEFINE q == [p EXCEPT !.left = left]
      <4>1. request' = [request EXCEPT ![r] = q]
        BY <1>6, <3>2
      <4>2. left \in 1 .. Len(Parts(p.kind)) /\ left \in Left
        BY <1>4, <3>2
      <4> HIDE DEF p, left
      <4>3. q \in RequestType
        BY <1>1, <4>2 DEF RequestType
      <4>4. /\ q.kind = p.kind /\ q.session = p.session /\ q.pc = p.pc /\ q.copy = p.copy /\ q.sends = p.sends
            /\ q.to = p.to /\ q.left = left
        BY <1>1 DEF RequestType
      <4> HIDE DEF q
      <4>5. Sound(q)
        BY <1>1, <1>2, <4>2, <4>4 DEF Sound
      <4> QED
        BY <4>1, <4>3, <4>4, <4>5 DEF Moves, p
    <3> QED
      BY <3>1, <3>2
  <2>3. crashed' \in BOOLEAN
    BY <1>6 DEF IInv, TypeOK
  <2> QED
    BY <1>3, <2>1, <2>2, <2>3, RequestMoves
<1> QED
  BY <1>5, <1>6 DEF Write

(* A field of a session that is no id.                                     *)
LEMMA SaveMoves ==
  ASSUME IInv, NEW r \in Requests, NEW field \in {"root", "toolbarStore"},
         request[r].pc = "save",
         PartiallySave(request[r].session, request[r].copy, field, r),
         request' = Answer(r, 200), UNCHANGED <<streamVars, crashed>>
  PROVE  IInv'
<1> DEFINE here == request[r].session
<1>1. /\ Sound(request[r]) /\ request[r].kind \notin Keepers \cup {"none"} /\ here \in Sessions
      /\ stored' = [stored EXCEPT ![here] = [stored[here] EXCEPT ![field] = r]] /\ storageLock' = storageLock
  <2>1. Sound(request[r])
    BY RequestTypes
  <2> QED
    BY <2>1 DEF Sound, PartiallySave
<1> HIDE DEF here
<1>2. Moves(r, request')
  BY <1>1, AnswerMoves DEF Statuses
<1>3. [stored[here] EXCEPT ![field] = r] \in SessionType
  <2>1. r \in Requests \cup {None} /\ stored[here] \in SessionType
    BY <1>1 DEF IInv, TypeOK
  <2>2. CASE field = "root"
    BY <2>1, <2>2 DEF SessionType
  <2>3. CASE field = "toolbarStore"
    BY <2>1, <2>3 DEF SessionType
  <2> QED
    BY <2>2, <2>3
<1>4. stored' \in [Sessions -> SessionType]
  BY <1>1, <1>3 DEF IInv, TypeOK
<1>5. ASSUME NEW s \in Sessions
      PROVE  Owns(stored'[s], s)
  <2>1. stored[s] \in SessionType
    BY DEF IInv, TypeOK
  <2>2. \A f \in {"dataId", "controlId"} : stored'[s][f] = stored[s][f]
    <3>1. CASE s = here
      <4>1. stored'[s] = [stored[s] EXCEPT ![field] = r]
        BY <1>1, <3>1 DEF IInv, TypeOK
      <4> QED
        BY <2>1, <4>1 DEF SessionType
    <3>2. CASE s # here
      BY <1>1, <3>2 DEF IInv, TypeOK
    <3> QED
      BY <3>1, <3>2
  <2>3. Owns(stored[s], s)
    BY DEF IInv, StoredOwns
  <2> QED
    BY <2>2, <2>3, FieldType DEF Owns
<1>6. /\ UNCHANGED <<storageLock, increment, freeIds, connections, socket>>
      /\ sent' \in [Sockets -> SUBSET ((Sockets \cup Requests) \X {"head", "data", "end"})]
      /\ \A k \in Sockets : \A e \in sent'[k] : SentBy(k, e[1])
      /\ crashed' \in BOOLEAN
  BY <1>1 DEF streamVars, IInv, TypeOK, SentSound
<1> QED
  BY <1>2, <1>4, <1>5, <1>6, RequestMoves

-----------------------------------------------------------------------------
(* The websockets.                                                         *)

(* What of the types does not depend on the ids there are.                 *)
LEMMA TypesGrow ==
  ASSUME IInv, increment' \in Nat, increment <= increment'
  PROVE  /\ SessionType \subseteq SessionType' /\ SocketType \subseteq SocketType'
         /\ RequestType \subseteq RequestType'
<1>1. Ids \subseteq Ids'
  BY DEF Ids, IInv, TypeOK
<1>2. SessionType \subseteq SessionType'
  BY <1>1 DEF SessionType
<1> QED
  BY <1>1, <1>2 DEF SocketType, RequestType

(* Whatever happens to websockets that have no id yet, or that log in to   *)
(* nothing else than they have, what was owned stays so.                   *)
LEMMA LoginsStay ==
  ASSUME IInv, NEW k \in Sockets,
         \A j \in Sockets : j # k => socket'[j] = socket[j],
         \A s, channel : LoggedInTo(k, s, channel) => LoggedInTo(k, s, channel)',
         socket'[k].pc # "none",
         (socket'[k].streamId = socket[k].streamId /\ socket[k].pc # "none") \/ socket'[k].streamId = increment + 1
  PROVE  /\ \A j \in Sockets : \A s, channel : LoggedInTo(j, s, channel) => LoggedInTo(j, s, channel)'
         /\ \A copy \in SessionType : \A s : Owns(copy, s) => Owns(copy, s)'
<1>1. ASSUME NEW j \in Sockets, NEW s, NEW channel, LoggedInTo(j, s, channel)
      PROVE  LoggedInTo(j, s, channel)'
  <2>1. CASE j = k
    BY <1>1, <2>1
  <2>2. CASE j # k
    BY <1>1, <2>2 DEF LoggedInTo
  <2> QED
    BY <2>1, <2>2
<1>2. ASSUME NEW copy \in SessionType, NEW s, Owns(copy, s),
             NEW channel \in Channels, NEW j \in Sockets,
             socket'[j].pc # "none", socket'[j].streamId = copy[Field(channel)]
      PROVE  LoggedInTo(j, s, channel)'
  <2>1. copy[Field(channel)] \in Ids
    BY FieldType DEF SessionType
  <2>2. socket[j].pc # "none" /\ socket[j].streamId = copy[Field(channel)]
    <3>1. CASE j # k
      BY <1>2, <3>1
    <3>2. CASE j = k
      BY <1>2, <2>1, <3>2 DEF Ids, IInv, TypeOK
    <3> QED
      BY <3>1, <3>2
  <2>3. LoggedInTo(j, s, channel)
    BY <1>2, <2>2 DEF Owns
  <2> QED
    BY <1>1, <2>3
<1>3. ASSUME NEW copy \in SessionType, NEW s, Owns(copy, s)
      PROVE  Owns(copy, s)'
  BY <1>2, <1>3 DEF Owns
<1> QED
  BY <1>1, <1>3

(* A step of websocket k that keeps its id, or gets a new one.             *)
LEMMA SocketMoves ==
  ASSUME IInv, NEW k \in Sockets,
         increment' \in Nat, increment <= increment',
         socket' \in [Sockets -> SocketType]',
         \A j \in Sockets : j # k => socket'[j] = socket[j],
         \A s, channel : LoggedInTo(k, s, channel) => LoggedInTo(k, s, channel)',
         socket'[k].pc # "none",
         socket'[k].pc = "save" => socket'[k].session \in Sessions /\ socket'[k].channel \in Channels,
         \/ socket'[k].streamId = socket[k].streamId /\ socket[k].pc # "none"
         \/ socket[k].pc = "none" /\ socket'[k].streamId = increment + 1 /\ increment' = increment + 1,
         stored' \in [Sessions -> SessionType]', \A s \in Sessions : Owns(stored[s], s)',
         NEW E \in SUBSET ({k} \X {"head", "data", "end"}), sent' = [sent EXCEPT ![k] = @ \cup E],
         connections' \subseteq connections \cup {<<socket'[k].streamId, k>>},
         UNCHANGED <<request, crashed, freeIds, storageLock>>
  PROVE  IInv'
<1>1. /\ SessionType \subseteq SessionType' /\ SocketType \subseteq SocketType'
      /\ RequestType \subseteq RequestType'
  BY TypesGrow
<1>2. /\ \A j \in Sockets : \A s, channel : LoggedInTo(j, s, channel) => LoggedInTo(j, s, channel)'
      /\ \A copy \in SessionType : \A s : Owns(copy, s) => Owns(copy, s)'
  BY LoginsStay
<1>3. /\ \A j \in Sockets : socket'[j].pc # "none" => socket'[j].streamId \in 1 .. increment'
      /\ \A i, j \in Sockets :
           socket'[i].pc # "none" /\ socket'[j].pc # "none" /\ socket'[i].streamId = socket'[j].streamId => i = j
  <2>1. ASSUME NEW j \in Sockets, socket'[j].pc # "none"
        PROVE  socket'[j].streamId \in 1 .. increment' /\ (j # k => socket'[j].streamId # socket'[k].streamId)
    <3>1. CASE j # k
      <4>1. socket[j].pc # "none" /\ socket[j].streamId = socket'[j].streamId /\ socket[j].streamId \in 1 .. increment
        BY <2>1, <3>1 DEF IInv, IdsAreOwn
      <4>2. CASE socket'[k].streamId = socket[k].streamId /\ socket[k].pc # "none"
        BY <3>1, <4>1, <4>2 DEF IInv, IdsAreOwn, TypeOK
      <4>3. CASE socket'[k].streamId = increment + 1
        BY <4>1, <4>3 DEF IInv, TypeOK
      <4> QED
        BY <4>2, <4>3
    <3>2. CASE j = k
      BY <3>2 DEF IInv, IdsAreOwn, TypeOK
    <3> QED
      BY <3>1, <3>2
  <2>2. ASSUME NEW i \in Sockets, NEW j \in Sockets,
               socket'[i].pc # "none", socket'[j].pc # "none", socket'[i].streamId = socket'[j].streamId
        PROVE  i = j
    <3>1. CASE i = k \/ j = k
      BY <2>1, <2>2, <3>1
    <3>2. CASE i # k /\ j # k
      BY <2>2, <3>2 DEF IInv, IdsAreOwn
    <3> QED
      BY <3>1, <3>2
  <2> QED
    BY <2>1, <2>2
<1>4. \A c \in connections' :
        c \in (1 .. increment') \X Sockets /\ socket'[c[2]].streamId = c[1] /\ socket'[c[2]].pc # "none"
  <2> SUFFICES ASSUME NEW c \in connections'
               PROVE  c \in (1 .. increment') \X Sockets /\ socket'[c[2]].streamId = c[1] /\ socket'[c[2]].pc # "none"
    OBVIOUS
  <2>1. CASE c = <<socket'[k].streamId, k>>
    <3>1. c[1] = socket'[k].streamId /\ c[2] = k
      BY <2>1
    <3> QED
      BY <1>3, <2>1, <3>1
  <2>2. CASE c \in connections
    <3>1. /\ c \in (1 .. increment) \X Sockets /\ socket[c[2]].streamId = c[1] /\ socket[c[2]].pc # "none"
      BY <2>2 DEF IInv, TypeOK, IdsAreOwn
    <3>2. c[1] \in 1 .. increment' /\ c[2] \in Sockets /\ c = <<c[1], c[2]>>
      BY <3>1 DEF IInv, TypeOK
    <3>3. socket'[c[2]].streamId = c[1] /\ socket'[c[2]].pc # "none"
      <4>1. CASE c[2] # k
        BY <3>1, <3>2, <4>1
      <4>2. CASE c[2] = k /\ socket'[k].streamId = socket[k].streamId
        BY <3>1, <3>2, <4>2
      <4>3. CASE c[2] = k /\ socket'[k].streamId # socket[k].streamId
        <5>1. socket[k].pc # "none" /\ socket[k].streamId = c[1]
          BY <3>1, <4>3
        <5> QED
          BY <5>1, <4>3
      <4> QED
        BY <4>1, <4>2, <4>3
    <3> QED
      BY <3>2, <3>3
  <2> QED
    BY <2>1, <2>2
<1>5. sent' \in [Sockets -> SUBSET ((Sockets \cup Requests) \X {"head", "data", "end"})]
  <2>1. E \subseteq (Sockets \cup Requests) \X {"head", "data", "end"}
    OBVIOUS
  <2> QED
    BY <2>1 DEF IInv, TypeOK
<1>6. TypeOK'
  <2>1. request' \in [Requests -> RequestType]'
    BY <1>1 DEF IInv, TypeOK
  <2>2. freeIds' = {} /\ crashed' \in BOOLEAN /\ storageLock' = None
    BY DEF IInv, TypeOK, IdsAreOwn
  <2>3. connections' \in SUBSET ((1 .. increment') \X Sockets)
    BY <1>4
  <2>4. \A c \in connections' : socket'[c[2]].streamId = c[1]
    BY <1>4
  <2> QED
    BY <1>5, <2>1, <2>2, <2>3, <2>4 DEF TypeOK
<1>7. IdsAreOwn'
  <2>1. freeIds' = {}
    BY DEF IInv, IdsAreOwn
  <2> QED
    BY <1>3, <1>4, <2>1 DEF IdsAreOwn
<1>8. StoredOwns'
  BY DEF StoredOwns
<1>9. RequestsSound'
  <2> SUFFICES ASSUME NEW r \in Requests  PROVE Sound(request[r])'
    BY DEF RequestsSound
  <2> DEFINE q == request[r]
  <2>1. Sound(q) /\ q.copy \in SessionType /\ q' = q
    BY RequestTypes DEF RequestType
  <2> HIDE DEF q
  <2>2. Sound(q)'
    BY <1>2, <2>1 DEF Sound
  <2> QED
    BY <2>2 DEF q
<1>10. SentSound'
  <2> SUFFICES ASSUME NEW j \in Sockets, NEW e \in sent'[j]  PROVE SentBy(j, e[1])'
    BY DEF SentSound
  <2>1. CASE e \in sent[j]
    <3>1. SentBy(j, e[1])
      BY <2>1 DEF IInv, SentSound
    <3> QED
      BY <1>2, <3>1 DEF SentBy
  <2>2. CASE j = k /\ e \in E
    <3>1. e[1] = k
      BY <2>2
    <3> QED
      BY <2>2, <3>1 DEF SentBy
  <2>3. sent'[j] \subseteq sent[j] \cup (IF j = k THEN E ELSE {})
    BY DEF IInv, TypeOK
  <2> QED
    BY <2>1, <2>2, <2>3
<1>11. LoginsSound'
  <2> SUFFICES ASSUME NEW j \in Sockets, socket'[j].pc = "save"
               PROVE  socket'[j].session \in Sessions /\ socket'[j].channel \in Channels
    BY DEF LoginsSound
  <2>1. CASE j = k
    BY <2>1
  <2>2. CASE j # k
    BY <2>2 DEF IInv, LoginsSound
  <2> QED
    BY <2>1, <2>2
<1> QED
  BY <1>6, <1>7, <1>8, <1>9, <1>10, <1>11 DEF IInv

LEMMA SocketTypes ==
  ASSUME IInv, NEW k \in Sockets
  PROVE  socket \in [Sockets -> SocketType] /\ socket[k] \in SocketType
BY DEF IInv, TypeOK

(* A step that saves nothing.                                              *)
LEMMA NothingSaved ==
  ASSUME IInv, NEW k \in Sockets,
         increment' \in Nat, increment <= increment',
         UNCHANGED storageVars,
         \A j \in Sockets : j # k => socket'[j] = socket[j],
         \A s, channel : LoggedInTo(k, s, channel) => LoggedInTo(k, s, channel)',
         socket'[k].pc # "none",
         \/ socket'[k].streamId = socket[k].streamId /\ socket[k].pc # "none"
         \/ socket'[k].streamId = increment + 1
  PROVE  stored' \in [Sessions -> SessionType]' /\ \A s \in Sessions : Owns(stored[s], s)'
<1>1. \A copy \in SessionType : \A s : Owns(copy, s) => Owns(copy, s)'
  BY LoginsStay
<1>2. SessionType \subseteq SessionType' /\ stored' = stored
  BY TypesGrow DEF storageVars
<1>3. stored \in [Sessions -> SessionType] /\ \A s \in Sessions : Owns(stored[s], s)
  BY DEF IInv, TypeOK, StoredOwns
<1>4. ASSUME NEW s \in Sessions  PROVE Owns(stored[s], s)'
  <2> DEFINE copy == stored[s]
  <2>1. copy \in SessionType /\ Owns(copy, s) /\ copy' = copy
    BY <1>2, <1>3
  <2> HIDE DEF copy
  <2>2. Owns(copy, s)'
    BY <1>1, <2>1 DEF Owns
  <2> QED
    BY <2>2 DEF copy
<1> QED
  BY <1>2, <1>3, <1>4

LEMMA AcceptStep ==
  ASSUME IInv, NEW k \in Sockets, Accept(k)
  PROVE  IInv'
<1> DEFINE p == socket[k]
<1> DEFINE q == [p EXCEPT !.pc = "Initial", !.streamId = increment + 1]
<1>1. /\ p \in SocketType /\ p.pc = "none" /\ increment \in Nat
      /\ AcquiredId = increment + 1 /\ increment' = increment + 1 /\ freeIds' = freeIds
      /\ UNCHANGED <<storageVars, sent, request, crashed>>
  BY SocketTypes DEF Accept, AcquiredId, IInv, IdsAreOwn, TypeOK
<1>2. socket' = [socket EXCEPT ![k] = q] /\ connections' = connections \cup {<<increment + 1, k>>}
  BY <1>1 DEF Accept, Setup
<1>3. SocketType \subseteq SocketType'
  BY <1>1, TypesGrow
<1>4. increment + 1 \in Ids' /\ "Initial" \in SocketPCs
  BY <1>1 DEF Ids, SocketPCs
<1> HIDE DEF p
<1>5. q \in SocketType'
  BY <1>1, <1>3, <1>4 DEF SocketType
<1>6. q.pc = "Initial" /\ q.streamId = increment + 1
  BY <1>1 DEF SocketType
<1> HIDE DEF q
<1>7. socket' \in [Sockets -> SocketType]' /\ socket'[k] = q /\ \A j \in Sockets : j # k => socket'[j] = socket[j]
  BY <1>2, <1>3, <1>5, SocketTypes
<1>8. \A s, channel : LoggedInTo(k, s, channel) => LoggedInTo(k, s, channel)'
  BY <1>1 DEF LoggedInTo, p
<1>9. increment' \in Nat /\ increment <= increment'
  BY <1>1
<1>10. stored' \in [Sessions -> SessionType]' /\ \A s \in Sessions : Owns(stored[s], s)'
  BY <1>1, <1>6, <1>7, <1>8, <1>9, NothingSaved
<1>11. storageLock' = storageLock /\ sent' = [sent EXCEPT ![k] = @ \cup {}]
  BY <1>1 DEF storageVars, IInv, TypeOK
<1>12. connections' \subseteq connections \cup {<<socket'[k].streamId, k>>}
  BY <1>2, <1>6, <1>7
<1>13. socket[k].pc = "none" /\ socket'[k].streamId = increment + 1 /\ increment' = increment + 1
       /\ socket'[k].pc # "none" /\ socket'[k].pc # "save"
       /\ UNCHANGED <<request, crashed, freeIds, storageLock>>
  BY <1>1, <1>6, <1>7, <1>11 DEF p
<1> QED
  BY <1>7, <1>8, <1>9, <1>10, <1>11, <1>12, <1>13, SocketMoves

(* A websocket that keeps its id, with nothing saved.                      *)
LEMMA SocketGoesOn ==
  ASSUME IInv, NEW k \in Sockets, NEW q \in SocketType, socket' = [socket EXCEPT ![k] = q],
         socket[k].pc # "none", q.pc # "none", q.streamId = socket[k].streamId,
         q.pc = "save" => q.session \in Sessions /\ q.channel \in Channels,
         \A s, channel : LoggedInTo(k, s, channel) =>
            q.pc # "Initial" /\ q.session = s /\ q.channel = channel,
         NEW E \in SUBSET ({k} \X {"head", "data", "end"}), sent' = [sent EXCEPT ![k] = @ \cup E],
         connections' \subseteq connections,
         UNCHANGED <<storageVars, increment, freeIds, request, crashed>>
  PROVE  IInv'
<1>1. SocketType \subseteq SocketType' /\ increment' \in Nat /\ increment <= increment'
  BY TypesGrow DEF IInv, TypeOK
<1>2. socket' \in [Sockets -> SocketType]' /\ socket'[k] = q /\ \A j \in Sockets : j # k => socket'[j] = socket[j]
  BY <1>1, SocketTypes
<1>3. \A s, channel : LoggedInTo(k, s, channel) => LoggedInTo(k, s, channel)'
  BY <1>2 DEF LoggedInTo
<1>4. stored' \in [Sessions -> SessionType]' /\ \A s \in Sessions : Owns(stored[s], s)'
  BY <1>1, <1>2, <1>3, NothingSaved
<1>5. /\ connections' \subseteq connections \cup {<<socket'[k].streamId, k>>}
      /\ UNCHANGED <<request, crashed, freeIds, storageLock>>
      /\ socket'[k].streamId = socket[k].streamId /\ socket[k].pc # "none" /\ socket'[k].pc # "none"
      /\ socket'[k].pc = "save" => socket'[k].session \in Sessions /\ socket'[k].channel \in Channels
  BY <1>2 DEF storageVars
<1> QED
  BY <1>1, <1>2, <1>3, <1>4, <1>5, SocketMoves

LEMMA AuthenticateStep ==
  ASSUME IInv, NEW k \in Sockets, Authenticate(k)
  PROVE  IInv'
<1> DEFINE p == socket[k]
<1>1. /\ p \in SocketType /\ p.pc = "Initial"
      /\ UNCHANGED <<storageVars, increment, freeIds, connections, sent, request, crashed>>
  BY SocketTypes DEF Authenticate
<1>2. ASSUME NEW q \in SocketType, socket' = [socket EXCEPT ![k] = q], q.pc # "none", q.streamId = p.streamId,
             q.pc = "save" => q.session \in Sessions /\ q.channel \in Channels
      PROVE  IInv'
  <2>1. \A s, channel : ~LoggedInTo(k, s, channel)
    BY <1>1 DEF LoggedInTo
  <2>2. sent' = [sent EXCEPT ![k] = @ \cup {}] /\ connections' \subseteq connections /\ socket[k].pc # "none"
    BY <1>1 DEF IInv, TypeOK
  <2> HIDE DEF p
  <2> QED
    BY <1>1, <1>2, <2>1, <2>2, SocketGoesOn DEF p
<1>3. ASSUME NEW s \in Sessions, NEW channel \in Channels,
             socket' = [socket EXCEPT ![k].pc = "save", ![k].channel = channel,
                                      ![k].session = s, ![k].copy = Load(s)]
      PROVE  IInv'
  <2> DEFINE q == [p EXCEPT !.pc = "save", !.channel = channel, !.session = s, !.copy = Load(s)]
  <2>1. socket' = [socket EXCEPT ![k] = q]
    BY <1>3, SocketTypes DEF SocketType
  <2>2. "save" \in SocketPCs /\ channel \in SomeChannel /\ s \in SomeSession /\ Load(s) \in SessionType
    BY DEF SocketPCs, SomeChannel, SomeSession, Load, IInv, TypeOK
  <2> HIDE DEF p
  <2>3. q \in SocketType /\ q.pc = "save" /\ q.streamId = p.streamId
        /\ q.session = s /\ q.channel = channel
    BY <1>1, <2>2 DEF SocketType
  <2> HIDE DEF q
  <2> QED
    BY <1>2, <2>1, <2>3
<1>4. CASE socket' = [socket EXCEPT ![k].pc = "closing"]
  <2> DEFINE q == [p EXCEPT !.pc = "closing"]
  <2>1. socket' = [socket EXCEPT ![k] = q]
    BY <1>4
  <2>2. "closing" \in SocketPCs
    BY DEF SocketPCs
  <2> HIDE DEF p
  <2>3. q \in SocketType /\ q.pc = "closing" /\ q.streamId = p.streamId
    BY <1>1, <2>2 DEF SocketType
  <2> HIDE DEF q
  <2> QED
    BY <1>2, <2>1, <2>3
<1> QED
  BY <1>3, <1>4 DEF Authenticate

LEMMA AcceptedStep ==
  ASSUME IInv, NEW k \in Sockets, Accepted(k)
  PROVE  IInv'
<1> DEFINE p == socket[k]
<1> DEFINE part == IF <<k, "head">> \in sent[k] THEN "end" ELSE "head"
<1> DEFINE q == IF part = "end" THEN [p EXCEPT !.pc = "Listening"] ELSE p
<1>1. /\ p \in SocketType /\ p.pc = "accept"
      /\ UNCHANGED <<storageVars, increment, freeIds, connections, request, crashed>>
  BY SocketTypes DEF Accepted
<1>2. sent' = [sent EXCEPT ![k] = @ \cup {<<k, part>>}]
  BY DEF Accepted
<1>3. socket' = [socket EXCEPT ![k] = q]
  BY SocketTypes DEF Accepted
<1>4. {<<k, part>>} \in SUBSET ({k} \X {"head", "data", "end"}) /\ "Listening" \in SocketPCs
  BY DEF SocketPCs
<1> HIDE DEF p, part
<1>5. q \in SocketType /\ q.pc \in {"accept", "Listening"} /\ q.streamId = p.streamId
      /\ q.session = p.session /\ q.channel = p.channel
  BY <1>1, <1>4 DEF SocketType
<1> HIDE DEF q
<1>6. \A s, channel : LoggedInTo(k, s, channel) => q.pc # "Initial" /\ q.session = s /\ q.channel = channel
  BY <1>1, <1>5 DEF LoggedInTo, p
<1>7. connections' \subseteq connections /\ socket[k].pc # "none" /\ q.pc # "none" /\ q.streamId = socket[k].streamId
  BY <1>1, <1>5 DEF p
<1> QED
  BY <1>1, <1>2, <1>3, <1>4, <1>5, <1>6, <1>7, SocketGoesOn

LEMMA OnCloseStep ==
  ASSUME IInv, NEW k \in Sockets, OnClose(k)
  PROVE  IInv'
<1> DEFINE p == socket[k]
<1> DEFINE q == [p EXCEPT !.pc = "closed"]
<1>1. /\ p \in SocketType /\ p.pc \in {"Initial", "Listening", "closing"}
      /\ UNCHANGED <<storageVars, increment, freeIds, sent, request, crashed>>
      /\ connections' \subseteq connections
      /\ socket' = [socket EXCEPT ![k] = q]
  BY SocketTypes DEF OnClose, RemoveConnection
<1>2. "closed" \in SocketPCs
  BY DEF SocketPCs
<1> HIDE DEF p
<1>3. q \in SocketType /\ q.pc = "closed" /\ q.streamId = p.streamId
      /\ q.session = p.session /\ q.channel = p.channel
  BY <1>1, <1>2 DEF SocketType
<1> HIDE DEF q
<1>4. \A s, channel : LoggedInTo(k, s, channel) => q.pc # "Initial" /\ q.session = s /\ q.channel = channel
  BY <1>3 DEF LoggedInTo, p
<1>5. sent' = [sent EXCEPT ![k] = @ \cup {}]
  BY <1>1 DEF IInv, TypeOK
<1>6. socket[k].pc # "none" /\ q.pc # "none" /\ q.streamId = socket[k].streamId
  BY <1>1, <1>3 DEF p
<1> QED
  BY <1>1, <1>3, <1>4, <1>5, <1>6, SocketGoesOn

LEMMA SaveStreamIdStep ==
  ASSUME IInv, NEW k \in Sockets, SaveStreamId(k)
  PROVE  IInv'
<1> DEFINE p == socket[k]
<1> DEFINE q == [p EXCEPT !.pc = "accept", !.copy = EmptySession]
<1> DEFINE here == p.session
<1> DEFINE field == Field(p.channel)
<1>1. /\ p \in SocketType /\ p.pc = "save"
      /\ UNCHANGED <<increment, freeIds, connections, sent, request, crashed, storageLock>>
      /\ stored' = [stored EXCEPT ![here] = [stored[here] EXCEPT ![field] = p.streamId]]
  BY SocketTypes DEF SaveStreamId, PartiallySave
<1>2. socket' = [socket EXCEPT ![k] = q] /\ p.channel \in Channels
  <2>1. socket' = [socket EXCEPT ![k].pc = "accept", ![k].copy = EmptySession]
    BY DEF SaveStreamId
  <2> QED
    BY <1>1, <2>1, SocketTypes DEF IInv, LoginsSound
<1>3. "accept" \in SocketPCs /\ EmptySession \in SessionType
  BY EmptyOwns DEF SocketPCs
<1> HIDE DEF p
<1>4. q \in SocketType /\ q.pc = "accept" /\ q.streamId = p.streamId
      /\ q.session = p.session /\ q.channel = p.channel
  BY <1>1, <1>3 DEF SocketType
<1> HIDE DEF q
<1>5. increment' \in Nat /\ increment <= increment' /\ SessionType \subseteq SessionType' /\ SocketType \subseteq SocketType'
  BY <1>1, TypesGrow DEF IInv, TypeOK
<1>6. socket' \in [Sockets -> SocketType]' /\ socket'[k] = q /\ \A j \in Sockets : j # k => socket'[j] = socket[j]
  BY <1>2, <1>4, <1>5, SocketTypes
<1>7. \A s, channel : LoggedInTo(k, s, channel) => LoggedInTo(k, s, channel)'
  BY <1>4, <1>6 DEF LoggedInTo, p
<1>8. socket'[k].pc \notin {"none", "Initial"} /\ socket'[k].session = here /\ socket'[k].channel = p.channel
  BY <1>4, <1>6
<1>9. p.pc # "none" /\ q.pc # "none" /\ q.streamId = socket[k].streamId
  BY <1>1, <1>4 DEF p
<1>10. \A copy \in SessionType : \A s : Owns(copy, s) => Owns(copy, s)'
  <2>1. socket[k].pc # "none" /\ socket'[k].pc # "none" /\ socket'[k].streamId = socket[k].streamId
    BY <1>6, <1>9 DEF p
  <2> QED
    BY <1>6, <1>7, <2>1, LoginsStay
<1>11. ASSUME NEW s \in Sessions
       PROVE  stored'[s] \in SessionType /\ Owns(stored[s], s)'
  <2>1. stored[s] \in SessionType /\ Owns(stored[s], s)
    BY DEF IInv, TypeOK, StoredOwns
  <2> DEFINE old == stored[s]  new == stored'[s]
  <2>2. old \in SessionType /\ Owns(old, s) /\ old \in SessionType
    BY <2>1
  <2>3. CASE s # here
    <3>1. new = old
      BY <1>1, <2>3 DEF IInv, TypeOK
    <3> HIDE DEF old, new
    <3>2. \A j \in Sockets : \A channel \in Channels :
            socket'[j].pc # "none" /\ socket'[j].streamId = old[Field(channel)] => LoggedInTo(j, s, channel)'
      BY <1>10, <2>2 DEF Owns
    <3> QED
      BY <2>2, <3>1, <3>2 DEF Owns, new
  <2>4. CASE s = here
    <3>1. new = [old EXCEPT ![field] = p.streamId]
      BY <1>1, <2>4 DEF IInv, TypeOK
    <3>2. p.streamId \in Ids
      BY <1>1 DEF SocketType
    <3>3. field \in {"dataId", "controlId"} /\ (field = "dataId" <=> p.channel = "Data")
      BY DEF Field
    <3> HIDE DEF old, new, field
    <3>4. new \in SessionType /\ new[field] = p.streamId /\ \A f \in {"dataId", "controlId"} \ {field} : new[f] = old[f]
      <4>1. CASE field = "dataId"
        BY <2>2, <3>1, <3>2, <4>1 DEF SessionType
      <4>2. CASE field = "controlId"
        BY <2>2, <3>1, <3>2, <4>2 DEF SessionType
      <4> QED
        BY <3>3, <4>1, <4>2
    <3>5. ASSUME NEW channel \in Channels, NEW j \in Sockets,
                 socket'[j].pc # "none", socket'[j].streamId = new[Field(channel)]
          PROVE  LoggedInTo(j, s, channel)'
      <4>1. CASE Field(channel) # field
        <5>1. new[Field(channel)] = old[Field(channel)]
          BY <3>4, <4>1, FieldType
        <5> QED
          BY <1>10, <2>2, <3>5, <5>1 DEF Owns
      <4>2. CASE Field(channel) = field
        <5>1. j = k
          <6>1. socket'[j].streamId = p.streamId
            BY <3>4, <3>5, <4>2
          <6>2. CASE j # k
            <7>0. socket'[j] = socket[j] /\ socket[k] = p
              BY <1>6, <6>2 DEF p
            <7>1. socket[j].pc # "none" /\ socket[j].streamId = socket[k].streamId /\ socket[k].pc # "none"
              BY <1>9, <3>5, <6>1, <7>0
            <7> QED
              BY <6>2, <7>1 DEF IInv, IdsAreOwn
          <6> QED
            BY <6>2
        <5>2. channel = p.channel
          BY <1>2, <3>3, <4>2 DEF Field, Channels
        <5> QED
          BY <1>8, <2>4, <5>1, <5>2 DEF LoggedInTo
      <4> QED
        BY <4>1, <4>2
    <3> QED
      BY <3>4, <3>5 DEF Owns, new
  <2> QED
    BY <2>1, <2>3, <2>4, <1>1 DEF IInv, TypeOK
<1>12. stored' \in [Sessions -> SessionType]'
  <2>1. stored' = [s \in Sessions |-> stored'[s]]
    BY <1>1 DEF IInv, TypeOK
  <2> QED
    BY <1>5, <1>11, <2>1
<1>13. sent' = [sent EXCEPT ![k] = @ \cup {}]
  BY <1>1 DEF IInv, TypeOK
<1>14. /\ connections' \subseteq connections \cup {<<socket'[k].streamId, k>>}
       /\ UNCHANGED <<request, crashed, freeIds, storageLock>>
       /\ socket'[k].streamId = socket[k].streamId /\ socket[k].pc # "none"
       /\ socket'[k].pc # "none" /\ socket'[k].pc # "save"
  BY <1>1, <1>4, <1>6, <1>9 DEF p
<1> QED
  BY <1>5, <1>6, <1>7, <1>11, <1>12, <1>13, <1>14, SocketMoves

-----------------------------------------------------------------------------

LEMMA InitStep ==
  ASSUME Init
  PROVE  IInv
<1>1. EmptySession \in SessionType
  BY DEF Init, EmptySession, SessionType, Ids, None, NoStream
<1>2. \A k \in Sockets : socket[k].pc = "none" /\ sent[k] = {}
  BY DEF Init
<1>3. TypeOK
  <2>1. socket \in [Sockets -> SocketType]
    <3>1. "none" \in SocketPCs /\ 0 \in Ids /\ Unset \in SomeChannel /\ None \in SomeSession
      BY DEF Init, SocketPCs, Ids, SomeChannel, SomeSession
    <3> QED
      BY <1>1, <3>1 DEF Init, SocketType
  <2>2. request \in [Requests -> RequestType]
    <3>1. /\ "idle" \in RequestPCs /\ "none" \in SomeKind /\ 0 \in Sends /\ None \in SomeSession
          /\ None \in SomeSocket /\ 0 \in Left /\ 0 \in Statuses
      BY WsAssumption DEF RequestPCs, SomeKind, Sends, SomeSession, SomeSocket, Left, Statuses
    <3> QED
      BY <1>1, <3>1 DEF Init, RequestType
  <2> QED
    BY <1>1, <2>1, <2>2 DEF Init, TypeOK
<1>4. ASSUME NEW copy, NEW s  PROVE Owns(copy, s)
  BY <1>2 DEF Owns
<1>5. IdsAreOwn /\ LoginsSound /\ StoredOwns /\ SentSound
  BY <1>2, <1>4 DEF Init, IdsAreOwn, LoginsSound, StoredOwns, SentSound
<1>6. RequestsSound
  <2> SUFFICES ASSUME NEW r \in Requests  PROVE Sound(request[r])
    BY DEF RequestsSound
  <2>1. /\ request[r].kind = "none" /\ request[r].session = None /\ request[r].pc = "idle"
        /\ request[r].copy = EmptySession
    BY DEF Init
  <2> QED
    BY <1>4, <2>1 DEF Sound, Keepers
<1> QED
  BY <1>3, <1>5, <1>6 DEF IInv

LEMMA HandlerSteps ==
  ASSUME IInv, NEW r \in Requests, HandlerStep(r)
  PROVE  IInv'
<1>1. CASE Open(r)
  BY <1>1, BeginStep DEF Open, Handlers
<1>2. CASE Enlist(r)
  BY <1>2, BeginStep DEF Enlist, Handlers
<1>3. CASE LoadFile(r)
  BY <1>3, BeginStep DEF LoadFile, Handlers
<1>4. CASE ToggleSourceHeader(r)
  BY <1>4, BeginStep DEF ToggleSourceHeader, Handlers
<1>5. CASE DeleteFile(r)
  BY <1>5, DeleteFileStep
<1>6. CASE LoadAll(r)
  BY <1>6, BeginStep DEF LoadAll, Handlers
<1>7. CASE MakeToolbars(r)
  BY <1>7, MakeToolbarsStep
<1>8. CASE SaveToolbars(r)
  BY <1>8, SaveMoves DEF SaveToolbars
<1>9. CASE SaveRoot(r)
  BY <1>9, SaveMoves DEF SaveRoot
<1> QED
  BY <1>1, <1>2, <1>3, <1>4, <1>5, <1>6, <1>7, <1>8, <1>9 DEF HandlerStep

LEMMA KeeperSteps ==
  ASSUME IInv, NEW r \in Requests, KeeperStep(r)
  PROVE  IInv'
<1> {"Streamer", "ProjectControl", "Debugger"} = Keepers
  BY DEF Keepers
<1>1. CASE SendMessage(r)
  BY <1>1, UseStep DEF SendMessage
<1>2. CASE OpenFileAt(r)
  BY <1>2, UseStep DEF OpenFileAt
<1>3. CASE GetDirectory(r)
  BY <1>3, UseStep DEF GetDirectory
<1>4. CASE ReloadInformation(r)
  BY <1>4, ReloadInformationStep
<1>5. CASE StartDebugger(r)
  BY <1>5, UseStep DEF StartDebugger
<1>6. CASE RelayMessage(r)
  BY <1>6, UseStep DEF RelayMessage
<1> QED
  BY <1>1, <1>2, <1>3, <1>4, <1>5, <1>6 DEF KeeperStep

(* Every step keeps the inductive invariant.                               *)
LEMMA NextStep ==
  ASSUME IInv, [Next]_vars
  PROVE  IInv'
<1>1. CASE UNCHANGED vars
  BY <1>1 DEF vars, storageVars, streamVars, IInv, TypeOK, SessionType, SocketType, RequestType, Ids,
              IdsAreOwn, LoginsSound, StoredOwns, RequestsSound, SentSound, Sound, Owns, LoggedInTo, SentBy
<1>2. ASSUME NEW k \in Sockets, SocketStep(k)
      PROVE  IInv'
  BY <1>2, AcceptStep, AuthenticateStep, SaveStreamIdStep, AcceptedStep, OnCloseStep DEF SocketStep
<1>3. ASSUME NEW r \in Requests, RequestStep(r)
      PROVE  IInv'
  BY <1>3, HandlerSteps, KeeperSteps, SendStep, WriteStep DEF RequestStep
<1> QED
  BY <1>1, <1>2, <1>3 DEF Next

LEMMA Inductive == Spec => []IInv
<1>1. Init => IInv
  BY InitStep
<1>2. IInv /\ [Next]_vars => IInv'
  BY NextStep
<1> QED
  BY <1>1, <1>2, PTL DEF Spec

(* The types of the websocket streamer (streaming/ws_streamer.cpp): no id  *)
(* is ever free, as none is given back, and each connection is registered  *)
(* under the id of its websocket.                                          *)
THEOREM TypeCorrect == Spec => []TypeOK
<1>1. IInv => TypeOK
  BY DEF IInv
<1> QED
  BY <1>1, Inductive, PTL

(* Whatever sockets come and go, and whatever copies of sessions handlers, *)
(* scripts and debuggers keep, a message goes to a websocket of the session*)
(* and channel it is for (streaming/ws_streamer.cpp:68).                   *)
THEOREM OwnStreamCorrect == Spec => []OwnStream
<1>1. IInv => OwnStream
  <2> SUFFICES ASSUME IInv, NEW k \in Sockets, NEW r \in Messages(k)
               PROVE  /\ request[r].session = socket[k].session
                      /\ ChannelOf(request[r].kind) = socket[k].channel
    BY DEF OwnStream
  <2>1. PICK e \in sent[k] : r = e[1] /\ r # k
    BY DEF Messages
  <2>2. SentBy(k, r)
    BY <2>1 DEF IInv, SentSound
  <2> QED
    BY <2>1, <2>2 DEF SentBy, LoggedInTo
<1> QED
  BY <1>1, Inductive, PTL

------------------------------------------------------------------------------
(* What the websocket streamer and the handlers save in sessions.          *)

(* The id of the session is that of a websocket that logged in to it.      *)
LoginIsStored(k) ==
  LET s == socket[k].session
      channel == socket[k].channel
  IN /\ s \in Sessions /\ channel \in Channels
     /\ \E q \in Sockets : LoggedInTo(q, s, channel) /\ stored[s][Field(channel)] = socket[q].streamId

LoginsStored == \A k \in Sockets : LoggedIn(k) => LoginIsStored(k)

(* All of the directory that r opened was sent for s.                      *)
SentWhole(r, s) ==
  \E k \in Sockets : LoggedInTo(k, s, "Data") /\ <<r, "head">> \in sent[k] /\ <<r, "end">> \in sent[k]

(* What a handler has done, by how far it is.                              *)
Handled(r) ==
  LET q == request[r]
  IN /\ q.kind = "loadAll" => q.pc \notin {"loaded", "write"}
     /\ q.pc = "save" => q.kind \in {"open", "loadAll"}
     /\ q.pc = "make" => q.kind = "loadAll"
     /\ q.status = 200 => q.kind # "none"
     /\ q.status = 200 /\ q.kind = "open" => stored[q.session].root # None
     /\ q.status = 200 /\ q.kind = "loadAll" => stored[q.session].toolbarStore # None
     /\ q.pc = "save" /\ q.kind = "open" => SentWhole(r, q.session)
     /\ q.pc = "write" /\ q.kind = "open" /\ q.left = 1 => <<r, "head">> \in sent[q.to]

RootsSent == \A s \in Sessions : stored[s].root # None => SentWhole(stored[s].root, s)

(* The inductive invariant, beside IInv.                                   *)
SavedInv == LoginsStored /\ (\A r \in Requests : Handled(r)) /\ RootsSent

-----------------------------------------------------------------------------

(* Logins are for good, and what was sent stays sent.                      *)
Grows ==
  \A k \in Sockets :
    /\ sent[k] \subseteq sent'[k]
    /\ \A s, channel : LoggedInTo(k, s, channel) =>
         LoggedInTo(k, s, channel)' /\ socket'[k].streamId = socket[k].streamId

(* The parts of a session that only handlers save are as they were.        *)
HandlersAside ==
  /\ request' = request
  /\ \A s \in Sessions : stored'[s].root = stored[s].root /\ stored'[s].toolbarStore = stored[s].toolbarStore

LEMMA SentWholeStays ==
  ASSUME Grows, NEW r, NEW s, SentWhole(r, s)
  PROVE  SentWhole(r, s)'
BY DEF Grows, SentWhole

(* A step of a websocket disturbs what is said of logins only.             *)
LEMMA SocketFrame ==
  ASSUME IInv, SavedInv, Grows, HandlersAside, LoginsStored'
  PROVE  SavedInv'
<1>1. ASSUME NEW s \in Sessions, stored'[s].root # None
      PROVE  SentWhole(stored[s].root, s)'
  <2>1. SentWhole(stored[s].root, s) /\ stored'[s].root = stored[s].root
    BY <1>1 DEF HandlersAside, SavedInv, RootsSent
  <2>2. PICK k \in Sockets : /\ LoggedInTo(k, s, "Data") /\ <<stored[s].root, "head">> \in sent[k]
                             /\ <<stored[s].root, "end">> \in sent[k]
    BY <2>1 DEF SentWhole
  <2>3. LoggedInTo(k, s, "Data")' /\ sent[k] \subseteq sent'[k]
    BY <2>2 DEF Grows
  <2> QED
    BY <2>1, <2>2, <2>3 DEF SentWhole
<1>2. ASSUME NEW r \in Requests  PROVE Handled(r)'
  <2>1. Handled(r) /\ request'[r] = request[r]
    BY DEF SavedInv, HandlersAside
  <2>2. request[r].status = 200 /\ request[r].kind # "none" => request[r].session \in Sessions
    BY RequestTypes DEF Sound
  <2>3. request[r].pc = "save" /\ request[r].kind = "open" => SentWhole(r, request[r].session)'
    <3> SUFFICES ASSUME request[r].pc = "save", request[r].kind = "open"
                 PROVE  SentWhole(r, request[r].session)'
      OBVIOUS
    <3>1. PICK s : s = request[r].session /\ s = request'[r].session
      BY <2>1
    <3>2. PICK k \in Sockets : LoggedInTo(k, s, "Data") /\ <<r, "head">> \in sent[k] /\ <<r, "end">> \in sent[k]
      BY <2>1, <3>1 DEF Handled, SentWhole
    <3>3. LoggedInTo(k, s, "Data")' /\ sent[k] \subseteq sent'[k]
      BY <3>2 DEF Grows
    <3> QED
      BY <3>1, <3>2, <3>3 DEF SentWhole
  <2>4. request[r].pc = "write" => sent[request[r].to] \subseteq sent'[request[r].to]
    BY RequestTypes DEF Sound, Grows
  <2> QED
    BY <2>1, <2>2, <2>3, <2>4 DEF Handled, HandlersAside
<1> QED
  BY <1>1, <1>2 DEF SavedInv, RootsSent

(* Nothing is saved and nobody logs in.                                    *)
LEMMA NoLogin ==
  ASSUME SavedInv, Grows, stored' = stored,
         \A k \in Sockets : LoggedIn(k)' =>
           /\ LoggedIn(k)
           /\ socket'[k].session = socket[k].session /\ socket'[k].channel = socket[k].channel
  PROVE  LoginsStored'
<1> SUFFICES ASSUME NEW k \in Sockets, LoggedIn(k)'
             PROVE  LoginIsStored(k)'
  BY DEF LoginsStored
<1> DEFINE s == socket[k].session  channel == socket[k].channel
<1>1. /\ LoginIsStored(k) /\ s \in Sessions /\ channel \in Channels
      /\ socket'[k].session = s /\ socket'[k].channel = channel
  BY DEF SavedInv, LoginsStored, LoginIsStored
<1>2. PICK q \in Sockets : LoggedInTo(q, s, channel) /\ stored[s][Field(channel)] = socket[q].streamId
  BY <1>1 DEF LoginIsStored
<1>3. LoggedInTo(q, s, channel)' /\ socket'[q].streamId = socket[q].streamId
  BY <1>2 DEF Grows
<1> QED
  BY <1>1, <1>2, <1>3 DEF LoginIsStored, LoggedInTo

(* k is in another state, and not logged in, or logged in as it was.       *)
LEMMA SocketGrows ==
  ASSUME IInv, NEW k \in Sockets, NEW q, socket' = [socket EXCEPT ![k] = q],
         \A s, channel : LoggedInTo(k, s, channel) =>
           /\ q.pc \notin {"none", "Initial"}
           /\ q.session = s /\ q.channel = channel /\ q.streamId = socket[k].streamId,
         \A j \in Sockets : sent[j] \subseteq sent'[j]
  PROVE  Grows
<1>1. socket'[k] = q /\ \A j \in Sockets : j # k => socket'[j] = socket[j]
  BY SocketTypes
<1>2. ASSUME NEW j \in Sockets, NEW s, NEW channel, LoggedInTo(j, s, channel)
      PROVE  LoggedInTo(j, s, channel)' /\ socket'[j].streamId = socket[j].streamId
  <2>1. CASE j = k
    BY <1>1, <1>2, <2>1 DEF LoggedInTo
  <2>2. CASE j # k
    BY <1>1, <1>2, <2>2 DEF LoggedInTo
  <2> QED
    BY <2>1, <2>2
<1> QED
  BY <1>2 DEF Grows

LEMMA AcceptSaves ==
  ASSUME IInv, SavedInv, NEW k \in Sockets, Accept(k)
  PROVE  SavedInv'
<1> DEFINE p == socket[k]
<1> DEFINE q == [p EXCEPT !.pc = "Initial", !.streamId = AcquiredId]
<1>1. p \in SocketType /\ p.pc = "none" /\ UNCHANGED <<stored, sent, request>>
  BY SocketTypes DEF Accept, storageVars
<1>2. socket' = [socket EXCEPT ![k] = q]
  BY SocketTypes DEF Accept, Setup
<1> HIDE DEF p
<1>3. q.pc = "Initial"
  BY <1>1 DEF SocketType
<1> HIDE DEF q
<1>4. Grows
  <2>1. \A s, channel : ~LoggedInTo(k, s, channel)
    BY <1>1 DEF LoggedInTo, p
  <2> QED
    BY <1>1, <1>2, <2>1, SocketGrows
<1>5. ASSUME NEW j \in Sockets, LoggedIn(j)'
      PROVE  LoggedIn(j) /\ socket'[j] = socket[j]
  BY <1>2, <1>3, <1>5, SocketTypes DEF LoggedIn
<1>6. LoginsStored'
  BY <1>1, <1>4, <1>5, NoLogin
<1> QED
  BY <1>1, <1>4, <1>6, SocketFrame DEF HandlersAside

LEMMA AuthenticateSaves ==
  ASSUME IInv, SavedInv, NEW k \in Sockets, Authenticate(k)
  PROVE  SavedInv'
<1>1. socket[k] \in SocketType /\ socket[k].pc = "Initial" /\ UNCHANGED <<stored, sent, request>>
  BY SocketTypes DEF Authenticate, storageVars
<1>2. PICK q : socket' = [socket EXCEPT ![k] = q] /\ q.pc \in {"save", "closing"}
  <2>1. CASE socket' = [socket EXCEPT ![k].pc = "closing"]
    <3> DEFINE q == [socket[k] EXCEPT !.pc = "closing"]
    <3>1. socket' = [socket EXCEPT ![k] = q] /\ q.pc = "closing"
      BY <1>1, <2>1 DEF SocketType
    <3> QED
      BY <3>1
  <2>2. ASSUME NEW s \in Sessions, NEW channel \in Channels,
               socket' = [socket EXCEPT ![k].pc = "save", ![k].channel = channel,
                                        ![k].session = s, ![k].copy = Load(s)]
        PROVE  \E q : socket' = [socket EXCEPT ![k] = q] /\ q.pc \in {"save", "closing"}
    <3> DEFINE q == [socket[k] EXCEPT !.pc = "save", !.channel = channel, !.session = s, !.copy = Load(s)]
    <3>1. socket' = [socket EXCEPT ![k] = q]
      BY <2>2, SocketTypes DEF SocketType
    <3>2. q.pc = "save"
      BY <1>1 DEF SocketType
    <3> QED
      BY <3>1, <3>2
  <2> QED
    BY <2>1, <2>2 DEF Authenticate
<1>3. Grows
  <2>1. \A s, channel : ~LoggedInTo(k, s, channel)
    BY <1>1 DEF LoggedInTo
  <2> QED
    BY <1>1, <1>2, <2>1, SocketGrows
<1>4. ASSUME NEW j \in Sockets, LoggedIn(j)'
      PROVE  LoggedIn(j) /\ socket'[j] = socket[j]
  BY <1>2, <1>4, SocketTypes DEF LoggedIn
<1>5. LoginsStored'
  BY <1>1, <1>3, <1>4, NoLogin
<1> QED
  BY <1>1, <1>3, <1>5, SocketFrame DEF HandlersAside

LEMMA AcceptedSaves ==
  ASSUME IInv, SavedInv, NEW k \in Sockets, Accepted(k)
  PROVE  SavedInv'
<1> DEFINE p == socket[k]
<1> DEFINE part == IF <<k, "head">> \in sent[k] THEN "end" ELSE "head"
<1> DEFINE q == IF part = "end" THEN [p EXCEPT !.pc = "Listening"] ELSE p
<1>1. /\ p \in SocketType /\ p.pc = "accept" /\ UNCHANGED <<stored, request>>
      /\ sent' = [sent EXCEPT ![k] = @ \cup {<<k, part>>}]
  BY SocketTypes DEF Accepted, storageVars
<1>2. socket' = [socket EXCEPT ![k] = q]
  BY SocketTypes DEF Accepted
<1> HIDE DEF p, part
<1>3. /\ q.pc \in {"accept", "Listening"} /\ q.streamId = p.streamId
      /\ q.session = p.session /\ q.channel = p.channel
  BY <1>1 DEF SocketType
<1> HIDE DEF q
<1>4. Grows
  <2>1. \A s, channel : LoggedInTo(k, s, channel) => p.session = s /\ p.channel = channel
    BY DEF LoggedInTo, p
  <2>2. \A j \in Sockets : sent[j] \subseteq sent'[j]
    BY <1>1 DEF IInv, TypeOK
  <2>3. q.streamId = socket[k].streamId
    BY <1>3 DEF p
  <2> QED
    BY <1>2, <1>3, <2>1, <2>2, <2>3, SocketGrows
<1>5. ASSUME NEW j \in Sockets, LoggedIn(j)'
      PROVE  /\ LoggedIn(j)
             /\ socket'[j].session = socket[j].session /\ socket'[j].channel = socket[j].channel
  <2>1. CASE j = k
    BY <1>1, <1>2, <1>3, <2>1, SocketTypes DEF LoggedIn, p
  <2>2. CASE j # k
    BY <1>2, <1>5, <2>2, SocketTypes DEF LoggedIn
  <2> QED
    BY <2>1, <2>2
<1>6. LoginsStored'
  BY <1>1, <1>4, <1>5, NoLogin
<1> QED
  BY <1>1, <1>4, <1>6, SocketFrame DEF HandlersAside

LEMMA OnCloseSaves ==
  ASSUME IInv, SavedInv, NEW k \in Sockets, OnClose(k)
  PROVE  SavedInv'
<1> DEFINE p == socket[k]
<1> DEFINE q == [p EXCEPT !.pc = "closed"]
<1>1. p \in SocketType /\ UNCHANGED <<stored, sent, request>> /\ socket' = [socket EXCEPT ![k] = q]
  BY SocketTypes DEF OnClose, storageVars
<1> HIDE DEF p
<1>2. q.pc = "closed" /\ q.streamId = p.streamId /\ q.session = p.session /\ q.channel = p.channel
  BY <1>1 DEF SocketType
<1> HIDE DEF q
<1>3. Grows
  <2>1. \A s, channel : LoggedInTo(k, s, channel) => p.session = s /\ p.channel = channel
    BY DEF LoggedInTo, p
  <2>2. q.streamId = socket[k].streamId
    BY <1>2 DEF p
  <2> QED
    BY <1>1, <1>2, <2>1, <2>2, SocketGrows
<1>4. ASSUME NEW j \in Sockets, LoggedIn(j)'
      PROVE  LoggedIn(j) /\ socket'[j] = socket[j]
  BY <1>1, <1>2, <1>4, SocketTypes DEF LoggedIn
<1>5. LoginsStored'
  BY <1>1, <1>3, <1>4, NoLogin
<1> QED
  BY <1>1, <1>3, <1>5, SocketFrame DEF HandlersAside

LEMMA SaveStreamIdSaves ==
  ASSUME IInv, SavedInv, NEW k \in Sockets, SaveStreamId(k)
  PROVE  SavedInv'
<1> DEFINE p == socket[k]
<1> DEFINE q == [p EXCEPT !.pc = "accept", !.copy = EmptySession]
<1>1. /\ p \in SocketType /\ p.pc = "save" /\ p.session \in Sessions /\ p.channel \in Channels
      /\ UNCHANGED <<sent, request>>
      /\ stored' = [stored EXCEPT ![p.session] = [stored[p.session] EXCEPT ![Field(p.channel)] = p.streamId]]
  BY SocketTypes DEF SaveStreamId, PartiallySave, IInv, LoginsSound
<1>2. socket' = [socket EXCEPT ![k] = q]
  <2>1. socket' = [socket EXCEPT ![k].pc = "accept", ![k].copy = EmptySession]
    BY DEF SaveStreamId
  <2> QED
    BY <2>1, SocketTypes
<1> HIDE DEF p
<1>3. q.pc = "accept" /\ q.streamId = p.streamId /\ q.session = p.session /\ q.channel = p.channel
  BY <1>1 DEF SocketType
<1> HIDE DEF q
<1>4. Grows
  <2>1. \A s, channel : LoggedInTo(k, s, channel) => p.session = s /\ p.channel = channel
    BY DEF LoggedInTo, p
  <2>2. q.streamId = socket[k].streamId
    BY <1>3 DEF p
  <2> QED
    BY <1>1, <1>2, <1>3, <2>1, <2>2, SocketGrows
<1>5. ASSUME NEW s \in Sessions
      PROVE  /\ stored'[s].root = stored[s].root /\ stored'[s].toolbarStore = stored[s].toolbarStore
             /\ s = p.session => stored'[s][Field(p.channel)] = p.streamId
             /\ \A channel \in Channels :
                  s # p.session \/ channel # p.channel => stored'[s][Field(channel)] = stored[s][Field(channel)]
  <2> DEFINE old == stored[s]  new == stored'[s]
  <2>1. old \in SessionType /\ stored \in [Sessions -> SessionType]
    BY DEF IInv, TypeOK
  <2>2. CASE s # p.session
    BY <1>1, <2>1, <2>2
  <2>3. CASE s = p.session
    <3>1. new = [old EXCEPT ![Field(p.channel)] = p.streamId]
      BY <1>1, <2>1, <2>3
    <3> HIDE DEF old, new
    <3>2. CASE p.channel = "Data"
      <4>1. new = [old EXCEPT !.dataId = p.streamId]
        BY <3>1, <3>2 DEF Field
      <4>2. /\ new.dataId = p.streamId /\ new.controlId = old.controlId /\ new.root = old.root
            /\ new.toolbarStore = old.toolbarStore
        BY <2>1, <4>1 DEF SessionType
      <4> QED
        BY <2>3, <3>2, <4>2 DEF Field, Channels, old, new
    <3>3. CASE p.channel = "Control"
      <4>1. new = [old EXCEPT !.controlId = p.streamId]
        BY <3>1, <3>3 DEF Field
      <4>2. /\ new.controlId = p.streamId /\ new.dataId = old.dataId /\ new.root = old.root
            /\ new.toolbarStore = old.toolbarStore
        BY <2>1, <4>1 DEF SessionType
      <4> QED
        BY <2>3, <3>3, <4>2 DEF Field, Channels, old, new
    <3> QED
      BY <1>1, <3>2, <3>3 DEF Channels
  <2> QED
    BY <2>2, <2>3
<1>6. HandlersAside
  BY <1>1, <1>5 DEF HandlersAside
<1>7. LoginsStored'
  <2> SUFFICES ASSUME NEW j \in Sockets, LoggedIn(j)'
               PROVE  LoginIsStored(j)'
    BY DEF LoginsStored
  <2>1. PICK s, channel : s = socket'[j].session /\ channel = socket'[j].channel
    OBVIOUS
  <2>2. LoggedInTo(k, p.session, p.channel)' /\ socket'[k].streamId = p.streamId
    BY <1>2, <1>3, SocketTypes DEF LoggedInTo, p
  <2>3. /\ s \in Sessions /\ channel \in Channels
        /\ \E i \in Sockets : LoggedInTo(i, s, channel)' /\ stored'[s][Field(channel)] = socket'[i].streamId
    <3>1. CASE s = p.session /\ channel = p.channel
      BY <1>1, <1>2, <1>3, <1>5, <2>2, <3>1, SocketTypes DEF LoggedInTo
    <3>2. CASE s # p.session \/ channel # p.channel
      <4>1. j # k
        BY <1>2, <1>3, <2>1, <3>2, SocketTypes
      <4>2. socket'[j] = socket[j]
        BY <1>2, <4>1
      <4>3. LoginIsStored(j) /\ s = socket[j].session /\ channel = socket[j].channel
        BY <2>1, <4>2 DEF LoggedIn, SavedInv, LoginsStored
      <4>4. PICK i \in Sockets : LoggedInTo(i, s, channel) /\ stored[s][Field(channel)] = socket[i].streamId
        BY <4>3 DEF LoginIsStored
      <4>5. s \in Sessions /\ channel \in Channels
        BY <4>3 DEF LoginIsStored
      <4>6. LoggedInTo(i, s, channel)' /\ socket'[i].streamId = socket[i].streamId
        BY <1>4, <4>4 DEF Grows
      <4> QED
        BY <1>5, <3>2, <4>4, <4>5, <4>6
    <3> QED
      BY <3>1, <3>2
  <2> QED
    BY <2>1, <2>3 DEF LoginIsStored, LoggedInTo
<1> QED
  BY <1>4, <1>6, <1>7, SocketFrame

-----------------------------------------------------------------------------

SentGrows == \A k \in Sockets : sent[k] \subseteq sent'[k]

(* A step of a request disturbs what is said of it, and of what it saves.  *)
LEMMA RequestFrame ==
  ASSUME IInv, SavedInv, NEW r \in Requests,
         \A j \in Requests : j # r => request'[j] = request[j],
         socket' = socket, SentGrows,
         \A s \in Sessions :
           /\ \A channel \in Channels : stored'[s][Field(channel)] = stored[s][Field(channel)]
           /\ stored[s].root # None => stored'[s].root # None
           /\ stored[s].toolbarStore # None => stored'[s].toolbarStore # None
           /\ stored'[s].root # stored[s].root => stored'[s].root # None /\ SentWhole(stored'[s].root, s),
         Handled(r)'
  PROVE  SavedInv'
<1>1. Grows
  BY DEF Grows, LoggedInTo, SentGrows
<1>2. LoginsStored'
  BY DEF SavedInv, LoginsStored, LoggedIn, LoginIsStored, LoggedInTo
<1>3. \A a, s : SentWhole(a, s) => \E k \in Sockets :
        LoggedInTo(k, s, "Data")' /\ <<a, "head">> \in sent'[k] /\ <<a, "end">> \in sent'[k]
  BY DEF SentWhole, LoggedInTo, SentGrows
<1>4. RootsSent'
  <2> SUFFICES ASSUME NEW s \in Sessions, stored'[s].root # None
               PROVE  SentWhole(stored[s].root, s)'
    BY DEF RootsSent
  <2>1. PICK a : a = stored'[s].root
    OBVIOUS
  <2>2. SentWhole(a, s)
    <3>1. CASE a = stored[s].root
      BY <2>1, <3>1 DEF SavedInv, RootsSent
    <3>2. CASE a # stored[s].root
      BY <2>1, <3>2
    <3> QED
      BY <3>1, <3>2
  <2> QED
    BY <1>3, <2>1, <2>2 DEF SentWhole, LoggedInTo
<1>5. ASSUME NEW j \in Requests, j # r  PROVE Handled(j)'
  <2>1. Handled(j) /\ request'[j] = request[j]
    BY <1>5 DEF SavedInv
  <2>2. request[j].kind # "none" => request[j].session \in Sessions
    BY RequestTypes DEF Sound
  <2>3. request[j].pc = "write" => request[j].to \in Sockets
    BY RequestTypes DEF Sound
  <2>4. request[j].pc = "save" /\ request[j].kind = "open" => SentWhole(j, request[j].session)'
    BY <1>3, <2>1 DEF Handled, SentWhole, LoggedInTo
  <2> QED
    BY <2>1, <2>2, <2>3, <2>4 DEF Handled, SentGrows
<1> QED
  BY <1>2, <1>4, <1>5 DEF SavedInv

(* It saves nothing.                                                       *)
LEMMA RequestGoesOn ==
  ASSUME IInv, SavedInv, NEW r \in Requests, NEW q, request' = [request EXCEPT ![r] = q],
         stored' = stored, socket' = socket, SentGrows,
         q.kind = "loadAll" => q.pc \notin {"loaded", "write"},
         q.pc = "save" => q.kind \in {"open", "loadAll"},
         q.pc = "make" => q.kind = "loadAll",
         q.status = 200 => q.kind # "none",
         q.status = 200 /\ q.kind = "open" => stored[q.session].root # None,
         q.status = 200 /\ q.kind = "loadAll" => stored[q.session].toolbarStore # None,
         q.pc = "save" /\ q.kind = "open" => SentWhole(r, q.session)',
         q.pc = "write" /\ q.kind = "open" /\ q.left = 1 => <<r, "head">> \in sent'[q.to]
  PROVE  SavedInv'
<1>1. request'[r] = q /\ \A j \in Requests : j # r => request'[j] = request[j]
  BY RequestTypes
<1>2. Handled(r)'
  BY <1>1 DEF Handled, SentWhole, LoggedInTo
<1> QED
  BY <1>1, <1>2, RequestFrame

LEMMA BeginSaves ==
  ASSUME IInv, SavedInv, NEW r \in Requests, NEW kind \in Handlers, NEW pc \in {"loaded", "make"}, NEW ready,
         pc = "make" <=> kind = "loadAll",
         Begin(r, kind, pc, ready)
  PROVE  SavedInv'
<1> DEFINE p == request[r]
<1>1. PICK s \in Sessions :
        \/ request' = [request EXCEPT ![r] = [[p EXCEPT !.kind = kind, !.session = s] EXCEPT !.pc = pc, !.copy = Load(s)]]
        \/ request' = [request EXCEPT ![r] = [[p EXCEPT !.kind = kind, !.session = s] EXCEPT !.pc = "done", !.status = 400]]
  BY DEF Begin
<1>2. /\ p \in RequestType /\ Handled(r) /\ p.kind = "none"
      /\ stored' = stored /\ socket' = socket /\ SentGrows
  BY RequestTypes DEF Begin, SavedInv, storageVars, streamVars, SentGrows
<1>3. p.status # 200
  BY <1>2 DEF Handled
<1> HIDE DEF p
<1>4. CASE request' = [request EXCEPT ![r] = [[p EXCEPT !.kind = kind, !.session = s] EXCEPT !.pc = pc, !.copy = Load(s)]]
  <2> DEFINE q == [[p EXCEPT !.kind = kind, !.session = s] EXCEPT !.pc = pc, !.copy = Load(s)]
  <2>1. q.kind = kind /\ q.pc = pc /\ q.status = p.status
    BY <1>2 DEF RequestType
  <2>2. request' = [request EXCEPT ![r] = q]
    BY <1>4
  <2> HIDE DEF q
  <2> QED
    BY <1>2, <1>3, <2>1, <2>2, RequestGoesOn
<1>5. CASE request' = [request EXCEPT ![r] = [[p EXCEPT !.kind = kind, !.session = s] EXCEPT !.pc = "done", !.status = 400]]
  <2> DEFINE q == [[p EXCEPT !.kind = kind, !.session = s] EXCEPT !.pc = "done", !.status = 400]
  <2>1. q.kind = kind /\ q.pc = "done" /\ q.status # 200
    BY <1>2 DEF RequestType
  <2>2. request' = [request EXCEPT ![r] = q]
    BY <1>5
  <2> HIDE DEF q
  <2> QED
    BY <1>2, <2>1, <2>2, RequestGoesOn
<1> QED
  BY <1>1, <1>4, <1>5

LEMMA UseSaves ==
  ASSUME IInv, SavedInv, NEW r \in Requests, NEW kind \in Keepers, NEW pc \in {"loaded", "idle"}, Use(r, kind, pc)
  PROVE  SavedInv'
<1> DEFINE p == request[r]
<1>1. PICK kept \in Kept(r) :
        request' = [request EXCEPT ![r] = [p EXCEPT !.kind = kind, !.pc = pc,
                                                    !.session = kept.session, !.copy = kept.copy]]
  BY DEF Use
<1>2. p \in RequestType /\ stored' = stored /\ socket' = socket /\ SentGrows
  BY RequestTypes DEF Use, storageVars, streamVars, SentGrows
<1> DEFINE q == [p EXCEPT !.kind = kind, !.pc = pc, !.session = kept.session, !.copy = kept.copy]
<1>3. request' = [request EXCEPT ![r] = q]
  BY <1>1
<1> HIDE DEF p
<1>4. q.kind = kind /\ q.pc = pc
  BY <1>2 DEF RequestType
<1> HIDE DEF q
<1>5. q.kind \notin {"none", "open", "loadAll"}
  BY <1>4 DEF Keepers
<1> QED
  BY <1>2, <1>3, <1>4, <1>5, RequestGoesOn

LEMMA DeleteFileSaves ==
  ASSUME IInv, SavedInv, NEW r \in Requests, DeleteFile(r)
  PROVE  SavedInv'
<1> DEFINE p == request[r]
<1>1. PICK s \in Sessions, status \in Statuses :
        request' = [request EXCEPT ![r] = [p EXCEPT !.kind = "deleteFile", !.session = s, !.pc = "done", !.status = status]]
  BY DEF DeleteFile
<1>2. p \in RequestType /\ stored' = stored /\ socket' = socket /\ SentGrows
  BY RequestTypes DEF DeleteFile, storageVars, streamVars, SentGrows
<1> DEFINE q == [p EXCEPT !.kind = "deleteFile", !.session = s, !.pc = "done", !.status = status]
<1>3. request' = [request EXCEPT ![r] = q]
  BY <1>1
<1> HIDE DEF p
<1>4. q.kind = "deleteFile" /\ q.pc = "done"
  BY <1>2 DEF RequestType
<1> HIDE DEF q
<1> QED
  BY <1>2, <1>3, <1>4, RequestGoesOn

LEMMA AnswerIs ==
  ASSUME IInv, NEW r \in Requests, NEW status
  PROVE  \E q : /\ Answer(r, status) = [request EXCEPT ![r] = q]
                /\ q.kind = request[r].kind /\ q.session = request[r].session
                /\ q.pc = "done" /\ q.status = status
<1> DEFINE p == request[r]
<1> DEFINE q == [p EXCEPT !.pc = "done", !.status = status, !.copy = EmptySession, !.to = None, !.left = 0]
<1>1. Answer(r, status) = [request EXCEPT ![r] = q] /\ p \in RequestType
  BY RequestTypes DEF Answer
<1>2. q.kind = p.kind /\ q.session = p.session /\ q.pc = "done" /\ q.status = status
  BY <1>1 DEF RequestType
<1> QED
  BY <1>1, <1>2

(* A request that is answered, and saves nothing.                          *)
LEMMA RefusedSaves ==
  ASSUME IInv, SavedInv, NEW r \in Requests, NEW status,
         status = 200 => request[r].kind \notin {"none", "open", "loadAll"},
         request' = Answer(r, status),
         stored' = stored, socket' = socket, SentGrows
  PROVE  SavedInv'
<1>1. PICK q : /\ request' = [request EXCEPT ![r] = q]
               /\ q.kind = request[r].kind /\ q.pc = "done" /\ q.status = status
  BY AnswerIs
<1>2. CASE status = 200
  <2>1. q.kind \notin {"none", "open", "loadAll"} /\ q.pc = "done"
    BY <1>1, <1>2
  <2> QED
    BY <1>1, <2>1, RequestGoesOn
<1>3. CASE status # 200
  <2>1. q.status # 200 /\ q.pc = "done"
    BY <1>1, <1>3
  <2> QED
    BY <1>1, <2>1, RequestGoesOn
<1> QED
  BY <1>2, <1>3

LEMMA MakeToolbarsSaves ==
  ASSUME IInv, SavedInv, NEW r \in Requests, MakeToolbars(r)
  PROVE  SavedInv'
<1> DEFINE p == request[r]
<1>1. /\ p \in RequestType /\ Handled(r) /\ p.pc = "make" /\ p.kind = "loadAll"
      /\ stored' = stored /\ socket' = socket /\ SentGrows
  BY RequestTypes DEF MakeToolbars, storageVars, streamVars, SentGrows, SavedInv, Handled
<1>2. CASE request' = [request EXCEPT ![r].pc = "save"]
  <2> DEFINE q == [p EXCEPT !.pc = "save"]
  <2>1. request' = [request EXCEPT ![r] = q]
    BY <1>2
  <2>2. q.kind = "loadAll" /\ q.pc = "save" /\ q.status = p.status /\ q.session = p.session
    BY <1>1 DEF RequestType
  <2> HIDE DEF q
  <2>3. q.status = 200 => stored[q.session].toolbarStore # None
    BY <1>1, <2>2 DEF Handled
  <2> QED
    BY <1>1, <2>1, <2>2, <2>3, RequestGoesOn
<1>3. CASE request' = Answer(r, 400)
  BY <1>1, <1>3, RefusedSaves
<1> QED
  BY <1>2, <1>3 DEF MakeToolbars

LEMMA ReloadInformationSaves ==
  ASSUME IInv, SavedInv, NEW r \in Requests, ReloadInformation(r)
  PROVE  SavedInv'
<1> DEFINE p == request[r]
<1> DEFINE q == [p EXCEPT !.copy = Load(p.session)]
<1>1. /\ p \in RequestType /\ p.pc = "idle" /\ p.kind = "ProjectControl"
      /\ stored' = stored /\ socket' = socket /\ SentGrows
      /\ request' = [request EXCEPT ![r] = q]
  BY RequestTypes DEF ReloadInformation, storageVars, streamVars, SentGrows
<1> HIDE DEF p
<1>2. q.kind = "ProjectControl" /\ q.pc = "idle"
  BY <1>1 DEF RequestType
<1> HIDE DEF q
<1> QED
  BY <1>1, <1>2, RequestGoesOn

LEMMA KeeperSaves ==
  ASSUME IInv, SavedInv, NEW r \in Requests, NEW x, request[r].kind \in Keepers, request' = Return(r, x),
         stored' = stored, socket' = socket, SentGrows
  PROVE  SavedInv'
<1> DEFINE p == request[r]
<1> DEFINE q == [p EXCEPT !.pc = "idle", !.sends = p.sends + 1, !.to = None, !.left = 0]
<1>1. request' = [request EXCEPT ![r] = q] /\ p \in RequestType
  BY RequestTypes DEF Return
<1> HIDE DEF p
<1>2. q.kind = p.kind /\ q.pc = "idle"
  BY <1>1 DEF RequestType
<1> HIDE DEF q
<1>3. q.kind \notin {"none", "open", "loadAll"}
  BY <1>2 DEF p, Keepers
<1> QED
  BY <1>1, <1>2, <1>3, RequestGoesOn

LEMMA OpenParts ==
  /\ Len(Parts("open")) = 2 /\ Parts("open")[1] = "head" /\ Parts("open")[2] = "end"
  /\ ChannelOf("open") = "Data"
<1>1. Parts("open") = <<"head", "end">>
  BY DEF Parts
<1> QED
  BY <1>1 DEF ChannelOf

LEMMA SendSaves ==
  ASSUME IInv, SavedInv, NEW r \in Requests, Send(r)
  PROVE  SavedInv'
<1> DEFINE p == request[r]
<1>1. /\ p \in RequestType /\ Handled(r) /\ p.pc = "loaded" /\ p.kind # "loadAll"
      /\ stored' = stored /\ socket' = socket /\ SentGrows
  BY RequestTypes DEF Send, storageVars, streamVars, SentGrows, SavedInv, Handled
<1>2. CASE Find(r) = {}
  <2>1. request' = Return(r, Answer(r, 400))
    BY <1>2 DEF Send
  <2>2. CASE p.kind \in Keepers
    BY <1>1, <2>1, <2>2, KeeperSaves
  <2>3. CASE p.kind \notin Keepers
    <3>1. request' = Answer(r, 400)
      BY <2>1, <2>3 DEF Return
    <3> QED
      BY <1>1, <3>1, RefusedSaves
  <2> QED
    BY <2>2, <2>3
<1>3. CASE Find(r) # {}
  <2>1. PICK k \in Find(r) :
          request' = [request EXCEPT ![r] = [p EXCEPT !.pc = "write", !.to = k, !.left = Len(Parts(p.kind))]]
    BY <1>3 DEF Send
  <2> DEFINE q == [p EXCEPT !.pc = "write", !.to = k, !.left = Len(Parts(p.kind))]
  <2>2. request' = [request EXCEPT ![r] = q]
    BY <2>1
  <2> HIDE DEF p
  <2>3. /\ q.kind = p.kind /\ q.pc = "write" /\ q.left = Len(Parts(p.kind))
        /\ q.status = p.status /\ q.session = p.session
    BY <1>1 DEF RequestType
  <2> HIDE DEF q
  <2>4. q.kind = "open" => q.left # 1
    BY <2>3, OpenParts
  <2>5. /\ q.status = 200 => q.kind # "none"
        /\ q.status = 200 /\ q.kind = "open" => stored[q.session].root # None
        /\ q.status = 200 /\ q.kind = "loadAll" => stored[q.session].toolbarStore # None
    BY <1>1, <2>3 DEF Handled, p
  <2>6. q.kind # "loadAll"
    BY <1>1, <2>3
  <2>7. q.pc # "save" /\ q.pc # "make"
    BY <2>3
  <2> QED
    BY <1>1, <2>2, <2>4, <2>5, <2>6, <2>7, RequestGoesOn
<1> QED
  BY <1>2, <1>3

LEMMA WriteSaves ==
  ASSUME IInv, SavedInv, NEW r \in Requests, Write(r)
  PROVE  SavedInv'
<1> DEFINE p == request[r]
<1> DEFINE parts == Parts(p.kind)
<1> DEFINE part == parts[Len(parts) + 1 - p.left]
<1>1. /\ p \in RequestType /\ Sound(p) /\ Handled(r) /\ p.pc = "write" /\ p.kind \notin {"none", "loadAll"}
      /\ stored' = stored /\ socket' = socket
  BY RequestTypes DEF Write, storageVars, SavedInv, Handled, Sound
<1>2. p.to \in Sockets /\ LoggedInTo(p.to, p.session, ChannelOf(p.kind)) /\ p.left \in 1 .. Len(parts)
  BY <1>1 DEF Sound
<1>3. CASE socket[p.to].pc = "closed"
  <2>1. UNCHANGED <<stored, socket, sent, request>>
    BY <1>1, <1>3 DEF Write
  <2> QED
    BY <2>1 DEF SavedInv, LoginsStored, LoggedIn, LoginIsStored, LoggedInTo, Handled, SentWhole, RootsSent
<1>4. CASE socket[p.to].pc # "closed"
  <2>1. /\ sent' = [sent EXCEPT ![p.to] = @ \cup {<<r, part>>}]
        /\ part # "end" => request' = [request EXCEPT ![r].left = @ - 1]
        /\ part = "end" => request' = Return(r, Sent(r))
    BY <1>4 DEF Write
  <2>2. SentGrows /\ <<r, part>> \in sent'[p.to] /\ sent[p.to] \subseteq sent'[p.to]
    BY <1>2, <2>1 DEF SentGrows, IInv, TypeOK
  <2>3. p.kind = "open" => part = (IF p.left = 1 THEN "end" ELSE "head")
    <3> SUFFICES ASSUME p.kind = "open"  PROVE part = (IF p.left = 1 THEN "end" ELSE "head")
      OBVIOUS
    <3>1. p.kind = "open"
      OBVIOUS
    <3>2. parts = Parts("open")
      BY <3>1
    <3> HIDE DEF parts
    <3>3. PICK left : left = p.left
      OBVIOUS
    <3>4. Len(parts) = 2 /\ parts[1] = "head" /\ parts[2] = "end"
      BY <3>2, OpenParts
    <3>5. left \in 1 .. 2
      BY <1>2, <3>3, <3>4
    <3>6. part = parts[2 + 1 - left]
      BY <3>3, <3>4
    <3>7. CASE left = 1
      BY <3>3, <3>4, <3>6, <3>7
    <3>8. CASE left = 2
      BY <3>3, <3>4, <3>6, <3>8
    <3> QED
      BY <3>5, <3>7, <3>8
  <2>4. CASE part # "end"
    <3> DEFINE q == [p EXCEPT !.left = p.left - 1]
    <3>1. request' = [request EXCEPT ![r] = q]
      BY <1>1, <2>1, <2>4
    <3> HIDE DEF p, part
    <3>2. q.kind = p.kind /\ q.pc = "write" /\ q.to = p.to /\ q.status = p.status /\ q.session = p.session
      BY <1>1 DEF RequestType
    <3> HIDE DEF q
    <3>3. q.kind = "open" => <<r, "head">> \in sent'[q.to]
      BY <2>2, <2>3, <2>4, <3>2
    <3>4. /\ q.status = 200 => q.kind # "none"
          /\ q.status = 200 /\ q.kind = "open" => stored[q.session].root # None
          /\ q.status = 200 /\ q.kind = "loadAll" => stored[q.session].toolbarStore # None
      BY <1>1, <3>2 DEF Handled, p
    <3>5. q.kind # "loadAll" /\ q.pc # "save" /\ q.pc # "make"
      BY <1>1, <3>2
    <3> QED
      BY <1>1, <2>2, <3>1, <3>3, <3>4, <3>5, RequestGoesOn
  <2>5. CASE part = "end" /\ p.kind \in Keepers
    BY <1>1, <2>1, <2>2, <2>5, KeeperSaves
  <2>6. CASE part = "end" /\ p.kind \notin Keepers /\ p.kind # "open"
    <3>1. request' = Answer(r, 200)
      BY <2>1, <2>6 DEF Return, Sent
    <3> QED
      BY <1>1, <2>2, <2>6, <3>1, RefusedSaves
  <2>7. CASE part = "end" /\ p.kind = "open"
    <3> DEFINE q == [p EXCEPT !.pc = "save", !.to = None, !.left = 0]
    <3>1. request' = [request EXCEPT ![r] = q]
      BY <2>1, <2>7 DEF Return, Sent, Keepers
    <3>2. <<r, "head">> \in sent[p.to]
      BY <1>1, <2>3, <2>7 DEF Handled
    <3>3. LoggedInTo(p.to, p.session, "Data")
      BY <1>2, <2>7, OpenParts
    <3>4. PICK s, k : s = p.session /\ k = p.to
      OBVIOUS
    <3>5. SentWhole(r, s)'
      BY <1>1, <1>2, <2>2, <2>7, <3>2, <3>3, <3>4 DEF SentWhole, LoggedInTo
    <3> HIDE DEF p, part
    <3>6. q.kind = "open" /\ q.pc = "save" /\ q.status = p.status /\ q.session = s
      BY <1>1, <2>7, <3>4 DEF RequestType
    <3> HIDE DEF q
    <3>7. q.status = 200 => stored[q.session].root # None
      BY <1>1, <2>7, <3>4, <3>6 DEF Handled, p
    <3>8. request'[r] = q /\ \A j \in Requests : j # r => request'[j] = request[j]
      BY <3>1, RequestTypes
    <3>9. Handled(r)'
      BY <1>1, <3>5, <3>6, <3>7, <3>8 DEF Handled
    <3> QED
      BY <1>1, <2>2, <3>8, <3>9, RequestFrame
  <2> QED
    BY <2>4, <2>5, <2>6, <2>7
<1> QED
  BY <1>3, <1>4

LEMMA SaveSaves ==
  ASSUME IInv, SavedInv, NEW r \in Requests, NEW field \in {"root", "toolbarStore"},
         request[r].pc = "save", request[r].kind = (IF field = "root" THEN "open" ELSE "loadAll"),
         PartiallySave(request[r].session, request[r].copy, field, r),
         request' = Answer(r, 200), UNCHANGED <<streamVars, crashed>>
  PROVE  SavedInv'
<1>1. PICK here : here = request[r].session
  OBVIOUS
<1>2. /\ here \in Sessions /\ Handled(r) /\ stored \in [Sessions -> SessionType]
      /\ stored' = [stored EXCEPT ![here] = [stored[here] EXCEPT ![field] = r]]
      /\ socket' = socket /\ SentGrows /\ r # None
  BY <1>1, RequestTypes, WsAssumption DEF Sound, PartiallySave, streamVars, SentGrows, SavedInv, IInv, TypeOK
<1>3. PICK q : /\ request' = [request EXCEPT ![r] = q]
               /\ q.kind = request[r].kind /\ q.session = here /\ q.pc = "done" /\ q.status = 200
  BY <1>1, AnswerIs
<1>4. request'[r] = q /\ \A j \in Requests : j # r => request'[j] = request[j]
  BY <1>3, RequestTypes
<1>5. stored'[here][field] = r /\ stored'[here][field] # None
  BY <1>2 DEF SessionType
<1>6. field = "root" => SentWhole(r, here)
  BY <1>1, <1>2 DEF Handled
<1>7. ASSUME NEW s \in Sessions
      PROVE  /\ \A channel \in Channels : stored'[s][Field(channel)] = stored[s][Field(channel)]
             /\ stored[s].root # None => stored'[s].root # None
             /\ stored[s].toolbarStore # None => stored'[s].toolbarStore # None
             /\ stored'[s].root # stored[s].root => stored'[s].root # None /\ SentWhole(stored'[s].root, s)
  <2>1. CASE s # here
    BY <1>2, <2>1
  <2>2. CASE s = here
    <3> DEFINE old == stored[s]  new == stored'[s]
    <3>1. old \in SessionType /\ new = [old EXCEPT ![field] = r]
      BY <1>2, <2>2
    <3> HIDE DEF old, new
    <3>2. CASE field = "root"
      <4>1. /\ new.root = r /\ new.toolbarStore = old.toolbarStore /\ new.dataId = old.dataId
            /\ new.controlId = old.controlId
        BY <3>1, <3>2 DEF SessionType
      <4>2. \A channel \in Channels : new[Field(channel)] = old[Field(channel)]
        BY <4>1 DEF Field
      <4> QED
        BY <1>2, <1>6, <2>2, <3>2, <4>1, <4>2 DEF old, new
    <3>3. CASE field = "toolbarStore"
      <4>1. /\ new.toolbarStore = r /\ new.root = old.root /\ new.dataId = old.dataId
            /\ new.controlId = old.controlId
        BY <3>1, <3>3 DEF SessionType
      <4>2. \A channel \in Channels : new[Field(channel)] = old[Field(channel)]
        BY <4>1 DEF Field
      <4> QED
        BY <1>2, <2>2, <4>1, <4>2 DEF old, new
    <3> QED
      BY <3>2, <3>3
  <2> QED
    BY <2>1, <2>2
<1>8. Handled(r)'
  <2>1. CASE field = "root"
    BY <1>3, <1>4, <1>5, <2>1 DEF Handled
  <2>2. CASE field = "toolbarStore"
    BY <1>3, <1>4, <1>5, <2>2 DEF Handled
  <2> QED
    BY <2>1, <2>2
<1> QED
  BY <1>2, <1>4, <1>7, <1>8, RequestFrame

-----------------------------------------------------------------------------

LEMMA InitSaves ==
  ASSUME Init
  PROVE  SavedInv
<1>1. LoginsStored
  BY DEF Init, LoginsStored, LoggedIn
<1>2. ASSUME NEW r \in Requests  PROVE Handled(r)
  BY DEF Init, Handled
<1>3. RootsSent
  BY DEF Init, RootsSent, EmptySession
<1> QED
  BY <1>1, <1>2, <1>3 DEF SavedInv

LEMMA HandlersSave ==
  ASSUME IInv, SavedInv, NEW r \in Requests, HandlerStep(r)
  PROVE  SavedInv'
<1>1. CASE Open(r)
  BY <1>1, BeginSaves DEF Open, Handlers
<1>2. CASE Enlist(r)
  BY <1>2, BeginSaves DEF Enlist, Handlers
<1>3. CASE LoadFile(r)
  BY <1>3, BeginSaves DEF LoadFile, Handlers
<1>4. CASE ToggleSourceHeader(r)
  BY <1>4, BeginSaves DEF ToggleSourceHeader, Handlers
<1>5. CASE DeleteFile(r)
  BY <1>5, DeleteFileSaves
<1>6. CASE LoadAll(r)
  BY <1>6, BeginSaves DEF LoadAll, Handlers
<1>7. CASE MakeToolbars(r)
  BY <1>7, MakeToolbarsSaves
<1>8. CASE SaveToolbars(r)
  BY <1>8, SaveSaves DEF SaveToolbars
<1>9. CASE SaveRoot(r)
  BY <1>9, SaveSaves DEF SaveRoot
<1> QED
  BY <1>1, <1>2, <1>3, <1>4, <1>5, <1>6, <1>7, <1>8, <1>9 DEF HandlerStep

LEMMA KeepersSave ==
  ASSUME IInv, SavedInv, NEW r \in Requests, KeeperStep(r)
  PROVE  SavedInv'
<1> {"Streamer", "ProjectControl", "Debugger"} = Keepers
  BY DEF Keepers
<1>1. CASE SendMessage(r)
  BY <1>1, UseSaves DEF SendMessage
<1>2. CASE OpenFileAt(r)
  BY <1>2, UseSaves DEF OpenFileAt
<1>3. CASE GetDirectory(r)
  BY <1>3, UseSaves DEF GetDirectory
<1>4. CASE ReloadInformation(r)
  BY <1>4, ReloadInformationSaves
<1>5. CASE StartDebugger(r)
  BY <1>5, UseSaves DEF StartDebugger
<1>6. CASE RelayMessage(r)
  BY <1>6, UseSaves DEF RelayMessage
<1> QED
  BY <1>1, <1>2, <1>3, <1>4, <1>5, <1>6 DEF KeeperStep

(* Every step keeps the invariant.                                         *)
LEMMA NextSaves ==
  ASSUME IInv, SavedInv, [Next]_vars
  PROVE  SavedInv'
<1>1. CASE UNCHANGED vars
  BY <1>1 DEF vars, storageVars, streamVars, SavedInv, LoginsStored, LoggedIn, LoginIsStored, LoggedInTo,
              Handled, SentWhole, RootsSent
<1>2. ASSUME NEW k \in Sockets, SocketStep(k)
      PROVE  SavedInv'
  BY <1>2, AcceptSaves, AuthenticateSaves, SaveStreamIdSaves, AcceptedSaves, OnCloseSaves DEF SocketStep
<1>3. ASSUME NEW r \in Requests, RequestStep(r)
      PROVE  SavedInv'
  BY <1>3, HandlersSave, KeepersSave, SendSaves, WriteSaves DEF RequestStep
<1> QED
  BY <1>1, <1>2, <1>3 DEF Next

LEMMA SavedInvariance == Spec => []SavedInv
<1>1. Init => SavedInv
  BY InitSaves
<1>2. IInv /\ SavedInv /\ [Next]_vars => SavedInv'
  BY NextSaves
<1> QED
  BY <1>1, <1>2, Inductive, PTL DEF Spec

(* What a websocket, an open or a loadAll saved in a session is still      *)
(* there whatever others save that copied the session before               *)
(* (session/session_storage.hpp:73).                                       *)
THEOREM NothingForgottenCorrect == Spec => []NothingForgotten
<1>1. SavedInv => NothingForgotten
  BY DEF SavedInv, LoginsStored, LoginIsStored, LoggedInTo, Handled, NothingForgotten
<1> QED
  BY <1>1, SavedInvariance, PTL

(* A workspace is open in a session only if its whole directory was sent   *)
(* to a data stream of this session (routers/workspace.cpp:86).            *)
THEOREM OpenedWasSentCorrect == Spec => []OpenedWasSent
<1>1. SavedInv => OpenedWasSent
  <2> SUFFICES ASSUME SavedInv, NEW s \in Sessions, stored[s].root # None
               PROVE  \E k \in Sockets :
                        /\ socket[k].session = s /\ socket[k].channel = "Data"
                        /\ {stored[s].root} \X ToSet(Parts("open")) \subseteq sent[k]
    BY DEF OpenedWasSent
  <2>1. PICK k \in Sockets : /\ LoggedInTo(k, s, "Data") /\ <<stored[s].root, "head">> \in sent[k]
                             /\ <<stored[s].root, "end">> \in sent[k]
    BY DEF SavedInv, RootsSent, SentWhole
  <2>2. ToSet(Parts("open")) = {"head", "end"}
    <3>1. Parts("open") = <<"head", "end">>
      BY DEF Parts
    <3>2. ToSet(Parts("open")) = {Parts("open")[1], Parts("open")[2]}
      BY <3>1 DEF ToSet
    <3> QED
      BY <3>2, OpenParts
  <2> QED
    BY <2>1, <2>2 DEF LoggedInTo
<1> QED
  BY <1>1, SavedInvariance, PTL
=============================================================================
