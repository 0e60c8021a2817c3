-------------------------------- MODULE Rpc --------------------------------
(***************************************************************************)
(* The request and reply protocol of minIDE: the frontend's WsClient and   *)
(* the backend's UserSession on the connections of Wire.                   *)
(***************************************************************************)
EXTENDS WsClient, UserSession

vars == <<wireVars, clientVars, sessionVars>>

Init == WireInit /\ ClientInit /\ SessionInit

-----------------------------------------------------------------------------

(* Something sent for the message under ref i is still on its way.         *)
InUse(i) ==
  \/ waiter[i] # NoCall
  \/ \E f \in Range(textBuffer) : f.ref = i
  \/ \E c \in Conns :
       \/ \E q \in Range(up[c]) : q.ref = i
       \/ \E f \in Range(down[c]) : f.ref = i
       \/ \E w \in writers[c] : w.ref = i

(* The refs wrap around after a million messages, and a message is given   *)
(* up after 30 seconds.  MaxReplyId is small in a model, so it has to be   *)
(* said that the traces of a ref's last use are gone when it is used again.*)
RefIsFree == ~InUse(replyId)

UserAction ==
  \/ \E k \in Requests : RefIsFree /\ Call(k) /\ UNCHANGED sessionVars
  \/ \E c \in Conns : Connect(c) /\ UNCHANGED sessionVars

ClientEvent(c) ==
  /\ \/ RefIsFree /\ OnOpen(c)
     \/ OnMessage(c)
     \/ OnClose(c)
  /\ UNCHANGED sessionVars

Timer == (\E k \in Calls : Sweep(date[k])) /\ UNCHANGED sessionVars

SessionEvent(c) ==
  /\ \/ Accept(c)
     \/ OnText(c)
     \/ OnAfterAuthentication(c)
     \/ EndSession(c)
     \/ OnChunkComplete(c)
     \/ OnSessionClose(c)
  /\ UNCHANGED clientVars

Loss == \E c \in Conns : Break(c) /\ UNCHANGED <<clientVars, sessionVars>>

Next ==
  \/ UserAction
  \/ \E c \in Conns : ClientEvent(c) \/ SessionEvent(c)
  \/ Timer
  \/ Loss

Spec == Init /\ [][Next]_vars

(* The interval timer keeps firing, so no call waits much longer than the  *)
(* timeout; nothing is assumed of the network and of the backend.          *)
Timeout(k) ==
  /\ promise[k] = "pending"
  /\ \E j \in Calls : date[j] >= date[k] /\ Sweep(date[j])
  /\ UNCHANGED sessionVars

FairSpec == Spec /\ \A k \in Calls : WF_vars(Timeout(k))

-----------------------------------------------------------------------------

TypeOK == WireTypeOK /\ ClientTypeOK /\ SessionTypeOK

(* Every pending promise waits under exactly one ref, and every entry of   *)
(* replyWaiter belongs to a pending promise: no promise is forgotten by    *)
(* the bookkeeping and none is settled twice, whatever the order of        *)
(* replies, timeouts, losses of connections and reuses of refs.            *)
EachPendingWaits ==
  /\ \A k \in Calls : promise[k] = "pending" <=> \E i \in Refs : waiter[i] = k
  /\ \A i, j \in Refs : waiter[i] = waiter[j] /\ waiter[i] # NoCall => i = j

(* Whatever is under way with the ref a call waits under, answers that     *)
(* call: a reply to an earlier request, late or from a connection since    *)
(* replaced, never reaches another caller.                                 *)
OwnReply ==
  \A i \in Refs : waiter[i] # NoCall =>
    /\ \A f \in Range(textBuffer) : f.ref = i => f.of = waiter[i]
    /\ \A c \in Conns :
         /\ \A q \in Range(up[c]) : q.ref = i => q.of = waiter[i]
         /\ \A f \in Range(down[c]) : f.ref = i => f.of = waiter[i]
         /\ \A w \in writers[c] : w.ref = i => w.of = waiter[i]

(* loadFile resolves with the whole file: the empty binary frame that ends *)
(* it is not taken before all the data, nor in place of it, even when the  *)
(* length of the file is a multiple of the buffer and two are sent.        *)
FileComplete ==
  \A k \in Requests :
    KindOf(k) = "loadFile" /\ promise[k] = "resolved" => buf[k] = FileLength[k]

(* Taking one message per event is enough: text is left in the buffer only *)
(* behind a message whose prefix counts more than its characters.          *)
TextKeepsUp == textBuffer # <<>> => Head(textBuffer).wide

(* When the redux state says connected, there is an open socket on which   *)
(* the backend has accepted the user, however many were dialled.           *)
ConnectedIsBacked == connected => \E c \in Conns : sock[c] = "open" /\ auth[c]

(* Every call that was sent is settled in the end.                         *)
Settles ==
  \A k \in Calls : promise[k] = "pending" ~> promise[k] \in {"resolved", "rejected"}

(* The protocol keeps the promises of the abstract API.                    *)
Promises == INSTANCE PromiseSpec WITH
  Calls <- Calls,
  promise <- promise,
  answered <- answered

ImplementsPromises == Promises!Safety
=============================================================================
