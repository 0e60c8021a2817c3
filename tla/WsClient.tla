----------------------------- MODULE WsClient -----------------------------
(***************************************************************************)
(* The frontend's end of a connection: WebSocketImplementation of          *)
(* app/src/backend/implementations/ws_impl.js with the connection handling *)
(* of main_window.js.  One JavaScript task (an event handler with the      *)
(* promise continuations it releases) is one action.                       *)
(***************************************************************************)
EXTENDS Wire

VARIABLES
  ws,          (* this.wsClient: the connection in use, or NoConn          *)
  replyId,     (* this.replyId                                             *)
  waiter,      (* this.replyWaiter: the call that waits under each ref     *)
  date,        (* date[k]: how many messages had been sent when k was      *)
  promise,     (* promise[k]: what became of the promise of call k         *)
  buf,         (* buf[k]: the units of file data onBinary collected for k  *)
  textBuffer,  (* this.textBuffer: the text messages not yet consumed      *)
  connected,   (* redux: backend.connected                                 *)
  trying       (* redux: backend.tryingToConnect                           *)

clientVars == <<ws, replyId, waiter, date, promise, buf, textBuffer,
                connected, trying>>

(* "void" is a call that writeMessage dropped: its promise is resolved     *)
(* with undefined and nothing was sent.                                    *)
PromiseState == {"idle", "void", "pending", "resolved", "rejected"}

ClientTypeOK ==
  /\ ws \in Conns \cup {NoConn}
  /\ replyId \in Refs
  /\ waiter \in [Refs -> Calls \cup {NoCall}]
  /\ date \in [Calls -> Nat]
  /\ promise \in [Calls -> PromiseState]
  /\ buf \in [Calls -> Nat]
  /\ textBuffer \in Seq(Frame)
  /\ connected \in BOOLEAN
  /\ trying \in BOOLEAN

ClientInit ==
  /\ ws = NoConn
  /\ replyId = 0
  /\ waiter = [i \in Refs |-> NoCall]
  /\ date = [k \in Calls |-> 0]
  /\ promise = [k \in Calls |-> "idle"]
  /\ buf = [k \in Calls |-> 0]
  /\ textBuffer = <<>>
  /\ connected = FALSE
  /\ trying = FALSE

-----------------------------------------------------------------------------
(* Sending a request.                                                      *)

SentCount == Cardinality({k \in Calls : promise[k] # "idle"})

(* A slip: the counter wraps one too late.                                 *)
NextReplyIdWrapsLate(id) == IF id > MaxReplyId + 1 THEN 0 ELSE id + 1

NextReplyId(id) == IF id > MaxReplyId THEN 0 ELSE id + 1

(* The early returns of writeMessage, s being the sockets' states.  The    *)
(* readyState of a broken connection may still be OPEN, or be CLOSING.     *)
Dropped(k, s) ==
  /\ ws # NoConn => s[ws] # "open" \/ lost[ws]
  /\ promise' = [promise EXCEPT ![k] = "void"]
  /\ UNCHANGED <<replyId, waiter, date, up>>

(* A slip: the waiter is entered under the id after the one that is sent.  *)
SentUnderNextId(k, s) ==
  /\ ws # NoConn /\ s[ws] = "open"
  /\ replyId' = NextReplyId(replyId)
  /\ waiter' = [waiter EXCEPT ![NextReplyId(replyId)] = k]
  /\ date' = [date EXCEPT ![k] = SentCount]
  /\ promise' = [promise EXCEPT ![k] = "pending"]
  /\ up' = Written(up, ws, [ref |-> replyId, of |-> k])

Sent(k, s) ==
  /\ ws # NoConn /\ s[ws] = "open"
  /\ replyId' = NextReplyId(replyId)
  /\ waiter' = [waiter EXCEPT ![replyId] = k]
  /\ date' = [date EXCEPT ![k] = SentCount]
  /\ promise' = [promise EXCEPT ![k] = "pending"]
  /\ up' = Written(up, ws, [ref |-> replyId, of |-> k])

WriteMessage(k, s) == promise[k] = "idle" /\ (Dropped(k, s) \/ Sent(k, s))

(* The user interface calls an API function.                               *)
Call(k) ==
  /\ k \in Requests
  /\ WriteMessage(k, sock)
  /\ UNCHANGED <<sock, peer, lost, down, ws, buf, textBuffer, connected, trying>>

-----------------------------------------------------------------------------
(* The interval timer.  It rejects the calls that were sent more than      *)
(* replyTimeoutSeconds ago, which are all those sent up to some call.      *)

Expired(d) == {i \in Refs : waiter[i] # NoCall /\ date[waiter[i]] <= d}

(* A slip: expired entries are deleted, but their promises not rejected.   *)
SweepSilently(d) ==
  /\ Expired(d) # {}
  /\ waiter' = [i \in Refs |-> IF i \in Expired(d) THEN NoCall ELSE waiter[i]]
  /\ UNCHANGED <<wireVars, ws, replyId, date, promise, buf, textBuffer, connected, trying>>

Sweep(d) ==
  /\ Expired(d) # {}
  /\ promise' = [k \in Calls |-> IF \E i \in Expired(d) : waiter[i] = k
                                 THEN "rejected" ELSE promise[k]]
  /\ waiter' = [i \in Refs |-> IF i \in Expired(d) THEN NoCall ELSE waiter[i]]
  /\ UNCHANGED <<wireVars, ws, replyId, date, buf, textBuffer, connected, trying>>

-----------------------------------------------------------------------------
(* Receiving.                                                              *)

(* A call still waits for the frame.                                       *)
Awaited(f) == f.ref \in Refs /\ waiter[f.ref] # NoCall

(* A slip: the entry of a settled call is not deleted.                     *)
SettledKeepsWaiter(ref, verdict) ==
  /\ promise' = [promise EXCEPT ![waiter[ref]] = verdict]
  /\ UNCHANGED waiter

Settled(ref, verdict) ==
  /\ promise' = [promise EXCEPT ![waiter[ref]] = verdict]
  /\ waiter' = [waiter EXCEPT ![ref] = NoCall]

(* A slip: an error reply resolves the call as well.                       *)
ConsumedIgnoresError(f) ==
  IF Awaited(f)
  THEN /\ Settled(f.ref, "resolved")
       /\ connected' = (connected \/ waiter[f.ref] \in Conns)
  ELSE UNCHANGED <<promise, waiter, connected>>

(* What parseData does with a complete JSON text.  The continuation of     *)
(* authenticate() stores the answer in the redux state.                    *)
Consumed(f) ==
  IF Awaited(f)
  THEN /\ Settled(f.ref, IF f.ok THEN "resolved" ELSE "rejected")
       /\ connected' = (connected \/ (f.ok /\ waiter[f.ref] \in Conns))
  ELSE UNCHANGED <<promise, waiter, connected>>

(* A slip: the parsed text is not sliced off the buffer.                   *)
ParseDataKeepsText(buffer) ==
  IF Head(buffer).wide
  THEN textBuffer' = buffer /\ UNCHANGED <<promise, waiter, connected>>
  ELSE textBuffer' = buffer /\ Consumed(Head(buffer))

(* parseData looks at the first message of the buffer only.  The prefix of *)
(* a message counts bytes and the buffer is measured in characters: when   *)
(* the message is wide, parseData waits for data beyond its end, or cuts   *)
(* into the next message and leaves the buffer as it was when JSON.parse   *)
(* throws.                                                                 *)
ParseData(buffer) ==
  IF Head(buffer).wide
  THEN textBuffer' = buffer /\ UNCHANGED <<promise, waiter, connected>>
  ELSE textBuffer' = Tail(buffer) /\ Consumed(Head(buffer))

(* A binary frame without data says that the file is complete.             *)
BinaryData(f) ==
  IF ~Awaited(f) THEN UNCHANGED <<promise, waiter, buf>>
  ELSE IF f.units # 0
       THEN /\ buf' = [buf EXCEPT ![waiter[f.ref]] = @ + f.units]
            /\ UNCHANGED <<promise, waiter>>
       ELSE Settled(f.ref, "resolved") /\ UNCHANGED buf

OnMessage(c) ==
  /\ sock[c] = "open"
  /\ down[c] # <<>>
  /\ down' = [down EXCEPT ![c] = Tail(@)]
  /\ LET f == Head(down[c])
     IN  IF f.kind = "text"
         THEN ParseData(Append(textBuffer, f)) /\ UNCHANGED buf
         ELSE BinaryData(f) /\ UNCHANGED <<textBuffer, connected>>
  /\ UNCHANGED <<sock, peer, lost, up, ws, replyId, date, trying>>

-----------------------------------------------------------------------------
(* Connecting.                                                             *)

(* connectToBackend: the new socket replaces wsClient at once; an older    *)
(* one is neither closed nor forgotten by its event handlers.              *)
Connect(c) ==
  /\ sock[c] = "none"
  /\ sock' = [sock EXCEPT ![c] = "connecting"]
  /\ ws' = c
  /\ trying' = TRUE
  /\ UNCHANGED <<peer, lost, up, down, replyId, waiter, date, promise, buf,
                 textBuffer, connected>>

(* onopen: the continuation of connect() authenticates, on whatever        *)
(* wsClient is by then.                                                    *)
OnOpen(c) ==
  /\ sock[c] = "connecting" /\ peer[c] # "none" /\ ~lost[c]
  /\ sock' = [sock EXCEPT ![c] = "open"]
  /\ WriteMessage(c, [sock EXCEPT ![c] = "open"])
  /\ UNCHANGED <<peer, lost, down, ws, buf, textBuffer, connected, trying>>

(* A slip: the closing of a socket that was replaced is ignored.           *)
OnCloseOfCurrent(c) ==
  /\ sock[c] \in {"connecting", "open"}
  /\ lost[c] /\ down[c] = <<>>
  /\ sock' = [sock EXCEPT ![c] = "closed"]
  /\ ws' = IF ws = c THEN NoConn ELSE ws
  /\ connected' = (connected /\ ws # c)
  /\ trying' = FALSE
  /\ UNCHANGED <<peer, lost, up, down, replyId, waiter, date, promise, buf,
                 textBuffer>>

(* onclose: whichever socket it is, wsClient becomes undefined.            *)
OnClose(c) ==
  /\ sock[c] \in {"connecting", "open"}
  /\ lost[c] /\ down[c] = <<>>
  /\ sock' = [sock EXCEPT ![c] = "closed"]
  /\ ws' = NoConn
  /\ connected' = FALSE
  /\ trying' = FALSE
  /\ UNCHANGED <<peer, lost, up, down, replyId, waiter, date, promise, buf,
                 textBuffer>>
=============================================================================
