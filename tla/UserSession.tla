---------------------------- MODULE UserSession ----------------------------
(***************************************************************************)
(* The backend's end of a connection: FrontendUserSession with the objects *)
(* it owns (StreamParser, Dispatcher, the workspace API, FileWriters) and  *)
(* the registry of sessions in BackendControl.  A session handles one      *)
(* incoming text at a time and answers it before it reads the next.        *)
(*                                                                         *)
(* A request frame holds one whole JSON object, which is what on_text's    *)
(* single popMessage takes out of the parser; StreamParser's scan is not   *)
(* part of this module.                                                    *)
(***************************************************************************)
EXTENDS Wire

CONSTANTS
  Kind,        (* Kind[k]: what request k asks for, see Kinds              *)
  BufferSize,  (* FileWriter::bufferSize                                   *)
  FileLength,  (* FileLength[k]: units of data in the file k loads         *)
  Widths       (* may the text of a reply have wide characters?            *)

(* open needs no workspace; query stands for enlist, setActiveProject and  *)
(* deleteFile, which need one and send one text; nobody subscribes to      *)
(* unserved, which stands for saveFile and the other messages of the       *)
(* frontend that the workspace API does not know.                          *)
Kinds == {"authenticate", "open", "query", "loadFile", "unserved"}

KindOf(k) == IF k \in Conns THEN "authenticate" ELSE Kind[k]

ASSUME SessionAssumption ==
  /\ Kind \in [Requests -> Kinds \ {"authenticate"}]
  /\ BufferSize \in Nat \ {0}
  /\ FileLength \in [Requests -> Nat]
  /\ Widths \subseteq BOOLEAN /\ Widths # {}

VARIABLES
  auth,      (* auth[c]: Implementation::authenticated                     *)
  greeting,  (* greeting[c]: the completion callback that is to run: "load" *)
             (* is onAfterAuthentication, "close" is endSession            *)
  root,      (* root[c]: the workspace API has a root_                     *)
  writers,   (* writers[c]: the FileWriters that wait for a completion     *)
  answered   (* the calls whose success has been written (history)         *)

sessionVars == <<auth, greeting, root, writers, answered>>

(* A FileWriter whose last chunk has been handed to the connection: "left" *)
(* is what remains in the file, "full" that the chunk filled the buffer.   *)
Writer == [ref : Refs, of : Requests, left : Nat, full : BOOLEAN]

SessionTypeOK ==
  /\ auth \in [Conns -> BOOLEAN]
  /\ greeting \in [Conns -> {"none", "load", "close"}]
  /\ root \in [Conns -> BOOLEAN]
  /\ writers \in [Conns -> SUBSET Writer]
  /\ answered \in SUBSET Calls

SessionInit ==
  /\ auth = [c \in Conns |-> FALSE]
  /\ greeting = [c \in Conns |-> "none"]
  /\ root = [c \in Conns |-> FALSE]
  /\ writers = [c \in Conns |-> {}]
  /\ answered = {}

-----------------------------------------------------------------------------

Text(ref, k, isOk, isWide) ==
  [kind |-> "text", ref |-> ref, of |-> k, ok |-> isOk, wide |-> isWide, units |-> 0]

Binary(ref, k, n) ==
  [kind |-> "binary", ref |-> ref, of |-> k, ok |-> TRUE, wide |-> FALSE, units |-> n]

Send(c, f) == down' = Written(down, c, f)

Event(isOk, isWide) == Text(NoRef, NoCall, isOk, isWide)

-----------------------------------------------------------------------------
(* Requests.  q is the request frame.                                      *)

(* Before authentication every message is taken for an authentication and  *)
(* one that is none gets no answer; afterwards nobody subscribes to it.    *)
Authenticate(c, q) ==
  /\ IF ~auth[c] /\ KindOf(q.of) = "authenticate"
     THEN /\ auth' = [auth EXCEPT ![c] = TRUE]
          /\ greeting' = [greeting EXCEPT ![c] = "load"]
          /\ answered' = answered \cup {q.of}
          /\ Send(c, Text(q.ref, q.of, TRUE, FALSE))
     ELSE UNCHANGED <<auth, greeting, answered, down>>
  /\ UNCHANGED <<root, writers>>

Fail(c, q) ==
  /\ \E w \in Widths : Send(c, Text(q.ref, q.of, FALSE, w))
  /\ UNCHANGED <<root, writers, answered>>

Succeed(c, q) ==
  /\ \E w \in Widths : Send(c, Text(q.ref, q.of, TRUE, w))
  /\ answered' = answered \cup {q.of}
  /\ UNCHANGED writers

(* The handler throws: on_text logs the exception and nobody answers.      *)
Throw == UNCHANGED <<down, root, writers, answered>>

(* The root is kept before the answer is written, which may throw.         *)
ThrowOpened(c) ==
  /\ root' = [root EXCEPT ![c] = TRUE]
  /\ UNCHANGED <<down, writers, answered>>

Open(c, q) ==
  \/ Fail(c, q)
  \/ Throw
  \/ ThrowOpened(c)
  \/ Succeed(c, q) /\ root' = [root EXCEPT ![c] = TRUE]

Query(c, q) ==
  \/ Fail(c, q)
  \/ root[c] /\ Throw
  \/ root[c] /\ Succeed(c, q) /\ UNCHANGED root

ChunkSize(left) == IF left < BufferSize THEN left ELSE BufferSize

(* A binary frame; the frontend takes one without data for the end.        *)
SendBinary(c, q, n) ==
  /\ Send(c, Binary(q.ref, q.of, n))
  /\ answered' = IF n = 0 THEN answered \cup {q.of} ELSE answered

(* FileWriter::write: read up to a buffer and send what was read.          *)
WriteChunk(c, q, left, others) ==
  LET n == ChunkSize(left)
  IN  /\ SendBinary(c, q, n)
      /\ writers' = [writers EXCEPT ![c] = others \cup
           {[ref |-> q.ref, of |-> q.of, left |-> left - n, full |-> n = BufferSize]}]

LoadFile(c, q) ==
  \/ Fail(c, q)
  \/ root[c] /\ Throw
  \/ /\ root[c]
     /\ WriteChunk(c, q, FileLength[q.of], writers[c])
     /\ UNCHANGED root

Dispatch(c, q) ==
  CASE KindOf(q.of) = "open"     -> Open(c, q)
    [] KindOf(q.of) = "query"    -> Query(c, q)
    [] KindOf(q.of) = "loadFile" -> LoadFile(c, q)
    [] OTHER                     -> Throw

OnText(c) ==
  /\ peer[c] = "live" /\ ~lost[c] /\ up[c] # <<>>
  /\ up' = [up EXCEPT ![c] = Tail(@)]
  /\ LET q == Head(up[c])
     IN  IF auth[c] /\ KindOf(q.of) # "authenticate"
         THEN Dispatch(c, q) /\ UNCHANGED <<auth, greeting>>
         ELSE Authenticate(c, q)
  /\ UNCHANGED <<sock, peer, lost>>

-----------------------------------------------------------------------------
(* Completion callbacks of writes.                                         *)

(* The completion of the authentication reply: the plugins are loaded and  *)
(* announced, or the error is sent.                                        *)
OnAfterAuthentication(c) ==
  /\ peer[c] = "live" /\ ~lost[c] /\ greeting[c] = "load"
  /\ \E isOk \in BOOLEAN, w \in Widths :
       /\ Send(c, Event(isOk, w))
       /\ greeting' = [greeting EXCEPT ![c] = IF isOk THEN "none" ELSE "close"]
  /\ UNCHANGED <<sock, peer, lost, up, auth, root, writers, answered>>

(* The completion of that error: the connection is closed behind it.       *)
EndSession(c) ==
  /\ peer[c] = "live" /\ ~lost[c] /\ greeting[c] = "close"
  /\ lost' = [lost EXCEPT ![c] = TRUE]
  /\ up' = [up EXCEPT ![c] = <<>>]
  /\ UNCHANGED <<sock, peer, down, sessionVars>>

(* A slip: the end is sent behind the first chunk, full or not.            *)
OnChunkCompleteOnce(c) ==
  /\ peer[c] = "live" /\ ~lost[c]
  /\ \E w \in writers[c] :
       SendBinary(c, w, 0) /\ writers' = [writers EXCEPT ![c] = @ \ {w}]
  /\ UNCHANGED <<sock, peer, lost, up, auth, greeting, root>>

(* The completion of a chunk: after a full buffer the next chunk is sent,  *)
(* even when nothing is left, and otherwise the empty one that ends it.    *)
OnChunkComplete(c) ==
  /\ peer[c] = "live" /\ ~lost[c]
  /\ \E w \in writers[c] :
       IF w.full
       THEN WriteChunk(c, w, w.left, writers[c] \ {w})
       ELSE SendBinary(c, w, 0) /\ writers' = [writers EXCEPT ![c] = @ \ {w}]
  /\ UNCHANGED <<sock, peer, lost, up, auth, greeting, root>>

-----------------------------------------------------------------------------
(* BackendControl.                                                         *)

Accept(c) ==
  /\ sock[c] = "connecting" /\ peer[c] = "none" /\ ~lost[c]
  /\ peer' = [peer EXCEPT ![c] = "live"]
  /\ UNCHANGED <<sock, lost, up, down, sessionVars>>

(* on_close removes the session; its writers find it gone.                 *)
OnSessionClose(c) ==
  /\ peer[c] = "live" /\ lost[c]
  /\ peer' = [peer EXCEPT ![c] = "ended"]
  /\ greeting' = [greeting EXCEPT ![c] = "none"]
  /\ writers' = [writers EXCEPT ![c] = {}]
  /\ UNCHANGED <<sock, lost, up, down, auth, root, answered>>
=============================================================================
