------------------------------- MODULE Wire -------------------------------
(***************************************************************************)
(* The websocket connections between the Electron frontend and the C++     *)
(* backend.  Frames are kept whole and in order by the websocket layer; a  *)
(* connection can be lost at any time, and then everything in flight on it *)
(* is lost as well.                                                        *)
(*                                                                         *)
(* Both ends share these variables: WsClient (the frontend) and            *)
(* UserSession (the backend) extend this module, Rpc composes them.        *)
(***************************************************************************)
EXTENDS Integers, Sequences, FiniteSets, Functions

CONSTANTS
  Conns,       (* the websocket connections that are ever dialled          *)
  Requests,    (* the API calls the user interface makes                   *)
  NoConn,      (* "undefined", in place of a connection                    *)
  NoCall,      (* no call: the owner of an unsolicited message             *)
  MaxReplyId   (* ws_impl.js compares the reply id with 1000000            *)

(* The authenticate call that connectToBackend makes once connection c has *)
(* been opened is named c, so that a call is a connection or a request.    *)
Calls == Conns \cup Requests

(* replyId runs from 0 to one past the number it is compared with.         *)
Refs == 0 .. MaxReplyId + 1

(* The "ref" of a message that answers no request.                         *)
NoRef == -1

ASSUME WireAssumption ==
  /\ MaxReplyId \in Nat
  /\ NoConn \notin Conns
  /\ NoCall \notin Calls
  /\ IsFiniteSet(Conns) /\ IsFiniteSet(Requests)
  /\ Conns \cap Requests = {}

VARIABLES
  sock,   (* sock[c]: the frontend's WebSocket object of connection c      *)
  peer,   (* peer[c]: the backend's FrontendUserSession of connection c    *)
  lost,   (* lost[c]: the connection is broken or closed by the backend    *)
  up,     (* up[c]:   requests on their way to the backend                 *)
  down    (* down[c]: frames on their way to the frontend                  *)

wireVars == <<sock, peer, lost, up, down>>

(* A request frame.  "of" is the call that sent it: the code knows only    *)
(* the ref, the properties need to know whose it is.                       *)
Request == [ref : Refs, of : Calls]

(* A frame to the frontend: a JSON text with its length prefix, or a       *)
(* binary chunk of a file.  "ok" is FALSE in an error reply, "wide" says   *)
(* that the text has characters of more than one byte, "units" is the      *)
(* amount of data of a binary chunk.                                       *)
Frame == [kind : {"text", "binary"}, ref : Refs \cup {NoRef},
          of : Calls \cup {NoCall}, ok : BOOLEAN, wide : BOOLEAN,
          units : Nat]

WireTypeOK ==
  /\ sock \in [Conns -> {"none", "connecting", "open", "closed"}]
  /\ peer \in [Conns -> {"none", "live", "ended"}]
  /\ lost \in [Conns -> BOOLEAN]
  /\ up \in [Conns -> Seq(Request)]
  /\ down \in [Conns -> Seq(Frame)]

WireInit ==
  /\ sock = [c \in Conns |-> "none"]
  /\ peer = [c \in Conns |-> "none"]
  /\ lost = [c \in Conns |-> FALSE]
  /\ up = [c \in Conns |-> <<>>]
  /\ down = [c \in Conns |-> <<>>]

(* What is written to a lost connection goes nowhere.                      *)
Written(queue, c, msg) ==
  IF lost[c] THEN queue ELSE [queue EXCEPT ![c] = Append(@, msg)]

(* The connection breaks, or is refused.                                   *)
Break(c) ==
  /\ sock[c] \in {"connecting", "open"}
  /\ ~lost[c] \/ down[c] # <<>>
  /\ lost' = [lost EXCEPT ![c] = TRUE]
  /\ up' = [up EXCEPT ![c] = <<>>]
  /\ down' = [down EXCEPT ![c] = <<>>]
  /\ UNCHANGED <<sock, peer>>

=============================================================================
