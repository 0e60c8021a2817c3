---------------------------- MODULE StreamParser ----------------------------
(***************************************************************************)
(* stream_parser.cpp of the backend: JSON objects taken off the text of    *)
(* the frames of a websocket, which may be cut anywhere.  A character is   *)
(* one of those the parser tells apart, or "other".                        *)
(***************************************************************************)
EXTENDS Integers, Sequences, SequencesExt

NotFound == [curlyCount |-> 0, escape |-> FALSE, insideString |-> FALSE, offset |-> 0, found |-> FALSE]

Fresh == [buffer |-> <<>>, findState |-> NotFound]

(* A slip: what follows an escaped character is escaped as well.           *)
LookEscapes(f, c) ==
  LET curly == IF f.insideString THEN f.curlyCount
               ELSE IF c = "open" THEN f.curlyCount + 1
               ELSE IF c = "close" THEN f.curlyCount - 1
               ELSE f.curlyCount
      end == c = "close" /\ ~f.insideString /\ curly = 0
  IN [curlyCount |-> curly,
      insideString |-> IF c = "quote" /\ ~f.escape THEN ~f.insideString ELSE f.insideString,
      escape |-> f.escape \/ c = "backslash",
      offset |-> IF end THEN f.offset ELSE f.offset + 1,
      found |-> end]

(* A character is looked at, once only.                                    *)
Look(f, c) ==
  LET curly == IF f.insideString THEN f.curlyCount
               ELSE IF c = "open" THEN f.curlyCount + 1
               ELSE IF c = "close" THEN f.curlyCount - 1
               ELSE f.curlyCount
      end == c = "close" /\ ~f.insideString /\ curly = 0
  IN [curlyCount |-> curly,
      insideString |-> IF c = "quote" /\ ~f.escape THEN ~f.insideString ELSE f.insideString,
      escape |-> c = "backslash" /\ ~f.escape,
      offset |-> IF end THEN f.offset ELSE f.offset + 1,
      found |-> end]

(* Nothing is looked at behind the end of the object.                      *)
LookOn(f, c) == IF f.found THEN f ELSE Look(f, c)

(* The state is kept when the object is not complete.                      *)
FindCompleteObjectEnd(p) ==
  FoldLeft(LookOn, p.findState, SubSeq(p.buffer, p.findState.offset + 1, Len(p.buffer)))

(* White space in front of the object is left out.                         *)
Object(text) ==
  LET first == CHOOSE n \in DOMAIN text : text[n] # "space" /\ \A k \in 1 .. n - 1 : text[k] = "space"
  IN SubSeq(text, first, Len(text))

(* The object, if there is one, and the parser without it.                 *)
PopMessage(p) ==
  LET f == FindCompleteObjectEnd(p)
      end == f.offset + 1
  IN IF f.found
     THEN [popped |-> <<Object(SubSeq(p.buffer, 1, end))>>,
           parser |-> [buffer |-> SubSeq(p.buffer, end + 1, Len(p.buffer)), findState |-> NotFound]]
     ELSE [popped |-> <<>>, parser |-> [p EXCEPT !.findState = f]]

Feed(p, text) == [p EXCEPT !.buffer = @ \o text]

(* FrontendUserSession::on_text takes one object for each frame.           *)
FrontendText(session, text) ==
  LET pop == PopMessage(Feed(session.parser, text))
  IN [parser |-> pop.parser, messages |-> session.messages \o pop.popped]

Frames(texts) ==
  FoldLeft(FrontendText, [parser |-> Fresh, messages |-> <<>>], texts)
=============================================================================
