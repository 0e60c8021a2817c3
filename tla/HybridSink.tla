----------------------------- MODULE HybridSink -----------------------------
(***************************************************************************)
(* hybrid_read_sink.cpp of the worker: the body of a saveFile request is   *)
(* the length of a json part, a '|', the json part and the data, and comes *)
(* in pieces of any size.  A body is counted in units; what is kept of     *)
(* auxBuffer_ is how many of the units received last it holds.             *)
(***************************************************************************)
EXTENDS Naturals

CONSTANTS
  SizeUnits,   (* units of the length of the json part (10 bytes)          *)
  JsonUnits,   (* units of the json part                                   *)
  DataUnits    (* units of the data                                        *)

ASSUME SinkAssumption == {SizeUnits, JsonUnits, DataUnits} \subseteq Nat \ {0}

Body == SizeUnits + 1 + JsonUnits + DataUnits

Phases == {"Initial", "SizeComplete", "SeparatorComplete", "DataPhase", "ExpectationFailure"}

(* A sink: its automaton, the buffer, whether json part was handed out     *)
(* and whether a failure was, and the units handed out as data.            *)
SinkType == [phase : Phases, aux : 0 .. Body, json : BOOLEAN, failed : BOOLEAN, data : 0 .. DataUnits]

FreshSink == [phase |-> "Initial", aux |-> 0, json |-> FALSE, failed |-> FALSE, data |-> 0]

(* A slip: the separator is erased here, whether or not it has come.       *)
SizeAndSeparator(k) == [k EXCEPT !.phase = "SizeComplete", !.aux = @ - SizeUnits - 1]

Size(k) == [k EXCEPT !.phase = "SizeComplete", !.aux = @ - SizeUnits]

Separator(k, separator) ==
  IF separator
  THEN [k EXCEPT !.phase = "SeparatorComplete", !.aux = @ - 1]
  ELSE [k EXCEPT !.phase = "ExpectationFailure", !.failed = TRUE]

(* A slip: data that came with the end of the json part is dropped.        *)
JsonAlone(k) == [k EXCEPT !.phase = "DataPhase", !.json = TRUE, !.aux = 0]

Json(k) == [k EXCEPT !.phase = "DataPhase", !.json = TRUE, !.data = k.aux - JsonUnits, !.aux = 0]

(* One transition of the automaton with the action of the state it enters; *)
(* separator tells whether the unit after the length is a '|'.             *)
Advance(k, separator) ==
  IF k.phase = "Initial" /\ k.aux >= SizeUnits THEN Size(k)
  ELSE IF k.phase = "SizeComplete" /\ k.aux >= 1 THEN Separator(k, separator)
  ELSE IF k.phase = "SeparatorComplete" /\ k.aux >= JsonUnits THEN Json(k)
  ELSE k

(* write: outside the data phase the automaton advances as far as it can,  *)
(* which is three times at most.                                           *)
Write(k, units, separator) ==
  IF k.phase = "DataPhase"
  THEN [k EXCEPT !.data = @ + units]
  ELSE LET more == [k EXCEPT !.aux = @ + units]
       IN Advance(Advance(Advance(more, separator), separator), separator)
=============================================================================
