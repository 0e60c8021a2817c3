------------------------------ MODULE SaveFile ------------------------------
(***************************************************************************)
(* Saving and loading one file through the worker: the routes saveFile and *)
(* loadFile of routers/workspace.cpp, HashedFile, FileContent::load, and   *)
(* the file system below them.  Requests are served by several threads,    *)
(* and the worker may die between two steps.                               *)
(*                                                                         *)
(* All requests are for one path.  The file of that path and the temporary *)
(* one beside it are names of inodes, and a stream that is open on an      *)
(* inode stays with it when the names change.                              *)
(***************************************************************************)
EXTENDS HybridSink, Sequences, FiniteSets

CONSTANTS
  Saves,    (* saveFile requests                                           *)
  Loads,    (* loadFile requests                                           *)
  Old,      (* what a unit of the file holds at first                      *)
  Hole      (* what is read where nothing was written                      *)

ASSUME SaveAssumption == IsFiniteSet(Saves) /\ Old \notin Saves

None == 0

Inodes == 1 .. 1 + Cardinality(Saves)

Kinds == {"fine", "badSeparator", "badJson", "badHash"}

VARIABLES
  original,   (* the inode of the file, or None                            *)
  temp,       (* the inode of the temporary file, or None                  *)
  content,    (* content[i]: the units of inode i                          *)
  kind,       (* kind[s]: what is wrong with the body of s                 *)
  pc,         (* pc[s]: what s does next                                   *)
  got,        (* got[s]: units of the body that have arrived               *)
  sink,       (* sink[s]: its JsonDataHybridSink                           *)
  writer,     (* writer[s]: the inode of HashedFile::writer_, or None      *)
  written,    (* written[s]: the units that were written through it        *)
  answer,     (* answer[s]: "none", "204" or "error"                       *)
  load,       (* load[l]: the state of a loadFile request                  *)
  crashed,    (* has the worker died?                                      *)
  moved,      (* the save that was moved into place last, or Old           *)
  existed,    (* has there been a file?                                    *)
  overlapped  (* have two saves been under way at once?                    *)

disk == <<original, temp, content>>
requestVars == <<kind, pc, got, sink, writer, written, answer>>
history == <<crashed, moved, existed, overlapped>>
vars == <<disk, requestVars, load, history>>

Data(s) == [k \in 1 .. DataUnits |-> <<s, k>>]

OldData == [k \in 1 .. DataUnits |-> Old]

Unit == {Old, Hole} \cup (Saves \X (1 .. DataUnits))

NoLoad == [pc |-> "idle", inode |-> None, left |-> 0, chunks |-> <<>>]

SaveStates == {"idle", "body", "test", "remove", "rename", "answer", "destroy",
               "unlink", "done", "dead"}

LoadType == [pc : {"idle", "read", "sent", "error", "refused", "dead"},
             inode : {None} \cup Inodes, left : 0 .. DataUnits, chunks : Seq(Unit)]

TypeOK ==
  /\ {original, temp} \subseteq {None} \cup Inodes
  /\ content \in [Inodes -> Seq(Unit)]
  /\ kind \in [Saves -> Kinds]
  /\ pc \in [Saves -> SaveStates]
  /\ got \in [Saves -> 0 .. Body]
  /\ sink \in [Saves -> SinkType]
  /\ writer \in [Saves -> {None} \cup Inodes]
  /\ written \in [Saves -> 0 .. DataUnits]
  /\ answer \in [Saves -> {"none", "204", "error"}]
  /\ load \in [Loads -> LoadType]
  /\ {crashed, existed, overlapped} \subseteq BOOLEAN
  /\ moved \in Saves \cup {Old}

Init ==
  /\ original \in {None, 1}
  /\ temp = None
  /\ content = [i \in Inodes |-> IF i = 1 THEN OldData ELSE <<>>]
  /\ kind \in [Saves -> Kinds]
  /\ pc = [s \in Saves |-> "idle"]
  /\ got = [s \in Saves |-> 0]
  /\ sink = [s \in Saves |-> FreshSink]
  /\ writer = [s \in Saves |-> None]
  /\ written = [s \in Saves |-> 0]
  /\ answer = [s \in Saves |-> "none"]
  /\ load = [l \in Loads |-> NoLoad]
  /\ crashed = FALSE
  /\ moved = Old
  /\ existed = (original # None)
  /\ overlapped = FALSE

-----------------------------------------------------------------------------
(* The file system.                                                        *)

InUse == {original, temp} \cup {writer[s] : s \in Saves} \cup {load[l].inode : l \in Loads}

Unused == CHOOSE i \in Inodes : i \notin InUse

(* Units are written at the stream's own position, whatever became of the  *)
(* inode meanwhile.                                                        *)
WrittenAt(old, from, units) ==
  LET end == from + Len(units)
  IN [k \in 1 .. (IF end > Len(old) THEN end ELSE Len(old)) |->
        IF k \in from + 1 .. end THEN units[k - from]
        ELSE IF k <= Len(old) THEN old[k] ELSE Hole]

-----------------------------------------------------------------------------
(* HashedFile and the handler of saveFile.                                 *)

Goes(s, from, to) == pc[s] = from /\ pc' = [pc EXCEPT ![s] = to]

Answered(s, a) == IF answer[s] = "none" THEN [answer EXCEPT ![s] = a] ELSE answer

HasOpened(s) == sink[s].json /\ kind[s] # "badJson"

UnderWay(s) == HasOpened(s) /\ pc[s] \notin {"done", "dead"}

(* The checks made before the body is read; those that fail end it there.  *)
BeginSave(s) ==
  /\ pc[s] = "idle"
  /\ \/ pc' = [pc EXCEPT ![s] = "body"] /\ UNCHANGED answer
     \/ pc' = [pc EXCEPT ![s] = "done"] /\ answer' = Answered(s, "error")
  /\ UNCHANGED <<disk, kind, got, sink, writer, written, load, history>>

(* A slip: the file itself is opened, and emptied by that.                 *)
OpenedInPlace(s) ==
  LET i == IF original = None THEN Unused ELSE original
  IN /\ temp' = i
     /\ writer' = [writer EXCEPT ![s] = i]
     /\ overlapped' = (overlapped \/ \E t \in Saves \ {s} : UnderWay(t))

(* HashedFile::open: the temporary file is created or emptied.             *)
Opened(s) ==
  LET i == IF temp = None THEN Unused ELSE temp
  IN /\ temp' = i
     /\ writer' = [writer EXCEPT ![s] = i]
     /\ overlapped' = (overlapped \/ \E t \in Saves \ {s} : UnderWay(t))

(* A piece of the body, handed to the sink: onJsonComplete opens the file  *)
(* unless the json part is at fault, onData writes if it is open.          *)
Piece(s) ==
  /\ pc[s] = "body" /\ got[s] < Body
  /\ \E units \in 1 .. Body - got[s] :
       LET before == sink[s]
           after == Write(before, units, kind[s] # "badSeparator")
           opens == after.json /\ ~before.json /\ kind[s] # "badJson"
           fails == (after.failed /\ ~before.failed)
                      \/ (after.json /\ ~before.json /\ kind[s] = "badJson")
           piece == SubSeq(Data(s), before.data + 1, after.data)
           onto == IF opens THEN <<>> ELSE content[writer[s]]
       IN /\ got' = [got EXCEPT ![s] = @ + units]
          /\ sink' = [sink EXCEPT ![s] = after]
          /\ answer' = IF fails THEN Answered(s, "error") ELSE answer
          /\ IF opens THEN Opened(s) ELSE UNCHANGED <<temp, writer, overlapped>>
          /\ IF opens \/ writer[s] # None
             THEN /\ content' = [content EXCEPT ![writer'[s]] = WrittenAt(onto, written[s], piece)]
                  /\ written' = [written EXCEPT ![s] = @ + Len(piece)]
             ELSE UNCHANGED <<content, written>>
  /\ UNCHANGED <<original, kind, pc, load, crashed, moved, existed>>

(* The connection is lost: the HashedFile is destroyed, nothing is tested. *)
LoseBody(s) ==
  /\ Goes(s, "body", "destroy")
  /\ writer' = [writer EXCEPT ![s] = None]
  /\ UNCHANGED <<disk, kind, got, sink, written, answer, load, history>>

(* testAndMove closes the file and reads the temporary one by its name; a  *)
(* HashedFile that was never opened tests a name that is none.             *)
EndBody(s) ==
  /\ got[s] = Body
  /\ Goes(s, "body", IF writer[s] # None THEN "test" ELSE "done")
  /\ writer' = [writer EXCEPT ![s] = None]
  /\ answer' = IF writer[s] # None THEN answer ELSE Answered(s, "error")
  /\ UNCHANGED <<disk, kind, got, sink, written, load, history>>

(* A slip: that the hash of what was read is the one that was sent is not  *)
(* made sure of.                                                           *)
AnyHash(s) == temp # None

Matches(s) == temp # None /\ content[temp] = Data(s) /\ kind[s] # "badHash"

Test(s) ==
  /\ IF Matches(s)
     THEN Goes(s, "test", "remove") /\ UNCHANGED answer
     ELSE Goes(s, "test", "destroy") /\ answer' = Answered(s, "error")
  /\ UNCHANGED <<disk, kind, got, sink, writer, written, load, history>>

Remove(s) ==
  /\ Goes(s, "remove", "rename")
  /\ original' = None
  /\ UNCHANGED <<temp, content, kind, got, sink, writer, written, answer, load, history>>

Rename(s) ==
  /\ IF temp # None
     THEN /\ original' = temp
          /\ temp' = None
          /\ answer' = Answered(s, "204")
          /\ moved' = s
          /\ existed' = TRUE
     ELSE answer' = Answered(s, "error") /\ UNCHANGED <<original, temp, moved, existed>>
  /\ Goes(s, "rename", "destroy")
  /\ UNCHANGED <<content, kind, got, sink, writer, written, load, crashed, overlapped>>

(* ~HashedFile: if both names exist, the temporary one is removed.         *)
Destroy(s) ==
  /\ Goes(s, "destroy", IF HasOpened(s) /\ {original, temp} \subseteq Inodes THEN "unlink" ELSE "done")
  /\ UNCHANGED <<disk, kind, got, sink, writer, written, answer, load, history>>

Unlink(s) ==
  /\ Goes(s, "unlink", "done")
  /\ temp' = None
  /\ UNCHANGED <<original, content, kind, got, sink, writer, written, answer, load, history>>

-----------------------------------------------------------------------------
(* loadFile and FileContent::load.                                         *)

Loading(l, to) == load' = [load EXCEPT ![l] = to]

(* The file is looked up and opened, and its size is taken.  A file that   *)
(* is too large is answered with no chunks at all.                         *)
BeginLoad(l) ==
  /\ load[l].pc = "idle"
  /\ \/ original = None /\ Loading(l, [load[l] EXCEPT !.pc = "error"])
     \/ original # None /\ Loading(l, [load[l] EXCEPT !.pc = "refused"])
     \/ /\ original # None
        /\ Loading(l, [pc |-> "read", inode |-> original,
                       left |-> Len(content[original]), chunks |-> <<>>])
  /\ UNCHANGED <<disk, requestVars, history>>

(* One chunk; at the end of the file nothing is read, and it goes on.      *)
ReadChunk(l) ==
  /\ load[l].pc = "read" /\ load[l].left > 0
  /\ LET at == Len(load[l].chunks) + 1
         from == content[load[l].inode]
     IN /\ at <= Len(from)
        /\ Loading(l, [load[l] EXCEPT !.left = @ - 1, !.chunks = Append(@, from[at])])
  /\ UNCHANGED <<disk, requestVars, history>>

SendContent(l) ==
  /\ load[l].pc = "read" /\ load[l].left = 0
  /\ Loading(l, [load[l] EXCEPT !.pc = "sent", !.inode = None])
  /\ UNCHANGED <<disk, requestVars, history>>

-----------------------------------------------------------------------------

(* Bound: the worker dies once.  What has not begun is asked of the next.  *)
Crash ==
  /\ ~crashed
  /\ crashed' = TRUE
  /\ pc' = [s \in Saves |-> IF pc[s] \in {"idle", "done"} THEN pc[s] ELSE "dead"]
  /\ writer' = [s \in Saves |-> None]
  /\ load' = [l \in Loads |-> IF load[l].pc = "read" THEN [load[l] EXCEPT !.pc = "dead", !.inode = None]
                              ELSE load[l]]
  /\ UNCHANGED <<disk, kind, got, sink, written, answer, moved, existed, overlapped>>

SaveStep(s) ==
  \/ BeginSave(s) \/ Piece(s) \/ LoseBody(s) \/ EndBody(s) \/ Test(s)
  \/ Remove(s) \/ Rename(s) \/ Destroy(s) \/ Unlink(s)

LoadStep(l) == BeginLoad(l) \/ ReadChunk(l) \/ SendContent(l)

Next == (\E s \in Saves : SaveStep(s)) \/ (\E l \in Loads : LoadStep(l)) \/ Crash

Spec == Init /\ [][Next]_vars

-----------------------------------------------------------------------------

Contents == {OldData} \cup {Data(s) : s \in Saves}

(* The file is what it was at first, or all that was sent by the save      *)
(* moved into place last, which sent the hash of just that.                *)
InPlace ==
  \/ moved = Old /\ content[original] = OldData
  \/ moved # Old /\ kind[moved] = "fine" /\ content[original] = Data(moved)

(* Between the removal of the file and the rename the temporary file holds *)
(* all of the new content, tested, so that a worker that dies there leaves *)
(* a whole copy; the next save empties it.                                 *)
InTransit ==
  \/ temp # None /\ \E s \in Saves : kind[s] = "fine" /\ content[temp] = Data(s)
  \/ crashed /\ \E s \in Saves : pc[s] # "dead" /\ HasOpened(s)

(* workspace.cpp:471, hashed_file.cpp:80-81: as long as two saves are not  *)
(* under way at once, there is at every step a whole copy of the file,     *)
(* under its name or, while one replaces another, under the temporary one. *)
FileIsWhole ==
  ~overlapped => IF original # None THEN InPlace ELSE existed => InTransit

(* file_content.cpp:46-59: a load that is under way while the file is      *)
(* saved sends one whole content of it, and never waits for more than the  *)
(* file has, as long as two saves are not under way at once.               *)
LoadIsWhole ==
  ~overlapped =>
    \A l \in Loads :
      /\ load[l].pc = "sent" => load[l].chunks \in Contents
      /\ load[l].pc = "read" =>
           Len(load[l].chunks) + load[l].left <= Len(content[load[l].inode])

(* hybrid_read_sink.cpp:65-78,103: however the body is cut into pieces,    *)
(* the file gets the units of the data, in order and each of them once.    *)
PiecesAreOrdered ==
  ~overlapped =>
    \A s \in Saves : writer[s] # None =>
      content[writer[s]] =
        [k \in 1 .. got[s] - (SizeUnits + 1 + JsonUnits) |-> <<s, k>>]
=============================================================================
