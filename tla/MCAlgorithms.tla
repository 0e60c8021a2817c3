---------------------------- MODULE MCAlgorithms ----------------------------
(***************************************************************************)
(* The pure algorithms, on every input up to a size: a step takes one of   *)
(* them, and the invariants say what the algorithm makes of it.            *)
(***************************************************************************)
EXTENDS StreamParser, DirectoryScan, LogRotation, Environments, Paths, Functions, TLC

CONSTANTS
  MaxObjects,      (* how many objects are sent                             *)
  MaxDirectories,  (* how many directories a tree has                       *)
  Shortenings,     (* lengths at which the stack of directories is cut      *)
  MaxRotation,     (* how many logs are kept                                *)
  MaxStarts,       (* how often the worker is started                       *)
  MaxNames         (* how many names a path has                             *)

VARIABLE input

None == [of |-> "none"]

UpTo(S, n) == UNION {[1 .. k -> S] : k \in 0 .. n}

------------------------------------------------------------------------------
(* {}, {"}"}, {"\"}"}, {"\\"} and one in another, behind a space.          *)
Samples == {
  <<"open", "close">>,
  <<"open", "quote", "close", "quote", "close">>,
  <<"open", "quote", "backslash", "quote", "close", "quote", "close">>,
  <<"open", "quote", "backslash", "backslash", "quote", "close">>,
  <<"space", "open", "other", "open", "close", "close">>}

Sent(objects) == FlattenSeq(objects)

(* All of it in three frames, then one for each object.                    *)
FramesOf(text, first, second, further) ==
  <<SubSeq(text, 1, first), SubSeq(text, first + 1, second), SubSeq(text, second + 1, Len(text))>>
    \o [n \in 1 .. further |-> <<>>]

TakeFrames ==
  \E objects \in UpTo(Samples, MaxObjects) : \E second \in 0 .. Len(Sent(objects)) : \E first \in 0 .. second :
    input' = [of |-> "frames", objects |-> objects, first |-> first, second |-> second]

(* Trees: whose subdirectory each directory but the first is.              *)
Trees == UNION {{p \in [2 .. n -> 1 .. n - 1] : \A d \in 2 .. n : p[d] < d} : n \in 1 .. MaxDirectories}

Subdirectories(parent) ==
  [d \in 1 .. Cardinality(DOMAIN parent) + 1 |->
     SetToSeq({c \in DOMAIN parent : parent[c] = d})]

TakeTree ==
  \E parent \in Trees : \E shortening \in Shortenings :
    input' = [of |-> "tree", parent |-> parent, shortening |-> shortening]

TakeStarts ==
  \E rotation \in -1 .. MaxRotation :
    \E starts \in UpTo([rounds : 0 .. rotation + 1, left : {NoLog, Half, Untouched}], MaxStarts) :
      input' = [of |-> "starts", rotation |-> rotation, starts |-> starts]

------------------------------------------------------------------------------
(* a and A, b and B are one directory each where case does not matter.     *)
OwnPaths == {<<>>, <<<<1, "a">>>>, <<<<2, "b">>, <<1, "A">>>>, <<<<1, "A">>, <<1, "a">>>>}

InheritedPaths == {<<>>, <<<<1, "a">>, <<2, "B">>>>, <<<<3, "c">>>>}

SomeVariables == UNION {[D -> {1, 2}] : D \in SUBSET {"PATH", "V"}}

TakeEnvirons ==
  \E ownPath \in OwnPaths, path2 \in InheritedPaths, path3 \in InheritedPaths :
    \E own, var2, var3 \in {v \in SomeVariables : "PATH" \notin DOMAIN v \/ v["PATH"] = 1} :
      \E inherits \in UpTo({"e2", "e3"}, 2) \cup {<<"e4">>} :
        input' = [of |-> "environs", environs |->
          [e1 |-> [path |-> ownPath, variables |-> own, inherits |-> inherits],
           e2 |-> [path |-> path2, variables |-> var2, inherits |-> <<"e4">>],
           e3 |-> [path |-> path3, variables |-> var3, inherits |-> <<>>]]]

------------------------------------------------------------------------------
Root == <<"h", "ws">>

Longer == {"ws2"}

(* What is there beside the workspace, and in other directories.           *)
Places == {{}, {<<"h", "ws2">>}, {<<"ws">>, <<"ws", "x">>}, {<<"h", "x">>, <<"h", "x", "ws">>, <<"h", "x", "ws", "x">>}}

Existing(place) == {<<>>, <<"h">>, Root, Append(Root, "x"), Root \o <<"x", "ws">>} \cup place

(* As deleteFile, as saveFile and as all the others ask.                   *)
Askings ==
  {[mustExist |-> TRUE, enforceWorkspaceRelative |-> TRUE],
   [mustExist |-> FALSE, enforceWorkspaceRelative |-> FALSE],
   [mustExist |-> TRUE, enforceWorkspaceRelative |-> FALSE]}

TakePath ==
  \E path \in UpTo({"ws", "ws2", "x", ".."}, MaxNames) \ {<<>>} : \E asked \in Askings :
    \E place \in Places : \E cwd \in {<<>>, <<"h">>, <<"h", "x">>} :
      input' = [of |-> "path", path |-> path, asked |-> asked, exists |-> Existing(place), cwd |-> cwd]

TakeFile ==
  \E special \in {"source", "src", "sources"} : \E rest \in UpTo({"a", "src", "include"}, 2) :
    \E there \in SUBSET {"source", "src", "sources", "include", "headers"} :
      \E extension \in SourceExtensions \cup HeaderExtensions \cup Capitals :
        /\ special \in there
        /\ input' = [of |-> "file",
             file |-> [directory |-> <<"ws", special>> \o rest, stem |-> "f", extension |-> extension],
             exists |-> {<<"ws", name>> : name \in there}
                          \cup {<<"ws", special>> \o SubSeq(rest, 1, n) : n \in DOMAIN rest}]

Init == input = None

Next ==
  /\ input = None
  /\ \/ TakeFrames
     \/ TakeTree
     \/ TakeStarts
     \/ TakeEnvirons
     \/ TakePath
     \/ TakeFile

Spec == Init /\ [][Next]_input

------------------------------------------------------------------------------
(* Wherever the text is cut into frames, the objects are taken off it as   *)
(* they were sent, in their order; each further frame gives one that was   *)
(* left (StreamParser::popMessage, FrontendUserSession::on_text).          *)
PopsWhatWasSent ==
  input.of = "frames" =>
    LET sent == [n \in DOMAIN input.objects |-> Object(input.objects[n])]
        frames == FramesOf(Sent(input.objects), input.first, input.second, Len(sent))
    IN /\ \A n \in DOMAIN frames : IsPrefix(Frames(SubSeq(frames, 1, n)).messages, sent)
       /\ Frames(frames).messages = sent

(* However early the stack is cut, each directory is listed once, level by *)
(* level (DirectoryContent::scan).                                         *)
ScanVisitsAll ==
  input.of = "tree" =>
    LET tree == Subdirectories(input.parent)
        listed == Scan(tree, 1, input.shortening)
        Before(c, d) == \E m, n \in DOMAIN listed : m < n /\ listed[m] = c /\ listed[n] = d
    IN /\ Len(listed) = Cardinality(DOMAIN tree)
       /\ ToSet(listed) = DOMAIN tree
       /\ \A c, d \in DOMAIN input.parent : Before(input.parent[c], input.parent[d]) => Before(c, d)

(* The log of a run that got to write it is still there after as many more *)
(* starts as the rotation says, even if those died while they moved the    *)
(* logs, and no older log is below a newer one (shiftLog, Logger::open).   *)
(* So one log more than the rotation is kept, and with 0 the last one is.  *)
LogsAreKept ==
  input.of = "starts" =>
    LET logs == LogsAfter(input.rotation, input.starts)
        count == Len(input.starts)
    IN /\ \A run \in 1 .. count :
            /\ input.rotation >= 0
            /\ input.starts[run].rounds > input.rotation
            /\ count - run <= input.rotation
            => \E n \in 0 .. count - run : logs[n] = run
       /\ \A m, n \in DOMAIN logs : m < n /\ logs[m] > 0 /\ logs[n] > 0 => logs[m] >= logs[n]

(* log.hpp:19, "The amount of log files to keeep. Pass 0 to disable log.": *)
(* with a rotation of 0 no log is written.  It does not hold: Logger::open *)
(* returns for a negative rotation only.                                   *)
ZeroDisablesLog ==
  input.of = "starts" /\ input.rotation = 0 => LogsAfter(0, input.starts) = NoLogs(0)

(* How a path first gives the directory d, whatever the case of its name.  *)
FirstSpelling(d, path) ==
  \E i \in DOMAIN path : path[i] = d /\ \A j \in 1 .. i - 1 : path[j][1] # d[1]

(* d is spelled as the last of the first k in order that has it gives it.  *)
IsKept(d, k, order) ==
  \E n \in 1 .. k :
    /\ FirstSpelling(d, order[n].path)
    /\ \A m \in n + 1 .. k : \A e \in ToSet(order[m].path) : e[1] # d[1]

(* A path with one spelling of each directory, in the order of the names.  *)
IsUnited(path, order, ranks) ==
  /\ {d[1] : d \in ToSet(path)} = ranks
  /\ \A d \in ToSet(path) : IsKept(d, Len(order), order)
  /\ \A m, n \in DOMAIN path : m < n => path[m][1] < path[n][1]

(* compiled has the variables of all in order, each as the first gives it  *)
(* that has it.  If there are others than the first, its path has of the   *)
(* spellings that differ only in case just one, that of the last that has  *)
(* one; else it is the path of the first.                                  *)
TakesFirst(compiled, order) ==
  LET known == UNION {DOMAIN order[n].variables : n \in DOMAIN order}
      ranks == UNION {{d[1] : d \in ToSet(order[n].path)} : n \in DOMAIN order}
      path == compiled["PATH"]
  IN /\ DOMAIN compiled = known \cup {"PATH"}
     /\ \A v \in known \ {"PATH"} : \E n \in DOMAIN order :
          /\ v \in DOMAIN order[n].variables
          /\ compiled[v] = order[n].variables[v]
          /\ \A k \in 1 .. n - 1 : v \notin DOMAIN order[k].variables
     /\ ranks = {} => path = Undefined
     /\ ranks # {} => IF Len(order) = 1 THEN path = order[1].path ELSE IsUnited(path, order, ranks)

(* An environment, then those it inherits from.                            *)
HasPrecedence(environs, name) ==
  LET inherits == environs[name].inherits
      order == <<environs[name]>> \o [n \in DOMAIN inherits |-> environs[inherits[n]]]
  IN IF ToSet(inherits) \subseteq DOMAIN environs
     THEN TakesFirst(CompileEnvironment(environs, name), order)
     ELSE CompileEnvironment(environs, name) = InheritsUnknown

(* The variables of an environment go before those it inherits, and those  *)
(* it inherits first before the rest.  Of the directories in its path it   *)
(* is the other way round, and where case tells them apart, as on Linux    *)
(* (environment.hpp:37-38), all but one of those whose names differ only   *)
(* in case are lost: compileEnvironment passes its flag the wrong way      *)
(* round (PublicSettings::compileEnvironment, Environment::merge).         *)
CompiledPrecedence == input.of = "environs" => HasPrecedence(input.environs, "e1")

(* What an accepted path is: the place it names below the directory the    *)
(* workspace is in, or, unless that is enforced, the path as it was given, *)
(* if it leads out of where it begins, or none if none need be there.      *)
IsAccepted(result, path, asked, cwd) ==
  LET place == Below(Front(Root), path)
  IN \/ result = place /\ IsPrefix(Front(Root), place)
     \/ /\ ~asked.enforceWorkspaceRelative
        /\ \/ result = Below(cwd, path) /\ LexicallyNormal(path) = <<"..">>
           \/ result = NoPath /\ ~asked.mustExist

(* An accepted path is where it should be, for the backend, and for the    *)
(* worker unless it runs where something is named like the beginning of    *)
(* the path; then both take a path without .. for the same.  Wherever the  *)
(* worker runs, what it accepts for deleteFile is below the directory the  *)
(* workspace is in, and what must exist does (verifyPath,                  *)
(* Jail::relativeToRoot).  A sibling whose name goes on where that of the  *)
(* workspace ends is accepted as well.                                     *)
VerifiedIsInPlace ==
  input.of = "path" =>
    LET path == input.path
        asked == input.asked
        worker == WorkerVerifyPath(path, asked, Root, Longer, input.cwd, input.exists)
        backends == BackendVerifyPath(path, asked, Root, Longer, input.cwd, input.exists)
    IN /\ backends # Refused => IsAccepted(backends, path, asked, input.cwd)
       /\ input.cwd = Front(Root) \/ Append(input.cwd, Head(path)) \notin input.exists =>
            /\ worker # Refused => IsAccepted(worker, path, asked, input.cwd)
            /\ ".." \notin ToSet(path) => worker = backends
       /\ asked.enforceWorkspaceRelative /\ worker # Refused => IsPrefix(Front(Root), worker)
       /\ asked.mustExist => {worker, backends} \subseteq input.exists \cup {Refused}

(* The partner of a source file's partner is the file, but for capitals in *)
(* its extension, if it is in the first of the directories for sources     *)
(* that is there, and its extension has a counterpart.                     *)
TogglesBack(file, exists) ==
  LET above == Reduced(file.directory, TRUE)
      Sibling(name) == Append(SubSeq(file.directory, 1, above - 1), name)
      rest == SubSeq(file.directory, above + 1, Len(file.directory))
      target == TargetExtension(file.extension, AutoExtension, AutoExtension)
  IN /\ Lower(file.extension)[1] = "c"
     /\ \E n \in DOMAIN PartnerNames(FALSE) :
          /\ file.directory[above] = PartnerNames(FALSE)[n]
          /\ Sibling(PartnerNames(FALSE)[n]) \in exists
          /\ \A k \in 1 .. n - 1 : Sibling(PartnerNames(FALSE)[k]) \notin exists
     /\ ToSet(rest) \intersect SpecialNames(FALSE) = {}
     /\ target \in HeaderExtensions
     => \A partner \in ToggleSourceHeader(file, TRUE, target, exists).specialDirPartner :
          ToggleSourceHeader(partner, FALSE, TargetExtension(target, AutoExtension, AutoExtension), exists).specialDirPartner
            = {[file EXCEPT !.extension = Lower(@)]}

(* From a source file to its partner and back leads to the file, with its  *)
(* extension in lower case (toggleSourceHeader).                           *)
ToggleComesBack == input.of = "file" => TogglesBack(input.file, input.exists)
=============================================================================
