# minIDE: specifications, model checking and proofs

minIDE is an IDE in three processes: an Electron/React frontend (`app/`), a
C++ backend the frontend talks to over websockets (`backend/`), and its
predecessor, the worker (`worker/`), an HTTP server with streams, Lua scripted
toolbars and debuggers.  This directory holds TLA+ modules of the parts where
several of these run at once, TLC configurations that check them, and proofs
that TLAPS checks.  Paths below are relative to `src/`.

## Inventory

| part | state | operations | talks to |
|---|---|---|---|
| Websocket API (`app/src/backend`, `views/main/main_window.js`) | `wsClient`, `replyId`, `replyWaiter`, `textBuffer`, `backend.connected`, `backend.tryingToConnect` | `writeMessage`, timeout interval, `onopen`, `onclose`, `onmessage`, `connectToBackend` | user session, over a websocket; the user interface, by promises |
| User session (`backend/.../server`) | `authenticated`, `root_`, one `FileWriter` per transfer, subscriptions | `on_text`, `on_close`, the workspace requests, completion callbacks of writes | frontend; plugin system |
| Stream queue and ids (`worker/streaming`) | `messageCache_` with reference counts, `assignments_`, `freeIds_`, `increment_` | broadcast, send, pop, unref, insert and erase a retriever, acquire and free an id | HTTP streamer |
| HTTP streamer (`worker/routers/http_streamer.cpp`) | `remoteAddresses`, a thread per listener, `endAllStreams_` | request, end of connection, consume loop, send, broadcast, shutdown | stream queue; kept beside the websocket streamer for the time of the change |
| Environment lock (`worker/environment_lock.cpp`) | the worker's `PATH` | `environmentLockedDo`, `doWithModifiedPath` | Lua processes, debuggers |
| Websocket streamer (`worker/streaming/ws_streamer.cpp`, `stream_session.cpp`) | `connections_`, one `StreamSession` per websocket, ids | accept, authenticate, close, send | sessions, in which it saves its ids; routers and debuggers send through it |
| Lua processes and toolbars (`worker/scripting_engine`, `worker/toolbars`) | a Lua state and its mutex, a lifetime thread, `ended`, `kill`, `exitStatus` | click, cancel, execute, kill, exit callback | environment lock, streamer |
| Sessions (`worker/session`) | a map of sessions, of which handlers hold copies | load, save a part | all routers |
| Saving files (`worker/routers/workspace.cpp`, `hybrid_read_sink.cpp`, `workspace/hashed_file.cpp`) | a sink's automaton and buffer, a temporary file, the file | open, write a piece, test the hash, remove, rename, load | frontend, over HTTP; the file system |
| Debugger instances (`worker/debugger`, `worker/routers/debugger.cpp`) | instances in the session, a watchdog thread each | create, delete, command, exit | sessions, streamer, environment lock |
| Small files of the worker (`worker/workspace/*_persistence.cpp`, `worker/public_settings.cpp`, `project_control.cpp`) | `project.json`, `run.json`, `workspace.json`, the settings, `environments_` | load, change, save, the start of the worker | sessions, frontend, scripts; the file system |
| Stream parser (`backend/.../stream/stream_parser.cpp`) | a buffer, a state that is kept between frames | `feed`, `popMessage` | user session |
| Environments (`worker/settings/environment.cpp`) | none | merge, compile | Lua processes, debuggers |
| Logs (`worker/log.cpp`, `backend/.../log.cpp`) | numbered files | `open`, with a shift by one | the file system |
| Paths and listings (`worker/workspace/workspace.cpp`, `worker/filesystem`, `backend/.../filesystem`) | none | `verifyPath`, `relativeToRoot`, `toggleSourceHeader`, `scan` | workspace handlers |
| Redux store (`app/src/reducers`) | log, open files, debugging, workspace | one reducer per action | user interface |
| Plugins, settings, filesystem, views, windows | configuration, widgets | | |

### What is hard

* Messages: replies are matched to requests by a number that wraps around;
  they may come late, never, twice (an error and then data) or on a connection
  that was replaced, and a timer gives calls up meanwhile.
* Files are sent in chunks by completion callbacks, several at a time, and
  their end is marked by an empty frame that a full last chunk also produces.
* The prefix of a text counts bytes where the frontend counts characters.
* Consuming threads of the streamer are detached: they outlive their listener,
  whose queue is erased and whose id is given to another one.
* Steps that belong together take different mutexes one after the other
  (count and pop, check and send, free the id and forget the address), and in
  the environment lock none at all.
* A thread is joined while its caller holds the mutex that thread needs, and
  flags are left over from the last process.
* Handlers work on copies of a session, save parts of them, and own shared
  pointers through them; a debugger is destroyed by whoever drops the last.
* All saves of a path use one temporary file, and the file is removed before
  the temporary one takes its name.
* The small files are emptied first and written when the stream is destroyed,
  with no lock: changes are lost or mixed, readers see an empty file, and a
  death in between leaves one.
* Scripts and debuggers keep the first copy of a session they used, with ids of
  websockets that have closed since.

`PROJECT.json` lists these hazards one by one, at their lines, with the
properties that cover them.

### What makes each part correct

* Websocket API and session: every promise is settled exactly once and in the
  end, by an answer to its own request; a file is complete when its promise
  resolves; the state says connected only when the backend agrees.
* Streams: a message is neither freed while referenced nor kept when it is
  not; a listener gets what was sent to it, in order; ids are unique; threads
  end.
* Toolbars: no deadlock, one process at a time per `Process` object of those
  whose start was said to have worked, each exit reported to the callback it came
  with, a status that belongs to the process that was started last.
* Saving: the file is one whole version at every step, also after a crash.
* Small files: a change keeps what it does not name, a reader is told what the
  file holds, the worker can be started again.
* Algorithms: the parser takes off what was sent however it is cut, a scan lists
  each directory once, a log is not overwritten by an older one, the variables of
  an environment win over those it inherits, a path that is accepted is the one
  meant, and the partner of a file's partner is the file.
* Sessions: nothing saved is lost.  Websockets: a message goes to the client it
  is meant for.  Debuggers: no duplicate but on purpose, removed when they exit,
  stopped when they are deleted.

## Modules

| module | models |
|---|---|
| `Wire` | the websocket connections: frames up and down, loss |
| `WsClient` | the frontend's end (extends `Wire`) |
| `UserSession` | the backend's end (extends `Wire`) |
| `Rpc` | both on their connections, with the properties |
| `PromiseSpec` | what the API promises its callers: abstract, implemented by `Rpc` |
| `RpcProofs` | the theorems about `Rpc` |
| `StreamQueue` | the queue and the id provider of one channel |
| `HttpStreamer` | the threads that work on it, with the properties |
| `LuaProcess` | a `Process` object of a toolbar script, its callers and its lifetime threads |
| `ScriptedToolbar` | the toolbar's entry points and the mutex of its Lua state (extends `LuaProcess`), with the properties |
| `HybridSink` | the automaton that takes a body of a saveFile request apart |
| `SaveFile` | saves and loads of one file down to inodes, and crashes (extends `HybridSink`) |
| `SessionStorage` | stored sessions, copies and partial saves |
| `WsStreamer` | websockets that log in to sessions, and handlers that send to them (extends `SessionStorage`) |
| `DebuggerInstances` | debuggers owned by sessions, and their watchdogs (extends `SessionStorage`) |
| `MetaStore` | what the small files promise: abstract, implemented by `MetaFiles` |
| `MetaFiles` | the small files, their handlers, the start and the death of the worker (extends `SessionStorage`) |
| `StreamParser`, `DirectoryScan`, `LogRotation`, `Environments`, `Paths` | the pure algorithms, as operators |
| `MCAlgorithms` | their inputs, and what is to hold of the results |
| `HttpStreamerProofs`, `WsStreamerProofs`, `MetaFilesProofs`, `ToolbarProofs`, `DebuggerProofs`, `SaveProofs` | the theorems about these modules |
| `AlgorithmProofs` | the theorems about the algorithms, of `MCAlgorithms`, for inputs of any size |
| `MC...` | values of the constants for TLC |

Definitions have the names of the functions and members they model; the map in
`PROJECT.json` gives the lines.  Next to a definition stands at times a variant
of it whose comment begins "A slip": it is that definition with a plausible
mistake, used to make sure that the properties notice.  No specification uses
one.

### Rpc

One JavaScript task is one action: an event handler runs to completion
together with the promise continuations it releases (`Call`, `Sweep`,
`OnMessage`, `Connect`, `OnOpen`, `OnClose`).  One handler or completion
callback of the backend is one action (`OnText`, `OnAfterAuthentication`,
`EndSession`, `OnChunkComplete`, `Accept`, `OnSessionClose`).  `Break` loses a
connection with everything in flight.

A call is a request of the user interface, or the authentication made when
connection `c` opens, which is named `c`.  Frames carry the call that caused
them (`of`): the code knows the ref only, and no action of the client decides
by `of`.  JSON texts are reduced to ref, success and width; a file to its
length in units, of which `BufferSize` make a buffer.  Time is reduced to the
order of sending: `Sweep(d)` gives up all calls sent up to `d`.
`answered` is a history variable for the refinement.

The text buffer is modelled frame by frame.  A wide text's prefix exceeds its
number of characters, so `parseData` waits for data that belongs to the next
message, or cuts into it and fails to parse; in both cases the buffer stays.

Assumed: a ref is not used again while something sent for its last use is
under way (`RefIsFree`): a million messages lie between two uses and a call is
given up after thirty seconds.  With `MaxReplyId = 1` this has to be said.

### StreamQueue and HttpStreamer

Every operation of `StreamQueue` and `IdProvider` holds one mutex from end to
end and is one action; `unrefMessage` decrements an atomic counter first and is
two (`Write` with `Decrement`, `Remove`).  A listener has two actors: the
request's handlers on server threads (`route`, from `CheckLimit` to
`CleanupAddress`, one step per mutex) and the consuming thread (`thread`, from
`Check` to `Remove`).  They share nothing but the queue, the producer and the
id: `Detach` may happen at any point of the thread's loop.

References dropped or popped carry the name of their message; messages are
named in the order of sending.  `front()` of an empty list sets `broken`, after
which nothing happens: the behaviour is undefined there and no property is
claimed of it.  `usedIdCount` reads without the mutex: while another thread is
about to get or free an id, `CheckLimit` may go either way (`MayReadAnything`).

### LuaProcess and ScriptedToolbar

A caller is an HTTP thread.  `Request`, `Action` and the returning steps of
`LuaProcess` are its way through `clickAction` and the like, which hold
`globalMutex` throughout or give up after 500 ms (`LockTimeout`);
`RequestCancel` and `CancelAction` are `cancelAction`, which holds it for the
lookup only.  `RunCheckAndJoin` reads `joinable` and `ended`; a join is two
steps, so that the caller waits between them.  A run is a process that was
started, its lifetime thread goes from `start` (before `ended` is cleared)
through `loop` to `over` (`ended` is set) and `notify` (the mutex is awaited).
A lifetime thread that uses the process after `kill` has reset it is at
`crash`, and then the behaviour ends.

`error` is `errno` after the process has been constructed (`process.cpp:138`),
and nothing resets `errno` before: a failed start sets it, and whatever failed in
the same thread earlier makes the start of a process that runs look failed as
well.  `Launch` takes either way.  A start that was answered with an error is in
`refused`; no thread waits for its process, so that the next `execute` finds
nothing to join and starts another one beside it, its exit is never reported,
and `tryGetExitStatus` answers what it knows of the one before (of such a process
`process.hpp:39-42`, "<has returned?, exit status>", is not true).  `OneAtATime`
and `StatusOfTheProcess` say that this befalls these processes alone.

### HybridSink and SaveFile

A body is counted in units (`SizeUnits`, one separator, `JsonUnits`,
`DataUnits`), and the buffer is the number of units it holds; a piece has any
number of units.  The file system is names of inodes, as in POSIX: a stream
that is open stays with its inode when the name moves.  `Test`, `Remove`,
`Rename`, `Destroy` and `Unlink` are the system calls of
`HashedFile::testAndMove` and its destructor, between which other requests
run.  `Crash` ends all requests between any two steps; what is on the disk
stays.  The hash is `Matches`, true of the content that was sent.

`FileIsWhole` is claimed as long as two saves have not overlapped
(`overlapped`).  All saves of a path share one temporary file: when a second
save empties it after the first has tested it and before it is renamed, a
mixture is put in place, and both are answered with 204.  TLC shows it when
`FileIsWhole` is checked without its condition.

### SessionStorage and WsStreamer

`Load` copies a session, `PartiallySave` puts a part into a fresh copy of what
is stored and stores that, under the lock.  A socket goes from `Accept` through
`Authenticate` (the copy), `SaveStreamId` (the save), `Accepted` (two writes) to
`OnClose`; it is looked up by the id in the copy of whoever sends.

What sends is a request.  A handler copies the session when it begins
(`Open` ... `LoadAll`), sends to the websocket it finds (`Send`), writes the
parts of its message one by one (`Write`), and saves what is left to save
(`SaveRoot`, `SaveToolbars`); its answer is in `status`.  A keeper, which is a
`Streamer` or a `ProjectControl` of a script, or a debugger, copies the session
when it is first used and sends with this copy ever after (`SendMessage`,
`OpenFileAt`, `RelayMessage`); only a `ProjectControl` can be told to copy it
again (`ReloadInformation`).  A websocket found and closed before the write is
used after its end: `crashed`, and the behaviour ends.  Parts of messages of two
senders may interleave on a websocket: the code has no lock around them, and no
property denies it.

### MetaStore and MetaFiles

A file is what it holds and how long it is: text that is written over a longer
one leaves the end of that one behind (`Over`), which is no json any more
(`Torn`).  Loading, emptying (`OpenToWrite`) and writing (`Write`) are three
steps, between which other handlers run.  `Die` ends all of them at any step and
leaves what is on the disk; `Start` and `LoadSettings` start the worker again,
which fails for good on settings that cannot be parsed.  `SaveEnvironments`
assigns the member before it saves it, with no lock, and the text is made from
the member when it is written (`Seen`).

`MetaStore` is a variable for each file that clients read and change in one
step.  A file that is being written is mapped to the value it had before it was
emptied (`before`).  The store promises nothing of a file that is spoiled: two
changed it at a time, the worker died while one did, or the member could not be
saved.  A reader that meets a change may be told a flaw, which is what a reader
of an emptied file is told, but not a value nobody wrote.

### The algorithms

`MCAlgorithms` chooses an input in its one step, and its invariants compare what
the algorithm makes of it with a definition of what it is to be: the sequence of
objects sent, the set of directories, the run that wrote a log, the first
environment that has a variable, the path below the directory the workspace is
in, the file the search began with.  The texts of the parser are made of the six
kinds of characters it tells apart.

Some definitions there say of the code what one would rather it did not do.

* `verifyPath` has two parameters, and all of their values are inputs
  (`Askings`).  `enforceWorkspaceRelative` is false unless it is given, and only
  the worker's `deleteFile` gives it.  Then a path that leads out of the jail is
  taken as it was given, below the directory of the process, and one that does
  not begin like the workspace becomes an empty one, which passes if nothing need
  exist.  A sibling whose name goes on where that of the workspace ends (`ws2`)
  begins like it and is accepted in any case.  `proximate` of the worker looks
  below the directory it runs in: where something there is named like the
  beginning of the path, it may mean another place.  `VerifiedIsInPlace` says
  what is accepted besides the place that is named, and that what is enforced
  stays below the directory the workspace is in.
* `compileEnvironment` tells `merge` that paths are case insensitive just where
  the system is not Windows (`public_settings.cpp:91-96`), while
  `environment.hpp:37-38` says that on Linux they are not.  So of directories
  whose names differ only in case one is left, and the path of an environment
  that inherits is sorted by name.  The spelling that is left is that of the one
  merged last, so for paths the "priority is 'other'" of that header is the other
  way round than for variables.  `CompiledPrecedence` says so.
* An environment without a path takes the last character off an empty string
  (`Undefined`), and what a body has for the header goes into the extension of
  the source (`TargetExtension`).  `tolower` makes `.C` a `.c`, so that a file
  with capitals comes back without them.

### DebuggerInstances

A shared pointer to debugger `i` is the membership of `i` in a set: the stored
session's, a handler's copy, the copy in `save_partial` (`toSave`), the one a
script memorized, or the one `onExit` loaded (`held`).  An action that shrinks
such a set ends in `Dropped`, which destroys the debuggers nobody points to any
more.  `Create`, `Start`, `Assign` and `Store` are `createInstance` within
`save_partial`, which keeps the storage locked: process, thread and the member
that holds the thread come one after the other.  The watchdog is `SeesExit`,
`Detach` (through that member), `LoadsSession`, `ErasesItself` and
`ReturnsFromExit`.  `crashed` stands for the use of a null or destroyed object
and ends the behaviour; `ExitsAreSafe` says in which situations alone it may
come to that.

## Runs

| run | shows |
|---|---|
| `rpc_reconnect` | two overlapping connections, an open and a file load, refs that wrap: types, `EachPendingWaits`, `OwnReply`, `ConnectedIsBacked`, `FileComplete`, and the refinement of `PromiseSpec` |
| `rpc_settles` | wide texts stay within the text buffer's means (`TextKeepsUp`), and with the interval firing every call that was sent is settled: `Settles` |
| `streams` | two listeners, a sender and broadcasts: types, `NoDangling` (no message is erased that is referred to, none twice, no id has two listeners), `Delivers`, `MissesOnlyTheGone` |
| `streams_end` | threads end after shutdown and after their client has gone: `ThreadsEnd` |
| `toolbar` | three callers, three processes: types, `OneAtATime`, `ExitsReported`, `StatusOfTheProcess` |
| `toolbar_try` | asking for an exit status may never return (finding) |
| `save_file` | two saves, whole or faulty, cut anywhere, a load, a crash: types, `FileIsWhole`, `LoadIsWhole`, `PiecesAreOrdered` |
| `ws_streams` | two sessions, two sockets, two handlers, scripts or debuggers of any kind: types, `OwnStream`, `NothingForgotten`, `OpenedWasSent` |
| `debuggers` | two requests of any kind, two debuggers: types, `ExactlyTheLive`, `DuplicatesWereUnseen`, `ExitsAreSafe`, and with handlers and threads that go on `ExitIsNoticed`, `DeletedIsStopped` |
| `meta_files` | three handlers or scripts, files that cannot be opened, a death and a start of the worker: types, `StartsAgain`, and the refinement of `MetaStore` |
| `algorithms` | `PopsWhatWasSent`, `ScanVisitsAll`, `LogsAreKept`, `CompiledPrecedence`, `VerifiedIsInPlace`, `ToggleComesBack` |
| `no_log` | a rotation of 0 has the log written (finding) |

### Findings

* `TryReturns` (`worker/scripting_engine/process.hpp:39`): an action that asks
  for the exit status holds `globalMutex` and joins the lifetime thread, which
  has set `ended` and waits for `globalMutex` to report the exit.
* `ZeroDisablesLog` (`worker/log.hpp:19`, `backend/.../log.hpp:18`): "The amount
  of log files to keeep. Pass 0 to disable log."  `open` returns for a negative
  rotation only: with 0 the log is written, and for any other rotation one log
  more is kept than it says.

### Bounds

* Two connections: one replaced by another, which is where `onclose`, the text
  buffer and late replies meet; a third repeats the second.  One connection
  where connections are not the question.
* `MaxReplyId = 1`: three refs, so that four calls wrap around.
* A file of two buffers, with nothing behind the last full one, which is where
  two empty frames end it; `OwnReply` is proved for any number and size of files.
* Two listeners (one reuses the id of the other), two messages (order and
  theft need two), two ids, a limit of one or two.  With one id the ids run
  out.
* Three callers of a toolbar and three processes: one runs, one kills, one asks;
  what is left over from a process meets the next one and the one after it.
* Two saves and one load: while one save is in place another one begins.  Two
  units of size, JSON and data, so that a cut may fall inside any of them.
* Two websockets and two sessions: a client that comes again, and one that is
  somebody else's.  Each handler runs once: what it leaves behind is in the
  session.  A keeper sends twice (`MaxSends`): before and after its copy is old.
* Two requests and two debuggers of one configuration: a duplicate, or somebody
  who deletes or uses one of them.  The invariants are proved for any number of
  both.
* Three handlers of the small files: two that change one file and one that reads
  it meanwhile.  Two projects, of which one stays known to scripts when the other
  is active; two texts of different lengths, so that a short one is written over
  a long one and the other way round; one death (`MaxDeaths`), after which
  everything is as at a first start with other files.  The files are all missing
  at first, or all written.
* Algorithms: two objects out of five (strings, escapes, nesting, white space)
  in three frames cut anywhere; trees of up to six directories, with a stack cut
  at lengths from one to eight; up to three logs kept over four starts, each of
  which may die in any round; an environment that inherits up to two others;
  paths of up to five names out of four, asked for in any way; all extensions,
  and three with capitals, with up to two names between the directory of sources
  and the file.

Symmetry is used in safety runs only, of connections, callers, saves, sockets,
sessions and requests (in `meta_files` together with a refinement that states no
fairness, and compares no requests), none of which the specifications tell apart by name.

Deadlock is not checked in these runs: calls, connections, messages,
listeners, processes, saves and requests are bounded, and when they are used up
nothing is left to do; an algorithm takes one step; and behaviours end where the code's are undefined.
`TryReturns` is a liveness property for that reason.

### Fairness

* `Settles`: weak fairness of `Timeout(k)` for each call, which is
  `setInterval` firing again and again.  Nothing is assumed of network and
  backend; a reply may never come.
* `ThreadsEnd`: weak fairness of each consuming thread, which is a thread of
  its own and never waits on a condition in its loop.
* `TryReturns`: threads run, processes end, and a thread that waits for
  `globalMutex` gets it if it is free again and again (strong fairness); the
  counterexample is a deadlock, which no fairness would avoid.
* `ExitIsNoticed`, `DeletedIsStopped`: handlers that have begun and watchdogs
  go on, and get the storage's lock if it is free again and again (strong
  fairness).  Requests need not come and processes need not exit.

## Proofs

Each theorem holds for all constants that satisfy the assumptions of the modules
it is about: finitely many connections and calls that are distinct
(`WireAssumption`), a kind and a length for each request and a buffer that is
not empty (`SessionAssumption` of `UserSession`), a positive number of ids and
numbers for bounds (`QueueAssumption`, `StreamerAssumption`, `WsAssumption`), 0
neither a session nor a request (`SessionAssumption` of `SessionStorage`,
`DebuggerAssumption`), parts of a body that are not empty (`SinkAssumption`),
finitely many saves that are not the old content (`SaveAssumption`), and values
of files that are none of the flaws, with settings whole or missing before the first start
(`MetaAssumption`, `FirstAssumption`).

`RpcProofs`: `TypeCorrect`, `PendingCorrect`, `OwnReplyCorrect`, `Refinement`
(`Spec => ImplementsPromises`), `TextKeepsUpCorrect`, `ConnectedCorrect` and
`FileCompleteCorrect`.  The first inductive invariant is
`IInv == TypeOK /\ EachPendingWaits /\ OwnTraces /\ Honest`.
`OwnReply` alone is not inductive: it speaks of refs that have a waiter, and a
chunk or a completion turns one trace of a ref into another one.  `OwnTraces`
says that any two traces of one ref, waiter, frame, request or file writer,
belong to the same call; with `RefIsFree` a new call starts from no trace at
all.  `Honest` says that a successful frame on its way, and an end of a file,
is preceded by the backend's `answered`: this is what the refinement needs when
the client resolves a promise.
Two more invariants lie above it.  `LinkInv` has `TextKeepsUp`, so that the text
that is parsed is always the one that just came, and `AuthSent`: a success of an
authentication is under way only where the session has accepted the user.  Hence
`ConnectedIsBacked`.  `LoadInv` follows each call that loads a file.  Until it is
sent there is nothing of it (`Unsent`); while it is pending, all that is under
way for it comes from one request on one connection (`Loading`), and there it is
first that request and nothing else, then a flow of frames that at most one
`FileWriter` goes on with (`Stage`).  `Carries` says what the flow adds up to: it
gives an offset in the file to each frame under way, starting with what has been
collected, so that an empty frame, wherever it is, is at the end of the file,
and what the writer has left begins where the last frame ends.  Offsets are only
shifted when a frame is taken and extended when one is sent, so no sum over a
queue is needed.  When the connection is lost the flow just ends.

`HttpStreamerProofs`: `TypeCorrect`, `NoDanglingCorrect`, `DeliversCorrect` and
`MissesOnlyTheGoneCorrect`.  The first inductive invariant is `TypeOK /\ Stages /\ Queued /\ Counted /\ RemovedOnce /\ IdsOwned`.
That a counter never falls below zero, which is part of the types, needs that
it counts exactly the queues and threads that refer to a message (`Counted`).
This needs that a reference which is popped was in its queue once: queues are
increasing (`Queued`), as messages are appended in the order of their names.
A queue that is erased is empty: `consumeableCount` registers a listener anew
whose queue is gone.  At most one thread is about to remove a message
(`RemovedOnce`), since only one decrement reaches zero.  An id that is free is
nobody's, and two listeners that have one have different ones (`IdsOwned`).
What is delivered rests on a second one above it,
`DeliveryInv == Fresh /\ InOrder /\ NothingLost /\ Addressed /\ Found`.  An id
is given to the next listener while the thread of the last one may still read
from its queue, so `InOrder` is about each listener that ever had the id: what
it wrote, what it holds and what is queued under its id are increasing in this
order, which a pop by another thread leaves so.  Only who shared its id with
nobody keeps all its messages (`NothingLost`), has its own address there
(`Addressed`) and finds what was counted when it pops (`Found`); the lemmas
`SharesGrows` and `GoneGrows` say that these two conditions only ever come about.

`WsStreamerProofs`: `TypeCorrect` and `OwnStreamCorrect`.  The inductive
invariant is
`TypeOK /\ IdsAreOwn /\ LoginsSound /\ StoredOwns /\ RequestsSound /\ SentSound`.
Ids are never given back, so no two websockets have the same one (`IdsAreOwn`);
each id in a stored session or in a copy of it, however old, is that of a
websocket which logged in to this session and channel (`LoginsSound`,
`StoredOwns`, `RequestsSound`); hence a websocket that is found is one of them.

`NothingForgottenCorrect` and `OpenedWasSentCorrect` are in the same module.  To
the invariant above, `SavedInv` adds that the id a login left in its session is
replaced only by that of another websocket which logged in there
(`LoginsStored`), what a handler has done by how far it is (`Handled`: the head
of a stream is sent before its end, and what was answered with 200 is saved),
and that a root which is stored was sent whole (`RootsSent`).  The saves merge
one field into what is stored at that time, so that none of this is lost with
an old copy.

`ToolbarProofs` (about `LuaProcess` and `ScriptedToolbar`): `TypeCorrect`,
`OneAtATimeCorrect`, `ExitsReportedCorrect` and `StatusCorrect`.  What is kept of
a process is always that of the last run or nothing (`Newest`), and no thread is
kept while the next run is prepared: this is what `runCheckAndJoin` is for, and
it needs that every call which starts one is made under the mutex (`Held`) and
that one caller at most is in a join (`JoinsAlone`).  A process that was started
then has a thread, or a caller that is about to create it, or its start was
answered with an error (`Watched`); a thread that has seen the end belongs to a process that is over
(`Threads`); and the status that is kept is that of the last one that got a
thread unless it has yet to be kept (`Known`).  That `runs` stays within `MaxRuns`, which the types
need, counts the callers that may still start a process (`Bounded`).  The
assumption is that a cancel function, which runs beside the functions of
actions, does not start processes (`ToolbarAssumption`): nothing in the code
keeps a script from doing so, and then two may run.  `StatusCorrect` is claimed
when cancel functions do not ask for the status either.

`MetaFilesProofs`: `TypeCorrect`, `StoreImplemented` and `StartsAgainCorrect`.
The inductive invariant of the first two, `KeptInv`, has the types, what each
handler may be doing to which file (`Jobs`), and `Kept`: of a file that is not
spoiled there is one changer, it is empty while it is written, so that nothing
longer can stay behind the new text, and what is about to be written is a change
of the value it had.  `EnvironsInFile` says the same of the environments, which
the worker keeps in memory too.  Each action is then a step of the store: reading
(`StoreReads`), beginning to change (`StoreOpens`), changing (`StoreChanges`),
giving up (`StoreGivesUp`), the death (`StoreDies`), or none of them; opening a
file, which empties it, is none.  Torn files of the first start are assumed to
have some length, and whole ones that of their text (`FirstAssumption`).
For `StartsAgainCorrect`, that settings which are not spoiled are whole or
missing (`SettingsWhole`) is shown of the store only, and holds of the files as
they implement it; besides, no handler runs while the worker loads its settings
(`StarterAlone`).

`DebuggerProofs` (about `DebuggerInstances`): `TypeCorrect`,
`ExactlyTheLiveCorrect`, `DuplicatesWereUnseenCorrect` and
`ExitsAreSafeCorrect`, for any number of requests and of debuggers.  A debugger
that is in a stored, copied or memorized session was stored once and has not
been destroyed (`Alive`), since whoever drops a pointer destroys only what
nobody else points to (`DroppedIs`).  While a debugger is made its handler holds
the lock, so that what it will store is what is stored then and the new one
(`Makes`); hence no handler brings one back or loses one.  The thread of a
debugger that was not stored yet belongs to one that is being made, and a thread
whose member is still null to one whose `start` has not assigned it
(`Watchdog`).  So if a debugger is not there any more when its exit is handled,
it was deleted meanwhile (`GoneWasDeleted`), and if its member is null it was
deleted too or is just being started: these are the two races that
`ExitsAreSafe` leaves.  `DuplicatesWereUnseen` needs that ids grow: a debugger
that is stored later is no earlier one.

`SaveProofs` (about `HybridSink` and `SaveFile`): `TypeCorrect`,
`FileIsWholeCorrect`, `LoadIsWholeCorrect` and `PiecesAreOrderedCorrect`.  The
inductive invariant says of each save where its sink is after the units that
have arrived (`SinkAt`, which `WriteIs` shows to be kept by a piece of any size:
three steps of the automaton are always enough) and what it has done
(`Handles`); of the file system that there is an inode for each file that is
created (`Room`) and none is longer than the data (`Short`); and, unless two
saves have been under way at once, `Orderly`: one save at most is under way, it
writes to the temporary file, which holds what was handed out (`Holds`), a load
reads an inode which is not that one (`Reads`), so that nobody changes what it
reads, and the file is missing only between its removal and the rename, when the
temporary one is whole, or after a crash in that gap (`Replaced`).  The condition
is needed, as all saves of a path share one temporary file.

The inductive invariants were checked by TLC before they were proved.  In each
module there are one lemma per action or per part of the invariant and lemmas
for what the actions leave alone.

`AlgorithmProofs` (about `MCAlgorithms`, `LogRotation`, `Paths`, `StreamParser`,
`DirectoryScan` and `Environments`): `LogsAreKeptCorrect`,
`VerifiedIsInPlaceCorrect`, `PopsWhatWasSentCorrect`, `ScanVisitsAllCorrect`,
`CompiledPrecedenceCorrect` and `ToggleComesBackCorrect`, the last two from
`EnvironmentIsCompiled` and `SourceTogglesBack`, which are about inputs of any
size.  What a fold over a sequence of any length gives needs
induction.  The library's induction theorems take an operator, which the provers
cannot instantiate; so `LeastNumber` is derived from `<` being well-founded,
`Induction` is stated for a set instead of a predicate, and a fold is described by
its intermediate values (`IsIter`, `LooksOn`, `TakesFrames`), which are there as
there is a function of the kind that folds choose (`FoldExists`).

* `LogsAreKept` holds for any number of logs and of starts.  The invariant of the
  outer fold (`Kept`) says that no log is from a later run, that newer ones are
  lower, and that the log of each run that wrote it is found; the inner fold copies
  them one up, from the end, so that after any number of rounds each is one above
  or where it was.
* `VerifiedIsInPlace` holds for paths of any length: as long as the normal form of
  the relative path does not lead out, entering its names one by one from a
  directory and normalising them without one give the same names below it.  The
  names, the workspace's root and the directories of the process are those of the
  run.  A path that leads out is accepted only unless `enforceWorkspaceRelative` is
  asked for, as it was given.
* `PopsWhatWasSent` holds for any number of objects and any cut into frames.  Of an
  object the proof only needs that the parser finds its end with its last character
  and not before (`IsTrack`), which is shown for each of the run's five; what the
  parser goes through is then the same wherever a frame ends, as the offset, the
  open curly brackets and whether it is in a string or behind a backslash are kept
  (`FindIs`).  The invariant of the fold over frames (`IsAfter`) says that the
  buffer is what is left of the text behind the objects that were taken, and that
  the parser has looked at no more of it than is there; once all the text is there
  every frame takes an object (`KeepsUp`).

* `ScanVisitsAll` holds for any tree, any length at which the stack is cut and any
  order of the directories that are in one directory (the code takes them as the
  system gives them).  The invariant of the loop (`Scanned`) is about a queue that
  the code does not keep, of all directories that were ever put on the stack:
  those up to some place in it are listed, what is on the stack from the index on
  is the rest (`OnStack`), each is met once, level by level, and so is everything
  in the listed ones (`Met`).  Cutting the stack changes none of that.  After as
  many rounds as there are directories all that were met are listed, and a
  directory with the least number that was not met would be in one that was
  (`AllAreMet`).

* `CompiledPrecedence` holds for any number of environments, of directories, of
  variables and of environments that one inherits from (`EnvironmentIsCompiled`).
  The invariant of the fold over those (`HasFirst`) says that after the first `k`
  the path has the directories of them, but for case, and no other; each is
  spelled as the last of them that has it gives it first (`IsKept`); as soon as
  two were merged their names ascend, so that none is there twice; and each
  variable has the value of the first of them that has it.  A path goes through
  an ordered set on the way: insertion keeps the first spelling of each rank
  (`HasRanks`), a finite set whose ranks differ has an order (`OrderExists`), and
  the list in that order ascends and has each member once (`OrderedLists`).  Of directories the proof only needs that their ranks are
  numbers.
* `ToggleComesBack` holds for a file below any number of directories and whatever
  else exists (`SourceTogglesBack`).  The partner's directory is the file's with
  one name replaced (`IsRenamed`); where no directory for headers is below it,
  that name is the last special one on the way back as well (`ReducedOfRenamed`),
  what is above and below it is what it was (`RenamedKeeps`), and the first
  directory for sources that exists is the one the file came from
  (`SpecialDirIsFirst`).

So every safety property that a run checks is proved.  Model checked only:
`Settles`, `ThreadsEnd`, `ExitIsNoticed` and `DeletedIsStopped`, which are
liveness under fairness, which the provers cannot reason about.

## Not modelled

* The environment lock: `std::lock_guard <std::mutex> {m};` declares nothing, so
  it locks nothing, and starts of processes overlap; that two of them may see
  each other's `PATH` needs no model.
* What listings and files hold, and what processes print; the directories that
  scripts make; how run configurations are parsed: pure functions of the disk.
* Scripts themselves, and how values are converted for them.
* Data races on `connections_` in `WebsocketStreamer::send`, and on the Lua
  state in the output callbacks: any outcome is possible, and no property would
  hold or be worth stating.  `broadcast` of the websocket streamer, which
  nothing calls, and `shutdownAll`, which the end of `main` calls.
* The lines of logs.
* Of `saveFile`, a temporary file that cannot be opened.  The request is answered
  with an error and what is tested in the end is the temporary file of another
  save, if there is one, which the destructor then removes.  If an empty file is
  saved, the hash of nothing matches the file that is missing, and the old file
  is removed with nothing to take its place: this case, like that of a body
  without data, is outside of the model (`SinkAssumption`).
* What becomes of an exception that a handler throws into the library: the
  websocket of a client whose first text is no json (`stream_session.cpp:34`) is
  taken to end.
* The terminal router, which never registers its routes; the authenticator; the
  parts of the backend that are copies of the worker's and that nothing uses
  (`PublicSettings`, `DirectoryCache`); plugins, which are scripts with handles
  of their engine.
* The store of the frontend and its debugger: each reducer computes one part of
  the next state in one synchronous step, and what reaches it from the backend
  is modelled up to the promise that is settled.  Views and windows: widgets.

## Plan

1. Done: the RPC protocol, checked and proved; the stream queue and the HTTP
   streamer, checked, and their core proved; websockets with everything that
   sends on them, toolbars, debuggers and saving, checked and proved; the small
   files with their abstract store, and that the worker starts again proved; the
   pure algorithms.
2. Done: proofs of every safety property of the state machines, with the
   refinements of `PromiseSpec` and `MetaStore`, and of every property of the
   algorithms.
3. Frontend: open files and the debugging reducer as state machines against the
   messages of the worker.
