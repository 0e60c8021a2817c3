---------------------------- MODULE HttpStreamer ----------------------------
(***************************************************************************)
(* One channel of Routers::HttpDataStreamer.  A GET request registers a    *)
(* listener on one of the server's threads, and a thread of its own then   *)
(* consumes the listener's queue; when the response ends, a callback on a  *)
(* server thread takes the listener down, whether or not that thread has   *)
(* noticed.  Other threads send and broadcast.                             *)
(***************************************************************************)
EXTENDS StreamQueue

CONSTANTS
  Listeners,           (* the stream requests                              *)
  Senders,             (* threads that call send                           *)
  Host,                (* Host[l]: the address request l comes from        *)
  NoHost,              (* no entry in remoteAddresses                      *)
  MaxStreamListeners   (* Config::maxStreamListeners                       *)

NoId == 0
NoMsg == 0

ASSUME StreamerAssumption ==
  /\ IsFiniteSet(Listeners)
  /\ MaxStreamListeners \in Nat
  /\ NoHost \notin Range(Host)
  /\ DOMAIN Host = Listeners

VARIABLES
  route,           (* route[l]: how far the handler of request l is, or    *)
                   (* the callback that ends it                            *)
  id,              (* id[l]: the id of l                                   *)
  attached,        (* attached[l]: produ->has_consumer_attached()          *)
  thread,          (* thread[l]: where the consuming thread of l is        *)
  holding,         (* holding[l]: the message behind the popped reference  *)
  written,         (* written[l]: the messages written to l                *)
  owed,            (* owed[l]: the messages queued for l (history)         *)
  remoteAddresses, (* remoteAddresses[i]: the address registered for id i  *)
  sending,         (* sending[s]: the id a send has passed the check for   *)
  endAllStreams,
  broken           (* front() was called on an empty list                  *)

streamVars == <<route, id, attached, thread, holding, written, owed,
                remoteAddresses, sending, endAllStreams, broken>>

vars == <<queueVars, idVars, streamVars>>

(* "id", "address" and "queue" are the steps of commonStreamSetup that are *)
(* next, "erase", "free" and "forget" those of commonCleanup.              *)
RouteState == {"none", "id", "address", "queue", "streaming", "erase",
               "free", "forget", "done"}

ThreadState == {"off", "check", "count", "pop", "write", "remove", "ended"}

StreamTypeOK ==
  /\ route \in [Listeners -> RouteState]
  /\ id \in [Listeners -> Ids \cup {NoId}]
  /\ attached \in [Listeners -> BOOLEAN]
  /\ thread \in [Listeners -> ThreadState]
  /\ holding \in [Listeners -> Msgs \cup {NoMsg}]
  /\ written \in [Listeners -> Seq(Msgs)]
  /\ owed \in [Listeners -> SUBSET Msgs]
  /\ remoteAddresses \in [Ids -> Range(Host) \cup {NoHost}]
  /\ sending \in [Senders -> Ids \cup {NoId}]
  /\ endAllStreams \in BOOLEAN
  /\ broken \in BOOLEAN

TypeOK == QueueTypeOK /\ StreamTypeOK

Init ==
  /\ QueueInit
  /\ route = [l \in Listeners |-> "none"]
  /\ id = [l \in Listeners |-> NoId]
  /\ attached = [l \in Listeners |-> FALSE]
  /\ thread = [l \in Listeners |-> "off"]
  /\ holding = [l \in Listeners |-> NoMsg]
  /\ written = [l \in Listeners |-> <<>>]
  /\ owed = [l \in Listeners |-> {}]
  /\ remoteAddresses = [i \in Ids |-> NoHost]
  /\ sending = [s \in Senders |-> NoId]
  /\ endAllStreams = FALSE
  /\ broken = FALSE

(* Nothing is said of what the program does once it is broken.             *)
Goes(l, from, to) ==
  ~broken /\ route[l] = from /\ route' = [route EXCEPT ![l] = to]

Runs(l, from, to) ==
  ~broken /\ thread[l] = from /\ thread' = [thread EXCEPT ![l] = to]

-----------------------------------------------------------------------------
(* commonStreamSetup.                                                      *)

(* usedIdCount takes no mutex: beside a thread that gets or frees an id it *)
(* may read anything.                                                      *)
MayReadAnything(l) == \E other \in Listeners \ {l} : route[other] \in {"id", "free"}

CheckLimit(l) ==
  /\ \/ /\ Goes(l, "none", "done")
        /\ UsedIdCount >= MaxStreamListeners \/ MayReadAnything(l)
     \/ /\ Goes(l, "none", "id")
        /\ UsedIdCount < MaxStreamListeners \/ MayReadAnything(l)
  /\ UNCHANGED <<queueVars, idVars, id, attached, thread, holding, written, owed,
                 remoteAddresses, sending, endAllStreams, broken>>

GetId(l) ==
  /\ \/ /\ Goes(l, "id", "address")
        /\ \E i \in Ids : AcquireId(i) /\ id' = [id EXCEPT ![l] = i]
     \/ /\ Goes(l, "id", "done") /\ OutOfIds
        /\ UNCHANGED <<queueVars, idVars, id>>
  /\ UNCHANGED <<attached, thread, holding, written, owed, remoteAddresses,
                 sending, endAllStreams, broken>>

(* unordered_map::insert does not replace an entry.                        *)
RegisterAddress(l) ==
  /\ Goes(l, "address", "queue")
  /\ remoteAddresses' = [remoteAddresses EXCEPT ![id[l]] = IF @ = NoHost THEN Host[l] ELSE @]
  /\ UNCHANGED <<queueVars, idVars, id, attached, thread, holding, written, owed,
                 sending, endAllStreams, broken>>

(* The retriever is inserted, the thread started and send_chunked called.  *)
StartStream(l) ==
  /\ Goes(l, "queue", "streaming")
  /\ InsertRetriever(id[l])
  /\ Runs(l, "off", "check")
  /\ attached' = [attached EXCEPT ![l] = TRUE]
  /\ UNCHANGED <<id, holding, written, owed, remoteAddresses, sending,
                 endAllStreams, broken>>

-----------------------------------------------------------------------------
(* The connection ends: the client goes away, or the thread has called     *)
(* finish().  Then commonCleanup runs.                                     *)

Detach(l) ==
  /\ Goes(l, "streaming", "erase")
  /\ attached' = [attached EXCEPT ![l] = FALSE]
  /\ UNCHANGED <<queueVars, idVars, id, thread, holding, written, owed,
                 remoteAddresses, sending, endAllStreams, broken>>

CleanupQueue(l) ==
  /\ Goes(l, "erase", "free")
  /\ EraseRetriever(id[l])
  /\ UNCHANGED <<id, attached, thread, holding, written, owed, remoteAddresses,
                 sending, endAllStreams, broken>>

CleanupId(l) ==
  /\ Goes(l, "free", "forget")
  /\ FreeId(id[l])
  /\ UNCHANGED <<id, attached, thread, holding, written, owed, remoteAddresses,
                 sending, endAllStreams, broken>>

CleanupAddress(l) ==
  /\ Goes(l, "forget", "done")
  /\ remoteAddresses' = [remoteAddresses EXCEPT ![id[l]] = NoHost]
  /\ UNCHANGED <<queueVars, idVars, id, attached, thread, holding, written, owed,
                 sending, endAllStreams, broken>>

-----------------------------------------------------------------------------
(* The consuming thread.                                                   *)

(* A slip: the thread does not look at endAllStreams_.                     *)
CheckIgnoresEnd(l) ==
  /\ \/ ~attached[l] /\ Runs(l, "check", "ended")
     \/ attached[l] /\ Runs(l, "check", "count")
  /\ UNCHANGED <<queueVars, idVars, route, id, attached, holding, written, owed,
                 remoteAddresses, sending, endAllStreams, broken>>

Check(l) ==
  /\ \/ (~attached[l] \/ endAllStreams) /\ Runs(l, "check", "ended")
     \/ attached[l] /\ ~endAllStreams /\ Runs(l, "check", "count")
  /\ UNCHANGED <<queueVars, idVars, route, id, attached, holding, written, owed,
                 remoteAddresses, sending, endAllStreams, broken>>

(* A slip: an empty queue is popped as well.                               *)
CountIgnored(l) ==
  /\ \E n \in 0 .. MaxMsgs :
       /\ Runs(l, "count", "pop")
       /\ ConsumeableCount(id[l], n)
  /\ UNCHANGED <<route, id, attached, holding, written, owed, remoteAddresses,
                 sending, endAllStreams, broken>>

Count(l) ==
  /\ \E n \in 0 .. MaxMsgs :
       /\ Runs(l, "count", IF n = 0 THEN "check" ELSE "pop")
       /\ ConsumeableCount(id[l], n)
  /\ UNCHANGED <<route, id, attached, holding, written, owed, remoteAddresses,
                 sending, endAllStreams, broken>>

Pop(l) ==
  \/ /\ Runs(l, "pop", "write")
     /\ \E m \in Msgs : PopMessage(id[l], m) /\ holding' = [holding EXCEPT ![l] = m]
     /\ UNCHANGED <<route, id, attached, written, owed, remoteAddresses, sending,
                    endAllStreams, broken>>
  \/ /\ ~broken /\ thread[l] = "pop" /\ assignments[id[l]] = <<>>
     /\ broken' = TRUE
     /\ UNCHANGED <<queueVars, idVars, route, id, attached, thread, holding,
                    written, owed, remoteAddresses, sending, endAllStreams>>

(* writeMessage, and the decrement of unrefMessage.                        *)
Write(l) ==
  /\ Runs(l, "write", IF refCount[holding[l]] = 1 THEN "remove" ELSE "check")
  /\ written' = [written EXCEPT ![l] = Append(@, holding[l])]
  /\ Decrement(holding[l])
  /\ UNCHANGED <<route, id, attached, holding, owed, remoteAddresses, sending,
                 endAllStreams, broken>>

Remove(l) ==
  /\ Runs(l, "remove", "check")
  /\ EraseMessage(holding[l])
  /\ UNCHANGED <<route, id, attached, holding, written, owed, remoteAddresses,
                 sending, endAllStreams, broken>>

-----------------------------------------------------------------------------
(* The other threads.                                                      *)

(* The listeners that hold id i, between setup and cleanup.                *)
Live(l) == route[l] = "streaming"

Owe(to) ==
  owed' = [l \in Listeners |-> IF Live(l) /\ id[l] \in to
                               THEN owed[l] \cup {sent + 1} ELSE owed[l]]

Broadcast ==
  /\ ~broken
  /\ BroadcastMessage
  /\ Owe(registered)
  /\ UNCHANGED <<route, id, attached, thread, holding, written, remoteAddresses,
                 sending, endAllStreams, broken>>

(* send, called with the address and the id that the session of listener l *)
(* keeps once its stream is started: the check, and later the message.     *)
Forbidden(l) == remoteAddresses[id[l]] \notin {NoHost, Host[l]}
NoListener(l) == remoteAddresses[id[l]] = NoHost

CheckSend(s, l) ==
  /\ ~broken /\ sending[s] = NoId /\ thread[l] # "off"
  /\ ~Forbidden(l) /\ ~NoListener(l)
  /\ sending' = [sending EXCEPT ![s] = id[l]]
  /\ UNCHANGED <<queueVars, idVars, route, id, attached, thread, holding, written,
                 owed, remoteAddresses, endAllStreams, broken>>

Send(s) ==
  /\ ~broken /\ sending[s] # NoId
  /\ SendMessage(sending[s])
  /\ Owe({sending[s]} \cap registered)
  /\ sending' = [sending EXCEPT ![s] = NoId]
  /\ UNCHANGED <<route, id, attached, thread, holding, written, remoteAddresses,
                 endAllStreams, broken>>

ShutdownAll ==
  /\ ~broken /\ ~endAllStreams
  /\ endAllStreams' = TRUE
  /\ UNCHANGED <<queueVars, idVars, route, id, attached, thread, holding, written,
                 owed, remoteAddresses, sending, broken>>

-----------------------------------------------------------------------------

Setup(l) == CheckLimit(l) \/ GetId(l) \/ RegisterAddress(l) \/ StartStream(l)

Cleanup(l) == CleanupQueue(l) \/ CleanupId(l) \/ CleanupAddress(l)

Consume(l) == Check(l) \/ Count(l) \/ Pop(l) \/ Write(l) \/ Remove(l)

Next ==
  \/ \E l \in Listeners : Setup(l) \/ Detach(l) \/ Cleanup(l) \/ Consume(l)
  \/ \E s \in Senders : Send(s) \/ \E l \in Listeners : CheckSend(s, l)
  \/ Broadcast
  \/ ShutdownAll

Spec == Init /\ [][Next]_vars

(* A thread that can run is run in the end.                                *)
FairSpec == Spec /\ \A l \in Listeners : WF_vars(Consume(l))

-----------------------------------------------------------------------------

(* The references to a message: in queues, and in the hands of threads.    *)
QueuesWith(m) == {i \in registered : m \in Range(assignments[i])}
HoldersOf(m) == {l \in Listeners : thread[l] = "write" /\ holding[l] = m}

(* A listener has its id from acquireId to freeId.                         *)
HasId(l) == route[l] \in {"address", "queue", "streaming", "erase", "free"}

(* The count of a message is never below the number of references to it,   *)
(* so that no reader loses it to another one's unref, and each message is  *)
(* erased once, whatever listeners do to queues that are no longer theirs; *)
(* no two listeners have the same id at a time, and the ids in use are     *)
(* those that usedIdCount counts.                                          *)
NoDangling ==
  /\ \A m \in Msgs :
       /\ Cardinality(QueuesWith(m)) + Cardinality(HoldersOf(m)) <= refCount[m]
       /\ QueuesWith(m) \cup HoldersOf(m) # {} => m \in messageCache
  /\ \A k, l \in Listeners :
       thread[l] = "remove" =>
         /\ holding[l] \in messageCache /\ refCount[holding[l]] = 0
         /\ thread[k] = "remove" /\ holding[k] = holding[l] => k = l
  /\ \A k, l \in Listeners : HasId(k) /\ HasId(l) /\ id[k] = id[l] => k = l
  /\ {id[l] : l \in {k \in Listeners : HasId(k)}} = 1 .. increment \ freeIds

(* After shutdownAll every consuming thread ends, as does the thread of a  *)
(* client that has gone.                                                   *)
ThreadsEnd ==
  \A l \in Listeners :
    (thread[l] # "off" /\ (endAllStreams \/ ~attached[l])) ~> (thread[l] = "ended" \/ broken)

(* The connection of l has ended, its id may be another listener's.        *)
Gone(l) == id[l] # NoId /\ route[l] \in {"erase", "free", "forget", "done"}

Shares(l) == \E k \in Listeners \ {l} : id[k] = id[l]

(* What is written to a client is in the order of sending and without      *)
(* repetition, also when a thread reads from the queue of a listener that  *)
(* took over its id.  As long as l is the only one that ever had its id,   *)
(* each message queued for it is still in the queue, being written, or     *)
(* written, and send finds it under its own address.                       *)
Delivers ==
  /\ \A l \in Listeners : \A i, j \in DOMAIN written[l] : i < j => written[l][i] < written[l][j]
  /\ \A l \in Listeners : Live(l) /\ ~Shares(l) =>
       /\ \A m \in owed[l] : \/ m \in Range(assignments[id[l]])
                             \/ m \in Range(written[l])
                             \/ thread[l] = "write" /\ holding[l] = m
       /\ ~Forbidden(l) /\ ~NoListener(l)

(* A pop of an empty queue happens only to a listener that has gone or     *)
(* shares its id with one that has, and a send finds no queue behind its   *)
(* check (sendMessage throws) only when a listener with that id has gone.  *)
MissesOnlyTheGone ==
  /\ broken => \E l \in Listeners : thread[l] = "pop" /\ (Gone(l) \/ Shares(l))
  /\ \A s \in Senders : sending[s] \notin registered \cup {NoId} =>
       \E l \in Listeners : Gone(l) /\ id[l] = sending[s]

=============================================================================
