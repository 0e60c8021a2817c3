------------------------- MODULE HttpStreamerProofs -------------------------
(***************************************************************************)
(* Proofs about the http streamer: the types, that the counts of the       *)
(* messages and the ids of the listeners are right, and which messages     *)
(* reach whom, for any number of listeners, senders, ids and messages.     *)
(***************************************************************************)
EXTENDS HttpStreamer, FiniteSetTheorems, TLAPS

(* How far a listener is, and what it has by then.                         *)
Stages ==
  \A l \in Listeners :
    /\ route[l] \in {"none", "id", "address", "queue"} => thread[l] = "off"
    /\ route[l] \in {"address", "queue", "streaming", "erase", "free", "forget"} => id[l] # NoId
    /\ thread[l] # "off" => id[l] # NoId
    /\ thread[l] \in {"write", "remove"} => holding[l] \in 1 .. sent

(* A queue holds messages that were sent, in their order, each once, and   *)
(* one that is not registered holds none.                                  *)
Queued ==
  \A i \in Ids :
    /\ \A a \in DOMAIN assignments[i] : assignments[i][a] <= sent
    /\ \A a, b \in DOMAIN assignments[i] : a < b => assignments[i][a] < assignments[i][b]
    /\ i \notin registered => assignments[i] = <<>>

(* The parts of NoDangling.                                                *)
Counted ==
  \A m \in Msgs :
    /\ Cardinality(QueuesWith(m)) + Cardinality(HoldersOf(m)) <= refCount[m]
    /\ QueuesWith(m) \cup HoldersOf(m) # {} => m \in messageCache

RemovedOnce ==
  \A k, l \in Listeners :
    thread[l] = "remove" =>
      /\ holding[l] \in messageCache /\ refCount[holding[l]] = 0
      /\ thread[k] = "remove" /\ holding[k] = holding[l] => k = l

IdsOwned ==
  /\ \A k, l \in Listeners : HasId(k) /\ HasId(l) /\ id[k] = id[l] => k = l
  /\ {id[l] : l \in {k \in Listeners : HasId(k)}} = 1 .. increment \ freeIds
  /\ freeIds \subseteq 1 .. increment

IInv == TypeOK /\ Stages /\ Queued /\ Counted /\ RemovedOnce /\ IdsOwned

-----------------------------------------------------------------------------
(* Finite sets.                                                            *)

LEMMA SmallSets ==
  ASSUME TypeOK
  PROVE  /\ IsFiniteSet(registered) /\ Cardinality(registered) \in Nat
         /\ \A m \in Msgs : /\ IsFiniteSet(QueuesWith(m)) /\ Cardinality(QueuesWith(m)) \in Nat
                           /\ IsFiniteSet(HoldersOf(m)) /\ Cardinality(HoldersOf(m)) \in Nat
<1>1. IsFiniteSet(Ids)
  BY FS_Interval, QueueAssumption DEF Ids
<1>2. IsFiniteSet(registered)
  BY <1>1, FS_Subset DEF TypeOK, QueueTypeOK
<1>3. \A m \in Msgs : IsFiniteSet(QueuesWith(m))
  <2>1. \A m \in Msgs : QueuesWith(m) \in SUBSET registered
    BY DEF QueuesWith
  <2> QED
    BY <1>2, <2>1, FS_Subset
<1>4. \A m \in Msgs : IsFiniteSet(HoldersOf(m))
  <2>1. \A m \in Msgs : HoldersOf(m) \in SUBSET Listeners
    BY DEF HoldersOf
  <2> QED
    BY <2>1, StreamerAssumption, FS_Subset
<1> QED
  BY <1>2, <1>3, <1>4, FS_CardinalityType

(* What does not grow is counted enough.                                   *)
LEMMA StillCounted ==
  ASSUME TypeOK, TypeOK', NEW m \in Msgs,
         QueuesWith(m)' \subseteq QueuesWith(m), HoldersOf(m)' \subseteq HoldersOf(m)
  PROVE  Cardinality(QueuesWith(m)') + Cardinality(HoldersOf(m)') <= Cardinality(QueuesWith(m)) + Cardinality(HoldersOf(m))
<1>1. IsFiniteSet(QueuesWith(m)) /\ IsFiniteSet(HoldersOf(m))
  BY SmallSets
<1>2. Cardinality(QueuesWith(m)') <= Cardinality(QueuesWith(m)) /\ IsFiniteSet(QueuesWith(m)')
  BY <1>1, FS_Subset
<1>3. Cardinality(HoldersOf(m)') <= Cardinality(HoldersOf(m)) /\ IsFiniteSet(HoldersOf(m)')
  BY <1>1, FS_Subset
<1>4. /\ Cardinality(QueuesWith(m)') \in Nat /\ Cardinality(HoldersOf(m)') \in Nat
      /\ Cardinality(QueuesWith(m)) \in Nat /\ Cardinality(HoldersOf(m)) \in Nat
  BY <1>1, <1>2, <1>3, FS_CardinalityType
<1> QED
  BY <1>2, <1>3, <1>4

LEMMA Numbers ==
  /\ MaxId \in Nat /\ MaxMsgs \in Nat
  /\ \A i \in Ids : i \in Nat /\ i # NoId /\ i <= MaxId
  /\ \A m \in Msgs : m \in Nat /\ m # NoMsg /\ m <= MaxMsgs
BY QueueAssumption DEF Ids, Msgs, NoId, NoMsg

-----------------------------------------------------------------------------
(* Types.                                                                  *)

LEMMA Emplaces ==
  ASSUME QueueTypeOK, NEW count \in Nat, NEW to \in SUBSET Ids, Emplace(count), Pushed(to, sent + 1)
  PROVE  /\ sent + 1 \in Msgs /\ sent' = sent + 1 /\ sent' \in 0 .. MaxMsgs
         /\ messageCache' \in SUBSET Msgs /\ refCount' \in [Msgs -> Nat]
         /\ assignments' \in [Ids -> Seq(Msgs)]
<1>1. sent + 1 \in Msgs /\ sent' = sent + 1 /\ sent' \in 0 .. MaxMsgs
  BY QueueAssumption DEF QueueTypeOK, Emplace, Msgs
<1>2. messageCache' \in SUBSET Msgs /\ refCount' \in [Msgs -> Nat]
  BY <1>1 DEF QueueTypeOK, Emplace
<1>3. \A i \in Ids : Append(assignments[i], sent + 1) \in Seq(Msgs)
  BY <1>1 DEF QueueTypeOK
<1>4. assignments' \in [Ids -> Seq(Msgs)]
  BY <1>3 DEF QueueTypeOK, Pushed
<1> QED
  BY <1>1, <1>2, <1>4

LEMMA OweType ==
  ASSUME owed \in [Listeners -> SUBSET Msgs], sent + 1 \in Msgs, NEW to, Owe(to)
  PROVE  owed' \in [Listeners -> SUBSET Msgs]
BY DEF Owe

LEMMA SetupTypes ==
  ASSUME IInv, NEW l \in Listeners, Setup(l)
  PROVE  TypeOK'
<1>1. CASE CheckLimit(l)
  BY <1>1 DEF CheckLimit, Goes, IInv, TypeOK, QueueTypeOK, StreamTypeOK, RouteState, queueVars, idVars
<1>2. CASE GetId(l)
  <2>1. CASE UNCHANGED <<queueVars, idVars, id>>
    BY <1>2, <2>1 DEF GetId, Goes, IInv, TypeOK, QueueTypeOK, StreamTypeOK, RouteState, queueVars, idVars
  <2>2. ASSUME NEW i \in Ids, AcquireId(i), id' = [id EXCEPT ![l] = i], Goes(l, "id", "address")
        PROVE  TypeOK'
    <3>1. freeIds' \in SUBSET Ids /\ increment' \in 0 .. MaxId
      BY <2>2, Numbers DEF AcquireId, IInv, TypeOK, QueueTypeOK
    <3>2. QueueTypeOK'
      BY <2>2, <3>1 DEF AcquireId, IInv, TypeOK, QueueTypeOK, queueVars
    <3>3. StreamTypeOK'
      BY <1>2, <2>2 DEF GetId, Goes, IInv, TypeOK, StreamTypeOK, RouteState
    <3> QED
      BY <3>2, <3>3 DEF TypeOK
  <2> QED
    BY <1>2, <2>1, <2>2 DEF GetId
<1>3. CASE RegisterAddress(l)
  <2>1. id[l] \in Ids
    BY <1>3 DEF RegisterAddress, Goes, IInv, Stages, TypeOK, StreamTypeOK
  <2>2. Host[l] \in Range(Host)
    BY StreamerAssumption DEF Range
  <2>3. remoteAddresses' \in [Ids -> Range(Host) \cup {NoHost}]
    BY <1>3, <2>1, <2>2 DEF RegisterAddress, IInv, TypeOK, StreamTypeOK
  <2>4. QueueTypeOK'
    BY <1>3 DEF RegisterAddress, IInv, TypeOK, QueueTypeOK, queueVars, idVars
  <2>5. StreamTypeOK'
    BY <1>3, <2>3 DEF RegisterAddress, Goes, IInv, TypeOK, StreamTypeOK, RouteState
  <2> QED
    BY <2>4, <2>5 DEF TypeOK
<1>4. CASE StartStream(l)
  <2>1. id[l] \in Ids
    BY <1>4 DEF StartStream, Goes, IInv, Stages, TypeOK, StreamTypeOK
  <2>2. QueueTypeOK'
    BY <1>4, <2>1 DEF StartStream, InsertRetriever, IInv, TypeOK, QueueTypeOK, idVars
  <2>3. StreamTypeOK'
    BY <1>4 DEF StartStream, Goes, Runs, IInv, TypeOK, StreamTypeOK, RouteState, ThreadState
  <2> QED
    BY <2>2, <2>3 DEF TypeOK
<1> QED
  BY <1>1, <1>2, <1>3, <1>4 DEF Setup

LEMMA EndTypes ==
  ASSUME IInv, NEW l \in Listeners, Detach(l) \/ Cleanup(l)
  PROVE  TypeOK'
<1>1. CASE Detach(l)
  BY <1>1 DEF Detach, Goes, IInv, TypeOK, QueueTypeOK, StreamTypeOK, RouteState, queueVars, idVars
<1>2. CASE CleanupQueue(l)
  <2>1. id[l] \in Ids
    BY <1>2 DEF CleanupQueue, Goes, IInv, Stages, TypeOK, StreamTypeOK
  <2>2. QueueTypeOK'
    BY <1>2, <2>1 DEF CleanupQueue, EraseRetriever, IInv, TypeOK, QueueTypeOK, idVars
  <2>3. StreamTypeOK'
    BY <1>2 DEF CleanupQueue, Goes, IInv, TypeOK, StreamTypeOK, RouteState
  <2> QED
    BY <2>2, <2>3 DEF TypeOK
<1>3. CASE CleanupId(l)
  <2>1. id[l] \in Ids
    BY <1>3 DEF CleanupId, Goes, IInv, Stages, TypeOK, StreamTypeOK
  <2>2. QueueTypeOK'
    BY <1>3, <2>1 DEF CleanupId, FreeId, IInv, TypeOK, QueueTypeOK, queueVars
  <2>3. StreamTypeOK'
    BY <1>3 DEF CleanupId, Goes, IInv, TypeOK, StreamTypeOK, RouteState
  <2> QED
    BY <2>2, <2>3 DEF TypeOK
<1>4. CASE CleanupAddress(l)
  BY <1>4 DEF CleanupAddress, Goes, IInv, TypeOK, QueueTypeOK, StreamTypeOK, RouteState, queueVars, idVars
<1> QED
  BY <1>1, <1>2, <1>3, <1>4 DEF Cleanup

(* A message that is being written is counted, and the last reference to   *)
(* it is nowhere else.                                                     *)
LEMMA Holding ==
  ASSUME IInv, NEW l \in Listeners, thread[l] = "write"
  PROVE  /\ holding[l] \in Msgs /\ refCount[holding[l]] \in Nat /\ refCount[holding[l]] >= 1
         /\ refCount[holding[l]] = 1 => QueuesWith(holding[l]) = {} /\ HoldersOf(holding[l]) = {l}
<1> DEFINE m == holding[l]
<1>1. m \in Msgs /\ m \in 1 .. sent
  BY Numbers DEF IInv, Stages, TypeOK, QueueTypeOK, Msgs
<1>2. refCount[m] \in Nat
  BY <1>1 DEF IInv, TypeOK, QueueTypeOK
<1>3. l \in HoldersOf(m)
  BY DEF HoldersOf
<1>4. /\ IsFiniteSet(QueuesWith(m)) /\ Cardinality(QueuesWith(m)) \in Nat
      /\ IsFiniteSet(HoldersOf(m)) /\ Cardinality(HoldersOf(m)) \in Nat
  BY <1>1, SmallSets DEF IInv
<1>5. Cardinality(HoldersOf(m)) # 0
  BY <1>3, <1>4, FS_EmptySet
<1>6. Cardinality(QueuesWith(m)) + Cardinality(HoldersOf(m)) <= refCount[m]
  BY <1>1 DEF IInv, Counted
<1>7. ASSUME refCount[m] = 1
      PROVE  QueuesWith(m) = {} /\ HoldersOf(m) = {l}
  <2>1. Cardinality(QueuesWith(m)) = 0 /\ Cardinality(HoldersOf(m)) = 1
    BY <1>4, <1>5, <1>6, <1>7
  <2>2. QueuesWith(m) = {}
    BY <1>4, <2>1, FS_EmptySet
  <2>3. \E x : HoldersOf(m) = {x}
    BY <1>4, <2>1, FS_Singleton
  <2> QED
    BY <2>2, <2>3, <1>3
<1> QED
  BY <1>1, <1>2, <1>4, <1>5, <1>6, <1>7

LEMMA ConsumeTypes ==
  ASSUME IInv, NEW l \in Listeners, Consume(l)
  PROVE  TypeOK'
<1>1. CASE Check(l)
  BY <1>1 DEF Check, Runs, IInv, TypeOK, QueueTypeOK, StreamTypeOK, ThreadState, queueVars, idVars
<1>2. CASE Count(l)
  <2>1. PICK n \in 0 .. MaxMsgs : Runs(l, "count", IF n = 0 THEN "check" ELSE "pop") /\ ConsumeableCount(id[l], n)
    BY <1>2 DEF Count
  <2>2. id[l] \in Ids
    BY <2>1 DEF Runs, IInv, Stages, TypeOK, StreamTypeOK
  <2>3. QueueTypeOK'
    BY <2>1, <2>2 DEF ConsumeableCount, IInv, TypeOK, QueueTypeOK, idVars
  <2>4. StreamTypeOK'
    BY <1>2, <2>1 DEF Count, Runs, IInv, TypeOK, StreamTypeOK, ThreadState
  <2> QED
    BY <2>3, <2>4 DEF TypeOK
<1>3. CASE Pop(l)
  <2>1. ASSUME NEW m \in Msgs, PopMessage(id[l], m), holding' = [holding EXCEPT ![l] = m], Runs(l, "pop", "write"),
               UNCHANGED <<route, id, attached, written, owed, remoteAddresses, sending, endAllStreams, broken>>
        PROVE  TypeOK'
    <3>1. id[l] \in Ids
      BY <2>1 DEF Runs, IInv, Stages, TypeOK, StreamTypeOK
    <3>2. assignments[id[l]] \in Seq(Msgs) /\ assignments[id[l]] # <<>>
      BY <2>1, <3>1 DEF PopMessage, IInv, TypeOK, QueueTypeOK
    <3>3. Tail(assignments[id[l]]) \in Seq(Msgs)
      BY <3>2
    <3>4. assignments' \in [Ids -> Seq(Msgs)]
      BY <2>1, <3>1, <3>3 DEF PopMessage, IInv, TypeOK, QueueTypeOK
    <3>5. QueueTypeOK'
      BY <2>1, <3>4 DEF PopMessage, IInv, TypeOK, QueueTypeOK, idVars
    <3>6. StreamTypeOK'
      BY <2>1 DEF Runs, IInv, TypeOK, StreamTypeOK, ThreadState
    <3> QED
      BY <3>5, <3>6 DEF TypeOK
  <2>2. CASE broken' = TRUE /\ UNCHANGED <<queueVars, idVars, route, id, attached, thread, holding, written, owed,
                                           remoteAddresses, sending, endAllStreams>>
    BY <2>2 DEF IInv, TypeOK, QueueTypeOK, StreamTypeOK, queueVars, idVars
  <2> QED
    BY <1>3, <2>1, <2>2 DEF Pop
<1>4. CASE Write(l)
  <2>1. holding[l] \in Msgs /\ refCount[holding[l]] - 1 \in Nat
    BY <1>4, Holding DEF Write, Runs
  <2>2. QueueTypeOK'
    BY <1>4, <2>1 DEF Write, Decrement, IInv, TypeOK, QueueTypeOK, idVars
  <2>3. written[l] \in Seq(Msgs) /\ Append(written[l], holding[l]) \in Seq(Msgs)
    BY <2>1 DEF IInv, TypeOK, StreamTypeOK
  <2>4. written' \in [Listeners -> Seq(Msgs)]
    BY <1>4, <2>3 DEF Write, IInv, TypeOK, StreamTypeOK
  <2>5. thread' \in [Listeners -> ThreadState]
    BY <1>4 DEF Write, Runs, IInv, TypeOK, StreamTypeOK, ThreadState
  <2>6. StreamTypeOK'
    BY <1>4, <2>4, <2>5 DEF Write, IInv, TypeOK, StreamTypeOK
  <2> QED
    BY <2>2, <2>6 DEF TypeOK
<1>5. CASE Remove(l)
  <2>1. QueueTypeOK'
    BY <1>5 DEF Remove, EraseMessage, IInv, TypeOK, QueueTypeOK, idVars
  <2>2. StreamTypeOK'
    BY <1>5 DEF Remove, Runs, IInv, TypeOK, StreamTypeOK, ThreadState
  <2> QED
    BY <2>1, <2>2 DEF TypeOK
<1> QED
  BY <1>1, <1>2, <1>3, <1>4, <1>5 DEF Consume

LEMMA OtherTypes ==
  ASSUME IInv, \/ Broadcast \/ ShutdownAll
               \/ \E s \in Senders : Send(s) \/ \E l \in Listeners : CheckSend(s, l)
  PROVE  TypeOK'
<1>1. CASE Broadcast
  <2>1. Cardinality(registered) \in Nat /\ registered \in SUBSET Ids
    BY SmallSets DEF IInv, TypeOK, QueueTypeOK
  <2>2. /\ sent + 1 \in Msgs /\ sent' \in 0 .. MaxMsgs /\ messageCache' \in SUBSET Msgs
        /\ refCount' \in [Msgs -> Nat] /\ assignments' \in [Ids -> Seq(Msgs)]
    BY <1>1, <2>1, Emplaces DEF Broadcast, BroadcastMessage, IInv, TypeOK
  <2>3. QueueTypeOK'
    BY <1>1, <2>2 DEF Broadcast, BroadcastMessage, IInv, TypeOK, QueueTypeOK, idVars
  <2>4. owed' \in [Listeners -> SUBSET Msgs]
    BY <1>1, <2>2, OweType DEF Broadcast, IInv, TypeOK, StreamTypeOK
  <2>5. StreamTypeOK'
    BY <1>1, <2>4 DEF Broadcast, IInv, TypeOK, StreamTypeOK
  <2> QED
    BY <2>3, <2>5 DEF TypeOK
<1>2. ASSUME NEW s \in Senders, Send(s)
      PROVE  TypeOK'
  <2>1. {sending[s]} \cap registered \in SUBSET Ids /\ 1 \in Nat
    BY DEF IInv, TypeOK, QueueTypeOK
  <2>2. /\ sent + 1 \in Msgs /\ sent' \in 0 .. MaxMsgs /\ messageCache' \in SUBSET Msgs
        /\ refCount' \in [Msgs -> Nat] /\ assignments' \in [Ids -> Seq(Msgs)]
    BY <1>2, <2>1, Emplaces DEF Send, SendMessage, IInv, TypeOK
  <2>3. QueueTypeOK'
    BY <1>2, <2>2 DEF Send, SendMessage, IInv, TypeOK, QueueTypeOK, idVars
  <2>4. owed' \in [Listeners -> SUBSET Msgs]
    BY <1>2, <2>2, OweType DEF Send, IInv, TypeOK, StreamTypeOK
  <2>5. StreamTypeOK'
    BY <1>2, <2>4 DEF Send, IInv, TypeOK, StreamTypeOK
  <2> QED
    BY <2>3, <2>5 DEF TypeOK
<1>3. ASSUME NEW s \in Senders, NEW l \in Listeners, CheckSend(s, l)
      PROVE  TypeOK'
  BY <1>3 DEF CheckSend, IInv, TypeOK, QueueTypeOK, StreamTypeOK, queueVars, idVars
<1>4. CASE ShutdownAll
  BY <1>4 DEF ShutdownAll, IInv, TypeOK, QueueTypeOK, StreamTypeOK, queueVars, idVars
<1> QED
  BY <1>1, <1>2, <1>3, <1>4

LEMMA TypeStep ==
  ASSUME IInv, Next
  PROVE  TypeOK'
BY SetupTypes, EndTypes, ConsumeTypes, OtherTypes DEF Next

-----------------------------------------------------------------------------
(* Stages and queues.                                                      *)

(* sent only grows.                                                        *)
LEMMA SentGrows ==
  ASSUME IInv, Next
  PROVE  sent \in Nat /\ sent' \in Nat /\ sent <= sent'
<1>1. sent \in 0 .. MaxMsgs /\ sent' \in 0 .. MaxMsgs
  BY TypeStep DEF IInv, TypeOK, QueueTypeOK
<1>2. sent' = sent \/ sent' = sent + 1
  BY DEF Next, Setup, Cleanup, Consume, CheckLimit, GetId, RegisterAddress, StartStream, Detach, CleanupQueue,
         CleanupId, CleanupAddress, Check, Count, Pop, Write, Remove, CheckSend, Send, Broadcast, ShutdownAll,
         BroadcastMessage, SendMessage, Emplace, InsertRetriever, EraseRetriever, ConsumeableCount, PopMessage,
         Decrement, EraseMessage, AcquireId, FreeId, queueVars
<1> QED
  BY <1>1, <1>2, Numbers

LEMMA StagesSetup ==
  ASSUME IInv, NEW l \in Listeners, Setup(l)
  PROVE  Stages'
<1>0. route \in [Listeners -> RouteState] /\ id \in [Listeners -> Ids \cup {NoId}] /\ thread \in [Listeners -> ThreadState]
  BY DEF IInv, TypeOK, StreamTypeOK
<1>1. CASE CheckLimit(l)
  BY <1>0, <1>1 DEF CheckLimit, Goes, IInv, Stages, queueVars
<1>2. CASE GetId(l)
  <2>1. CASE UNCHANGED <<queueVars, idVars, id>> /\ Goes(l, "id", "done")
    BY <1>0, <1>2, <2>1 DEF GetId, Goes, IInv, Stages, queueVars
  <2>2. ASSUME NEW i \in Ids, AcquireId(i), id' = [id EXCEPT ![l] = i], Goes(l, "id", "address")
        PROVE  Stages'
    <3>1. id'[l] # NoId /\ \A k \in Listeners \ {l} : id'[k] = id[k]
      BY <1>0, <2>2, Numbers
    <3> QED
      BY <1>0, <1>2, <2>2, <3>1 DEF GetId, AcquireId, Goes, IInv, Stages, queueVars
  <2> QED
    BY <1>2, <2>1, <2>2 DEF GetId
<1>3. CASE RegisterAddress(l)
  BY <1>0, <1>3 DEF RegisterAddress, Goes, IInv, Stages, queueVars
<1>4. CASE StartStream(l)
  BY <1>0, <1>4 DEF StartStream, InsertRetriever, Goes, Runs, IInv, Stages
<1> QED
  BY <1>1, <1>2, <1>3, <1>4 DEF Setup

LEMMA StagesEnd ==
  ASSUME IInv, NEW l \in Listeners, Detach(l) \/ Cleanup(l)
  PROVE  Stages'
<1>0. route \in [Listeners -> RouteState]
  BY DEF IInv, TypeOK, StreamTypeOK
<1>1. CASE Detach(l)
  BY <1>0, <1>1 DEF Detach, Goes, IInv, Stages, queueVars
<1>2. CASE CleanupQueue(l)
  BY <1>0, <1>2 DEF CleanupQueue, EraseRetriever, Goes, IInv, Stages
<1>3. CASE CleanupId(l)
  BY <1>0, <1>3 DEF CleanupId, FreeId, Goes, IInv, Stages, queueVars
<1>4. CASE CleanupAddress(l)
  BY <1>0, <1>4 DEF CleanupAddress, Goes, IInv, Stages, queueVars
<1> QED
  BY <1>1, <1>2, <1>3, <1>4 DEF Cleanup

LEMMA StagesConsume ==
  ASSUME IInv, NEW l \in Listeners, Consume(l)
  PROVE  Stages'
<1>0. route \in [Listeners -> RouteState] /\ thread \in [Listeners -> ThreadState] /\ holding \in [Listeners -> Msgs \cup {NoMsg}]
  BY DEF IInv, TypeOK, StreamTypeOK
<1>1. CASE Check(l)
  BY <1>0, <1>1 DEF Check, Runs, IInv, Stages, queueVars
<1>2. CASE Count(l)
  <2>1. PICK n \in 0 .. MaxMsgs : Runs(l, "count", IF n = 0 THEN "check" ELSE "pop") /\ ConsumeableCount(id[l], n)
    BY <1>2 DEF Count
  <2>2. thread[l] = "count" /\ thread'[l] \in {"check", "pop"} /\ \A k \in Listeners \ {l} : thread'[k] = thread[k]
    BY <1>0, <2>1 DEF Runs
  <2> QED
    BY <1>2, <2>1, <2>2 DEF Count, ConsumeableCount, IInv, Stages
<1>3. CASE Pop(l)
  <2>1. ASSUME NEW m \in Msgs, PopMessage(id[l], m), holding' = [holding EXCEPT ![l] = m], Runs(l, "pop", "write"),
               UNCHANGED <<route, id>>
        PROVE  Stages'
    <3>1. id[l] \in Ids
      BY <2>1 DEF Runs, IInv, Stages, TypeOK, StreamTypeOK
    <3>2. assignments[id[l]] \in Seq(Msgs) /\ assignments[id[l]] # <<>> /\ m = assignments[id[l]][1] /\ 1 \in DOMAIN assignments[id[l]]
      BY <2>1, <3>1 DEF PopMessage, IInv, TypeOK, QueueTypeOK
    <3>3. m <= sent /\ sent \in Nat /\ sent' = sent
      BY <2>1, <3>1, <3>2 DEF PopMessage, IInv, Queued, TypeOK, QueueTypeOK
    <3>4. m \in 1 .. sent'
      BY <3>3 DEF Msgs
    <3>5. /\ thread[l] = "pop" /\ thread'[l] = "write" /\ holding'[l] = m
          /\ \A k \in Listeners \ {l} : thread'[k] = thread[k] /\ holding'[k] = holding[k]
      BY <1>0, <2>1 DEF Runs
    <3> QED
      BY <2>1, <3>3, <3>4, <3>5 DEF IInv, Stages
  <2>2. CASE UNCHANGED <<queueVars, route, id, thread, holding>>
    BY <2>2 DEF IInv, Stages, queueVars
  <2> QED
    BY <1>3, <2>1, <2>2 DEF Pop
<1>4. CASE Write(l)
  <2>1. thread[l] = "write" /\ thread'[l] \in {"remove", "check"} /\ \A k \in Listeners \ {l} : thread'[k] = thread[k]
    BY <1>0, <1>4 DEF Write, Runs
  <2> QED
    BY <1>4, <2>1 DEF Write, Decrement, IInv, Stages
<1>5. CASE Remove(l)
  BY <1>0, <1>5 DEF Remove, Runs, EraseMessage, IInv, Stages
<1> QED
  BY <1>1, <1>2, <1>3, <1>4, <1>5 DEF Consume

LEMMA StagesStep ==
  ASSUME IInv, Next
  PROVE  Stages'
<1>1. CASE \/ Broadcast \/ ShutdownAll
           \/ \E s \in Senders : Send(s) \/ \E l \in Listeners : CheckSend(s, l)
  <2>1. UNCHANGED <<route, id, thread, holding>>
    BY <1>1 DEF Broadcast, ShutdownAll, Send, CheckSend
  <2>2. sent \in Nat /\ sent' \in Nat /\ sent <= sent'
    BY SentGrows
  <2> QED
    BY <2>1, <2>2 DEF IInv, Stages
<1> QED
  BY <1>1, StagesSetup, StagesEnd, StagesConsume DEF Next

(* What enters the queue is newer than what is in it.                      *)
LEMMA QueuedPush ==
  ASSUME IInv, TypeOK', NEW to \in SUBSET registered, Pushed(to, sent + 1), sent' = sent + 1, UNCHANGED registered
  PROVE  Queued'
<1>1. SUFFICES ASSUME NEW i \in Ids
      PROVE  /\ \A a \in DOMAIN assignments'[i] : assignments'[i][a] <= sent'
             /\ \A a, b \in DOMAIN assignments'[i] : a < b => assignments'[i][a] < assignments'[i][b]
             /\ i \notin registered' => assignments'[i] = <<>>
  BY DEF Queued
<1>2. /\ \A a \in DOMAIN assignments[i] : assignments[i][a] <= sent
      /\ \A a, b \in DOMAIN assignments[i] : a < b => assignments[i][a] < assignments[i][b]
      /\ i \notin registered => assignments[i] = <<>>
  BY DEF IInv, Queued
<1>3. assignments[i] \in Seq(Nat) /\ sent \in Nat
  BY Numbers DEF IInv, TypeOK, QueueTypeOK, Msgs
<1>4. CASE i \in to
  <2>1. assignments'[i] = Append(assignments[i], sent + 1)
    BY <1>4 DEF Pushed
  <2> QED
    BY <1>2, <1>3, <1>4, <2>1
<1>5. CASE i \notin to
  <2>1. assignments'[i] = assignments[i]
    BY <1>5 DEF Pushed
  <2>2. \A a \in DOMAIN assignments[i] : assignments[i][a] \in Nat
    BY <1>3
  <2> QED
    BY <1>2, <1>3, <2>1, <2>2
<1> QED
  BY <1>4, <1>5

LEMMA QueuedClear ==
  ASSUME IInv, NEW i \in Ids, assignments' = [assignments EXCEPT ![i] = <<>>], UNCHANGED sent,
         registered \ {i} \subseteq registered'
  PROVE  Queued'
<1>1. assignments \in [Ids -> Seq(Msgs)]
  BY DEF IInv, TypeOK, QueueTypeOK
<1>2. assignments'[i] = <<>> /\ \A j \in Ids \ {i} : assignments'[j] = assignments[j]
  BY <1>1
<1> QED
  BY <1>2 DEF IInv, Queued

LEMMA QueuedPop ==
  ASSUME IInv, NEW i \in Ids, NEW m \in Msgs, PopMessage(i, m)
  PROVE  Queued'
<1>1. assignments \in [Ids -> Seq(Msgs)] /\ assignments[i] \in Seq(Msgs) /\ assignments[i] # <<>>
  BY DEF PopMessage, IInv, TypeOK, QueueTypeOK
<1>2. assignments'[i] = Tail(assignments[i]) /\ UNCHANGED <<sent, registered>>
  BY <1>1 DEF PopMessage
<1>3. \A j \in Ids \ {i} : assignments'[j] = assignments[j]
  BY <1>1 DEF PopMessage
<1>4. /\ \A a \in DOMAIN assignments[i] : assignments[i][a] <= sent
      /\ \A a, b \in DOMAIN assignments[i] : a < b => assignments[i][a] < assignments[i][b]
  BY DEF IInv, Queued
<1>5. \A a \in DOMAIN assignments'[i] : a + 1 \in DOMAIN assignments[i] /\ assignments'[i][a] = assignments[i][a + 1] /\ a \in Nat
  BY <1>1, <1>2
<1>6. \A a \in DOMAIN assignments'[i] : assignments'[i][a] <= sent
  BY <1>4, <1>5
<1>7. \A a, b \in DOMAIN assignments'[i] : a < b => assignments'[i][a] < assignments'[i][b]
  BY <1>4, <1>5
<1>8. i \notin registered' => assignments'[i] = <<>>
  BY <1>1, <1>2 DEF IInv, Queued
<1> QED
  BY <1>2, <1>3, <1>6, <1>7, <1>8 DEF IInv, Queued

(* Registering more, as consumeableCount does, changes no queue.           *)
LEMMA QueuedSame ==
  ASSUME IInv, UNCHANGED <<assignments, sent>>, registered \subseteq registered'
  PROVE  Queued'
BY DEF IInv, Queued

LEMMA QueuedStep ==
  ASSUME IInv, Next
  PROVE  Queued'
<1>0. \A l \in Listeners : id[l] # NoId => id[l] \in Ids
  BY DEF IInv, TypeOK, StreamTypeOK
<1>1. CASE Broadcast
  BY <1>1, TypeStep, QueuedPush DEF Broadcast, BroadcastMessage, Emplace
<1>2. ASSUME NEW s \in Senders, Send(s)
      PROVE  Queued'
  BY <1>2, TypeStep, QueuedPush DEF Send, SendMessage, Emplace
<1>3. ASSUME NEW l \in Listeners, StartStream(l)
      PROVE  Queued'
  <2>1. id[l] \in Ids
    BY <1>0, <1>3 DEF StartStream, Goes, IInv, Stages
  <2> QED
    BY <1>3, <2>1, QueuedClear DEF StartStream, InsertRetriever
<1>4. ASSUME NEW l \in Listeners, CleanupQueue(l)
      PROVE  Queued'
  <2>1. id[l] \in Ids
    BY <1>0, <1>4 DEF CleanupQueue, Goes, IInv, Stages
  <2> QED
    BY <1>4, <2>1, QueuedClear DEF CleanupQueue, EraseRetriever
<1>5. ASSUME NEW l \in Listeners, NEW m \in Msgs, PopMessage(id[l], m), thread[l] = "pop"
      PROVE  Queued'
  <2>1. id[l] \in Ids
    BY <1>0, <1>5 DEF IInv, Stages
  <2> QED
    BY <1>5, <2>1, QueuedPop
<1>6. ASSUME NEW l \in Listeners, Pop(l)
      PROVE  Queued'
  <2>1. CASE UNCHANGED queueVars
    BY <2>1, QueuedSame DEF queueVars
  <2> QED
    BY <1>5, <1>6, <2>1 DEF Pop, Runs
<1>7. ASSUME NEW l \in Listeners, Count(l)
      PROVE  Queued'
  BY <1>7, QueuedSame DEF Count, ConsumeableCount
<1>8. ASSUME NEW l \in Listeners, \/ CheckLimit(l) \/ GetId(l) \/ RegisterAddress(l) \/ Detach(l) \/ CleanupId(l)
                                   \/ CleanupAddress(l) \/ Check(l) \/ Write(l) \/ Remove(l)
      PROVE  Queued'
  <2>1. UNCHANGED <<assignments, sent, registered>>
    BY <1>8 DEF CheckLimit, GetId, RegisterAddress, Detach, CleanupId, CleanupAddress, Check, Write, Remove,
                AcquireId, FreeId, Decrement, EraseMessage, queueVars
  <2> QED
    BY <2>1, QueuedSame
<1>9. ASSUME ShutdownAll \/ \E s \in Senders, l \in Listeners : CheckSend(s, l)
      PROVE  Queued'
  BY <1>9, QueuedSame DEF ShutdownAll, CheckSend, queueVars
<1> QED
  BY <1>1, <1>2, <1>3, <1>4, <1>6, <1>7, <1>8, <1>9 DEF Next, Setup, Cleanup, Consume

-----------------------------------------------------------------------------
(* Ids.                                                                    *)

(* Only acquireId and freeId change whose an id is.                        *)
LEMMA IdsSame ==
  ASSUME IInv, UNCHANGED idVars, \A k \in Listeners : (HasId(k)' <=> HasId(k)) /\ (HasId(k) => id'[k] = id[k])
  PROVE  IdsOwned'
<1>1. UNCHANGED <<freeIds, increment>>
  BY DEF idVars
<1>2. \A k, l \in Listeners : HasId(k)' /\ HasId(l)' /\ id'[k] = id'[l] => k = l
  BY DEF IInv, IdsOwned
<1>3. {id'[l] : l \in {k \in Listeners : HasId(k)'}} = {id[l] : l \in {k \in Listeners : HasId(k)}}
  OBVIOUS
<1> QED
  BY <1>1, <1>2, <1>3 DEF IInv, IdsOwned

LEMMA IdsAcquired ==
  ASSUME IInv, NEW l \in Listeners, NEW i \in Ids, Goes(l, "id", "address"), AcquireId(i), id' = [id EXCEPT ![l] = i]
  PROVE  IdsOwned'
<1>0. route \in [Listeners -> RouteState] /\ id \in [Listeners -> Ids \cup {NoId}] /\ increment \in 0 .. MaxId
  BY DEF IInv, TypeOK, QueueTypeOK, StreamTypeOK
<1> DEFINE Owned == {id[k] : k \in {k \in Listeners : HasId(k)}}
<1>1. Owned = 1 .. increment \ freeIds /\ freeIds \subseteq 1 .. increment
  BY DEF IInv, IdsOwned
<1>2. i \notin 1 .. increment \ freeIds
  BY <1>0, Numbers DEF AcquireId, IsFirst
<1>3. ~HasId(l) /\ HasId(l)' /\ id'[l] = i /\ \A k \in Listeners \ {l} : (HasId(k)' <=> HasId(k)) /\ id'[k] = id[k]
  BY <1>0 DEF Goes, HasId
<1>4. \A k \in Listeners : HasId(k) => id[k] # i
  BY <1>1, <1>2
<1>5. \A j, k \in Listeners : HasId(j) /\ HasId(k) /\ id[j] = id[k] => j = k
  BY DEF IInv, IdsOwned
<1>6. \A j, k \in Listeners : HasId(j)' /\ HasId(k)' /\ id'[j] = id'[k] => j = k
  BY <1>3, <1>4, <1>5
<1>7. {id'[k] : k \in {k \in Listeners : HasId(k)'}} = Owned \cup {i}
  BY <1>3
<1>8. 1 .. increment' \ freeIds' = (1 .. increment \ freeIds) \cup {i} /\ freeIds' \subseteq 1 .. increment'
  <2>1. CASE freeIds = {} /\ increment < MaxId /\ i = increment + 1 /\ increment' = i
    BY <2>1, <1>0, Numbers DEF AcquireId
  <2>2. CASE IsFirst(i) /\ UNCHANGED increment
    BY <2>2, <1>0, <1>1 DEF AcquireId, IsFirst
  <2> QED
    BY <2>1, <2>2 DEF AcquireId
<1> QED
  BY <1>1, <1>6, <1>7, <1>8 DEF IdsOwned

LEMMA IdsFreed ==
  ASSUME IInv, NEW l \in Listeners, CleanupId(l)
  PROVE  IdsOwned'
<1>0. route \in [Listeners -> RouteState] /\ increment \in 0 .. MaxId
  BY DEF IInv, TypeOK, QueueTypeOK, StreamTypeOK
<1> DEFINE Owned == {id[k] : k \in {k \in Listeners : HasId(k)}}
<1>1. Owned = 1 .. increment \ freeIds /\ freeIds \subseteq 1 .. increment
  BY DEF IInv, IdsOwned
<1>2. HasId(l) /\ ~HasId(l)' /\ UNCHANGED id /\ \A k \in Listeners \ {l} : HasId(k)' <=> HasId(k)
  BY <1>0 DEF CleanupId, Goes, HasId
<1>3. \A j, k \in Listeners : HasId(j) /\ HasId(k) /\ id[j] = id[k] => j = k
  BY DEF IInv, IdsOwned
<1>4. \A j, k \in Listeners : HasId(j)' /\ HasId(k)' /\ id'[j] = id'[k] => j = k
  BY <1>2, <1>3
<1>5. {id'[k] : k \in {k \in Listeners : HasId(k)'}} = Owned \ {id[l]}
  BY <1>2, <1>3
<1>6. freeIds' = freeIds \cup {id[l]} /\ UNCHANGED increment
  BY DEF CleanupId, FreeId
<1>7. id[l] \in 1 .. increment
  BY <1>1, <1>2
<1> QED
  BY <1>1, <1>4, <1>5, <1>6, <1>7 DEF IdsOwned

LEMMA IdsStep ==
  ASSUME IInv, Next
  PROVE  IdsOwned'
<1>0. route \in [Listeners -> RouteState]
  BY DEF IInv, TypeOK, StreamTypeOK
<1>1. ASSUME NEW l \in Listeners, GetId(l)
      PROVE  IdsOwned'
  <2>1. CASE Goes(l, "id", "done") /\ UNCHANGED <<idVars, id>>
    <3>1. \A k \in Listeners : (HasId(k)' <=> HasId(k)) /\ (HasId(k) => id'[k] = id[k])
      BY <1>0, <2>1 DEF Goes, HasId
    <3> QED
      BY <2>1, <3>1, IdsSame
  <2> QED
    BY <1>1, <2>1, IdsAcquired DEF GetId
<1>2. ASSUME NEW l \in Listeners, \/ CheckLimit(l) \/ RegisterAddress(l) \/ StartStream(l) \/ Detach(l)
                                   \/ CleanupQueue(l) \/ CleanupAddress(l)
      PROVE  IdsOwned'
  <2>1. UNCHANGED <<idVars, id>>
    BY <1>2 DEF CheckLimit, RegisterAddress, StartStream, InsertRetriever, Detach, CleanupQueue, EraseRetriever,
                CleanupAddress, idVars
  <2>2. \A k \in Listeners : HasId(k)' <=> HasId(k)
    BY <1>0, <1>2 DEF CheckLimit, RegisterAddress, StartStream, Detach, CleanupQueue, CleanupAddress, Goes, HasId
  <2> QED
    BY <2>1, <2>2, IdsSame
<1>3. ASSUME NEW l \in Listeners, Consume(l)
      PROVE  IdsOwned'
  <2>1. UNCHANGED <<idVars, id, route>>
    BY <1>3 DEF Consume, Check, Count, Pop, Write, Remove, ConsumeableCount, PopMessage, Decrement, EraseMessage, idVars
  <2> QED
    BY <2>1, IdsSame DEF HasId
<1>4. ASSUME \/ Broadcast \/ ShutdownAll
             \/ \E s \in Senders : Send(s) \/ \E l \in Listeners : CheckSend(s, l)
      PROVE  IdsOwned'
  <2>1. UNCHANGED <<idVars, id, route>>
    BY <1>4 DEF Broadcast, BroadcastMessage, ShutdownAll, Send, SendMessage, CheckSend, idVars
  <2> QED
    BY <2>1, IdsSame DEF HasId
<1> QED
  BY <1>1, <1>2, <1>3, <1>4, IdsFreed DEF Next, Setup, Cleanup

-----------------------------------------------------------------------------
(* Counts.                                                                 *)

SameRemovals ==
  \A k \in Listeners : /\ thread'[k] = "remove" <=> thread[k] = "remove"
                       /\ thread[k] = "remove" => holding'[k] = holding[k]

(* References are only lost, which is what erasing a queue does.           *)
LEMMA CountedSame ==
  ASSUME IInv, TypeOK', UNCHANGED <<refCount, messageCache>>, SameRemovals,
         \A m \in Msgs : QueuesWith(m)' \subseteq QueuesWith(m) /\ HoldersOf(m)' \subseteq HoldersOf(m)
  PROVE  Counted' /\ RemovedOnce'
<1>1. ASSUME NEW m \in Msgs
      PROVE  /\ Cardinality(QueuesWith(m)') + Cardinality(HoldersOf(m)') <= refCount'[m]
             /\ QueuesWith(m)' \cup HoldersOf(m)' # {} => m \in messageCache'
  <2>1. Cardinality(QueuesWith(m)') + Cardinality(HoldersOf(m)') <= Cardinality(QueuesWith(m)) + Cardinality(HoldersOf(m))
    BY StillCounted DEF IInv
  <2>2. /\ Cardinality(QueuesWith(m)) \in Nat /\ Cardinality(HoldersOf(m)) \in Nat
        /\ Cardinality(QueuesWith(m)') \in Nat /\ Cardinality(HoldersOf(m)') \in Nat
    <3>1. IsFiniteSet(QueuesWith(m)) /\ IsFiniteSet(HoldersOf(m))
      BY SmallSets DEF IInv
    <3>2. IsFiniteSet(QueuesWith(m)') /\ IsFiniteSet(HoldersOf(m)')
      BY <3>1, FS_Subset
    <3> QED
      BY <3>1, <3>2, FS_CardinalityType
  <2>3. refCount[m] \in Nat
    BY DEF IInv, TypeOK, QueueTypeOK
  <2> QED
    BY <2>1, <2>2, <2>3 DEF IInv, Counted
<1>2. Counted'
  BY <1>1 DEF Counted
<1>3. RemovedOnce'
  BY DEF IInv, RemovedOnce, SameRemovals
<1> QED
  BY <1>2, <1>3

(* A new message is in the queues it was counted for.                      *)
LEMMA CountedPush ==
  ASSUME IInv, TypeOK', NEW to \in SUBSET registered, NEW count \in Nat, Cardinality(to) <= count,
         Emplace(count), Pushed(to, sent + 1), UNCHANGED <<registered, thread, holding>>
  PROVE  Counted' /\ RemovedOnce'
<1>0. /\ assignments \in [Ids -> Seq(Msgs)] /\ registered \in SUBSET Ids /\ sent \in Nat /\ refCount \in [Msgs -> Nat]
  BY DEF IInv, TypeOK, QueueTypeOK
<1>1. PICK new \in Msgs : new = sent + 1
  BY <1>0, Numbers DEF Emplace, Msgs
<1>2. /\ refCount' = [refCount EXCEPT ![new] = count] /\ messageCache' = messageCache \cup {new}
  BY <1>1 DEF Emplace
<1>3. /\ IsFiniteSet(to) /\ Cardinality(to) \in Nat
  BY SmallSets, FS_Subset, FS_CardinalityType DEF IInv
<1>4. \A k \in Listeners : thread[k] \in {"write", "remove"} => holding[k] # new
  BY <1>0, <1>1 DEF IInv, Stages
<1>5. \A m \in Msgs : HoldersOf(m)' = HoldersOf(m)
  BY DEF HoldersOf
<1>6. \A i \in Ids : new \notin Range(assignments[i])
  BY <1>0, <1>1 DEF IInv, Queued, Range
<1>7. \A i \in Ids : Range(assignments'[i]) = Range(assignments[i]) \cup (IF i \in to THEN {new} ELSE {})
  <2>1. SUFFICES ASSUME NEW i \in Ids
        PROVE  Range(assignments'[i]) = Range(assignments[i]) \cup (IF i \in to THEN {new} ELSE {})
    OBVIOUS
  <2>2. CASE i \in to
    <3>1. assignments'[i] = Append(assignments[i], new) /\ assignments[i] \in Seq(Msgs)
      BY <1>0, <1>1, <2>2 DEF Pushed
    <3>2. Range(Append(assignments[i], new)) = Range(assignments[i]) \cup {new}
      <4>1. DOMAIN Append(assignments[i], new) = 1 .. Len(assignments[i]) + 1 /\ DOMAIN assignments[i] = 1 .. Len(assignments[i])
        BY <1>0, <3>1
      <4>2. Append(assignments[i], new)[Len(assignments[i]) + 1] = new /\ Len(assignments[i]) \in Nat
        BY <1>0, <3>1
      <4>3. \A a \in DOMAIN assignments[i] : Append(assignments[i], new)[a] = assignments[i][a]
        BY <1>0, <3>1
      <4> QED
        BY <4>1, <4>2, <4>3 DEF Range
    <3> QED
      BY <2>2, <3>1, <3>2
  <2>3. CASE i \notin to
    BY <2>3 DEF Pushed
  <2> QED
    BY <2>2, <2>3
<1>8. \A m \in Msgs \ {new} : QueuesWith(m)' = QueuesWith(m)
  BY <1>0, <1>7 DEF QueuesWith
<1>9. QueuesWith(new)' = to /\ HoldersOf(new) = {}
  BY <1>0, <1>4, <1>6, <1>7 DEF QueuesWith, HoldersOf
<1>10. ASSUME NEW m \in Msgs
      PROVE  /\ Cardinality(QueuesWith(m)') + Cardinality(HoldersOf(m)') <= refCount'[m]
             /\ QueuesWith(m)' \cup HoldersOf(m)' # {} => m \in messageCache'
  <2>1. CASE m = new
    <3>1. Cardinality(HoldersOf(m)') = 0 /\ QueuesWith(m)' = to
      BY <1>5, <1>9, <2>1, FS_EmptySet
    <3>2. refCount'[m] = count
      BY <1>0, <1>2, <2>1
    <3> QED
      BY <1>2, <1>3, <2>1, <3>1, <3>2
  <2>2. CASE m # new
    <3>1. QueuesWith(m)' = QueuesWith(m) /\ HoldersOf(m)' = HoldersOf(m) /\ refCount'[m] = refCount[m]
      BY <1>0, <1>2, <1>5, <1>8, <2>2
    <3> QED
      BY <1>2, <3>1 DEF IInv, Counted
  <2> QED
    BY <2>1, <2>2
<1>11. Counted'
  BY <1>10 DEF Counted
<1>12. RemovedOnce'
  BY <1>0, <1>2, <1>4 DEF IInv, RemovedOnce
<1> QED
  BY <1>11, <1>12

(* A reference goes from the queue to the thread: it is in the queue once. *)
LEMMA CountedPop ==
  ASSUME IInv, TypeOK', NEW l \in Listeners, NEW m \in Msgs, PopMessage(id[l], m),
         holding' = [holding EXCEPT ![l] = m], Runs(l, "pop", "write")
  PROVE  Counted' /\ RemovedOnce'
<1> DEFINE i == id[l]
<1>1. /\ assignments \in [Ids -> Seq(Msgs)] /\ holding \in [Listeners -> Msgs \cup {NoMsg}]
      /\ thread \in [Listeners -> ThreadState] /\ refCount \in [Msgs -> Nat]
  BY DEF IInv, TypeOK, QueueTypeOK, StreamTypeOK
<1>2. i \in Ids
  BY DEF Runs, IInv, Stages, TypeOK, StreamTypeOK
<1>3. /\ assignments[i] \in Seq(Msgs) /\ assignments[i] # <<>> /\ m = Head(assignments[i])
      /\ assignments' = [assignments EXCEPT ![i] = Tail(assignments[i])]
      /\ UNCHANGED <<registered, messageCache, refCount>>
  BY <1>1, <1>2 DEF PopMessage
<1>4. i \in registered
  BY <1>2, <1>3 DEF IInv, Queued
<1>5. /\ thread[l] = "pop" /\ thread'[l] = "write" /\ holding'[l] = m
      /\ \A k \in Listeners \ {l} : thread'[k] = thread[k] /\ holding'[k] = holding[k]
  BY <1>1 DEF Runs
<1>6. \A a, b \in DOMAIN assignments[i] : a < b => assignments[i][a] < assignments[i][b]
  BY <1>2 DEF IInv, Queued
<1>7. m \in Range(assignments[i]) /\ Range(Tail(assignments[i])) = Range(assignments[i]) \ {m}
  <2>1. DOMAIN assignments[i] = 1 .. Len(assignments[i]) /\ Len(assignments[i]) \in Nat /\ Len(assignments[i]) >= 1
    BY <1>3
  <2>2. assignments[i][1] = m /\ \A a \in DOMAIN assignments[i] : assignments[i][a] \in Nat
    BY <1>3, Numbers
  <2>3. \A a \in DOMAIN assignments[i] : a # 1 => assignments[i][a] # m
    <3>1. 1 \in DOMAIN assignments[i] /\ \A a \in DOMAIN assignments[i] : a # 1 => 1 < a
      BY <2>1
    <3>2. \A a \in DOMAIN assignments[i] : a # 1 => m < assignments[i][a]
      BY <1>6, <2>2, <3>1
    <3>3. \A a \in DOMAIN assignments[i] : assignments[i][a] \in Nat
      BY <2>2
    <3> QED
      BY <3>2, <3>3, Numbers
  <2>4. DOMAIN Tail(assignments[i]) = 1 .. Len(assignments[i]) - 1
    BY <1>3
  <2>5. \A a \in DOMAIN Tail(assignments[i]) : Tail(assignments[i])[a] = assignments[i][a + 1]
    BY <1>3
  <2>6. \A a \in DOMAIN assignments[i] : a # 1 => a - 1 \in DOMAIN Tail(assignments[i]) /\ Tail(assignments[i])[a - 1] = assignments[i][a]
    BY <2>1, <2>4, <2>5
  <2>7. m \in Range(assignments[i])
    BY <2>1, <2>2 DEF Range
  <2>8. Range(Tail(assignments[i])) \subseteq Range(assignments[i]) \ {m}
    BY <2>1, <2>3, <2>4, <2>5 DEF Range
  <2>9. Range(assignments[i]) \ {m} \subseteq Range(Tail(assignments[i]))
    <3>1. SUFFICES ASSUME NEW a \in DOMAIN assignments[i], assignments[i][a] # m
                   PROVE  \E b \in DOMAIN Tail(assignments[i]) : Tail(assignments[i])[b] = assignments[i][a]
      BY DEF Range
    <3>2. a # 1
      BY <2>2, <3>1
    <3> QED
      BY <2>6, <3>2
  <2> QED
    BY <2>7, <2>8, <2>9
<1>8. \A j \in Ids : Range(assignments'[j]) = IF j = i THEN Range(assignments[i]) \ {m} ELSE Range(assignments[j])
  BY <1>1, <1>2, <1>3, <1>7
<1>9. registered \subseteq Ids
  BY DEF IInv, TypeOK, QueueTypeOK
<1>10. i \in QueuesWith(m) /\ QueuesWith(m)' = QueuesWith(m) \ {i}
  BY <1>3, <1>4, <1>7, <1>8, <1>9 DEF QueuesWith
<1>11. l \notin HoldersOf(m) /\ HoldersOf(m)' = HoldersOf(m) \cup {l}
  BY <1>5 DEF HoldersOf
<1>12. \A k \in Msgs \ {m} : QueuesWith(k)' = QueuesWith(k) /\ HoldersOf(k)' = HoldersOf(k)
  BY <1>3, <1>5, <1>8, <1>9 DEF QueuesWith, HoldersOf
<1>13. Cardinality(QueuesWith(m)') + Cardinality(HoldersOf(m)') = Cardinality(QueuesWith(m)) + Cardinality(HoldersOf(m))
  <2>1. /\ IsFiniteSet(QueuesWith(m)) /\ Cardinality(QueuesWith(m)) \in Nat
        /\ IsFiniteSet(HoldersOf(m)) /\ Cardinality(HoldersOf(m)) \in Nat
    BY SmallSets DEF IInv
  <2>2. Cardinality(QueuesWith(m)') = Cardinality(QueuesWith(m)) - 1
    BY <1>10, <2>1, FS_RemoveElement
  <2>3. Cardinality(HoldersOf(m)') = Cardinality(HoldersOf(m)) + 1
    BY <1>11, <2>1, FS_AddElement
  <2> QED
    BY <2>1, <2>2, <2>3
<1>14. m \in messageCache
  BY <1>10 DEF IInv, Counted
<1>15. Counted'
  <2>1. ASSUME NEW k \in Msgs
        PROVE  /\ Cardinality(QueuesWith(k)') + Cardinality(HoldersOf(k)') <= refCount'[k]
               /\ QueuesWith(k)' \cup HoldersOf(k)' # {} => k \in messageCache'
    <3>1. CASE k = m
      BY <1>3, <1>13, <1>14, <3>1 DEF IInv, Counted
    <3>2. CASE k # m
      <4>1. QueuesWith(k)' = QueuesWith(k) /\ HoldersOf(k)' = HoldersOf(k)
        BY <1>12, <3>2
      <4> QED
        BY <1>3, <4>1 DEF IInv, Counted
    <3> QED
      BY <3>1, <3>2
  <2> QED
    BY <2>1 DEF Counted
<1>16. RemovedOnce'
  BY <1>3, <1>5 DEF IInv, RemovedOnce
<1> QED
  BY <1>15, <1>16

(* The last reference is given up by one thread.                           *)
LEMMA CountedWrite ==
  ASSUME IInv, TypeOK', NEW l \in Listeners, Write(l)
  PROVE  Counted' /\ RemovedOnce'
<1>0. PICK m \in Msgs : m = holding[l] /\ thread[l] = "write" /\ refCount[m] \in Nat /\ refCount[m] >= 1
                     /\ (refCount[m] = 1 => QueuesWith(m) = {} /\ HoldersOf(m) = {l})
  BY Holding DEF Write, Runs
<1>1. /\ thread' = [thread EXCEPT ![l] = IF refCount[m] = 1 THEN "remove" ELSE "check"]
      /\ refCount' = [refCount EXCEPT ![m] = refCount[m] - 1]
      /\ UNCHANGED <<registered, assignments, messageCache, holding>>
  BY <1>0 DEF Write, Runs, Decrement
<1>2. thread \in [Listeners -> ThreadState] /\ refCount \in [Msgs -> Nat]
  BY DEF IInv, TypeOK, QueueTypeOK, StreamTypeOK
<1>3. /\ thread'[l] = (IF refCount[m] = 1 THEN "remove" ELSE "check") /\ refCount'[m] = refCount[m] - 1
      /\ \A k \in Listeners \ {l} : thread'[k] = thread[k]
      /\ \A k \in Msgs \ {m} : refCount'[k] = refCount[k]
  BY <1>1, <1>2
<1>4. \A k \in Msgs : QueuesWith(k)' = QueuesWith(k)
  BY <1>1 DEF QueuesWith
<1>5. l \in HoldersOf(m) /\ HoldersOf(m)' = HoldersOf(m) \ {l}
  BY <1>0, <1>1, <1>3 DEF HoldersOf
<1>6. \A k \in Msgs \ {m} : HoldersOf(k)' = HoldersOf(k)
  BY <1>0, <1>1, <1>3 DEF HoldersOf
<1>7. Cardinality(QueuesWith(m)') + Cardinality(HoldersOf(m)') <= refCount'[m]
  <2>1. /\ IsFiniteSet(HoldersOf(m)) /\ Cardinality(HoldersOf(m)) \in Nat /\ Cardinality(QueuesWith(m)) \in Nat
    BY SmallSets DEF IInv
  <2>2. Cardinality(HoldersOf(m)') = Cardinality(HoldersOf(m)) - 1
    BY <1>5, <2>1, FS_RemoveElement
  <2>3. Cardinality(QueuesWith(m)') = Cardinality(QueuesWith(m))
    BY <1>4
  <2>4. Cardinality(QueuesWith(m)) + Cardinality(HoldersOf(m)) <= refCount[m]
    BY DEF IInv, Counted
  <2> QED
    BY <1>0, <1>3, <2>1, <2>2, <2>3, <2>4
<1>8. Counted'
  <2>1. ASSUME NEW k \in Msgs
        PROVE  /\ Cardinality(QueuesWith(k)') + Cardinality(HoldersOf(k)') <= refCount'[k]
               /\ QueuesWith(k)' \cup HoldersOf(k)' # {} => k \in messageCache'
    <3>1. QueuesWith(k)' \cup HoldersOf(k)' \subseteq QueuesWith(k) \cup HoldersOf(k)
      BY <1>4, <1>5, <1>6
    <3>2. QueuesWith(k)' \cup HoldersOf(k)' # {} => k \in messageCache'
      BY <1>1, <3>1 DEF IInv, Counted
    <3>3. CASE k = m
      BY <1>7, <3>2, <3>3
    <3>4. CASE k # m
      <4>1. QueuesWith(k)' = QueuesWith(k) /\ HoldersOf(k)' = HoldersOf(k) /\ refCount'[k] = refCount[k]
        BY <1>3, <1>4, <1>6, <3>4
      <4> QED
        BY <3>2, <4>1 DEF IInv, Counted
    <3> QED
      BY <3>3, <3>4
  <2> QED
    BY <2>1 DEF Counted
<1>9. m \in messageCache
  BY <1>5 DEF IInv, Counted
<1>10. \A k \in Listeners : thread[k] = "remove" => holding[k] # m
  BY <1>0 DEF IInv, RemovedOnce
<1>11. \A k \in Listeners : thread[k] = "remove" => holding[k] \in Msgs
  BY Numbers DEF IInv, Stages, TypeOK, QueueTypeOK, Msgs
<1>12. \A k \in Listeners : thread'[k] = "remove" =>
         /\ holding[k] \in messageCache /\ refCount'[holding[k]] = 0
         /\ IF k = l THEN refCount[m] = 1 ELSE thread[k] = "remove"
  <2>1. SUFFICES ASSUME NEW k \in Listeners, thread'[k] = "remove"
        PROVE  /\ holding[k] \in messageCache /\ refCount'[holding[k]] = 0
               /\ IF k = l THEN refCount[m] = 1 ELSE thread[k] = "remove"
    OBVIOUS
  <2>2. CASE k = l
    BY <1>0, <1>3, <1>9, <2>1, <2>2
  <2>3. CASE k # l
    BY <1>3, <1>10, <1>11, <2>1, <2>3 DEF IInv, RemovedOnce
  <2> QED
    BY <2>2, <2>3
<1>13. \A j, k \in Listeners : thread'[j] = "remove" /\ thread'[k] = "remove" /\ holding[j] = holding[k] => j = k
  BY <1>0, <1>10, <1>12 DEF IInv, RemovedOnce
<1>14. RemovedOnce'
  BY <1>1, <1>12, <1>13 DEF RemovedOnce
<1> QED
  BY <1>8, <1>14

(* What is erased is referred to by nobody.                                *)
LEMMA CountedRemove ==
  ASSUME IInv, TypeOK', NEW l \in Listeners, Remove(l)
  PROVE  Counted' /\ RemovedOnce'
<1>1. PICK m \in Msgs : m = holding[l] /\ thread[l] = "remove"
  BY Numbers DEF Remove, Runs, IInv, Stages, TypeOK, QueueTypeOK, Msgs
<1>2. thread' = [thread EXCEPT ![l] = "check"] /\ messageCache' = messageCache \ {m} /\ UNCHANGED <<registered, assignments, refCount, holding>>
  BY <1>1 DEF Remove, Runs, EraseMessage
<1>3. thread \in [Listeners -> ThreadState]
  BY DEF IInv, TypeOK, StreamTypeOK
<1>4. thread'[l] = "check" /\ \A k \in Listeners \ {l} : thread'[k] = thread[k]
  BY <1>2, <1>3
<1>5. \A k \in Msgs : QueuesWith(k)' = QueuesWith(k) /\ HoldersOf(k)' = HoldersOf(k)
  BY <1>1, <1>2, <1>4 DEF QueuesWith, HoldersOf
<1>6. refCount[m] = 0
  BY <1>1 DEF IInv, RemovedOnce
<1>7. QueuesWith(m) = {} /\ HoldersOf(m) = {}
  <2>1. /\ IsFiniteSet(QueuesWith(m)) /\ Cardinality(QueuesWith(m)) \in Nat
        /\ IsFiniteSet(HoldersOf(m)) /\ Cardinality(HoldersOf(m)) \in Nat
    BY SmallSets DEF IInv
  <2>2. Cardinality(QueuesWith(m)) + Cardinality(HoldersOf(m)) <= 0
    BY <1>6 DEF IInv, Counted
  <2>3. Cardinality(QueuesWith(m)) = 0 /\ Cardinality(HoldersOf(m)) = 0
    BY <2>1, <2>2
  <2> QED
    BY <2>1, <2>3, FS_EmptySet
<1>8. Counted'
  <2>1. ASSUME NEW k \in Msgs
        PROVE  /\ Cardinality(QueuesWith(k)') + Cardinality(HoldersOf(k)') <= refCount'[k]
               /\ QueuesWith(k)' \cup HoldersOf(k)' # {} => k \in messageCache'
    <3>1. QueuesWith(k)' = QueuesWith(k) /\ HoldersOf(k)' = HoldersOf(k)
      BY <1>5
    <3> QED
      BY <1>2, <1>7, <3>1 DEF IInv, Counted
  <2> QED
    BY <2>1 DEF Counted
<1>9. RemovedOnce'
  BY <1>1, <1>2, <1>4 DEF IInv, RemovedOnce
<1> QED
  BY <1>8, <1>9

LEMMA CountedStep ==
  ASSUME IInv, Next
  PROVE  Counted' /\ RemovedOnce'
<1>0. TypeOK' /\ thread \in [Listeners -> ThreadState] /\ assignments \in [Ids -> Seq(Msgs)] /\ registered \subseteq Ids
  BY TypeStep DEF IInv, TypeOK, QueueTypeOK, StreamTypeOK
<1>1. CASE Broadcast
  <2>1. registered \in SUBSET registered /\ Cardinality(registered) \in Nat
    BY SmallSets DEF IInv
  <2> QED
    BY <1>0, <1>1, <2>1, CountedPush DEF Broadcast, BroadcastMessage
<1>2. ASSUME NEW s \in Senders, Send(s)
      PROVE  Counted' /\ RemovedOnce'
  <2> DEFINE to == {sending[s]} \cap registered
  <2>1. Cardinality(to) <= 1
    <3>1. Cardinality({sending[s]}) = 1 /\ IsFiniteSet({sending[s]})
      BY FS_Singleton
    <3>2. to \in SUBSET {sending[s]}
      OBVIOUS
    <3> QED
      BY <3>1, <3>2, FS_Subset
  <2>2. to \in SUBSET registered /\ 1 \in Nat
    OBVIOUS
  <2>3. Emplace(1) /\ Pushed(to, sent + 1) /\ UNCHANGED <<registered, thread, holding>>
    BY <1>2 DEF Send, SendMessage
  <2> QED
    BY <1>0, <2>1, <2>2, <2>3, CountedPush
<1>3. ASSUME NEW l \in Listeners, StartStream(l) \/ CleanupQueue(l)
      PROVE  Counted' /\ RemovedOnce'
  <2>1. /\ assignments' = [assignments EXCEPT ![id[l]] = <<>>] /\ registered' \subseteq registered \cup {id[l]}
        /\ UNCHANGED <<refCount, messageCache, holding>>
    BY <1>3 DEF StartStream, CleanupQueue, InsertRetriever, EraseRetriever
  <2>2. id[l] \in Ids
    BY <1>3 DEF StartStream, CleanupQueue, Goes, IInv, Stages, TypeOK, StreamTypeOK
  <2>3. thread' = thread \/ (thread[l] = "off" /\ thread' = [thread EXCEPT ![l] = "check"])
    <3>1. CASE StartStream(l)
      BY <3>1 DEF StartStream, Runs
    <3>2. CASE CleanupQueue(l)
      BY <3>2 DEF CleanupQueue
    <3> QED
      BY <1>3, <3>1, <3>2
  <2>4. \A k \in Listeners : thread'[k] \in {"write", "remove"} <=> thread[k] \in {"write", "remove"}
    BY <1>0, <2>3
  <2>5. \A k \in Listeners : thread[k] \in {"write", "remove"} => thread'[k] = thread[k]
    BY <1>0, <2>3
  <2>6. \A m \in Msgs : m \notin Range(assignments'[id[l]])
    BY <1>0, <2>1, <2>2 DEF Range
  <2>7. \A j \in Ids \ {id[l]} : assignments'[j] = assignments[j]
    BY <1>0, <2>1
  <2>8. \A m \in Msgs : QueuesWith(m)' \subseteq QueuesWith(m)
    BY <1>0, <2>1, <2>2, <2>6, <2>7 DEF QueuesWith
  <2>9. SameRemovals /\ \A m \in Msgs : HoldersOf(m)' \subseteq HoldersOf(m)
    BY <2>1, <2>4, <2>5 DEF SameRemovals, HoldersOf
  <2> QED
    BY <1>0, <2>1, <2>8, <2>9, CountedSame
<1>4. ASSUME NEW l \in Listeners, Count(l)
      PROVE  Counted' /\ RemovedOnce'
  <2>1. PICK n \in 0 .. MaxMsgs : Runs(l, "count", IF n = 0 THEN "check" ELSE "pop") /\ ConsumeableCount(id[l], n)
    BY <1>4 DEF Count
  <2>2. id[l] \in Ids /\ (id[l] \notin registered => assignments[id[l]] = <<>>)
    BY <2>1 DEF Runs, IInv, Stages, Queued, TypeOK, StreamTypeOK
  <2>3. /\ registered' = registered \cup {id[l]}
        /\ UNCHANGED <<assignments, refCount, messageCache, holding>>
    BY <1>4, <2>1 DEF Count, ConsumeableCount
  <2>4. thread[l] = "count" /\ thread'[l] \in {"check", "pop"} /\ \A k \in Listeners \ {l} : thread'[k] = thread[k]
    BY <1>0, <2>1 DEF Runs
  <2>5. \A m \in Msgs : QueuesWith(m)' \subseteq QueuesWith(m)
    BY <2>2, <2>3 DEF QueuesWith, Range
  <2>6. SameRemovals /\ \A m \in Msgs : HoldersOf(m)' \subseteq HoldersOf(m)
    BY <2>3, <2>4 DEF SameRemovals, HoldersOf
  <2> QED
    BY <1>0, <2>3, <2>5, <2>6, CountedSame
<1>5. ASSUME NEW l \in Listeners, Pop(l)
      PROVE  Counted' /\ RemovedOnce'
  <2>1. CASE UNCHANGED <<queueVars, thread, holding>>
    BY <1>0, <2>1, CountedSame DEF queueVars, SameRemovals, QueuesWith, HoldersOf
  <2> QED
    BY <1>0, <1>5, <2>1, CountedPop DEF Pop
<1>6. ASSUME NEW l \in Listeners, Check(l)
      PROVE  Counted' /\ RemovedOnce'
  <2>1. UNCHANGED <<registered, assignments, refCount, messageCache, holding>>
    BY <1>6 DEF Check, queueVars
  <2>2. thread[l] = "check" /\ thread'[l] \in {"ended", "count"} /\ \A k \in Listeners \ {l} : thread'[k] = thread[k]
    BY <1>0, <1>6 DEF Check, Runs
  <2>3. SameRemovals /\ \A m \in Msgs : HoldersOf(m)' \subseteq HoldersOf(m) /\ QueuesWith(m)' \subseteq QueuesWith(m)
    BY <2>1, <2>2 DEF SameRemovals, HoldersOf, QueuesWith
  <2> QED
    BY <1>0, <2>1, <2>3, CountedSame
<1>7. CASE \/ ShutdownAll \/ \E s \in Senders, l \in Listeners : CheckSend(s, l)
           \/ \E l \in Listeners : \/ CheckLimit(l) \/ GetId(l) \/ RegisterAddress(l) \/ Detach(l)
                                    \/ CleanupId(l) \/ CleanupAddress(l)
  <2>1. UNCHANGED <<registered, assignments, refCount, messageCache, thread, holding>>
    BY <1>7 DEF ShutdownAll, CheckSend, CheckLimit, GetId, RegisterAddress, Detach, CleanupId, CleanupAddress,
                AcquireId, FreeId, queueVars
  <2>2. SameRemovals /\ \A m \in Msgs : HoldersOf(m)' \subseteq HoldersOf(m) /\ QueuesWith(m)' \subseteq QueuesWith(m)
    BY <2>1 DEF SameRemovals, HoldersOf, QueuesWith
  <2> QED
    BY <1>0, <2>1, <2>2, CountedSame
<1> QED
  BY <1>1, <1>2, <1>3, <1>4, <1>5, <1>6, <1>7, CountedWrite, CountedRemove, <1>0 DEF Next, Setup, Cleanup, Consume

-----------------------------------------------------------------------------

LEMMA InitHolds == Init => IInv
<1> SUFFICES ASSUME Init
             PROVE  IInv
  OBVIOUS
<1>1. TypeOK
  <2>1. QueueTypeOK
    BY Numbers DEF Init, QueueInit, QueueTypeOK
  <2>2. StreamTypeOK
    <3>1. /\ route \in [Listeners -> RouteState] /\ thread \in [Listeners -> ThreadState]
          /\ id \in [Listeners -> Ids \cup {NoId}] /\ holding \in [Listeners -> Msgs \cup {NoMsg}]
      BY DEF Init, RouteState, ThreadState
    <3>2. attached \in [Listeners -> BOOLEAN] /\ owed \in [Listeners -> SUBSET Msgs]
      BY DEF Init
    <3>3. written \in [Listeners -> Seq(Msgs)]
      <4>1. <<>> \in Seq(Msgs)
        OBVIOUS
      <4> QED
        BY <4>1 DEF Init
    <3>4. remoteAddresses \in [Ids -> Range(Host) \cup {NoHost}] /\ sending \in [Senders -> Ids \cup {NoId}]
      BY DEF Init
    <3>5. endAllStreams \in BOOLEAN /\ broken \in BOOLEAN
      BY DEF Init
    <3> QED
      BY <3>1, <3>2, <3>3, <3>4, <3>5 DEF StreamTypeOK
  <2> QED
    BY <2>1, <2>2 DEF TypeOK
<1>2. Stages /\ Queued
  BY DEF Init, QueueInit, Stages, Queued
<1>3. \A m \in Msgs : QueuesWith(m) = {} /\ HoldersOf(m) = {} /\ refCount[m] = 0
  BY DEF Init, QueueInit, QueuesWith, HoldersOf
<1>4. Counted
  BY <1>3, FS_EmptySet DEF Counted
<1>5. RemovedOnce
  BY DEF Init, RemovedOnce
<1>6. IdsOwned
  BY DEF Init, QueueInit, IdsOwned, HasId
<1> QED
  BY <1>1, <1>2, <1>4, <1>5, <1>6 DEF IInv

LEMMA StepHolds == IInv /\ [Next]_vars => IInv'
<1> SUFFICES ASSUME IInv, [Next]_vars
             PROVE  IInv'
  OBVIOUS
<1>1. CASE Next
  BY <1>1, TypeStep, StagesStep, QueuedStep, CountedStep, IdsStep DEF IInv
<1>2. CASE UNCHANGED vars
  <2>1. TypeOK'
    BY <1>2 DEF vars, queueVars, idVars, streamVars, IInv, TypeOK, QueueTypeOK, StreamTypeOK
  <2>2. Stages' /\ Queued'
    BY <1>2 DEF vars, queueVars, idVars, streamVars, IInv, Stages, Queued
  <2>3. UNCHANGED <<idVars, route, id, registered, assignments, refCount, messageCache, thread, holding>>
    BY <1>2 DEF vars, queueVars, idVars, streamVars
  <2>4. Counted' /\ RemovedOnce'
    <3>1. SameRemovals /\ \A m \in Msgs : QueuesWith(m)' \subseteq QueuesWith(m) /\ HoldersOf(m)' \subseteq HoldersOf(m)
      BY <2>3 DEF SameRemovals, QueuesWith, HoldersOf
    <3> QED
      BY <2>1, <2>3, <3>1, CountedSame
  <2>5. IdsOwned'
    BY <2>3, IdsSame DEF HasId
  <2> QED
    BY <2>1, <2>2, <2>4, <2>5 DEF IInv
<1> QED
  BY <1>1, <1>2

(* Every reachable state of the streamer and its queue has the types they  *)
(* declare; a counter of references is never below zero.                   *)
THEOREM TypeCorrect == Spec => []TypeOK
<1>1. IInv => TypeOK
  BY DEF IInv
<1> QED
  BY InitHolds, StepHolds, <1>1, PTL DEF Spec

(* However listeners come and go while messages are sent and read, no      *)
(* reader loses a message to the unref of another one, a message is erased *)
(* once, and no two listeners have the same id at a time.                  *)
THEOREM NoDanglingCorrect == Spec => []NoDangling
<1>1. IInv => NoDangling
  BY DEF IInv, Counted, RemovedOnce, IdsOwned, NoDangling
<1> QED
  BY InitHolds, StepHolds, <1>1, PTL DEF Spec

-----------------------------------------------------------------------------
(* What is delivered.                                                      *)

(* What thread l is about to write.                                        *)
Hand(l) == IF thread[l] = "write" THEN {holding[l]} ELSE {}

(* w is increasing, what is in h comes behind it, what is in q behind both,*)
(* and nothing of w and h is beyond the last message, n.                   *)
Sorted(w, h, q, n) ==
  /\ \A a, b \in DOMAIN w : a < b => w[a] < w[b]
  /\ \A a \in DOMAIN w : /\ w[a] <= n
                         /\ \A m \in h : w[a] < m
                         /\ \A b \in DOMAIN q : w[a] < q[b]
  /\ \A m \in h : m <= n /\ \A b \in DOMAIN q : m < q[b]

(* What a listener does not have before it is set up.                      *)
Fresh ==
  \A l \in Listeners :
    /\ thread[l] = "off" => written[l] = <<>>
    /\ route[l] \in {"none", "id", "address", "queue"} => owed[l] = {}
    /\ route[l] \in {"none", "id"} => id[l] = NoId

InOrder ==
  \A l \in Listeners : id[l] # NoId => Sorted(written[l], Hand(l), assignments[id[l]], sent)

(* Each message for a listener whose queue nobody else knows is somewhere. *)
NothingLost ==
  \A l \in Listeners : Live(l) /\ ~Shares(l) =>
    \A m \in owed[l] : m \in Range(assignments[id[l]]) \/ m \in Range(written[l]) \/ m \in Hand(l)

(* An address was left by a listener, and is the own one of the only one.  *)
Addressed ==
  /\ \A i \in Ids : remoteAddresses[i] # NoHost =>
       \E k \in Listeners : id[k] = i /\ route[k] \notin {"none", "id", "address"}
  /\ \A l \in Listeners :
       route[l] \in {"queue", "streaming"} /\ ~Shares(l) => remoteAddresses[id[l]] = Host[l]

(* Where queues are found, and what a thread finds that is about to pop.   *)
Found ==
  /\ \A l \in Listeners : Live(l) => id[l] \in registered
  /\ \A s \in Senders : sending[s] \notin registered \cup {NoId} =>
       \E l \in Listeners : Gone(l) /\ id[l] = sending[s]
  /\ \A l \in Listeners :
       thread[l] = "pop" /\ ~Gone(l) /\ ~Shares(l) => assignments[id[l]] # <<>>
  /\ broken => \E l \in Listeners : thread[l] = "pop" /\ (Gone(l) \/ Shares(l))

DeliveryInv == Fresh /\ InOrder /\ NothingLost /\ Addressed /\ Found

LEMMA RangeAppend ==
  ASSUME NEW S, NEW q \in Seq(S), NEW m \in S
  PROVE  Range(Append(q, m)) = Range(q) \cup {m}
<1>1. DOMAIN Append(q, m) = 1 .. Len(q) + 1 /\ DOMAIN q = 1 .. Len(q) /\ Len(q) \in Nat
  OBVIOUS
<1>2. \A a \in 1 .. Len(q) : Append(q, m)[a] = q[a]
  OBVIOUS
<1>3. Append(q, m)[Len(q) + 1] = m
  OBVIOUS
<1>4. 1 .. Len(q) + 1 = 1 .. Len(q) \cup {Len(q) + 1}
  BY <1>1
<1> QED
  BY <1>1, <1>2, <1>3, <1>4 DEF Range

LEMMA RangeTail ==
  ASSUME NEW S, NEW q \in Seq(S), q # <<>>
  PROVE  Range(q) = {Head(q)} \cup Range(Tail(q))
<1>1. DOMAIN Tail(q) = 1 .. Len(q) - 1 /\ DOMAIN q = 1 .. Len(q) /\ Len(q) \in Nat /\ Len(q) >= 1
  OBVIOUS
<1>2. \A a \in 1 .. Len(q) - 1 : Tail(q)[a] = q[a + 1]
  OBVIOUS
<1>3. Head(q) = q[1]
  BY <1>1
<1>4. \A a \in 1 .. Len(q) : a = 1 \/ a - 1 \in 1 .. Len(q) - 1
  BY <1>1
<1>5. \A a \in 1 .. Len(q) - 1 : a + 1 \in 1 .. Len(q)
  BY <1>1
<1>6. Range(Tail(q)) \subseteq Range(q) /\ Head(q) \in Range(q)
  BY <1>1, <1>2, <1>3, <1>5 DEF Range
<1>7. ASSUME NEW a \in 1 .. Len(q)  PROVE q[a] \in {Head(q)} \cup Range(Tail(q))
  <2>1. CASE a = 1
    BY <1>3, <2>1
  <2>2. CASE a # 1
    <3>1. a - 1 \in 1 .. Len(q) - 1 /\ Tail(q)[a - 1] = q[a]
      BY <1>2, <1>4, <2>2
    <3> QED
      BY <1>1, <3>1 DEF Range
  <2> QED
    BY <2>1, <2>2
<1> QED
  BY <1>1, <1>6, <1>7 DEF Range

(* What is sorted stays so in front of fewer messages, ...                 *)
LEMMA SortedFewer ==
  ASSUME NEW w \in Seq(Msgs), NEW h \in SUBSET Msgs, NEW q \in Seq(Msgs), NEW n \in Nat, Sorted(w, h, q, n),
         NEW r \in Seq(Msgs), Range(r) \subseteq Range(q), NEW g \in SUBSET h
  PROVE  Sorted(w, g, r, n)
<1>1. \A b \in DOMAIN r : \E c \in DOMAIN q : r[b] = q[c]
  BY DEF Range
<1> QED
  BY <1>1 DEF Sorted

(* ... of one more, ...                                                    *)
LEMMA SortedSent ==
  ASSUME NEW w \in Seq(Msgs), NEW h \in SUBSET Msgs, NEW q \in Seq(Msgs), NEW n \in Nat, Sorted(w, h, q, n),
         n + 1 \in Msgs, NEW r \in {q, Append(q, n + 1)}
  PROVE  Sorted(w, h, r, n + 1)
<1>1. \A a \in DOMAIN w : w[a] \in Nat
  BY Numbers
<1>2. \A m \in h : m \in Nat
  BY Numbers
<1>3. \A b \in DOMAIN r : (b \in DOMAIN q /\ r[b] = q[b]) \/ r[b] = n + 1
  <2>1. CASE r = q
    BY <2>1
  <2>2. CASE r = Append(q, n + 1)
    <3>1. \A b \in 1 .. Len(q) + 1 : b \in 1 .. Len(q) \/ b = Len(q) + 1
      OBVIOUS
    <3> QED
      BY <2>2, <3>1
  <2> QED
    BY <2>1, <2>2
<1>4. \A a \in DOMAIN w : w[a] <= n /\ w[a] < n + 1 /\ w[a] <= n + 1
  BY <1>1 DEF Sorted
<1>5. \A m \in h : m <= n /\ m < n + 1 /\ m <= n + 1
  BY <1>2 DEF Sorted
<1> QED
  BY <1>3, <1>4, <1>5 DEF Sorted

(* ... of the head that is taken out, and when it is written.              *)
LEMMA SortedPop ==
  ASSUME NEW w \in Seq(Msgs), NEW q \in Seq(Msgs), NEW n \in Nat, Sorted(w, {}, q, n), q # <<>>,
         \A a \in DOMAIN q : q[a] <= n, \A a, b \in DOMAIN q : a < b => q[a] < q[b]
  PROVE  Sorted(w, {Head(q)}, Tail(q), n)
<1>1. Head(q) = q[1] /\ 1 \in DOMAIN q
  OBVIOUS
<1>2. \A b \in DOMAIN Tail(q) : b + 1 \in DOMAIN q /\ Tail(q)[b] = q[b + 1] /\ 1 < b + 1
  OBVIOUS
<1> QED
  BY <1>1, <1>2 DEF Sorted

LEMMA SortedWrite ==
  ASSUME NEW w \in Seq(Msgs), NEW m \in Msgs, NEW q \in Seq(Msgs), NEW n \in Nat, Sorted(w, {m}, q, n)
  PROVE  Sorted(Append(w, m), {}, q, n)
<1>1. Append(w, m) \in Seq(Msgs) /\ Len(w) \in Nat /\ DOMAIN w = 1 .. Len(w) /\ DOMAIN Append(w, m) = 1 .. Len(w) + 1
  OBVIOUS
<1>2. \A a \in DOMAIN Append(w, m) : \/ a \in DOMAIN w /\ Append(w, m)[a] = w[a]
                                     \/ a = Len(w) + 1 /\ Append(w, m)[a] = m
  <2>1. \A a \in 1 .. Len(w) + 1 : a \in 1 .. Len(w) \/ a = Len(w) + 1
    OBVIOUS
  <2> QED
    BY <1>1, <2>1
<1>3. ASSUME NEW a \in DOMAIN Append(w, m), NEW b \in DOMAIN Append(w, m), a < b
      PROVE  Append(w, m)[a] < Append(w, m)[b]
  <2>1. a \in DOMAIN w /\ Append(w, m)[a] = w[a]
    BY <1>1, <1>2, <1>3
  <2> QED
    BY <1>2, <1>3, <2>1 DEF Sorted
<1>4. ASSUME NEW a \in DOMAIN Append(w, m)
      PROVE  Append(w, m)[a] <= n /\ \A b \in DOMAIN q : Append(w, m)[a] < q[b]
  BY <1>2 DEF Sorted
<1> QED
  BY <1>3, <1>4 DEF Sorted

-----------------------------------------------------------------------------

LEMMA ListenerTypes ==
  ASSUME IInv, NEW l \in Listeners
  PROVE  /\ written[l] \in Seq(Msgs) /\ Hand(l) \in SUBSET Msgs /\ sent \in Nat
         /\ id[l] \in Ids \cup {NoId}
         /\ id[l] # NoId => /\ id[l] \in Ids /\ assignments[id[l]] \in Seq(Msgs)
                            /\ \A a \in DOMAIN assignments[id[l]] : assignments[id[l]][a] <= sent
                            /\ \A a, b \in DOMAIN assignments[id[l]] :
                                  a < b => assignments[id[l]][a] < assignments[id[l]][b]
<1>1. written[l] \in Seq(Msgs) /\ sent \in Nat /\ sent <= MaxMsgs /\ id[l] \in Ids \cup {NoId}
  BY Numbers DEF IInv, TypeOK, StreamTypeOK, QueueTypeOK
<1>2. Hand(l) \in SUBSET Msgs
  BY <1>1, Numbers DEF IInv, Stages, Hand, Msgs
<1>3. ASSUME id[l] # NoId
      PROVE  id[l] \in Ids /\ assignments[id[l]] \in Seq(Msgs)
  BY <1>1, <1>3 DEF IInv, TypeOK, QueueTypeOK
<1> QED
  BY <1>1, <1>2, <1>3 DEF IInv, Queued

(* Steps that touch neither queues nor ids nor what is written.            *)
Idles(l) == CheckLimit(l) \/ RegisterAddress(l) \/ Detach(l) \/ CleanupId(l) \/ CleanupAddress(l)

LEMMA FreshStep ==
  ASSUME IInv, DeliveryInv, Next
  PROVE  Fresh'
<1>1. Fresh /\ TypeOK /\ Stages
  BY DEF IInv, DeliveryInv
<1>2. ASSUME NEW l \in Listeners, NEW k \in Listeners, Idles(l) \/ CleanupQueue(l)
      PROVE  /\ thread'[k] = thread[k] /\ written'[k] = written[k] /\ owed'[k] = owed[k] /\ id'[k] = id[k]
             /\ route'[k] \in {"none", "id", "address", "queue"} => route[k] \in {"none", "id", "address", "queue"}
             /\ route'[k] \in {"none", "id"} => route[k] \in {"none", "id"}
  BY <1>1, <1>2 DEF Idles, CheckLimit, RegisterAddress, Detach, CleanupId, CleanupAddress, CleanupQueue, Goes,
     TypeOK, StreamTypeOK
<1>3. ASSUME NEW l \in Listeners, Idles(l) \/ CleanupQueue(l)  PROVE Fresh'
  BY <1>1, <1>2, <1>3 DEF Fresh
<1>4. ASSUME NEW l \in Listeners, GetId(l)  PROVE Fresh'
  BY <1>1, <1>4 DEF GetId, Goes, Fresh, TypeOK, StreamTypeOK
<1>5. ASSUME NEW l \in Listeners, StartStream(l)  PROVE Fresh'
  BY <1>1, <1>5 DEF StartStream, Goes, Runs, Fresh, TypeOK, StreamTypeOK
<1>6. ASSUME NEW l \in Listeners, Consume(l)  PROVE Fresh'
  <2>1. UNCHANGED <<route, id, owed>>
    BY <1>6 DEF Consume, Check, Count, Pop, Write, Remove
  <2>2. \A k \in Listeners : k # l => thread'[k] = thread[k] /\ written'[k] = written[k]
    BY <1>1, <1>6 DEF Consume, Check, Count, Pop, Write, Remove, Runs, TypeOK, StreamTypeOK
  <2>3. thread'[l] # "off"
    <3>1. thread[l] # "off"
      BY <1>6 DEF Consume, Check, Count, Pop, Write, Remove, Runs
    <3>2. CASE UNCHANGED thread
      BY <3>1, <3>2
    <3>3. CASE \E from \in ThreadState, to \in ThreadState \ {"off"} : Runs(l, from, to)
      BY <1>1, <3>3 DEF Runs, TypeOK, StreamTypeOK
    <3>4. UNCHANGED thread \/ \E from \in ThreadState, to \in ThreadState \ {"off"} : Runs(l, from, to)
      BY <1>6 DEF Consume, Check, Count, Pop, Write, Remove, ThreadState
    <3> QED
      BY <3>2, <3>3, <3>4
  <2> QED
    BY <1>1, <2>1, <2>2, <2>3 DEF Fresh
<1>7. CASE Broadcast \/ \E s \in Senders : Send(s)
  <2>1. UNCHANGED <<route, id, thread, written>>
    BY <1>7 DEF Broadcast, Send
  <2>2. \E to : Owe(to)
    BY <1>7 DEF Broadcast, Send
  <2>3. \A k \in Listeners : route[k] # "streaming" => owed'[k] = owed[k]
    BY <2>2 DEF Owe, Live
  <2> QED
    BY <1>1, <2>1, <2>3 DEF Fresh
<1>8. CASE ShutdownAll \/ \E s \in Senders, l \in Listeners : CheckSend(s, l)
  <2>1. UNCHANGED <<route, id, thread, written, owed>>
    BY <1>8 DEF ShutdownAll, CheckSend
  <2> QED
    BY <1>1, <2>1 DEF Fresh
<1> QED
  BY <1>3, <1>4, <1>5, <1>6, <1>7, <1>8 DEF Next, Setup, Cleanup, Idles

LEMMA InOrderSame ==
  ASSUME IInv, IInv', DeliveryInv, UNCHANGED <<id, written, sent>>, \A k \in Listeners : Hand(k)' \subseteq Hand(k),
         \A i \in Ids : Range(assignments'[i]) \subseteq Range(assignments[i])
  PROVE  InOrder'
<1> SUFFICES ASSUME NEW k \in Listeners, id[k] # NoId
             PROVE  Sorted(written[k], Hand(k)', assignments'[id[k]], sent)
  BY DEF InOrder
<1>1. Sorted(written[k], Hand(k), assignments[id[k]], sent)
  BY DEF DeliveryInv, InOrder
<1>2. id[k] \in Ids /\ assignments'[id[k]] \in Seq(Msgs)
  <2>1. id[k] \in Ids
    BY ListenerTypes
  <2> QED
    BY <2>1 DEF IInv, TypeOK, QueueTypeOK
<1>3. Range(assignments'[id[k]]) \subseteq Range(assignments[id[k]])
  BY <1>2
<1> QED
  BY <1>1, <1>2, <1>3, ListenerTypes, SortedFewer

LEMMA InOrderSent ==
  ASSUME IInv, DeliveryInv, NEW to, Pushed(to, sent + 1), sent' = sent + 1, sent + 1 \in Msgs,
         UNCHANGED <<id, written, thread, holding>>
  PROVE  InOrder'
<1> SUFFICES ASSUME NEW k \in Listeners, id[k] # NoId
             PROVE  Sorted(written[k], Hand(k)', assignments'[id[k]], sent + 1)
  BY DEF InOrder
<1>1. Sorted(written[k], Hand(k), assignments[id[k]], sent)
  BY DEF DeliveryInv, InOrder
<1>2. Hand(k)' = Hand(k)
  BY DEF Hand
<1>3. assignments'[id[k]] \in {assignments[id[k]], Append(assignments[id[k]], sent + 1)}
  BY ListenerTypes DEF Pushed
<1> QED
  BY <1>1, <1>2, <1>3, ListenerTypes, SortedSent

LEMMA InOrderPop ==
  ASSUME IInv, IInv', DeliveryInv, NEW l \in Listeners, NEW m \in Msgs, Runs(l, "pop", "write"),
         PopMessage(id[l], m), holding' = [holding EXCEPT ![l] = m], UNCHANGED <<id, written>>
  PROVE  InOrder'
<1>1. /\ id[l] # NoId /\ id[l] \in Ids /\ assignments[id[l]] \in Seq(Msgs) /\ assignments[id[l]] # <<>>
      /\ assignments'[id[l]] = Tail(assignments[id[l]]) /\ m = Head(assignments[id[l]])
      /\ \A i \in Ids : i # id[l] => assignments'[i] = assignments[i]
      /\ UNCHANGED sent
  <2>1. id[l] # NoId
    BY DEF Runs, IInv, Stages
  <2>2. id[l] \in Ids /\ assignments[id[l]] \in Seq(Msgs)
    BY <2>1, ListenerTypes
  <2> QED
    BY <2>1, <2>2 DEF PopMessage, IInv, TypeOK, QueueTypeOK
<1>2. Hand(l) = {} /\ Hand(l)' = {m} /\ \A k \in Listeners : k # l => Hand(k)' = Hand(k)
  BY DEF Hand, Runs, IInv, TypeOK, StreamTypeOK
<1>3. Range(Tail(assignments[id[l]])) \subseteq Range(assignments[id[l]])
  BY <1>1, RangeTail
<1> SUFFICES ASSUME NEW k \in Listeners, id[k] # NoId
             PROVE  Sorted(written[k], Hand(k)', assignments'[id[k]], sent)
  BY <1>1 DEF InOrder
<1>4. Sorted(written[k], Hand(k), assignments[id[k]], sent)
  BY DEF DeliveryInv, InOrder
<1>5. CASE k = l
  <2>1. Sorted(written[l], {}, assignments[id[l]], sent)
    BY <1>2, <1>4, <1>5
  <2> QED
    <3>1. PICK q \in Seq(Msgs) : q = assignments[id[l]]
      BY <1>1
    <3>2. PICK w \in Seq(Msgs) : w = written[l]
      BY ListenerTypes
    <3>3. PICK n \in Nat : n = sent
      BY ListenerTypes
    <3>4. Sorted(w, {}, q, n) /\ q # <<>>
      BY <1>1, <2>1, <3>1, <3>2, <3>3
    <3>5. (\A a \in DOMAIN q : q[a] <= n) /\ \A a, b \in DOMAIN q : a < b => q[a] < q[b]
      BY <1>1, <3>1, <3>3, ListenerTypes
    <3>6. Sorted(w, {Head(q)}, Tail(q), n)
      BY <3>4, <3>5, SortedPop
    <3> QED
      BY <1>1, <1>2, <1>5, <3>1, <3>2, <3>3, <3>6
<1>6. CASE k # l
  <2>1. Hand(k)' = Hand(k) /\ Range(assignments'[id[k]]) \subseteq Range(assignments[id[k]])
    BY <1>1, <1>2, <1>3, <1>6, ListenerTypes
  <2>2. assignments'[id[k]] \in Seq(Msgs)
    BY ListenerTypes DEF IInv, TypeOK, QueueTypeOK
  <2> QED
    BY <1>4, <2>1, <2>2, ListenerTypes, SortedFewer
<1> QED
  BY <1>5, <1>6

LEMMA InOrderWrite ==
  ASSUME IInv, DeliveryInv, NEW l \in Listeners, Write(l)
  PROVE  InOrder'
<1>1. /\ Hand(l) = {holding[l]} /\ holding[l] \in Msgs /\ Hand(l)' = {}
      /\ written'[l] = Append(written[l], holding[l]) /\ UNCHANGED <<id, sent, assignments>>
      /\ \A k \in Listeners : k # l => Hand(k)' = Hand(k) /\ written'[k] = written[k]
  <2>1. Hand(l) = {holding[l]} /\ holding[l] \in Msgs
    BY ListenerTypes DEF Write, Runs, Hand
  <2>2. thread'[l] # "write" /\ \A k \in Listeners : k # l => thread'[k] = thread[k]
    BY DEF Write, Runs, IInv, TypeOK, StreamTypeOK
  <2>3. UNCHANGED <<id, sent, assignments, holding>>
    BY DEF Write, Decrement
  <2>4. /\ written'[l] = Append(written[l], holding[l])
        /\ \A k \in Listeners : k # l => written'[k] = written[k]
    BY DEF Write, IInv, TypeOK, StreamTypeOK
  <2> QED
    BY <2>1, <2>2, <2>3, <2>4 DEF Hand
<1> SUFFICES ASSUME NEW k \in Listeners, id[k] # NoId
             PROVE  Sorted(written'[k], Hand(k)', assignments[id[k]], sent)
  BY <1>1 DEF InOrder
<1>2. Sorted(written[k], Hand(k), assignments[id[k]], sent)
  BY DEF DeliveryInv, InOrder
<1>3. CASE k = l
  <2>1. PICK q \in Seq(Msgs) : q = assignments[id[l]]
    BY <1>3, ListenerTypes
  <2>2. PICK w \in Seq(Msgs) : w = written[l]
    BY ListenerTypes
  <2>3. PICK n \in Nat : n = sent
    BY ListenerTypes
  <2>4. PICK m \in Msgs : m = holding[l]
    BY <1>1
  <2>5. Sorted(w, {m}, q, n)
    BY <1>1, <1>2, <1>3, <2>1, <2>2, <2>3, <2>4
  <2>6. Sorted(Append(w, m), {}, q, n)
    BY <2>5, SortedWrite
  <2> QED
    BY <1>1, <1>3, <2>1, <2>2, <2>3, <2>4, <2>6
<1>4. CASE k # l
  BY <1>1, <1>2, <1>4
<1> QED
  BY <1>3, <1>4

(* The steps that pop, write or send; no other one takes more in hand.     *)
LEMMA InOrderStep ==
  ASSUME IInv, IInv', DeliveryInv, Next
  PROVE  InOrder'
<1>1. \A i \in Ids : assignments[i] \in Seq(Msgs)
  BY DEF IInv, TypeOK, QueueTypeOK
<1>2. ASSUME NEW l \in Listeners, Idles(l)  PROVE InOrder'
  <2>1. UNCHANGED <<id, written, sent, thread, holding, assignments>>
    BY <1>2 DEF Idles, CheckLimit, RegisterAddress, Detach, CleanupId, FreeId, CleanupAddress, queueVars
  <2> QED
    BY <2>1, InOrderSame DEF Hand
<1>3. ASSUME NEW l \in Listeners, GetId(l)  PROVE InOrder'
  <2>1. UNCHANGED <<written, sent, thread, holding, assignments>>
    BY <1>3 DEF GetId, AcquireId, queueVars
  <2>2. thread[l] = "off" /\ written[l] = <<>> /\ \A k \in Listeners : k # l => id'[k] = id[k]
    BY <1>3 DEF GetId, Goes, IInv, Stages, TypeOK, StreamTypeOK, DeliveryInv, Fresh
  <2>3. \A k \in Listeners : Hand(k)' = Hand(k)
    BY <2>1 DEF Hand
  <2>4. Hand(l) = {}
    BY <2>2 DEF Hand
  <2>5. Sorted(written[l], Hand(l), assignments[id'[l]], sent)
    BY <2>2, <2>4 DEF Sorted
  <2> QED
    BY <2>1, <2>2, <2>3, <2>5 DEF DeliveryInv, InOrder
<1>4. ASSUME NEW l \in Listeners, StartStream(l) \/ CleanupQueue(l)  PROVE InOrder'
  <2>1. UNCHANGED <<id, written, sent, holding>> /\ assignments' = [assignments EXCEPT ![id[l]] = <<>>]
    BY <1>4 DEF StartStream, InsertRetriever, CleanupQueue, EraseRetriever
  <2>2. \A k \in Listeners : thread'[k] = "write" => thread[k] = "write"
    BY <1>4 DEF StartStream, CleanupQueue, Runs, IInv, TypeOK, StreamTypeOK
  <2>3. \A i \in Ids : assignments'[i] \in {<<>>, assignments[i]}
    BY <2>1 DEF IInv, TypeOK, QueueTypeOK
  <2>4. \A i \in Ids : Range(assignments'[i]) \subseteq Range(assignments[i])
    BY <2>3 DEF Range
  <2> QED
    BY <2>1, <2>2, <2>4, InOrderSame DEF Hand
<1>5. ASSUME NEW l \in Listeners, Check(l) \/ Count(l) \/ Remove(l)  PROVE InOrder'
  <2>1. UNCHANGED <<id, written, sent, holding, assignments>>
    BY <1>5 DEF Check, Count, Remove, ConsumeableCount, EraseMessage, queueVars
  <2>2. \A k \in Listeners : thread'[k] = "write" => thread[k] = "write"
    BY <1>5 DEF Check, Count, Remove, Runs, IInv, TypeOK, StreamTypeOK
  <2> QED
    BY <2>1, <2>2, InOrderSame DEF Hand
<1>6. ASSUME NEW l \in Listeners, Pop(l)  PROVE InOrder'
  <2>1. CASE UNCHANGED <<queueVars, id, thread, holding, written>>
    BY <2>1, InOrderSame DEF Hand, queueVars
  <2>2. ASSUME Runs(l, "pop", "write"), NEW m \in Msgs, PopMessage(id[l], m), holding' = [holding EXCEPT ![l] = m],
               UNCHANGED <<id, written>>
        PROVE  InOrder'
    BY <2>2, InOrderPop
  <2> QED
    BY <1>6, <2>1, <2>2 DEF Pop
<1>7. CASE Broadcast \/ \E s \in Senders : Send(s)
  <2>1. sent' = sent + 1 /\ sent + 1 \in Msgs /\ UNCHANGED <<id, written, thread, holding>>
    <3>1. sent' = sent + 1 /\ sent < MaxMsgs /\ UNCHANGED <<id, written, thread, holding>>
      BY <1>7 DEF Broadcast, BroadcastMessage, Send, SendMessage, Emplace
    <3> QED
      BY <3>1, Numbers DEF IInv, TypeOK, QueueTypeOK, Msgs
  <2>2. \E to : Pushed(to, sent + 1)
    BY <1>7 DEF Broadcast, BroadcastMessage, Send, SendMessage
  <2> QED
    BY <2>1, <2>2, InOrderSent
<1>8. CASE ShutdownAll \/ \E s \in Senders, l \in Listeners : CheckSend(s, l)
  <2>1. UNCHANGED <<id, written, sent, thread, holding, assignments>>
    BY <1>8 DEF ShutdownAll, CheckSend, queueVars
  <2> QED
    BY <2>1, InOrderSame DEF Hand
<1> QED
  BY <1>2, <1>3, <1>4, <1>5, <1>6, <1>7, <1>8, InOrderWrite DEF Next, Setup, Cleanup, Consume, Idles

-----------------------------------------------------------------------------

(* Ids are given once, so that one who shares its id keeps doing so.       *)
LEMMA SharesGrows ==
  ASSUME IInv, DeliveryInv, Next, NEW l \in Listeners
  PROVE  /\ id[l] # NoId => id'[l] = id[l]
         /\ id[l] # NoId /\ Shares(l) => Shares(l)'
<1>1. UNCHANGED id \/ \E k \in Listeners : GetId(k)
  BY DEF Next, Setup, Cleanup, Consume, CheckLimit, RegisterAddress, StartStream, Detach, CleanupQueue, CleanupId,
     CleanupAddress, Check, Count, Pop, Write, Remove, Broadcast, Send, CheckSend, ShutdownAll
<1>2. \A k \in Listeners : id[k] # NoId => id'[k] = id[k]
  <2>1. ASSUME NEW k \in Listeners, GetId(k)
        PROVE  \A j \in Listeners : id[j] # NoId => id'[j] = id[j]
    <3>1. id[k] = NoId
      BY <2>1 DEF GetId, Goes, DeliveryInv, Fresh
    <3> QED
      BY <2>1, <3>1 DEF GetId, IInv, TypeOK, StreamTypeOK
  <2> QED
    BY <1>1, <2>1
<1> QED
  BY <1>2 DEF Shares

LEMMA GoneGrows ==
  ASSUME IInv, DeliveryInv, Next, NEW l \in Listeners, Gone(l)
  PROVE  Gone(l)' /\ id'[l] = id[l]
<1>1. id[l] # NoId /\ id'[l] = id[l]
  BY SharesGrows DEF Gone
<1>2. UNCHANGED route \/ \E k \in Listeners : Setup(k) \/ Detach(k) \/ Cleanup(k)
  BY DEF Next, Consume, Check, Count, Pop, Write, Remove, Broadcast, Send, CheckSend, ShutdownAll
<1>3. route'[l] \in {"erase", "free", "forget", "done"}
  <2>1. ASSUME NEW k \in Listeners, Setup(k) \/ Detach(k) \/ Cleanup(k)
        PROVE  route'[l] = route[l] \/ route'[l] \in {"free", "forget", "done"}
    BY <2>1 DEF Setup, Cleanup, CheckLimit, GetId, RegisterAddress, StartStream, Detach, CleanupQueue, CleanupId,
       CleanupAddress, Goes, Gone, IInv, TypeOK, StreamTypeOK
  <2> QED
    BY <1>2, <2>1 DEF Gone
<1> QED
  BY <1>1, <1>3 DEF Gone

(* l goes on as a listener with a queue of its own.                        *)
Alone(l) == Live(l) /\ ~Shares(l)

LEMMA AloneWas ==
  ASSUME IInv, DeliveryInv, Next, NEW l \in Listeners, Alone(l)', ~StartStream(l)
  PROVE  /\ Alone(l) /\ id[l] \in Ids /\ id'[l] = id[l]
         /\ \A k \in Listeners : k # l => id[k] # id[l]
         /\ ~CleanupQueue(l)
<1>1. Live(l) /\ ~CleanupQueue(l)
  <2>1. UNCHANGED route \/ \E k \in Listeners : Setup(k) \/ Detach(k) \/ Cleanup(k)
    BY DEF Next, Consume, Check, Count, Pop, Write, Remove, Broadcast, Send, CheckSend, ShutdownAll
  <2>2. ASSUME NEW k \in Listeners, k # l, Setup(k) \/ Detach(k) \/ Cleanup(k)
        PROVE  route'[l] = route[l]
    BY <2>2 DEF Setup, Cleanup, CheckLimit, GetId, RegisterAddress, StartStream, Detach, CleanupQueue, CleanupId,
       CleanupAddress, Goes, IInv, TypeOK, StreamTypeOK
  <2>3. ASSUME Setup(l) \/ Detach(l) \/ Cleanup(l)
        PROVE  route'[l] # "streaming"
    BY <2>3 DEF Setup, Cleanup, CheckLimit, GetId, RegisterAddress, Detach, CleanupQueue, CleanupId,
       CleanupAddress, Goes, IInv, TypeOK, StreamTypeOK
  <2>4. route[l] = "streaming"
    BY <2>1, <2>2, <2>3 DEF Alone, Live
  <2> QED
    BY <2>3, <2>4 DEF Alone, Live, Cleanup
<1>2. id[l] # NoId
  BY <1>1 DEF Live, IInv, Stages
<1>3. id'[l] = id[l] /\ ~Shares(l)
  BY <1>2, SharesGrows DEF Alone
<1>4. id[l] \in Ids
  BY <1>2, ListenerTypes
<1>5. \A k \in Listeners : k # l => id[k] # id[l]
  BY <1>3 DEF Shares
<1> QED
  BY <1>1, <1>3, <1>4, <1>5 DEF Alone

Somewhere(l, m) == m \in Range(assignments[id[l]]) \/ m \in Range(written[l]) \/ m \in Hand(l)

LEMMA PopFinds ==
  ASSUME IInv, NEW k \in Listeners, Pop(k), NEW l \in Listeners, id[l] \in Ids,
         k # l => id[k] # id[l], NEW n, Somewhere(l, n)
  PROVE  Somewhere(l, n)'
<1>1. CASE UNCHANGED <<queueVars, id, thread, holding, written>>
  BY <1>1 DEF Somewhere, Hand, queueVars
<1>2. ASSUME Runs(k, "pop", "write"), NEW m \in Msgs, PopMessage(id[k], m), holding' = [holding EXCEPT ![k] = m],
             UNCHANGED <<id, written>>
      PROVE  Somewhere(l, n)'
  <2>1. id[k] \in Ids /\ thread[k] = "pop"
    BY <1>2, ListenerTypes DEF Runs, IInv, Stages
  <2>2. thread'[k] = "write" /\ holding'[k] = m /\ \A j \in Listeners : j # k => Hand(j)' = Hand(j)
    BY <1>2 DEF Runs, Hand, IInv, TypeOK, StreamTypeOK
  <2>3. CASE k # l
    <3>1. assignments'[id[l]] = assignments[id[l]]
      BY <1>2, <2>1, <2>3 DEF PopMessage, IInv, TypeOK, QueueTypeOK
    <3> QED
      BY <1>2, <2>2, <2>3, <3>1 DEF Somewhere
  <2>4. CASE k = l
    <3>1. Hand(l) = {} /\ Hand(l)' = {m}
      BY <2>1, <2>2, <2>4 DEF Hand
    <3>2. Range(assignments[id[l]]) = {m} \cup Range(assignments'[id[l]])
      BY <1>2, <2>1, <2>4, ListenerTypes, RangeTail, Numbers DEF PopMessage, IInv, TypeOK, QueueTypeOK
    <3> QED
      BY <1>2, <3>1, <3>2 DEF Somewhere
  <2> QED
    BY <2>3, <2>4
<1> QED
  BY <1>1, <1>2 DEF Pop

LEMMA WriteFinds ==
  ASSUME IInv, NEW k \in Listeners, Write(k), NEW l \in Listeners, NEW n, Somewhere(l, n)
  PROVE  Somewhere(l, n)'
<1>1. UNCHANGED <<id, assignments, holding>>
  BY DEF Write, Decrement
<1>2. CASE k # l
  <2>1. thread'[l] = thread[l] /\ written'[l] = written[l]
    BY <1>2 DEF Write, Runs, IInv, TypeOK, StreamTypeOK
  <2> QED
    BY <1>1, <2>1 DEF Somewhere, Hand
<1>3. CASE k = l
  <2>1. Hand(l) = {holding[l]} /\ holding[l] \in Msgs /\ written[l] \in Seq(Msgs)
    BY <1>3, ListenerTypes DEF Hand, Write, Runs
  <2>2. written'[l] = Append(written[l], holding[l])
    BY <1>3 DEF Write, IInv, TypeOK, StreamTypeOK
  <2>3. Range(written'[l]) = Range(written[l]) \cup {holding[l]}
    BY <2>1, <2>2, RangeAppend
  <2> QED
    BY <1>1, <2>1, <2>3 DEF Somewhere
<1> QED
  BY <1>2, <1>3

LEMMA SendFinds ==
  ASSUME IInv, NEW to \in SUBSET Ids, Pushed(to, sent + 1), sent + 1 \in Msgs, NEW l \in Listeners, id[l] \in Ids,
         UNCHANGED <<id, written, thread, holding>>, NEW n, Somewhere(l, n) \/ (id[l] \in to /\ n = sent + 1)
  PROVE  Somewhere(l, n)'
<1>1. Hand(l)' = Hand(l)
  BY DEF Hand
<1>2. CASE id[l] \in to
  <2>1. assignments'[id[l]] = Append(assignments[id[l]], sent + 1) /\ assignments[id[l]] \in Seq(Msgs)
    BY <1>2 DEF Pushed, IInv, TypeOK, QueueTypeOK
  <2>2. Range(assignments'[id[l]]) = Range(assignments[id[l]]) \cup {sent + 1}
    BY <2>1, RangeAppend
  <2> QED
    BY <1>1, <2>2 DEF Somewhere
<1>3. CASE id[l] \notin to
  <2>1. assignments'[id[l]] = assignments[id[l]]
    BY <1>3 DEF Pushed
  <2> QED
    BY <1>1, <1>3, <2>1 DEF Somewhere
<1> QED
  BY <1>2, <1>3

LEMMA NothingLostStep ==
  ASSUME IInv, DeliveryInv, Next
  PROVE  NothingLost'
<1> SUFFICES ASSUME NEW l \in Listeners, Alone(l)', NEW m \in owed'[l]
             PROVE  Somewhere(l, m)'
  BY DEF NothingLost, Alone, Somewhere
<1>1. CASE StartStream(l)
  BY <1>1 DEF StartStream, Goes, DeliveryInv, Fresh
<1>2. CASE ~StartStream(l)
  <2>1. /\ Alone(l) /\ id[l] \in Ids /\ id'[l] = id[l] /\ ~CleanupQueue(l)
        /\ \A k \in Listeners : k # l => id[k] # id[l]
    BY <1>2, AloneWas
  <2>2. m \in owed[l] => Somewhere(l, m)
    BY <2>1 DEF DeliveryInv, NothingLost, Alone, Somewhere
  <2>3. ASSUME NEW k \in Listeners, Idles(k) \/ GetId(k) \/ Check(k) \/ Count(k) \/ Remove(k)
        PROVE  Somewhere(l, m)'
    <3>1. UNCHANGED <<written, holding, owed, assignments>>
      BY <2>3 DEF Idles, CheckLimit, RegisterAddress, Detach, CleanupId, CleanupAddress, GetId, AcquireId, FreeId,
         Check, Count, ConsumeableCount, Remove, EraseMessage, queueVars
    <3>2. thread'[l] = "write" <=> thread[l] = "write"
      <4>1. CASE UNCHANGED thread
        BY <4>1
      <4>2. CASE Check(k) \/ Count(k) \/ Remove(k)
        BY <4>2 DEF Check, Count, Remove, Runs, IInv, TypeOK, StreamTypeOK
      <4> QED
        BY <2>3, <4>1, <4>2 DEF Idles, CheckLimit, RegisterAddress, Detach, CleanupId, CleanupAddress, GetId
    <3> QED
      BY <2>1, <2>2, <3>1, <3>2 DEF Somewhere, Hand
  <2>4. ASSUME NEW k \in Listeners, StartStream(k) \/ CleanupQueue(k)
        PROVE  Somewhere(l, m)'
    <3>1. k # l
      BY <1>2, <2>1, <2>4
    <3>2. UNCHANGED <<written, holding, owed>> /\ assignments' = [assignments EXCEPT ![id[k]] = <<>>]
      BY <2>4 DEF StartStream, InsertRetriever, CleanupQueue, EraseRetriever
    <3>3. assignments'[id[l]] = assignments[id[l]]
      BY <2>1, <3>1, <3>2 DEF IInv, TypeOK, QueueTypeOK
    <3>4. thread'[l] = thread[l]
      BY <2>4, <3>1 DEF StartStream, CleanupQueue, Runs, IInv, TypeOK, StreamTypeOK
    <3> QED
      BY <2>1, <2>2, <3>2, <3>3, <3>4 DEF Somewhere, Hand
  <2>5. ASSUME NEW k \in Listeners, Pop(k)
        PROVE  Somewhere(l, m)'
    <3>1. UNCHANGED owed
      BY <2>5 DEF Pop
    <3> QED
      BY <2>1, <2>2, <2>5, <3>1, PopFinds
  <2>6. ASSUME NEW k \in Listeners, Write(k)
        PROVE  Somewhere(l, m)'
    <3>1. UNCHANGED owed
      BY <2>6 DEF Write
    <3> QED
      BY <2>2, <2>6, <3>1, WriteFinds
  <2>7. CASE Broadcast \/ \E s \in Senders : Send(s)
    <3>1. sent + 1 \in Msgs /\ UNCHANGED <<id, written, thread, holding>>
      <4>1. sent < MaxMsgs /\ UNCHANGED <<id, written, thread, holding>>
        BY <2>7 DEF Broadcast, BroadcastMessage, Send, SendMessage, Emplace
      <4> QED
        BY <4>1, Numbers DEF IInv, TypeOK, QueueTypeOK, Msgs
    <3>2. PICK to \in SUBSET Ids : Pushed(to, sent + 1) /\ Owe(to)
      BY <2>7 DEF Broadcast, BroadcastMessage, Send, SendMessage, IInv, TypeOK, QueueTypeOK
    <3>3. m \in owed[l] \/ (id[l] \in to /\ m = sent + 1)
      BY <2>1, <3>2 DEF Owe
    <3> QED
      BY <2>1, <2>2, <3>1, <3>2, <3>3, SendFinds
  <2>8. CASE ShutdownAll \/ \E s \in Senders, k \in Listeners : CheckSend(s, k)
    <3>1. UNCHANGED <<written, thread, holding, owed, assignments>>
      BY <2>8 DEF ShutdownAll, CheckSend, queueVars
    <3> QED
      BY <2>1, <2>2, <3>1 DEF Somewhere, Hand
  <2> QED
    BY <2>3, <2>4, <2>5, <2>6, <2>7, <2>8 DEF Next, Setup, Cleanup, Consume, Idles
<1> QED
  BY <1>1, <1>2

LEMMA AddressedSame ==
  ASSUME IInv, DeliveryInv, Next, UNCHANGED remoteAddresses,
         \A l \in Listeners : route'[l] \in {"queue", "streaming"} => route[l] \in {"queue", "streaming"},
         \A l \in Listeners : route[l] \notin {"none", "id", "address"} => route'[l] \notin {"none", "id", "address"}
  PROVE  Addressed'
<1>1. ASSUME NEW i \in Ids, remoteAddresses[i] # NoHost
      PROVE  \E k \in Listeners : id'[k] = i /\ route'[k] \notin {"none", "id", "address"}
  <2>1. PICK k \in Listeners : id[k] = i /\ route[k] \notin {"none", "id", "address"}
    BY <1>1 DEF DeliveryInv, Addressed
  <2>2. id'[k] = i
    BY <2>1, SharesGrows, Numbers
  <2> QED
    BY <2>1, <2>2
<1>2. ASSUME NEW l \in Listeners, route'[l] \in {"queue", "streaming"}, ~Shares(l)'
      PROVE  remoteAddresses[id'[l]] = Host[l]
  <2>1. route[l] \in {"queue", "streaming"}
    BY <1>2
  <2>2. id[l] # NoId
    BY <2>1 DEF IInv, Stages
  <2>3. id'[l] = id[l] /\ ~Shares(l)
    BY <1>2, <2>2, SharesGrows
  <2> QED
    BY <2>1, <2>3 DEF DeliveryInv, Addressed
<1> QED
  BY <1>1, <1>2 DEF Addressed

LEMMA AddressedRegister ==
  ASSUME IInv, DeliveryInv, NEW l \in Listeners, RegisterAddress(l)
  PROVE  Addressed'
<1>1. /\ route[l] = "address" /\ route'[l] = "queue" /\ (\A k \in Listeners : k # l => route'[k] = route[k])
      /\ UNCHANGED id /\ id[l] \in Ids
      /\ remoteAddresses'[id[l]] = (IF remoteAddresses[id[l]] = NoHost THEN Host[l] ELSE remoteAddresses[id[l]])
      /\ \A i \in Ids : i # id[l] => remoteAddresses'[i] = remoteAddresses[i]
  <2>1. /\ route[l] = "address" /\ route'[l] = "queue" /\ (\A k \in Listeners : k # l => route'[k] = route[k])
        /\ UNCHANGED id
    BY DEF RegisterAddress, Goes, IInv, TypeOK, StreamTypeOK
  <2>2. id[l] \in Ids
    BY <2>1, ListenerTypes DEF IInv, Stages
  <2> QED
    BY <2>1, <2>2 DEF RegisterAddress, IInv, TypeOK, StreamTypeOK
<1>2. ASSUME NEW i \in Ids, remoteAddresses'[i] # NoHost
      PROVE  \E k \in Listeners : id[k] = i /\ route'[k] \notin {"none", "id", "address"}
  <2>1. CASE i = id[l]
    BY <1>1, <2>1
  <2>2. CASE i # id[l]
    <3>1. PICK k \in Listeners : id[k] = i /\ route[k] \notin {"none", "id", "address"}
      BY <1>1, <1>2, <2>2 DEF DeliveryInv, Addressed
    <3> QED
      BY <1>1, <3>1
  <2> QED
    BY <2>1, <2>2
<1>3. ASSUME NEW k \in Listeners, route'[k] \in {"queue", "streaming"}, ~Shares(k)
      PROVE  remoteAddresses'[id[k]] = Host[k]
  <2>1. CASE k = l
    <3>1. remoteAddresses[id[l]] = NoHost
      <4>1. ASSUME remoteAddresses[id[l]] # NoHost  PROVE FALSE
        <5>1. PICK j \in Listeners : id[j] = id[l] /\ route[j] \notin {"none", "id", "address"}
          BY <1>1, <4>1 DEF DeliveryInv, Addressed
        <5> QED
          BY <1>1, <1>3, <2>1, <5>1 DEF Shares
      <4> QED
        BY <4>1
    <3> QED
      BY <1>1, <2>1, <3>1
  <2>2. CASE k # l
    <3>1. route[k] \in {"queue", "streaming"} /\ id[k] # id[l]
      BY <1>1, <1>3, <2>2 DEF Shares
    <3>2. id[k] \in Ids
      BY <3>1, ListenerTypes DEF IInv, Stages
    <3> QED
      BY <1>1, <1>3, <3>1, <3>2 DEF DeliveryInv, Addressed
  <2> QED
    BY <2>1, <2>2
<1> QED
  BY <1>1, <1>2, <1>3 DEF Addressed, Shares

LEMMA AddressedCleanup ==
  ASSUME IInv, DeliveryInv, NEW l \in Listeners, CleanupAddress(l)
  PROVE  Addressed'
<1>1. /\ route[l] = "forget" /\ route'[l] = "done" /\ (\A k \in Listeners : k # l => route'[k] = route[k])
      /\ UNCHANGED id
      /\ \A i \in Ids : remoteAddresses'[i] = IF i = id[l] THEN NoHost ELSE remoteAddresses[i]
  BY DEF CleanupAddress, Goes, IInv, TypeOK, StreamTypeOK
<1>2. ASSUME NEW i \in Ids, remoteAddresses'[i] # NoHost
      PROVE  \E k \in Listeners : id[k] = i /\ route'[k] \notin {"none", "id", "address"}
  BY <1>1, <1>2 DEF DeliveryInv, Addressed
<1>3. ASSUME NEW k \in Listeners, route'[k] \in {"queue", "streaming"}, ~Shares(k)
      PROVE  remoteAddresses'[id[k]] = Host[k]
  <2>1. k # l /\ route[k] \in {"queue", "streaming"} /\ id[k] # id[l]
    BY <1>1, <1>3 DEF Shares
  <2>2. id[k] \in Ids
    BY <2>1, ListenerTypes DEF IInv, Stages
  <2> QED
    BY <1>1, <1>3, <2>1, <2>2 DEF DeliveryInv, Addressed
<1> QED
  BY <1>1, <1>2, <1>3 DEF Addressed, Shares

LEMMA AddressedStep ==
  ASSUME IInv, DeliveryInv, Next
  PROVE  Addressed'
<1>1. ASSUME NEW l \in Listeners, \/ CheckLimit(l) \/ GetId(l) \/ StartStream(l) \/ Detach(l)
                                 \/ CleanupQueue(l) \/ CleanupId(l)
      PROVE  Addressed'
  <2>1. UNCHANGED remoteAddresses
    BY <1>1 DEF CheckLimit, GetId, StartStream, Detach, CleanupQueue, CleanupId
  <2>2. ASSUME NEW k \in Listeners
        PROVE  /\ route'[k] \in {"queue", "streaming"} => route[k] \in {"queue", "streaming"}
               /\ route[k] \notin {"none", "id", "address"} => route'[k] \notin {"none", "id", "address"}
    BY <1>1 DEF CheckLimit, GetId, StartStream, Detach, CleanupQueue, CleanupId, Goes, IInv, TypeOK, StreamTypeOK
  <2> QED
    BY <2>1, <2>2, AddressedSame
<1>2. CASE UNCHANGED <<remoteAddresses, route>>
  BY <1>2, AddressedSame
<1>3. \/ UNCHANGED <<remoteAddresses, route>>
      \/ \E l \in Listeners : Setup(l) \/ Detach(l) \/ Cleanup(l)
  BY DEF Next, Consume, Check, Count, Pop, Write, Remove, Broadcast, Send, CheckSend, ShutdownAll
<1> QED
  BY <1>1, <1>2, <1>3, AddressedRegister, AddressedCleanup DEF Setup, Cleanup

LEMMA OnlyCleanupUnregisters ==
  Next => registered \subseteq registered' \/ \E k \in Listeners : CleanupQueue(k)
BY DEF Next, Setup, Cleanup, Consume, CheckLimit, GetId, AcquireId, RegisterAddress, StartStream, InsertRetriever,
   Detach, CleanupId, FreeId, CleanupAddress, Check, Count, ConsumeableCount, Pop, PopMessage, Write, Decrement,
   Remove, EraseMessage, Broadcast, BroadcastMessage, Send, SendMessage, CheckSend, ShutdownAll, queueVars

LEMMA LiveFound ==
  ASSUME IInv, DeliveryInv, Next, NEW l \in Listeners, Live(l)'
  PROVE  id'[l] \in registered'
<1>1. CASE StartStream(l)
  BY <1>1 DEF StartStream, InsertRetriever
<1>2. CASE ~StartStream(l)
  <2>1. Live(l)
    <3>1. UNCHANGED route \/ \E k \in Listeners : Setup(k) \/ Detach(k) \/ Cleanup(k)
      BY DEF Next, Consume, Check, Count, Pop, Write, Remove, Broadcast, Send, CheckSend, ShutdownAll
    <3>2. ASSUME NEW k \in Listeners, Setup(k) \/ Detach(k) \/ Cleanup(k)
          PROVE  route'[l] = "streaming" => route[l] = "streaming"
      BY <1>2, <3>2 DEF Setup, Cleanup, CheckLimit, GetId, RegisterAddress, StartStream, Detach, CleanupQueue,
         CleanupId, CleanupAddress, Goes, IInv, TypeOK, StreamTypeOK
    <3> QED
      BY <3>1, <3>2 DEF Live
  <2>2. id[l] # NoId /\ id'[l] = id[l] /\ id[l] \in registered
    BY <2>1, SharesGrows DEF Live, IInv, Stages, DeliveryInv, Found
  <2>3. ASSUME NEW k \in Listeners, CleanupQueue(k)
        PROVE  id[l] \in registered'
    <3>1. k # l
      BY <2>1, <2>3 DEF CleanupQueue, Goes, Live
    <3>2. HasId(k) /\ HasId(l)
      BY <2>1, <2>3 DEF CleanupQueue, Goes, Live, HasId
    <3>3. id[k] # id[l]
      BY <3>1, <3>2 DEF IInv, IdsOwned
    <3> QED
      BY <2>2, <2>3, <3>3 DEF CleanupQueue, EraseRetriever
  <2>4. registered \subseteq registered' \/ \E k \in Listeners : CleanupQueue(k)
    BY OnlyCleanupUnregisters
  <2> QED
    BY <2>2, <2>3, <2>4
<1> QED
  BY <1>1, <1>2

LEMMA SendingFound ==
  ASSUME IInv, DeliveryInv, Next, NEW s \in Senders, sending'[s] \notin registered' \cup {NoId}
  PROVE  \E l \in Listeners : Gone(l)' /\ id'[l] = sending'[s]
<1>1. CASE \E l \in Listeners : CheckSend(s, l)
  <2>1. PICK l \in Listeners : CheckSend(s, l)
    BY <1>1
  <2>2. sending'[s] = id[l] /\ thread[l] # "off" /\ UNCHANGED <<registered, route, id>>
    BY <2>1 DEF CheckSend, queueVars, IInv, TypeOK, StreamTypeOK
  <2>3. id[l] # NoId /\ route[l] \notin {"none", "id", "address", "queue"}
    BY <2>2 DEF IInv, Stages
  <2>4. route[l] # "streaming"
    BY <2>2 DEF DeliveryInv, Found, Live
  <2>5. route[l] \in {"erase", "free", "forget", "done"}
    BY <2>3, <2>4 DEF IInv, TypeOK, StreamTypeOK, RouteState
  <2> QED
    BY <2>2, <2>3, <2>5 DEF Gone
<1>2. CASE sending'[s] = sending[s]
  <2>1. CASE sending[s] \notin registered \cup {NoId}
    <3>1. PICK l \in Listeners : Gone(l) /\ id[l] = sending[s]
      BY <2>1 DEF DeliveryInv, Found
    <3> QED
      BY <1>2, <3>1, GoneGrows
  <2>2. CASE sending[s] \in registered
    <3>1. PICK k \in Listeners : CleanupQueue(k)
      BY <1>2, <2>2, OnlyCleanupUnregisters
    <3>2. id[k] = sending[s] /\ route[k] = "erase" /\ route'[k] = "free" /\ id'[k] = id[k]
      BY <1>2, <2>2, <3>1 DEF CleanupQueue, EraseRetriever, Goes, IInv, TypeOK, StreamTypeOK
    <3>3. id[k] # NoId
      BY <3>2 DEF IInv, Stages
    <3> QED
      BY <1>2, <3>2, <3>3 DEF Gone
  <2> QED
    BY <1>2, <2>1, <2>2
<1>3. CASE Send(s)
  BY <1>3 DEF Send, IInv, TypeOK, StreamTypeOK
<1>4. (\E l \in Listeners : CheckSend(s, l)) \/ sending'[s] = sending[s] \/ Send(s)
  <2>1. UNCHANGED sending \/ \E r \in Senders : Send(r) \/ \E l \in Listeners : CheckSend(r, l)
    BY DEF Next, Setup, Cleanup, Consume, CheckLimit, GetId, RegisterAddress, StartStream, Detach, CleanupQueue,
       CleanupId, CleanupAddress, Check, Count, Pop, Write, Remove, Broadcast, ShutdownAll
  <2>2. ASSUME NEW r \in Senders, r # s, Send(r) \/ \E l \in Listeners : CheckSend(r, l)
        PROVE  sending'[s] = sending[s]
    BY <2>2 DEF Send, CheckSend, IInv, TypeOK, StreamTypeOK
  <2> QED
    BY <2>1, <2>2
<1> QED
  BY <1>1, <1>2, <1>3, <1>4

LEMMA PopsFind ==
  ASSUME IInv, DeliveryInv, Next, NEW l \in Listeners, thread'[l] = "pop", ~Gone(l)', ~Shares(l)'
  PROVE  assignments'[id'[l]] # <<>>
<1>1. CASE Count(l)
  <2>1. PICK n \in 0 .. MaxMsgs : Runs(l, "count", IF n = 0 THEN "check" ELSE "pop") /\ ConsumeableCount(id[l], n)
    BY <1>1 DEF Count
  <2>2. n # 0
    BY <2>1 DEF Runs, IInv, TypeOK, StreamTypeOK
  <2>3. n = Len(assignments[id[l]]) /\ UNCHANGED <<assignments, id>>
    BY <1>1, <2>1 DEF Count, ConsumeableCount
  <2>4. Len(assignments[id[l]]) # 0
    BY <2>2, <2>3
  <2> QED
    BY <2>3, <2>4
<1>2. CASE ~Count(l)
  <2>1. thread[l] = "pop"
    <3>1. \/ UNCHANGED thread
          \/ \E k \in Listeners : StartStream(k) \/ Check(k) \/ Count(k) \/ Pop(k) \/ Write(k) \/ Remove(k)
      BY DEF Next, Setup, Cleanup, Consume, CheckLimit, GetId, RegisterAddress, Detach, CleanupQueue, CleanupId,
         CleanupAddress, Broadcast, Send, CheckSend, ShutdownAll
    <3>2. ASSUME NEW k \in Listeners, k # l,
                 StartStream(k) \/ Check(k) \/ Count(k) \/ Pop(k) \/ Write(k) \/ Remove(k)
          PROVE  thread'[l] = thread[l]
      BY <3>2 DEF StartStream, Check, Count, Pop, Write, Remove, Runs, IInv, TypeOK, StreamTypeOK
    <3>3. ASSUME StartStream(l) \/ Check(l) \/ Pop(l) \/ Write(l) \/ Remove(l)
          PROVE  thread[l] = "pop"
      BY <3>3 DEF StartStream, Check, Pop, Write, Remove, Runs, IInv, TypeOK, StreamTypeOK
    <3> QED
      BY <1>2, <3>1, <3>2, <3>3
  <2>2. id[l] # NoId /\ id[l] \in Ids
    BY <2>1, ListenerTypes DEF IInv, Stages
  <2>3. ~Gone(l) /\ ~Shares(l) /\ id'[l] = id[l] /\ \A k \in Listeners : k # l => id[k] # id[l]
    BY <2>2, GoneGrows, SharesGrows DEF Shares
  <2>4. assignments[id[l]] # <<>> /\ assignments[id[l]] \in Seq(Msgs)
    BY <2>1, <2>2, <2>3 DEF DeliveryInv, Found, IInv, TypeOK, QueueTypeOK
  <2>5. ASSUME NEW k \in Listeners, StartStream(k) \/ CleanupQueue(k) \/ Pop(k)
        PROVE  assignments'[id[l]] = assignments[id[l]]
    <3>1. CASE k # l
      <4>1. \/ UNCHANGED assignments
            \/ assignments' = [assignments EXCEPT ![id[k]] = <<>>]
            \/ assignments' = [assignments EXCEPT ![id[k]] = Tail(assignments[id[k]])]
        BY <2>5 DEF StartStream, InsertRetriever, CleanupQueue, EraseRetriever, Pop, PopMessage, queueVars
      <4> QED
        BY <2>2, <2>3, <3>1, <4>1 DEF IInv, TypeOK, QueueTypeOK
    <3>2. CASE k = l
      <4>1. ~StartStream(l)
        BY <2>1 DEF StartStream, Runs
      <4>2. ~CleanupQueue(l)
        BY <2>2, <2>3 DEF CleanupQueue, Goes, Gone
      <4>3. Pop(l)
        BY <2>5, <3>2, <4>1, <4>2
      <4>4. UNCHANGED queueVars
        BY <4>3 DEF Pop, Runs, IInv, TypeOK, StreamTypeOK
      <4> QED
        BY <4>4 DEF queueVars
    <3> QED
      BY <3>1, <3>2
  <2>6. ASSUME NEW to, Pushed(to, sent + 1)
        PROVE  assignments'[id[l]] # <<>>
    <3>1. assignments'[id[l]] \in {assignments[id[l]], Append(assignments[id[l]], sent + 1)}
      BY <2>2, <2>6 DEF Pushed
    <3>2. Append(assignments[id[l]], sent + 1) # <<>>
      BY <2>4
    <3> QED
      BY <2>4, <3>1, <3>2
  <2>7. \/ UNCHANGED assignments
        \/ \E k \in Listeners : StartStream(k) \/ CleanupQueue(k) \/ Pop(k)
        \/ \E to : Pushed(to, sent + 1)
    BY DEF Next, Setup, Cleanup, Consume, CheckLimit, GetId, AcquireId, RegisterAddress, Detach, CleanupId, FreeId,
       CleanupAddress, Check, Count, ConsumeableCount, Write, Decrement, Remove, EraseMessage, Broadcast,
       BroadcastMessage, Send, SendMessage, CheckSend, ShutdownAll, queueVars
  <2> QED
    BY <2>3, <2>4, <2>5, <2>6, <2>7
<1> QED
  BY <1>1, <1>2

LEMMA BreaksOnlyTheGone ==
  ASSUME IInv, DeliveryInv, Next, broken'
  PROVE  \E l \in Listeners : thread'[l] = "pop" /\ (Gone(l)' \/ Shares(l)')
<1>1. broken = FALSE
  BY DEF Next, Setup, Cleanup, Consume, CheckLimit, GetId, RegisterAddress, StartStream, Detach, CleanupQueue, CleanupId,
     CleanupAddress, Check, Count, Pop, Write, Remove, Broadcast, Send, CheckSend, ShutdownAll, Goes, Runs,
     IInv, TypeOK, StreamTypeOK
<1>2. PICK l \in Listeners : Pop(l)
  BY <1>1 DEF Next, Setup, Cleanup, Consume, CheckLimit, GetId, RegisterAddress, StartStream, Detach, CleanupQueue,
     CleanupId, CleanupAddress, Check, Count, Write, Remove, Broadcast, Send, CheckSend, ShutdownAll
<1>3. thread[l] = "pop" /\ assignments[id[l]] = <<>> /\ UNCHANGED <<thread, route, id>>
  BY <1>1, <1>2 DEF Pop
<1>4. Gone(l) \/ Shares(l)
  BY <1>3 DEF DeliveryInv, Found
<1> QED
  BY <1>3, <1>4 DEF Gone, Shares

LEMMA DeliveryInit == Init => DeliveryInv
<1> SUFFICES ASSUME Init
             PROVE  DeliveryInv
  OBVIOUS
<1>1. Fresh /\ InOrder
  BY DEF Init, Fresh, InOrder
<1>2. NothingLost
  BY DEF Init, NothingLost, Live
<1>3. Addressed
  BY DEF Init, Addressed
<1>4. Found
  BY DEF Init, Found, Live
<1> QED
  BY <1>1, <1>2, <1>3, <1>4 DEF DeliveryInv

LEMMA DeliveryStep ==
  IInv /\ DeliveryInv /\ [Next]_vars => DeliveryInv'
<1> SUFFICES ASSUME IInv, DeliveryInv, [Next]_vars
             PROVE  DeliveryInv'
  OBVIOUS
<1>1. CASE Next
  <2>1. IInv'
    BY StepHolds
  <2>2. Found'
    BY <1>1, LiveFound, SendingFound, PopsFind, BreaksOnlyTheGone DEF Found
  <2> QED
    BY <1>1, <2>1, <2>2, FreshStep, InOrderStep, NothingLostStep, AddressedStep DEF DeliveryInv
<1>2. CASE UNCHANGED vars
  <2>1. /\ UNCHANGED <<registered, assignments, sent, route, id, thread, holding, written, owed>>
        /\ UNCHANGED <<remoteAddresses, sending, broken>>
    BY <1>2 DEF vars, queueVars, streamVars
  <2>2. Fresh'
    BY <2>1 DEF DeliveryInv, Fresh
  <2>3. InOrder'
    BY <2>1 DEF DeliveryInv, InOrder, Hand
  <2>4. NothingLost'
    BY <2>1 DEF DeliveryInv, NothingLost, Live, Shares, Hand
  <2>5. Addressed'
    BY <2>1 DEF DeliveryInv, Addressed, Shares
  <2>6. Found'
    BY <2>1 DEF DeliveryInv, Found, Live, Gone, Shares
  <2> QED
    BY <2>2, <2>3, <2>4, <2>5, <2>6 DEF DeliveryInv
<1> QED
  BY <1>1, <1>2

(* http_streamer.cpp, stream_queue.cpp: what is written to a client is in  *)
(* the order of sending and without repetition, whoever took over its id;  *)
(* and nothing that was queued for a listener is lost as long as it is the *)
(* only one that ever had its id.                                          *)
THEOREM DeliversCorrect == Spec => []Delivers
<1>1. IInv /\ DeliveryInv => Delivers
  <2> SUFFICES ASSUME IInv, DeliveryInv
               PROVE  Delivers
    OBVIOUS
  <2>1. ASSUME NEW l \in Listeners, NEW i \in DOMAIN written[l], NEW j \in DOMAIN written[l], i < j
        PROVE  written[l][i] < written[l][j]
    <3>1. thread[l] # "off"
      BY DEF DeliveryInv, Fresh
    <3>2. id[l] # NoId
      BY <3>1 DEF IInv, Stages
    <3> QED
      BY <2>1, <3>2 DEF DeliveryInv, InOrder, Sorted
  <2>2. ASSUME NEW l \in Listeners, Live(l), ~Shares(l)
        PROVE  /\ \A m \in owed[l] : \/ m \in Range(assignments[id[l]])
                                     \/ m \in Range(written[l])
                                     \/ thread[l] = "write" /\ holding[l] = m
               /\ ~Forbidden(l) /\ ~NoListener(l)
    <3>1. \A m \in owed[l] : m \in Range(assignments[id[l]]) \/ m \in Range(written[l]) \/ m \in Hand(l)
      BY <2>2 DEF DeliveryInv, NothingLost
    <3>2. remoteAddresses[id[l]] = Host[l]
      BY <2>2 DEF Live, DeliveryInv, Addressed
    <3>3. Host[l] # NoHost
      BY StreamerAssumption DEF Range
    <3> QED
      BY <3>1, <3>2, <3>3 DEF Hand, Forbidden, NoListener
  <2> QED
    BY <2>1, <2>2 DEF Delivers
<1> QED
  BY InitHolds, StepHolds, DeliveryInit, DeliveryStep, <1>1, PTL DEF Spec

(* stream_queue.hpp, http_streamer.cpp: popping from an empty queue, which *)
(* is undefined, and sending without a queue behind the check happen only  *)
(* to listeners that have gone or share their id with one that has.        *)
THEOREM MissesOnlyTheGoneCorrect == Spec => []MissesOnlyTheGone
<1>1. DeliveryInv => MissesOnlyTheGone
  BY DEF DeliveryInv, Found, MissesOnlyTheGone
<1> QED
  BY InitHolds, StepHolds, DeliveryInit, DeliveryStep, <1>1, PTL DEF Spec
=============================================================================
