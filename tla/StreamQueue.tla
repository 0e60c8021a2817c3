---------------------------- MODULE StreamQueue ----------------------------
(***************************************************************************)
(* Streaming::StreamQueue and Streaming::IdProvider of the worker: a cache *)
(* of reference counted messages, a queue of references to them for every  *)
(* listener, and the ids of the listeners.  Every operation holds a mutex, *)
(* so each is one step; unrefMessage decrements an atomic counter before   *)
(* it takes the mutex, and is two.                                         *)
(***************************************************************************)
EXTENDS Integers, Sequences, FiniteSets, Functions

CONSTANTS
  MaxId,     (* std::numeric_limits<id_type>::max()                        *)
  MaxMsgs    (* bound: the messages that are ever put into the queue       *)

ASSUME QueueAssumption == MaxId \in Nat \ {0} /\ MaxMsgs \in Nat

Ids == 1 .. MaxId

(* Messages are named by the order in which they entered the cache.        *)
Msgs == 1 .. MaxMsgs

VARIABLES
  registered,   (* the keys of assignments_                                *)
  assignments,  (* assignments[i]: the references queued for listener i    *)
  messageCache, (* the messages in messageCache_                           *)
  refCount,     (* refCount[m]: ReferenceCountedMessage::refCount          *)
  sent,         (* how many messages have been put into the cache          *)
  freeIds,      (* IdProvider::freeIds_                                    *)
  increment     (* IdProvider::increment_                                  *)

queueVars == <<registered, assignments, messageCache, refCount, sent>>

idVars == <<freeIds, increment>>

QueueTypeOK ==
  /\ registered \in SUBSET Ids
  /\ assignments \in [Ids -> Seq(Msgs)]
  /\ messageCache \in SUBSET Msgs
  /\ refCount \in [Msgs -> Nat]
  /\ sent \in 0 .. MaxMsgs
  /\ freeIds \in SUBSET Ids
  /\ increment \in 0 .. MaxId

QueueInit ==
  /\ registered = {}
  /\ assignments = [i \in Ids |-> <<>>]
  /\ messageCache = {}
  /\ refCount = [m \in Msgs |-> 0]
  /\ sent = 0
  /\ freeIds = {}
  /\ increment = 0

-----------------------------------------------------------------------------

(* A slip: one of the references is not counted.                           *)
EmplaceOneShort(count) ==
  /\ sent < MaxMsgs
  /\ sent' = sent + 1
  /\ messageCache' = messageCache \cup {sent + 1}
  /\ refCount' = [refCount EXCEPT ![sent + 1] = IF count > 1 THEN count - 1 ELSE count]

Emplace(count) ==
  /\ sent < MaxMsgs
  /\ sent' = sent + 1
  /\ messageCache' = messageCache \cup {sent + 1}
  /\ refCount' = [refCount EXCEPT ![sent + 1] = count]

(* A slip: the newest message is put in front.                             *)
PushedInFront(to, m) ==
  assignments' = [i \in Ids |-> IF i \in to THEN <<m>> \o assignments[i] ELSE assignments[i]]

Pushed(to, m) ==
  assignments' = [i \in Ids |-> IF i \in to THEN Append(assignments[i], m) ELSE assignments[i]]

(* The message is counted once for every listener there is, which may be   *)
(* none.                                                                   *)
BroadcastMessage ==
  /\ Emplace(Cardinality(registered))
  /\ Pushed(registered, sent + 1)
  /\ UNCHANGED <<registered, idVars>>

(* The message enters the cache before the listener is looked up; without  *)
(* a listener sendMessage throws.                                          *)
SendMessage(id) ==
  /\ Emplace(1)
  /\ Pushed({id} \cap registered, sent + 1)
  /\ UNCHANGED <<registered, idVars>>

InsertRetriever(id) ==
  /\ registered' = registered \cup {id}
  /\ assignments' = [assignments EXCEPT ![id] = <<>>]
  /\ UNCHANGED <<messageCache, refCount, sent, idVars>>

(* The references are dropped without being counted down.                  *)
EraseRetriever(id) ==
  /\ registered' = registered \ {id}
  /\ assignments' = [assignments EXCEPT ![id] = <<>>]
  /\ UNCHANGED <<messageCache, refCount, sent, idVars>>

(* assignments_[id] makes an entry when there is none.                     *)
ConsumeableCount(id, n) ==
  /\ n = Len(assignments[id])
  /\ registered' = registered \cup {id}
  /\ UNCHANGED <<assignments, messageCache, refCount, sent, idVars>>

(* m is the message behind the reference that is popped.                   *)
PopMessage(id, m) ==
  /\ assignments[id] # <<>>
  /\ m = Head(assignments[id])
  /\ assignments' = [assignments EXCEPT ![id] = Tail(@)]
  /\ UNCHANGED <<registered, messageCache, refCount, sent, idVars>>

(* A slip: a reference is counted down twice.                              *)
DecrementTwice(m) ==
  /\ refCount' = [refCount EXCEPT ![m] = @ - 2]
  /\ UNCHANGED <<registered, assignments, messageCache, sent, idVars>>

Decrement(m) ==
  /\ refCount' = [refCount EXCEPT ![m] = @ - 1]
  /\ UNCHANGED <<registered, assignments, messageCache, sent, idVars>>

EraseMessage(m) ==
  /\ messageCache' = messageCache \ {m}
  /\ UNCHANGED <<registered, assignments, refCount, sent, idVars>>

-----------------------------------------------------------------------------

(* The smallest element: freeIds_ is an ordered set.                       *)
IsFirst(id) == id \in freeIds /\ \A j \in freeIds : id <= j

AcquireId(id) ==
  /\ \/ freeIds = {} /\ increment < MaxId /\ id = increment + 1 /\ increment' = id
     \/ IsFirst(id) /\ UNCHANGED increment
  /\ freeIds' = freeIds \ {id}
  /\ UNCHANGED queueVars

OutOfIds == freeIds = {} /\ increment = MaxId

FreeId(id) ==
  /\ freeIds' = freeIds \cup {id}
  /\ UNCHANGED <<increment, queueVars>>

UsedIdCount == increment - Cardinality(freeIds)
=============================================================================
