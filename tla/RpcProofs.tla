----------------------------- MODULE RpcProofs -----------------------------
(***************************************************************************)
(* Proofs about the request and reply protocol: the types, that each       *)
(* pending promise waits under one ref, that a reply reaches the caller    *)
(* it answers, and that the protocol implements PromiseSpec's Safety; then *)
(* that connected means an accepted user, and that a file arrives whole.   *)
(***************************************************************************)
EXTENDS Rpc, FiniteSetTheorems, SequenceTheorems, TLAPS

(* Something under way carries ref i on behalf of call k.                  *)
TextTrace(i, k) == \E f \in Range(textBuffer) : f.ref = i /\ f.of = k
UpTrace(i, k)   == \E c \in Conns : \E q \in Range(up[c]) : q.ref = i /\ q.of = k
DownTrace(i, k) == \E c \in Conns : \E f \in Range(down[c]) : f.ref = i /\ f.of = k
FileTrace(i, k) == \E c \in Conns : \E w \in writers[c] : w.ref = i /\ w.of = k

Trace(i, k) ==
  TextTrace(i, k) \/ UpTrace(i, k) \/ DownTrace(i, k) \/ FileTrace(i, k)

(* OwnReply in these terms.                                                *)
OwnTraces ==
  \A i \in Refs : waiter[i] # NoCall => \A k : Trace(i, k) => k = waiter[i]

(* A frame that makes its receiver resolve the call.                       *)
Success(f) == f.ref \in Refs /\ IF f.kind = "text" THEN f.ok ELSE f.units = 0

(* Such a frame is only sent when the call has been answered.              *)
Honest ==
  /\ \A f \in Range(textBuffer) : Success(f) => f.of \in answered
  /\ \A c \in Conns : \A f \in Range(down[c]) : Success(f) => f.of \in answered
  /\ \A f \in Range(textBuffer) : f.kind = "text"

(* The inductive invariant.                                                *)
IInv == TypeOK /\ EachPendingWaits /\ OwnTraces /\ Honest

-----------------------------------------------------------------------------
(* Sequences as sets of messages.                                          *)

LEMMA RangeAppend ==
  ASSUME NEW S, NEW s \in Seq(S), NEW e \in S
  PROVE  /\ Append(s, e) \in Seq(S)
         /\ Range(Append(s, e)) = Range(s) \cup {e}
<1>1. /\ Append(s, e) \in Seq(S)
      /\ Len(Append(s, e)) = Len(s) + 1
      /\ \A i \in 1 .. Len(s) : Append(s, e)[i] = s[i]
      /\ Append(s, e)[Len(s) + 1] = e
  BY AppendProperties
<1>2. Len(s) \in Nat /\ DOMAIN s = 1 .. Len(s)
  BY LenProperties
<1>3. DOMAIN Append(s, e) = 1 .. Len(s) + 1
  BY <1>1, LenProperties
<1>4. Range(Append(s, e)) = {Append(s, e)[i] : i \in 1 .. Len(s) + 1}
  BY <1>3 DEF Range
<1>5. Range(s) = {s[i] : i \in 1 .. Len(s)}
  BY <1>2 DEF Range
<1> QED
  BY <1>1, <1>2, <1>4, <1>5

LEMMA RangeTail ==
  ASSUME NEW S, NEW s \in Seq(S), s # <<>>
  PROVE  /\ Head(s) \in S
         /\ Head(s) \in Range(s)
         /\ Tail(s) \in Seq(S)
         /\ Range(Tail(s)) \subseteq Range(s)
<1>1. /\ Head(s) = s[1]
      /\ Tail(s) \in Seq(S)
      /\ Len(Tail(s)) = Len(s) - 1
      /\ \A i \in 1 .. Len(Tail(s)) : Tail(s)[i] = s[i + 1]
  BY HeadTailProperties
<1>2. Len(s) \in Nat \ {0} /\ DOMAIN s = 1 .. Len(s)
  BY LenProperties, EmptySeq
<1>3. DOMAIN Tail(s) = 1 .. Len(s) - 1
  BY <1>1, LenProperties
<1>4. s[1] \in S
  BY <1>2, ElementOfSeq
<1>5. Range(Tail(s)) = {Tail(s)[i] : i \in 1 .. Len(s) - 1}
  BY <1>3 DEF Range
<1>6. Range(s) = {s[i] : i \in 1 .. Len(s)}
  BY <1>2 DEF Range
<1> QED
  BY <1>1, <1>2, <1>4, <1>5, <1>6

LEMMA RangeInSet ==
  ASSUME NEW S, NEW s \in Seq(S)
  PROVE  Range(s) \subseteq S
  BY LenProperties DEF Range

LEMMA EmptyRange == Range(<<>>) = {} /\ \A S : <<>> \in Seq(S)
  BY DEF Range

(* Writing a message changes one queue, by that message, or none.          *)
LEMMA WrittenQueues ==
  ASSUME NEW S, NEW queue \in [Conns -> Seq(S)], NEW c \in Conns, NEW msg \in S
  PROVE  /\ Written(queue, c, msg) \in [Conns -> Seq(S)]
         /\ \A d \in Conns :
              Range(Written(queue, c, msg)[d]) \subseteq Range(queue[d]) \cup {msg}
<1>1. CASE lost[c]
  BY <1>1 DEF Written
<1>2. CASE ~lost[c]
  <2>1. /\ Append(queue[c], msg) \in Seq(S)
        /\ Range(Append(queue[c], msg)) = Range(queue[c]) \cup {msg}
    BY RangeAppend
  <2> QED
    BY <1>2, <2>1 DEF Written
<1> QED
  BY <1>1, <1>2

LEMMA SentCountType == SentCount \in Nat
<1>1. IsFiniteSet(Calls)
  BY FS_Union, WireAssumption DEF Calls
<1>2. IsFiniteSet({k \in Calls : promise[k] # "idle"})
  BY <1>1, FS_Subset
<1> QED
  BY <1>2, FS_CardinalityType DEF SentCount

-----------------------------------------------------------------------------
(* Steps that send no request keep OwnTraces when they create no trace.    *)

LEMMA NoNewTraces ==
  ASSUME OwnTraces,
         \A i \in Refs : waiter'[i] \in {waiter[i], NoCall},
         \A i \in Refs : \A k : Trace(i, k)' => Trace(i, k)
  PROVE  OwnTraces'
  BY DEF OwnTraces

(* Settling or rejecting calls: the calls of the refs in R get a verdict.  *)
LEMMA SettleCalls ==
  ASSUME TypeOK, EachPendingWaits,
         NEW R \in SUBSET Refs, \A i \in R : waiter[i] # NoCall,
         waiter' = [i \in Refs |-> IF i \in R THEN NoCall ELSE waiter[i]],
         NEW v \in {"resolved", "rejected"},
         promise' = [k \in Calls |-> IF \E i \in R : waiter[i] = k THEN v ELSE promise[k]]
  PROVE  /\ waiter' \in [Refs -> Calls \cup {NoCall}]
         /\ promise' \in [Calls -> PromiseState]
         /\ \A i \in R : waiter[i] \in Calls /\ promise[waiter[i]] = "pending"
         /\ EachPendingWaits'
<1> USE WireAssumption
<1>1. waiter \in [Refs -> Calls \cup {NoCall}] /\ promise \in [Calls -> PromiseState]
  BY DEF TypeOK, ClientTypeOK
<1>2. waiter' \in [Refs -> Calls \cup {NoCall}]
  BY <1>1
<1>3. promise' \in [Calls -> PromiseState]
  BY <1>1 DEF PromiseState
<1>4. \A i \in R : waiter[i] \in Calls /\ promise[waiter[i]] = "pending"
  BY <1>1 DEF EachPendingWaits
<1>5. ASSUME NEW i \in Refs, NEW j \in Refs, waiter'[i] = waiter'[j], waiter'[i] # NoCall
      PROVE  i = j
  BY <1>5 DEF EachPendingWaits
<1>6. ASSUME NEW k \in Calls
      PROVE  promise'[k] = "pending" <=> \E i \in Refs : waiter'[i] = k
  <2>1. CASE \E i \in R : waiter[i] = k
    <3>1. promise'[k] # "pending"
      BY <2>1
    <3>2. ASSUME NEW i \in Refs, waiter'[i] = k  PROVE FALSE
      <4>1. i \notin R /\ waiter[i] = k
        BY <3>2, <1>1
      <4>2. PICK j \in R : waiter[j] = k
        BY <2>1
      <4> QED
        BY <4>1, <4>2 DEF EachPendingWaits
    <3> QED
      BY <3>1, <3>2
  <2>2. CASE ~ \E i \in R : waiter[i] = k
    <3>1. promise'[k] = promise[k]
      BY <2>2
    <3>2. (\E i \in Refs : waiter'[i] = k) <=> (\E i \in Refs : waiter[i] = k)
      BY <2>2, <1>1
    <3> QED
      BY <3>1, <3>2 DEF EachPendingWaits
  <2> QED
    BY <2>1, <2>2
<1> QED
  BY <1>2, <1>3, <1>4, <1>5, <1>6 DEF EachPendingWaits

(* The same for one call, as parseData and handleBinaryCompletion do it.   *)
LEMMA SettleOne ==
  ASSUME TypeOK, EachPendingWaits,
         NEW ref \in Refs, waiter[ref] # NoCall,
         NEW v \in {"resolved", "rejected"}, Settled(ref, v)
  PROVE  /\ waiter' \in [Refs -> Calls \cup {NoCall}]
         /\ promise' \in [Calls -> PromiseState]
         /\ waiter[ref] \in Calls /\ promise[waiter[ref]] = "pending"
         /\ \A i \in Refs : waiter'[i] \in {waiter[i], NoCall}
         /\ EachPendingWaits'
<1>1. waiter \in [Refs -> Calls \cup {NoCall}] /\ promise \in [Calls -> PromiseState]
  BY DEF TypeOK, ClientTypeOK
<1>2. waiter' = [i \in Refs |-> IF i \in {ref} THEN NoCall ELSE waiter[i]]
  BY <1>1 DEF Settled
<1>3. promise' = [k \in Calls |-> IF \E i \in {ref} : waiter[i] = k THEN v ELSE promise[k]]
  BY <1>1 DEF Settled
<1> HIDE DEF Settled
<1>4. /\ waiter' \in [Refs -> Calls \cup {NoCall}]
      /\ promise' \in [Calls -> PromiseState]
      /\ \A i \in {ref} : waiter[i] \in Calls /\ promise[waiter[i]] = "pending"
      /\ EachPendingWaits'
  <2>1. {ref} \in SUBSET Refs /\ \A i \in {ref} : waiter[i] # NoCall
    OBVIOUS
  <2> QED
    BY <1>2, <1>3, <2>1, SettleCalls
<1> QED
  BY <1>2, <1>4

-----------------------------------------------------------------------------
(* Sending a request.                                                      *)

LEMMA WriteMessageStep ==
  ASSUME IInv, RefIsFree, NEW k \in Calls, NEW s, WriteMessage(k, s),
         UNCHANGED <<down, textBuffer, writers, answered>>
  PROVE  /\ replyId' \in Refs
         /\ waiter' \in [Refs -> Calls \cup {NoCall}]
         /\ date' \in [Calls -> Nat]
         /\ promise' \in [Calls -> PromiseState]
         /\ up' \in [Conns -> Seq(Request)]
         /\ EachPendingWaits' /\ OwnTraces' /\ Honest'
         /\ Promises!Make(k)
<1> USE WireAssumption
<1>1. /\ replyId \in Refs /\ waiter \in [Refs -> Calls \cup {NoCall}]
      /\ date \in [Calls -> Nat] /\ promise \in [Calls -> PromiseState]
      /\ up \in [Conns -> Seq(Request)] /\ ws \in Conns \cup {NoConn}
  BY DEF IInv, TypeOK, WireTypeOK, ClientTypeOK
<1>2. promise[k] = "idle"
  BY DEF WriteMessage
<1>3. Honest'
  BY DEF IInv, Honest, Success
<1>4. CASE Dropped(k, s)
  <2>1. /\ promise' = [promise EXCEPT ![k] = "void"]
        /\ UNCHANGED <<replyId, waiter, date, up>>
    BY <1>4 DEF Dropped
  <2>2. EachPendingWaits'
    BY <1>1, <1>2, <2>1 DEF EachPendingWaits, IInv
  <2>3. OwnTraces'
    <3>1. \A i \in Refs : \A j : Trace(i, j)' => Trace(i, j)
      BY <2>1 DEF Trace, TextTrace, UpTrace, DownTrace, FileTrace
    <3> QED
      BY <2>1, <3>1, NoNewTraces DEF IInv
  <2>4. promise' \in [Calls -> PromiseState]
    BY <1>1, <2>1 DEF PromiseState
  <2>5. Promises!Make(k)
    BY <1>2, <2>1 DEF Promises!Make
  <2> QED
    BY <1>1, <1>3, <2>1, <2>2, <2>3, <2>4, <2>5
<1>5. CASE Sent(k, s)
  <2> DEFINE q == [ref |-> replyId, of |-> k]
  <2>1. /\ ws \in Conns
        /\ replyId' = NextReplyId(replyId)
        /\ waiter' = [waiter EXCEPT ![replyId] = k]
        /\ date' = [date EXCEPT ![k] = SentCount]
        /\ promise' = [promise EXCEPT ![k] = "pending"]
        /\ up' = Written(up, ws, q)
    BY <1>1, <1>5 DEF Sent
  <2>2. q \in Request
    BY <1>1 DEF Request
  <2>3. /\ up' \in [Conns -> Seq(Request)]
        /\ \A d \in Conns : Range(up'[d]) \subseteq Range(up[d]) \cup {q}
    <3> HIDE DEF q
    <3> QED
      BY <1>1, <2>1, <2>2, WrittenQueues
  <2>4. replyId' \in Refs
    BY <1>1, <2>1 DEF NextReplyId, Refs
  <2>5. waiter[replyId] = NoCall /\ \A j : ~Trace(replyId, j)
    BY DEF RefIsFree, InUse, Trace, TextTrace, UpTrace, DownTrace, FileTrace
  <2>6. /\ waiter' \in [Refs -> Calls \cup {NoCall}]
        /\ promise' \in [Calls -> PromiseState]
        /\ date' \in [Calls -> Nat]
    BY <1>1, <2>1, SentCountType DEF PromiseState
  <2>7. EachPendingWaits'
    <3>1. \A i \in Refs : waiter[i] # k
      BY <1>2 DEF IInv, EachPendingWaits
    <3>2. \A i \in Refs : waiter'[i] = IF i = replyId THEN k ELSE waiter[i]
      BY <1>1, <2>1
    <3>3. \A j \in Calls : promise'[j] = IF j = k THEN "pending" ELSE promise[j]
      BY <1>1, <2>1
    <3>4. ASSUME NEW j \in Calls
          PROVE  (\E i \in Refs : waiter'[i] = j) <=> (j = k \/ \E i \in Refs : waiter[i] = j)
      BY <1>1, <2>5, <3>2
    <3>5. ASSUME NEW i \in Refs, NEW j \in Refs, waiter'[i] = waiter'[j], waiter'[i] # NoCall
          PROVE  i = j
      BY <3>1, <3>2, <3>5 DEF IInv, EachPendingWaits
    <3>6. \A j \in Calls : promise[j] = "pending" <=> \E i \in Refs : waiter[i] = j
      BY DEF IInv, EachPendingWaits
    <3> QED
      BY <3>3, <3>4, <3>5, <3>6 DEF EachPendingWaits
  <2>8. OwnTraces'
    <3>1. ASSUME NEW i \in Refs, NEW j, Trace(i, j)'
          PROVE  Trace(i, j) \/ (i = replyId /\ j = k)
      BY <2>3, <3>1 DEF Trace, TextTrace, UpTrace, DownTrace, FileTrace
    <3>2. \A i \in Refs : waiter'[i] = IF i = replyId THEN k ELSE waiter[i]
      BY <1>1, <2>1
    <3> QED
      BY <2>5, <3>1, <3>2 DEF OwnTraces, IInv
  <2>9. Promises!Make(k)
    BY <1>2, <2>1 DEF Promises!Make
  <2> QED
    BY <1>3, <2>3, <2>4, <2>6, <2>7, <2>8, <2>9
<1> QED
  BY <1>4, <1>5 DEF WriteMessage

LEMMA CallStep ==
  ASSUME IInv, RefIsFree, NEW k \in Requests, Call(k), UNCHANGED sessionVars
  PROVE  IInv' /\ Promises!Make(k)
<1>1. k \in Calls
  BY DEF Calls
<1>2. /\ WriteMessage(k, sock)
      /\ UNCHANGED <<sock, peer, lost, down, ws, buf, textBuffer, connected, trying>>
      /\ UNCHANGED <<auth, greeting, root, writers, answered>>
  BY DEF Call, sessionVars
<1>3. /\ replyId' \in Refs
      /\ waiter' \in [Refs -> Calls \cup {NoCall}]
      /\ date' \in [Calls -> Nat]
      /\ promise' \in [Calls -> PromiseState]
      /\ up' \in [Conns -> Seq(Request)]
      /\ EachPendingWaits' /\ OwnTraces' /\ Honest'
      /\ Promises!Make(k)
  BY <1>1, <1>2, WriteMessageStep
<1>4. TypeOK'
  BY <1>2, <1>3 DEF IInv, TypeOK, WireTypeOK, ClientTypeOK, SessionTypeOK
<1> QED
  BY <1>3, <1>4 DEF IInv

LEMMA OnOpenStep ==
  ASSUME IInv, RefIsFree, NEW c \in Conns, OnOpen(c), UNCHANGED sessionVars
  PROVE  IInv' /\ Promises!Make(c)
<1>1. c \in Calls
  BY DEF Calls
<1> DEFINE s == [sock EXCEPT ![c] = "open"]
<1>2. /\ WriteMessage(c, s)
      /\ sock' = s
      /\ UNCHANGED <<peer, lost, down, ws, buf, textBuffer, connected, trying>>
      /\ UNCHANGED <<auth, greeting, root, writers, answered>>
  BY DEF OnOpen, sessionVars
<1>3. sock' \in [Conns -> {"none", "connecting", "open", "closed"}]
  BY <1>2 DEF IInv, TypeOK, WireTypeOK
<1> HIDE DEF s
<1>4. /\ replyId' \in Refs
      /\ waiter' \in [Refs -> Calls \cup {NoCall}]
      /\ date' \in [Calls -> Nat]
      /\ promise' \in [Calls -> PromiseState]
      /\ up' \in [Conns -> Seq(Request)]
      /\ EachPendingWaits' /\ OwnTraces' /\ Honest'
      /\ Promises!Make(c)
  BY <1>1, <1>2, WriteMessageStep
<1>5. TypeOK'
  BY <1>2, <1>3, <1>4 DEF IInv, TypeOK, WireTypeOK, ClientTypeOK, SessionTypeOK
<1> QED
  BY <1>4, <1>5 DEF IInv

-----------------------------------------------------------------------------
(* Timeouts and incoming messages.                                         *)

LEMMA SweepStep ==
  ASSUME IInv, NEW d \in Nat, Sweep(d), UNCHANGED sessionVars
  PROVE  IInv' /\ \E S \in SUBSET Calls : Promises!Reject(S)
<1> USE WireAssumption
<1> DEFINE R == Expired(d)
           S == {k \in Calls : \E i \in R : waiter[i] = k}
<1>1. /\ waiter' = [i \in Refs |-> IF i \in R THEN NoCall ELSE waiter[i]]
      /\ promise' = [k \in Calls |-> IF \E i \in R : waiter[i] = k
                                     THEN "rejected" ELSE promise[k]]
      /\ UNCHANGED <<sock, peer, lost, up, down, ws, replyId, date, buf,
                     textBuffer, connected, trying>>
      /\ UNCHANGED <<auth, greeting, root, writers, answered>>
  BY DEF Sweep, wireVars, sessionVars
<1>2. R \in SUBSET Refs /\ \A i \in R : waiter[i] # NoCall
  BY DEF Expired
<1> HIDE DEF R
<1>3. /\ waiter' \in [Refs -> Calls \cup {NoCall}]
      /\ promise' \in [Calls -> PromiseState]
      /\ \A i \in R : waiter[i] \in Calls /\ promise[waiter[i]] = "pending"
      /\ EachPendingWaits'
  BY <1>1, <1>2, SettleCalls DEF IInv
<1>4. TypeOK'
  BY <1>1, <1>3 DEF IInv, TypeOK, WireTypeOK, ClientTypeOK, SessionTypeOK
<1>5. OwnTraces'
  <2>1. \A i \in Refs : \A k : Trace(i, k)' => Trace(i, k)
    BY <1>1 DEF Trace, TextTrace, UpTrace, DownTrace, FileTrace
  <2>2. \A i \in Refs : waiter'[i] \in {waiter[i], NoCall}
    BY <1>1
  <2> QED
    BY <2>1, <2>2, NoNewTraces DEF IInv
<1>6. Honest'
  BY <1>1 DEF IInv, Honest, Success
<1>7. Promises!Reject(S)
  <2>1. \A k \in S : promise[k] = "pending"
    BY <1>3
  <2>2. promise' = [k \in Calls |-> IF k \in S THEN "rejected" ELSE promise[k]]
    BY <1>1
  <2> QED
    BY <1>1, <2>1, <2>2 DEF Promises!Reject
<1> QED
  BY <1>3, <1>4, <1>5, <1>6, <1>7 DEF IInv

(* A frame whose call still waits settles that very call; f need not have  *)
(* left the buffer or the connection yet.                                  *)
LEMMA DeliverStep ==
  ASSUME IInv, NEW f \in Frame, Awaited(f), Trace(f.ref, f.of),
         NEW v \in {"resolved", "rejected"}, Settled(f.ref, v),
         v = "resolved" => f.of \in answered,
         UNCHANGED answered
  PROVE  /\ waiter' \in [Refs -> Calls \cup {NoCall}]
         /\ promise' \in [Calls -> PromiseState]
         /\ waiter[f.ref] \in Calls
         /\ \A i \in Refs : waiter'[i] \in {waiter[i], NoCall}
         /\ EachPendingWaits'
         /\ Promises!Next
<1>1. f.ref \in Refs /\ waiter[f.ref] # NoCall
  BY DEF Awaited
<1>2. /\ waiter' \in [Refs -> Calls \cup {NoCall}]
      /\ promise' \in [Calls -> PromiseState]
      /\ waiter[f.ref] \in Calls /\ promise[waiter[f.ref]] = "pending"
      /\ \A i \in Refs : waiter'[i] \in {waiter[i], NoCall}
      /\ EachPendingWaits'
  BY <1>1, SettleOne DEF IInv
<1>3. f.of = waiter[f.ref]
  BY <1>1 DEF IInv, OwnTraces
<1>4. promise' = [promise EXCEPT ![f.of] = v]
  BY <1>3 DEF Settled
<1>5. CASE v = "resolved"
  <2>1. Promises!Resolve(f.of)
    BY <1>2, <1>3, <1>4, <1>5 DEF Promises!Resolve
  <2> QED
    BY <1>2, <1>3, <2>1 DEF Promises!Next
<1>6. CASE v = "rejected"
  <2>1. promise \in [Calls -> PromiseState]
    BY DEF IInv, TypeOK, ClientTypeOK
  <2>2. Promises!Reject({f.of})
    BY <1>2, <1>3, <1>4, <1>6, <2>1 DEF Promises!Reject
  <2>3. {f.of} \in SUBSET Calls
    BY <1>2, <1>3
  <2> QED
    BY <1>2, <2>2, <2>3 DEF Promises!Next
<1> QED
  BY <1>2, <1>5, <1>6

LEMMA OnMessageStep ==
  ASSUME IInv, NEW c \in Conns, OnMessage(c), UNCHANGED sessionVars
  PROVE  IInv' /\ (Promises!Next \/ UNCHANGED <<promise, answered>>)
<1> USE WireAssumption
<1> DEFINE f == Head(down[c])
<1>1. /\ down \in [Conns -> Seq(Frame)] /\ textBuffer \in Seq(Frame)
      /\ waiter \in [Refs -> Calls \cup {NoCall}]
      /\ promise \in [Calls -> PromiseState]
      /\ buf \in [Calls -> Nat] /\ connected \in BOOLEAN
  BY DEF IInv, TypeOK, WireTypeOK, ClientTypeOK
<1>2. /\ down[c] # <<>>
      /\ down' = [down EXCEPT ![c] = Tail(@)]
      /\ UNCHANGED <<sock, peer, lost, up, ws, replyId, date, trying>>
      /\ UNCHANGED <<auth, greeting, root, writers, answered>>
  BY DEF OnMessage, sessionVars
<1>3. /\ f \in Frame /\ f \in Range(down[c])
      /\ Tail(down[c]) \in Seq(Frame)
      /\ Range(Tail(down[c])) \subseteq Range(down[c])
  BY <1>1, <1>2, RangeTail
<1>4. /\ down' \in [Conns -> Seq(Frame)]
      /\ \A d \in Conns : Range(down'[d]) \subseteq Range(down[d])
  BY <1>1, <1>2, <1>3
<1>5. Trace(f.ref, f.of)
  BY <1>3 DEF Trace, DownTrace
<1>6. Success(f) => f.of \in answered
  BY <1>3 DEF IInv, Honest
<1>7. /\ f.kind = "text" => ParseData(Append(textBuffer, f)) /\ UNCHANGED buf
      /\ f.kind # "text" => BinaryData(f) /\ UNCHANGED <<textBuffer, connected>>
  BY DEF OnMessage
<1> HIDE DEF f
<1>8. ASSUME /\ textBuffer' \in Seq(Frame)
             /\ \A g \in Range(textBuffer') :
                  g \in Range(textBuffer) \/ (g = f /\ f.kind = "text"),
             waiter' \in [Refs -> Calls \cup {NoCall}],
             promise' \in [Calls -> PromiseState],
             buf' \in [Calls -> Nat], connected' \in BOOLEAN,
             \A i \in Refs : waiter'[i] \in {waiter[i], NoCall},
             EachPendingWaits'
      PROVE  IInv'
  <2>1. TypeOK'
    BY <1>2, <1>4, <1>8 DEF IInv, TypeOK, WireTypeOK, ClientTypeOK, SessionTypeOK
  <2>2. Honest'
    BY <1>2, <1>4, <1>6, <1>8 DEF IInv, Honest, Success
  <2>3. \A i \in Refs : \A k : Trace(i, k)' => Trace(i, k)
    BY <1>2, <1>4, <1>5, <1>8 DEF Trace, TextTrace, UpTrace, DownTrace, FileTrace
  <2> QED
    BY <1>8, <2>1, <2>2, <2>3, NoNewTraces DEF IInv
<1>9. CASE f.kind = "text"
  <2> DEFINE buffer == Append(textBuffer, f)
             h == Head(buffer)
  <2>1. /\ buffer \in Seq(Frame) /\ buffer # <<>>
        /\ Range(buffer) = Range(textBuffer) \cup {f}
    <3>1. buffer \in Seq(Frame) /\ Range(buffer) = Range(textBuffer) \cup {f}
      BY <1>1, <1>3, RangeAppend
    <3>2. buffer # <<>>
      BY <3>1, EmptyRange
    <3> QED
      BY <3>1, <3>2
  <2>2. ParseData(buffer) /\ UNCHANGED buf
    BY <1>7, <1>9
  <2>3. CASE h.wide
    <3>1. textBuffer' = buffer /\ UNCHANGED <<promise, waiter, connected>>
      BY <2>2, <2>3 DEF ParseData
    <3>2. EachPendingWaits'
      BY <3>1 DEF IInv, EachPendingWaits
    <3> HIDE DEF buffer
    <3> QED
      BY <1>1, <1>2, <1>8, <1>9, <2>1, <2>2, <3>1, <3>2
  <2>4. CASE ~h.wide
    <3>1. textBuffer' = Tail(buffer) /\ Consumed(h)
      BY <2>2, <2>4 DEF ParseData
    <3>2. UNCHANGED buf
      BY <2>2
    <3> HIDE DEF buffer
    <3>3. /\ h \in Frame /\ h \in Range(buffer)
          /\ Tail(buffer) \in Seq(Frame)
          /\ Range(Tail(buffer)) \subseteq Range(buffer)
      BY <2>1, RangeTail
    <3>4. Trace(h.ref, h.of)
      BY <1>5, <2>1, <3>3 DEF Trace, TextTrace
    <3>5. Success(h) => h.of \in answered
      BY <1>6, <2>1, <3>3 DEF IInv, Honest
    <3>6. h.kind = "text"
      BY <1>9, <2>1, <3>3 DEF IInv, Honest
    <3> HIDE DEF h
    <3>7. /\ textBuffer' \in Seq(Frame)
          /\ \A g \in Range(textBuffer') :
               g \in Range(textBuffer) \/ (g = f /\ f.kind = "text")
      BY <1>9, <2>1, <3>1, <3>3
    <3>8. CASE Awaited(h)
      <4> DEFINE v == IF h.ok THEN "resolved" ELSE "rejected"
      <4>1. Settled(h.ref, v)
        BY <3>1, <3>8 DEF Consumed
      <4>2. v = "resolved" => h.of \in answered
        BY <3>5, <3>6, <3>8 DEF Success, Awaited
      <4>3. v \in {"resolved", "rejected"}
        OBVIOUS
      <4> HIDE DEF v
      <4>4. /\ waiter' \in [Refs -> Calls \cup {NoCall}]
            /\ promise' \in [Calls -> PromiseState]
            /\ \A i \in Refs : waiter'[i] \in {waiter[i], NoCall}
            /\ EachPendingWaits'
            /\ Promises!Next
        BY <1>2, <3>3, <3>4, <3>8, <4>1, <4>2, <4>3, DeliverStep
      <4>5. connected' \in BOOLEAN
        BY <3>1, <3>8 DEF Consumed
      <4> QED
        BY <1>1, <1>8, <3>2, <3>7, <4>4, <4>5
    <3>9. CASE ~Awaited(h)
      <4>1. UNCHANGED <<promise, waiter, connected>>
        BY <3>1, <3>9 DEF Consumed
      <4>2. EachPendingWaits'
        BY <4>1 DEF IInv, EachPendingWaits
      <4> QED
        BY <1>1, <1>2, <1>8, <3>2, <3>7, <4>1, <4>2
    <3> QED
      BY <3>8, <3>9
  <2> QED
    BY <2>3, <2>4
<1>10. CASE f.kind # "text"
  <2>1. BinaryData(f) /\ UNCHANGED <<textBuffer, connected>>
    BY <1>7, <1>10
  <2>2. /\ textBuffer' \in Seq(Frame)
        /\ \A g \in Range(textBuffer') :
             g \in Range(textBuffer) \/ (g = f /\ f.kind = "text")
    BY <1>1, <2>1
  <2>3. CASE Awaited(f) /\ f.units = 0
    <3>1. Settled(f.ref, "resolved") /\ UNCHANGED buf
      BY <2>1, <2>3 DEF BinaryData
    <3>2. f.of \in answered
      BY <1>3, <1>10, <1>6, <2>3 DEF Success, Awaited
    <3>3. /\ waiter' \in [Refs -> Calls \cup {NoCall}]
          /\ promise' \in [Calls -> PromiseState]
          /\ \A i \in Refs : waiter'[i] \in {waiter[i], NoCall}
          /\ EachPendingWaits'
          /\ Promises!Next
      BY <1>2, <1>3, <1>5, <2>3, <3>1, <3>2, DeliverStep
    <3> QED
      BY <1>1, <1>8, <2>1, <2>2, <3>1, <3>3
  <2>4. CASE ~Awaited(f) \/ f.units # 0
    <3>1. UNCHANGED <<promise, waiter>>
      BY <2>1, <2>4 DEF BinaryData
    <3>2. buf' \in [Calls -> Nat]
      BY <1>1, <1>3, <2>1, <2>4 DEF BinaryData, Frame
    <3>3. EachPendingWaits'
      BY <3>1 DEF IInv, EachPendingWaits
    <3> QED
      BY <1>1, <1>2, <1>8, <2>1, <2>2, <3>1, <3>2, <3>3
  <2> QED
    BY <2>3, <2>4
<1> QED
  BY <1>9, <1>10

-----------------------------------------------------------------------------
(* Connections that come and go.                                           *)

LEMMA ConnectionStep ==
  ASSUME IInv, NEW c \in Conns,
         \/ Connect(c) /\ UNCHANGED sessionVars
         \/ OnClose(c) /\ UNCHANGED sessionVars
         \/ Break(c) /\ UNCHANGED <<clientVars, sessionVars>>
         \/ Accept(c) /\ UNCHANGED clientVars
         \/ EndSession(c) /\ UNCHANGED clientVars
         \/ OnSessionClose(c) /\ UNCHANGED clientVars
  PROVE  IInv' /\ UNCHANGED <<promise, answered>>
<1> USE WireAssumption
<1>1. UNCHANGED <<waiter, promise, textBuffer, answered>>
  BY DEF Connect, OnClose, Break, Accept, EndSession, OnSessionClose, sessionVars, clientVars
<1>2. /\ \A d \in Conns : up'[d] = up[d] \/ up'[d] = <<>>
      /\ \A d \in Conns : down'[d] = down[d] \/ down'[d] = <<>>
      /\ \A d \in Conns : writers'[d] = writers[d] \/ writers'[d] = {}
  BY DEF Connect, OnClose, Break, Accept, EndSession, OnSessionClose, sessionVars, clientVars,
         IInv, TypeOK, WireTypeOK, SessionTypeOK
<1>3. TypeOK'
  <2> USE EmptyRange DEF IInv, TypeOK, WireTypeOK, ClientTypeOK, SessionTypeOK
  <2>1. CASE Connect(c) /\ UNCHANGED sessionVars
    BY <2>1 DEF Connect, sessionVars
  <2>2. CASE OnClose(c) /\ UNCHANGED sessionVars
    BY <2>2 DEF OnClose, sessionVars
  <2>3. CASE Break(c) /\ UNCHANGED <<clientVars, sessionVars>>
    BY <2>3 DEF Break, clientVars, sessionVars
  <2>4. CASE Accept(c) /\ UNCHANGED clientVars
    BY <2>4 DEF Accept, clientVars, sessionVars
  <2>5. CASE EndSession(c) /\ UNCHANGED clientVars
    BY <2>5 DEF EndSession, clientVars, sessionVars
  <2>6. CASE OnSessionClose(c) /\ UNCHANGED clientVars
    BY <2>6 DEF OnSessionClose, clientVars
  <2> QED
    BY <2>1, <2>2, <2>3, <2>4, <2>5, <2>6
<1>4. EachPendingWaits'
  BY <1>1 DEF IInv, EachPendingWaits
<1>5. OwnTraces'
  <2>1. \A i \in Refs : \A k : Trace(i, k)' => Trace(i, k)
    BY <1>1, <1>2, EmptyRange DEF Trace, TextTrace, UpTrace, DownTrace, FileTrace
  <2> QED
    BY <1>1, <2>1, NoNewTraces DEF IInv
<1>6. Honest'
  BY <1>1, <1>2, EmptyRange DEF IInv, Honest, Success
<1> QED
  BY <1>1, <1>3, <1>4, <1>5, <1>6 DEF IInv

-----------------------------------------------------------------------------
(* The session.  A step of the session for call k, which came under ref i, *)
(* writes at most one frame, to k and under i, and a success only when it  *)
(* counts k as answered.                                                   *)

Writes(c, i, k) ==
  \/ down' = down
  \/ \E f \in Frame :
       /\ f.ref = i /\ f.of = k
       /\ Success(f) => k \in answered'
       /\ Send(c, f)

Replies(c, i, k) ==
  /\ Writes(c, i, k)
  /\ \A d \in Conns : \A w \in writers'[d] : w \in writers[d] \/ (w.ref = i /\ w.of = k)
  /\ answered' = answered \/ answered' = answered \cup {k}

LEMMA ReplyStep ==
  ASSUME IInv, NEW c \in Conns, NEW i, NEW k,
         i = NoRef \/ Trace(i, k), Replies(c, i, k), k \in Calls \/ answered' = answered,
         SessionTypeOK', UNCHANGED clientVars, UNCHANGED <<sock, peer, lost>>,
         up' \in [Conns -> Seq(Request)],
         \A d \in Conns : Range(up'[d]) \subseteq Range(up[d])
  PROVE  IInv' /\ (Promises!Next \/ UNCHANGED <<promise, answered>>)
<1> USE WireAssumption
<1>1. /\ UNCHANGED <<ws, replyId, waiter, date, promise, buf, textBuffer, connected, trying>>
      /\ UNCHANGED <<sock, peer, lost>>
  BY DEF clientVars
<1>2. down \in [Conns -> Seq(Frame)]
  BY DEF IInv, TypeOK, WireTypeOK
<1>3. /\ down' \in [Conns -> Seq(Frame)]
      /\ \A d \in Conns : \A f \in Range(down'[d]) :
           \/ f \in Range(down[d])
           \/ f.ref = i /\ f.of = k /\ (Success(f) => k \in answered')
  <2>1. CASE down' = down
    BY <1>2, <2>1
  <2>2. ASSUME NEW f \in Frame, f.ref = i, f.of = k,
               Success(f) => k \in answered', Send(c, f)
        PROVE  <1>3!1 /\ <1>3!2
    <3>1. /\ down' \in [Conns -> Seq(Frame)]
          /\ \A d \in Conns : Range(down'[d]) \subseteq Range(down[d]) \cup {f}
      BY <1>2, <2>2, WrittenQueues DEF Send
    <3> QED
      BY <2>2, <3>1
  <2> QED
    BY <2>1, <2>2 DEF Replies, Writes
<1>4. TypeOK'
  BY <1>1, <1>3 DEF IInv, TypeOK, WireTypeOK, ClientTypeOK
<1>5. EachPendingWaits'
  BY <1>1 DEF IInv, EachPendingWaits
<1>6. Honest'
  BY <1>1, <1>3 DEF IInv, Honest, Success, Replies
<1>7. OwnTraces'
  <2>1. NoRef \notin Refs
    BY DEF NoRef, Refs
  <2>2. ASSUME NEW j \in Refs, NEW l, Trace(j, l)'  PROVE Trace(j, l)
    <3>1. CASE j = i /\ l = k
      BY <2>1, <3>1
    <3>2. CASE ~(j = i /\ l = k)
      BY <1>1, <1>3, <2>2, <3>2 DEF Trace, TextTrace, UpTrace, DownTrace, FileTrace, Replies
    <3> QED
      BY <3>1, <3>2
  <2> QED
    BY <1>1, <2>2, NoNewTraces DEF IInv
<1>8. Promises!Next \/ UNCHANGED <<promise, answered>>
  <2>1. CASE answered' = answered
    BY <1>1, <2>1
  <2>2. CASE k \in Calls /\ answered' = answered \cup {k}
    BY <1>1, <2>2 DEF Promises!Next, Promises!Answer
  <2> QED
    BY <2>1, <2>2 DEF Replies
<1> QED
  BY <1>4, <1>5, <1>6, <1>7, <1>8 DEF IInv

(* The frames that the session writes are frames.                          *)
LEMMA BinaryType ==
  ASSUME NEW i \in Refs, NEW k \in Calls, NEW n \in Nat
  PROVE  /\ Binary(i, k, n) \in Frame
         /\ Binary(i, k, n).ref = i /\ Binary(i, k, n).of = k
         /\ Success(Binary(i, k, n)) => n = 0
  BY DEF Binary, Frame, Success

LEMMA ChunkSizeType ==
  ASSUME NEW left \in Nat
  PROVE  ChunkSize(left) \in Nat /\ left - ChunkSize(left) \in Nat
  BY SessionAssumption DEF ChunkSize

(* A chunk, sent by loadFile or by the completion of the one before: q is  *)
(* the request or the FileWriter.                                          *)
LEMMA ChunkReply ==
  ASSUME TypeOK, NEW c \in Conns, NEW q, q.ref \in Refs, q.of \in Requests,
         NEW left \in Nat, NEW others \in SUBSET writers[c],
         WriteChunk(c, q, left, others)
  PROVE  /\ Replies(c, q.ref, q.of)
         /\ writers' \in [Conns -> SUBSET Writer]
         /\ answered' \in SUBSET Calls
<1> DEFINE n == ChunkSize(left)
           f == Binary(q.ref, q.of, n)
           w == [ref |-> q.ref, of |-> q.of, left |-> left - n, full |-> n = BufferSize]
<1>1. n \in Nat /\ left - n \in Nat
  BY ChunkSizeType
<1>2. /\ Send(c, f)
      /\ answered' = IF n = 0 THEN answered \cup {q.of} ELSE answered
      /\ writers' = [writers EXCEPT ![c] = others \cup {w}]
  BY DEF WriteChunk, SendBinary
<1>3. w \in Writer /\ w.ref = q.ref /\ w.of = q.of
  BY <1>1 DEF Writer
<1> HIDE DEF n, w
<1>4. f \in Frame /\ f.ref = q.ref /\ f.of = q.of /\ (Success(f) => n = 0)
  BY <1>1, BinaryType DEF Calls
<1> HIDE DEF f
<1>5. writers \in [Conns -> SUBSET Writer] /\ answered \in SUBSET Calls
  BY DEF TypeOK, SessionTypeOK
<1>6. Writes(c, q.ref, q.of)
  BY <1>2, <1>4 DEF Writes
<1>7. \A d \in Conns : \A x \in writers'[d] : x \in writers[d] \/ x = w
  BY <1>2, <1>5
<1>8. writers' \in [Conns -> SUBSET Writer]
  <2>1. others \cup {w} \in SUBSET Writer
    BY <1>3, <1>5
  <2> QED
    BY <1>2, <1>5, <2>1
<1> QED
  BY <1>2, <1>3, <1>5, <1>6, <1>7, <1>8 DEF Replies, Calls

(* The empty frame behind the last chunk.                                  *)
LEMMA EndReply ==
  ASSUME TypeOK, NEW c \in Conns, NEW w \in writers[c], SendBinary(c, w, 0),
         writers' = [writers EXCEPT ![c] = @ \ {w}]
  PROVE  /\ Replies(c, w.ref, w.of)
         /\ writers' \in [Conns -> SUBSET Writer]
         /\ answered' \in SUBSET Calls
<1> DEFINE f == Binary(w.ref, w.of, 0)
<1>1. writers \in [Conns -> SUBSET Writer] /\ answered \in SUBSET Calls
  BY DEF TypeOK, SessionTypeOK
<1>2. w.ref \in Refs /\ w.of \in Requests
  BY <1>1 DEF Writer
<1>3. Send(c, f) /\ answered' = answered \cup {w.of}
  BY DEF SendBinary
<1>4. f \in Frame /\ f.ref = w.ref /\ f.of = w.of
  BY <1>2, BinaryType DEF Calls
<1> HIDE DEF f
<1>5. Writes(c, w.ref, w.of)
  BY <1>3, <1>4 DEF Writes
<1>6. \A d \in Conns : \A x \in writers'[d] : x \in writers[d]
  BY <1>1
<1> QED
  BY <1>1, <1>2, <1>3, <1>5, <1>6 DEF Replies, Calls

LEMMA FailReply ==
  ASSUME TypeOK, NEW c \in Conns, NEW q \in Request, Fail(c, q)
  PROVE  Replies(c, q.ref, q.of) /\ UNCHANGED <<root, writers, answered>>
<1>1. PICK w \in Widths : Send(c, Text(q.ref, q.of, FALSE, w))
  BY DEF Fail
<1>2. q.ref \in Refs /\ q.of \in Calls /\ w \in BOOLEAN
  BY SessionAssumption DEF Request
<1>3. /\ Text(q.ref, q.of, FALSE, w) \in Frame
      /\ Text(q.ref, q.of, FALSE, w).ref = q.ref /\ Text(q.ref, q.of, FALSE, w).of = q.of
      /\ ~Success(Text(q.ref, q.of, FALSE, w))
  BY <1>2 DEF Text, Frame, Success
<1>4. Writes(c, q.ref, q.of)
  BY <1>1, <1>3 DEF Writes
<1> QED
  BY <1>4 DEF Replies, Fail

LEMMA SucceedReply ==
  ASSUME TypeOK, NEW c \in Conns, NEW q \in Request, Succeed(c, q)
  PROVE  /\ Replies(c, q.ref, q.of) /\ UNCHANGED writers
         /\ answered' \in SUBSET Calls
<1>1. PICK w \in Widths : Send(c, Text(q.ref, q.of, TRUE, w))
  BY DEF Succeed
<1>2. q.ref \in Refs /\ q.of \in Calls /\ w \in BOOLEAN
  BY SessionAssumption DEF Request
<1>3. /\ Text(q.ref, q.of, TRUE, w) \in Frame
      /\ Text(q.ref, q.of, TRUE, w).ref = q.ref /\ Text(q.ref, q.of, TRUE, w).of = q.of
  BY <1>2 DEF Text, Frame, Success
<1>4. answered' = answered \cup {q.of} /\ UNCHANGED writers
  BY DEF Succeed
<1>5. Writes(c, q.ref, q.of)
  BY <1>1, <1>3, <1>4 DEF Writes
<1> QED
  BY <1>2, <1>4, <1>5 DEF Replies, TypeOK, SessionTypeOK

LEMMA DispatchReply ==
  ASSUME TypeOK, NEW c \in Conns, NEW q \in Request, Dispatch(c, q)
  PROVE  /\ Replies(c, q.ref, q.of)
         /\ root' \in [Conns -> BOOLEAN]
         /\ writers' \in [Conns -> SUBSET Writer]
         /\ answered' \in SUBSET Calls
<1>1. /\ root \in [Conns -> BOOLEAN] /\ writers \in [Conns -> SUBSET Writer]
      /\ answered \in SUBSET Calls
  BY DEF TypeOK, SessionTypeOK
<1>2. q.ref \in Refs /\ q.of \in Calls
  BY DEF Request
<1>3. CASE Throw
  <2>1. Writes(c, q.ref, q.of)
    BY <1>3 DEF Throw, Writes
  <2> QED
    BY <1>1, <1>3, <2>1 DEF Throw, Replies
<1>4. CASE Fail(c, q)
  BY <1>1, <1>4, FailReply
<1>5. CASE Succeed(c, q) /\ (UNCHANGED root \/ root' = [root EXCEPT ![c] = TRUE])
  BY <1>1, <1>5, SucceedReply
<1>6. CASE KindOf(q.of) = "loadFile"
  <2>1. q.of \in Requests
    BY <1>2, <1>6 DEF KindOf, Calls
  <2>2. LoadFile(c, q)
    BY <1>6 DEF Dispatch
  <2>3. CASE root[c] /\ WriteChunk(c, q, FileLength[q.of], writers[c]) /\ UNCHANGED root
    <3>1. FileLength[q.of] \in Nat
      BY <2>1, SessionAssumption
    <3> QED
      BY <1>1, <1>2, <2>1, <2>3, <3>1, ChunkReply
  <2> QED
    BY <1>3, <1>4, <2>2, <2>3 DEF LoadFile
<1>7. CASE KindOf(q.of) = "open"
  <2>1. CASE ThrowOpened(c)
    <3>1. Writes(c, q.ref, q.of)
      BY <2>1 DEF ThrowOpened, Writes
    <3> QED
      BY <1>1, <2>1, <3>1 DEF ThrowOpened, Replies
  <2> QED
    BY <1>3, <1>4, <1>5, <1>7, <2>1 DEF Dispatch, Open
<1>8. CASE KindOf(q.of) = "query"
  BY <1>3, <1>4, <1>5, <1>8 DEF Dispatch, Query
<1>9. CASE KindOf(q.of) \notin {"loadFile", "open", "query"}
  BY <1>3, <1>9 DEF Dispatch
<1> QED
  BY <1>6, <1>7, <1>8, <1>9

LEMMA AuthenticateReply ==
  ASSUME TypeOK, NEW c \in Conns, NEW q \in Request, Authenticate(c, q)
  PROVE  Replies(c, q.ref, q.of) /\ SessionTypeOK'
<1>1. SessionTypeOK
  BY DEF TypeOK
<1>2. UNCHANGED <<root, writers>>
  BY DEF Authenticate
<1>3. CASE UNCHANGED <<auth, greeting, answered, down>>
  BY <1>1, <1>2, <1>3 DEF Replies, Writes, SessionTypeOK
<1>4. CASE /\ auth' = [auth EXCEPT ![c] = TRUE]
           /\ greeting' = [greeting EXCEPT ![c] = "load"]
           /\ answered' = answered \cup {q.of}
           /\ Send(c, Text(q.ref, q.of, TRUE, FALSE))
  <2> DEFINE f == Text(q.ref, q.of, TRUE, FALSE)
  <2>1. q.ref \in Refs /\ q.of \in Calls
    BY DEF Request
  <2>2. f \in Frame /\ f.ref = q.ref /\ f.of = q.of
    BY <2>1 DEF Text, Frame
  <2>3. Writes(c, q.ref, q.of)
    BY <1>4, <2>2 DEF Writes
  <2> QED
    BY <1>1, <1>2, <1>4, <2>1, <2>3 DEF Replies, SessionTypeOK
<1> QED
  BY <1>3, <1>4 DEF Authenticate

LEMMA OnTextStep ==
  ASSUME IInv, NEW c \in Conns, OnText(c), UNCHANGED clientVars
  PROVE  IInv' /\ (Promises!Next \/ UNCHANGED <<promise, answered>>)
<1> DEFINE q == Head(up[c])
<1>1. up \in [Conns -> Seq(Request)] /\ SessionTypeOK /\ TypeOK
  BY DEF IInv, TypeOK, WireTypeOK
<1>2. up[c] # <<>> /\ up' = [up EXCEPT ![c] = Tail(@)] /\ UNCHANGED <<sock, peer, lost>>
  BY DEF OnText
<1>3. /\ q \in Request /\ q \in Range(up[c])
      /\ Tail(up[c]) \in Seq(Request) /\ Range(Tail(up[c])) \subseteq Range(up[c])
  BY <1>1, <1>2, RangeTail
<1>4. /\ up' \in [Conns -> Seq(Request)]
      /\ \A d \in Conns : Range(up'[d]) \subseteq Range(up[d])
  BY <1>1, <1>2, <1>3
<1>5. \/ Dispatch(c, q) /\ UNCHANGED <<auth, greeting>>
     \/ Authenticate(c, q)
  BY DEF OnText
<1> HIDE DEF q
<1>6. Replies(c, q.ref, q.of) /\ SessionTypeOK'
  <2>1. CASE Dispatch(c, q) /\ UNCHANGED <<auth, greeting>>
    BY <1>1, <1>3, <2>1, DispatchReply DEF SessionTypeOK
  <2>2. CASE Authenticate(c, q)
    BY <1>1, <1>3, <2>2, AuthenticateReply
  <2> QED
    BY <1>5, <2>1, <2>2
<1>7. Trace(q.ref, q.of)
  BY <1>3 DEF Trace, UpTrace
<1>8. q.of \in Calls
  BY <1>3 DEF Request
<1> QED
  BY <1>2, <1>4, <1>6, <1>7, <1>8, ReplyStep

LEMMA OnAfterAuthenticationStep ==
  ASSUME IInv, NEW c \in Conns, OnAfterAuthentication(c), UNCHANGED clientVars
  PROVE  IInv' /\ (Promises!Next \/ UNCHANGED <<promise, answered>>)
<1>1. PICK b \in BOOLEAN, w \in Widths :
        /\ Send(c, Event(b, w))
        /\ greeting' = [greeting EXCEPT ![c] = IF b THEN "none" ELSE "close"]
  BY DEF OnAfterAuthentication
<1>2. UNCHANGED <<sock, peer, lost, up, auth, root, writers, answered>>
  BY DEF OnAfterAuthentication
<1>3. /\ Event(b, w) \in Frame
      /\ Event(b, w).ref = NoRef /\ Event(b, w).of = NoCall
      /\ ~Success(Event(b, w))
  <2>1. w \in BOOLEAN /\ NoRef \notin Refs
    BY SessionAssumption DEF NoRef, Refs
  <2> QED
    BY <2>1 DEF Event, Text, Frame, Success
<1>4. Replies(c, NoRef, NoCall)
  BY <1>1, <1>2, <1>3 DEF Replies, Writes
<1>5. SessionTypeOK'
  BY <1>1, <1>2 DEF IInv, TypeOK, SessionTypeOK
<1>6. up' \in [Conns -> Seq(Request)]
  BY <1>2 DEF IInv, TypeOK, WireTypeOK
<1> QED
  BY <1>2, <1>4, <1>5, <1>6, ReplyStep

LEMMA OnChunkCompleteStep ==
  ASSUME IInv, NEW c \in Conns, OnChunkComplete(c), UNCHANGED clientVars
  PROVE  IInv' /\ (Promises!Next \/ UNCHANGED <<promise, answered>>)
<1>1. PICK w \in writers[c] :
        \/ WriteChunk(c, w, w.left, writers[c] \ {w})
        \/ SendBinary(c, w, 0) /\ writers' = [writers EXCEPT ![c] = @ \ {w}]
  BY DEF OnChunkComplete
<1>2. UNCHANGED <<sock, peer, lost, up, auth, greeting, root>>
  BY DEF OnChunkComplete
<1>3. TypeOK /\ SessionTypeOK /\ up' \in [Conns -> Seq(Request)]
  BY <1>2 DEF IInv, TypeOK, WireTypeOK
<1>4. w.ref \in Refs /\ w.of \in Requests /\ w.left \in Nat
  BY <1>3 DEF SessionTypeOK, Writer
<1>5. /\ Replies(c, w.ref, w.of)
      /\ writers' \in [Conns -> SUBSET Writer]
      /\ answered' \in SUBSET Calls
  BY <1>1, <1>3, <1>4, ChunkReply, EndReply
<1>6. SessionTypeOK'
  BY <1>2, <1>3, <1>5 DEF SessionTypeOK
<1>7. Trace(w.ref, w.of)
  BY DEF Trace, FileTrace
<1> QED
  BY <1>2, <1>3, <1>4, <1>5, <1>6, <1>7, ReplyStep DEF Calls

-----------------------------------------------------------------------------
(* The invariant, and what follows from it.                                *)

LEMMA InitInv == Init => IInv /\ Promises!Init
<1> SUFFICES ASSUME Init PROVE IInv /\ Promises!Init
  OBVIOUS
<1> USE WireAssumption, EmptyRange DEF Init, WireInit, ClientInit, SessionInit
<1>1. WireTypeOK
  BY DEF WireTypeOK
<1>2. ClientTypeOK
  <2>1. 0 \in Refs
    BY DEF Refs
  <2>2. textBuffer \in Seq(Frame)
    OBVIOUS
  <2>3. waiter \in [Refs -> Calls \cup {NoCall}]
    OBVIOUS
  <2> QED
    BY <2>1, <2>2, <2>3 DEF ClientTypeOK, PromiseState
<1>3. SessionTypeOK
  BY DEF SessionTypeOK
<1>4. EachPendingWaits
  BY DEF EachPendingWaits
<1>5. OwnTraces
  BY DEF OwnTraces
<1>6. Honest
  BY DEF Honest
<1>7. Promises!Init
  BY DEF Promises!Init
<1> QED
  BY <1>1, <1>2, <1>3, <1>4, <1>5, <1>6, <1>7 DEF IInv, TypeOK

LEMMA NextInv ==
  IInv /\ [Next]_vars => IInv' /\ [Promises!Next]_(Promises!vars)
<1> SUFFICES ASSUME IInv, [Next]_vars
             PROVE  IInv' /\ (Promises!Next \/ UNCHANGED <<promise, answered>>)
  BY DEF Promises!vars
<1>1. ASSUME NEW k \in Requests, RefIsFree, Call(k), UNCHANGED sessionVars
      PROVE  IInv' /\ Promises!Next
  BY <1>1, CallStep DEF Promises!Next, Calls
<1>2. ASSUME NEW c \in Conns, RefIsFree, OnOpen(c), UNCHANGED sessionVars
      PROVE  IInv' /\ Promises!Next
  BY <1>2, OnOpenStep DEF Promises!Next, Calls
<1>3. CASE Timer
  <2>1. PICK k \in Calls : Sweep(date[k]) /\ UNCHANGED sessionVars
    BY <1>3 DEF Timer
  <2>2. date[k] \in Nat
    BY DEF IInv, TypeOK, ClientTypeOK
  <2> QED
    BY <2>1, <2>2, SweepStep DEF Promises!Next
<1>4. ASSUME NEW c \in Conns, OnMessage(c), UNCHANGED sessionVars
      PROVE  IInv' /\ (Promises!Next \/ UNCHANGED <<promise, answered>>)
  BY <1>4, OnMessageStep
<1>5. ASSUME NEW c \in Conns,
             \/ Connect(c) /\ UNCHANGED sessionVars
             \/ OnClose(c) /\ UNCHANGED sessionVars
             \/ Break(c) /\ UNCHANGED <<clientVars, sessionVars>>
             \/ Accept(c) /\ UNCHANGED clientVars
             \/ EndSession(c) /\ UNCHANGED clientVars
             \/ OnSessionClose(c) /\ UNCHANGED clientVars
      PROVE  IInv' /\ UNCHANGED <<promise, answered>>
  BY <1>5, ConnectionStep
<1>6. ASSUME NEW c \in Conns, UNCHANGED clientVars,
             OnText(c) \/ OnAfterAuthentication(c) \/ OnChunkComplete(c)
      PROVE  IInv' /\ (Promises!Next \/ UNCHANGED <<promise, answered>>)
  BY <1>6, OnTextStep, OnAfterAuthenticationStep, OnChunkCompleteStep
<1>7. CASE UNCHANGED vars
  <2>1. UNCHANGED <<wireVars, clientVars, sessionVars>>
    BY <1>7 DEF vars
  <2>2. TypeOK'
    BY <2>1 DEF IInv, TypeOK, WireTypeOK, ClientTypeOK, SessionTypeOK,
                wireVars, clientVars, sessionVars
  <2>3. EachPendingWaits' /\ Honest'
    BY <2>1 DEF IInv, EachPendingWaits, Honest, Success, wireVars, clientVars, sessionVars
  <2>4. OwnTraces'
    BY <2>1 DEF IInv, OwnTraces, Trace, TextTrace, UpTrace, DownTrace, FileTrace,
                wireVars, clientVars, sessionVars
  <2> QED
    BY <2>1, <2>2, <2>3, <2>4 DEF IInv, clientVars, sessionVars
<1>8. CASE UserAction
  BY <1>1, <1>5, <1>8 DEF UserAction
<1>9. ASSUME NEW c \in Conns, ClientEvent(c)
      PROVE  IInv' /\ (Promises!Next \/ UNCHANGED <<promise, answered>>)
  BY <1>2, <1>4, <1>5, <1>9 DEF ClientEvent
<1>10. ASSUME NEW c \in Conns, SessionEvent(c)
       PROVE  IInv' /\ (Promises!Next \/ UNCHANGED <<promise, answered>>)
  BY <1>5, <1>6, <1>10 DEF SessionEvent
<1>11. CASE Loss
  BY <1>5, <1>11 DEF Loss
<1> QED
  BY <1>3, <1>7, <1>8, <1>9, <1>10, <1>11 DEF Next

LEMMA Invariance == Spec => []IInv
<1>1. Init => IInv
  BY InitInv
<1>2. IInv /\ [Next]_vars => IInv'
  BY NextInv
<1> QED
  BY <1>1, <1>2, PTL DEF Spec

(* Every variable of both ends stays within its type, whatever the number  *)
(* of connections and calls and whatever the refs wrap at.                 *)
THEOREM TypeCorrect == Spec => []TypeOK
<1>1. IInv => TypeOK
  BY DEF IInv
<1> QED
  BY <1>1, Invariance, PTL

(* replyWaiter and the promises of the API agree in every state: each      *)
(* pending promise is found under exactly one ref.                         *)
THEOREM PendingCorrect == Spec => []EachPendingWaits
<1>1. IInv => EachPendingWaits
  BY DEF IInv
<1> QED
  BY <1>1, Invariance, PTL

(* No message under way reaches a caller that it does not answer, across   *)
(* timeouts, reconnections and reuse of refs.                              *)
THEOREM OwnReplyCorrect == Spec => []OwnReply
<1>1. IInv => OwnReply
  BY DEF IInv, OwnTraces, OwnReply, Trace, TextTrace, UpTrace, DownTrace, FileTrace
<1> QED
  BY <1>1, Invariance, PTL

(* The protocol implements the safety of the abstract API: each promise is *)
(* settled once and resolved only when its own call has been answered.     *)
THEOREM Refinement == Spec => ImplementsPromises
<1>1. Init => Promises!Init
  BY InitInv
<1>2. IInv /\ [Next]_vars => [Promises!Next]_(Promises!vars)
  BY NextInv
<1> QED
  BY <1>1, <1>2, Invariance, PTL DEF Spec, ImplementsPromises, Promises!Safety

-----------------------------------------------------------------------------
(* What a connected frontend may rely on.                                  *)

(* An authenticate call is only told of success on a connection whose      *)
(* session has accepted the user.                                          *)
AuthSent ==
  \A c \in Conns : \A f \in Range(down[c]) :
    f.kind = "text" /\ f.ok /\ f.of \in Conns => auth[c]

LinkInv == TextKeepsUp /\ AuthSent /\ ConnectedIsBacked

(* The new text is the only one in the buffer, or stays behind a wide one. *)
LEMMA ParsedHead ==
  ASSUME TextKeepsUp, textBuffer \in Seq(Frame), NEW f \in Frame
  PROVE  LET buffer == Append(textBuffer, f)
         IN  /\ ~Head(buffer).wide => Head(buffer) = f /\ Tail(buffer) = <<>>
             /\ buffer # <<>>
<1>1. CASE textBuffer = <<>>
  BY <1>1
<1>2. CASE textBuffer # <<>>
  <2>1. Head(textBuffer).wide
    BY <1>2 DEF TextKeepsUp
  <2>2. Head(Append(textBuffer, f)) = Head(textBuffer) /\ Append(textBuffer, f) # <<>>
    BY <1>2
  <2> QED
    BY <2>1, <2>2
<1> QED
  BY <1>1, <1>2

LEMMA OnMessageLink ==
  ASSUME IInv, LinkInv, NEW c \in Conns, OnMessage(c), UNCHANGED sessionVars
  PROVE  LinkInv'
<1> DEFINE f == Head(down[c])
           buffer == Append(textBuffer, f)
<1>1. /\ down \in [Conns -> Seq(Frame)] /\ textBuffer \in Seq(Frame)
      /\ connected \in BOOLEAN
  BY DEF IInv, TypeOK, WireTypeOK, ClientTypeOK
<1>2. /\ sock[c] = "open" /\ down[c] # <<>>
      /\ down' = [down EXCEPT ![c] = Tail(@)]
      /\ UNCHANGED <<sock, auth>>
  BY DEF OnMessage, sessionVars
<1>3. /\ f \in Frame /\ f \in Range(down[c])
      /\ \A d \in Conns : Range(down'[d]) \subseteq Range(down[d])
  BY <1>1, <1>2, RangeTail
<1>4. /\ f.kind = "text" => ParseData(buffer)
      /\ f.kind # "text" => UNCHANGED <<textBuffer, connected>>
  BY DEF OnMessage
<1>5. AuthSent'
  BY <1>2, <1>3 DEF LinkInv, AuthSent
<1>6. /\ ~Head(buffer).wide => Head(buffer) = f /\ Tail(buffer) = <<>>
      /\ buffer # <<>>
  BY <1>1, <1>3, ParsedHead DEF LinkInv
<1> HIDE DEF f, buffer
<1>7. CASE f.kind # "text"
  BY <1>2, <1>4, <1>5, <1>7 DEF LinkInv, TextKeepsUp, ConnectedIsBacked
<1>8. CASE f.kind = "text" /\ Head(buffer).wide
  <2>1. textBuffer' = buffer /\ UNCHANGED connected
    BY <1>4, <1>8 DEF ParseData
  <2> QED
    BY <1>2, <1>5, <1>8, <2>1 DEF LinkInv, TextKeepsUp, ConnectedIsBacked
<1>9. CASE f.kind = "text" /\ ~Head(buffer).wide
  <2>1. textBuffer' = <<>> /\ Consumed(f)
    BY <1>4, <1>6, <1>9 DEF ParseData
  <2>2. ASSUME connected', ~connected
        PROVE  auth[c]
    <3>1. Awaited(f) /\ f.ok /\ waiter[f.ref] \in Conns
      BY <2>1, <2>2 DEF Consumed
    <3>2. Trace(f.ref, f.of) /\ f.ref \in Refs /\ waiter[f.ref] # NoCall
      BY <1>3, <3>1 DEF Awaited, Trace, DownTrace
    <3>3. f.of = waiter[f.ref]
      BY <3>2 DEF IInv, OwnTraces
    <3> QED
      BY <1>3, <1>9, <3>1, <3>3 DEF LinkInv, AuthSent
  <2> QED
    BY <1>2, <1>5, <2>1, <2>2 DEF LinkInv, TextKeepsUp, ConnectedIsBacked
<1> QED
  BY <1>7, <1>8, <1>9

(* A session writes the success of an authentication when it accepts it.   *)
LEMMA OnTextAuth ==
  ASSUME IInv, AuthSent, NEW c \in Conns, OnText(c)
  PROVE  AuthSent' /\ \A d \in Conns : auth[d] => auth'[d]
<1> USE WireAssumption
<1> DEFINE q == Head(up[c])
<1>1. /\ down \in [Conns -> Seq(Frame)] /\ up \in [Conns -> Seq(Request)]
      /\ auth \in [Conns -> BOOLEAN]
  BY DEF IInv, TypeOK, WireTypeOK, SessionTypeOK
<1>2. q \in Request
  BY <1>1, RangeTail DEF OnText
<1>3. \/ /\ KindOf(q.of) # "authenticate"
         /\ Dispatch(c, q) /\ UNCHANGED <<auth, greeting>>
      \/ Authenticate(c, q)
  BY DEF OnText
<1> HIDE DEF q
<1>4. q.ref \in Refs /\ q.of \in Calls
  BY <1>2 DEF Request
<1>5. ASSUME NEW f \in Frame, Send(c, f),
             f.kind = "text" /\ f.ok /\ f.of \in Conns => auth'[c],
             \A d \in Conns : auth[d] => auth'[d]
      PROVE  AuthSent'
  <2>1. \A d \in Conns : Range(down'[d]) \subseteq Range(down[d]) \cup {f}
    BY <1>1, <1>5, WrittenQueues DEF Send
  <2>2. \A d \in Conns : d # c => down'[d] = down[d]
    BY <1>1, <1>5 DEF Send, Written
  <2> QED
    BY <1>5, <2>1, <2>2 DEF AuthSent
<1>6. CASE Authenticate(c, q)
  <2>1. CASE UNCHANGED <<auth, greeting, answered, down>>
    BY <2>1 DEF AuthSent
  <2>2. CASE auth' = [auth EXCEPT ![c] = TRUE] /\ Send(c, Text(q.ref, q.of, TRUE, FALSE))
    <3>1. Text(q.ref, q.of, TRUE, FALSE) \in Frame
      BY <1>4 DEF Text, Frame
    <3> QED
      BY <1>1, <1>5, <2>2, <3>1
  <2> QED
    BY <1>6, <2>1, <2>2 DEF Authenticate
<1>7. CASE /\ KindOf(q.of) # "authenticate"
           /\ Dispatch(c, q) /\ UNCHANGED <<auth, greeting>>
  <2>1. q.of \notin Conns
    BY <1>7 DEF KindOf
  <2>2. \/ Fail(c, q) \/ Throw \/ ThrowOpened(c) \/ Succeed(c, q)
        \/ q.of \in Requests /\ WriteChunk(c, q, FileLength[q.of], writers[c])
    BY <1>4, <1>7, <2>1 DEF Dispatch, Open, Query, LoadFile, Calls
  <2>3. CASE Throw \/ ThrowOpened(c)
    BY <1>7, <2>3 DEF Throw, ThrowOpened, AuthSent
  <2>4. CASE \E b \in BOOLEAN, w \in Widths : Send(c, Text(q.ref, q.of, b, w))
    <3>1. PICK b \in BOOLEAN, w \in Widths : Send(c, Text(q.ref, q.of, b, w))
      BY <2>4
    <3>2. /\ Text(q.ref, q.of, b, w) \in Frame
          /\ Text(q.ref, q.of, b, w).of = q.of
      BY <1>4, SessionAssumption DEF Text, Frame
    <3> QED
      BY <1>5, <1>7, <2>1, <3>1, <3>2
  <2>5. CASE q.of \in Requests /\ WriteChunk(c, q, FileLength[q.of], writers[c])
    <3>1. PICK n : n = ChunkSize(FileLength[q.of])
      OBVIOUS
    <3>2. n \in Nat
      BY <2>5, <3>1, ChunkSizeType, SessionAssumption
    <3>3. Binary(q.ref, q.of, n) \in Frame /\ Binary(q.ref, q.of, n).of = q.of
      BY <1>4, <3>2, BinaryType
    <3>4. Send(c, Binary(q.ref, q.of, n))
      BY <2>5, <3>1 DEF WriteChunk, SendBinary
    <3> QED
      BY <1>5, <1>7, <2>1, <3>3, <3>4
  <2> QED
    BY <1>7, <2>2, <2>3, <2>4, <2>5 DEF Fail, Succeed
<1> QED
  BY <1>3, <1>6, <1>7

(* The other frames of a session are no success of an authentication.      *)
LEMMA CompletionAuth ==
  ASSUME IInv, AuthSent, NEW c \in Conns,
         OnAfterAuthentication(c) \/ OnChunkComplete(c)
  PROVE  AuthSent'
<1> USE WireAssumption
<1>1. /\ down \in [Conns -> Seq(Frame)] /\ writers \in [Conns -> SUBSET Writer]
  BY DEF IInv, TypeOK, WireTypeOK, SessionTypeOK
<1>2. UNCHANGED auth
  BY DEF OnAfterAuthentication, OnChunkComplete
<1>3. \E f \in Frame : Send(c, f) /\ f.of \notin Conns
  <2>1. CASE OnAfterAuthentication(c)
    <3>1. PICK b \in BOOLEAN, w \in Widths : Send(c, Event(b, w))
      BY <2>1 DEF OnAfterAuthentication
    <3>2. Event(b, w) \in Frame /\ Event(b, w).of = NoCall
      BY SessionAssumption DEF Event, Text, Frame
    <3> QED
      BY <3>1, <3>2 DEF Calls
  <2>2. CASE OnChunkComplete(c)
    <3>1. PICK w \in writers[c] :
            WriteChunk(c, w, w.left, writers[c] \ {w}) \/ SendBinary(c, w, 0)
      BY <2>2 DEF OnChunkComplete
    <3>2. w.ref \in Refs /\ w.of \in Requests /\ w.left \in Nat
      BY <1>1 DEF Writer
    <3>3. PICK n \in Nat : SendBinary(c, w, n)
      BY <3>1, <3>2, ChunkSizeType DEF WriteChunk
    <3>4. Binary(w.ref, w.of, n) \in Frame /\ Binary(w.ref, w.of, n).of = w.of
      BY <3>2, BinaryType DEF Calls
    <3> QED
      BY <3>2, <3>3, <3>4 DEF SendBinary
  <2> QED
    BY <2>1, <2>2
<1>4. PICK f \in Frame : Send(c, f) /\ f.of \notin Conns
  BY <1>3
<1>5. \A d \in Conns : Range(down'[d]) \subseteq Range(down[d]) \cup {f}
  BY <1>1, <1>4, WrittenQueues DEF Send
<1> QED
  BY <1>2, <1>4, <1>5 DEF AuthSent

LEMMA NextLink == IInv /\ LinkInv /\ [Next]_vars => LinkInv'
<1> SUFFICES ASSUME IInv, LinkInv, [Next]_vars PROVE LinkInv'
  OBVIOUS
<1>1. CASE \E c \in Conns : OnMessage(c) /\ UNCHANGED sessionVars
  BY <1>1, OnMessageLink
<1>2. CASE ~ \E c \in Conns : OnMessage(c) /\ UNCHANGED sessionVars
  <2>1. UNCHANGED textBuffer
    BY <1>2 DEF Next, UserAction, ClientEvent, SessionEvent, Timer, Loss, vars, clientVars,
       Call, Connect, OnOpen, OnClose, Sweep
  <2>2. UNCHANGED connected \/ connected' = FALSE
    BY <1>2 DEF Next, UserAction, ClientEvent, SessionEvent, Timer, Loss, vars, clientVars,
       Call, Connect, OnOpen, OnClose, Sweep
  <2>3. CASE \E c \in Conns : OnText(c) /\ UNCHANGED clientVars
    <3>1. PICK c \in Conns : OnText(c) /\ UNCHANGED clientVars
      BY <2>3
    <3>2. AuthSent' /\ \A d \in Conns : auth[d] => auth'[d]
      BY <3>1, OnTextAuth DEF LinkInv
    <3>3. UNCHANGED <<sock, connected, textBuffer>>
      BY <3>1 DEF OnText, clientVars
    <3> QED
      BY <3>2, <3>3 DEF LinkInv, TextKeepsUp, ConnectedIsBacked
  <2>4. CASE ~ \E c \in Conns : OnText(c) /\ UNCHANGED clientVars
    <3>1. UNCHANGED auth
      BY <1>2, <2>4 DEF Next, UserAction, ClientEvent, SessionEvent, Timer, Loss, vars,
         sessionVars, OnAfterAuthentication, EndSession, OnChunkComplete, Accept, OnSessionClose
    <3>2. AuthSent'
      <4>1. CASE \E c \in Conns : OnAfterAuthentication(c) \/ OnChunkComplete(c)
        BY <4>1, CompletionAuth DEF LinkInv
      <4>2. CASE ~ \E c \in Conns : OnAfterAuthentication(c) \/ OnChunkComplete(c)
        <5>1. down \in [Conns -> Seq(Frame)]
          BY DEF IInv, TypeOK, WireTypeOK
        <5>2. \A d \in Conns : down'[d] = down[d] \/ down'[d] = <<>>
          BY <1>2, <2>4, <4>2, <5>1 DEF Next, UserAction, ClientEvent, SessionEvent, Timer,
             Loss, vars, wireVars, Call, Connect, OnOpen, OnClose, Sweep, Break, Accept, EndSession,
             OnSessionClose
        <5> QED
          BY <3>1, <5>2, EmptyRange DEF LinkInv, AuthSent
      <4> QED
        BY <4>1, <4>2
    <3>3. connected' = FALSE \/ \A d \in Conns : sock[d] = "open" => sock'[d] = "open"
      <4>1. sock \in [Conns -> {"none", "connecting", "open", "closed"}]
        BY DEF IInv, TypeOK, WireTypeOK
      <4> QED
        BY <1>2, <2>4, <4>1 DEF Next, UserAction, ClientEvent, SessionEvent, Timer, Loss, vars,
           wireVars, Call, Connect, OnOpen, OnClose, Sweep, Break, Accept, EndSession, OnSessionClose,
           OnAfterAuthentication, OnChunkComplete
    <3> QED
      BY <2>1, <2>2, <3>1, <3>2, <3>3 DEF LinkInv, TextKeepsUp, ConnectedIsBacked
  <2> QED
    BY <2>3, <2>4
<1> QED
  BY <1>1, <1>2

LEMMA LinkInvariance == Spec => []LinkInv
<1>1. Init => LinkInv
  BY EmptyRange DEF Init, WireInit, ClientInit, LinkInv, TextKeepsUp, AuthSent, ConnectedIsBacked
<1> QED
  BY <1>1, NextLink, Invariance, PTL DEF Spec

(* Taking one message per event keeps up with the texts that arrive: what  *)
(* stays in textBuffer is behind a message with wide characters.           *)
THEOREM TextKeepsUpCorrect == Spec => []TextKeepsUp
<1>1. LinkInv => TextKeepsUp
  BY DEF LinkInv
<1> QED
  BY <1>1, LinkInvariance, PTL

(* backend.connected stands for an open socket on which the session has    *)
(* accepted the user, however many connections were dialled and lost.      *)
THEOREM ConnectedCorrect == Spec => []ConnectedIsBacked
<1>1. LinkInv => ConnectedIsBacked
  BY DEF LinkInv
<1> QED
  BY <1>1, LinkInvariance, PTL

-----------------------------------------------------------------------------
(* Where the data of a file is.  Call k loads a file: b units have arrived, *)
(* the frames s are on their way, and n units are out when all have        *)
(* arrived.                                                                *)

Units(k, f) == IF f.kind = "binary" /\ f.of = k THEN f.units ELSE 0
IsEnd(k, f) == f.kind = "binary" /\ f.of = k /\ f.units = 0

(* off[p]: the units that have arrived before the p-th frame is taken.  An *)
(* end is only taken when that is the whole file.                          *)
Offsets(k, s, off) ==
  \A p \in 1 .. Len(s) :
    /\ off[p + 1] = off[p] + Units(k, s[p])
    /\ IsEnd(k, s[p]) => off[p] = FileLength[k]

Carries(k, s, b, n) ==
  \E off \in [1 .. Len(s) + 1 -> Nat] :
    off[1] = b /\ off[Len(s) + 1] = n /\ Offsets(k, s, off)

LEMMA UnitsType ==
  ASSUME NEW f \in Frame, NEW k
  PROVE  Units(k, f) \in Nat
  BY DEF Units, Frame

LEMMA CarriesNothing ==
  ASSUME NEW s \in Seq(Frame), NEW k, \A f \in Range(s) : f.of # k, NEW b \in Nat
  PROVE  Carries(k, s, b, b)
<1> DEFINE off == [p \in 1 .. Len(s) + 1 |-> b]
<1>1. Len(s) \in Nat /\ \A p \in 1 .. Len(s) : s[p] \in Range(s)
  BY LenProperties DEF Range
<1>2. off \in [1 .. Len(s) + 1 -> Nat] /\ off[1] = b /\ off[Len(s) + 1] = b
  BY <1>1
<1>3. ASSUME NEW p \in 1 .. Len(s)
      PROVE  off[p + 1] = off[p] + Units(k, s[p]) /\ ~IsEnd(k, s[p])
  <2>1. s[p].of # k
    BY <1>1
  <2>2. Units(k, s[p]) = 0 /\ ~IsEnd(k, s[p])
    BY <2>1 DEF Units, IsEnd
  <2>3. off[p + 1] = b /\ off[p] = b
    BY <1>1
  <2> HIDE DEF off
  <2> QED
    BY <2>2, <2>3
<1>4. Offsets(k, s, off)
  BY <1>3 DEF Offsets
<1> HIDE DEF off
<1> QED
  BY <1>2, <1>4 DEF Carries

(* A frame more behind the others, sent when n units are out before it.    *)
LEMMA CarriesAppend ==
  ASSUME NEW s \in Seq(Frame), NEW k, NEW b \in Nat, NEW n \in Nat, Carries(k, s, b, n),
         NEW f \in Frame, IsEnd(k, f) => n = FileLength[k]
  PROVE  Carries(k, Append(s, f), b, n + Units(k, f))
<1>1. PICK off \in [1 .. Len(s) + 1 -> Nat] :
        off[1] = b /\ off[Len(s) + 1] = n /\ Offsets(k, s, off)
  BY DEF Carries
<1>2. PICK u \in Nat : u = Units(k, f)
  BY UnitsType
<1>3. PICK m \in Nat : m = Len(s)
  BY LenProperties
<1>4. PICK t : t = Append(s, f)
  OBVIOUS
<1>5. Len(t) = m + 1 /\ t[m + 1] = f /\ \A p \in 1 .. m : t[p] = s[p]
  BY <1>3, <1>4, AppendProperties
<1> DEFINE o == [p \in 1 .. m + 2 |-> IF p = m + 2 THEN n + u ELSE off[p]]
<1>6. o \in [1 .. Len(t) + 1 -> Nat] /\ o[1] = b /\ o[Len(t) + 1] = n + u
  BY <1>1, <1>3, <1>5
<1>7. ASSUME NEW p \in 1 .. m + 1
      PROVE  /\ o[p + 1] = o[p] + Units(k, t[p])
             /\ IsEnd(k, t[p]) => o[p] = FileLength[k]
  <2>1. CASE p = m + 1
    <3>1. o[p] = n /\ o[p + 1] = n + u
      BY <1>1, <1>3, <2>1
    <3> HIDE DEF o
    <3> QED
      BY <1>2, <1>5, <2>1, <3>1
  <2>2. CASE p \in 1 .. m
    <3>1. o[p] = off[p] /\ o[p + 1] = off[p + 1]
      BY <1>3, <2>2
    <3> HIDE DEF o
    <3> QED
      BY <1>1, <1>3, <1>5, <2>2, <3>1 DEF Offsets
  <2> QED
    BY <2>1, <2>2
<1>8. Offsets(k, t, o)
  BY <1>5, <1>7 DEF Offsets
<1> HIDE DEF o
<1>9. Carries(k, t, b, n + u)
  BY <1>6, <1>8 DEF Carries
<1> QED
  BY <1>2, <1>4, <1>9

(* The first frame is taken.                                               *)
LEMMA CarriesTail ==
  ASSUME NEW s \in Seq(Frame), s # <<>>, NEW k, NEW b \in Nat, NEW n \in Nat,
         Carries(k, s, b, n)
  PROVE  /\ Carries(k, Tail(s), b + Units(k, Head(s)), n)
         /\ IsEnd(k, Head(s)) => b = FileLength[k]
<1>1. PICK off \in [1 .. Len(s) + 1 -> Nat] :
        off[1] = b /\ off[Len(s) + 1] = n /\ Offsets(k, s, off)
  BY DEF Carries
<1>2. PICK t : t = Tail(s)
  OBVIOUS
<1>3. PICK m \in Nat : m = Len(t)
  BY <1>2, LenProperties, HeadTailProperties
<1>4. Len(s) = m + 1 /\ Head(s) = s[1] /\ \A p \in 1 .. m : t[p] = s[p + 1]
  BY <1>2, <1>3, HeadTailProperties, LenProperties, EmptySeq
<1>5. /\ off[2] = b + Units(k, Head(s))
      /\ IsEnd(k, Head(s)) => b = FileLength[k]
  BY <1>1, <1>4 DEF Offsets
<1> DEFINE o == [p \in 1 .. m + 1 |-> off[p + 1]]
<1>6. o \in [1 .. Len(t) + 1 -> Nat] /\ o[1] = off[2] /\ o[Len(t) + 1] = n
  BY <1>1, <1>3, <1>4
<1>7. ASSUME NEW p \in 1 .. m
      PROVE  /\ o[p + 1] = o[p] + Units(k, t[p])
             /\ IsEnd(k, t[p]) => o[p] = FileLength[k]
  <2>1. o[p] = off[p + 1] /\ o[p + 1] = off[p + 2]
    OBVIOUS
  <2>2. p + 1 \in 1 .. Len(s) /\ t[p] = s[p + 1] /\ (p + 1) + 1 = p + 2
    BY <1>4
  <2> HIDE DEF o
  <2> QED
    BY <1>1, <2>1, <2>2 DEF Offsets
<1>8. Offsets(k, t, o)
  BY <1>3, <1>7 DEF Offsets
<1> HIDE DEF o
<1>9. Carries(k, t, b + Units(k, Head(s)), n)
  BY <1>5, <1>6, <1>8 DEF Carries
<1> QED
  BY <1>2, <1>5, <1>9

(* A call that is in a queue of requests once.                             *)
Once(k, s) == \A p, q \in 1 .. Len(s) : s[p].of = k /\ s[q].of = k => p = q

LEMMA OnceTail ==
  ASSUME NEW s \in Seq(Request), s # <<>>, NEW k, Once(k, s)
  PROVE  /\ Once(k, Tail(s))
         /\ Head(s).of = k => \A q \in Range(Tail(s)) : q.of # k
<1>1. PICK t : t = Tail(s)
  OBVIOUS
<1>2. PICK m \in Nat : m = Len(t)
  BY <1>1, LenProperties, HeadTailProperties
<1>3. /\ Len(s) = m + 1 /\ Head(s) = s[1] /\ \A p \in 1 .. m : t[p] = s[p + 1]
      /\ Range(t) = {t[p] : p \in 1 .. m}
  <2>1. t \in Seq(Request) /\ Len(s) \in Nat \ {0}
    BY <1>1, HeadTailProperties, LenProperties, EmptySeq
  <2>2. DOMAIN t = 1 .. m
    BY <1>2, <2>1, LenProperties
  <2>3. Range(t) = {t[p] : p \in 1 .. m}
    BY <2>2 DEF Range
  <2>4. Len(s) = m + 1 /\ Head(s) = s[1] /\ \A p \in 1 .. m : t[p] = s[p + 1]
    BY <1>1, <1>2, <2>1, HeadTailProperties
  <2> QED
    BY <2>3, <2>4
<1>4. ASSUME NEW p \in 1 .. m, NEW q \in 1 .. m, t[p].of = k, t[q].of = k
      PROVE  p = q
  <2>1. p + 1 \in 1 .. Len(s) /\ q + 1 \in 1 .. Len(s) /\ s[p + 1].of = k /\ s[q + 1].of = k
    BY <1>3, <1>4
  <2>2. p + 1 = q + 1
    BY <2>1 DEF Once
  <2> QED
    BY <2>2
<1>5. ASSUME NEW p \in 1 .. m, s[1].of = k, t[p].of = k
      PROVE  FALSE
  <2>1. 1 \in 1 .. Len(s) /\ p + 1 \in 1 .. Len(s) /\ s[p + 1].of = k
    BY <1>3, <1>5
  <2>2. 1 = p + 1
    BY <1>5, <2>1 DEF Once
  <2> QED
    BY <2>2
<1> QED
  BY <1>1, <1>2, <1>3, <1>4, <1>5 DEF Once

LEMMA OnceAppend ==
  ASSUME NEW s \in Seq(Request), NEW k, NEW e \in Request,
         \/ Once(k, s) /\ e.of # k
         \/ \A q \in Range(s) : q.of # k
  PROVE  Once(k, Append(s, e))
<1>1. PICK t : t = Append(s, e)
  OBVIOUS
<1>2. PICK m \in Nat : m = Len(s)
  BY LenProperties
<1>3. /\ Len(t) = m + 1 /\ t[m + 1] = e /\ \A p \in 1 .. m : t[p] = s[p]
      /\ \A p \in 1 .. m : s[p] \in Range(s)
  BY <1>1, <1>2, AppendProperties, LenProperties DEF Range
<1>4. ASSUME NEW p \in 1 .. m + 1, NEW q \in 1 .. m + 1, t[p].of = k, t[q].of = k
      PROVE  p = q
  <2>1. CASE Once(k, s) /\ e.of # k
    <3>1. p \in 1 .. m /\ q \in 1 .. m
      BY <1>3, <1>4, <2>1
    <3> QED
      BY <1>2, <1>3, <1>4, <2>1, <3>1 DEF Once
  <2>2. CASE \A x \in Range(s) : x.of # k
    <3>1. \A x \in 1 .. m : t[x].of # k
      BY <1>3, <2>2
    <3> QED
      BY <1>4, <3>1
  <2> QED
    BY <2>1, <2>2
<1> QED
  BY <1>1, <1>3, <1>4 DEF Once

LEMMA OnceEmpty == \A k : Once(k, <<>>)
  BY DEF Once

-----------------------------------------------------------------------------
(* The invariant of loading a file.                                        *)

UpHas(c, k)   == \E q \in Range(up[c]) : q.of = k
DownHas(c, k) == \E f \in Range(down[c]) : f.of = k
FileHas(c, k) == \E w \in writers[c] : w.of = k
Has(c, k)     == UpHas(c, k) \/ DownHas(c, k) \/ FileHas(c, k)

(* On connection c, call k is first a request and nothing else, and then a *)
(* flow of frames that one FileWriter at most goes on with.                *)
Stage(k, c) ==
  /\ Once(k, up[c])
  /\ UpHas(c, k) => ~DownHas(c, k) /\ ~FileHas(c, k) /\ buf[k] = 0
  /\ \A f \in Range(down[c]) : f.kind = "text" /\ f.of = k => ~f.ok
  /\ \A v, w \in writers[c] : v.of = k /\ w.of = k => v = w
  /\ \A w \in writers[c] : w.of = k /\ ~w.full => w.left = 0
  /\ \E n \in Nat :
       /\ Carries(k, down[c], buf[k], n)
       /\ ~lost[c] => \A w \in writers[c] : w.of = k => n + w.left = FileLength[k]

(* All that is under way for a pending call comes from one request.        *)
Loading(k) ==
  /\ \A i : Trace(i, k) => i \in Refs /\ waiter[i] = k
  /\ \A c, d \in Conns : Has(c, k) /\ Has(d, k) => c = d
  /\ \A f \in Range(textBuffer) : f.of = k => ~f.ok
  /\ \A c \in Conns : Stage(k, c)

Unsent(k) == buf[k] = 0 /\ \A i : ~Trace(i, k)

Load(k) ==
  /\ promise[k] \in {"idle", "void"} => Unsent(k)
  /\ promise[k] = "pending" => Loading(k)
  /\ promise[k] = "resolved" => buf[k] = FileLength[k]

Loads == {k \in Requests : KindOf(k) = "loadFile"}

LoadInv == \A k \in Loads : Load(k)

-----------------------------------------------------------------------------
(* Steps that add nothing to call k: what is under way for it is taken,    *)
(* or lost, and what is taken arrives.                                     *)

KeepsConn(k, c) ==
  /\ Once(k, up[c]) => Once(k, up'[c])
  /\ \A q \in Range(up'[c]) : q.of = k => q \in Range(up[c])
  /\ \A f \in Range(down'[c]) : f.of = k => f \in Range(down[c])
  /\ \A w \in writers'[c] : w.of = k => w \in writers[c]
  /\ lost[c] => lost'[c]
  /\ \/ promise[k] # "pending"
     \/ lost'[c] /\ down'[c] = <<>>
     \/ (\A f \in Range(down'[c]) : f.of # k) /\ (\A w \in writers'[c] : w.of # k)
     \/ \A n \in Nat : Carries(k, down[c], buf[k], n) => Carries(k, down'[c], buf'[k], n)

KeepsCall(k) ==
  /\ \A i \in Refs : waiter[i] = k /\ promise'[k] = "pending" => waiter'[i] = k
  /\ \A f \in Range(textBuffer') : f.of = k =>
       \/ f \in Range(textBuffer)
       \/ f.kind = "text" /\ \E c \in Conns : f \in Range(down[c])
  /\ \/ promise'[k] \in {promise[k], "rejected"}
     \/ promise[k] = "idle" /\ promise'[k] = "void"
     \/ promise[k] = "pending" /\ promise'[k] = "resolved" /\ buf'[k] = FileLength[k]
  /\ \/ buf'[k] = buf[k]
     \/ promise[k] = "pending" /\ \E c \in Conns : DownHas(c, k)

LEMMA StageKept ==
  ASSUME IInv, IInv', NEW k \in Loads, NEW c \in Conns, Stage(k, c), KeepsConn(k, c),
         UpHas(c, k) => buf'[k] = buf[k], promise[k] = "pending"
  PROVE  Stage(k, c)'
<1>1. /\ Once(k, up[c])
      /\ UpHas(c, k) => ~DownHas(c, k) /\ ~FileHas(c, k) /\ buf[k] = 0
      /\ \A f \in Range(down[c]) : f.kind = "text" /\ f.of = k => ~f.ok
      /\ \A v, w \in writers[c] : v.of = k /\ w.of = k => v = w
      /\ \A w \in writers[c] : w.of = k /\ ~w.full => w.left = 0
  BY DEF Stage
<1>2. Once(k, up'[c])
  BY <1>1 DEF KeepsConn
<1>3. (UpHas(c, k) => ~DownHas(c, k) /\ ~FileHas(c, k) /\ buf[k] = 0)'
  <2>1. UpHas(c, k)' => UpHas(c, k)
    BY DEF KeepsConn, UpHas
  <2>2. (DownHas(c, k)' => DownHas(c, k)) /\ (FileHas(c, k)' => FileHas(c, k))
    BY DEF KeepsConn, DownHas, FileHas
  <2> QED
    BY <1>1, <2>1, <2>2
<1>4. (\A f \in Range(down[c]) : f.kind = "text" /\ f.of = k => ~f.ok)'
  BY <1>1 DEF KeepsConn
<1>5. /\ (\A v, w \in writers[c] : v.of = k /\ w.of = k => v = w)'
      /\ (\A w \in writers[c] : w.of = k /\ ~w.full => w.left = 0)'
  BY <1>1 DEF KeepsConn
<1>6. (\E n \in Nat :
         /\ Carries(k, down[c], buf[k], n)
         /\ ~lost[c] => \A w \in writers[c] : w.of = k => n + w.left = FileLength[k])'
  <2>1. PICK n \in Nat :
          /\ Carries(k, down[c], buf[k], n)
          /\ ~lost[c] => \A w \in writers[c] : w.of = k => n + w.left = FileLength[k]
    BY DEF Stage
  <2>2. CASE lost'[c] /\ down'[c] = <<>>
    <3>1. k \in Calls
      BY DEF Loads, Calls
    <3>2. buf'[k] \in Nat
      BY <3>1 DEF IInv, TypeOK, ClientTypeOK
    <3>3. Carries(k, <<>>, buf'[k], buf'[k])
      BY <3>2, EmptyRange, CarriesNothing
    <3>4. Carries(k, down'[c], buf'[k], buf'[k])
      BY <2>2, <3>3
    <3> QED
      BY <2>2, <3>2, <3>4
  <2>3. CASE Carries(k, down'[c], buf'[k], n)
    BY <2>1, <2>3 DEF KeepsConn
  <2>4. CASE (\A f \in Range(down'[c]) : f.of # k) /\ (\A w \in writers'[c] : w.of # k)
    <3>1. k \in Calls
      BY DEF Loads, Calls
    <3>2. buf'[k] \in Nat /\ down'[c] \in Seq(Frame)
      BY <3>1 DEF IInv, TypeOK, WireTypeOK, ClientTypeOK
    <3>3. Carries(k, down'[c], buf'[k], buf'[k])
      BY <2>4, <3>2, CarriesNothing
    <3> QED
      BY <2>4, <3>2, <3>3
  <2> QED
    BY <2>1, <2>2, <2>3, <2>4 DEF KeepsConn
<1> QED
  BY <1>2, <1>3, <1>4, <1>5, <1>6 DEF Stage

LEMMA TraceKept ==
  ASSUME NEW k, \A c \in Conns : KeepsConn(k, c), KeepsCall(k), NEW i, Trace(i, k)'
  PROVE  Trace(i, k)
<1>1. CASE TextTrace(i, k)'
  BY <1>1 DEF TextTrace, KeepsCall, Trace, DownTrace
<1>2. CASE UpTrace(i, k)'
  BY <1>2 DEF UpTrace, KeepsConn, Trace
<1>3. CASE DownTrace(i, k)'
  BY <1>3 DEF DownTrace, KeepsConn, Trace
<1>4. CASE FileTrace(i, k)'
  BY <1>4 DEF FileTrace, KeepsConn, Trace
<1> QED
  BY <1>1, <1>2, <1>3, <1>4 DEF Trace

LEMMA LoadKept ==
  ASSUME IInv, IInv', NEW k \in Loads, Load(k),
         \A c \in Conns : KeepsConn(k, c), KeepsCall(k)
  PROVE  Load(k)'
<1>1. \A i : Trace(i, k)' => Trace(i, k)
  BY TraceKept
<1>2. /\ \/ promise'[k] \in {promise[k], "rejected"}
         \/ promise[k] = "idle" /\ promise'[k] = "void"
         \/ promise[k] = "pending" /\ promise'[k] = "resolved" /\ buf'[k] = FileLength[k]
      /\ \/ buf'[k] = buf[k]
         \/ promise[k] = "pending" /\ \E c \in Conns : DownHas(c, k)
  BY DEF KeepsCall
<1>3. CASE promise'[k] \in {"idle", "void"}
  <2>1. promise[k] \in {"idle", "void"} /\ buf'[k] = buf[k]
    BY <1>2, <1>3
  <2>2. Unsent(k)'
    BY <1>1, <2>1 DEF Load, Unsent
  <2> QED
    BY <1>3, <2>2 DEF Load
<1>4. CASE promise'[k] = "resolved"
  BY <1>2, <1>4 DEF Load
<1>5. CASE promise'[k] = "pending"
  <2>1. promise[k] = "pending" /\ Loading(k)
    BY <1>2, <1>5 DEF Load
  <2>2. \A i : Trace(i, k)' => i \in Refs /\ waiter'[i] = k
    BY <1>1, <1>5, <2>1 DEF Loading, KeepsCall
  <2>3. (\A c, d \in Conns : Has(c, k) /\ Has(d, k) => c = d)'
    <3>1. \A c \in Conns : Has(c, k)' => Has(c, k)
      BY DEF KeepsConn, Has, UpHas, DownHas, FileHas
    <3> QED
      BY <2>1, <3>1 DEF Loading
  <2>4. \A c \in Conns : \A f \in Range(down[c]) : f.kind = "text" /\ f.of = k => ~f.ok
    BY <2>1 DEF Loading, Stage
  <2>5. \A f \in Range(textBuffer') : f.of = k => ~f.ok
    BY <2>1, <2>4 DEF Loading, KeepsCall
  <2>6. ASSUME NEW c \in Conns
        PROVE  Stage(k, c)'
    <3>1. Stage(k, c)
      BY <2>1 DEF Loading
    <3>2. UpHas(c, k) => buf'[k] = buf[k]
      <4>1. ASSUME UpHas(c, k), NEW d \in Conns, DownHas(d, k)
            PROVE  FALSE
        <5>1. d = c
          BY <2>1, <4>1 DEF Loading, Has
        <5> QED
          BY <3>1, <4>1, <5>1 DEF Stage
      <4> QED
        BY <1>2, <4>1
    <3> QED
      BY <2>1, <3>1, <3>2, StageKept
  <2> QED
    BY <1>5, <2>2, <2>3, <2>5, <2>6 DEF Loading, Load
<1> QED
  BY <1>2, <1>3, <1>4, <1>5 DEF Load

-----------------------------------------------------------------------------
(* Steps that write nothing.                                               *)

LEMMA QuietKeeps ==
  ASSUME NEW k, NEW c \in Conns,
         up'[c] = up[c] \/ up'[c] = <<>>,
         down'[c] = down[c] \/ (down'[c] = <<>> /\ lost'[c]),
         writers'[c] = writers[c] \/ writers'[c] = {},
         lost[c] => lost'[c], buf'[k] = buf[k]
  PROVE  KeepsConn(k, c)
  BY OnceEmpty, EmptyRange DEF KeepsConn

LEMMA QuietLoad ==
  ASSUME IInv, IInv', NEW k \in Loads, Load(k), UNCHANGED <<buf, textBuffer>>,
         \A c \in Conns : /\ up'[c] = up[c] \/ up'[c] = <<>>
                          /\ down'[c] = down[c] \/ (down'[c] = <<>> /\ lost'[c])
                          /\ writers'[c] = writers[c] \/ writers'[c] = {}
                          /\ lost[c] => lost'[c],
         \A i \in Refs : waiter[i] = k /\ promise'[k] = "pending" => waiter'[i] = k,
         \/ promise'[k] \in {promise[k], "rejected"}
         \/ promise[k] = "idle" /\ promise'[k] = "void"
  PROVE  Load(k)'
<1>1. \A c \in Conns : KeepsConn(k, c)
  BY QuietKeeps
<1>2. KeepsCall(k)
  BY DEF KeepsCall
<1> QED
  BY <1>1, <1>2, LoadKept

LEMMA ConnectionLoad ==
  ASSUME IInv, IInv', NEW k \in Loads, Load(k), NEW c \in Conns,
         \/ Connect(c) /\ UNCHANGED sessionVars
         \/ OnClose(c) /\ UNCHANGED sessionVars
         \/ Break(c) /\ UNCHANGED <<clientVars, sessionVars>>
         \/ Accept(c) /\ UNCHANGED clientVars
         \/ EndSession(c) /\ UNCHANGED clientVars
         \/ OnSessionClose(c) /\ UNCHANGED clientVars
  PROVE  Load(k)'
<1>1. UNCHANGED <<waiter, promise, textBuffer, buf>>
  BY DEF Connect, OnClose, Break, Accept, EndSession, OnSessionClose, sessionVars, clientVars
<1>2. \A d \in Conns : /\ up'[d] = up[d] \/ up'[d] = <<>>
                       /\ down'[d] = down[d] \/ (down'[d] = <<>> /\ lost'[d])
                       /\ writers'[d] = writers[d] \/ writers'[d] = {}
                       /\ lost[d] => lost'[d]
  BY DEF Connect, OnClose, Break, Accept, EndSession, OnSessionClose, sessionVars, clientVars,
         IInv, TypeOK, WireTypeOK, SessionTypeOK
<1> QED
  BY <1>1, <1>2, QuietLoad

LEMMA SweepLoad ==
  ASSUME IInv, IInv', NEW k \in Loads, Load(k), NEW d, Sweep(d), UNCHANGED sessionVars
  PROVE  Load(k)'
<1>1. UNCHANGED <<up, down, lost, writers, buf, textBuffer>>
  BY DEF Sweep, wireVars, sessionVars
<1>2. k \in Calls
  BY DEF Loads, Calls
<1>3. /\ promise'[k] = IF \E i \in Expired(d) : waiter[i] = k THEN "rejected" ELSE promise[k]
      /\ \A i \in Refs : waiter'[i] = IF i \in Expired(d) THEN NoCall ELSE waiter[i]
  BY <1>2 DEF Sweep
<1>4. \A i \in Refs : waiter[i] = k /\ promise'[k] = "pending" => waiter'[i] = k
  BY <1>3
<1>5. promise'[k] \in {promise[k], "rejected"}
  BY <1>3
<1> QED
  BY <1>1, <1>4, <1>5, QuietLoad

-----------------------------------------------------------------------------
(* Sending a request for a file, or another one.                           *)

LEMMA SentLoad ==
  ASSUME IInv, IInv', RefIsFree, NEW k \in Loads, Load(k), NEW j \in Calls, NEW s,
         promise[j] = "idle", Sent(j, s), lost' = lost,
         UNCHANGED <<down, textBuffer, writers, buf>>
  PROVE  Load(k)'
<1> USE WireAssumption
<1> DEFINE q == [ref |-> replyId, of |-> j]
<1>1. /\ k \in Calls /\ replyId \in Refs
      /\ waiter \in [Refs -> Calls \cup {NoCall}] /\ promise \in [Calls -> PromiseState]
      /\ up \in [Conns -> Seq(Request)] /\ down \in [Conns -> Seq(Frame)]
      /\ buf \in [Calls -> Nat] /\ lost \in [Conns -> BOOLEAN]
  BY DEF Loads, Calls, IInv, TypeOK, WireTypeOK, ClientTypeOK
<1>2. ws \in Conns
  BY DEF Sent, IInv, TypeOK, ClientTypeOK
<1>3. q \in Request /\ q.of = j /\ q.ref = replyId
  BY <1>1 DEF Request
<1>4. /\ up' = Written(up, ws, q)
      /\ \A i \in Refs : waiter'[i] = IF i = replyId THEN j ELSE waiter[i]
      /\ promise'[k] = IF k = j THEN "pending" ELSE promise[k]
  BY <1>1 DEF Sent
<1>5. waiter[replyId] = NoCall
  BY DEF RefIsFree, InUse
<1> HIDE DEF q
<1>6. ASSUME NEW c \in Conns
      PROVE  \/ up'[c] = up[c]
             \/ c = ws /\ up'[c] = Append(up[c], q)
  BY <1>1, <1>2, <1>4 DEF Written
<1>7. ASSUME NEW c \in Conns
      PROVE  Range(up'[c]) \subseteq Range(up[c]) \cup (IF c = ws THEN {q} ELSE {})
  <2>1. up[c] \in Seq(Request)
    BY <1>1
  <2>2. CASE up'[c] = up[c]
    BY <2>2
  <2>3. CASE c = ws /\ up'[c] = Append(up[c], q)
    BY <1>3, <2>1, <2>3, RangeAppend
  <2> QED
    BY <1>6, <2>2, <2>3
<1>8. CASE k # j
  <2>1. ASSUME NEW c \in Conns
        PROVE  KeepsConn(k, c)
    <3>1. Once(k, up[c]) => Once(k, up'[c])
      <4>1. up[c] \in Seq(Request)
        BY <1>1
      <4>2. Once(k, up[c]) => Once(k, Append(up[c], q))
        BY <1>3, <1>8, <4>1, OnceAppend
      <4> QED
        BY <1>6, <4>2
    <3>2. \A x \in Range(up'[c]) : x.of = k => x \in Range(up[c])
      BY <1>3, <1>7, <1>8
    <3>3. down'[c] = down[c] /\ lost'[c] = lost[c] /\ writers'[c] = writers[c]
          /\ buf'[k] = buf[k]
      OBVIOUS
    <3>4. \A n \in Nat : Carries(k, down[c], buf[k], n) => Carries(k, down'[c], buf'[k], n)
      BY <3>3
    <3> QED
      BY <3>1, <3>2, <3>3, <3>4 DEF KeepsConn
  <2>2. KeepsCall(k)
    <3>1. \A i \in Refs : waiter[i] = k => waiter'[i] = k
      BY <1>1, <1>4, <1>5
    <3> QED
      BY <1>4, <1>8, <3>1 DEF KeepsCall
  <2> QED
    BY <2>1, <2>2, LoadKept
<1>9. CASE k = j
  <2>1. buf[k] = 0 /\ \A i : ~Trace(i, k)
    BY <1>9 DEF Load, Unsent
  <2>2. /\ \A c \in Conns : ~UpHas(c, k) /\ ~DownHas(c, k) /\ ~FileHas(c, k)
        /\ \A f \in Range(textBuffer) : f.of # k
    BY <2>1 DEF Trace, TextTrace, UpTrace, DownTrace, FileTrace, UpHas, DownHas, FileHas
  <2>3. \A i : Trace(i, k)' => i = replyId
    BY <1>3, <1>7, <2>1, <2>2
       DEF Trace, TextTrace, UpTrace, DownTrace, FileTrace, UpHas, DownHas, FileHas
  <2>4. \A i : Trace(i, k)' => i \in Refs /\ waiter'[i] = k
    BY <1>1, <1>4, <1>9, <2>3
  <2>5. \A c \in Conns : Has(c, k)' => c = ws
    BY <1>7, <2>2 DEF Has, UpHas, DownHas, FileHas
  <2>6. ASSUME NEW c \in Conns
        PROVE  Stage(k, c)'
    <3>1. Once(k, up'[c])
      <4>1. \A x \in Range(up[c]) : x.of # k
        BY <2>2 DEF UpHas
      <4>2. Once(k, up[c])
        <5>1. \A p \in 1 .. Len(up[c]) : up[c][p] \in Range(up[c])
          BY <1>1, LenProperties DEF Range
        <5> QED
          BY <4>1, <5>1 DEF Once
      <4>3. up[c] \in Seq(Request)
        BY <1>1
      <4>4. Once(k, Append(up[c], q))
        BY <1>3, <4>1, <4>3, OnceAppend
      <4> QED
        BY <1>6, <4>2, <4>4
    <3>2. down'[c] = down[c] /\ writers'[c] = writers[c] /\ buf'[k] = 0
      BY <2>1
    <3>3. /\ \A f \in Range(down'[c]) : f.of # k
          /\ \A w \in writers'[c] : w.of # k
      BY <2>2, <3>2 DEF DownHas, FileHas
    <3>4. Carries(k, down'[c], 0, 0)
      BY <1>1, <3>2, <3>3, CarriesNothing
    <3>5. ~DownHas(c, k)' /\ ~FileHas(c, k)'
      BY <3>3 DEF DownHas, FileHas
    <3>6. \E n \in Nat :
            /\ Carries(k, down'[c], buf'[k], n)
            /\ ~lost'[c] => \A w \in writers'[c] : w.of = k => n + w.left = FileLength[k]
      BY <3>2, <3>3, <3>4
    <3> QED
      BY <3>1, <3>2, <3>3, <3>5, <3>6 DEF Stage
  <2> QED
    BY <1>4, <1>9, <2>2, <2>4, <2>5, <2>6 DEF Load, Loading
<1> QED
  BY <1>8, <1>9

LEMMA WriteMessageLoad ==
  ASSUME IInv, IInv', RefIsFree, NEW k \in Loads, Load(k), NEW j \in Calls, NEW s,
         WriteMessage(j, s), lost' = lost,
         UNCHANGED <<down, textBuffer, writers, buf>>
  PROVE  Load(k)'
<1>1. promise[j] = "idle"
  BY DEF WriteMessage
<1>2. CASE Sent(j, s)
  BY <1>1, <1>2, SentLoad
<1>3. CASE Dropped(j, s)
  <2>1. UNCHANGED <<waiter, up>> /\ promise' = [promise EXCEPT ![j] = "void"]
    BY <1>3 DEF Dropped
  <2>2. k \in Calls /\ promise \in [Calls -> PromiseState]
    BY DEF Loads, Calls, IInv, TypeOK, ClientTypeOK
  <2>3. \/ promise'[k] \in {promise[k], "rejected"}
        \/ promise[k] = "idle" /\ promise'[k] = "void"
    BY <1>1, <2>1, <2>2
  <2> QED
    BY <2>1, <2>3, QuietLoad
<1> QED
  BY <1>2, <1>3 DEF WriteMessage

-----------------------------------------------------------------------------
(* Taking a frame.                                                         *)

LEMMA OnMessageLoad ==
  ASSUME IInv, IInv', TextKeepsUp, NEW k \in Loads, Load(k), NEW c \in Conns, OnMessage(c),
         UNCHANGED sessionVars
  PROVE  Load(k)'
<1> USE WireAssumption
<1> DEFINE f == Head(down[c])
           buffer == Append(textBuffer, f)
<1>1. /\ k \in Calls /\ k # NoCall
      /\ waiter \in [Refs -> Calls \cup {NoCall}] /\ promise \in [Calls -> PromiseState]
      /\ down \in [Conns -> Seq(Frame)] /\ textBuffer \in Seq(Frame)
      /\ buf \in [Calls -> Nat]
  BY DEF Loads, Calls, IInv, TypeOK, WireTypeOK, ClientTypeOK
<1>2. /\ down[c] # <<>>
      /\ down' = [down EXCEPT ![c] = Tail(@)]
      /\ UNCHANGED <<lost, up, writers>>
  BY DEF OnMessage, sessionVars
<1>3. /\ f \in Frame /\ f \in Range(down[c])
      /\ Tail(down[c]) \in Seq(Frame)
      /\ Range(Tail(down[c])) \subseteq Range(down[c])
  BY <1>1, <1>2, RangeTail
<1>4. /\ f.kind = "text" => ParseData(buffer) /\ UNCHANGED buf
      /\ f.kind # "text" => BinaryData(f) /\ UNCHANGED <<textBuffer, connected>>
  BY DEF OnMessage
<1>5. /\ ~Head(buffer).wide => Head(buffer) = f /\ Tail(buffer) = <<>>
      /\ Range(buffer) = Range(textBuffer) \cup {f}
  BY <1>1, <1>3, ParsedHead, RangeAppend
<1>6. \A n \in Nat : Carries(k, down[c], buf[k], n) =>
        /\ Carries(k, Tail(down[c]), buf[k] + Units(k, f), n)
        /\ IsEnd(k, f) => buf[k] = FileLength[k]
  BY <1>1, <1>2, CarriesTail
<1>7. \A d \in Conns : down'[d] = IF d = c THEN Tail(down[d]) ELSE down[d]
  BY <1>1, <1>2
<1>8. Trace(f.ref, f.of) /\ DownHas(c, f.of)
  BY <1>3 DEF Trace, DownTrace, DownHas
<1>9. Awaited(f) => f.ref \in Refs /\ waiter[f.ref] = f.of /\ f.of \in Calls
  <2>1. Awaited(f) => f.ref \in Refs /\ waiter[f.ref] # NoCall
    BY DEF Awaited
  <2> QED
    BY <1>1, <1>8, <2>1 DEF IInv, OwnTraces
<1>10. promise[k] = "pending" /\ f.of = k => Awaited(f)
  BY <1>1, <1>8 DEF Load, Loading, Awaited
<1>11. Awaited(f) => promise[f.of] = "pending"
  BY <1>1, <1>9 DEF IInv, EachPendingWaits, Awaited
<1>12. promise[k] = "pending" /\ f.of = k /\ f.kind = "text" => ~f.ok
  BY <1>3 DEF Load, Loading, Stage
<1>13. promise[k] = "pending" => \E n \in Nat : Carries(k, down[c], buf[k], n)
  BY DEF Load, Loading, Stage
<1> HIDE DEF f, buffer
<1>14. f.kind \in {"text", "binary"} /\ f.units \in Nat
  BY <1>3 DEF Frame
(* What becomes of the call and of its data.                               *)
<1>15. /\ \A g \in Range(textBuffer') : g \in Range(textBuffer) \/ (g = f /\ f.kind = "text")
       /\ \/ UNCHANGED <<promise, waiter>> /\ buf'[k] = buf[k] + (IF Awaited(f) THEN Units(k, f) ELSE 0)
             /\ (f.kind = "text" \/ ~Awaited(f) \/ f.units # 0)
          \/ /\ Awaited(f) /\ buf'[k] = buf[k]
             /\ \/ Settled(f.ref, "rejected") /\ f.kind = "text"
                \/ Settled(f.ref, "resolved") /\ f.kind = "text" /\ f.ok
                \/ Settled(f.ref, "resolved") /\ f.kind = "binary" /\ f.units = 0
  <2>1. CASE f.kind = "text" /\ Head(buffer).wide
    <3>1. textBuffer' = buffer /\ UNCHANGED <<promise, waiter, buf>>
      BY <1>4, <2>1 DEF ParseData
    <3>2. Units(k, f) = 0
      BY <2>1 DEF Units
    <3> QED
      BY <1>1, <1>5, <2>1, <3>1, <3>2
  <2>2. CASE f.kind = "text" /\ ~Head(buffer).wide
    <3>1. textBuffer' = <<>> /\ Consumed(f) /\ UNCHANGED buf
      BY <1>4, <1>5, <2>2 DEF ParseData
    <3>2. Units(k, f) = 0
      BY <2>2 DEF Units
    <3>3. CASE Awaited(f)
      BY <2>2, <3>1, <3>3, EmptyRange DEF Consumed
    <3>4. CASE ~Awaited(f)
      BY <1>1, <2>2, <3>1, <3>4, EmptyRange DEF Consumed
    <3> QED
      BY <3>3, <3>4
  <2>3. CASE f.kind = "binary"
    <3>1. BinaryData(f) /\ UNCHANGED textBuffer
      BY <1>4, <2>3
    <3>2. CASE ~Awaited(f)
      BY <1>1, <3>1, <3>2 DEF BinaryData
    <3>3. CASE Awaited(f) /\ f.units = 0
      BY <2>3, <3>1, <3>3 DEF BinaryData
    <3>4. CASE Awaited(f) /\ f.units # 0
      <4>1. buf' = [buf EXCEPT ![f.of] = @ + f.units] /\ UNCHANGED <<promise, waiter>>
        BY <1>9, <3>1, <3>4 DEF BinaryData
      <4>2. buf'[k] = buf[k] + Units(k, f)
        <5>1. CASE f.of = k
          BY <1>1, <2>3, <4>1, <5>1 DEF Units
        <5>2. CASE f.of # k
          BY <1>1, <4>1, <5>2 DEF Units
        <5> QED
          BY <5>1, <5>2
      <4> QED
        BY <3>1, <3>4, <4>1, <4>2
    <3> QED
      BY <3>2, <3>3, <3>4
  <2> QED
    BY <1>14, <2>1, <2>2, <2>3
<1>16. KeepsCall(k)
  <2>1. \A g \in Range(textBuffer') : g.of = k =>
          \/ g \in Range(textBuffer)
          \/ g.kind = "text" /\ \E d \in Conns : g \in Range(down[d])
    BY <1>3, <1>15
  <2>2. CASE /\ UNCHANGED <<promise, waiter>>
             /\ buf'[k] = buf[k] + (IF Awaited(f) THEN Units(k, f) ELSE 0)
    <3>1. buf'[k] = buf[k] \/ (Awaited(f) /\ f.of = k)
      BY <1>1, <2>2 DEF Units
    <3>2. buf'[k] = buf[k] \/ (promise[k] = "pending" /\ \E d \in Conns : DownHas(d, k))
      BY <1>8, <1>11, <3>1
    <3> QED
      BY <2>1, <2>2, <3>2 DEF KeepsCall
  <2>3. ASSUME NEW v \in {"rejected", "resolved"}, Awaited(f), buf'[k] = buf[k], Settled(f.ref, v),
               v = "resolved" => \/ f.kind = "text" /\ f.ok
                                 \/ f.kind = "binary" /\ f.units = 0
        PROVE  KeepsCall(k)
    <3>1. /\ promise'[k] = IF k = f.of THEN v ELSE promise[k]
          /\ \A i \in Refs : waiter'[i] = IF i = f.ref THEN NoCall ELSE waiter[i]
      BY <1>1, <1>9, <2>3 DEF Settled
    <3>2. \A i \in Refs : waiter[i] = k /\ promise'[k] = "pending" => waiter'[i] = k
      BY <1>9, <2>3, <3>1
    <3>3. v = "resolved" /\ k = f.of => promise[k] = "pending" /\ buf'[k] = FileLength[k]
      <4>1. ASSUME v = "resolved", k = f.of
            PROVE  promise[k] = "pending" /\ buf[k] = FileLength[k]
        <5>1. promise[k] = "pending"
          BY <1>11, <2>3, <4>1
        <5>2. IsEnd(k, f)
          BY <1>12, <2>3, <4>1, <5>1 DEF IsEnd
        <5> QED
          BY <1>6, <1>13, <5>1, <5>2
      <4> QED
        BY <2>3, <4>1
    <3>4. \/ promise'[k] \in {promise[k], "rejected"}
          \/ promise[k] = "pending" /\ promise'[k] = "resolved" /\ buf'[k] = FileLength[k]
      BY <3>1, <3>3
    <3> QED
      BY <2>1, <2>3, <3>2, <3>4 DEF KeepsCall
  <2> QED
    BY <1>15, <2>2, <2>3
<1>17. promise[k] = "pending" => buf'[k] = buf[k] + Units(k, f)
  <2>1. f.kind = "text" \/ f.units = 0 => Units(k, f) = 0
    BY DEF Units
  <2>2. promise[k] = "pending" /\ ~Awaited(f) => Units(k, f) = 0
    BY <1>10 DEF Units
  <2> QED
    BY <1>1, <1>15, <2>1, <2>2
<1>18. ASSUME NEW d \in Conns
       PROVE  KeepsConn(k, d)
  <2>1. /\ up'[d] = up[d] /\ lost'[d] = lost[d] /\ writers'[d] = writers[d]
        /\ Range(down'[d]) \subseteq Range(down[d])
    BY <1>2, <1>3, <1>7
  <2>2. ASSUME promise[k] = "pending"
        PROVE  \/ (\A g \in Range(down'[d]) : g.of # k) /\ (\A w \in writers'[d] : w.of # k)
               \/ \A n \in Nat : Carries(k, down[d], buf[k], n) => Carries(k, down'[d], buf'[k], n)
    <3>1. CASE d = c
      BY <1>6, <1>7, <1>17, <2>2, <3>1
    <3>2. CASE d # c /\ f.of = k
      <4>1. ~Has(d, k)
        BY <1>8, <2>2, <3>2 DEF Load, Loading, Has
      <4> QED
        BY <2>1, <4>1 DEF Has, DownHas, FileHas
    <3>3. CASE d # c /\ f.of # k
      <4>1. Units(k, f) = 0
        BY <3>3 DEF Units
      <4>2. buf'[k] = buf[k] /\ down'[d] = down[d]
        BY <1>1, <1>7, <1>17, <2>2, <3>3, <4>1
      <4> QED
        BY <4>2
    <3> QED
      BY <3>1, <3>2, <3>3
  <2> QED
    BY <2>1, <2>2 DEF KeepsConn
<1> QED
  BY <1>16, <1>18, LoadKept

-----------------------------------------------------------------------------
(* Steps of a session.                                                     *)

(* The session does something for another call.                            *)
LEMMA OtherWrite ==
  ASSUME IInv, IInv', NEW k \in Loads, Load(k), NEW c \in Conns,
         UNCHANGED clientVars, lost' = lost,
         \A d \in Conns : \/ up'[d] = up[d]
                          \/ up[d] # <<>> /\ up'[d] = Tail(up[d]),
         down' = down \/ \E f \in Frame : f.of # k /\ Send(c, f),
         \A d \in Conns : \A w \in writers'[d] : w.of = k => w \in writers[d]
  PROVE  Load(k)'
<1>1. /\ up \in [Conns -> Seq(Request)] /\ down \in [Conns -> Seq(Frame)]
      /\ buf \in [Calls -> Nat] /\ k \in Calls
  BY DEF IInv, TypeOK, WireTypeOK, ClientTypeOK, Loads, Calls
<1>2. UNCHANGED <<waiter, promise, buf, textBuffer>>
  BY DEF clientVars
<1>3. KeepsCall(k)
  BY <1>2 DEF KeepsCall
<1>4. ASSUME NEW d \in Conns
      PROVE  KeepsConn(k, d)
  <2>1. (Once(k, up[d]) => Once(k, up'[d])) /\ Range(up'[d]) \subseteq Range(up[d])
    <3>1. CASE up'[d] = up[d]
      BY <3>1
    <3>2. CASE up[d] # <<>> /\ up'[d] = Tail(up[d])
      <4>1. up[d] \in Seq(Request)
        BY <1>1
      <4> QED
        BY <3>2, <4>1, OnceTail, RangeTail
    <3> QED
      BY <3>1, <3>2
  <2>2. /\ \A f \in Range(down'[d]) : f.of = k => f \in Range(down[d])
        /\ \A n \in Nat : Carries(k, down[d], buf[k], n) => Carries(k, down'[d], buf'[k], n)
    <3>1. buf'[k] = buf[k]
      BY <1>2
    <3>2. CASE down'[d] = down[d]
      BY <3>1, <3>2
    <3>3. CASE down'[d] # down[d]
      <4>1. PICK f \in Frame : f.of # k /\ Send(c, f)
        BY <3>3
      <4>2. down'[d] = Append(down[d], f)
        BY <1>1, <3>3, <4>1 DEF Send, Written
      <4>3. /\ down[d] \in Seq(Frame) /\ Units(k, f) = 0 /\ ~IsEnd(k, f)
            /\ buf[k] \in Nat
        BY <1>1, <4>1 DEF Units, IsEnd
      <4>4. Range(down'[d]) = Range(down[d]) \cup {f}
        BY <4>2, <4>3, RangeAppend
      <4>5. ASSUME NEW n \in Nat, Carries(k, down[d], buf[k], n)
            PROVE  Carries(k, down'[d], buf[k], n)
        <5>1. Carries(k, Append(down[d], f), buf[k], n + Units(k, f))
          BY <4>3, <4>5, CarriesAppend
        <5>2. n + Units(k, f) = n
          BY <4>3
        <5> QED
          BY <4>2, <5>1, <5>2
      <4> QED
        BY <3>1, <4>1, <4>4, <4>5
    <3> QED
      BY <3>2, <3>3
  <2> QED
    BY <2>1, <2>2 DEF KeepsConn
<1> QED
  BY <1>3, <1>4, LoadKept

(* The session does something for call k itself.                           *)
LEMMA OwnWrite ==
  ASSUME IInv, IInv', NEW k \in Loads, Load(k), NEW c \in Conns, Has(c, k),
         NEW i, Trace(i, k), Replies(c, i, k),
         UNCHANGED clientVars, lost' = lost,
         \A d \in Conns : Range(up'[d]) \subseteq Range(up[d]),
         \A d \in Conns \ {c} : /\ up'[d] = up[d] /\ down'[d] = down[d]
                                /\ writers'[d] = writers[d],
         promise[k] = "pending" => Stage(k, c)'
  PROVE  Load(k)'
<1>1. down \in [Conns -> Seq(Frame)] /\ k \in Calls
  BY DEF IInv, TypeOK, WireTypeOK, Loads, Calls
<1>2. UNCHANGED <<waiter, promise, buf, textBuffer>>
  BY DEF clientVars
<1>3. promise[k] \notin {"idle", "void"}
  BY DEF Load, Unsent
<1>4. CASE promise[k] # "pending"
  BY <1>2, <1>3, <1>4 DEF Load
<1>5. CASE promise[k] = "pending"
  <2>1. Loading(k)
    BY <1>5 DEF Load
  <2>2. ASSUME NEW j, Trace(j, k)'
        PROVE  Trace(j, k)
    <3>1. \A d \in Conns : \A f \in Range(down'[d]) : f \in Range(down[d]) \/ f.ref = i
      <4>1. CASE down' = down
        BY <4>1
      <4>2. ASSUME NEW f \in Frame, f.ref = i, Send(c, f)
            PROVE  <3>1
        <5>1. \A d \in Conns : Range(down'[d]) \subseteq Range(down[d]) \cup {f}
          BY <1>1, <4>2, WrittenQueues DEF Send
        <5> QED
          BY <4>2, <5>1
      <4> QED
        BY <4>1, <4>2 DEF Replies, Writes
    <3>2. \A d \in Conns : \A w \in writers'[d] : w \in writers[d] \/ w.ref = i
      BY DEF Replies
    <3>3. CASE j = i
      BY <3>3
    <3>4. CASE j # i
      BY <1>2, <2>2, <3>1, <3>2, <3>4 DEF Trace, TextTrace, UpTrace, DownTrace, FileTrace
    <3> QED
      BY <3>3, <3>4
  <2>3. \A j : Trace(j, k)' => j \in Refs /\ waiter'[j] = k
    BY <1>2, <2>1, <2>2 DEF Loading
  <2>4. (\A d, e \in Conns : Has(d, k) /\ Has(e, k) => d = e)'
    <3>1. ASSUME NEW d \in Conns, Has(d, k)'
          PROVE  d = c
      <4>1. SUFFICES ASSUME d # c PROVE FALSE
        OBVIOUS
      <4>2. Has(d, k)
        BY <3>1, <4>1 DEF Has, UpHas, DownHas, FileHas
      <4> QED
        BY <2>1, <4>1, <4>2 DEF Loading
    <3> QED
      BY <3>1
  <2>5. (\A f \in Range(textBuffer) : f.of = k => ~f.ok)'
    BY <1>2, <2>1 DEF Loading
  <2>6. ASSUME NEW d \in Conns
        PROVE  Stage(k, d)'
    <3>1. CASE d = c
      BY <1>5, <3>1
    <3>2. CASE d # c
      <4>1. /\ up'[d] = up[d] /\ down'[d] = down[d] /\ writers'[d] = writers[d]
            /\ lost'[d] = lost[d] /\ buf'[k] = buf[k]
        BY <1>2, <3>2
      <4>2. KeepsConn(k, d)
        BY <4>1, QuietKeeps
      <4> QED
        BY <1>5, <2>1, <4>1, <4>2, StageKept DEF Loading
    <3> QED
      BY <3>1, <3>2
  <2>7. Loading(k)'
    BY <2>3, <2>4, <2>5, <2>6 DEF Loading
  <2> QED
    BY <1>2, <1>5, <2>7 DEF Load
<1> QED
  BY <1>4, <1>5

(* A frame of call k behind those that carry n units, and what is then     *)
(* left to its FileWriter.                                                 *)
LEMMA WrittenStage ==
  ASSUME IInv, NEW k \in Loads, NEW c \in Conns, Stage(k, c),
         UNCHANGED clientVars, lost' = lost, ~lost[c],
         Once(k, up'[c]), ~UpHas(c, k)',
         NEW f \in Frame, Send(c, f), f.kind = "text" => ~f.ok,
         NEW n \in Nat, Carries(k, down[c], buf[k], n), IsEnd(k, f) => n = FileLength[k],
         \A v, w \in writers'[c] : v.of = k /\ w.of = k => v = w,
         \A w \in writers'[c] : w.of = k =>
           /\ ~w.full => w.left = 0
           /\ n + Units(k, f) + w.left = FileLength[k]
  PROVE  Stage(k, c)'
<1>1. down \in [Conns -> Seq(Frame)] /\ buf \in [Calls -> Nat] /\ k \in Calls
  BY DEF IInv, TypeOK, WireTypeOK, ClientTypeOK, Loads, Calls
<1>2. down'[c] = Append(down[c], f) /\ buf'[k] = buf[k]
  BY <1>1 DEF Send, Written, clientVars
<1>3. Range(down'[c]) = Range(down[c]) \cup {f}
  <2>1. down[c] \in Seq(Frame)
    BY <1>1
  <2> QED
    BY <1>2, <2>1, RangeAppend
<1>4. (\A g \in Range(down[c]) : g.kind = "text" /\ g.of = k => ~g.ok)'
  BY <1>3 DEF Stage
<1>5. PICK m \in Nat : m = n + Units(k, f)
  BY UnitsType
<1>6. Carries(k, down'[c], buf'[k], m)
  BY <1>1, <1>2, <1>5, CarriesAppend
<1>7. \A w \in writers'[c] : w.of = k => m + w.left = FileLength[k]
  BY <1>5
<1>8. (\E x \in Nat :
         /\ Carries(k, down[c], buf[k], x)
         /\ ~lost[c] => \A w \in writers[c] : w.of = k => x + w.left = FileLength[k])'
  BY <1>6, <1>7
<1> QED
  BY <1>4, <1>8 DEF Stage

(* A chunk, the first or a later one, of a file of which left units are    *)
(* left when n have been sent.                                             *)
LEMMA ChunkStage ==
  ASSUME IInv, NEW k \in Loads, NEW c \in Conns, Stage(k, c),
         UNCHANGED clientVars, lost' = lost, ~lost[c],
         Once(k, up'[c]), ~UpHas(c, k)',
         NEW q, q.ref \in Refs, q.of = k, NEW left \in Nat, NEW others \in SUBSET writers[c],
         \A w \in others : w.of # k,
         NEW n \in Nat, Carries(k, down[c], buf[k], n), n + left = FileLength[k],
         WriteChunk(c, q, left, others)
  PROVE  Stage(k, c)'
<1> DEFINE u == ChunkSize(left)
           f == Binary(q.ref, q.of, u)
           x == [ref |-> q.ref, of |-> q.of, left |-> left - u, full |-> u = BufferSize]
<1>1. writers \in [Conns -> SUBSET Writer] /\ k \in Calls
  BY DEF IInv, TypeOK, SessionTypeOK, Loads, Calls
<1>2. /\ u \in Nat /\ left - u \in Nat
      /\ u = 0 => left = 0
      /\ u # BufferSize => left - u = 0
  <2>1. u \in Nat /\ left - u \in Nat
    BY ChunkSizeType
  <2>2. BufferSize \in Nat \ {0}
    BY SessionAssumption
  <2> QED
    BY <2>1, <2>2 DEF ChunkSize
<1>3. Send(c, f) /\ writers'[c] = others \cup {x}
  BY <1>1 DEF WriteChunk, SendBinary
<1>4. x.of = k /\ x.left = left - u /\ (~x.full => u # BufferSize)
  OBVIOUS
<1>5. f \in Frame
  BY <1>1, <1>2, BinaryType
<1>6. f.kind = "binary" /\ Units(k, f) = u /\ (IsEnd(k, f) => u = 0)
  BY DEF Binary, Units, IsEnd
<1> HIDE DEF u, f, x
<1>7. FileLength[k] = n + left
  OBVIOUS
<1>8. IsEnd(k, f) => n = FileLength[k]
  BY <1>2, <1>6, <1>7
<1>9. \A v, w \in writers'[c] : v.of = k /\ w.of = k => v = w
  BY <1>3
<1>10. n + Units(k, f) + (left - u) = FileLength[k]
  BY <1>2, <1>6, <1>7
<1>11. \A w \in writers'[c] : w.of = k =>
         /\ ~w.full => w.left = 0
         /\ n + Units(k, f) + w.left = FileLength[k]
  BY <1>2, <1>3, <1>4, <1>10
<1> QED
  BY <1>3, <1>5, <1>6, <1>8, <1>9, <1>11, WrittenStage

(* What a session may do with a request for a file.                        *)
LEMMA FileRequest ==
  ASSUME NEW c, NEW q, KindOf(q.of) = "loadFile",
         \/ Dispatch(c, q) /\ UNCHANGED <<auth, greeting>>
         \/ Authenticate(c, q)
  PROVE  \/ UNCHANGED <<down, writers>>
         \/ Fail(c, q)
         \/ WriteChunk(c, q, FileLength[q.of], writers[c])
  BY DEF Dispatch, LoadFile, Throw, Authenticate

LEMMA OwnTextLoad ==
  ASSUME IInv, IInv', NEW k \in Loads, Load(k), NEW c \in Conns, OnText(c),
         UNCHANGED clientVars, Head(up[c]).of = k
  PROVE  Load(k)'
<1> DEFINE q == Head(up[c])
<1>1. /\ up \in [Conns -> Seq(Request)] /\ down \in [Conns -> Seq(Frame)]
      /\ writers \in [Conns -> SUBSET Writer] /\ buf \in [Calls -> Nat]
      /\ k \in Calls /\ KindOf(k) = "loadFile" /\ FileLength[k] \in Nat /\ TypeOK
  BY SessionAssumption
     DEF IInv, TypeOK, WireTypeOK, ClientTypeOK, SessionTypeOK, Loads, Calls
<1>2. /\ up[c] # <<>> /\ up' = [up EXCEPT ![c] = Tail(@)] /\ lost' = lost /\ ~lost[c]
      /\ \/ Dispatch(c, q) /\ UNCHANGED <<auth, greeting>>
         \/ Authenticate(c, q)
  BY DEF OnText
<1>3. /\ q \in Request /\ q \in Range(up[c]) /\ up[c] \in Seq(Request)
      /\ Range(Tail(up[c])) \subseteq Range(up[c])
  BY <1>1, <1>2, RangeTail
<1>4. q.of = k
  OBVIOUS
<1>5. Once(k, up[c]) => Once(k, Tail(up[c])) /\ \A x \in Range(Tail(up[c])) : x.of # k
  BY <1>2, <1>3, <1>4, OnceTail
<1> HIDE DEF q
<1>6. \A d \in Conns : up'[d] = IF d = c THEN Tail(up[d]) ELSE up[d]
  BY <1>1, <1>2
<1>7. q.ref \in Refs
  BY <1>3 DEF Request
<1>8. Has(c, k) /\ Trace(q.ref, k)
  BY <1>3, <1>4 DEF Has, UpHas, Trace, UpTrace
<1>9. \A d \in Conns : Range(up'[d]) \subseteq Range(up[d])
  BY <1>3, <1>6
<1>10. CASE UNCHANGED <<down, writers>>
  BY <1>2, <1>6, <1>10, OtherWrite
(* Before the request is served, nothing has been sent to the call.        *)
<1>11. ASSUME promise[k] = "pending"
       PROVE  /\ Stage(k, c)
              /\ Once(k, up'[c]) /\ ~UpHas(c, k)'
              /\ Carries(k, down[c], buf[k], 0)
              /\ \A w \in writers[c] : w.of # k
  <2>1. Stage(k, c)
    BY <1>11 DEF Load, Loading
  <2>2. UpHas(c, k)
    BY <1>3, <1>4 DEF UpHas
  <2>3. ~DownHas(c, k) /\ ~FileHas(c, k) /\ buf[k] = 0
    BY <2>1, <2>2 DEF Stage
  <2>4. Carries(k, down[c], 0, 0)
    <3>1. \A f \in Range(down[c]) : f.of # k
      BY <2>3 DEF DownHas
    <3>2. down[c] \in Seq(Frame)
      BY <1>1
    <3> QED
      BY <3>1, <3>2, CarriesNothing
  <2>5. Once(k, up'[c]) /\ ~UpHas(c, k)'
    BY <1>5, <1>6, <2>1 DEF Stage, UpHas
  <2>6. \A w \in writers[c] : w.of # k
    BY <2>3 DEF FileHas
  <2> QED
    BY <2>1, <2>3, <2>4, <2>5, <2>6
<1>12. CASE Fail(c, q)
  <2>1. Replies(c, q.ref, q.of) /\ UNCHANGED writers
    BY <1>1, <1>3, <1>12, FailReply
  <2>2. PICK b \in Widths : Send(c, Text(q.ref, q.of, FALSE, b))
    BY <1>12 DEF Fail
  <2>3. PICK f : f = Text(q.ref, q.of, FALSE, b)
    OBVIOUS
  <2>4. f \in Frame /\ ~f.ok /\ Units(k, f) = 0 /\ ~IsEnd(k, f) /\ Send(c, f)
    BY <1>1, <1>4, <1>7, <2>2, <2>3, SessionAssumption DEF Text, Frame, Units, IsEnd
  <2>5. promise[k] = "pending" => Stage(k, c)'
    <3>1. ASSUME promise[k] = "pending" PROVE \A w \in writers'[c] : w.of # k
      BY <1>11, <2>1, <3>1
    <3> QED
      BY <1>2, <1>11, <2>4, <3>1, WrittenStage
  <2>6. \A d \in Conns \ {c} : down'[d] = down[d]
    BY <1>1, <2>4 DEF Send, Written
  <2> QED
    BY <1>2, <1>4, <1>6, <1>8, <1>9, <2>1, <2>5, <2>6, OwnWrite
<1>13. CASE WriteChunk(c, q, FileLength[q.of], writers[c])
  <2>1. Replies(c, q.ref, q.of)
    <3>1. q.of \in Requests /\ FileLength[q.of] \in Nat
      BY <1>1, <1>4 DEF Loads
    <3> QED
      BY <1>1, <1>7, <1>13, <3>1, ChunkReply
  <2>2. promise[k] = "pending" => Stage(k, c)'
    <3>1. 0 + FileLength[k] = FileLength[k] /\ WriteChunk(c, q, FileLength[k], writers[c])
      BY <1>1, <1>4, <1>13
    <3> QED
      BY <1>1, <1>2, <1>4, <1>7, <1>11, <3>1, ChunkStage
  <2>3. \A d \in Conns \ {c} : down'[d] = down[d] /\ writers'[d] = writers[d]
    BY <1>1, <1>13 DEF WriteChunk, SendBinary, Send, Written
  <2>4. \A d \in Conns \ {c} : /\ up'[d] = up[d] /\ down'[d] = down[d]
                               /\ writers'[d] = writers[d]
    BY <1>6, <2>3
  <2> QED
    BY <1>2, <1>4, <1>8, <1>9, <2>1, <2>2, <2>4, OwnWrite
<1>14. KindOf(q.of) = "loadFile"
  BY <1>1, <1>4
<1>15. \/ UNCHANGED <<down, writers>>
      \/ Fail(c, q)
      \/ WriteChunk(c, q, FileLength[q.of], writers[c])
  BY <1>2, <1>14, FileRequest
<1> QED
  BY <1>10, <1>12, <1>13, <1>15

LEMMA OnTextLoad ==
  ASSUME IInv, IInv', NEW k \in Loads, Load(k), NEW c \in Conns, OnText(c),
         UNCHANGED clientVars
  PROVE  Load(k)'
<1> DEFINE q == Head(up[c])
<1>1. /\ up \in [Conns -> Seq(Request)] /\ writers \in [Conns -> SUBSET Writer]
      /\ FileLength \in [Requests -> Nat] /\ TypeOK
  BY SessionAssumption DEF IInv, TypeOK, WireTypeOK, SessionTypeOK
<1>2. /\ up[c] # <<>> /\ up' = [up EXCEPT ![c] = Tail(@)] /\ lost' = lost
      /\ \/ Dispatch(c, q) /\ UNCHANGED <<auth, greeting>>
         \/ Authenticate(c, q)
  BY DEF OnText
<1>3. q \in Request
  BY <1>1, <1>2, RangeTail
<1>4. CASE q.of = k
  BY <1>4, OwnTextLoad
<1>5. CASE q.of # k
  <2> HIDE DEF q
  <2>1. Replies(c, q.ref, q.of)
    BY <1>1, <1>2, <1>3, DispatchReply, AuthenticateReply
  <2>2. down' = down \/ \E f \in Frame : f.of # k /\ Send(c, f)
    BY <1>5, <2>1 DEF Replies, Writes
  <2>3. \A d \in Conns : \A w \in writers'[d] : w.of = k => w \in writers[d]
    BY <1>5, <2>1 DEF Replies
  <2>4. \A d \in Conns : \/ up'[d] = up[d]
                         \/ up[d] # <<>> /\ up'[d] = Tail(up[d])
    BY <1>1, <1>2
  <2> QED
    BY <1>2, <2>2, <2>3, <2>4, OtherWrite
<1> QED
  BY <1>4, <1>5

LEMMA OnAfterAuthenticationLoad ==
  ASSUME IInv, IInv', NEW k \in Loads, Load(k), NEW c \in Conns,
         OnAfterAuthentication(c), UNCHANGED clientVars
  PROVE  Load(k)'
<1>1. PICK b \in BOOLEAN, w \in Widths : Send(c, Event(b, w))
  BY DEF OnAfterAuthentication
<1>2. Event(b, w) \in Frame /\ Event(b, w).of = NoCall
  BY SessionAssumption DEF Event, Text, Frame
<1>3. k # NoCall
  BY WireAssumption DEF Loads, Calls
<1>4. UNCHANGED <<up, lost, writers>>
  BY DEF OnAfterAuthentication
<1>5. \E f \in Frame : f.of # k /\ Send(c, f)
  BY <1>1, <1>2, <1>3
<1> QED
  BY <1>4, <1>5, OtherWrite

LEMMA OnChunkCompleteLoad ==
  ASSUME IInv, IInv', NEW k \in Loads, Load(k), NEW c \in Conns,
         OnChunkComplete(c), UNCHANGED clientVars
  PROVE  Load(k)'
<1>1. /\ down \in [Conns -> Seq(Frame)] /\ writers \in [Conns -> SUBSET Writer]
      /\ buf \in [Calls -> Nat] /\ k \in Calls /\ FileLength[k] \in Nat /\ TypeOK
  BY SessionAssumption DEF IInv, TypeOK, WireTypeOK, ClientTypeOK, SessionTypeOK, Loads, Calls
<1>2. PICK w \in writers[c] :
        \/ w.full /\ WriteChunk(c, w, w.left, writers[c] \ {w})
        \/ ~w.full /\ SendBinary(c, w, 0) /\ writers' = [writers EXCEPT ![c] = @ \ {w}]
  BY DEF OnChunkComplete
<1>3. UNCHANGED <<up, lost>> /\ ~lost[c]
  BY DEF OnChunkComplete
<1>4. w.ref \in Refs /\ w.of \in Requests /\ w.left \in Nat
  BY <1>1 DEF Writer
<1>5. Replies(c, w.ref, w.of)
  BY <1>1, <1>2, <1>4, ChunkReply, EndReply
<1>6. \A d \in Conns \ {c} : down'[d] = down[d] /\ writers'[d] = writers[d]
  BY <1>1, <1>2 DEF WriteChunk, SendBinary, Send, Written
<1>7. CASE w.of # k
  <2>1. down' = down \/ \E f \in Frame : f.of # k /\ Send(c, f)
    BY <1>5, <1>7 DEF Replies, Writes
  <2>2. \A d \in Conns : \A v \in writers'[d] : v.of = k => v \in writers[d]
    BY <1>5, <1>7 DEF Replies
  <2> QED
    BY <1>3, <2>1, <2>2, OtherWrite
<1>8. CASE w.of = k
  <2>1. Has(c, k) /\ FileHas(c, k) /\ Trace(w.ref, k)
    BY <1>8 DEF Has, FileHas, Trace, FileTrace
  <2>2. ASSUME promise[k] = "pending"
        PROVE  Stage(k, c)'
    <3>1. Stage(k, c)
      BY <2>2 DEF Load, Loading
    <3>2. ~UpHas(c, k)' /\ Once(k, up'[c])
      BY <1>3, <2>1, <3>1 DEF Stage, UpHas
    <3>3. \A v \in writers[c] \ {w} : v.of # k
      BY <1>8, <3>1 DEF Stage
    <3>4. PICK n \in Nat : Carries(k, down[c], buf[k], n) /\ n + w.left = FileLength[k]
      BY <1>3, <1>8, <3>1 DEF Stage
    <3>5. CASE w.full /\ WriteChunk(c, w, w.left, writers[c] \ {w})
      BY <1>3, <1>4, <1>8, <3>1, <3>2, <3>3, <3>4, <3>5, ChunkStage
    <3>6. CASE ~w.full /\ SendBinary(c, w, 0) /\ writers' = [writers EXCEPT ![c] = @ \ {w}]
      <4>1. n = FileLength[k]
        <5>1. w.left = 0
          BY <1>8, <3>1, <3>6 DEF Stage
        <5> QED
          BY <1>1, <3>4, <5>1
      <4>2. PICK f : f = Binary(w.ref, w.of, 0)
        OBVIOUS
      <4>3. f \in Frame /\ f.kind = "binary" /\ Send(c, f)
        BY <1>1, <1>4, <1>8, <3>6, <4>2, BinaryType DEF SendBinary, Binary
      <4>4. \A v \in writers'[c] : v.of # k
        BY <1>1, <3>3, <3>6
      <4> QED
        BY <1>3, <3>1, <3>2, <3>4, <4>1, <4>3, <4>4, WrittenStage
    <3> QED
      BY <1>2, <3>5, <3>6
  <2> QED
    BY <1>3, <1>5, <1>6, <1>8, <2>1, <2>2, OwnWrite
<1> QED
  BY <1>7, <1>8

-----------------------------------------------------------------------------

LEMMA InitLoad == Init => LoadInv
<1> SUFFICES ASSUME Init, NEW k \in Loads PROVE Load(k)
  BY DEF LoadInv
<1>1. k \in Calls
  BY DEF Loads, Calls
<1>2. promise[k] = "idle" /\ buf[k] = 0
  BY <1>1 DEF Init, ClientInit
<1>3. \A i : ~Trace(i, k)
  BY EmptyRange DEF Init, WireInit, ClientInit, SessionInit,
     Trace, TextTrace, UpTrace, DownTrace, FileTrace
<1> QED
  BY <1>2, <1>3 DEF Load, Unsent

LEMMA NextLoad == IInv /\ IInv' /\ TextKeepsUp /\ LoadInv /\ [Next]_vars => LoadInv'
<1> SUFFICES ASSUME IInv, IInv', TextKeepsUp, [Next]_vars, NEW k \in Loads, Load(k)
             PROVE  Load(k)'
  BY DEF LoadInv, Loads
<1>1. ASSUME NEW j \in Requests, RefIsFree, Call(j), UNCHANGED sessionVars
      PROVE  Load(k)'
  <2>1. j \in Calls /\ WriteMessage(j, sock) /\ UNCHANGED <<lost, down, textBuffer, writers, buf>>
    BY <1>1 DEF Call, sessionVars, Calls
  <2> QED
    BY <1>1, <2>1, WriteMessageLoad
<1>2. ASSUME NEW c \in Conns, RefIsFree, OnOpen(c), UNCHANGED sessionVars
      PROVE  Load(k)'
  <2>1. PICK s : WriteMessage(c, s)
    BY <1>2 DEF OnOpen
  <2>2. c \in Calls /\ UNCHANGED <<lost, down, textBuffer, writers, buf>>
    BY <1>2 DEF OnOpen, sessionVars, Calls
  <2> QED
    BY <1>2, <2>1, <2>2, WriteMessageLoad
<1>3. CASE Timer
  BY <1>3, SweepLoad DEF Timer
<1>4. ASSUME NEW c \in Conns, OnMessage(c), UNCHANGED sessionVars
      PROVE  Load(k)'
  BY <1>4, OnMessageLoad
<1>5. ASSUME NEW c \in Conns,
             \/ Connect(c) /\ UNCHANGED sessionVars
             \/ OnClose(c) /\ UNCHANGED sessionVars
             \/ Break(c) /\ UNCHANGED <<clientVars, sessionVars>>
             \/ Accept(c) /\ UNCHANGED clientVars
             \/ EndSession(c) /\ UNCHANGED clientVars
             \/ OnSessionClose(c) /\ UNCHANGED clientVars
      PROVE  Load(k)'
  BY <1>5, ConnectionLoad
<1>6. ASSUME NEW c \in Conns, UNCHANGED clientVars,
             OnText(c) \/ OnAfterAuthentication(c) \/ OnChunkComplete(c)
      PROVE  Load(k)'
  BY <1>6, OnTextLoad, OnAfterAuthenticationLoad, OnChunkCompleteLoad
<1>7. CASE UNCHANGED vars
  <2>1. UNCHANGED <<up, down, lost, writers, buf, textBuffer, waiter, promise>>
    BY <1>7 DEF vars, wireVars, clientVars, sessionVars
  <2> QED
    BY <2>1, QuietLoad
<1>8. CASE UserAction
  BY <1>1, <1>5, <1>8 DEF UserAction
<1>9. ASSUME NEW c \in Conns, ClientEvent(c)
      PROVE  Load(k)'
  BY <1>2, <1>4, <1>5, <1>9 DEF ClientEvent
<1>10. ASSUME NEW c \in Conns, SessionEvent(c)
       PROVE  Load(k)'
  BY <1>5, <1>6, <1>10 DEF SessionEvent
<1>11. CASE Loss
  BY <1>5, <1>11 DEF Loss
<1> QED
  BY <1>3, <1>7, <1>8, <1>9, <1>10, <1>11 DEF Next

(* loadFile never resolves with a part of the file, whatever the length of *)
(* the file and of the buffer, and whatever is lost or late meanwhile.     *)
THEOREM FileCompleteCorrect == Spec => []FileComplete
<1>1. LoadInv => FileComplete
  BY DEF LoadInv, Load, Loads, FileComplete
<1>2. LinkInv => TextKeepsUp
  BY DEF LinkInv
<1> QED
  BY <1>1, <1>2, InitLoad, NextLoad, NextInv, Invariance, LinkInvariance, PTL DEF Spec
=============================================================================
