--------------------------- MODULE ToolbarProofs ---------------------------
(***************************************************************************)
(* Proofs about the process of a toolbar's script: its types, that one     *)
(* process runs at a time, that its ends are reported, and what is         *)
(* answered when its status is asked for.                                  *)
(***************************************************************************)
EXTENDS ScriptedToolbar, FiniteSetTheorems, TLAPS

(* The call of c is made under the mutex of the script.                    *)
Guarded(c) == op[c] \notin Cancels \cup {"kill"}

Launching == \E c \in Callers : Executes(c) /\ pc[c] = "destroy"

Bounded == runs + Cardinality(Pending) <= MaxRuns

Held ==
  \A c \in Callers :
    /\ Guarded(c) /\ pc[c] \in {"check", "join", "joining", "go", "destroy"} => lock = c
    /\ pc[c] \in {"store", "reset"} => op[c] = "kill"

JoinsAlone ==
  \A c \in Callers :
    pc[c] = "joining" => thread # None /\ \A d \in Callers : pc[d] = "joining" => d = c

(* A process and a thread that are kept are those of the last run, and     *)
(* there is no thread while the next run is prepared.                      *)
Newest ==
  /\ {thread, process} \subseteq {None, runs}
  /\ \A c \in Callers : Guarded(c) /\ pc[c] \in {"go", "destroy"} => thread = None

Fresh ==
  /\ \A r \in Runs : r > runs => at[r] = "none" /\ child[r] = "none"
  /\ Launching => runs > 0 /\ at[runs] = "none" /\ child[runs] # "none"

(* A process that was started has a thread, unless it is being launched or *)
(* its start was answered with an error.                                   *)
Watched ==
  /\ refused \subseteq 1 .. runs
  /\ Launching => runs \notin refused
  /\ \A r \in Runs :
       /\ at[r] # "none" => r \notin refused /\ child[r] \in {"running", "over"}
       /\ at[r] = "none" /\ r <= runs => r \in refused \/ (Launching /\ r = runs)

Threads ==
  \A r \in Runs :
    /\ at[r] \notin {"none", "done"} => thread = r
    /\ at[r] \in {"over", "notify", "done"} => child[r] = "over"
    /\ at[r] = "last" => kill
    /\ at[r] = "notify" => onExit # None

Callbacks ==
  /\ own \subseteq 1 .. runs
  /\ runs \in own => onExit = runs

Reported == ExitsReported /\ \A i \in DOMAIN reports : at[reports[i].run] = "done"

(* The processes that got a thread.                                        *)
Started == {r \in Runs : at[r] # "none"}

IsLast(n) == IF n = None THEN Started = {} ELSE n \in Started /\ \A s \in Started : s <= n

(* The status that is kept is that of the last process that got a thread,  *)
(* unless that thread has yet to keep it, or kill was called.              *)
Known ==
  \E n \in 0 .. MaxRuns :
    /\ IsLast(n)
    /\ thread # None => n = thread
    /\ \/ exitStatus = n
       \/ kill
       \/ thread # None /\ at[thread] \notin {"over", "notify", "done"}

Answered == "tryGetExitStatus" \notin Cancels => StatusOfTheProcess

IInv ==
  /\ TypeOK /\ Bounded /\ Held /\ JoinsAlone /\ Newest /\ Fresh
  /\ Watched /\ Threads /\ Callbacks /\ Reported /\ Known /\ Answered
-----------------------------------------------------------------------------

LEMMA Constants ==
  /\ MaxRuns \in Nat \ {0} /\ IsFiniteSet(Callers)
  /\ None = 0 /\ None \notin Callers
  /\ \A c \in Callers : Executes(c) => Guarded(c)
BY ProcessAssumption, ToolbarAssumption DEF None, Executes, Guarded

(* The steps of a caller leave all that is not c's own as it was.          *)
OnlyCaller(c) ==
  \A d \in Callers \ {c} : pc'[d] = pc[d] /\ op'[d] = op[d] /\ answer'[d] = answer[d]

(* The types hold, and what is asked of c itself does too.                 *)
Well(c) ==
  /\ TypeOK'
  /\ OnlyCaller(c)
  /\ Guarded(c)' /\ pc'[c] \in {"check", "join", "joining", "go", "destroy"} => lock' = c
  /\ pc'[c] \in {"store", "reset"} => op'[c] = "kill"
  /\ lock' # lock => lock \in {c, None}

LEMMA WellHeld ==
  ASSUME IInv, NEW c \in Callers, Well(c)
  PROVE  Held'
BY Constants DEF IInv, Held, Well, OnlyCaller, Guarded

(* A request may be about to start a process.                              *)
LEMMA PendingShrinks ==
  ASSUME IInv, runs' = runs, Pending' \subseteq Pending
  PROVE  Bounded'
<1>1. IsFiniteSet(Pending) /\ IsFiniteSet(Pending')
  BY Constants, FS_Subset DEF Pending
<1>2. Cardinality(Pending') <= Cardinality(Pending) /\ Cardinality(Pending) \in Nat /\ Cardinality(Pending') \in Nat
  BY <1>1, FS_Subset, FS_CardinalityType
<1> QED
  BY <1>2, Constants DEF IInv, Bounded, TypeOK

(* Nothing is changed but the calls, and no call of execute starts or ends *)
(* in this step the process it is starting.                                *)
LEMMA CallFrame ==
  ASSUME IInv, NEW c \in Callers, Well(c), UNCHANGED <<objectVars, osVars, threadVars>>,
         (Executes(c) /\ pc[c] = "destroy") <=> (Executes(c) /\ pc[c] = "destroy")',
         pc'[c] = "joining" => thread # None /\ \A d \in Callers : pc[d] # "joining",
         Guarded(c)' /\ pc'[c] \in {"go", "destroy"} => thread = None,
         answer'[c] \in Statuses =>
           ("tryGetExitStatus" \notin Cancels =>
              answer'[c].kill \/ (~answer'[c].running /\ answer'[c].status = answer'[c].of)),
         Bounded'
  PROVE  IInv'
<1>1. Launching' <=> Launching
  BY DEF Launching, Well, OnlyCaller, Executes
<1>2. Held'
  BY WellHeld
<1>3. JoinsAlone'
  BY DEF IInv, JoinsAlone, Well, OnlyCaller, objectVars
<1>4. Newest'
  BY DEF IInv, Newest, Well, OnlyCaller, Guarded, objectVars, osVars
<1>5. Fresh' /\ Watched'
  BY <1>1 DEF IInv, Fresh, Watched, Running, osVars, threadVars
<1>6. Threads' /\ Callbacks' /\ Reported'
  BY DEF IInv, Threads, Callbacks, Reported, ExitsReported, objectVars, osVars, threadVars
<1>7. Known'
  BY <1>1 DEF IInv, Known, IsLast, Started, objectVars, osVars, threadVars
<1>8. Answered'
  <2> SUFFICES ASSUME "tryGetExitStatus" \notin Cancels, NEW d \in Callers, answer'[d].is = "status"
               PROVE  answer'[d].kill \/ (~answer'[d].running /\ answer'[d].status = answer'[d].of)
    BY DEF Answered, StatusOfTheProcess
  <2>1. CASE d = c
    <3>1. answer'[c] \in {NoStatus} \cup Statuses
      BY DEF Well, TypeOK
    <3>2. answer'[c] \in Statuses
      BY <2>1, <3>1 DEF NoStatus
    <3> QED
      BY <2>1, <3>2
  <2>2. CASE d # c
    BY <2>2 DEF IInv, Answered, StatusOfTheProcess, Well, OnlyCaller
  <2> QED
    BY <2>1, <2>2
<1> QED
  BY <1>2, <1>3, <1>4, <1>5, <1>6, <1>7, <1>8 DEF IInv, Well

LEMMA CallerPends ==
  ASSUME IInv, NEW c \in Callers, OnlyCaller(c), runs' = runs, c \in Pending' => c \in Pending
  PROVE  Bounded'
<1>1. Pending' \subseteq Pending
  BY DEF Pending, OnlyCaller, Executes
<1> QED
  BY <1>1, PendingShrinks

(* c goes on to another place, and the rest is as it was.                  *)
LEMMA CallsFrame ==
  ASSUME IInv, NEW c \in Callers, NEW from, NEW to, Calls(c, from, to),
         UNCHANGED <<objectVars, osVars, threadVars>>,
         from \in {"check", "join"}, to \in {"join", "joining", "go", "store"},
         to = "store" => op[c] = "kill",
         to = "joining" => thread # None /\ \A d \in Callers : pc[d] # "joining",
         Guarded(c) /\ to = "go" => thread = None
  PROVE  IInv'
<1>1. TypeOK'
  BY DEF IInv, TypeOK, Calls, Goes, objectVars, osVars, threadVars
<1>2. /\ OnlyCaller(c) /\ pc[c] = from /\ pc'[c] = to /\ op' = op
      /\ lock' = lock /\ answer' = answer
  BY DEF IInv, TypeOK, Calls, Goes, OnlyCaller
<1>3. Well(c)
  BY <1>1, <1>2 DEF Well, IInv, Held, Guarded
<1>4. Bounded'
  BY <1>2, CallerPends DEF Pending, Executes, osVars
<1>5. /\ answer'[c] = answer[c]
      /\ Executes(c)' = Executes(c) /\ Guarded(c)' = Guarded(c)
  BY <1>2 DEF Executes, Guarded
<1>6. answer'[c] \in Statuses =>
        ("tryGetExitStatus" \notin Cancels =>
           answer'[c].kill \/ (~answer'[c].running /\ answer'[c].status = answer'[c].of))
  BY <1>2 DEF IInv, Answered, StatusOfTheProcess, Statuses
<1> QED
  BY <1>2, <1>3, <1>4, <1>5, <1>6, CallFrame

(* The call of c returns.                                                  *)
LEMMA ReturnsFrame ==
  ASSUME IInv, NEW c \in Callers, NEW a \in {NoStatus} \cup Statuses, Returns(c, a),
         UNCHANGED <<objectVars, osVars, threadVars>>,
         ~(Executes(c) /\ pc[c] = "destroy"),
         a \in Statuses =>
           ("tryGetExitStatus" \notin Cancels => a.kill \/ (~a.running /\ a.status = a.of))
  PROVE  IInv'
<1>1. TypeOK'
  BY Constants DEF IInv, TypeOK, Returns, objectVars, osVars, threadVars
<1>2. /\ OnlyCaller(c) /\ pc'[c] = "idle" /\ op'[c] = "kill" /\ answer'[c] = a
      /\ lock' # lock => lock = c
  BY DEF IInv, TypeOK, Returns, OnlyCaller
<1>3. Well(c)
  BY <1>1, <1>2 DEF Well
<1>4. Bounded'
  BY <1>2, CallerPends DEF Pending, osVars
<1> QED
  BY <1>2, <1>3, <1>4, CallFrame

LEMMA RequestStep ==
  ASSUME IInv, NEW c \in Callers, Request(c)
  PROVE  IInv'
<1>1. PICK called \in Called : op' = [op EXCEPT ![c] = called]
  BY DEF Request
<1>2. called \in {"execute", "executeShort", "tryGetExitStatus", "kill"}
  BY ToolbarAssumption DEF Called
<1>3. TypeOK'
  BY <1>1, <1>2 DEF IInv, TypeOK, Request, objectVars, osVars, threadVars
<1>4. /\ OnlyCaller(c) /\ pc[c] = "idle" /\ pc'[c] = "lock" /\ op'[c] = called
      /\ lock' = lock /\ answer'[c] = NoStatus /\ runs' = runs
  BY <1>1 DEF IInv, TypeOK, Request, OnlyCaller, osVars
<1>5. Well(c)
  BY <1>3, <1>4 DEF Well
<1>6. Bounded'
  <2>1. CASE called \in {"execute", "executeShort"}
    <3>1. Left /\ c \notin Pending
      BY <1>4, <2>1 DEF Called, Pending
    <3>2. Pending' \subseteq Pending \cup {c}
      BY <1>4 DEF Pending, OnlyCaller, Executes
    <3>3. IsFiniteSet(Pending) /\ IsFiniteSet(Pending \cup {c})
      BY Constants, FS_Subset, FS_AddElement DEF Pending
    <3>4. Cardinality(Pending \cup {c}) = Cardinality(Pending) + 1 /\ Cardinality(Pending) \in Nat
      BY <3>1, <3>3, FS_AddElement, FS_CardinalityType
    <3>5. Cardinality(Pending') <= Cardinality(Pending \cup {c}) /\ Cardinality(Pending') \in Nat
      BY <3>2, <3>3, FS_Subset, FS_CardinalityType
    <3> QED
      BY <1>4, <3>1, <3>4, <3>5, Constants DEF Bounded, Left, IInv, TypeOK
  <2>2. CASE called \notin {"execute", "executeShort"}
    BY <1>4, <2>2, CallerPends DEF Pending, Executes
  <2> QED
    BY <2>1, <2>2
<1>7. answer'[c] \notin Statuses
  BY <1>4 DEF NoStatus, Statuses
<1> QED
  BY <1>4, <1>5, <1>6, <1>7, CallFrame DEF Request

LEMMA RequestCancelStep ==
  ASSUME IInv, NEW c \in Callers, RequestCancel(c)
  PROVE  IInv'
<1>1. TypeOK'
  BY DEF IInv, TypeOK, RequestCancel, Goes, objectVars, osVars, threadVars
<1>2. /\ OnlyCaller(c) /\ pc[c] = "idle" /\ pc'[c] = "getItem" /\ runs' = runs
      /\ lock' = lock /\ answer'[c] = NoStatus
  BY DEF IInv, TypeOK, RequestCancel, Goes, OnlyCaller, osVars
<1>3. Well(c)
  BY <1>1, <1>2 DEF Well
<1>4. Bounded'
  BY <1>2, CallerPends DEF Pending
<1>5. answer'[c] \notin Statuses
  BY <1>2 DEF NoStatus, Statuses
<1> QED
  BY <1>2, <1>3, <1>4, <1>5, CallFrame DEF RequestCancel

LEMMA NoStatusIs == NoStatus \notin Statuses
BY DEF NoStatus, Statuses

LEMMA ActionStep ==
  ASSUME IInv, NEW c \in Callers, Action(c)
  PROVE  IInv'
<1>0. pc[c] = "lock" /\ UNCHANGED <<objectVars, osVars, threadVars>>
  BY DEF Action
<1>1. CASE Returns(c, NoStatus)
  BY <1>0, <1>1, NoStatusIs, ReturnsFrame
<1>2. ASSUME lock = None, lock' = c, pc' = [pc EXCEPT ![c] = "check"], UNCHANGED <<op, dying, answer>>
      PROVE  IInv'
  <2>1. TypeOK'
    BY <1>0, <1>2 DEF IInv, TypeOK, objectVars, osVars, threadVars
  <2>2. OnlyCaller(c) /\ pc'[c] = "check" /\ runs' = runs /\ answer'[c] = answer[c]
    BY <1>0, <1>2 DEF IInv, TypeOK, OnlyCaller, osVars
  <2>3. Well(c)
    BY <1>2, <2>1, <2>2 DEF Well
  <2>4. Bounded'
    BY <1>0, <1>2, <2>2, CallerPends DEF Pending, Executes
  <2>5. answer'[c] \in Statuses =>
          ("tryGetExitStatus" \notin Cancels =>
             answer'[c].kill \/ (~answer'[c].running /\ answer'[c].status = answer'[c].of))
    BY <2>2 DEF IInv, Answered, StatusOfTheProcess, Statuses
  <2> QED
    BY <1>0, <1>2, <2>2, <2>3, <2>4, <2>5, CallFrame
<1> QED
  BY <1>1, <1>2 DEF Action

LEMMA CancelActionStep ==
  ASSUME IInv, NEW c \in Callers, CancelAction(c)
  PROVE  IInv'
<1>0. pc[c] = "getItem" /\ UNCHANGED <<objectVars, osVars, threadVars>>
  BY DEF CancelAction
<1>1. CASE Returns(c, NoStatus)
  BY <1>0, <1>1, NoStatusIs, ReturnsFrame
<1>2. ASSUME NEW called \in Cancels, op' = [op EXCEPT ![c] = called],
             pc' = [pc EXCEPT ![c] = "check"], UNCHANGED <<dying, answer, lock>>
      PROVE  IInv'
  <2>1. TypeOK'
    BY <1>0, <1>2, ToolbarAssumption DEF IInv, TypeOK, objectVars, osVars, threadVars
  <2>2. /\ OnlyCaller(c) /\ pc'[c] = "check" /\ runs' = runs /\ answer'[c] = answer[c]
        /\ op'[c] = called
    BY <1>0, <1>2 DEF IInv, TypeOK, OnlyCaller, osVars
  <2>3. ~Guarded(c)' /\ ~Executes(c)'
    BY <1>2, <2>2, ToolbarAssumption DEF Guarded, Executes
  <2>4. Well(c)
    BY <1>2, <2>1, <2>2, <2>3 DEF Well
  <2>5. Bounded'
    BY <2>2, <2>3, CallerPends DEF Pending
  <2>6. answer'[c] \in Statuses =>
          ("tryGetExitStatus" \notin Cancels =>
             answer'[c].kill \/ (~answer'[c].running /\ answer'[c].status = answer'[c].of))
    BY <2>2 DEF IInv, Answered, StatusOfTheProcess, Statuses
  <2> QED
    BY <1>0, <2>2, <2>3, <2>4, <2>5, <2>6, CallFrame
<1> QED
  BY <1>1, <1>2 DEF CancelAction

LEMMA RunCheckAndJoinStep ==
  ASSUME IInv, NEW c \in Callers, RunCheckAndJoin(c)
  PROVE  IInv'
<1>0. UNCHANGED <<objectVars, osVars, threadVars>> /\ pc[c] = "check"
  BY DEF RunCheckAndJoin
<1>1. CASE thread = None /\ Calls(c, "check", "go")
  BY <1>0, <1>1, CallsFrame
<1>2. CASE thread # None /\ ended /\ Calls(c, "check", "join")
  BY <1>0, <1>2, CallsFrame
<1>3. CASE Returns(c, NoStatus)
  BY <1>0, <1>3, NoStatusIs, ReturnsFrame
<1> QED
  BY <1>1, <1>2, <1>3 DEF RunCheckAndJoin

LEMMA JoinStep ==
  ASSUME IInv, NEW c \in Callers, Join(c)
  PROVE  IInv'
<1>0. UNCHANGED <<objectVars, osVars, threadVars>> /\ pc[c] = "join"
  BY DEF Join
<1>1. CASE Returns(c, NoStatus)
  BY <1>0, <1>1, NoStatusIs, ReturnsFrame
<1>2. CASE thread # None /\ (\A d \in Callers : pc[d] # "joining") /\ Calls(c, "join", "joining")
  BY <1>0, <1>2, CallsFrame
<1> QED
  BY <1>1, <1>2 DEF Join

LEMMA KillStep ==
  ASSUME IInv, NEW c \in Callers, Kill(c)
  PROVE  IInv'
<1>0. UNCHANGED <<objectVars, osVars, threadVars>> /\ pc[c] = "check" /\ op[c] = "kill"
  BY DEF Kill
<1>1. CASE Returns(c, NoStatus)
  BY <1>0, <1>1, NoStatusIs, ReturnsFrame
<1>2. CASE Calls(c, "check", "store")
  BY <1>0, <1>2, CallsFrame
<1> QED
  BY <1>1, <1>2 DEF Kill

LEMMA KilledStep ==
  ASSUME IInv, NEW c \in Callers, Killed(c)
  PROVE  IInv'
BY NoStatusIs, ReturnsFrame DEF Killed, Executes

-----------------------------------------------------------------------------

(* What LastRun looks among.                                               *)
Begun == {r \in Runs \ refused : child[r] \in {"running", "over"}}

LEMMA LastRunIsGreatest ==
  ASSUME NEW n \in Begun, \A s \in Begun : s <= n
  PROVE  LastRun = n
<1>1. ASSUME NEW m \in Begun, \A s \in Begun : s <= m
      PROVE  m = n
  BY <1>1, Constants DEF Begun, Runs
<1>2. n = CHOOSE r \in Begun : \A s \in Begun : s <= r
  BY <1>1
<1> QED
  BY <1>2 DEF LastRun, Begun

(* It is the last that got a thread, unless one is being launched.         *)
LEMMA BegunIs ==
  ASSUME IInv
  PROVE  /\ Started \subseteq Begun
         /\ \A r \in Begun \ Started : Launching /\ r = runs
         /\ \A r \in Begun : r <= runs
<1>1. ASSUME NEW r \in Begun  PROVE r <= runs
  BY <1>1 DEF IInv, Fresh, Begun, TypeOK, Runs
<1> QED
  BY <1>1 DEF IInv, Watched, Started, Begun

LEMMA LastRunIs ==
  ASSUME IInv, NEW n \in 0 .. MaxRuns, IsLast(n)
  PROVE  LastRun \in {n, runs} /\ (~Launching => LastRun = n)
<1>1. CASE Launching /\ runs \in Begun
  BY <1>1, BegunIs, LastRunIsGreatest
<1>2. CASE ~(Launching /\ runs \in Begun)
  <2>1. Begun = Started
    BY <1>2, BegunIs
  <2>2. CASE n = None
    <3>1. Begun = {}
      BY <2>1, <2>2 DEF IsLast
    <3> QED
      BY <2>2, <3>1 DEF LastRun, Begun
  <2>3. CASE n # None
    BY <2>1, <2>3, LastRunIsGreatest DEF IsLast
  <2> QED
    BY <2>2, <2>3
<1> QED
  BY <1>1, <1>2

(* While nobody launches a process and no thread is kept, none runs but    *)
(* those whose start was answered with an error.                           *)
LEMMA NoneRuns ==
  ASSUME IInv, thread = None, ~Launching
  PROVE  Running \ refused = {}
<1>1. ASSUME NEW r \in Running \ refused  PROVE FALSE
  <2>1. r \in Runs /\ r # None /\ child[r] = "running" /\ r <= runs
    BY <1>1, Constants DEF IInv, Fresh, TypeOK, Running, Runs
  <2>2. at[r] # "none"
    BY <1>1, <2>1 DEF IInv, Watched
  <2>3. thread = r
    BY <2>1, <2>2 DEF IInv, Threads
  <2> QED
    BY <2>1, <2>3
<1> QED
  BY <1>1

(* The mutex keeps two callers from starting processes.                    *)
LEMMA OneStarts ==
  ASSUME IInv, NEW c \in Callers, Guarded(c), pc[c] \in {"check", "join", "joining", "go"}
  PROVE  ~Launching
BY Constants DEF IInv, Held, Launching

LEMMA TryGetExitStatusStep ==
  ASSUME IInv, NEW c \in Callers, TryGetExitStatus(c)
  PROVE  IInv'
<1> DEFINE a == [is |-> "status", status |-> exitStatus, of |-> LastRun,
                 running |-> Running \ refused # {}, kill |-> kill]
<1>0. /\ pc[c] = "go" /\ op[c] = "tryGetExitStatus" /\ Returns(c, a)
      /\ UNCHANGED <<objectVars, osVars, threadVars>>
  BY DEF TryGetExitStatus
<1>1. PICK n \in 0 .. MaxRuns :
        /\ IsLast(n)
        /\ \/ exitStatus = n
           \/ kill
           \/ thread # None /\ at[thread] \notin {"over", "notify", "done"}
  BY DEF IInv, Known
<1>2. LastRun \in 0 .. MaxRuns
  BY <1>1, LastRunIs DEF IInv, TypeOK
<1>3. a \in Statuses
  BY <1>2 DEF IInv, TypeOK, Statuses
<1>4. ASSUME "tryGetExitStatus" \notin Cancels  PROVE a.kill \/ (~a.running /\ a.status = a.of)
  <2>1. Guarded(c)
    BY <1>0, <1>4 DEF Guarded
  <2>2. thread = None /\ ~Launching
    BY <1>0, <2>1, OneStarts DEF IInv, Newest
  <2>3. Running \ refused = {}
    BY <2>2, NoneRuns
  <2>4. LastRun = n
    BY <1>1, <2>2, LastRunIs
  <2> QED
    BY <1>1, <2>2, <2>3, <2>4
<1> HIDE DEF a
<1> QED
  BY <1>0, <1>3, <1>4, ReturnsFrame

-----------------------------------------------------------------------------

(* c keeps its answer.                                                     *)
LEMMA AnsweredStays ==
  ASSUME IInv, answer' = answer
  PROVE  Answered'
BY DEF IInv, Answered, StatusOfTheProcess

(* A plain answer of c's says nothing of a status.                         *)
LEMMA AnswerCounts ==
  ASSUME IInv, NEW c \in Callers, OnlyCaller(c), answer'[c] = NoStatus
  PROVE  Answered'
BY DEF IInv, Answered, StatusOfTheProcess, OnlyCaller, NoStatus

(* What is known of a report.                                              *)
LEMMA ReportSound ==
  ASSUME IInv, NEW i \in DOMAIN reports
  PROVE  /\ reports[i].run \in Runs /\ reports[i].callback \in Runs
         /\ child[reports[i].run] = "over" /\ at[reports[i].run] = "done"
         /\ reports[i].run \in own => reports[i].callback = reports[i].run
         /\ \A j \in 1 .. i - 1 : reports[j].run < reports[i].run
<1> DEFINE ReportType == [run : Runs, callback : Runs]
<1>1. reports \in Seq(ReportType)
  BY DEF IInv, TypeOK
<1> HIDE DEF ReportType
<1>2. reports[i] \in ReportType
  BY <1>1
<1>3. reports[i].run \in Runs /\ reports[i].callback \in Runs
  BY <1>2 DEF ReportType
<1> QED
  BY <1>3 DEF IInv, Reported, ExitsReported

(* Ends stay reported while processes that are over stay so.               *)
LEMMA ReportedStays ==
  ASSUME IInv, UNCHANGED <<reports, own>>,
         \A r \in Runs : child[r] = "over" => child'[r] = "over",
         \A r \in Runs : child[r] = "over" /\ at[r] = "done" => at'[r] = "done"
  PROVE  Reported'
BY ReportSound DEF Reported, ExitsReported

LEMMA JoinedStep ==
  ASSUME IInv, NEW c \in Callers, Joined(c)
  PROVE  IInv'
<1>a. PICK to \in {"reset", "go"} : to = IF op[c] = "kill" THEN "reset" ELSE "go"
  OBVIOUS
<1>0. /\ pc[c] = "joining" /\ at[thread] = "done" /\ thread' = None /\ Calls(c, "joining", to)
      /\ UNCHANGED <<process, kill, ended, exitStatus, onExit, osVars, threadVars>>
  BY <1>a DEF Joined
<1>1. /\ OnlyCaller(c) /\ pc'[c] = to /\ op' = op /\ lock' = lock /\ answer' = answer
  BY <1>0 DEF IInv, TypeOK, Calls, Goes, OnlyCaller
<1>2. TypeOK'
  BY <1>0, Constants DEF IInv, TypeOK, Calls, Goes, osVars, threadVars
<1>3. thread # None /\ thread \in Runs /\ thread = runs
  BY <1>0, Constants DEF IInv, JoinsAlone, TypeOK, Runs, Newest
<1>4. Well(c)
  BY <1>a, <1>0, <1>1, <1>2 DEF Well, IInv, Held, Guarded
<1>5. Held' /\ Bounded'
  BY <1>a, <1>0, <1>1, <1>4, WellHeld, CallerPends DEF Pending, Executes, osVars
<1>6. JoinsAlone'
  BY <1>a, <1>0, <1>1 DEF IInv, JoinsAlone, OnlyCaller
<1>7. Newest'
  BY <1>0 DEF IInv, Newest, osVars
<1>8. ~Launching /\ ~Launching'
  <2>1. ~Launching
    BY <1>3, Constants DEF Launching, IInv, Newest
  <2> QED
    BY <2>1, <1>a, <1>0, <1>1 DEF Launching, OnlyCaller, Executes
<1>9. Fresh' /\ Watched'
  BY <1>0, <1>8 DEF IInv, Fresh, Watched, Running, osVars, threadVars
<1>10. Threads'
  BY <1>0 DEF IInv, Threads, osVars, threadVars
<1>11. Callbacks' /\ Reported' /\ Answered'
  BY <1>0, <1>1, AnsweredStays DEF IInv, Callbacks, Reported, ExitsReported, osVars, threadVars
<1>12. Known'
  BY <1>0, <1>3, <1>8 DEF IInv, Known, IsLast, Started, osVars, threadVars
<1> QED
  BY <1>2, <1>5, <1>6, <1>7, <1>9, <1>10, <1>11, <1>12 DEF IInv

LEMMA ExecuteShortStep ==
  ASSUME IInv, NEW c \in Callers, ExecuteShort(c)
  PROVE  IInv'
<1>0. /\ pc[c] = "go" /\ Executes(c) /\ onExit' = Callback(c) /\ runs' = runs + 1
      /\ process' = runs' /\ Goes(c, "go", "destroy") /\ dying' = [dying EXCEPT ![c] = process]
      /\ own' = IF op[c] = "execute" THEN own \cup {runs'} ELSE own
      /\ UNCHANGED <<op, answer, lock, refused, thread, kill, ended, exitStatus, at, reports>>
  BY DEF ExecuteShort, threadVars
<1>1. PICK became \in {"failed", "running"} : child' = [child EXCEPT ![runs'] = became]
  BY DEF ExecuteShort
<1>2. /\ OnlyCaller(c) /\ pc'[c] = "destroy"
      /\ Guarded(c) /\ lock = c /\ thread = None /\ ~Launching
  BY <1>0, Constants, OneStarts DEF IInv, TypeOK, Goes, OnlyCaller, Held, Newest
<1>4. Bounded' /\ runs' \in Runs
  <2>1. Pending' = Pending \ {c} /\ c \in Pending
    BY <1>0, <1>2 DEF Pending, OnlyCaller, Executes
  <2>2. IsFiniteSet(Pending)
    BY Constants, FS_Subset DEF Pending
  <2>3. /\ Cardinality(Pending') = Cardinality(Pending) - 1
        /\ Cardinality(Pending) \in Nat /\ Cardinality(Pending') \in Nat
    BY <2>1, <2>2, FS_RemoveElement, FS_CardinalityType
  <2> QED
    BY <1>0, <2>3, Constants DEF IInv, Bounded, TypeOK, Runs
<1>5. TypeOK'
  <2>1. onExit' \in 0 .. MaxRuns /\ own' \in SUBSET Runs /\ process' \in 0 .. MaxRuns
    BY <1>0, <1>4 DEF IInv, TypeOK, Callback, Runs
  <2> QED
    BY <1>0, <1>1, <1>4, <2>1 DEF IInv, TypeOK, Goes, Runs
<1>6. Well(c)
  BY <1>0, <1>2, <1>5 DEF Well
<1>7. Held'
  BY <1>6, WellHeld
<1>8. JoinsAlone'
  BY <1>0, <1>2 DEF IInv, JoinsAlone, OnlyCaller
<1>9. Newest'
  BY <1>0, <1>2 DEF IInv, Newest, OnlyCaller, Guarded
<1>11. /\ Launching'
       /\ child'[runs'] = became /\ child[runs'] = "none" /\ at[runs'] = "none"
       /\ \A r \in Runs : r # runs' => child'[r] = child[r]
  <2>1. runs' > runs
    BY <1>0 DEF IInv, TypeOK
  <2> QED
    BY <1>0, <1>1, <1>2, <1>4, <2>1 DEF Launching, Executes, IInv, Fresh, TypeOK
<1>12. Fresh'
  <2>1. runs' > 0 /\ runs' > runs
    BY <1>0 DEF IInv, TypeOK
  <2>2. ASSUME NEW r \in Runs, r > runs'  PROVE r > runs /\ r # runs'
    BY <1>0, <2>2, Constants DEF IInv, TypeOK, Runs
  <2> QED
    <3>1. \A r \in Runs : r > runs' => at'[r] = "none" /\ child'[r] = "none"
      BY <1>0, <1>11, <2>2 DEF IInv, Fresh
    <3>2. runs' > 0 /\ at'[runs'] = "none" /\ child'[runs'] # "none"
      BY <1>0, <1>1, <1>11, <2>1
    <3> QED
      BY <3>1, <3>2 DEF Fresh
<1>13. Watched'
  <2>1. runs \in Nat /\ refused \subseteq 1 .. runs
    BY DEF IInv, TypeOK, Watched
  <2>2. refused' = refused /\ refused' \subseteq 1 .. runs' /\ runs' \notin refused'
    BY <1>0, <2>1
  <2>3. ASSUME NEW r \in Runs
        PROVE  /\ at'[r] # "none" => r \notin refused' /\ child'[r] \in {"running", "over"}
               /\ at'[r] = "none" /\ r <= runs' => r \in refused' \/ (Launching' /\ r = runs')
    <3>1. CASE r = runs'
      BY <1>0, <1>11, <3>1
    <3>2. CASE r # runs'
      <4>1. r <= runs' => r <= runs
        BY <1>0, <2>1, <3>2 DEF Runs
      <4>2. child'[r] = child[r] /\ at'[r] = at[r]
        BY <1>0, <1>11, <3>2
      <4> QED
        BY <1>2, <2>2, <4>1, <4>2 DEF IInv, Watched
    <3> QED
      BY <3>1, <3>2
  <2> QED
    BY <2>2, <2>3 DEF Watched
<1>14. Threads'
  BY <1>0, <1>11, <1>4, Constants DEF IInv, Threads, Callback, TypeOK
<1>15. Callbacks'
  <2>1. runs' \notin own
    BY <1>0 DEF IInv, Callbacks, TypeOK
  <2> QED
    <3>1. runs \in Nat /\ own \subseteq 1 .. runs
      BY DEF IInv, Callbacks, TypeOK
    <3>2. own' \subseteq 1 .. runs'
      BY <1>0, <3>1
    <3>3. runs' \in own' => onExit' = runs'
      BY <1>0, <2>1 DEF Callback
    <3> QED
      BY <3>2, <3>3 DEF Callbacks
<1>16. Reported'
  <2>1. ASSUME NEW i \in DOMAIN reports
        PROVE  /\ child'[reports[i].run] = "over" /\ reports[i].run # runs'
               /\ reports[i].run \in own' => reports[i].run \in own
    <3>1. reports[i].run \in Runs /\ child[reports[i].run] = "over"
      BY ReportSound
    <3>2. reports[i].run # runs'
      BY <3>1, <1>11
    <3>3. own' \subseteq own \cup {runs'}
      BY <1>0
    <3> QED
      BY <3>1, <3>2, <3>3, <1>11
  <2>2. reports' = reports /\ at' = at
    BY <1>0
  <2> QED
    BY <2>1, <2>2, ReportSound DEF Reported, ExitsReported
<1>17. Known'
  BY <1>0, <1>2 DEF IInv, Known, IsLast, Started
<1>18. Answered'
  BY <1>0, AnsweredStays
<1> QED
  BY <1>4, <1>5, <1>7, <1>8, <1>9, <1>12, <1>13, <1>14, <1>15, <1>16, <1>17, <1>18 DEF IInv

LEMMA LaunchStep ==
  ASSUME IInv, NEW c \in Callers, Launch(c)
  PROVE  IInv'
<1>0. /\ pc[c] = "destroy" /\ Executes(c)
      /\ UNCHANGED <<process, kill, ended, exitStatus, onExit, runs, child, own, reports>>
  BY DEF Launch, Destroyed
<1>1. /\ Returns(c, NoStatus)
      /\ \/ refused' = refused \cup {runs} /\ UNCHANGED <<thread, at>>
         \/ /\ child[runs] # "failed" /\ thread' = runs /\ at' = [at EXCEPT ![runs] = "start"]
            /\ UNCHANGED refused
  BY DEF Launch
<1>3. /\ OnlyCaller(c) /\ pc'[c] = "idle" /\ op'[c] = "kill" /\ answer'[c] = NoStatus
      /\ lock' # lock => lock = c
  BY <1>1 DEF IInv, TypeOK, Returns, OnlyCaller
<1>4. Launching /\ lock = c /\ thread = None /\ runs \in Runs /\ at[runs] = "none" /\ child[runs] # "none"
  BY <1>0, Constants DEF Launching, IInv, Held, Newest, Fresh, TypeOK, Runs
<1>5. TypeOK'
  <2>1. thread' \in 0 .. MaxRuns
    BY <1>1 DEF IInv, TypeOK
  <2>2. at' \in [Runs -> {"none", "start", "loop", "last", "over", "notify", "done", "crash"}]
    BY <1>1 DEF IInv, TypeOK
  <2>3. /\ pc' = [pc EXCEPT ![c] = "idle"] /\ op' = [op EXCEPT ![c] = "kill"]
        /\ dying' = [dying EXCEPT ![c] = None] /\ answer' = [answer EXCEPT ![c] = NoStatus]
        /\ lock' \in {lock, None}
    BY <1>1 DEF Returns
  <2>4. UNCHANGED <<runs, child, own, process, exitStatus, onExit, kill, ended, reports>>
    BY <1>0
  <2>5. refused' \in SUBSET Runs
    BY <1>1, <1>4 DEF IInv, TypeOK
  <2> QED
    BY <2>1, <2>2, <2>3, <2>4, <2>5, Constants DEF IInv, TypeOK
<1>6. Well(c)
  BY <1>3, <1>5 DEF Well
<1>7. Held' /\ Bounded'
  BY <1>0, <1>3, <1>6, WellHeld, CallerPends DEF Pending
<1>8. ~Launching'
  BY <1>3, <1>4, Constants DEF Launching, OnlyCaller, Executes, IInv, Held, Guarded
<1>9. JoinsAlone'
  BY <1>1, <1>3, <1>4 DEF IInv, JoinsAlone, OnlyCaller
<1>10. Newest'
  <2>1. \A d \in Callers : ~(Guarded(d)' /\ pc'[d] \in {"go", "destroy"})
    BY <1>3, <1>4 DEF IInv, Held, OnlyCaller, Guarded
  <2> QED
    BY <1>0, <1>1, <2>1 DEF IInv, Newest
<1>11. at' \in [Runs -> {"none", "start", "loop", "last", "over", "notify", "done", "crash"}]
       /\ \A r \in Runs : r # runs => at'[r] = at[r]
  BY <1>1, <1>4, <1>5 DEF IInv, TypeOK
<1>12. Fresh'
  <2>1. runs' = runs /\ child' = child /\ runs \in Nat
    BY <1>0 DEF IInv, TypeOK
  <2>2. ASSUME NEW r \in Runs, r > runs  PROVE at'[r] = at[r]
    BY <1>11, <2>1, <2>2 DEF Runs
  <2> QED
    BY <1>8, <2>1, <2>2 DEF IInv, Fresh
<1>13. Watched'
  <2>1. runs \notin refused /\ refused \subseteq 1 .. runs /\ child[runs] \in {"failed", "running", "over"}
    BY <1>4 DEF IInv, Watched, TypeOK
  <2>2. ASSUME NEW r \in Runs, r # runs
        PROVE  /\ at'[r] # "none" => r \notin refused' /\ child'[r] \in {"running", "over"}
               /\ at'[r] = "none" /\ r <= runs' => r \in refused'
    <3>1. at'[r] = at[r] /\ child'[r] = child[r] /\ (r \in refused' <=> r \in refused)
      BY <1>0, <1>1, <1>11, <2>2
    <3> QED
      BY <1>0, <2>2, <3>1 DEF IInv, Watched
  <2>3. /\ at'[runs] # "none" => runs \notin refused' /\ child'[runs] \in {"running", "over"}
        /\ at'[runs] = "none" => runs \in refused'
    <3>1. child' = child
      BY <1>0
    <3>2. CASE refused' = refused \cup {runs} /\ UNCHANGED <<thread, at>>
      BY <1>4, <3>2
    <3>3. CASE child[runs] # "failed" /\ at' = [at EXCEPT ![runs] = "start"] /\ UNCHANGED refused
      <4>1. at'[runs] = "start"
        BY <1>4, <3>3 DEF IInv, TypeOK
      <4> QED
        BY <2>1, <3>1, <3>3, <4>1
    <3> QED
      BY <1>1, <3>2, <3>3
  <2>4. refused' \subseteq 1 .. runs'
    <3>1. runs \in 1 .. runs /\ runs' = runs
      BY <1>0, <1>4 DEF Runs
    <3>2. refused' \subseteq refused \cup {runs}
      BY <1>1
    <3> QED
      BY <2>1, <3>1, <3>2
  <2> QED
    BY <1>0, <1>8, <2>2, <2>3, <2>4 DEF Watched
<1>14. Threads'
  <2>1. ASSUME NEW r \in Runs, at'[r] = at[r]
        PROVE  /\ at'[r] \in {"none", "done"}
               /\ at'[r] = "done" => child'[r] = "over"
    <3>1. at[r] \in {"none", "done"}
      BY <1>4, Constants DEF IInv, Threads, Runs
    <3> QED
      BY <1>0, <2>1, <3>1 DEF IInv, Threads
  <2>2. at'[runs] = at[runs] \/ (at'[runs] = "start" /\ thread' = runs)
    BY <1>1, <1>4 DEF IInv, TypeOK
  <2>3. ASSUME NEW r \in Runs
        PROVE  \/ at'[r] = "start" /\ thread' = r
               \/ at'[r] = "none"
               \/ at'[r] = "done" /\ child'[r] = "over"
    BY <1>11, <2>1, <2>2
  <2> QED
    BY <2>3 DEF Threads
<1>15. Callbacks'
  BY <1>0 DEF IInv, Callbacks
<1>16. Reported'
  BY <1>0, <1>1, <1>4, <1>11, ReportedStays
<1>17. Known'
  <2>1. PICK n \in 0 .. MaxRuns : IsLast(n) /\ (exitStatus = n \/ kill)
    BY <1>4 DEF IInv, Known
  <2>3. CASE UNCHANGED <<thread, at>>
    BY <1>0, <1>4, <2>1, <2>3 DEF Known, IsLast, Started
  <2>4. CASE thread' = runs /\ at' = [at EXCEPT ![runs] = "start"]
    <3>1. at'[runs] = "start" /\ runs # None /\ runs \in 0 .. MaxRuns
      BY <1>4, <2>4, Constants DEF IInv, TypeOK, Runs
    <3>2. Started' = Started \cup {runs}
      BY <1>4, <1>11, <3>1 DEF Started
    <3>3. \A s \in Started : s <= runs
      BY DEF IInv, Fresh, Started, TypeOK, Runs
    <3>4. IsLast(runs)'
      BY <1>0, <1>4, <3>1, <3>2, <3>3 DEF IsLast, IInv, TypeOK
    <3> QED
      BY <1>0, <2>4, <3>1, <3>4 DEF Known
  <2> QED
    BY <1>1, <2>3, <2>4
<1>18. Answered'
  BY <1>3, AnswerCounts
<1> QED
  BY <1>5, <1>7, <1>9, <1>10, <1>12, <1>13, <1>14, <1>15, <1>16, <1>17, <1>18 DEF IInv

LEMMA StoreKillStep ==
  ASSUME IInv, NEW c \in Callers, StoreKill(c)
  PROVE  IInv'
<1>0. /\ pc[c] = "store" /\ op[c] = "kill" /\ Calls(c, "store", "join") /\ kill' = TRUE
      /\ UNCHANGED <<process, thread, ended, exitStatus, onExit, osVars, threadVars>>
  BY DEF StoreKill, Calls, Goes, IInv, Held
<1>1. /\ OnlyCaller(c) /\ pc'[c] = "join" /\ op' = op /\ lock' = lock /\ answer' = answer
  BY <1>0 DEF IInv, TypeOK, Calls, Goes, OnlyCaller
<1>2. TypeOK'
  BY <1>0 DEF IInv, TypeOK, Calls, Goes, osVars, threadVars
<1>3. Well(c)
  BY <1>0, <1>1, <1>2 DEF Well, Guarded
<1>4. Held' /\ Bounded'
  BY <1>0, <1>1, <1>3, WellHeld, CallerPends DEF Pending, Executes, osVars
<1>5. Launching' <=> Launching
  BY <1>0, <1>1 DEF Launching, OnlyCaller, Executes
<1>6. JoinsAlone' /\ Newest'
  BY <1>0, <1>1 DEF IInv, JoinsAlone, Newest, OnlyCaller, Guarded, osVars
<1>7. Fresh' /\ Watched'
  BY <1>0, <1>5 DEF IInv, Fresh, Watched, Running, osVars, threadVars
<1>8. Threads' /\ Callbacks' /\ Known'
  BY <1>0 DEF IInv, Threads, Callbacks, Known, IsLast, Started, osVars, threadVars
<1>9. Reported' /\ Answered'
  BY <1>0, <1>1, ReportedStays, AnsweredStays DEF osVars, threadVars
<1> QED
  BY <1>2, <1>4, <1>6, <1>7, <1>8, <1>9 DEF IInv

LEMMA ResetProcessStep ==
  ASSUME IInv, NEW c \in Callers, ResetProcess(c)
  PROVE  IInv'
<1>0. /\ pc[c] = "reset" /\ op[c] = "kill" /\ Goes(c, "reset", "destroy") /\ process' = None
      /\ dying' = [dying EXCEPT ![c] = process]
      /\ UNCHANGED <<op, answer, lock, thread, kill, ended, exitStatus, onExit, osVars, threadVars>>
  BY DEF ResetProcess, Goes, IInv, Held
<1>1. OnlyCaller(c) /\ pc'[c] = "destroy"
  BY <1>0 DEF IInv, TypeOK, Goes, OnlyCaller
<1>2. TypeOK'
  BY <1>0, Constants DEF IInv, TypeOK, Goes, osVars, threadVars
<1>3. Well(c)
  BY <1>0, <1>1, <1>2 DEF Well, Guarded
<1>4. Held' /\ Bounded'
  BY <1>0, <1>1, <1>3, WellHeld, CallerPends DEF Pending, Executes, osVars
<1>5. Launching' <=> Launching
  BY <1>0, <1>1 DEF Launching, OnlyCaller, Executes
<1>6. JoinsAlone' /\ Newest'
  BY <1>0, <1>1 DEF IInv, JoinsAlone, Newest, OnlyCaller, Guarded, osVars
<1>7. Fresh' /\ Watched'
  BY <1>0, <1>5 DEF IInv, Fresh, Watched, Running, osVars, threadVars
<1>8. Threads' /\ Callbacks'
  BY <1>0 DEF IInv, Threads, Callbacks, osVars, threadVars
<1>9. Known'
  BY <1>0, <1>5 DEF IInv, Known, IsLast, Started, osVars, threadVars
<1>10. Reported' /\ Answered'
  BY <1>0, <1>1, ReportedStays, AnsweredStays DEF osVars, threadVars
<1> QED
  BY <1>2, <1>4, <1>6, <1>7, <1>8, <1>9, <1>10 DEF IInv

-----------------------------------------------------------------------------

(* A step of a lifetime thread or of a process leaves the calls as they    *)
(* are, and what is kept of the last run.                                  *)
Aside == UNCHANGED <<callVars, runs, own, refused, thread, process, onExit>>

LEMMA AsideFrame ==
  ASSUME IInv, Aside, TypeOK', Fresh', Watched', Threads', Reported', Known'
  PROVE  IInv'
<1>1. Held' /\ JoinsAlone' /\ Newest' /\ Answered'
  BY AnsweredStays DEF IInv, Held, JoinsAlone, Newest, Guarded, Aside, callVars
<1>2. Pending' = Pending
  BY DEF Pending, Executes, Aside, callVars
<1>3. Bounded'
  BY <1>2, PendingShrinks DEF Aside
<1>4. Callbacks'
  BY DEF IInv, Callbacks, Aside
<1> QED
  BY <1>1, <1>3, <1>4 DEF IInv

LEMMA LaunchingAside ==
  ASSUME Aside
  PROVE  Launching' <=> Launching
BY DEF Aside, Launching, Executes, callVars

(* A thread that is on its way is that of the last run, which nobody       *)
(* launches.                                                               *)
LEMMA ThreadIsLast ==
  ASSUME IInv, NEW r \in Runs, at[r] \notin {"none", "done"}
  PROVE  r = runs /\ thread = r /\ r # None /\ ~Launching
<1>1. thread = r /\ r # None
  BY Constants DEF IInv, Threads, Runs
<1>2. r = runs
  BY <1>1 DEF IInv, Newest
<1>3. ~Launching
  BY <1>1, Constants DEF Launching, IInv, Newest
<1> QED
  BY <1>1, <1>2, <1>3

(* The thread of r goes on to another place, and the processes are as      *)
(* they were.                                                              *)
LEMMA ThreadGoes ==
  ASSUME IInv, Aside, NEW r \in Runs, child' = child, kill' = kill, TypeOK', Reported', Known',
         at[r] \notin {"none", "done"},
         NEW to \in {"loop", "last", "crash", "over", "notify", "done"}, at' = [at EXCEPT ![r] = to],
         to = "last" => kill,
         to = "notify" => onExit # None,
         to \in {"over", "notify", "done"} => child[r] = "over"
  PROVE  IInv'
<1>1. r = runs /\ thread = r /\ ~Launching
  BY ThreadIsLast
<1>2. at'[r] = to /\ \A s \in Runs : s # r => at'[s] = at[s]
  BY DEF IInv, TypeOK
<1>3. ~Launching'
  BY <1>1, LaunchingAside
<1>4. Fresh'
  BY <1>1, <1>2, <1>3, Constants DEF IInv, Fresh, Aside, Runs, TypeOK
<1>5. Watched'
  <2>1. ASSUME NEW s \in Runs  PROVE at'[s] = "none" <=> at[s] = "none"
    BY <1>2
  <2> QED
    BY <1>1, <1>3, <2>1 DEF IInv, Watched, Aside
<1>6. Threads'
  <2>1. ASSUME NEW s \in Runs
        PROVE  /\ at'[s] \notin {"none", "done"} => thread' = s
               /\ at'[s] \in {"over", "notify", "done"} => child'[s] = "over"
               /\ at'[s] = "last" => kill'
               /\ at'[s] = "notify" => onExit' # None
    <3>1. CASE s = r
      BY <1>1, <1>2, <3>1 DEF Aside
    <3>2. CASE s # r
      BY <1>2, <3>2 DEF IInv, Threads, Aside
    <3> QED
      BY <3>1, <3>2
  <2> QED
    BY <2>1 DEF Threads
<1> QED
  BY <1>4, <1>5, <1>6, AsideFrame

LEMMA BeginStep ==
  ASSUME IInv, NEW r \in Runs, Begin(r)
  PROVE  IInv'
<1>1. /\ Aside /\ at[r] = "start" /\ at' = [at EXCEPT ![r] = "loop"] /\ ended' = FALSE
      /\ UNCHANGED <<child, kill, exitStatus, reports>>
  BY DEF Begin, Aside, osVars
<1>2. TypeOK'
  BY <1>1 DEF IInv, TypeOK, Aside, callVars
<1>3. thread = r /\ ~Launching /\ thread # None
  BY <1>1, ThreadIsLast
<1>4. at'[r] = "loop" /\ \A s \in Runs : s # r => at'[s] = at[s]
  BY <1>1 DEF IInv, TypeOK
<1>5. Reported'
  BY <1>1, <1>4, ReportedStays DEF Aside
<1>6. Known'
  BY <1>1, <1>3, <1>4 DEF IInv, Known, IsLast, Started, Aside
<1> QED
  BY <1>1, <1>2, <1>5, <1>6, ThreadGoes

LEMMA LoopStep ==
  ASSUME IInv, NEW r \in Runs, Loop(r)
  PROVE  IInv'
<1>1. PICK to \in {"last", "crash", "over"} :
        /\ Aside /\ at[r] = "loop" /\ at' = [at EXCEPT ![r] = to]
        /\ UNCHANGED <<child, kill, ended, reports>>
        /\ \/ to = "last" /\ kill /\ UNCHANGED exitStatus
           \/ to = "crash" /\ UNCHANGED exitStatus
           \/ to = "over" /\ ~kill /\ process # None /\ child[process] = "over" /\ exitStatus' = process
  BY DEF Loop, KeepStatus, Aside, osVars
<1>2. TypeOK'
  BY <1>1 DEF IInv, TypeOK, Aside, callVars
<1>3. thread = r /\ ~Launching /\ thread # None /\ r = runs
  BY <1>1, ThreadIsLast
<1>4. at'[r] = to /\ \A s \in Runs : s # r => at'[s] = at[s]
  BY <1>1 DEF IInv, TypeOK
<1>5. process \in {None, r}
  BY <1>3 DEF IInv, Newest
<1>6. Reported'
  BY <1>1, <1>4, ReportedStays DEF Aside
<1>7. Known'
  <2>1. PICK n \in 0 .. MaxRuns : IsLast(n) /\ n = r
    BY <1>3 DEF IInv, Known
  <2>2. IsLast(n)'
    BY <1>1, <2>1 DEF IsLast, Started
  <2>3. exitStatus' = n \/ kill' \/ at'[r] \notin {"over", "notify", "done"}
    BY <1>1, <1>4, <1>5, <2>1
  <2> QED
    BY <1>1, <1>3, <2>1, <2>2, <2>3 DEF Known, Aside
<1> QED
  BY <1>1, <1>2, <1>5, <1>6, <1>7, ThreadGoes

LEMMA WhenExitStep ==
  ASSUME IInv, NEW r \in Runs, WhenExit(r)
  PROVE  IInv'
<1>1. PICK to \in {"done", "notify"} :
        /\ Aside /\ at[r] = "over" /\ at' = [at EXCEPT ![r] = to] /\ ended' = TRUE
        /\ to = "notify" => onExit # None
        /\ UNCHANGED <<child, kill, exitStatus, reports>>
  BY DEF WhenExit, Aside, osVars
<1>2. TypeOK'
  BY <1>1 DEF IInv, TypeOK, Aside, callVars
<1>3. thread = r /\ ~Launching /\ child[r] = "over"
  BY <1>1, ThreadIsLast DEF IInv, Threads
<1>4. at'[r] = to /\ \A s \in Runs : s # r => at'[s] = at[s]
  BY <1>1 DEF IInv, TypeOK
<1>5. Reported'
  BY <1>1, <1>4, ReportedStays DEF Aside
<1>6. Known'
  BY <1>1, <1>3, <1>4 DEF IInv, Known, IsLast, Started, Aside
<1> QED
  BY <1>1, <1>2, <1>3, <1>5, <1>6, ThreadGoes

LEMMA ReportStep ==
  ASSUME IInv, NEW r \in Runs, Report(r)
  PROVE  IInv'
<1> DEFINE e == [run |-> r, callback |-> onExit]
<1>1. /\ Aside /\ at[r] = "notify" /\ at' = [at EXCEPT ![r] = "done"]
      /\ reports' = Append(reports, e)
      /\ UNCHANGED <<child, kill, ended, exitStatus, own>>
  BY DEF Report, Aside, objectVars, osVars
<1>2. thread = r /\ r = runs /\ ~Launching /\ child[r] = "over" /\ onExit \in Runs
  <2>1. child[r] = "over" /\ onExit # None /\ onExit \in 0 .. MaxRuns
    BY <1>1 DEF IInv, Threads, TypeOK
  <2> QED
    BY <1>1, <2>1, ThreadIsLast, Constants DEF Runs
<1>3. at'[r] = "done" /\ \A s \in Runs : s # r => at'[s] = at[s]
  BY <1>1 DEF IInv, TypeOK
<1>4. /\ reports' \in Seq([run : Runs, callback : Runs])
      /\ Len(reports) \in Nat /\ DOMAIN reports = 1 .. Len(reports)
      /\ DOMAIN reports' = 1 .. Len(reports) + 1
      /\ \A i \in 1 .. Len(reports) : reports'[i] = reports[i]
      /\ reports'[Len(reports) + 1] = e
  <2> DEFINE ReportType == [run : Runs, callback : Runs]
  <2>1. reports \in Seq(ReportType) /\ e \in ReportType
    BY <1>2 DEF IInv, TypeOK
  <2> HIDE DEF ReportType, e
  <2>2. /\ reports' \in Seq(ReportType)
        /\ Len(reports) \in Nat /\ DOMAIN reports = 1 .. Len(reports)
        /\ DOMAIN reports' = 1 .. Len(reports) + 1
        /\ \A i \in 1 .. Len(reports) : reports'[i] = reports[i]
        /\ reports'[Len(reports) + 1] = e
    BY <1>1, <2>1
  <2> QED
    BY <2>2 DEF ReportType
<1>5. TypeOK'
  BY <1>1, <1>4 DEF IInv, TypeOK, Aside, callVars
<1>6. ASSUME NEW j \in DOMAIN reports  PROVE reports[j].run < r
  <2>1. reports[j].run \in Runs /\ child[reports[j].run] = "over" /\ at[reports[j].run] = "done"
    BY ReportSound
  <2>2. ~(reports[j].run > runs) /\ reports[j].run # r
    BY <1>1, <2>1 DEF IInv, Fresh
  <2> QED
    BY <1>2, <2>1, <2>2 DEF Runs
<1>7. ASSUME NEW i \in DOMAIN reports'
      PROVE  /\ child'[reports'[i].run] = "over" /\ at'[reports'[i].run] = "done"
             /\ reports'[i].run \in own' => reports'[i].callback = reports'[i].run
             /\ \A j \in 1 .. i - 1 : reports'[j].run < reports'[i].run
  <2>1. CASE i = Len(reports) + 1
    <3>1. reports'[i].run = r /\ reports'[i].callback = onExit
      BY <1>4, <2>1
    <3>2. r \in own => onExit = r
      BY <1>2 DEF IInv, Callbacks
    <3>3. \A j \in 1 .. i - 1 : j \in DOMAIN reports /\ reports'[j] = reports[j]
      BY <1>4, <2>1
    <3> QED
      BY <1>1, <1>2, <1>3, <1>6, <3>1, <3>2, <3>3
  <2>2. CASE i \in DOMAIN reports
    <3>1. reports'[i] = reports[i] /\ \A j \in 1 .. i - 1 : reports'[j] = reports[j]
      BY <1>4, <2>2
    <3>2. at'[reports[i].run] = "done"
      BY <1>3, <2>2, ReportSound
    <3> QED
      BY <1>1, <2>2, <3>1, <3>2, ReportSound
  <2> QED
    BY <1>4, <2>1, <2>2
<1>8. Reported'
  BY <1>7 DEF Reported, ExitsReported
<1>9. Known'
  BY <1>1, <1>2, <1>3 DEF IInv, Known, IsLast, Started, Aside
<1> QED
  BY <1>1, <1>2, <1>5, <1>8, <1>9, ThreadGoes

(* A process that ran is over, by itself or as its thread killed it.       *)
LEMMA ChildOver ==
  ASSUME IInv, Aside, NEW r \in Runs, child[r] \in {"running", "over"},
         child' = [child EXCEPT ![r] = "over"],
         UNCHANGED <<kill, ended, exitStatus, own, reports>>, at' = at
  PROVE  IInv'
<1>1. child'[r] = "over" /\ \A s \in Runs : s # r => child'[s] = child[s]
  BY DEF IInv, TypeOK
<1>2. TypeOK'
  BY DEF IInv, TypeOK, Aside, callVars
<1>3. Launching' <=> Launching
  BY LaunchingAside
<1>4. Fresh'
  <2>1. ~(r > runs)
    BY DEF IInv, Fresh
  <2>2. Launching => runs \in Runs
    BY Constants DEF IInv, Fresh, TypeOK, Runs
  <2> QED
    BY <1>1, <1>3, <2>1, <2>2 DEF IInv, Fresh, Aside
<1>5. Watched'
  BY <1>1, <1>3 DEF IInv, Watched, Aside
<1>6. Threads' /\ Reported'
  BY <1>1, ReportedStays DEF IInv, Threads, Aside
<1>7. Known'
  BY DEF IInv, Known, IsLast, Started, Aside
<1> QED
  BY <1>2, <1>4, <1>5, <1>6, <1>7, AsideFrame

LEMMA ChildEndsStep ==
  ASSUME IInv, NEW r \in Runs, ChildEnds(r)
  PROVE  IInv'
BY ChildOver DEF ChildEnds, Aside, objectVars, threadVars

LEMMA LastStep ==
  ASSUME IInv, NEW r \in Runs, Last(r)
  PROVE  IInv'
<1>1. PICK to \in {"crash", "over"} :
        /\ Aside /\ at[r] = "last" /\ at' = [at EXCEPT ![r] = to]
        /\ UNCHANGED <<kill, ended, exitStatus, own, reports>>
        /\ \/ to = "crash" /\ child' = child
           \/ to = "over" /\ process # None /\ child' = [child EXCEPT ![process] = "over"]
  BY DEF Last, Aside, objectVars
<1>2. thread = r /\ r = runs /\ ~Launching /\ process \in {None, r} /\ kill
  BY <1>1, ThreadIsLast DEF IInv, Newest, Threads
<1>3. at'[r] = to /\ \A s \in Runs : s # r => at'[s] = at[s]
  BY <1>1 DEF IInv, TypeOK
<1>4. /\ to = "over" => child'[r] = "over"
      /\ child' \in [Runs -> {"none", "failed", "running", "over"}]
      /\ \A s \in Runs : s # r => child'[s] = child[s]
      /\ child'[r] \in {child[r], "over"}
  BY <1>1, <1>2 DEF IInv, TypeOK
<1>5. TypeOK'
  BY <1>1, <1>4 DEF IInv, TypeOK, Aside, callVars
<1>6. ~Launching'
  BY <1>1, <1>2, LaunchingAside
<1>7. Fresh'
  BY <1>1, <1>2, <1>3, <1>4, <1>6, Constants DEF IInv, Fresh, Aside, Runs, TypeOK
<1>8. Watched'
  <2>1. child[r] \in {"running", "over"}
    BY <1>1 DEF IInv, Watched
  <2>2. ASSUME NEW s \in Runs
        PROVE  /\ at'[s] = "none" <=> at[s] = "none"
               /\ child'[s] = child[s] \/ child'[s] = "over"
    BY <1>1, <1>3, <1>4
  <2> QED
    BY <1>1, <1>2, <1>6, <2>2 DEF IInv, Watched, Aside
<1>9. Threads'
  <2>1. ASSUME NEW s \in Runs
        PROVE  /\ at'[s] \notin {"none", "done"} => thread' = s
               /\ at'[s] \in {"over", "notify", "done"} => child'[s] = "over"
               /\ at'[s] = "last" => kill'
               /\ at'[s] = "notify" => onExit' # None
    <3>1. CASE s = r
      BY <1>1, <1>2, <1>3, <1>4, <3>1 DEF Aside
    <3>2. CASE s # r
      BY <1>1, <1>3, <1>4, <3>2 DEF IInv, Threads, Aside
    <3> QED
      BY <3>1, <3>2
  <2> QED
    BY <2>1 DEF Threads
<1>10. Reported'
  BY <1>1, <1>3, <1>4, ReportedStays
<1>11. Known'
  <2>1. PICK n \in 0 .. MaxRuns : IsLast(n) /\ n = r
    BY <1>2, ThreadIsLast, <1>1 DEF IInv, Known
  <2>3. Started' = Started
    BY <1>1, <1>3 DEF Started
  <2> QED
    BY <1>1, <1>2, <2>1, <2>3 DEF Known, IsLast, Aside
<1> QED
  BY <1>1, <1>5, <1>7, <1>8, <1>9, <1>10, <1>11, AsideFrame

-----------------------------------------------------------------------------

LEMMA Initially ==
  ASSUME Init
  PROVE  IInv
<1>1. /\ runs = 0 /\ child = [r \in Runs |-> "none"] /\ own = {} /\ refused = {} /\ process = None /\ thread = None
      /\ at = [r \in Runs |-> "none"] /\ kill = FALSE /\ ended = FALSE /\ exitStatus = None
      /\ onExit = None /\ reports = <<>> /\ lock = None /\ pc = [c \in Callers |-> "idle"]
      /\ op = [c \in Callers |-> "kill"] /\ dying = [c \in Callers |-> None]
      /\ answer = [c \in Callers |-> NoStatus]
  BY DEF Init
<1>3. TypeOK
  <2>1. /\ runs \in 0 .. MaxRuns /\ {own, refused} \subseteq SUBSET Runs /\ {kill, ended} \subseteq BOOLEAN
        /\ {process, thread, exitStatus, onExit} \subseteq 0 .. MaxRuns
        /\ dying \in [Callers -> 0 .. MaxRuns]
    <3>1. None \in 0 .. MaxRuns /\ 0 \in 0 .. MaxRuns
      BY Constants
    <3> QED
      BY <1>1, <3>1
  <2>2. reports \in Seq([run : Runs, callback : Runs])
    BY <1>1
  <2>3. answer \in [Callers -> {NoStatus} \cup Statuses]
    BY <1>1
  <2> QED
    BY <1>1, <2>1, <2>2, <2>3 DEF TypeOK
<1>4. Pending = {}
  BY <1>1 DEF Pending
<1>5. Bounded
  BY <1>1, <1>4, FS_EmptySet, Constants DEF Bounded
<1>6. Held /\ JoinsAlone /\ Newest
  BY <1>1 DEF Held, JoinsAlone, Newest, Guarded
<1>7. ~Launching /\ Started = {}
  BY <1>1 DEF Launching, Started
<1>8. Fresh /\ Threads /\ Callbacks
  BY <1>1, <1>7, Constants DEF Fresh, Threads, Callbacks
<1>12. Watched
  <2>1. \A r \in Runs : at[r] = "none" /\ ~(r <= runs)
    BY <1>1, Constants DEF Runs
  <2> QED
    BY <1>1, <1>7, <2>1 DEF Watched
<1>9. Reported
  BY <1>1 DEF Reported, ExitsReported
<1>10. Known
  BY <1>1, <1>7, Constants DEF Known, IsLast
<1>11. Answered
  BY <1>1 DEF Answered, StatusOfTheProcess, NoStatus
<1> QED
  BY <1>3, <1>5, <1>6, <1>8, <1>9, <1>10, <1>11, <1>12 DEF IInv

LEMMA Stutters ==
  ASSUME IInv, UNCHANGED vars
  PROVE  IInv'
<1>1. Aside /\ UNCHANGED <<child, at, kill, ended, exitStatus, own, reports>>
  BY DEF vars, Aside, callVars, objectVars, osVars, threadVars
<1>2. TypeOK'
  BY <1>1 DEF IInv, TypeOK, Aside, callVars
<1>3. Launching' <=> Launching
  BY <1>1, LaunchingAside
<1>4. Fresh' /\ Watched' /\ Threads'
  BY <1>1, <1>3 DEF IInv, Fresh, Watched, Running, Threads, Aside
<1>5. Reported'
  BY <1>1, ReportedStays
<1>6. Known'
  BY <1>1, <1>3 DEF IInv, Known, IsLast, Started, Aside
<1> QED
  BY <1>1, <1>2, <1>4, <1>5, <1>6, AsideFrame

LEMMA Inductive ==
  ASSUME IInv, [Next]_vars
  PROVE  IInv'
<1>1. ASSUME NEW c \in Callers, Request(c) \/ RequestCancel(c) \/ Action(c) \/ CancelAction(c)
      PROVE  IInv'
  BY <1>1, RequestStep, RequestCancelStep, ActionStep, CancelActionStep
<1>2. ASSUME NEW c \in Callers, ProcessCall(c)
      PROVE  IInv'
  BY <1>2, RunCheckAndJoinStep, JoinStep, JoinedStep, ExecuteShortStep, LaunchStep,
     TryGetExitStatusStep, KillStep, StoreKillStep, ResetProcessStep, KilledStep DEF ProcessCall
<1>3. ASSUME NEW r \in Runs, LifetimeStep(r) \/ ChildEnds(r)
      PROVE  IInv'
  BY <1>3, BeginStep, LoopStep, LastStep, WhenExitStep, ReportStep, ChildEndsStep DEF LifetimeStep
<1> QED
  BY <1>1, <1>2, <1>3, Stutters DEF Next, CallerStep

LEMMA Invariant == Spec => []IInv
BY Initially, Inductive, PTL DEF Spec

(* The members, threads and calls of a script's process (process.cpp:26-48  *)
(* and what it calls) have their types for any number of callers and runs. *)
THEOREM TypeCorrect == Spec => []TypeOK
<1>1. IInv => TypeOK
  BY DEF IInv
<1> QED
  BY <1>1, Invariant, PTL

(* OneAtATime holds for any number of callers and of processes.            *)
THEOREM OneAtATimeCorrect == Spec => []OneAtATime
<1>1. ASSUME IInv  PROVE OneAtATime
  <2>1. ASSUME NEW r \in Running, NEW s \in Running, r < s, r \notin refused
        PROVE  FALSE
    <3>1. ~(s > runs) /\ r \in Runs /\ s \in Runs /\ child[r] = "running"
      BY <1>1, <2>1 DEF IInv, Fresh, Running
    <3>2. r < runs /\ r <= runs /\ r # None
      BY <1>1, <2>1, <3>1, Constants DEF IInv, TypeOK, Runs
    <3>3. at[r] # "none"
      BY <1>1, <2>1, <3>1, <3>2 DEF IInv, Watched, TypeOK
    <3>4. thread = r
      BY <1>1, <3>1, <3>3 DEF IInv, Threads
    <3> QED
      BY <1>1, <3>2, <3>4 DEF IInv, Newest, TypeOK
  <2>2. \A r, s \in Running : r < s => r \in refused
    BY <2>1
  <2> QED
    BY <1>1, <2>2 DEF OneAtATime, IInv, Threads
<1> QED
  BY <1>1, Invariant, PTL

(* ExitsReported holds for any number of callers and of processes.         *)
THEOREM ExitsReportedCorrect == Spec => []ExitsReported
<1>1. IInv => ExitsReported
  BY DEF IInv, Reported
<1> QED
  BY <1>1, Invariant, PTL

(* StatusOfTheProcess holds for any number of callers and of processes, as *)
(* long as no cancel function asks for the status.                         *)
THEOREM StatusCorrect == Spec => []("tryGetExitStatus" \notin Cancels => StatusOfTheProcess)
<1>1. IInv => ("tryGetExitStatus" \notin Cancels => StatusOfTheProcess)
  BY DEF IInv, Answered
<1> QED
  BY <1>1, Invariant, PTL
=============================================================================
