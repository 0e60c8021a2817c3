---------------------------- MODULE LogRotation ----------------------------
(***************************************************************************)
(* log.cpp of the worker and of the backend: the logs of earlier runs are  *)
(* copied one number up before a log is opened.  The process may die in    *)
(* between.  A log is the number of the run that wrote it.                 *)
(***************************************************************************)
EXTENDS Naturals, Integers, Sequences, SequencesExt

NoLog == 0

(* A copy that was begun and not ended.                                    *)
Half == -1

(* The next copy was not begun.                                            *)
Untouched == -2

NoLogs(rotation) == [n \in 0 .. rotation |-> NoLog]

(* The number of the log that is copied by the i-th round of shiftLog.     *)
FromEnd(rotation, i) == rotation - i - 1

(* A slip: the newest log is copied first.                                 *)
CopyUpwards(logs, rotation, i) ==
  IF logs[i] = NoLog THEN logs ELSE [logs EXCEPT ![i + 1] = logs[i]]

Copy(logs, rotation, i) ==
  LET from == FromEnd(rotation, i)
  IN IF logs[from] = NoLog THEN logs ELSE [logs EXCEPT ![from + 1] = logs[from]]

(* The process dies in the i-th round, when the older log was removed, as  *)
(* the backend does, or is half overwritten.                               *)
BreakOff(logs, rotation, i, left) ==
  LET from == FromEnd(rotation, i)
  IN IF logs[from] = NoLog THEN logs ELSE [logs EXCEPT ![from + 1] = left]

(* The first rounds of shiftLog.                                           *)
Shifted(logs, rotation, rounds) ==
  FoldLeft(LAMBDA l, i : Copy(l, rotation, i), logs, [i \in 1 .. rounds |-> i - 1])

(* Logger::open; rounds is how many rounds are done before the process     *)
(* dies, and left what it leaves of the next; it does not die if rounds is *)
(* past the rotation.                                                      *)
OpenLog(logs, rotation, run, rounds, left) ==
  IF rotation < 0 THEN logs
  ELSE IF rounds > rotation THEN [Shifted(logs, rotation, rotation) EXCEPT ![0] = run]
  ELSE IF rounds < rotation /\ left \in {NoLog, Half}
       THEN BreakOff(Shifted(logs, rotation, rounds), rotation, rounds, left)
       ELSE Shifted(logs, rotation, rounds)

(* What is left of the logs after runs that began like this.               *)
LogsAfter(rotation, starts) ==
  FoldLeft(LAMBDA logs, n : OpenLog(logs, rotation, n, starts[n].rounds, starts[n].left),
           NoLogs(rotation), [n \in 1 .. Len(starts) |-> n])
=============================================================================
