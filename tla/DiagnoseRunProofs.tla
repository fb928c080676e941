------------------------- MODULE DiagnoseRunProofs -------------------------
(***************************************************************************)
(* Safety of DiagnoseRun for every number of cases and every deadline.     *)
(***************************************************************************)
EXTENDS DiagnoseRun, TLAPS

\* What the parent knows of the case it works on, by what it does next.
AttemptOK ==
    /\ phase \in {"poll", "look", "waiting"} => response[current] \notin {"stale", "removed"}
    /\ phase \in {"look", "bundle", "bundling"} => worker = "exited"
    /\ phase \in {"bundle", "bundling"} =>
          /\ outcome \in Verdicts \cup {"crashed", "timeout"}
          /\ outcome \in Verdicts => response[current] = outcome
          /\ outcome = "crashed" => response[current] = "none"

\* Before the current case everything is recorded, from it on nothing is.
ProgressOK ==
    /\ \A c \in Case : c >= current => status[c] = "none"
    /\ \A c \in Case : c < current =>
          /\ status[c] # "none"
          /\ status[c] \in {"failed", "crashed", "timeout"} => bundle[c] = "whole"
    /\ phase \in {"renaming", "done"} => current > Cases
    /\ snapshot = "new" => phase = "done"

WorkerOK == worker \in {"drafted", "answered"} => draft \in Verdicts

IInv == /\ TypeOK /\ AttemptOK /\ ProgressOK /\ WorkerOK
        /\ RecordsMatchResponses /\ NoWorkerLeftBehind

LEMMA CaseFacts == Cases \in Nat /\ Timeout \in Nat
BY RunAssumption

USE CaseFacts

LEMMA InitInv ==
    ASSUME Init PROVE IInv
BY DEF Init, IInv, TypeOK, AttemptOK, ProgressOK, WorkerOK, RecordsMatchResponses,
       NoWorkerLeftBehind, Case, Statuses, Verdicts, Alive, Stopped

\* A worker that lives works on a case of which nothing is recorded.
LEMMA AliveFacts ==
    ASSUME IInv, worker \in Alive
    PROVE  current \in Case /\ status[current] = "none"
BY DEF IInv, TypeOK, ProgressOK, Alive, Case

LEMMA WorkerStep ==
    ASSUME IInv, Draft \/ Answer \/ Exit
    PROVE  IInv'
<1>1. CASE Draft
  BY <1>1 DEF Draft, IInv, TypeOK, AttemptOK, ProgressOK, WorkerOK, RecordsMatchResponses,
              NoWorkerLeftBehind, Alive, Statuses, inputs, parent
<1>2. CASE Exit
  BY <1>2 DEF Exit, IInv, TypeOK, AttemptOK, ProgressOK, WorkerOK, RecordsMatchResponses,
              NoWorkerLeftBehind, Alive, Statuses, inputs, parent
<1>3. CASE Answer
  <2>0. /\ worker = "drafted" /\ worker' = "answered" /\ draft \in Verdicts
        /\ response' = [response EXCEPT ![current] = draft]
        /\ UNCHANGED <<inputs, parent, clock, draft>>
    BY <1>3 DEF Answer, IInv, WorkerOK
  <2>1. current \in Case /\ status[current] = "none"
    BY <2>0, AliveFacts DEF Alive
  <2>2. phase \in {"poll", "waiting", "failed", "dead"}
    BY <2>0 DEF IInv, NoWorkerLeftBehind, Alive
  <2>3. TypeOK' /\ AttemptOK' /\ WorkerOK' /\ NoWorkerLeftBehind'
    BY <2>0, <2>1, <2>2 DEF IInv, TypeOK, AttemptOK, WorkerOK, NoWorkerLeftBehind,
                            Alive, Verdicts, inputs, parent
  <2>4. ProgressOK'
    BY <2>0 DEF IInv, ProgressOK, parent
  <2>5. RecordsMatchResponses'
    BY <2>0, <2>1 DEF IInv, TypeOK, RecordsMatchResponses, Verdicts, parent
  <2>6. QED BY <2>3, <2>4, <2>5 DEF IInv
<1>4. QED BY <1>1, <1>2, <1>3

LEMMA PollingStep ==
    ASSUME IInv, Launch \/ Poll \/ Look \/ Wait \/ TimeOut \/ Tick
    PROVE  IInv'
<1>1. CASE Launch
  <2>1. current \in Case /\ phase = "next" /\ status[current] = "none"
    BY <1>1 DEF Launch, Compile, IInv, ProgressOK, Case
  <2>2. QED BY <1>1, <2>1 DEF Launch, IInv, TypeOK, AttemptOK, ProgressOK, WorkerOK,
               RecordsMatchResponses, NoWorkerLeftBehind, Alive, Stopped, Verdicts, inputs, Case
<1>2. CASE Poll \/ Wait \/ Tick
  BY <1>2 DEF Poll, Wait, Tick, IInv, TypeOK, AttemptOK, ProgressOK, WorkerOK,
              RecordsMatchResponses, NoWorkerLeftBehind, Alive, Stopped, inputs, parent
<1>3. CASE TimeOut
  BY <1>3 DEF TimeOut, IInv, TypeOK, AttemptOK, ProgressOK, WorkerOK,
              RecordsMatchResponses, NoWorkerLeftBehind, Alive, Stopped, Statuses, Verdicts, inputs
<1>4. CASE Look
  <2>1. current \in Case /\ response[current] \in Verdicts \cup {"none", "removed"}
    BY <1>4 DEF Look, IInv, TypeOK, AttemptOK, Stopped
  <2>2. response[current] # "removed"
    BY <1>4 DEF Look, IInv, AttemptOK
  <2>3. TypeOK' /\ AttemptOK'
    BY <1>4, <2>1, <2>2 DEF Look, IInv, TypeOK, AttemptOK, Stopped, Statuses, Verdicts, inputs
  <2>4. QED BY <1>4, <2>3 DEF Look, IInv, ProgressOK, WorkerOK, RecordsMatchResponses,
                              NoWorkerLeftBehind, Alive, Verdicts
<1>5. QED BY <1>1, <1>2, <1>3, <1>4

\* Recording the current case under the outcome run_worker returned.
LEMMA RecordStep ==
    ASSUME IInv, Exclude \/ EndBundle \/ Record
    PROVE  IInv'
<1>0. current \in Case /\ worker \notin Alive
  BY DEF Exclude, EndBundle, Record, IInv, TypeOK, NoWorkerLeftBehind, Stopped, Alive
<1>1. PICK s \in Verdicts \cup {"excluded", "crashed", "timeout"} :
        /\ status' = [status EXCEPT ![current] = s]
        /\ s \in Verdicts => response[current] = s
        /\ s = "crashed" => response[current] = "none"
        /\ s \in {"failed", "crashed", "timeout"} => bundle'[current] = "whole"
  <2>1. CASE Exclude
    BY <2>1 DEF Exclude, Recorded, Verdicts
  <2>2. CASE EndBundle
    BY <2>2, <1>0 DEF EndBundle, Recorded, IInv, TypeOK, AttemptOK
  <2>3. CASE Record
    BY <2>3 DEF Record, Recorded, Bundled, IInv, AttemptOK, Verdicts
  <2>4. QED BY <2>1, <2>2, <2>3
<1>2. /\ current' = current + 1 /\ phase' = "next"
      /\ bundle' \in [Case -> {"old", "partial", "whole"}]
      /\ \A c \in Case : c # current => bundle'[c] = bundle[c]
      /\ phase \in {"next", "bundle", "bundling"}
      /\ UNCHANGED <<inputs, clock, outcome, worker, draft, response, snapshot>>
  BY DEF Exclude, EndBundle, Record, Recorded, IInv, TypeOK
<1>3. snapshot = "old"
  BY <1>2 DEF IInv, TypeOK, ProgressOK
<1>4. TypeOK'
  BY <1>0, <1>1, <1>2 DEF IInv, TypeOK, Statuses, Stopped, Case, Alive, inputs
<1>5. ProgressOK'
  <2>1. current \in 1 .. Cases /\ current \in Int
    BY <1>0 DEF Case
  <2>2. \A c \in Case : c >= current' => status'[c] = "none"
    BY <1>1, <1>2, <2>1 DEF IInv, ProgressOK, TypeOK, Case
  <2>3. ASSUME NEW c \in Case, c < current'
        PROVE  /\ status'[c] # "none"
               /\ status'[c] \in {"failed", "crashed", "timeout"} => bundle'[c] = "whole"
    <3>1. CASE c = current
      BY <3>1, <1>0, <1>1 DEF IInv, TypeOK, Verdicts
    <3>2. CASE c # current
      BY <3>2, <1>1, <1>2, <2>1, <2>3 DEF IInv, ProgressOK, TypeOK, Case
    <3>3. QED BY <3>1, <3>2
  <2>4. QED BY <1>2, <1>3, <2>2, <2>3 DEF ProgressOK
<1>6. RecordsMatchResponses'
  BY <1>0, <1>1, <1>2 DEF IInv, TypeOK, RecordsMatchResponses
<1>7. AttemptOK' /\ WorkerOK' /\ NoWorkerLeftBehind'
  BY <1>0, <1>2 DEF IInv, AttemptOK, WorkerOK, NoWorkerLeftBehind
<1>8. QED BY <1>4, <1>5, <1>6, <1>7 DEF IInv

LEMMA ReportStep ==
    ASSUME IInv, BeginBundle \/ WriteSnapshot \/ RenameSnapshot \/ Fail \/ Die
    PROVE  IInv'
<1>1. CASE BeginBundle
  <2>1. current \in Case
    BY <1>1 DEF BeginBundle, IInv, TypeOK, Stopped
  <2>2. QED BY <1>1, <2>1 DEF BeginBundle, IInv, TypeOK, AttemptOK, ProgressOK, WorkerOK,
              RecordsMatchResponses, NoWorkerLeftBehind, Alive, Stopped, inputs, Case
<1>2. CASE WriteSnapshot \/ RenameSnapshot
  <2>1. CASE WriteSnapshot
    <3>1. TypeOK'
      BY <2>1 DEF WriteSnapshot, CleanUp, IInv, TypeOK, Stopped, Case, inputs
    <3>2. AttemptOK' /\ ProgressOK' /\ WorkerOK'
      BY <2>1 DEF WriteSnapshot, CleanUp, IInv, TypeOK, AttemptOK, ProgressOK, WorkerOK, Case,
                  inputs
    <3>3. RecordsMatchResponses' /\ NoWorkerLeftBehind'
      BY <2>1 DEF WriteSnapshot, CleanUp, IInv, TypeOK, ProgressOK, RecordsMatchResponses,
                  NoWorkerLeftBehind, Alive, Stopped, inputs, Case
    <3>4. QED BY <3>1, <3>2, <3>3 DEF IInv
  <2>2. CASE RenameSnapshot
    BY <2>2 DEF RenameSnapshot, IInv, TypeOK, AttemptOK, ProgressOK, WorkerOK,
                RecordsMatchResponses, NoWorkerLeftBehind, Alive, Stopped, inputs, Case
  <2>3. QED BY <1>2, <2>1, <2>2
<1>3. CASE Fail \/ Die
  BY <1>3 DEF Fail, Die, IInv, TypeOK, AttemptOK, ProgressOK, WorkerOK,
              RecordsMatchResponses, NoWorkerLeftBehind, Alive, Stopped, inputs
<1>4. QED BY <1>1, <1>2, <1>3

LEMMA NextInv ==
    ASSUME IInv, [Next]_vars PROVE IInv'
<1>1. CASE UNCHANGED vars
  BY <1>1 DEF vars, inputs, parent, IInv, TypeOK, AttemptOK, ProgressOK, WorkerOK,
              RecordsMatchResponses, NoWorkerLeftBehind
<1>2. QED BY <1>1, WorkerStep, PollingStep, RecordStep, ReportStep DEF Next, ParentStep

LEMMA Inductive == Spec => []IInv
<1>1. Init => IInv
  BY InitInv
<1>2. IInv /\ [Next]_vars => IInv'
  BY NextInv
<1>3. QED BY <1>1, <1>2, PTL DEF Spec

\* The parent's phase always says whether there is a current case, and the files
\* of every case hold one of the contents the two processes write.
THEOREM TypeCorrect == Spec => []TypeOK
<1>1. IInv => TypeOK
  BY DEF IInv
<1>2. QED BY <1>1, Inductive, PTL

\* What diagnose records of a case is what its worker left of it, whenever
\* either process dies and however the answer races the deadline.
THEOREM RecordsCorrect == Spec => []RecordsMatchResponses
<1>1. IInv => RecordsMatchResponses
  BY DEF IInv
<1>2. QED BY <1>1, Inductive, PTL

\* At most one worker runs, and none once the run is complete.
THEOREM WorkersReaped == Spec => []NoWorkerLeftBehind
<1>1. IInv => NoWorkerLeftBehind
  BY DEF IInv
<1>2. QED BY <1>1, Inductive, PTL

\* The snapshot file is whole wherever the parent dies or gives up, as long as
\* the host does not crash (write_snapshot).
THEOREM SnapshotCorrect == Spec => []SnapshotWhole
<1>1. ASSUME IInv PROVE SnapshotWhole
  <2>1. snapshot \in {"old", "new"}
    BY <1>1 DEF IInv, TypeOK
  <2>2. ASSUME snapshot = "new", NEW c \in Case PROVE c < current
    BY <1>1, <2>2 DEF IInv, TypeOK, ProgressOK, Case
  <2>3. QED BY <1>1, <2>1, <2>2 DEF IInv, ProgressOK, SnapshotWhole
<1>2. QED BY <1>1, Inductive, PTL
=============================================================================
