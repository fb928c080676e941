---------------------------- MODULE DiagnoseRun ----------------------------
(***************************************************************************)
(* psrs diagnose: a parent compiles one case after another in a worker     *)
(* process, polls it against a deadline, and stores a snapshot of all      *)
(* outcomes (psrs-cli/src/diagnose).  The two processes share the files of *)
(* the case: a response the worker publishes by renaming it into place.    *)
(* Either process may die at any moment, and any file operation may fail;  *)
(* the host itself does not crash: what was written stays written.         *)
(***************************************************************************)
EXTENDS Integers

CONSTANTS Cases,    \* how many cases the corpus selects
          Timeout   \* the deadline of a worker, in ticks of the clock

ASSUME RunAssumption == Cases \in Nat \ {0} /\ Timeout \in Nat \ {0}

Case == 1 .. Cases
Verdicts == {"passed", "failed"}
Statuses == Verdicts \cup {"excluded", "crashed", "timeout"}

VARIABLES
    foreign,   \* the cases with a foreign import, which are not compiled
    trace,     \* --trace: every case gets a bundle
    phase,     \* what the parent does next
    current,   \* the case it works on
    clock,     \* ticks since its worker was started
    outcome,   \* what run_worker returned, until it is recorded
    worker,    \* the worker of the current case
    draft,     \* the verdict in the worker's temporary file
    response,  \* the response file of every case
    status,    \* the recorded cases
    bundle,    \* the bundle directory of every case
    snapshot   \* the snapshot file

inputs == <<foreign, trace>>
parent == <<phase, current, outcome, status, bundle, snapshot>>
vars == <<inputs, parent, clock, worker, draft, response>>

Alive == {"compiling", "drafted", "answered"}
Stopped == {"done", "failed", "dead"}

-----------------------------------------------------------------------------
(* The worker *)

\* It compiles the case and writes the response to a temporary file, ...
Draft == /\ worker = "compiling"
         /\ draft' \in Verdicts
         /\ worker' = "drafted"
         /\ UNCHANGED <<inputs, parent, clock, response>>

\* ... which it renames into place.
Answer == /\ worker = "drafted"
          /\ response' = [response EXCEPT ![current] = draft]
          /\ worker' = "answered"
          /\ UNCHANGED <<inputs, parent, clock, draft>>

\* It exits, after its answer or with an error, a panic or a signal before.
Exit == /\ worker \in Alive
        /\ worker' = "exited"
        /\ UNCHANGED <<inputs, parent, clock, draft, response>>

-----------------------------------------------------------------------------
(* run_worker *)

Compile == phase = "next" /\ current \in Case \ foreign

\* Mutant: a directory of an earlier process with this id is used as it is.
LaunchUncleared == /\ Compile
                   /\ worker' = "compiling"
                   /\ clock' = 0
                   /\ phase' = "poll"
                   /\ UNCHANGED <<inputs, current, outcome, draft, response, status, bundle,
                                  snapshot>>

\* The case's directory is removed before the worker starts.  Its error is
\* ignored too: that a directory of its own user cannot be removed is left out.
Launch == /\ Compile
          /\ response' = [response EXCEPT ![current] = "none"]
          /\ worker' = "compiling"
          /\ clock' = 0
          /\ phase' = "poll"
          /\ UNCHANGED <<inputs, current, outcome, draft, status, bundle, snapshot>>

\* Mutant: the file is looked for before the worker is known to be gone.
PollEarly == /\ phase = "poll"
             /\ phase' = IF worker = "compiling" THEN "waiting" ELSE "look"
             /\ UNCHANGED <<inputs, current, clock, outcome, worker, draft, response, status,
                            bundle, snapshot>>

\* try_wait
Poll == /\ phase = "poll"
        /\ phase' = IF worker = "exited" THEN "look" ELSE "waiting"
        /\ UNCHANGED <<inputs, current, clock, outcome, worker, draft, response, status, bundle,
                       snapshot>>

\* An exited worker counts by its response, not by its exit status.
Look == /\ phase = "look"
        /\ outcome' = IF response[current] = "none" THEN "crashed" ELSE response[current]
        /\ phase' = "bundle"
        /\ UNCHANGED <<inputs, current, clock, worker, draft, response, status, bundle, snapshot>>

\* Mutant: every poll starts the clock anew.
WaitAnew == /\ phase = "waiting" /\ clock < Timeout
            /\ phase' = "poll"
            /\ clock' = 0
            /\ UNCHANGED <<inputs, current, outcome, worker, draft, response, status, bundle,
                           snapshot>>

\* The deadline has not passed: sleep and poll again.
Wait == /\ phase = "waiting" /\ clock < Timeout
        /\ phase' = "poll"
        /\ UNCHANGED <<inputs, current, clock, outcome, worker, draft, response, status, bundle,
                       snapshot>>

\* Mutant: the worker is given up, not killed.
TimeOutLeaving == /\ phase = "waiting" /\ clock >= Timeout
                  /\ outcome' = "timeout"
                  /\ phase' = "bundle"
                  /\ UNCHANGED <<inputs, current, clock, worker, draft, response, status, bundle,
                                 snapshot>>

\* The deadline has passed: kill the worker and wait for it.
TimeOut == /\ phase = "waiting" /\ clock >= Timeout
           /\ worker' = "exited"
           /\ outcome' = "timeout"
           /\ phase' = "bundle"
           /\ UNCHANGED <<inputs, current, clock, draft, response, status, bundle, snapshot>>

Tick == /\ phase \in {"poll", "waiting"} /\ clock < Timeout
        /\ clock' = clock + 1
        /\ UNCHANGED <<inputs, parent, worker, draft, response>>

-----------------------------------------------------------------------------
(* diagnose *)

Recorded(s) == /\ status' = [status EXCEPT ![current] = s]
               /\ current' = current + 1
               /\ phase' = "next"

Exclude == /\ phase = "next" /\ current \in Case \cap foreign
           /\ Recorded("excluded")
           /\ UNCHANGED <<inputs, clock, outcome, worker, draft, response, bundle, snapshot>>

\* Every case but a passed one gets a bundle, a passed one when it is traced.
Bundled(s) == s # "passed" \/ trace

\* write_bundle replaces the directory file by file.
BeginBundle == /\ phase = "bundle" /\ Bundled(outcome)
               /\ bundle' = [bundle EXCEPT ![current] = "partial"]
               /\ phase' = "bundling"
               /\ UNCHANGED <<inputs, current, clock, outcome, worker, draft, response, status,
                              snapshot>>

EndBundle == /\ phase = "bundling"
             /\ bundle' = [bundle EXCEPT ![current] = "whole"]
             /\ Recorded(outcome)
             /\ UNCHANGED <<inputs, clock, outcome, worker, draft, response, snapshot>>

Record == /\ phase = "bundle" /\ ~Bundled(outcome)
          /\ Recorded(outcome)
          /\ UNCHANGED <<inputs, clock, outcome, worker, draft, response, bundle, snapshot>>

\* The work directory goes; an error of the removal is ignored.
CleanUp == /\ phase = "next" /\ current > Cases
           /\ phase' = "renaming"
           /\ response' \in {response, [c \in Case |-> "removed"]}

\* Mutant: the snapshot is written in place.
WriteSnapshotInPlace == /\ CleanUp
                        /\ snapshot' = "torn"
                        /\ UNCHANGED <<inputs, current, clock, outcome, worker, draft, status,
                                       bundle>>

\* write_snapshot: the temporary file is written, ...
WriteSnapshot == /\ CleanUp
                 /\ UNCHANGED <<inputs, current, clock, outcome, worker, draft, status, bundle,
                                snapshot>>

\* ... then renamed.
RenameSnapshot == /\ phase = "renaming"
                  /\ snapshot' = "new"
                  /\ phase' = "done"
                  /\ UNCHANGED <<inputs, current, clock, outcome, worker, draft, response,
                                 status, bundle>>

\* A file or process operation fails: the run ends with an error.
Fail == /\ phase \notin Stopped
        /\ phase' = "failed"
        /\ UNCHANGED <<inputs, current, clock, outcome, worker, draft, response, status, bundle,
                       snapshot>>

\* The parent is killed.  Its worker goes on.
Die == /\ phase \notin Stopped
       /\ phase' = "dead"
       /\ UNCHANGED <<inputs, current, clock, outcome, worker, draft, response, status, bundle,
                      snapshot>>

-----------------------------------------------------------------------------
\* A process that had the same id may have left files (diagnose removes them but
\* ignores an error), and so may an earlier run with the same output.
Init ==
    /\ foreign \in SUBSET Case /\ trace \in BOOLEAN
    /\ phase = "next" /\ current = 1 /\ clock = 0 /\ outcome = "none"
    /\ worker = "none" /\ draft = "none"
    /\ \E left \in {"none", "stale"} : response = [c \in Case |-> left]
    /\ status = [c \in Case |-> "none"]
    /\ bundle = [c \in Case |-> "old"]
    /\ snapshot = "old"

ParentStep == \/ Launch \/ Poll \/ Look \/ Wait \/ TimeOut
              \/ Exclude \/ BeginBundle \/ EndBundle \/ Record
              \/ WriteSnapshot \/ RenameSnapshot

Next == ParentStep \/ Tick \/ Draft \/ Answer \/ Exit \/ Fail \/ Die

\* The parent polls, and time passes; the worker promises nothing.
Spec == Init /\ [][Next]_vars /\ WF_vars(ParentStep) /\ WF_vars(Tick)

-----------------------------------------------------------------------------
(* Properties *)

TypeOK ==
    /\ foreign \in SUBSET Case /\ trace \in BOOLEAN
    /\ phase \in {"next", "poll", "look", "waiting", "bundle", "bundling", "renaming"} \cup Stopped
    /\ current \in 1 .. Cases + 1 /\ clock \in 0 .. Timeout
    /\ phase \notin {"next", "renaming"} \cup Stopped => current \in Case
    /\ outcome \in Statuses \cup {"none"}
    /\ worker \in Alive \cup {"none", "exited"} /\ draft \in Verdicts \cup {"none"}
    /\ worker # "none" => current \in Case \/ worker = "exited"
    /\ response \in [Case -> Verdicts \cup {"none", "stale", "removed"}]
    /\ status \in [Case -> Statuses \cup {"none"}]
    /\ bundle \in [Case -> {"old", "partial", "whole"}]
    /\ snapshot \in {"old", "new"}

\* What is recorded of a case is what its worker left: a verdict is the one in
\* its response and none of an earlier process, and a worker that crashed has
\* left none, not even later (run_worker: try_wait before the file).
RecordsMatchResponses ==
    \A c \in Case :
        /\ status[c] \in Verdicts => response[c] \in {status[c], "removed"}
        /\ status[c] = "crashed" => response[c] \in {"none", "removed"}

\* No two workers run at once, and none survives a run that completes: the
\* parent moves on only after it saw its worker gone or killed it.
NoWorkerLeftBehind ==
    worker \in Alive => phase \in {"poll", "waiting", "failed", "dead"}

\* Wherever the parent dies or gives up, the snapshot file is the old one or the
\* new one with every case and every bundle (atomic_write).  A crash of the host
\* is not covered: nothing is synced before the rename.
SnapshotWhole ==
    /\ snapshot \in {"old", "new"}
    /\ snapshot = "new" => \A c \in Case :
          /\ status[c] # "none"
          /\ status[c] \in {"failed", "crashed", "timeout"} => bundle[c] = "whole"

\* A worker that hangs or dies delays the run, never stops it: every run ends.
RunEnds == <>(phase \in Stopped)
=============================================================================
