---------------------------- MODULE BackportRuns ----------------------------
(* Backport Tasks and their Runs: the routes (api/backport.py) that start, *)
(* pause and list them, the worker thread of each Run                      *)
(* (backport_service.py, _run_all), and the archive on disk                *)
(* (backport_run_store.py): task.json, runs/NNN.json and the report, whose *)
(* rows are the commits to move to the target repository.                  *)
(*                                                                         *)
(* All Tasks have one target repository, the worst case.  Sections under   *)
(* runs_lock are one step; a fault in one leaves the files it had written. *)
EXTENDS Integers

CONSTANTS
  Tasks,      \* the Tasks
  Workers,    \* numbers of the worker threads
  Readers,    \* requests that list Tasks, outside runs_lock
  Rows,       \* commits in a report
  MaxRuns,    \* bound: Runs of a Task
  MaxSteps,   \* max_steps of run_all
  MaxStops,   \* bound: times the process dies
  MaxFaults,  \* bound: exceptions and failing writes
  MaxOthers   \* bound: commits to the repository by anyone else

ASSUME BoundsAssumption ==
  /\ Workers \subseteq Nat \ {0} /\ Rows \in Nat \ {0} /\ MaxSteps \in Nat \ {0}
  /\ {MaxRuns, MaxStops, MaxFaults, MaxOthers} \subseteq Nat
ASSUME NamesAssumption == "none" \notin Tasks

VARIABLES
  task,     \* task.json: status, current_run
  runs,     \* runs/NNN.json: status, target_end.head
  report,   \* the rows of current_report
  repo,     \* how often each row of a Task was committed to the target branch
  record,   \* app.state.backport_runs: action, status, pause_requested
  worker,   \* the worker threads
  head,     \* HEAD of that branch, as the number of its commits
  others,   \* commits to it by anyone else: POST /run, another program
  holder,   \* the worker that holds the lock of the repository, or Nobody, or Other
  reader,   \* what each listing is at
  up,       \* the process runs
  torn,     \* for the properties: a write failed
  crossed,  \* for the properties: Tasks of which a Run started while a listing read them
  stops, faults

files == <<task, runs>>
git == <<repo, others, head>>
memory == <<record, worker, holder, reader, up>>
bounds == <<stops, faults>>
vars == <<files, report, git, memory, torn, crossed, bounds>>

Numbers == 1..MaxRuns
Ended == {"completed", "completed_with_failures", "failed"}   \* TERMINAL_STATUSES
Stopped == {"paused", "interrupted"}
Nobody == 0
Other == -1

\* _is_terminal_nonblocking_row: "moot" is merged, empty, equivalent or
\* skipped; "unapplied" a row whose direct application failed, "timedout" one
\* whose check found the repository locked: both are "failed" in the report.
\* "error" is what cvekit said of its application in place of "failed".
Failed == {"failed", "unapplied", "timedout", "error"}
Settled == Failed \cup {"moot", "applied"}

RowStatus == Settled \cup {"pending", "clean", "conflict"}
RunStatus == Ended \cup Stopped \cup {"none", "running"}

NoRecord == [action |-> "none", status |-> "none", pause |-> FALSE]
Idle == [pc |-> "idle", t |-> "none", i |-> 0, steps |-> 0, failed |-> FALSE]
Begun(t) == [pc |-> "waiting", t |-> t, i |-> 1, steps |-> 0, failed |-> FALSE]
Quiet == [pc |-> "idle", t |-> "none", n |-> 0, head |-> 0]
Absent == [status |-> "none", head |-> 0]

Working(t) == record[t].status = "running"
Current(t) == IF task[t].run = 0 THEN Absent ELSE runs[t][task[t].run]

Faulty == faults < MaxFaults /\ faults' = faults + 1 /\ UNCHANGED <<crossed, stops>>
Sound == UNCHANGED <<torn, crossed, bounds>>

\* The process dies: threads and memory go, the flock of the repository too,
\* and a cvekit under way, it is assumed, before it has made its commit.
Dies ==
  /\ stops < MaxStops /\ stops' = stops + 1 /\ UNCHANGED <<torn, crossed, faults>>
  /\ record' = [t \in Tasks |-> NoRecord] /\ worker' = [w \in Workers |-> Idle]
  /\ holder' \in {Nobody, holder} \cap {Nobody, Other} /\ reader' = [r \in Readers |-> Quiet] /\ up' = FALSE

-----------------------------------------------------------------------------
(* POST /runs.                                                             *)

FreeWorker(w) == worker[w].pc = "idle" /\ \A v \in Workers : worker[v].pc = "idle" => w <= v

\* The record in memory, and the thread; what raises between the two leaves
\* the record without one.
Starts(t, action) ==
  \E w \in Workers :
    /\ FreeWorker(w)
    /\ record' = [record EXCEPT ![t] = [action |-> action, status |-> "running", pause |-> FALSE]]
    /\ crossed' = crossed \cup {u \in {t} : \E r \in Readers : reader[r].t = u}
    /\ \/ worker' = [worker EXCEPT ![w] = Begun(t)] /\ UNCHANGED bounds
       \/ faults < MaxFaults /\ faults' = faults + 1 /\ UNCHANGED <<worker, stops>>
    /\ UNCHANGED torn

\* generate_report: every call makes a new Task.
Generate(t) ==
  /\ up /\ task[t].status = "none"
  /\ task' = [task EXCEPT ![t].status = "generating"]
  /\ Starts(t, "generate")
  /\ UNCHANGED <<runs, report, git, holder, reader, up>>

\* _validate_run_target: a stopped Run goes on only from the HEAD it left.
Mutant_TargetIsValid(t) == TRUE
TargetIsValid(t) == Current(t).status \in Stopped => Current(t).head = head

\* create_async_record: the number and the file of the Run to work on, a
\* stopped one or the next.
Mutant_Resumable(t) == Current(t).status \in Stopped \cup {"failed"}
Resumable(t) == Current(t).status \in Stopped
Startable(t) ==
  /\ Current(t).status \in Ended \cup {"none"} /\ task[t].run < MaxRuns
  /\ task[t].status \notin {"none", "generating", "generation_failed"}

RunFile(t) ==
  IF Resumable(t) THEN [n |-> task[t].run, head |-> Current(t).head]
  ELSE [n |-> task[t].run + 1, head |-> head]

\* run_all of a Task whose Run is not in progress; otherwise the record of the
\* one in progress is returned.  The file of the Run, task.json, the record.
CreateRun(t) ==
  LET f == RunFile(t) IN
  /\ up /\ ~Working(t)
  /\ TargetIsValid(t) /\ (Resumable(t) \/ Startable(t))
  /\ runs' = [runs EXCEPT ![t][f.n] = [status |-> "running", head |-> f.head]]
  /\ \/ /\ task' = [task EXCEPT ![t] = [status |-> "running", run |-> f.n]]
        /\ Starts(t, "run") /\ UNCHANGED <<holder, reader, up>>
     \/ UNCHANGED task /\ Dies
     \/ UNCHANGED task /\ Faulty /\ torn' = TRUE /\ UNCHANGED memory
  /\ UNCHANGED <<report, git>>

Pause(t) ==
  /\ up /\ Working(t) /\ record[t].action = "run"
  /\ record' = [record EXCEPT ![t].pause = TRUE]
  /\ Sound /\ UNCHANGED <<files, report, git, worker, holder, reader, up>>

-----------------------------------------------------------------------------
(* The worker.                                                             *)

At(w, pc) == up /\ worker[w].pc = pc
Goes(w, pc) == worker' = [worker EXCEPT ![w].pc = pc]

\* run_action returns or raises: the repository is unlocked.
Returns(w, pc) == Goes(w, pc) /\ holder' = IF holder = w THEN Nobody ELSE holder

InService == <<files, record, reader, up>>

TakeLock(w) ==
  /\ At(w, "waiting") /\ holder = Nobody
  /\ holder' = w
  /\ Goes(w, IF record[worker[w].t].action = "run" THEN "top" ELSE "generating")
  /\ Sound /\ UNCHANGED <<InService, report, git>>

\* Another action or program takes the repository, and may commit to it.
OtherTakes ==
  /\ holder = Nobody /\ holder' = Other
  /\ Sound /\ UNCHANGED <<InService, worker, report, git>>

OtherFrees ==
  /\ holder = Other /\ holder' = Nobody
  /\ \/ UNCHANGED <<others, head>>
     \/ others < MaxOthers /\ others' = others + 1 /\ head' = head + 1
  /\ Sound /\ UNCHANGED <<InService, worker, report, repo>>

Mutant_LockTimeout(w) == At(w, "waiting") /\ holder # Nobody /\ UNCHANGED vars

LockTimeout(w) ==
  /\ At(w, "waiting") /\ holder # Nobody
  /\ Goes(w, "raised")
  /\ Sound /\ UNCHANGED <<InService, report, git, holder>>

\* The rows of a new report start unchecked; one that the generation has
\* checked already is as one that the Run has checked.
Generated(w) ==
  LET t == worker[w].t IN
  /\ At(w, "generating")
  /\ \/ /\ task' = [task EXCEPT ![t].status = "ready"]
        /\ report' = [report EXCEPT ![t] = [i \in 1..Rows |-> "pending"]]
        /\ Returns(w, "ready")
     \/ Returns(w, "generation_failed") /\ UNCHANGED <<task, report>>
  /\ Sound /\ UNCHANGED <<runs, record, reader, up, git>>

\* An exception that no handler of the action expects.
Raises(w) ==
  /\ up /\ worker[w].pc \in {"generating", "top", "apply", "recheck", "applied"}
  /\ Faulty /\ torn' = (torn \/ worker[w].pc = "applied")
  /\ Returns(w, "raised")
  /\ UNCHANGED <<InService, report, git>>

-----------------------------------------------------------------------------
(* _run_all, one pass of its loop after the other.                         *)

Row(w) == report[worker[w].t][worker[w].i]
Mark(w, status) == report' = [report EXCEPT ![worker[w].t][worker[w].i] = status]

\* The loop goes on with the same row, or with the next, which has failed or not.
Again(w) == worker' = [worker EXCEPT ![w].pc = "top", ![w].steps = @ + 1]
NextRow(w, failed) ==
  worker' = [worker EXCEPT ![w].pc = "top", ![w].i = @ + 1, ![w].steps = @ + 1,
                           ![w].failed = @ \/ failed]

MoreToDo(w) == At(w, "top") /\ worker[w].i <= Rows /\ worker[w].steps < MaxSteps

LoopEnds(w) ==
  /\ At(w, "top") /\ ~MoreToDo(w)
  /\ Returns(w, IF worker[w].i <= Rows THEN "failed"
                ELSE IF worker[w].failed THEN "completed_with_failures" ELSE "completed")
  /\ Sound /\ UNCHANGED <<InService, report, git>>

Pauses(w) ==
  /\ MoreToDo(w) /\ record[worker[w].t].pause
  /\ Returns(w, "paused")
  /\ Sound /\ UNCHANGED <<InService, report, git>>

Pass(w) == MoreToDo(w) /\ ~record[worker[w].t].pause
InPass == Sound /\ UNCHANGED <<InService, git>>

Mutant_Skips(w) ==
  /\ Pass(w) /\ Row(w) \in Settled
  /\ NextRow(w, FALSE)
  /\ InPass /\ UNCHANGED <<report, holder>>

Skips(w) ==
  /\ Pass(w) /\ Row(w) \in Settled
  /\ NextRow(w, Row(w) \in Failed)
  /\ InPass /\ UNCHANGED <<report, holder>>

\* _run_check_row: what cvekit finds is merged into the report, and so is its
\* failure, even that it waited for the repository in vain and is to be retried.
CheckRow(w) ==
  \/ \E found \in {"pending", "clean", "conflict", "moot"} : Mark(w, found) /\ Again(w) /\ UNCHANGED holder
  \/ (Mark(w, "failed") \/ UNCHANGED report) /\ NextRow(w, TRUE) /\ UNCHANGED holder
  \/ Mark(w, "timedout") /\ Returns(w, "failed")

\* An unchecked row is checked if it has no patch, or applied as it is.
Checks(w) == Pass(w) /\ Row(w) = "pending" /\ CheckRow(w) /\ InPass

\* _run_try_resolve.
Resolves(w) ==
  /\ Pass(w) /\ Row(w) = "conflict"
  /\ \/ Mark(w, "clean") /\ Goes(w, "apply") /\ UNCHANGED holder
     \/ Mark(w, "moot") /\ NextRow(w, FALSE) /\ UNCHANGED holder
     \/ Mark(w, "failed") /\ NextRow(w, TRUE) /\ UNCHANGED holder
     \/ UNCHANGED report /\ Returns(w, "failed")
  /\ InPass

Applies(w) == (Pass(w) /\ Row(w) \in {"pending", "clean"}) \/ (At(w, "apply"))

\* _run_apply_row: cvekit makes the commit, and then the report is written.
Commits(w) ==
  /\ Applies(w)
  /\ repo' = [repo EXCEPT ![worker[w].t][worker[w].i] = @ + 1]
  /\ head' = head + 1
  /\ Goes(w, "applied")
  /\ Sound /\ UNCHANGED <<InService, report, others, holder>>

Saves(w, status) ==
  /\ Mark(w, status)
  /\ task' = [task EXCEPT ![worker[w].t].status = "running"]

InApply == Sound /\ UNCHANGED <<runs, record, reader, up, git>>

Writes(w) ==
  /\ At(w, "applied")
  /\ Saves(w, "applied") /\ NextRow(w, FALSE)
  /\ InApply /\ UNCHANGED holder

\* The row is not applied after all, as far as the caller knows.
Misses(w) ==
  IF Row(w) = "pending" THEN Goes(w, "recheck") ELSE NextRow(w, TRUE)

\* The commit is made, but an expected exception comes before the report is written.
Loses(w) ==
  /\ At(w, "applied") /\ Misses(w)
  /\ Faulty /\ torn' = TRUE /\ UNCHANGED <<InService, report, git, holder>>

\* cvekit refuses the patch, which for an unchecked row is only the reason to
\* check it; or says "error", which the caller takes for success; or fails
\* itself; or the repository stays locked.
NotApplied(w) ==
  /\ Applies(w)
  /\ \/ Saves(w, IF Row(w) = "pending" THEN "unapplied" ELSE "failed") /\ Misses(w) /\ UNCHANGED holder
     \/ Saves(w, "error") /\ NextRow(w, FALSE) /\ UNCHANGED holder
     \/ UNCHANGED <<task, report>> /\ Misses(w) /\ UNCHANGED holder
     \/ UNCHANGED <<task, report>> /\ Returns(w, "failed")
  /\ InApply

Rechecks(w) == At(w, "recheck") /\ CheckRow(w) /\ InPass

-----------------------------------------------------------------------------
(* The end of a worker, under runs_lock: task.json and then the Run.       *)

Results == Ended \cup {"paused", "ready", "generation_failed"}

Leaves(w, status) ==
  /\ record' = [record EXCEPT ![worker[w].t].status = status]
  /\ worker' = [worker EXCEPT ![w] = Idle]
  /\ UNCHANGED <<holder, reader, up>>

Outcome(result) == IF result \in {"failed", "generation_failed"} THEN "failed"
                   ELSE IF result = "paused" THEN "paused" ELSE "success"

WriteTask(t, status) == task' = [task EXCEPT ![t].status = status]
WriteRun(t, status, at) ==
  runs' = [runs EXCEPT ![t][task[t].run] = [status |-> status, head |-> at]]

\* The exception handler: both files say failed, as far as they can be written.
Handled(w) ==
  LET t == worker[w].t IN
  /\ Leaves(w, "failed")
  /\ IF record[t].action = "generate" THEN WriteTask(t, "generation_failed") /\ UNCHANGED runs
     ELSE WriteTask(t, "failed") /\ WriteRun(t, "failed", Current(t).head)

Finishes(w) ==
  LET t == worker[w].t
      result == worker[w].pc
      generates == record[t].action = "generate"
  IN  /\ up /\ result \in Results
      /\ \/ /\ Leaves(w, Outcome(result))
            /\ WriteTask(t, result) /\ Sound
            /\ IF generates THEN UNCHANGED runs ELSE WriteRun(t, result, head)
         \/ Handled(w) /\ Faulty /\ UNCHANGED torn
         \/ /\ Leaves(w, "failed")
            /\ Faulty /\ torn' = TRUE
            /\ \E status \in {result, "failed"} : WriteTask(t, status)
            /\ UNCHANGED runs
         \/ WriteTask(t, result) /\ UNCHANGED runs /\ Dies
      /\ UNCHANGED <<report, git>>

FinishesRaised(w) ==
  LET t == worker[w].t IN
  /\ At(w, "raised")
  /\ \/ Handled(w) /\ Sound
     \/ /\ Leaves(w, "failed")
        /\ Faulty /\ torn' = TRUE
        /\ \E status \in {task[t].status, "failed"} : WriteTask(t, status)
        /\ UNCHANGED runs
     \/ record[t].action = "run" /\ WriteTask(t, "failed") /\ UNCHANGED runs /\ Dies
  /\ UNCHANGED <<report, git>>

-----------------------------------------------------------------------------
(* list_runs and get_run: get_async_record, outside runs_lock.             *)

\* active_ids is taken under the lock.
Looks(r, t) ==
  /\ up /\ reader[r] = Quiet /\ ~Working(t) /\ task[t].run > 0
  /\ reader' = [reader EXCEPT ![r] = [pc |-> "looked", t |-> t, n |-> 0, head |-> 0]]
  /\ Sound /\ UNCHANGED <<files, report, git, record, worker, holder, up>>

\* The Run is read; if it is running it must be of an earlier life.
Reads(r) ==
  LET t == reader[r].t IN
  /\ up /\ reader[r].pc = "looked"
  /\ reader' = [reader EXCEPT ![r] =
       IF Current(t).status = "running"
       THEN [pc |-> "stale", t |-> t, n |-> task[t].run, head |-> Current(t).head] ELSE Quiet]
  /\ Sound /\ UNCHANGED <<files, report, git, record, worker, holder, up>>

\* What was read is written back as interrupted, and then task.json.
Interrupts(r) ==
  /\ up /\ reader[r].pc = "stale"
  /\ runs' = [runs EXCEPT ![reader[r].t][reader[r].n] = [status |-> "interrupted", head |-> reader[r].head]]
  /\ reader' = [reader EXCEPT ![r].pc = "half"]
  /\ Sound /\ UNCHANGED <<task, report, git, record, worker, holder, up>>

Tells(r) ==
  /\ up /\ reader[r].pc = "half"
  /\ task' = [task EXCEPT ![reader[r].t].status = "interrupted"]
  /\ reader' = [reader EXCEPT ![r] = Quiet]
  /\ Sound /\ UNCHANGED <<runs, report, git, record, worker, holder, up>>

-----------------------------------------------------------------------------
(* The process.                                                            *)

Crash == up /\ Dies /\ UNCHANGED <<files, report, git>>

\* recover_backport_runs, before any request; it may die on the way.
Cut == {t \in Tasks : Current(t).status = "running"}
Converge(done, half) ==
  /\ runs' = [t \in Tasks |-> IF t \in done \cup half
                 THEN [runs[t] EXCEPT ![task[t].run].status = "interrupted"] ELSE runs[t]]
  /\ task' = [t \in Tasks |-> IF t \in done THEN [task[t] EXCEPT !.status = "interrupted"] ELSE task[t]]

Mutant_Boot == ~up /\ up' = TRUE /\ Sound /\ UNCHANGED <<files, record, worker, holder, reader, report, git>>
Boot ==
  /\ ~up
  /\ \/ Converge(Cut, {}) /\ up' = TRUE /\ Sound /\ UNCHANGED <<record, worker, holder, reader>>
     \/ \E done \in SUBSET Cut : \E t \in Cut \ done : Converge(done, {t}) /\ Dies
  /\ UNCHANGED <<report, git>>

Init ==
  /\ task = [t \in Tasks |-> [status |-> "none", run |-> 0]]
  /\ runs = [t \in Tasks |-> [n \in Numbers |-> Absent]]
  /\ report = [t \in Tasks |-> [i \in 1..Rows |-> "pending"]]
  /\ repo = [t \in Tasks |-> [i \in 1..Rows |-> 0]] /\ others = 0 /\ head = 0
  /\ record = [t \in Tasks |-> NoRecord]
  /\ worker = [w \in Workers |-> Idle] /\ holder = Nobody
  /\ reader = [r \in Readers |-> Quiet]
  /\ up = TRUE /\ torn = FALSE /\ crossed = {} /\ stops = 0 /\ faults = 0

RowStep(w) ==
  Skips(w) \/ Checks(w) \/ Resolves(w) \/ Commits(w) \/ Writes(w) \/ Loses(w) \/ NotApplied(w) \/ Rechecks(w)

WorkerStep(w) ==
  \/ TakeLock(w) \/ LockTimeout(w) \/ Generated(w) \/ Raises(w)
  \/ LoopEnds(w) \/ Pauses(w) \/ RowStep(w)
  \/ Finishes(w) \/ FinishesRaised(w)

Next ==
  \/ \E t \in Tasks : Generate(t) \/ CreateRun(t) \/ Pause(t)
  \/ \E w \in Workers : WorkerStep(w)
  \/ \E r \in Readers : Reads(r) \/ Interrupts(r) \/ Tells(r) \/ \E t \in Tasks : Looks(r, t)
  \/ OtherTakes \/ OtherFrees \/ Crash \/ Boot

Spec == Init /\ [][Next]_vars

\* A thread that can run does, each call of cvekit, which has no timeout,
\* returns, and the process is started again.
FairSpec == Spec /\ WF_vars(Boot) /\ \A w \in Workers : WF_vars(WorkerStep(w))

-----------------------------------------------------------------------------
(* Properties.                                                             *)

TaskStatus == RunStatus \cup {"generating", "generation_failed", "ready"}
WorkerPcs == Results \cup {"idle", "waiting", "generating", "top", "apply", "applied", "recheck", "raised"}

\* The values are in their sets.
TypeOK ==
  /\ task \in [Tasks -> [status : TaskStatus, run : 0..MaxRuns]]
  /\ runs \in [Tasks -> [Numbers -> [status : RunStatus, head : Nat]]]
  /\ report \in [Tasks -> [1..Rows -> RowStatus]]
  /\ repo \in [Tasks -> [1..Rows -> Nat]] /\ head \in Nat /\ others \in 0..MaxOthers
  /\ record \in [Tasks -> [action : {"none", "generate", "run"}, pause : BOOLEAN,
                           status : {"none", "running", "success", "paused", "failed"}]]
  /\ worker \in [Workers -> [pc : WorkerPcs, t : Tasks \cup {"none"}, i : 0..Rows + 1,
                              steps : 0..MaxSteps, failed : BOOLEAN]]
  /\ holder \in Workers \cup {Nobody, Other}
  /\ reader \in [Readers -> [pc : {"idle", "looked", "stale", "half"}, t : Tasks \cup {"none"},
                              n : 0..MaxRuns, head : Nat]]
  /\ up \in BOOLEAN /\ torn \in BOOLEAN /\ crossed \subseteq Tasks /\ stops \in 0..MaxStops /\ faults \in 0..MaxFaults

\* No commit is moved to the target branch twice, by whatever Runs, pauses and
\* crashes: unless a write failed after cvekit had made the commit.
AppliedOnce == torn \/ \A t \in Tasks : \A i \in 1..Rows : repo[t][i] <= 1

\* One worker at most works for a Task.
OneWorker == \A v, w \in Workers : worker[v].t = worker[w].t /\ worker[v] # Idle => v = w

\* A Run that says it is completed left no row undone, whatever of it was
\* done by earlier Runs or before a pause or a crash: but for a row of which
\* cvekit said "error" (FailuresAreCounted).
VerdictIsTrue ==
  \A t \in Tasks : Current(t).status = "completed" =>
    \A i \in 1..Rows : report[t][i] \in {"applied", "moot", "error"}

\* "Done and no blocking conflict: ... / failed", which a row of status
\* "error" is for the loop that comes upon it (_is_terminal_nonblocking_row):
\* a Run that says it is completed left none.
FailuresAreCounted ==
  \A t \in Tasks : Current(t).status = "completed" => \A i \in 1..Rows : report[t][i] \notin Failed

\* At rest the file of the current Run does not say that it is running, and
\* task.json says the same; after a second crash, or once a Run of the Task was
\* started under a listing, the Run alone may say interrupted, or task.json may.
FilesAgree ==
  \A t \in Tasks :
    up /\ ~Working(t) /\ task[t].run > 0 /\ ~torn =>
      /\ Current(t).status # "running"
      /\ task[t].status = Current(t).status \/ Current(t).status = "interrupted" \/ t \in crossed

\* A Run that has ended is neither resumed nor marked interrupted: except by
\* a listing under which a Run of the Task was started.
EndIsFinal ==
  [][\A t \in Tasks \ crossed : \A n \in Numbers : runs[t][n].status \in Ended => runs'[t][n].status = runs[t][n].status]_vars

\* Every Run that was given a thread comes to an end: max_steps and the timeout
\* of the lock see to it, as long as each call of cvekit returns.
RunEnds == \A t \in Tasks : Working(t) /\ (\E w \in Workers : worker[w].t = t) ~> ~Working(t)

\* "Please retry by hand later": a row whose check only waited for the
\* repository in vain is not a failed one, which no later Run would touch.
TimeoutIsRetryable == \A t \in Tasks : \A i \in 1..Rows : report[t][i] # "timedout"

\* A Run in progress is never taken for one of an earlier life.
LiveRunIsRunning == \A t \in Tasks : Working(t) /\ record[t].action = "run" => Current(t).status = "running"

\* A Run cut by a crash can go on, if no other Task has moved the branch.
CutRunGoesOn ==
  \A t \in Tasks :
    /\ Current(t).status = "interrupted" /\ others = 0
    /\ \A u \in Tasks \ {t} : \A i \in 1..Rows : repo[u][i] = 0
    => TargetIsValid(t)
=============================================================================
