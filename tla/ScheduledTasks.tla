--------------------------- MODULE ScheduledTasks ---------------------------
(***************************************************************************)
(* ScheduledTaskService (application/scheduled_task_service.py): tasks in  *)
(* the database, APScheduler jobs in memory, one background asyncio task   *)
(* per run, and a mutual exclusion of runs per task and per agent that     *)
(* lives only in the memory of one process.                                *)
(*                                                                         *)
(* Two kinds of actors interleave.  Coroutines of the event loop (the job  *)
(* callback, run_task_now, a run, handle_agent_deleted) are atomic between *)
(* two awaits; _state_lock is never held across an await, so taking it     *)
(* never suspends.  The create, update, delete, enable and disable routes  *)
(* of api/scheduled_tasks.py are plain functions: FastAPI runs each in a   *)
(* thread, so they interleave with everything at every database statement  *)
(* and at every call of the scheduler.                                     *)
(***************************************************************************)
EXTENDS Integers, FiniteSets

CONSTANTS
  Tasks,        \* ids of scheduled tasks (uuid4: never used twice)
  Agents,       \* ids of agents
  AgentOf,      \* the agent_id column of each task, which no operation changes
  Workers,      \* threads of the pool that serves the synchronous routes
  Keep,         \* WITTY_SCHEDULER_MAX_RUN_RECORDS
  MaxRuns,      \* bound: run records ever created
  MaxCalls,     \* bound: calls of synchronous routes
  MaxDeletes,   \* bound: DELETE /agents/{id} requests
  MaxBoots,     \* bound: starts of the service
  NoTask,       \* the task of a run record that was never created
  NoRun         \* an empty entry of _active_runs

Runs == 1..MaxRuns

ASSUME AgentOfAssumption == AgentOf \in [Tasks -> Agents]
ASSUME KeepAssumption == Keep \in Nat \ {0}
ASSUME BoundsAssumption == {MaxRuns, MaxCalls, MaxDeletes, MaxBoots} \subseteq Nat
ASSUME NamesAssumption == NoTask \notin Tasks /\ NoRun \notin Runs

VARIABLES
  taskRow,      \* scheduled_tasks: the row of each task and its enabled column
  agentRow,     \* agents: the status column of each agent, or "absent"
  run,          \* scheduled_task_runs: the row of each run
  lastRun,      \* number of run records created so far (created_at order)
  sched,        \* the service: "down", "up", "draining" (inside shutdown())
  jobs,         \* APScheduler: tasks with a registered job
  active,       \* _active_runs
  busy,         \* _busy_agents
  bg,           \* where the background asyncio task of each run stands
  cancelled,    \* background tasks on which cancel() was called
  given,        \* runs dispatched with a session made by the client
  call,         \* the synchronous route each worker thread is executing
  deleting,     \* agents inside DELETE /agents/{id}, awaiting the runtime stop
  calls, deletes, boots,  \* how much of each bound is used
  torn          \* history: agents of tasks erased while a run held their slot

rows == <<taskRow, agentRow, run, lastRun>>
memory == <<jobs, active, busy, bg, cancelled, given>>
requests == <<call, deleting>>
bounds == <<calls, deletes, boots>>
vars == <<rows, sched, memory, requests, bounds, torn>>

RowStatus == {"running", "succeeded", "failed", "skipped"}
Verdicts == {"succeeded", "failed", "skipped"}
Waiting == {"resuming", "creating", "streaming"}
Live == {"spawned"} \cup Waiting

Idle == [pc |-> "idle", task |-> NoTask, enabled |-> FALSE]
Calls == {Idle} \cup
  [pc : {"schedule", "unschedule", "write", "drop", "erase"},
   task : Tasks, enabled : BOOLEAN]

TypeOK ==
  /\ taskRow \in [Tasks -> {"absent", "enabled", "disabled", "deleted"}]
  /\ agentRow \in [Agents -> {"running", "paused", "error", "absent"}]
  /\ run \in [Runs -> [task : Tasks \cup {NoTask},
                       status : RowStatus \cup {"none", "gone"},
                       linked : BOOLEAN]]
  /\ lastRun \in 0..MaxRuns
  /\ sched \in {"down", "up", "draining"}
  /\ jobs \in SUBSET Tasks
  /\ active \in [Tasks -> Runs \cup {NoRun}]
  /\ busy \in SUBSET Agents
  /\ bg \in [Runs -> Live \cup {"none", "done", "lost"}]
  /\ cancelled \in SUBSET Runs
  /\ given \in SUBSET Runs
  /\ call \in [Workers -> Calls]
  /\ deleting \in SUBSET Agents
  /\ torn \in SUBSET Agents
  /\ calls \in 0..MaxCalls /\ deletes \in 0..MaxDeletes /\ boots \in 0..MaxBoots

-----------------------------------------------------------------------------
(* The database.                                                           *)

Stored(t) == taskRow[t] \in {"enabled", "disabled"}
HasRow(r) == run[r].status \in RowStatus

\* The tasks whose agent_id is a and whose row exists.
TasksOf(a) == {t \in Tasks : AgentOf[t] = a /\ Stored(t)}

\* ON DELETE CASCADE of scheduled_task_runs.task_id.
Cascade(table, ts) ==
  [r \in Runs |-> IF table[r].task \in ts /\ table[r].status \in RowStatus
                    THEN [table[r] EXCEPT !.status = "gone"] ELSE table[r]]

\* Of the rows of task t, newest first, those after the first Keep.
Surplus(table, t) ==
  LET rowsOf == {r \in Runs : table[r].task = t /\ table[r].status \in RowStatus}
  IN {r \in rowsOf : Cardinality({q \in rowsOf : q > r}) >= Keep}

Prune(table, t) ==
  [r \in Runs |-> IF r \in Surplus(table, t)
                    THEN [table[r] EXCEPT !.status = "gone"] ELSE table[r]]

\* UPDATE of a run row; a missing row raises KeyError, which the callers log.
WriteRun(table, r, status, linked) ==
  IF table[r].status \in RowStatus
    THEN [table EXCEPT ![r].status = status, ![r].linked = linked] ELSE table

\* INSERT of the next run row.
NewRun == lastRun + 1
Insert(t, status, linked) ==
  [run EXCEPT ![NewRun] = [task |-> t, status |-> status, linked |-> linked]]

-----------------------------------------------------------------------------
(* Slots.                                                                  *)

Agent(r) == AgentOf[run[r].task]

Free(t) == active[t] = NoRun /\ AgentOf[t] \notin busy

\* A slot is given back only by the run that holds it.
ReleaseSlot(r) ==
  LET t == run[r].task IN
  IF active[t] = r
    THEN /\ active' = [active EXCEPT ![t] = NoRun]
         /\ busy' = busy \ {AgentOf[t]}
    ELSE UNCHANGED <<active, busy>>

\* The end of _run_in_flight: release, write the verdict, prune.
Finish(r, verdict, linked) ==
  /\ bg' = [bg EXCEPT ![r] = "done"]
  /\ ReleaseSlot(r)
  /\ run' = Prune(WriteRun(run, r, verdict, linked), run[r].task)

Mutant_FailWithoutRelease(r) ==
  /\ bg' = [bg EXCEPT ![r] = "done"]
  /\ run' = Prune(WriteRun(run, r, "failed", run[r].linked), run[r].task)
  /\ UNCHANGED <<active, busy>>

\* A failed run reads the session back from its row.
FinishFailed(r) == Finish(r, "failed", run[r].linked)

-----------------------------------------------------------------------------
(* Dispatch: _execute_task (a job that is due) and run_task_now.           *)

\* The slot is taken, the run recorded and its background task created.
Dispatch(t, withSession) ==
  /\ lastRun' = NewRun
  /\ run' = Insert(t, "running", withSession)
  /\ active' = [active EXCEPT ![t] = NewRun]
  /\ busy' = busy \cup {AgentOf[t]}
  /\ bg' = [bg EXCEPT ![NewRun] = "spawned"]
  /\ given' = IF withSession THEN given \cup {NewRun} ELSE given

\* Task or agent busy: a skipped record, after which the records are pruned.
Skip(t) ==
  /\ lastRun' = NewRun
  /\ run' = Prune(Insert(t, "skipped", FALSE), t)
  /\ UNCHANGED <<active, busy, bg, given>>

Mutant_RefuseKeepsSlot(t, exists) ==
  /\ lastRun' = NewRun
  /\ run' = Insert(t, "failed", exists)
  /\ active' = [active EXCEPT ![t] = NewRun]
  /\ busy' = busy \cup {AgentOf[t]}
  /\ UNCHANGED <<bg, given>>

\* The session given by the client is refused: the slot is given back and the
\* record is to be marked failed with that session id.  When no such session
\* exists the foreign key of session_id rejects that update and the record
\* stays as it was inserted; a session of another agent can be referenced.
RefuseSession(t, exists) ==
  /\ lastRun' = NewRun
  /\ run' = IF exists THEN Insert(t, "failed", TRUE) ELSE Insert(t, "running", FALSE)
  /\ UNCHANGED <<active, busy, bg, given>>

Fire(t) ==
  /\ sched \in {"up", "draining"} /\ t \in jobs /\ lastRun < MaxRuns
  /\ taskRow[t] = "enabled"
  /\ IF Free(t) THEN Dispatch(t, FALSE) ELSE Skip(t)
  /\ UNCHANGED <<taskRow, agentRow, sched, jobs, cancelled, requests, bounds,
                 torn>>

RunTaskNow(t) ==
  /\ sched = "up" /\ Stored(t) /\ lastRun < MaxRuns
  /\ IF Free(t)
       THEN \/ \E withSession \in BOOLEAN : Dispatch(t, withSession)
            \/ \E exists \in BOOLEAN : RefuseSession(t, exists)
       ELSE Skip(t)
  /\ UNCHANGED <<taskRow, agentRow, sched, jobs, cancelled, requests, bounds,
                 torn>>

-----------------------------------------------------------------------------
(* One run: _run_in_flight and _run_agent_turn, between two awaits.        *)

Resumes(r, pc) == bg[r] = pc /\ r \notin cancelled
OfRuns == <<taskRow, lastRun, sched, jobs, cancelled, given, requests, bounds, torn>>

\* A runnable agent: the workspace folder is prepared (or refused), the given
\* session is validated again, and the next await is reached.
Enter(r) ==
  \/ FinishFailed(r)
  \/ /\ r \notin given
     /\ bg' = [bg EXCEPT ![r] = "creating"]
     /\ UNCHANGED <<run, active, busy>>
  \/ /\ r \in given /\ HasRow(r)
     /\ bg' = [bg EXCEPT ![r] = "streaming"]
     /\ UNCHANGED <<run, active, busy>>

BeginTurn(r) ==
  /\ Resumes(r, "spawned")
  /\ \/ agentRow[Agent(r)] \in {"absent", "error"} /\ FinishFailed(r)
     \/ agentRow[Agent(r)] = "running" /\ Enter(r)
     \/ /\ agentRow[Agent(r)] = "paused"
        /\ bg' = [bg EXCEPT ![r] = "resuming"]
        /\ UNCHANGED <<run, active, busy>>
  /\ UNCHANGED <<agentRow, OfRuns>>

\* manager.resume_agent returns a running agent, or raises.
AgentResumed(r) ==
  /\ Resumes(r, "resuming")
  /\ \/ /\ agentRow[Agent(r)] # "absent"
        /\ agentRow' = [agentRow EXCEPT ![Agent(r)] = "running"]
        /\ Enter(r)
     \/ FinishFailed(r) /\ UNCHANGED agentRow
  /\ UNCHANGED OfRuns

\* manager.create_session returns (the session is written to the run row, if
\* the row is still there), or raises.
SessionCreated(r) ==
  /\ Resumes(r, "creating")
  /\ \/ /\ agentRow[Agent(r)] # "absent"
        /\ run' = WriteRun(run, r, "running", TRUE)
        /\ bg' = [bg EXCEPT ![r] = "streaming"]
        /\ UNCHANGED <<active, busy>>
     \/ FinishFailed(r)
  /\ UNCHANGED <<agentRow, OfRuns>>

\* The event stream ends: completed, or aborted, failed or cut short.
StreamEnded(r) ==
  /\ Resumes(r, "streaming")
  /\ Finish(r, "succeeded", TRUE) \/ FinishFailed(r)
  /\ UNCHANGED <<agentRow, OfRuns>>

\* CancelledError is delivered.  A task cancelled before its first step never
\* enters the coroutine, so not even its finally block runs; one cancelled at
\* an await goes through it, with session_id still None.
CancelDelivered(r) ==
  /\ r \in cancelled
  /\ \/ /\ bg[r] = "spawned"
        /\ bg' = [bg EXCEPT ![r] = "done"]
        /\ UNCHANGED <<run, active, busy>>
     \/ bg[r] \in Waiting /\ Finish(r, "failed", FALSE)
  /\ UNCHANGED <<agentRow, OfRuns>>

RunStep(r) ==
  \/ BeginTurn(r) \/ AgentResumed(r) \/ SessionCreated(r)
  \/ StreamEnded(r) \/ CancelDelivered(r)

-----------------------------------------------------------------------------
(* The synchronous routes, statement by statement.                         *)

Later(w, pc, t, enabled) ==
  call' = [call EXCEPT ![w] = [pc |-> pc, task |-> t, enabled |-> enabled]]

Return(w) == call' = [call EXCEPT ![w] = Idle]

NewCall(w) ==
  /\ sched = "up" /\ call[w] = Idle /\ calls < MaxCalls
  /\ calls' = calls + 1
  /\ UNCHANGED <<agentRow, lastRun, sched, jobs, active, busy, bg, cancelled,
                 given, deleting, deletes, boots, torn>>

\* create_task: the agent is checked and the row inserted; the job comes next.
CreateTask(w, t, enabled) ==
  /\ NewCall(w)
  /\ taskRow[t] = "absent" /\ agentRow[AgentOf[t]] # "absent"
  /\ taskRow' = [taskRow EXCEPT ![t] = IF enabled THEN "enabled" ELSE "disabled"]
  /\ IF enabled THEN Later(w, "schedule", t, TRUE) ELSE Return(w)
  /\ UNCHANGED run

Mutant_DisableKeepsJob(w, t, enabled) ==
  /\ NewCall(w)
  /\ Stored(t)
  /\ taskRow' = [taskRow EXCEPT ![t] = IF enabled THEN "enabled" ELSE "disabled"]
  /\ IF enabled THEN Later(w, "schedule", t, TRUE) ELSE Return(w)
  /\ UNCHANGED run

\* enable_task and disable_task: the column is set; the job comes next.
SetEnabled(w, t, enabled) ==
  /\ NewCall(w)
  /\ Stored(t)
  /\ taskRow' = [taskRow EXCEPT ![t] = IF enabled THEN "enabled" ELSE "disabled"]
  /\ Later(w, IF enabled THEN "schedule" ELSE "unschedule", t, enabled)
  /\ UNCHANGED run

\* update_task: the row is read, with the enabled column that is written back.
UpdateTask(w, t) ==
  /\ NewCall(w)
  /\ Stored(t)
  /\ Later(w, "write", t, taskRow[t] = "enabled")
  /\ UNCHANGED <<taskRow, run>>

\* delete_task: a task with an active run is refused (TASK_BUSY).
DeleteTask(w, t) ==
  /\ NewCall(w)
  /\ Stored(t) /\ active[t] = NoRun
  /\ Later(w, "drop", t, FALSE)
  /\ UNCHANGED <<taskRow, run>>

\* The next statement of a call in progress.
CallStep(w) ==
  LET t == call[w].task IN
  /\ sched = "up"
  /\ \/ /\ call[w].pc = "write"
        /\ IF Stored(t) /\ agentRow[AgentOf[t]] # "absent"
             THEN /\ taskRow' = [taskRow EXCEPT ![t] =
                                   IF call[w].enabled THEN "enabled" ELSE "disabled"]
                  /\ Later(w, IF call[w].enabled THEN "schedule" ELSE "unschedule",
                           t, call[w].enabled)
             ELSE UNCHANGED taskRow /\ Return(w)
        /\ UNCHANGED <<jobs, run, torn>>
     \/ /\ call[w].pc = "schedule"
        /\ jobs' = jobs \cup {t}
        /\ Return(w)
        /\ UNCHANGED <<taskRow, run, torn>>
     \/ /\ call[w].pc = "unschedule"
        /\ jobs' = jobs \ {t}
        /\ Return(w)
        /\ UNCHANGED <<taskRow, run, torn>>
     \/ /\ call[w].pc = "drop"
        /\ jobs' = jobs \ {t}
        /\ Later(w, "erase", t, FALSE)
        /\ UNCHANGED <<taskRow, run, torn>>
     \/ /\ call[w].pc = "erase"
        /\ taskRow' = [taskRow EXCEPT ![t] = "deleted"]
        /\ run' = Cascade(run, {t})
        /\ torn' = IF active[t] = NoRun THEN torn ELSE torn \cup {AgentOf[t]}
        /\ Return(w)
        /\ UNCHANGED jobs
  /\ UNCHANGED <<agentRow, lastRun, sched, active, busy, bg, cancelled, given,
                 deleting, bounds>>

-----------------------------------------------------------------------------
(* DELETE /agents/{id}: handle_agent_deleted, then AgentManager.delete_agent.*)

Mutant_PurgeWithoutCancel(a) ==
  /\ jobs' = jobs \ TasksOf(a)
  /\ active' = [t \in Tasks |-> IF t \in TasksOf(a) THEN NoRun ELSE active[t]]
  /\ busy' = busy \ {a}
  /\ UNCHANGED cancelled

\* Jobs, slots and background tasks of the agent are dropped.
Purge(a) ==
  /\ jobs' = jobs \ TasksOf(a)
  /\ active' = [t \in Tasks |-> IF t \in TasksOf(a) THEN NoRun ELSE active[t]]
  /\ cancelled' = cancelled \cup
       {r \in Runs : bg[r] \in Live /\ run[r].task \in TasksOf(a)}
  /\ busy' = busy \ {a}

\* The agent row is deleted; its tasks and their runs go with it.
EraseAgent(a) ==
  /\ agentRow' = [agentRow EXCEPT ![a] = "absent"]
  /\ taskRow' = [t \in Tasks |-> IF t \in TasksOf(a) THEN "deleted" ELSE taskRow[t]]
  /\ run' = Cascade(run, {t \in Tasks : AgentOf[t] = a})

DeleteAgentStarts(a) ==
  /\ sched = "up" /\ a \notin deleting /\ deletes < MaxDeletes
  /\ agentRow[a] # "absent"
  /\ Purge(a)
  /\ deletes' = deletes + 1
  /\ IF agentRow[a] \in {"running", "paused"}      \* POST /agent/stop is awaited
       THEN deleting' = deleting \cup {a} /\ UNCHANGED <<agentRow, taskRow, run>>
       ELSE \/ UNCHANGED <<agentRow, taskRow, run, deleting>>
            \/ EraseAgent(a) /\ UNCHANGED deleting
  /\ UNCHANGED <<lastRun, sched, bg, given, call, calls, boots, torn>>

\* The runtime has been stopped: the row is erased, or a cleanup step failed
\* and the request ends with AGENT_DELETE_FAILED, the rows untouched.
DeleteAgentEnds(a) ==
  /\ a \in deleting
  /\ deleting' = deleting \ {a}
  /\ EraseAgent(a) \/ UNCHANGED <<agentRow, taskRow, run>>
  /\ UNCHANGED <<lastRun, sched, memory, call, bounds, torn>>

\* Operations of other components that this one sees: the status of an agent
\* changes, a session is deleted (with the run rows that reference it).
AgentStatusChanges(a) ==
  /\ sched # "down" /\ agentRow[a] # "absent"
  /\ \E s \in {"running", "paused", "error"} \ {agentRow[a]} :
       /\ {s, agentRow[a]} # {"paused", "error"}
       /\ agentRow' = [agentRow EXCEPT ![a] = s]
  /\ UNCHANGED <<taskRow, run, lastRun, sched, memory, requests, bounds, torn>>

DeleteSession(r) ==
  /\ sched = "up" /\ HasRow(r) /\ run[r].linked
  /\ run' = [run EXCEPT ![r].status = "gone"]
  /\ UNCHANGED <<taskRow, agentRow, lastRun, sched, memory, requests, bounds, torn>>

-----------------------------------------------------------------------------
(* Life of the process.                                                    *)

Mutant_OrphanAnyStatus(r, stale) == r <= stale /\ HasRow(r)

\* _recover_orphan_runs: records are created in time order, so those older than
\* orphan_run_timeout_seconds are the ones up to some id.
Orphan(r, stale) == r <= stale /\ run[r].status = "running"

\* start(): orphans are failed, then the enabled tasks get their jobs.
Start ==
  /\ sched = "down" /\ boots < MaxBoots
  /\ boots' = boots + 1
  /\ sched' = "up"
  /\ \E stale \in 0..lastRun :
       run' = [r \in Runs |-> IF Orphan(r, stale)
                                THEN [run[r] EXCEPT !.status = "failed"] ELSE run[r]]
  /\ jobs' = {t \in Tasks : taskRow[t] = "enabled"}
  /\ UNCHANGED <<taskRow, agentRow, lastRun, active, busy, bg, cancelled, given,
                 requests, calls, deletes, torn>>

\* shutdown(): requests are over; every background task is cancelled, then
\* awaited, while the scheduler still fires.
ShutdownStarts ==
  /\ sched = "up" /\ deleting = {} /\ \A w \in Workers : call[w] = Idle
  /\ sched' = "draining"
  /\ cancelled' = cancelled \cup {r \in Runs : bg[r] \in Live}
  /\ UNCHANGED <<rows, jobs, active, busy, bg, given, requests, bounds, torn>>

\* What the process held in memory is lost.
Exit ==
  /\ sched' = "down"
  /\ jobs' = {}
  /\ active' = [t \in Tasks |-> NoRun]
  /\ busy' = {}
  /\ bg' = [r \in Runs |-> IF bg[r] \in Live THEN "lost" ELSE bg[r]]
  /\ cancelled' = {}
  /\ deleting' = {}
  /\ call' = [w \in Workers |-> Idle]
  /\ torn' = {}
  /\ UNCHANGED <<rows, given, bounds>>

ShutdownEnds ==
  /\ sched = "draining" /\ \A r \in cancelled : bg[r] \notin Live
  /\ Exit

Crash == sched # "down" /\ Exit

-----------------------------------------------------------------------------

Init ==
  /\ taskRow \in [Tasks -> {"absent", "enabled", "disabled"}]
  /\ agentRow = [a \in Agents |-> "running"]
  /\ run = [r \in Runs |-> [task |-> NoTask, status |-> "none", linked |-> FALSE]]
  /\ lastRun = 0
  /\ sched = "down"
  /\ jobs = {}
  /\ active = [t \in Tasks |-> NoRun]
  /\ busy = {}
  /\ bg = [r \in Runs |-> "none"]
  /\ cancelled = {}
  /\ given = {}
  /\ call = [w \in Workers |-> Idle]
  /\ deleting = {}
  /\ calls = 0 /\ deletes = 0 /\ boots = 0
  /\ torn = {}

Route(w) ==
  \/ \E t \in Tasks : \/ \E enabled \in BOOLEAN : CreateTask(w, t, enabled)
                      \/ \E enabled \in BOOLEAN : SetEnabled(w, t, enabled)
                      \/ UpdateTask(w, t)
                      \/ DeleteTask(w, t)
  \/ CallStep(w)

Next ==
  \/ \E t \in Tasks : Fire(t) \/ RunTaskNow(t)
  \/ \E r \in Runs : RunStep(r) \/ DeleteSession(r)
  \/ \E w \in Workers : Route(w)
  \/ \E a \in Agents : \/ DeleteAgentStarts(a) \/ DeleteAgentEnds(a)
                       \/ AgentStatusChanges(a)
  \/ Start \/ ShutdownStarts \/ ShutdownEnds \/ Crash

Spec == Init /\ [][Next]_vars

\* The event loop runs every coroutine that can go on, and what a run awaits
\* (the agent server, the stream of the turn) answers, fails or is cut off;
\* shutdown() goes on once the tasks it gathers are done.
FairSpec ==
  Spec /\ (\A r \in Runs : WF_vars(RunStep(r))) /\ WF_vars(ShutdownEnds)

-----------------------------------------------------------------------------
(* Properties.                                                             *)

Executing(r) == bg[r] \in Live /\ r \notin cancelled
Holds(t) == active[t] # NoRun

\* _active_runs and _busy_agents tell the same story: an agent is busy exactly
\* while one task of it, and only one, holds a slot.  A busy flag that outlived
\* its run would make every later run of the agent a skipped one.  (An agent
\* whose task was erased under a running run is excepted: see
\* NoTaskErasedInFlight.)
SlotAgreement ==
  \A a \in Agents \ torn :
    /\ a \in busy <=> \E t \in Tasks : AgentOf[t] = a /\ Holds(t)
    /\ \A t, u \in Tasks :
         AgentOf[t] = a /\ AgentOf[u] = a /\ Holds(t) /\ Holds(u) => t = u

\* While the service is up, a slot is held by a run that is still executing:
\* no cancelled, finished or forgotten run keeps a task from running.
NoLeakedSlot ==
  sched = "up" =>
    \A t \in Tasks : Holds(t) => Executing(active[t]) /\ run[active[t]].task = t

\* Runs of one task never execute side by side, and neither do the runs of one
\* agent (_acquire_slot), whatever was cancelled, deleted or released late.
OneRunAtATime ==
  \A r, q \in Runs : Executing(r) /\ Executing(q) /\ r # q =>
    /\ run[r].task # run[q].task
    /\ Agent(r) = Agent(q) => Agent(r) \in torn

\* A record that has its verdict keeps it, through late updates, restarts and
\* the recovery of orphans, until it is deleted.
VerdictIsFinal ==
  [][\A r \in Runs : run[r].status \in Verdicts =>
       run'[r].status \in {run[r].status, "gone"}]_vars

\* Every dispatched run gives its slot back (the finally of _run_in_flight).
SlotReleased ==
  \A t \in Tasks : \A r \in Runs : active[t] = r ~> active[t] # r

\* With the routes served one at a time and no agent deleted, the jobs are
\* those of the enabled rows whenever no route is in progress.
JobsFollowRows ==
  sched = "up" /\ (\A w \in Workers : call[w] = Idle) /\ deletes = 0 =>
    \A t \in Tasks : t \in jobs <=> taskRow[t] = "enabled"

-----------------------------------------------------------------------------
(* Claims of the source that the code does not keep (violation runs).      *)

\* "A task with a run in flight must not be deleted: the cascade would lose
\* the run record" (delete_task, line 361).
NoTaskErasedInFlight == torn = {}

\* "The result stays in the session, the messages and the run record" (module
\* docstring, line 4): recording another run deletes no record of a run that
\* is still executing.
PruneSparesRunning ==
  [][lastRun' # lastRun =>
       \A r \in Runs : Executing(r) /\ HasRow(r) => HasRow(r)']_vars
=============================================================================
