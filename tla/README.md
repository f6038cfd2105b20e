# Verification of witty-service

TLA+ specifications of the concurrent parts of witty-service, the TLC
configurations that check them, and TLAPS proofs about them.  Paths are relative
to the repository; `service/` stands for `src/witty_service/` and `server/` for
`src/witty_agent_server/`.

## 1. The system

Two programs.  The **service** owns the database, the HTTP interface and the
sandboxes; for every agent it starts an **agent server** in a sandbox, which
drives one of three runtimes (openclaw, opencode, dsh).  A turn of a conversation
goes from an HTTP request, a scheduled task or a chat platform through
`AgentManager` and a WebSocket to the agent server, whose `TaskPool` runs it
against the runtime; its events come back the same way and are persisted on the
service's side.  Beside the conversations the service connects to chat platforms
and runs backports of commits for its users.

| Part | State it keeps | Operations | Interacts with | Modelled by |
|---|---|---|---|---|
| Scheduled tasks (`service/application/scheduled_task_service.py`) | tasks and run records in the database; in memory the APScheduler jobs, `_active_runs`, `_busy_agents`, the background tasks | start, shutdown, create/update/delete/enable/disable, job callback, manual run, the run itself, purge at agent deletion | AgentManager (turns, deletion), repositories | `ScheduledTasks` |
| Session turns of the agent server (`server/application/services/task_pool.py`, `session_ws_orchestrator.py`, `session_state_sync_service.py`, `server/api/routers/session_ws_router.py`) | `_inflight_sessions`, `_cancel_events`, the connection registry, the session states and bindings, one queue per turn | connect, submit, abort, disconnect, the consuming task, the producer thread | runtime streams, WebSocket clients | `SessionTurns` |
| Session streams (`service/application/agent_manager.py`, `session_stream_registry`, `service/adapter/`) | per session: subscribers, buffer, generation, ended flag; the pooled WebSocket client; messages and their status | send, regenerate, reconnect, background consumer, abort | agent server, HTTP clients | `SessionStreams`, `ReplyStream` |
| Channel router (`service/channels/router.py`, `turn_gateway.py`, `dedup.py`, `delivery.py`) | per route: queue, worker, `binding_version`, current and stopped turn; in the database the active session and the seen events | inbound message, worker loop, `/stop`, `/new`, (un)registration of an instance | adapters, AgentManager, the console (sessions deleted) | `ChannelRouter` |
| Channel gateway (`service/channels/gateway.py`, `adapters/base.py`, `adapters/wecom_bot.py`) | the adapter supervised, the registration at the router, the sockets of the adapters, the status of the instance | supervise, connect, reconnect, disconnect, delete; start, stop, receive loop and heartbeat of an adapter | router, platform, database | `ChannelGateway` |
| QQ adapter (`adapters/qq_bot.py`, `adapters/qq_transport.py`) | reply contexts with their counts and numbers; a token per transport; a WebSocket with its task, heartbeat and events | `send_text`, `start`, `stop`, `connect`, `close`, receive loop, heartbeat | router, platform | `QqReplies`, `QqLink` |
| Channel provisioning (`service/channels/provisioning/`) | attempts and their rows, per-attempt locks, credential files, instances | begin, poll, cancel, bind by hand, maintenance, deletion | platform drivers, gateway | `Provisioning` |
| Agent lifecycle (`agent_manager.py`, `service/domain/enums.py`, `service/main.py`, `service/sandbox/`) | the rows of agent and sandbox, the backend's registry, the process trees, the ports | create, pause, resume, delete, status check; recovery at start-up, shutdown | sandboxes, agent server, scheduled tasks | `AgentLifecycle` |
| Backport runs (`service/api/backport.py`, `application/backport_service.py`, `backport_run_store.py`) | table of Runs in memory, `task.json`, `runs/NNN.json` and the report on disk, locks of Runs and repository, the target branch | start, pause, list, the worker thread, convergence after a restart | worker threads, git, cvekit | `BackportRuns` |
| The rest | requests answered from the database, files or other services; protocol clients; functions over text | | | |

`PROJECT.json` lists every part with what is modelled of it, and under `hazards`
the places where the code is hard to test.

What is hard here: almost everything is asyncio, so a step is what a coroutine does
between two awaits, and the faults are values read before an await and used after
it.  Beside the loop there are threads: FastAPI runs plain `def` routes in a pool
(scheduled tasks, most of the agent lifecycle, backports), every backport Run has a
thread, and the agent server produces the events of a turn in an executor thread.
The mutual exclusions (`_active_runs`, `_inflight_sessions`, one worker per route)
live in memory and are released in `finally` blocks, which cancellation reaches at
unexpected points.  Chat platforms deliver events twice, limit replies and close
connections; a restart loses all memory and keeps the database, the files, and the
sandboxes, which are processes of their own.

What makes each part correct:

* *Scheduled tasks*: never two runs of a task or of an agent side by side; the two
  tables of slots agree and no slot outlives its run; verdicts are final, across
  restarts; jobs are those of the enabled rows.
* *Session turns*: turns of a session are serial; a session without a turn is free;
  an abort reaches the turn it means, and no event the runtime makes later follows it;
  state
  events go to the open connection.
* *Session streams*: a caller gets the events of its own reply, once, in order, and
  then an end that something explains; a request is never left waiting on a stream
  that nothing feeds; one regeneration at a time.
* *Channel router*: no message is lost between queue, worker and commands, none is
  handled twice; a stopped turn and one overtaken by `/new` stay silent; replies
  stay within the platform's limit; an answer is the answer to its message.
* *Channel gateway*: one connection per instance, an adapter and a status that agree
  with the row once things are quiet, and a connection that comes back by itself.
* *QQ adapter*: a number used once per message, never more replies than the platform
  takes; a live link has its heartbeat, silence is noticed, what is given up closes.
* *Provisioning*: one attempt in flight, at most one instance of it, never an instance
  without its credentials or the reverse, no secret left behind.
* *Agent lifecycle*: every sandbox that runs is one the service can stop; an agent
  whose recovery failed says so; start-up ends.
* *Backport runs*: no commit is applied twice, the report tells the truth about the
  branch, files agree with each other, a verdict stays, a Run ends.

## 2. Modules

Each component has a module, a module `MC...` that gives its constants values for
TLC, and, where theorems are proved, a module `...Proofs`.

| Module | Role |
|---|---|
| `ScheduledTasks`, `MCScheduledTasks`, `ScheduledTasksProofs` | the scheduled task service, with its database rows, routes and restarts |
| `SessionTurns`, `MCSessionTurns`, `SessionTurnsProofs` | one session of the agent server |
| `SessionStreams`, `MCSessionStreams`, `SessionStreamsProofs` | one session of the service, with both ends of its connections |
| `ReplyStream` | the abstract specification `SessionStreams` implements: what a turn promises its caller |
| `ChannelRouter`, `MCChannelRouter`, `ChannelRouterProofs` | one route of the chat channels |
| `ChannelGateway`, `MCChannelGateway` | one channel instance and its adapters and sockets (its theorems are in `ChannelRouterProofs`) |
| `QqReplies`, `MCQqReplies`, `QqRepliesProofs` | what the QQ adapter sends on one route |
| `QqLink`, `MCQqLink` | the connections of the QQ adapter |
| `Provisioning`, `MCProvisioning`, `ProvisioningProofs` | the attempts and instances of one owner on one channel |
| `AgentLifecycle`, `MCAgentLifecycle`, `AgentLifecycleProofs` | one agent, its sandboxes, and the life of the service |
| `BackportRuns`, `MCBackportRuns`, `BackportRunsProofs` | Tasks, Runs, worker threads and the target repository |

Where components meet, a module holds both sides of what they share: `SessionStreams`
has the agent server's connections and in-flight turn, `ChannelGateway` the router's
table of instances, `AgentLifecycle` the start-up order of `main.py`, `ScheduledTasks`
the deletion of an agent, `BackportRuns` the repository that several Tasks share.

A definition `Mutant_...` is a plausible bug in the definition that follows it; no
specification uses one.  They show that each property depends on the code: put in
the place of the definition, the mutant violates the property (`PROJECT.json`,
`mutants`).

### ScheduledTasks

*State.* `taskRow`, `agentRow` and `run` are the tables; `jobs`, `active`, `busy`,
`bg` are `scheduler`, `_active_runs`, `_busy_agents` and the background asyncio
tasks; `call` is where the route in each worker thread stands.

*Actions.* Coroutines are atomic between two awaits: `_state_lock` is never held
across one, so acquiring it does not suspend.  The five synchronous routes
run in threads and are split at every database statement and scheduler call
(`CreateTask`, `SetEnabled`, `UpdateTask`, `DeleteTask`, then `CallStep`).  A
dispatch (`Dispatch`) takes the slot, inserts the row and creates the background
task; `RefuseSession` and `Skip` are its other ends.  A run goes through
`Enter`, `AgentResumed`, `SessionCreated`, `StreamEnded`; every await can raise
(`FinishFailed`) or deliver a cancellation (`CancelDelivered`).  A task cancelled
before its first step never enters the coroutine: its slot was already taken back
by `Purge`, and its row stays as it is.  `DeleteAgentStarts/Ends` is the route that
purges, awaits the runtime and deletes, or fails.  `Start`, `ShutdownStarts`,
`ShutdownEnds` and `Crash` make the life of the process; `Exit` loses the memory.
The age of an orphan is any prefix of the records (`stale` in `Start`).

*Abstracted.* Cron syntax, time zones, path checks and the text of a prompt are
outcomes; time is left out, so a job of an enabled task may fire whenever it exists.
Left out of `Start` is a task whose schedule no longer makes a job, which is logged and
skipped (`scheduled_task_service.py:111-118`): schedules are taken to be as valid at a
restart as when they were written, and `JobsFollowRows` says nothing of one that is not.

### SessionTurns

The dictionaries of the code are keyed by (agent, session): one session stands for
all.  The loop is atomic between awaits (its queues are unbounded); the producer of
a turn is a thread and interleaves at every operation on shared data: it tests the
cancel event (`Test`) and puts the item it holds (`hand`, `Puts`) in two steps, so that
an abort may come between them.  While
`abort_turn` calls the runtime synchronously the loop is blocked (`loop =
"aborting"`), and the producer goes on: that is the only place where a step of the
loop is split without an await.  When the producer sees the cancel event it leaves
its `for`, which closes the generator: at the first `yield`, outside the `try`,
nothing more happens; inside, the `finally` sets the state but its event is lost.
The end of a turn (`TakeEnd`) clears the entries of the session whoever owns them,
as the code does.  Question replies change none of this state; deleting a session
during a turn is left out.

### ChannelRouter

The state of a route is keyed by the route: one route stands for all.
`phase` and `turn` are the program counter and locals of the worker (`_worker`,
`_process`), `Current` is `RouteState.current`, `version` `binding_version`,
`stopped` `stopped_turn_id`, `active` the `active_session_id` in the database.
`resolve_session` suspends only when it creates a session, so a message whose
session is usable goes from the queue to the placeholder in one step (`TakeNext`,
`Submit`); otherwise the worker waits in `resolve` while commands run.  `/stop`
(`Stop`, `Tell`, `AbortReturns`) drains at once, tells about each message with an
await in between, and only then looks at the current turn.  `/new` (`New`,
`Rebind`, `NewFails`) awaits a session first.  `Conclude` is everything between the
end of the stream and the first text sent: the stopped turn, the text taken from
the stream or else from the last assistant message of the session (`text`), the
binding gate.  `Unregister` loses queue, worker and versions; `stale` marks a
`/stop` that still holds the old state object.

An exception in `_process` before its answer goes out, of a session, a send, the stream
or the database, loses the message and nothing else (`ProcessRaises`).

`shutdown` of the router does to every route what `Unregister` does.  Not modelled:
the commands that only read, the connectivity test, wording and cutting of texts
(the number of segments is a choice within the plan's limit), channels that edit
messages (none of the two adapters can), a worker whose cancellation arrives while
it awaits its own pump, a send or a database call that raises within a command (a `/stop` cut so would not tell
about the rest of its messages; both adapters return failures instead), and the
registration of an event lost with the process.

`fate`, `answer`, `halted`, `rotated`, `chosen` are history: what became of each
message, whose answer it was given, which turns `/stop` named, which turns `/new`
overtook, and which session it bound.

### SessionStreams

*State.* `turn`, `gen`, `target`, `client`, `consumer`, `source` are the locals and
progress of each streaming request and of its background task `consume_ws`; `reader`,
`abort` the reconnecting and aborting requests; `hub` the registry's entry of the
session with the queue of every subscriber; `pool` and `ws` the WebSocket clients;
`link` each connection with the frames on their way, seen from both ends; `rows` and
`status` the tables; `running` and `emitted` what the agent server does.  Everything
is keyed by the session, so one stands for all.

*Actions.*  An action is what happens between two awaits: `SendMessage`,
`Regenerate`, `Connected`, `CallFails` and `HandOver` take a request to the creation
of its task; `Listen`, `Receive` (one disjunct per kind of event), `Resume`,
`StreamCloses`, `Finish` and `ConsumerClosed` are the task; `Take`, `Leave`,
`Reconnect`, `Replay` the requests that read; then the abort and the agent server's
side.  `Finally` ends and cleans up whatever stream the session has by now, as the
code does.

*Abstracted.*  An event is its turn, its kind and its number; batches of rows in
`message_events`, titles and usage are left out.  `MaxFaults` bounds failed calls,
callers that leave, errors of the runtime, broken connections, restarts and what the
agent server answers an abort.  With `Serial` a turn begins only when nothing of the
others is left in the service, a connected client in the pool included.

`ReplyStream` is what the caller is promised, without registry, tasks or
connections: events of its own reply, once and in order, at most one terminal event
and that the last, and an end of the response only after everything produced was
delivered.  `RepliesAreWhole` is its specification under the refinement mapping at
the end of `SessionStreams`: what was produced for a turn is what its request yielded
and what waits in its queue before the sentinels (`Pushed`).

### AgentLifecycle

*State.*  `row` and `rec` are the rows of the agent and of its sandbox; `alive`,
`stuck`, `remains`, `runtime` and `port` what the operating system knows of the process
trees (`alive`: those whose leader, the agent server, lives; `remains`: those that
outlived their leader), `tracked` the registry of the backend; `op` what every request and the recovery at
start-up is at; `phase` where the service stands in its life.

*Actions.*  `create`, `pause` and the status check are synchronous routes and
interleave anywhere; `resume` and `delete` are coroutines and interleave with each
other only where they await (`LoopHeld`).  Each access to a row, a process or the
network is an action.  `Reap`, `Recover`, `RecoverFailed` and `Serve` are the start-up
in the order of `main.py`, where the listing of the agents and the write of "error" may
raise (`Unheard`); `Shutdown` and `Crash` end a life; `BoxDies` and `BoxSticks` are what
processes do.  A server that dies may leave the rest of its tree: a `stop` reaches that
rest only from the registry, where the unreaped zombie vouches for the group; from the
row alone it is skipped.

*Abstracted.*  One agent stands for all.  The port a sandbox gets is its own unless
the code asks for an old one that is free again; a `stop` that fails leaves a stuck
process; session restoration is part of `Launch`; the gateway's port, the workspace,
models, skills and settings are left out, and so are a listing for the reaper that
raises (the service does not start then) and the docker agents, whose listing, when it
raises, lets the service serve while the local agents are still recovered (`gather`).
What is stuck is the server; a process under it that survives SIGKILL is left out.
`forsaken` and `unheard` are history: the remains that no stop could reach, and a start-up
that the database failed.  `Together` says which requests may overlap.

### ChannelGateway

*State.*  `row`, `inst` and `router` are the instance as the database, the gateway
and the router see it; `adapter` and `socket` the objects, `proc` the supervisor and
the calls under way.  One instance stands for all.  Backoff and the health interval
are the time the supervisor may take to wake up, so any time.

*Actions.*  One per stretch between awaits of `_supervise_once`, `_connect`,
`connect_instance`, `disconnect_instance`, `reconnect_instance` and the deletion, of
`start()`, the receive loop, the heartbeat and the teardown of an adapter, and of the
platform (external): it accepts, loses acknowledgements, breaks connections and
kicks an older connection of the same bot.

*Abstracted.*  The start and stop of the gateway, unusable credentials and the length
of backoffs are left out; `InstanceSupervision.connected` is taken to agree with the
adapter's own life; the number of free sockets and adapters only delays a step.

### QqReplies and QqLink

`QqReplies` is one route: `ctx` the reply context (message, replies used, next
number), `age` how old each message is against the two retention times, `token`,
`lock` the token cache of each transport, `call` each `send_text` under way, and the
platform's `grant` and `barred` (external: what it accepts is how the adapter's
comments and error handling describe it).  `send_text` is split at the token
request, the wait for the lock and the post; a rejected token is fetched once more.  A
cancellation of whoever sends ends a call wherever it awaits, and nothing is charged then
(`Cut`).  Messages of other routes may drive out the context (`Evict`).  `anew` is history:
the messages that could still be replied to when their context, replaced or driven out,
was begun a second time.  Left out: the connectivity test, the contents of messages.

`QqLink` is the transports and whoever starts and stops them: `run`, `ws`, `sock`,
`ready`, `established`, `failed`, `beat`, `closing` per transport.  `_run` is split at
each await (token, dial, hello, identify, READY, receive), `close()` where it waits for the
heartbeat, for the socket and for the task (`closing`).  A cancellation may reach the
owner in `connect()`, in the `close()` it shields there, and while the heartbeat is
awaited, which swallows it (757-758); with `Hasty` also while `close()` waits for socket
or task, unshielded, as after a time-out or in `stop()`.  The run has `Hasty = FALSE`,
and entry 15 of section 4 says what happens without it.  `silent` counts heartbeat
intervals without a frame.  Left out: the events themselves, and those that are dropped between
READY and the moment the adapter accepts them.

### Provisioning

*State.*  `row`, `late`, `qr`, `file` are an attempt's row and credential file;
`session`, `scanned` the platform; `inflight` the flow's own memory; `inst`, `cred`,
`maker` the instances made.  Requests hold the attempt's lock or wait for it in `op`.

*Actions.*  Begin, poll, cancel, binding by hand, maintenance (expiry and pruning) and
the deletion of an instance, split at each await of the platform and at each write
that may fail, with the rollback the code does; a crash may follow any write.
A write of the attempt's own row may raise too (`RowResists`): the request fails, and
what came before it stays, a persisted instance included.

*Abstracted.*  One (channel, owner) stands for all; throttling, the cache of finished
instances and the contents of credentials are left out.

### BackportRuns

*State.*  `task`, `runs`, `report` are the files; `record` is
`app.state.backport_runs`; `worker` the threads; `repo`, `head`, `others` the target
branch; `holder` the lock of the repository; `reader` the requests that list Tasks.
All Tasks share one target repository, which is the worst case.

*Actions.*  Starting, pausing and resuming a Run, the listings split where they leave
`runs_lock`, and every step of `run_all`: taking the repository's lock, the check and
the application of a row, the write of the report after it, the finish.  A section
under `runs_lock` is one step, and a fault inside leaves the files it had written.
`Crash` and `Boot` are the end of the process and the convergence `main.py` runs.

*Abstracted.*  cvekit, git, the checks of branch and remote, the archive of cases and
attempts, downloads and the preparation of repositories; edits of rows by other
actions appear only as another holder of the lock and its commits.  A cvekit under way
is taken to end with the service: in the code it is a child of its own
(`backport_cvekit_client.py:496`) and may make its commit after the restart, which then
nobody knows of, and a resumed Run that reads HEAD before it makes it again.  A progress
report that cannot be written is only logged (`backport_service.py:2023-2026`) and left
out: the verdict counts failures by the last report written, so the loss of the last two
in a row may hide one.

*`crossed`.*  A listing takes the active Runs under `runs_lock` and reads and writes the
files of the others outside it (`api/backport.py:573-582`), and nothing keeps a Run from
starting in between.  The model has this.  The history variable `crossed` collects the
Tasks of which a Run was started while a listing read them: what goes wrong with them is
entry 18 of section 4, `FilesAgree` and `EndIsFinal` except them and no others, and the
other properties do not mention it.

## 3. Runs

`tlc -config X.cfg MCmodule` in this directory.  Deadlock is checked in
`backport_runs`, where a listing can always be asked for; the other systems are open
and may rest, and their bounds end them.

| Run | Configuration | Shows |
|---|---|---|
| `scheduled_runs` | `ScheduledTasks_runs` | one task, two runs, two starts, a route in a thread, an agent deletion: no run beside another, no leaked slot, jobs follow rows, verdicts are final, slots are given back |
| `turns` | `SessionTurns_live` | two turns of a session: seriality as far as it goes, what may still follow an abort, a taken session becomes free |
| `router_route` | `ChannelRouter_route` | two messages, two commands, two sessions, a reconnect: the fate of every message, silence, the gate, settlement |
| `streams_overlap` | `SessionStreams_overlap` | two overlapping turns of two events each and a reader that reconnects in the middle: no request that reads its own reply is stranded, no event twice, none out of order |
| `streams_replies` | `SessionStreams_replies` | turns one after the other, an abort and a fault: the session implements `ReplyStream`, every end is explained, every reply ends |
| `lifecycle_orderly` | `AgentLifecycle_orderly` | the pairs of requests the code orders, two faults, a crash or shutdown: no orphan, recovered or in error, start-up ends |
| `gateway_supervision` | `ChannelGateway_supervision` | a call against the supervisor and a failing platform: one connection, convergence, recovery |
| `gateway_killed` | `ChannelGateway_killed` | a call can end the supervision of every instance (violation, section 4) |
| `provisioning_attempts` | `Provisioning_attempts` | two requests, a fault: one attempt, one instance of it, nothing by halves, ends are final |
| `backport_runs` | `BackportRuns_runs` | a Run of two commits and its resumptions, a listing it may cross, a crash, a failing write: nothing applied twice, a true and agreeing report but for rows of status "error", final verdicts, every Run with a thread ends |
| `qq_replies` | `QqReplies_replies` | two messages, three sends of which two overlap, a repeated delivery, an evicted context, a revoked token, a fault or a cancelled send: no number twice, and the limit of the platform, but for messages begun anew |
| `qq_links` | `QqLink_links` | two transports, two faults, two cancellations: a live link has its heartbeat, silence is noticed, what is given up closes |

Further configurations are kept for runs by hand.  Some are larger or other instances
of the same properties: `ScheduledTasks_slots` (two tasks of one agent, and the
agreement of the two tables of slots), `BackportRuns_again` (two Runs of a Task, of one
row), `AgentLifecycle_overlap` (all pairs of requests, two ends of the service).  The others
end in the counterexamples of section 4; where such a configuration names several
invariants, each is violated, and TLC stops at the first unless the others are taken out.

### Bounds

* `scheduled_runs`: what is claimed is about one task's slot and records across two
  lives of the process; one thread suffices to interleave with the loop, and the
  exclusion between threads is not claimed (section 4).  `Keep = 1` makes pruning bite
  at once.  That runs of two tasks of an agent exclude each other is proved, and
  checked in `ScheduledTasks_slots` (1.5 million states).
* `turns`: two turns give the overtaking of one by another; one event per turn is
  enough, since events differ only as first, last or terminal.  For any number
  of connections the safety properties are proved.
* `router_route`: a queue of one fills with one message waiting; two commands make
  every pair of `/stop` and `/new`; two sessions make one that is replaced;
  `ReplyLimit = 3` is the least that `plan`'s contract allows (`LimitAssumption`),
  where placeholder and notice leave one segment.
* `streams_*`: overlap concerns pairs of turns.  `streams_overlap` has a delta and a
  completed event per reply, so that order can be violated, and no answer from before
  (with one, 8.7 million states), so that a send replaces the stream of a send, not one
  that a regeneration has reserved: that is left to the proof.
  `streams_replies` has the faults and an abort that these leave out, on turns that follow
  each other.
* `lifecycle_orderly`: two requests overlap, with two faults so that a failure and the
  write that should record it can both go wrong; three sandboxes allow a replacement of a
  replacement.  `TamePairs` leaves out pause with resume, delete with resume and create
  with delete, after which the code does lose sandboxes from its tables (section 4);
  `EveryBoxIsWithinReach` is proved for all pairs.
* `gateway_*`: one call at a time against the supervisor; four adapters and sockets are
  more than are ever referred to at once.
* `provisioning_attempts`: two requests, hence two begins, a poll with a cancellation,
  a rotation of the QR code; two attempts and two instances show a second one.
* `backport_runs`: a report of two rows and three steps make a Run that ends by its
  budget, by its rows or by a pause; one crash and one failing write, exception or
  thread that does not start.  A Task has one worker at a time, so one thread loses
  nothing, and a resumption is a start that a listing can cross.  A second Run over what
  the first left is checked with one row (`BackportRuns_again`, 274 thousand states); both
  together have more than 2.5 million states, and there the proof stands alone, except
  for `RunEnds`.
* `qq_replies`: two messages make an older and a newer context; two overlapping calls, a
  third and a limit of one reply make the limit bite, and a repeated delivery would reset
  the numbers.  With a second transport it has more than 15 million states; several
  transports are left to the proof.
* `qq_links`: two transports are the given-up one and its successor.

### Fairness

* `ScheduledTasks!FairSpec`: weak fairness of each run's step and of the end of a
  shutdown.  The loop runs ready coroutines; that a stream ends is an assumption:
  no timeout bounds a turn.
* `SessionTurns!FairSpec`: strong fairness of the steps of the consuming task,
  because asyncio runs ready callbacks first come, first served and a client that
  interrupts again and again cannot overtake them for ever; weak fairness of the
  threads and of the return of an abort.
* `ChannelRouter!FairSpec`: weak fairness of the worker's next step and of each
  command.  Sends and requests have timeouts; that the stream of a turn ends is
  assumed, as above.  Nothing is asked of users, console or connections.
* `SessionStreams!FairSpec`: weak fairness of the ready steps of the loop, of the agent
  server, of a caller that takes what is in its queue, of an abort under way.
* `AgentLifecycle!FairSpec`: weak fairness of each request's next step and of the
  start-up: threads are scheduled, polls of `/ping` are counted.
* `ChannelGateway!FairSpec`: weak fairness of the supervisor's tick, of each call, of
  the teardown and the heartbeat timer, and of the platform's answer to a socket that
  asked.
* `BackportRuns!FairSpec`: weak fairness of each worker thread and of the restart after
  a crash.  The first has in it that every call of cvekit and git returns: `_run_cvekit`
  runs it without a timeout (`backport_cvekit_client.py:496-505`), so a cvekit that hangs
  keeps its Run, and the repository, for ever, and nothing in the code prevents it.
  Nobody else who holds the repository's lock owes anything: waiting for it has a timeout.
* `QqLink!FairSpec`: weak fairness of timers and ready coroutines (the owner, `_run`,
  heartbeat, `close()`), of the library that gives up on a socket which does not close, of
  a supervisor that returns to a dead link, and of a platform that closes connections
  without heartbeats.
* `QqReplies` and `Provisioning` make no claim that needs fairness.

## 4. What disagrees with the code's own words

`gateway_killed` is a listed run, and `findings` in `PROJECT.json` quotes the line.

`gateway_killed`: when a call and the supervisor start the same adapter, both await one acknowledgement; a
`disconnect` cancels that future (`wecom_bot.py:554`), the supervisor re-raises what it
takes for its own cancellation, and nothing is checked or reconnected any more
(`SupervisorLives`; `gateway.py:9` promises the contrary).

The others have a configuration kept for runs by hand, which TLC ends with the
counterexample, or none where noted.

Scheduled tasks

1. `delete_task` checks for a run in flight and deletes two statements later, in a
   thread; the loop may dispatch in between (`_delete_race`, `NoTaskErasedInFlight`).
   The exclusion of the agent then fails too, which is why `SlotAgreement` and
   `OneRunAtATime` except the agents in `torn`.
2. Pruning keeps the newest records whatever their status: skipped records push out
   the one of the run in flight (`_prune`, `PruneSparesRunning`).

Session turns

3. A turn that completed early releases its session, and its `finally` releases it
   again: the next turn loses its entries, and a third is accepted beside it
   (`SessionTurns_words`, `SerialPerSession`).  `SerialUntilEarlyRelease` says how far
   seriality does hold.
4. A turn cancelled before its first event leaves the session state running
   (`SessionTurns_words`, `RoundsSettle`).

Session streams

5. A reply whose abort, restart or lost connection comes at the wrong moment leaves its
   assistant row "generating" (`SessionStreams_stuck`, `NoMessageStuckGenerating`;
   `agent_manager.py:1842`, `1871`, `2430`); rows without `last_stream_at` are not
   recovered at start-up either.
6. A connection opened right after a reply may be refused (1008) while the agent server
   still drains the turn before.
6a. A reader that reconnects replays a copy of the buffer, suspending at each event, and
   subscribes afterwards.  What is pushed in between it never gets (`SessionStreams_readers`,
   `NothingMissed`); if the stream ends in between, it subscribes to one that nobody feeds
   or ends: its response never ends, and the session counts as active, which refuses
   regenerations, until the next send (`NoReaderIsStranded`).  Both
   against "buffered events first, then live events" (`agent_manager.py:377`).  So
   `NobodyWaitsForNothing` is about requests that read the reply they asked for, and
   `NoRepeats` about what is given twice or out of order, not about what is missing.
6b. A send replaces the stream a regeneration has reserved, and its end cleans it up; a
   second regeneration then passes beside the first (`SessionStreams_regenerations`,
   `OneRegeneration`), against the comment at `agent_manager.py:1725`.

Channel router

7. The worker of a route writes the session it resolved over the one `/new` bound
   meanwhile, and stamps its turn with the new version, so the gate lets it pass
   (`ChannelRouter_words`, `NewTakesEffect`).
8. A turn that fails before it has an assistant message (the agent cannot run, the
   connection fails) is answered with the last answer of the session
   (`ChannelRouter_words`, `OwnAnswer`).

Agent lifecycle

9. A crash between the two transactions of a deletion leaves a row "deleted" that
   `resume` brings back, which `can_transition` (`enums.py:36-40`) excludes
   (`AgentLifecycle_undead`, `DeletedIsFinal`).
10. The status check reads the handle and the process at different times and can call a
    living sandbox dead, against its "rather miss" comment (`AgentLifecycle_misjudged`,
    `LiveIsNotMisjudged`).
11. Pause with resume, delete with resume and create with delete lose sandboxes from
    the rows (why `TamePairs` leaves them out of `NoOrphans`); a creation cut by a crash is
    never recovered; a resume of a running agent that fails leaves it "running" without
    a runtime, and so does a recovery whose failure cannot be written (`main.py:194-199`) or
    whose agents cannot be listed (206, 245-246), which `RecoveredOrError` exempts (`unheard`).

11a. When an agent server dies and the processes it started live on, a restart of the
    service forgets the zombie that vouched for their group: neither the recovery's
    `start`, which promises to bring the previous tree down first
    (`local_process.py:101-103`), nor the reaper, which looks for agent servers, stops them
    (`AgentLifecycle_remains`, `StartLeavesNothing`).  The code prefers an orphan to killing
    a stranger (308-309); the invariants say that nothing else is lost (`forsaken`).

Channel gateway

12. When attempts overlap, an older adapter keeps its socket beside the newer one, and
    its callbacks reach the instance, against the comments at `wecom_bot.py:500` and
    `gateway.py:581`; the generation guard at `router.py:289` can never drop anything,
    since both sides read the same row.  `OneConnection` and `Converges` are about
    attempts that do not overlap and about what is left in the end.

QQ adapter

13. A group's context older than an hour is pruned, and the reply goes to
    `route.platform_user_id`, the member, against the comment in `_handle_event` that
    no reply is better than that (`QqReplies_astray`, `NothingAstray`).
14. An older message delivered again after a newer one resets count and number, against
    the comment of `_remember` (`QqReplies_overtaken`, `NumbersAreNeverReset`).  `NumbersAreOwn`
    and `LimitKept` except these messages (`anew`) and no others.  A send charges whichever
    context is current when it returns, and one that is cancelled in its await is not
    charged at all (`send_text` catches `Exception`, `qq_bot.py:550`): `LimitKept` counts
    the others.
15. `close()` while the connection task still dials leaves the socket it opens within
    the grace second, against the comment in `connect()` (`QqLink_zombie`,
    `NothingLeftOpen`).  A cancellation while `close()` waits for the task leaves a
    connection for ever (`GivenUpCloses` with `Hasty = TRUE`).

Provisioning

16. Two overlapping begins make two attempts; a poll that rotates the QR code can revive
    an expired attempt beside a newer one; maintenance can delete a row whose poll is
    at the platform, and an instance is made though the client gets a 404.  `OneAttempt`
    excludes these by the history variable `overlapped`.  When the instance is made and
    the write of "succeeded" then raises (`flow.py:418-423`), or the process dies before
    it, or an undo fails, the row still waits, and the next poll makes a second instance:
    `OneInstancePerAttempt` excepts these attempts, which the history variable `unsaid`
    collects, and no others.  Deleting an instance leaves its credential file.

Backport runs

17. A check that only timed out on the repository's lock is merged into the report as
    failed (`backport_service.py:1555`), while the message says to retry later
    (`BackportRuns_words`, `TimeoutIsRetryable`).
18. Listings converge Runs outside `runs_lock` (`api/backport.py:573-582`) and can mark a
    Run interrupted that just started (`BackportRuns_words`, `LiveRunIsRunning`).
19. A Run cut by a crash after its commit can never be resumed: the branch is past the
    HEAD it recorded (`api/backport.py:125-133`; `BackportRuns_words`, `CutRunGoesOn`).
20. Without a configuration: a crash between "unapplied" and its second check leaves the
    row failed for ever; a Task whose `generate_report` is cut stays "generating"; the
    repository's lock is released before HEAD is read as the Run's end; a crash inside
    the convergence at start-up leaves `task.json` and Run disagreeing; an exception
    between the entry in the table of Runs and the start of its thread leaves a record
    "running" until the restart (`Starts` has it, and `RunEnds` speaks only of Runs that
    got their thread).
21. An application of which cvekit reports "error" instead of "failed" is returned as a
    success (`backport_cvekit_client.py:2175`): the row says "error", which a later pass
    counts as a failure (`backport_service.py:785`), but this one does not (1052), and
    the Run says completed (`BackportRuns_words`, `FailuresAreCounted`).  `VerdictIsTrue`
    excepts these rows and no others.

Seen while modelling the scheduled tasks, turns and router, and listed as hazards or
left out: a run cancelled before its first step keeps its record running after a clean
shutdown; records of refused sessions are never pruned; an agent deletion that fails
leaves enabled tasks without jobs; an update writes back an enabled column it read
before a concurrent disable; an abort that comes before the first step of its turn, or
from the second turn of a connection, does nothing; `/stop` between queue and current
turn reports that nothing runs.

## 5. Proofs

`tlapm` on each `...Proofs` module checks every leaf.  The theorems hold for all sets
and numbers the constants name and all bounds, from the named assumptions of the
modules.  Every invariant of a theorem is part of an inductive invariant `IInv`; all of
these were model-checked on the instances of section 3 (or smaller ones) before they
were proved.

*ScheduledTasks.*  The inductive invariant adds to the properties:
`RunsInOrder` (rows are created in order, what was not created left no trace),
`LiveUndecided` (an unended run has no verdict), `SlotOfTask` and `LiveHolds` (a
slot belongs to a run of its task, and an executing run holds its slot),
`ErasedHeld` (a held slot without a row means a torn or deleted agent) and
`DownIsEmpty`.  `LiveHolds` is what makes exclusion inductive: two executing runs of
one task would both be the value of one entry.  `ErasedHeld` is what `DeleteTask`
and `Purge` need of each other: a purge finds tasks by their rows, and a slot whose
row is gone escapes it.  Theorems: `TypeCorrect`, `SlotsAgree`, `SlotsDoNotLeak`,
`MutualExclusion` (`OneRunAtATime`), and the action property `VerdictsAreFinal`,
which needs `LiveUndecided`: only runs that have not ended write verdicts.
`OneRouteAtATimeKeepsJobs` proves `JobsFollowRows` when there is one worker thread (with
two, an enabling and a disabling route can cross); its invariant `JInv` says what the call in progress still
`Owes` the scheduler between its write to the row and its call of the scheduler.

*SessionTurns.*  `IInv` adds `OwnerKnown` (a submitted turn has a connection) and
`OneRegistered` (the registry holds one connection, closing ones included), from
which `BindingIsOpen` follows through connects and closings.  Theorems:
`TypeCorrect`, `SessionIsFreed`, `AbortIsTimely`, `SerialTurns`, `BindingSound`, and the
action property `CancelledTurnsAreCut` (`AbortCutsStream`): a thread whose turn was cancelled
passes no test any more, so that after the abort its queue gains at most the one event it
held, and the end.

*ChannelRouter.*  `IInv` adds: `Lists` (queue and drained lists repeat no message
and are disjoint, and a `/stop` is telling exactly as long as its list has
messages), without which the fate of a message would not determine its place;
`WorkerHasTurn`; `SentSoFar`, which bounds what a turn has sent phase by phase - one
placeholder and one notice before its result, then never more than `left` allows;
and `Gates`.  A halted message may still be running, and then it is the current one
and `stopped` names it; a rotated one may still be running, and then its turn has a
version below the present one.  `/stop` is sound because nothing overwrites
`stopped` while the turn it names is current, and `/new` because versions are only
reset by `Unregister`, which cancels the turn with them.  Each step of the worker
that ends a turn goes through `TakeNext`, so that one lemma (`TakeNextPreserves`)
serves five actions, and those within a turn share another (`WithinTurnPreserves`).
Theorems: `TypesHold`, `NothingIsForgotten`, `StopSilences`, `NewSilences`,
`QuotaIsKept`, and the action property `SettledStays`.

*ChannelGateway.*  `InstanceHasOneConnection` (`OneConnection`) and the types
(`GatewayIsTyped`), at the end of `ChannelRouterProofs`, where the specification is the
instance `Gateway` and its assumptions are the hypothesis `GatewayBounds`.  While nothing
overlaps, one task at a time is under way, and if it attempts to connect, then the
supervised adapter, which is not alive (`OneAttempt`); a socket that is not closed is the
current one of the supervised adapter, which is alive or whose attempt has opened it
(`OneOpen`).  So there is never a second socket that the platform could take over from,
`Kicked` needs an overlap, and what a call leaves behind when it forgets an adapter that is
not alive has no open socket.  Once something has overlapped only the types remain,
and `Converges` and `Recovers` say by model checking what is left of the rest.

*AgentLifecycle.*  `EveryBoxIsWithinReach` (`NoneIsLost`) and the types, for every pair
of requests that overlap.  `IInv` adds `RemainsAreKnown` (what outlived its server is in the
registry or `forsaken`), `BusyMeansUp`, `HoldsABox` (a request about to write the sandbox's row has a sandbox to write),
`UnbornHasNoBox` and `ReplacesNothingLoose`.  The argument: `Loose == alive \ (tracked \cup stuck)`, what lives and
no table of the process knows, only shrinks except in a crash; and whoever replaces the
sandbox of the row does so when nothing is loose, because the backend's `start` stops the
one the row named before.  Two more invariants are about moments at which the agent is at
rest.  `Discipline` says who may be under way in which phase (while the service recovers,
the recovery alone), and which pairs of requests.  With it `RInv` gives `RunningIsRecovered`
(`RecoveredOrError`): what the recovery heard of is the sandbox that the row names
(`HeardOut`).  `OInv` gives `OrderedRequestsLeaveNoOrphans` (`NoOrphans`): each request knows the sandboxes it
has made (`Knows`), and between requests that make one the database names what lives in
whole or in part (`Named`, about `Trees`).  Its assumption `Tame` excludes pause or delete beside resume, and
create beside delete, exactly the pairs after which the code does lose sandboxes (section 4).

*SessionStreams*, for all sets of turns, readers and aborts.  Serial or not:
`StreamsAreTyped`, `NobodyIsStranded` (`NobodyWaitsForNothing`: requests that read the reply
they asked for) and `NothingIsRepeated` (`NoRepeats`).  The second needs only the types: an operation of the registry keeps a subscriber or tells it the end
(`Keeps`), and a stream that gives up its subscribers tells them all (`Closes`); this is why
`start_stream` must end the stream before it empties the set of subscribers.  `NoRepeats`
needs to follow an event through its copies: on the link of its request, in the queues, in
the buffer, in what a reader has still to replay, in what the callers were given.
`InOrder` says that each copy is ascending, that what a caller holds precedes its queue
or its replay, and that everything precedes what the links still carry.  It is
inductive together with `AskedOnce` (the request of a turn is on one link, once, and
nothing of the turn exists before the agent server takes it), `OneLink` (inside `InOrder`: the events of a
turn are on the link of its request) and `Reconnecting` (who replays has not subscribed,
so its queue is empty).  All steps of the service are instances of one lemma,
`ServiceInOrder`: they add to the registry at most the event taken from a link and
sentinels (`HubAdds`).

Under `Serial`, `EveryReplyIsWhole` (`RepliesAreWhole`) shows that the service implements
`ReplyStream`, and `EveryEndIsExplained` (`EndIsExplained`) that no response just ends while
nothing failed.  Their inductive invariant is `SerialInv`.  `OneAtATime` turns the guard
of the beginning into a fact about every later state: at most one turn is `Active`.
`OwnStream` then says that the session's stream is the one that turn reserved or
started, so the generation test of `push_event` passes; `OwnQueue`, that who reads has
subscribed as long as its consumer lives, and that a queue is events and then nothing
but sentinels (`Cut`); `OwnLink`, that the connection a turn uses carries its own request
and events, also after an abort or a restart left one with the agent server.  `WholeSoFar`
is the heart: what the caller has and what waits in its queue are the deltas 1 to n of
its turn, and what is on the way (`OnTheWay`, `Chain`) goes on from n + 1 up to where the
runtime is, the state event before it counted as 0.  `Undisturbed` says the same of the
ends: while nothing failed, only its consumer closes a connection, and a consumer that
stopped had pushed the completed event as number `MaxEvents + 1`, or a failure.  The steps that
concern no turn's own state go through one lemma (`QuietStep`).  The step simulation has one
lemma per action of `ReplyStream` (`ReplyOpens` to `ReplyCloses`, and `RepliesAbandoned` for a
restart, which ends all of them at once); `ReplyGoesOn` maps a push, with or without the
end of the stream behind it, to a production, and `ReplyStops` maps a `finally` to `Finish`.

*Provisioning.*  `NothingByHalves`, `AtMostOneInstance`, `AtMostOneAttempt`,
`SecretsAreDropped`, `ShownCodeIsKnown`, the action property `EndsStay`, and the types.
`IInv` adds `PollsHold` (a poll past the lock holds the attempt it polls, and no other
request does), `MadeOnce` and `AskedAlone` (a begin that awaits the platform while
nothing overlaps is the only request about a waiting attempt).  `NoHalves` needs the
order of the three writes and of their undoing.  `MadeOnce` is what makes one instance
per attempt inductive: who made an instance is a row that says so, which no poll past the
lock may be about; the attempts in `unsaid`, whose row could not be written, are exactly
those for which it fails.

*BackportRuns*.  `RunsApplyOnce`, `RunsTellTheTruth`, `RunsFilesAgree`,
`RunsEndForGood` and `RunsHaveOneWorker`.  `IInv` consists of the types and `Threads`,
`Lives`, `Listings`, `Tally`, `Agree` and `Committed`.  The heart is `Committed`: every
commit on the branch is in the report, or the worker that made it is about to write it,
or the process died in between and the branch is past the HEAD from which the Run may
be resumed (`Lost`), so that nobody applies it again.  `Listings` says that a listing has
more to do than look only after a failed write, or where a start crossed it.  The 22 steps of a worker are factored
through three facts of a step (`Works`, `Counts`, `Keeps`), from which the conjuncts
follow once for all of them.

*QqReplies*, whatever is delivered again.  `RepliesNumbersAreOwn`, `RepliesLimitKept`,
`RepliesVerdictsAreHonest`, and the types.  `IInv` adds `Lives`, `Known`, `Numbered`,
`Accounted` and `Few`: while a context is open, and the first its message has, its next
number is above all numbers given out for the message, and what the context counts as used
is at least the sends that are over and count; those under way are no more than `Overlap`.
A send looks at the count before it awaits and adds to it after, so a message may get
`Limit + Overlap - 1` replies, and only messages in `anew` and cancelled sends bring more,
which is `LimitKept`.

Only model-checked: liveness (`SlotReleased`, `SessionFreed`, `EveryMessageSettles`,
`ReplyEnds`, `StartUpEnds`, `Converges`, `Recovers`, `RunEnds`, `SilenceIsNoticed`,
`GivenUpCloses`), which is out of the prover's reach, and `LiveLinksAreWatched` with the
type invariant of `QqLink`, about which nothing is proved.  Every other safety invariant
and every action property of the passing runs is a theorem, and so are the other type
invariants.

## 6. Not modelled, and the plan

Left out for good, because their correctness is not a matter of interleaving: the
translation of the event streams of the three runtimes and the protocol clients behind
it (`server/infra/`), the contents of platform messages and the drivers' QR protocols,
file trees, archives, backups and materialization of skills, git, cvekit and the
processing of reports, the requests answered from one table or one external service
(CVE, skills, templates, insight, settings), validation, routing and wiring of the HTTP
interface, functions over text.

Left for later, in this order:

1. The openclaw gateway client (`openclaw_gateway_client.py`): its pending requests, the
   reconnect and the demultiplexing of runs, as the producer of `SessionTurns`.
2. The runtime lifecycle of the agent server: start and stop of the runtime process
   against turns under way.
3. The session manager: remote and local creation and deletion, composed with
   `AgentLifecycle`.
4. The rows of `message_events` a reply leaves and how they are read back
   (`repositories.py`, `_assemble_message`): their numbers start again with every turn and
   a batch that meets others is moved behind them, so the order of a session's rows is
   not that of its events; the last segment of a message is set to the whole content.
5. The start and stop of the channel gateway, composed with the rest of `main.py`.
