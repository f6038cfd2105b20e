--------------------------- MODULE AgentLifecycle ---------------------------
(* The life of one agent of witty-service: create, pause, resume, delete   *)
(* and the status check (agent_manager.py), the start-up and the shutdown  *)
(* (main.py), the row of the agent and of its sandbox (repositories.py)    *)
(* and the process trees of the sandboxes (local_process.py).              *)
(*                                                                         *)
(* create, pause and the check are synchronous handlers: they run in       *)
(* worker threads and may interleave with anything at each access to the   *)
(* database, a process or the network.  resume and delete are coroutines   *)
(* of the event loop: they interleave with each other only at an await,    *)
(* and with the threads anywhere.  Every table and dictionary is keyed by  *)
(* the agent or the sandbox, so one agent stands for all.                  *)
EXTENDS Naturals, FiniteSets

CONSTANTS
  Requests,     \* the HTTP requests (or turns) that are served at a time
  Boot,         \* the recovery at start-up, as a process
  Together,     \* the pairs of kinds of requests that may overlap
  MaxBoxes,     \* bound: sandboxes started
  MaxFaults,    \* bound: sandboxes that die or get stuck, queries that raise at start-up
  MaxStops      \* bound: crashes and shutdowns of the service

Kinds == {"create", "pause", "resume", "delete", "check"}

ASSUME BoundsAssumption == MaxBoxes \in Nat /\ MaxFaults \in Nat /\ MaxStops \in Nat
ASSUME NamesAssumption == Boot \notin Requests /\ Together \subseteq SUBSET Kinds

Procs == Requests \cup {Boot}
Boxes == 1..MaxBoxes               \* sandboxes, in the order of their starts

VARIABLES
  row,          \* the status column of the agent's row, or "unborn", "gone"
  rec,          \* the sandbox its agent_runtime_state row names, 0: no row
  alive,        \* the sandboxes whose agent server, the leader of the tree, lives
  stuck,        \* those of them that survive SIGKILL (uninterruptible)
  remains,      \* those whose leader is gone and whose other processes live on
  tracked,      \* the sandboxes in the registry of the backend (in memory)
  runtime,      \* the sandboxes whose agent server has started the runtime
  port,         \* the port each sandbox was given
  born,         \* how many sandboxes were started
  op,           \* the request or recovery each process is serving
  phase,        \* of the service: "down", "reaped", "recovering", "serving"
  faults, stops,
  forsaken,     \* history: remains of a sandbox that could not be stopped
  unheard       \* history: this start-up could not list or mark its agents

boxes == <<alive, stuck, remains, tracked, runtime, port, born>>
history == <<forsaken, unheard>>
bounds == <<faults, stops, history>>
vars == <<row, rec, boxes, op, phase, bounds>>

-----------------------------------------------------------------------------
(* The rows.                                                               *)

Present == row \notin {"unborn", "gone"}

\* update_agent_status raises KeyError for a row that is gone; it does not
\* look at the status it overwrites.
UpdateStatus(s) == Present /\ row' = s

\* save_sandbox_state: the foreign key refuses an agent that is gone.
SaveSandbox(b) == Present /\ rec' = b

\* can_transition (domain/enums.py).
CanTransition(from, to) ==
  CASE from = "creating" -> to \in {"running", "deleted", "error"}
    [] from = "running"  -> to \in {"paused", "deleted", "error"}
    [] from = "paused"   -> to \in {"running", "deleted"}
    [] from = "error"    -> to \in {"running", "deleted"}
    [] OTHER -> FALSE

-----------------------------------------------------------------------------
(* The sandboxes.                                                          *)

At(p) == {b \in alive : port[b] = p}      \* who answers on a port
Reachable(p) == p # 0 /\ At(p) # {}

\* stop(): the tree of a stuck sandbox survives, and stop raises.
Stops(b) == b \notin stuck
\* The whole process tree goes, the runtime of the sandbox with its server.
\* When the leader is gone already, its group can be told from another only
\* by the zombie it is of the process that started it and has not waited for
\* it; otherwise (_reap_untracked_sandbox) what remains is skipped.
Halt(b) == /\ alive' = alive \ {b}
           /\ runtime' = runtime \ {b}
           /\ remains' = remains \ ({b} \cap tracked)

\* start(): the previous sandbox is stopped and forgotten first, and the port
\* it had is taken again when nothing listens on it any more.
Start(prev, wanted) ==
  LET b == born + 1
      left == alive \ {prev}
      free == wanted # 0 /\ ~\E x \in left : port[x] = wanted
  IN  /\ born < MaxBoxes /\ Stops(prev)
      /\ born' = b
      /\ alive' = left \cup {b}
      /\ tracked' = (tracked \ {prev}) \cup {b}
      /\ runtime' = runtime \ {prev}
      /\ remains' = remains \ ({prev} \cap tracked)
      /\ port' = [port EXCEPT ![b] = IF free THEN wanted ELSE b]
      /\ UNCHANGED stuck

\* start() raises: before or after it has stopped the previous sandbox.
StartFails(prev) ==
  /\ \/ UNCHANGED <<alive, remains, tracked, runtime>>
     \/ Stops(prev) /\ Halt(prev) /\ tracked' = tracked \ {prev}
  /\ UNCHANGED <<stuck, port, born>>

\* cleanup(): stop, and then forget.
CleanUp(b) == Stops(b) /\ Halt(b) /\ tracked' = tracked \ {b} /\ UNCHANGED <<stuck, port, born>>

\* POST /agent/start on a port: whoever listens there starts the runtime.
StartRuntime(p) == runtime' = runtime \cup At(p)

-----------------------------------------------------------------------------
(* Requests.                                                               *)

Idle == [kind |-> "none", pc |-> "idle", box |-> 0, url |-> 0, bad |-> FALSE]
Busy == {p \in Procs : op[p].pc # "idle"}

Goto(p, pc) == op' = [op EXCEPT ![p].pc = pc]
Leave(p) == op' = [op EXCEPT ![p] = Idle]

Mutant_Raise(p) == Leave(p)

\* An exception: create undoes, the recovery writes "error", others just raise.
Raise(p) ==
  CASE op[p].kind = "create" -> Goto(p, "undo")
    [] op[p].kind = "recover" -> Goto(p, "failed")
    [] OTHER -> Leave(p)

\* Between these steps a coroutine does not await: the others wait, threads run.
LoopHeld == {"restart", "save", "kill", "mark", "erase"}
LoopFree(p) == \A q \in Procs \ {p} : op[q].pc \notin LoopHeld

Accept(p, kind) ==
  /\ phase = "serving" /\ p \in Requests /\ op[p] = Idle
  /\ \A q \in Busy : {kind, op[q].kind} \in Together

Issue(p, kind) ==
  /\ Accept(p, kind) /\ Present
  /\ op' = [op EXCEPT ![p].kind = kind, ![p].pc = "read"]
  /\ UNCHANGED <<row, rec, boxes, phase, bounds>>

-----------------------------------------------------------------------------
(* create_agent.                                                           *)

\* The id is new, so nobody else can name the agent before its row is there.
CreateInsert(p) ==
  /\ Accept(p, "create") /\ row = "unborn"
  /\ row' = "creating"
  /\ op' = [op EXCEPT ![p].kind = "create", ![p].pc = "start"]
  /\ UNCHANGED <<rec, boxes, phase, bounds>>

CreateStart(p) ==
  /\ op[p].kind = "create" /\ op[p].pc = "start"
  /\ \/ Start(0, 0) /\ op' = [op EXCEPT ![p].pc = "store", ![p].box = born', ![p].url = port'[born']]
     \/ StartFails(0) /\ Raise(p)
  /\ UNCHANGED <<row, rec, phase, bounds>>

CreateStore(p) ==
  /\ op[p].kind = "create" /\ op[p].pc = "store"
  /\ \/ SaveSandbox(op[p].box) /\ Goto(p, "health")
     \/ ~Present /\ UNCHANGED rec /\ Raise(p)
  /\ UNCHANGED <<row, boxes, phase, bounds>>

\* The agent runs only if nobody deleted it in between.
SetRunning(p) ==
  /\ op[p].kind \in {"create", "resume", "recover"} /\ op[p].pc = "running"
  /\ op[p].kind # "create" => LoopFree(p)
  /\ \/ UpdateStatus("running") /\ Leave(p)
     \/ ~Present /\ UNCHANGED row /\ Raise(p)
  /\ UNCHANGED <<rec, boxes, phase, bounds>>

Mutant_CreateUndo(p) ==
  /\ op[p].kind = "create" /\ op[p].pc = "undo"
  /\ Goto(p, "forget")
  /\ UNCHANGED <<row, rec, boxes, phase, bounds>>

\* The cleanup's failure is collected, and the row goes all the same.
CreateUndo(p) ==
  /\ op[p].kind = "create" /\ op[p].pc = "undo"
  /\ \/ op[p].box # 0 /\ CleanUp(op[p].box)
     \/ (op[p].box = 0 \/ ~Stops(op[p].box)) /\ UNCHANGED boxes
  /\ Goto(p, "forget")
  /\ UNCHANGED <<row, rec, phase, bounds>>

\* delete_agent of the repository: the sandbox's row goes with the agent's.
CreateForget(p) ==
  /\ op[p].kind = "create" /\ op[p].pc = "forget"
  /\ row' = "gone" /\ rec' = 0
  /\ Leave(p)
  /\ UNCHANGED <<boxes, phase, bounds>>

-----------------------------------------------------------------------------
(* pause_agent.                                                            *)

\* _get_agent and _ensure_transition.
PauseRead(p) ==
  /\ op[p].kind = "pause" /\ op[p].pc = "read"
  /\ IF Present /\ CanTransition(row, "paused") THEN Goto(p, "quiet") ELSE Leave(p)
  /\ UNCHANGED <<row, rec, boxes, phase, bounds>>

\* /agent/stop is best effort: it may not be heard, or not obeyed.
PauseQuiet(p) ==
  /\ op[p].kind = "pause" /\ op[p].pc = "quiet"
  /\ \/ rec # 0 /\ runtime' = runtime \ At(port[rec])
     \/ UNCHANGED runtime
  /\ Goto(p, "stop")
  /\ UNCHANGED <<row, rec, alive, stuck, remains, tracked, port, born, phase, bounds>>

\* stop() leaves the sandbox in the registry.
PauseStop(p) ==
  /\ op[p].kind = "pause" /\ op[p].pc = "stop"
  /\ \/ /\ rec # 0 /\ Stops(rec) /\ Halt(rec)
        /\ op' = [op EXCEPT ![p].box = rec, ![p].pc = "store"]
     \/ (rec = 0 \/ ~Stops(rec)) /\ UNCHANGED <<alive, remains, runtime>> /\ Goto(p, "paused")
  /\ UNCHANGED <<row, rec, stuck, tracked, port, born, phase, bounds>>

\* The state that was read is written back, whatever it is by now.
PauseStore(p) ==
  /\ op[p].kind = "pause" /\ op[p].pc = "store"
  /\ \/ SaveSandbox(op[p].box) /\ Goto(p, "paused")
     \/ ~Present /\ UNCHANGED rec /\ Raise(p)
  /\ UNCHANGED <<row, boxes, phase, bounds>>

SetPaused(p) ==
  /\ op[p].kind = "pause" /\ op[p].pc = "paused"
  /\ UpdateStatus("paused") \/ (~Present /\ UNCHANGED row)
  /\ Leave(p)
  /\ UNCHANGED <<rec, boxes, phase, bounds>>

-----------------------------------------------------------------------------
(* resume_agent, for a request, a turn of a paused agent or the recovery.  *)

Resuming(p) == op[p].kind \in {"resume", "recover"} /\ LoopFree(p)

\* From paused: the sandbox is probed before anything is restarted.  A row in
\* "deleted" is resumed too (_resume_from_deleted), without the table's leave.
ResumeRead(p) ==
  /\ Resuming(p) /\ op[p].pc = "read"
  /\ \/ row = "paused" /\ rec # 0 /\ op' = [op EXCEPT ![p].pc = "probe", ![p].url = port[rec]]
     \/ /\ row \in {"running", "error", "deleted"} \/ (row = "paused" /\ rec = 0)
        /\ Goto(p, "restart")
     \/ (~Present \/ row = "creating") /\ Raise(p)
  /\ UNCHANGED <<row, rec, boxes, phase, bounds>>

\* The probe's answer may get lost.  A sandbox that answered is used as it is,
\* by the address of whatever the row names now.
ResumeProbe(p) ==
  /\ Resuming(p) /\ op[p].pc = "probe"
  /\ \/ /\ Reachable(op[p].url) /\ rec # 0
        /\ op' = [op EXCEPT ![p].pc = "launch", ![p].url = port[rec]]
     \/ Reachable(op[p].url) /\ rec = 0 /\ Raise(p)
     \/ Goto(p, "restart")
  /\ UNCHANGED <<row, rec, boxes, phase, bounds>>

\* _restart_sandbox up to the return of start().
ResumeRestart(p) ==
  /\ Resuming(p) /\ op[p].pc = "restart"
  /\ \/ Start(rec, IF rec = 0 THEN 0 ELSE port[rec]) /\ op' = [op EXCEPT ![p].pc = "save", ![p].box = born']
     \/ StartFails(rec) /\ Raise(p)
  /\ UNCHANGED <<row, rec, phase, bounds>>

ResumeSave(p) ==
  /\ Resuming(p) /\ op[p].pc = "save"
  /\ \/ SaveSandbox(op[p].box) /\ op' = [op EXCEPT ![p].pc = "health", ![p].url = port[op[p].box]]
     \/ ~Present /\ UNCHANGED rec /\ Raise(p)
  /\ UNCHANGED <<row, boxes, phase, bounds>>

\* The polls of /ping, of create and of resume: every attempt may fail.  The
\* client of resume's next call reads the address again.
Health(p) ==
  /\ op[p].pc = "health" /\ (op[p].kind = "create" \/ Resuming(p))
  /\ \/ /\ Reachable(op[p].url) /\ (op[p].kind = "create" \/ rec # 0)
        /\ op' = [op EXCEPT ![p].pc = "launch", ![p].url = IF op[p].kind = "create" THEN @ ELSE port[rec]]
     \/ Raise(p)
  /\ UNCHANGED <<row, rec, boxes, phase, bounds>>

\* /agent/start and the sessions: an error may come after the runtime started.
Launch(p) ==
  /\ op[p].pc = "launch" /\ (op[p].kind = "create" \/ Resuming(p))
  /\ \/ Reachable(op[p].url) /\ StartRuntime(op[p].url) /\ (Goto(p, "running") \/ Raise(p))
     \/ UNCHANGED runtime /\ Raise(p)
  /\ UNCHANGED <<row, rec, alive, stuck, remains, tracked, port, born, phase, bounds>>

-----------------------------------------------------------------------------
(* delete_agent.                                                           *)

Deleting(p) == op[p].kind = "delete" /\ LoopFree(p)

\* A running or paused agent is asked to stop first; without a sandbox row
\* that is an error, and it will block the deletion.  box: a row was read.
DeleteRead(p) ==
  /\ Deleting(p) /\ op[p].pc = "read"
  /\ \/ /\ row \in {"running", "paused"} /\ rec # 0
        /\ op' = [op EXCEPT ![p].pc = "quiet", ![p].box = rec, ![p].url = port[rec]]
     \/ /\ Present /\ ~(row \in {"running", "paused"} /\ rec # 0)
        /\ op' = [op EXCEPT ![p].pc = "kill", ![p].box = rec, ![p].bad = row \in {"running", "paused"}]
     \/ ~Present /\ Raise(p)
  /\ UNCHANGED <<row, rec, boxes, phase, bounds>>

\* A refused connection or an error status is suppressed, a timeout is not.
DeleteQuiet(p) ==
  /\ Deleting(p) /\ op[p].pc = "quiet"
  /\ \/ runtime' = runtime \ At(op[p].url) /\ Goto(p, "kill")
     \/ UNCHANGED runtime /\ Goto(p, "kill")
     \/ UNCHANGED runtime /\ Reachable(op[p].url) /\ op' = [op EXCEPT ![p].pc = "kill", ![p].bad = TRUE]
  /\ UNCHANGED <<row, rec, alive, stuck, remains, tracked, port, born, phase, bounds>>

\* The sandbox is the one the row names by now; any error ends the deletion,
\* with the row as it was.
DeleteKill(p) ==
  /\ Deleting(p) /\ op[p].pc = "kill"
  /\ \/ op[p].box # 0 /\ rec # 0 /\ CleanUp(rec) /\ (IF op[p].bad THEN Raise(p) ELSE Goto(p, "mark"))
     \/ op[p].box # 0 /\ rec # 0 /\ ~Stops(rec) /\ UNCHANGED boxes /\ Raise(p)
     \/ (op[p].box = 0 \/ rec = 0) /\ UNCHANGED boxes /\ (IF op[p].bad THEN Raise(p) ELSE Goto(p, "mark"))
  /\ UNCHANGED <<row, rec, phase, bounds>>

\* Two transactions: the status, and then the row.
DeleteMark(p) ==
  /\ Deleting(p) /\ op[p].pc = "mark"
  /\ \/ UpdateStatus("deleted") /\ Goto(p, "erase")
     \/ ~Present /\ UNCHANGED row /\ Raise(p)
  /\ UNCHANGED <<rec, boxes, phase, bounds>>

DeleteErase(p) ==
  /\ Deleting(p) /\ op[p].pc = "erase"
  /\ row' = "gone" /\ rec' = 0
  /\ Leave(p)
  /\ UNCHANGED <<boxes, phase, bounds>>

-----------------------------------------------------------------------------
(* _check_and_update_agent_status_if_needed.                               *)

CheckRead(p) ==
  /\ op[p].kind = "check" /\ op[p].pc = "read"
  /\ IF row = "running" /\ rec # 0 /\ rec \notin alive THEN Goto(p, "accuse") ELSE Leave(p)
  /\ UNCHANGED <<row, rec, boxes, phase, bounds>>

CheckAccuse(p) ==
  /\ op[p].kind = "check" /\ op[p].pc = "accuse"
  /\ UpdateStatus("error") \/ (~Present /\ UNCHANGED row)
  /\ Leave(p)
  /\ UNCHANGED <<rec, boxes, phase, bounds>>

-----------------------------------------------------------------------------
(* Start-up, shutdown, crash.                                              *)

Mutant_Reap ==
  /\ phase = "down"
  /\ phase' = "reaped"
  /\ UNCHANGED <<row, rec, boxes, op, bounds>>

\* reap_orphan_agent_servers: what no agent has registered is killed, even if
\* an earlier instance of the service started it.  It looks for agent servers,
\* so it does not see what remains of a tree without one.
Reap ==
  /\ phase = "down"
  /\ phase' = "reaped" /\ unheard' = FALSE
  /\ LET kept == stuck \cup (IF Present /\ row # "deleted" THEN {rec} ELSE {})
     IN  alive' = alive \cap kept /\ runtime' = runtime \cap kept
  /\ UNCHANGED <<row, rec, stuck, remains, tracked, port, born, op, faults, stops, forsaken>>

Fault == faults < MaxFaults /\ faults' = faults + 1

\* At start-up an exception of the database is logged, and the service goes on.
Unheard == Fault /\ unheard' = TRUE /\ UNCHANGED <<stops, forsaken>>

\* recover_agents: only an agent that is "running"; no agent is recovered when
\* they cannot be listed.
Recover ==
  /\ phase = "reaped"
  /\ phase' = "recovering"
  /\ \/ /\ row = "running" /\ op' = [op EXCEPT ![Boot].kind = "recover", ![Boot].pc = "read"]
        /\ UNCHANGED bounds
     \/ row # "running" /\ UNCHANGED <<op, bounds>>
     \/ Unheard /\ UNCHANGED op
  /\ UNCHANGED <<row, rec, boxes>>

Mutant_RecoverFailed ==
  /\ op[Boot].pc = "failed" /\ FALSE
  /\ UNCHANGED vars

\* A recovery that failed leaves the agent in "error", if the row can be
\* written.
RecoverFailed ==
  /\ op[Boot].pc = "failed"
  /\ \/ (UpdateStatus("error") \/ (~Present /\ UNCHANGED row)) /\ UNCHANGED bounds
     \/ Unheard /\ UNCHANGED row
  /\ Leave(Boot)
  /\ UNCHANGED <<rec, boxes, phase>>

\* Requests are accepted only when every start-up handler has returned.
Serve ==
  /\ phase = "recovering" /\ op[Boot] = Idle
  /\ phase' = "serving"
  /\ UNCHANGED <<row, rec, boxes, op, bounds>>

\* stop_all: the registry's sandboxes, once the requests are through.
Shutdown ==
  /\ phase = "serving" /\ Busy = {} /\ stops < MaxStops
  /\ phase' = "down" /\ stops' = stops + 1
  /\ alive' = alive \ (tracked \ stuck)
  /\ runtime' = runtime \cap alive'
  /\ remains' = remains \ tracked
  /\ tracked' = {}
  /\ UNCHANGED <<row, rec, stuck, port, born, op, faults, history>>

\* The process dies; its sandboxes are sessions of their own and live on.
Crash ==
  /\ phase # "down" /\ stops < MaxStops
  /\ phase' = "down" /\ stops' = stops + 1
  /\ tracked' = {} /\ forsaken' = forsaken \cup remains
  /\ op' = [p \in Procs |-> Idle]
  /\ UNCHANGED <<row, rec, alive, stuck, remains, runtime, port, born, faults, unheard>>

\* An agent server ends by itself, alone or with the processes it started.
BoxDies(b) ==
  /\ Fault /\ b \in alive
  /\ alive' = alive \ {b} /\ runtime' = runtime \ {b} /\ stuck' = stuck \ {b}
  /\ \/ UNCHANGED <<remains, forsaken>>
     \/ /\ remains' = remains \cup {b}
        /\ forsaken' = forsaken \cup ({b} \ (tracked \ stuck))
  /\ UNCHANGED <<row, rec, tracked, port, born, op, phase, stops, unheard>>

BoxSticks(b) ==
  /\ Fault /\ b \in alive
  /\ stuck' = stuck \cup {b}
  /\ UNCHANGED <<row, rec, alive, remains, tracked, runtime, port, born, op, phase, stops, history>>

-----------------------------------------------------------------------------
Init ==
  /\ row = "unborn" /\ rec = 0
  /\ alive = {} /\ stuck = {} /\ remains = {} /\ tracked = {} /\ runtime = {}
  /\ port = [b \in Boxes |-> 0] /\ born = 0
  /\ op = [p \in Procs |-> Idle]
  /\ phase = "serving" /\ faults = 0 /\ stops = 0
  /\ forsaken = {} /\ unheard = FALSE

Create(p) == CreateStart(p) \/ CreateStore(p) \/ CreateUndo(p) \/ CreateForget(p)
Pause(p) == PauseRead(p) \/ PauseQuiet(p) \/ PauseStop(p) \/ PauseStore(p) \/ SetPaused(p)
Resume(p) == ResumeRead(p) \/ ResumeProbe(p) \/ ResumeRestart(p) \/ ResumeSave(p)
Bring(p) == Health(p) \/ Launch(p) \/ SetRunning(p)
Delete(p) == DeleteRead(p) \/ DeleteQuiet(p) \/ DeleteKill(p) \/ DeleteMark(p) \/ DeleteErase(p)
Check(p) == CheckRead(p) \/ CheckAccuse(p)
Step(p) == Create(p) \/ Pause(p) \/ Resume(p) \/ Bring(p) \/ Delete(p) \/ Check(p)
StartUp == Reap \/ Recover \/ RecoverFailed \/ Serve

Next ==
  \/ \E p \in Procs : CreateInsert(p) \/ Step(p)
  \/ \E p \in Procs, k \in {"pause", "resume", "delete", "check"} : Issue(p, k)
  \/ StartUp \/ Shutdown \/ Crash
  \/ \E b \in Boxes : BoxDies(b) \/ BoxSticks(b)

Spec == Init /\ [][Next]_vars

\* What was begun is continued: threads are scheduled, awaits and polls end.
Fairness == (\A p \in Procs : WF_vars(Step(p))) /\ WF_vars(StartUp)

FairSpec == Spec /\ Fairness

-----------------------------------------------------------------------------
(* Properties.                                                             *)

TypeOK ==
  /\ row \in {"unborn", "creating", "running", "paused", "deleted", "error", "gone"}
  /\ rec \in 0..born /\ born \in 0..MaxBoxes
  /\ alive \subseteq 1..born /\ tracked \subseteq 1..born
  /\ runtime \subseteq alive /\ stuck \subseteq 1..born
  /\ remains \subseteq (1..born) \ alive /\ forsaken \subseteq 1..born /\ unheard \in BOOLEAN
  /\ port \in [Boxes -> 0..MaxBoxes]
  /\ \A p \in Procs : op[p].box \in 0..born /\ op[p].url \in 0..MaxBoxes /\ op[p].bad \in BOOLEAN
  /\ phase \in {"down", "reaped", "recovering", "serving"}

\* "Avoid leaving orphans": while the service runs, each living sandbox is the
\* one the database names, or one of the registry that the shutdown stops,
\* whichever requests overlapped and however the service ended before.  So are
\* the processes that outlived their agent server, unless it was in no registry
\* or could not be killed when it died, or the service crashed after it did.
EveryBoxIsWithinReach ==
  phase # "down" => /\ alive \subseteq tracked \cup {rec} \cup stuck
                    /\ remains \subseteq tracked \cup forsaken

\* No request in flight and only requests that the code orders: the database
\* names every sandbox that lives, in whole or in part; a create that failed
\* and a delete that succeeded leave none.
NoOrphans == Busy = {} /\ phase = "serving" => alive \cup remains \subseteq {rec} \cup stuck \cup forsaken

\* Before requests are accepted again, an agent that is still "running" has
\* its runtime in a sandbox the database names, unless that sandbox just died,
\* or the database could not say that the agent was running, or not be told
\* that its recovery had failed.
RecoveredOrError ==
  phase = "recovering" /\ op[Boot] = Idle /\ row = "running" =>
    rec \in runtime \/ rec \notin alive \/ unheard

\* "Otherwise every recovery leaves one more orphan tree": a sandbox that is
\* started leaves nothing of the one it replaces.
StartLeavesNothing == [][born' # born => rec \notin remains']_vars

\* can_transition says that nothing leads out of "deleted".
DeletedIsFinal == [][row = "deleted" => row' \in {"deleted", "gone"}]_vars

\* "Rather miss a dead sandbox than misjudge a live one": the check puts an
\* agent in error only if the sandbox of its row is dead.
LiveIsNotMisjudged ==
  [][ \A p \in Procs : op[p].pc = "accuse" /\ op'[p] = Idle /\ row' = "error" => rec \notin alive ]_vars

\* Whatever its agent's recovery runs into, a service that starts gets to
\* serve requests (if it does not crash again).
StartUpEnds == (phase = "down") ~> (phase = "serving")
=============================================================================
