------------------------ MODULE ScheduledTasksProofs ------------------------
(* Proofs about ScheduledTasks, for every set of tasks and agents, every   *)
(* bound and every number of worker threads.                               *)
EXTENDS ScheduledTasks, TLAPS

RunTable == [Runs -> [task : Tasks \cup {NoTask},
                      status : RowStatus \cup {"none", "gone"},
                      linked : BOOLEAN]]

\* Run rows are created in order; what was not created has left no trace.
RunsInOrder ==
  /\ \A r \in Runs : r <= lastRun => run[r].task \in Tasks
  /\ \A r \in Runs : r > lastRun =>
       bg[r] = "none" /\ ~HasRow(r) /\ run[r].task = NoTask
  /\ \A r \in cancelled : r <= lastRun

\* The row of a run that has not ended carries no verdict.
LiveUndecided == \A r \in Runs : bg[r] \in Live => run[r].status \in {"running", "gone"}

\* A slot is held by a run of its task, and an executing run holds its slot.
SlotOfTask == \A t \in Tasks : Holds(t) => run[active[t]].task = t
LiveHolds == \A r \in Runs : Executing(r) => active[run[r].task] = r

\* A held slot whose task row is gone: the agent is torn, or gone as well.
ErasedHeld ==
  \A t \in Tasks : Holds(t) /\ ~Stored(t) =>
    AgentOf[t] \in torn \/ agentRow[AgentOf[t]] = "absent"

\* A service that is down holds nothing.
DownIsEmpty ==
  sched = "down" =>
    (\A t \in Tasks : active[t] = NoRun) /\ (\A r \in Runs : bg[r] \notin Live)

IInv ==
  /\ TypeOK
  /\ RunsInOrder /\ LiveUndecided
  /\ SlotOfTask /\ LiveHolds /\ ErasedHeld /\ DownIsEmpty
  /\ SlotAgreement /\ NoLeakedSlot

-----------------------------------------------------------------------------
(* What the database operations do to the table of runs.                   *)

\* Pruning only deletes rows, and never changes whose run a row records.
LEMMA PruneOnlyDeletes ==
  ASSUME NEW t, NEW table \in RunTable
  PROVE  /\ Prune(table, t) \in RunTable
         /\ \A r \in Runs : /\ Prune(table, t)[r].task = table[r].task
                            /\ Prune(table, t)[r].status \in {table[r].status, "gone"}
<1>1. Prune(table, t) = [r \in Runs |-> IF r \in Surplus(table, t)
                           THEN [table[r] EXCEPT !.status = "gone"] ELSE table[r]]
  BY DEF Prune
<1> QED
  BY <1>1 DEF RunTable, RowStatus

\* So does the cascade of a deleted task.
LEMMA CascadeOnlyDeletes ==
  ASSUME NEW ts, NEW table \in RunTable
  PROVE  /\ Cascade(table, ts) \in RunTable
         /\ \A r \in Runs : /\ Cascade(table, ts)[r].task = table[r].task
                            /\ Cascade(table, ts)[r].status \in {table[r].status, "gone"}
BY DEF Cascade, RunTable, RowStatus

\* An update of a row touches that row alone, and no row that is missing.
LEMMA WriteRunTouchesOne ==
  ASSUME NEW table \in RunTable, NEW r \in Runs,
         NEW status \in RowStatus, NEW linked \in BOOLEAN
  PROVE  /\ WriteRun(table, r, status, linked) \in RunTable
         /\ \A q \in Runs : WriteRun(table, r, status, linked)[q].task = table[q].task
         /\ \A q \in Runs \ {r} : WriteRun(table, r, status, linked)[q] = table[q]
         /\ WriteRun(table, r, status, linked)[r].status \in {table[r].status, status}
         /\ table[r].status \in {"none", "gone"} =>
              WriteRun(table, r, status, linked)[r].status = table[r].status
BY DEF WriteRun, RunTable, RowStatus

\* Inserting a row numbers it after every other.
LEMMA InsertAddsOne ==
  ASSUME TypeOK, lastRun < MaxRuns,
         NEW t \in Tasks, NEW status \in RowStatus, NEW linked \in BOOLEAN
  PROVE  /\ NewRun \in Runs
         /\ Insert(t, status, linked) \in RunTable
         /\ Insert(t, status, linked)[NewRun] =
              [task |-> t, status |-> status, linked |-> linked]
         /\ \A q \in Runs \ {NewRun} : Insert(t, status, linked)[q] = run[q]
<1>1. lastRun \in Nat /\ MaxRuns \in Nat /\ lastRun < MaxRuns
  BY BoundsAssumption DEF TypeOK
<1>2. NewRun \in Runs
  BY <1>1 DEF NewRun, Runs
<1>3. run \in RunTable
  BY DEF TypeOK, RunTable
<1> QED
  BY <1>2, <1>3 DEF Insert, RunTable

\* A run with a background task has a row, of an existing task.
LEMMA LiveHasTask ==
  ASSUME IInv, NEW r \in Runs, bg[r] \in Live
  PROVE  r <= lastRun /\ run[r].task \in Tasks
<1>1. bg[r] # "none"
  BY DEF Live, Waiting
<1>2. ~(r > lastRun) => r <= lastRun
  BY DEF IInv, TypeOK, Runs
<1> QED
  BY <1>1, <1>2 DEF IInv, RunsInOrder

-----------------------------------------------------------------------------
(* Dispatch preserves the invariant.                                       *)

DispatchFrame == UNCHANGED <<taskRow, agentRow, sched, jobs, cancelled, requests,
                             bounds, torn>>

\* A run takes a free slot: the slots agree with the busy agents again.
LEMMA DispatchPreserves ==
  ASSUME IInv, NEW t \in Tasks, NEW withSession \in BOOLEAN,
         sched \in {"up", "draining"}, Stored(t), lastRun < MaxRuns, Free(t),
         Dispatch(t, withSession), DispatchFrame
  PROVE  IInv'
<1> USE AgentOfAssumption, NamesAssumption, BoundsAssumption
<1> DEFINE n == NewRun
<1>0. /\ n \in Runs /\ n = lastRun + 1 /\ lastRun' = n /\ n \in Nat /\ lastRun \in Nat
      /\ run' \in RunTable
      /\ run'[n] = [task |-> t, status |-> "running", linked |-> withSession]
      /\ \A q \in Runs \ {n} : run'[q] = run[q]
  <2>1. run' = Insert(t, "running", withSession) /\ lastRun' = NewRun
    BY DEF Dispatch
  <2>2. lastRun \in Nat /\ NewRun = lastRun + 1
    BY DEF IInv, TypeOK, NewRun
  <2> QED
    BY <2>1, <2>2, InsertAddsOne DEF IInv, RowStatus, Runs
<1>1. /\ active' = [active EXCEPT ![t] = n] /\ busy' = busy \cup {AgentOf[t]}
      /\ bg' = [bg EXCEPT ![n] = "spawned"] /\ given' \subseteq given \cup {n}
      /\ UNCHANGED <<taskRow, agentRow, sched, jobs, cancelled, call, deleting,
                     calls, deletes, boots, torn>>
  BY DEF Dispatch, DispatchFrame, requests, bounds
<1> HIDE DEF n
<1>2. TypeOK'
  <2>1. lastRun' \in 0..MaxRuns
    BY <1>0 DEF Runs
  <2> QED
    BY <1>0, <1>1, <2>1 DEF IInv, TypeOK, RunTable, Live
<1>3. n \notin cancelled /\ bg[n] = "none" /\ \A u \in Tasks : active[u] # n
  <2>1. n \notin cancelled /\ bg[n] = "none" /\ run[n].task = NoTask
    BY <1>0 DEF IInv, TypeOK, RunsInOrder, Runs
  <2>2. \A u \in Tasks : active[u] # n
    <3> SUFFICES ASSUME NEW u \in Tasks, active[u] = n PROVE FALSE
      OBVIOUS
    <3>1. Holds(u)
      BY <1>0 DEF Holds
    <3> QED
      BY <3>1, <2>1 DEF IInv, SlotOfTask
  <2> QED
    BY <2>1, <2>2
<1>4. RunsInOrder' /\ LiveUndecided'
  <2>1. RunsInOrder'
    <3>1. \A r \in Runs : r <= n <=> r <= lastRun \/ r = n
      BY <1>0 DEF Runs
    <3>2. \A r \in Runs \ {n} : bg'[r] = bg[r] /\ run'[r] = run[r]
      BY <1>0, <1>1 DEF IInv, TypeOK
    <3>3. cancelled \subseteq Runs
      BY DEF IInv, TypeOK
    <3> QED
      BY <3>1, <3>2, <3>3, <1>0, <1>1 DEF IInv, RunsInOrder, Runs, HasRow
  <2>2. LiveUndecided'
    BY <1>0, <1>1 DEF IInv, TypeOK, LiveUndecided
  <2> QED
    BY <2>1, <2>2
<1>5. SlotOfTask' /\ LiveHolds'
  <2>1. SlotOfTask'
    <3> SUFFICES ASSUME NEW u \in Tasks, Holds(u)'
                 PROVE  run'[active'[u]].task = u
      BY DEF SlotOfTask
    <3>1. CASE u = t
      BY <3>1, <1>0, <1>1 DEF IInv, TypeOK
    <3>2. CASE u # t
      <4>1. active'[u] = active[u] /\ Holds(u) /\ active[u] \in Runs \ {n}
        BY <3>2, <1>1, <1>3 DEF IInv, TypeOK, Holds
      <4> QED
        BY <4>1, <1>0 DEF IInv, SlotOfTask
    <3> QED
      BY <3>1, <3>2
  <2>2. LiveHolds'
    <3> SUFFICES ASSUME NEW r \in Runs, Executing(r)'
                 PROVE  active'[run'[r].task] = r
      BY DEF LiveHolds
    <3>1. CASE r = n
      BY <3>1, <1>0, <1>1 DEF IInv, TypeOK
    <3>2. CASE r # n
      <4>1. Executing(r) /\ run'[r] = run[r]
        BY <3>2, <1>0, <1>1 DEF Executing, IInv, TypeOK
      <4>2. active[run[r].task] = r /\ run[r].task \in Tasks
        <5>1. active[run[r].task] = r
          BY <4>1 DEF IInv, LiveHolds
        <5>2. run[r].task \in Tasks
          BY <4>1, LiveHasTask DEF Executing
        <5> QED
          BY <5>1, <5>2
      <4>3. run[r].task # t
        BY <4>2 DEF Free
      <4> QED
        BY <4>1, <4>2, <4>3, <1>1 DEF IInv, TypeOK
    <3> QED
      BY <3>1, <3>2
  <2> QED
    BY <2>1, <2>2
<1>6. ErasedHeld' /\ DownIsEmpty'
  BY <1>1 DEF IInv, TypeOK, ErasedHeld, DownIsEmpty, Holds, Stored
<1>7. SlotAgreement'
  BY <1>0, <1>1 DEF IInv, TypeOK, SlotAgreement, Holds, Free
<1>8. NoLeakedSlot'
  <2> SUFFICES ASSUME sched' = "up", NEW u \in Tasks, Holds(u)'
               PROVE  Executing(active[u])' /\ run'[active'[u]].task = u
    BY DEF NoLeakedSlot
  <2>1. CASE u = t
    BY <2>1, <1>0, <1>1, <1>3 DEF IInv, TypeOK, Executing, Live
  <2>2. CASE u # t
    <3>1. active'[u] = active[u] /\ Holds(u) /\ active[u] \in Runs \ {n} /\ sched = "up"
      BY <2>2, <1>1, <1>3 DEF IInv, TypeOK, Holds
    <3>2. Executing(active[u])
      BY <3>1 DEF IInv, NoLeakedSlot
    <3>3. bg'[active[u]] = bg[active[u]] /\ run'[active[u]] = run[active[u]]
      BY <3>1, <1>0, <1>1 DEF IInv, TypeOK
    <3> QED
      BY <3>1, <3>2, <3>3, <1>1 DEF IInv, NoLeakedSlot, Executing
  <2> QED
    BY <2>1, <2>2
<1> QED
  BY <1>2, <1>4, <1>5, <1>6, <1>7, <1>8 DEF IInv

\* A record is inserted and no slot changes hands: a skipped run, a refused one.
LEMMA RecordPreserves ==
  ASSUME IInv, NEW t \in Tasks, lastRun < MaxRuns, lastRun' = NewRun,
         run' \in RunTable, run'[NewRun].task = t,
         \A q \in Runs \ {NewRun} : /\ run'[q].task = run[q].task
                                    /\ run'[q].status \in {run[q].status, "gone"},
         UNCHANGED <<active, busy, bg, given>>, DispatchFrame
  PROVE  IInv'
<1> USE AgentOfAssumption, NamesAssumption, BoundsAssumption
<1> DEFINE n == NewRun
<1>0. n \in Runs /\ n = lastRun + 1 /\ n \in Nat /\ lastRun \in Nat
  BY DEF IInv, TypeOK, NewRun, Runs
<1>1. UNCHANGED <<taskRow, agentRow, sched, jobs, cancelled, call, deleting,
                  calls, deletes, boots, torn, active, busy, bg, given>>
  BY DEF DispatchFrame, requests, bounds
<1>2. bg[n] = "none" /\ \A u \in Tasks : active[u] # n
  <2>1. bg[n] = "none" /\ run[n].task = NoTask
    BY <1>0 DEF IInv, RunsInOrder, Runs
  <2>2. ASSUME NEW u \in Tasks, active[u] = n PROVE FALSE
    BY <2>1, <2>2, <1>0 DEF IInv, SlotOfTask, Holds
  <2> QED
    BY <2>1, <2>2
<1> HIDE DEF n
<1>n. n = NewRun
  BY DEF n
<1>3. TypeOK'
  BY SMTT(40), <1>0, <1>1, <1>n DEF IInv, TypeOK, RunTable, Runs
<1>4. RunsInOrder'
  <2>1. \A r \in Runs : r <= n <=> r <= lastRun \/ r = n
    BY <1>0 DEF Runs
  <2>2. \A r \in Runs \ {n} : HasRow(r)' => HasRow(r)
    BY <1>n DEF HasRow, RowStatus
  <2>3. cancelled \subseteq Runs
    BY DEF IInv, TypeOK
  <2> QED
    BY <2>1, <2>2, <2>3, <1>0, <1>1, <1>n DEF IInv, RunsInOrder, Runs
<1>5. LiveUndecided'
  BY <1>1, <1>2, <1>n DEF IInv, LiveUndecided, Live, Waiting
<1>6. SlotOfTask' /\ NoLeakedSlot'
  <2>1. \A u \in Tasks : Holds(u) => active[u] \in Runs \ {n}
    BY <1>2 DEF IInv, TypeOK, Holds
  <2> QED
    BY <2>1, <1>1, <1>n DEF IInv, SlotOfTask, NoLeakedSlot, Holds, Executing
<1>7. LiveHolds'
  <2>1. \A r \in Runs : Executing(r)' => Executing(r) /\ r # n
    BY <1>1, <1>2 DEF Executing, Live, Waiting
  <2> QED
    BY <2>1, <1>1, <1>n DEF IInv, LiveHolds
<1>8. ErasedHeld' /\ DownIsEmpty' /\ SlotAgreement'
  BY <1>1 DEF IInv, ErasedHeld, DownIsEmpty, SlotAgreement, Holds, Stored
<1> QED
  BY <1>3, <1>4, <1>5, <1>6, <1>7, <1>8 DEF IInv

LEMMA SkipPreserves ==
  ASSUME IInv, NEW t \in Tasks, lastRun < MaxRuns, Skip(t), DispatchFrame
  PROVE  IInv'
<1> DEFINE table == Insert(t, "skipped", FALSE)
<1>2. /\ NewRun \in Runs /\ table \in RunTable /\ table[NewRun].task = t
      /\ \A q \in Runs \ {NewRun} : table[q] = run[q]
  <2>1. TypeOK /\ "skipped" \in RowStatus
    BY DEF IInv, RowStatus
  <2>2. table[NewRun] = [task |-> t, status |-> "skipped", linked |-> FALSE]
    BY <2>1, InsertAddsOne
  <2>3. /\ NewRun \in Runs /\ table \in RunTable
        /\ \A q \in Runs \ {NewRun} : table[q] = run[q]
    BY <2>1, InsertAddsOne
  <2> HIDE DEF table
  <2> QED
    BY <2>2, <2>3
<1>3. run' = Prune(table, t) /\ lastRun' = NewRun /\ UNCHANGED <<active, busy, bg, given>>
  BY DEF Skip
<1> HIDE DEF table
<1> QED
  BY <1>2, <1>3, PruneOnlyDeletes, RecordPreserves

LEMMA RefusePreserves ==
  ASSUME IInv, NEW t \in Tasks, NEW exists \in BOOLEAN, lastRun < MaxRuns,
         RefuseSession(t, exists), DispatchFrame
  PROVE  IInv'
<1>1. PICK status \in RowStatus, linked \in BOOLEAN : run' = Insert(t, status, linked)
  BY DEF RefuseSession, RowStatus
<1>2. lastRun' = NewRun /\ UNCHANGED <<active, busy, bg, given>>
  BY DEF RefuseSession
<1>3. /\ NewRun \in Runs /\ run' \in RunTable /\ run'[NewRun].task = t
      /\ \A q \in Runs \ {NewRun} : run'[q] = run[q]
  <2>1. TypeOK
    BY DEF IInv
  <2>2. run'[NewRun] = [task |-> t, status |-> status, linked |-> linked]
    BY <1>1, <2>1, InsertAddsOne
  <2> QED
    BY <1>1, <2>1, <2>2, InsertAddsOne
<1> QED
  BY <1>2, <1>3, RecordPreserves

-----------------------------------------------------------------------------
(* The other steps.                                                        *)

\* No slot changes hands, no run starts or ends; rows may be deleted.
LEMMA UntouchedPreserves ==
  ASSUME IInv, TypeOK', ErasedHeld',
         \A q \in Runs : /\ run'[q].task = run[q].task
                         /\ run'[q].status \in {run[q].status, "gone"}
                         /\ bg'[q] \in Live <=> bg[q] \in Live
                         /\ bg[q] = "none" => bg'[q] = "none",
         UNCHANGED <<lastRun, sched, active, busy, cancelled>>,
         torn \subseteq torn'
  PROVE  IInv'
<1>1. RunsInOrder'
  <2>1. \A q \in Runs : HasRow(q)' => HasRow(q)
    BY DEF HasRow, RowStatus
  <2>2. cancelled \subseteq Runs
    BY DEF IInv, TypeOK
  <2> QED
    BY <2>1, <2>2 DEF IInv, RunsInOrder
<1>2. LiveUndecided'
  BY DEF IInv, LiveUndecided
<1>3. SlotOfTask'
  BY NamesAssumption DEF IInv, TypeOK, SlotOfTask, Holds
<1>4. LiveHolds' /\ DownIsEmpty'
  BY DEF IInv, LiveHolds, DownIsEmpty, Executing
<1>5. SlotAgreement'
  BY DEF IInv, SlotAgreement, Holds
<1>6. NoLeakedSlot'
  <2>1. \A u \in Tasks : Holds(u) => active[u] \in Runs
    BY DEF IInv, TypeOK, Holds
  <2> QED
    BY <2>1 DEF IInv, NoLeakedSlot, Holds, Executing
<1> QED
  BY <1>1, <1>2, <1>3, <1>4, <1>5, <1>6 DEF IInv

\* A run ends: it gives back the slot it holds, and only that.
LEMMA FinishPreserves ==
  ASSUME IInv, NEW r \in Runs, NEW verdict \in Verdicts, NEW linked \in BOOLEAN,
         bg[r] \in Live, Finish(r, verdict, linked),
         agentRow' \in [Agents -> {"running", "paused", "error", "absent"}],
         \A a \in Agents : agentRow[a] = "absent" => agentRow'[a] = "absent",
         OfRuns' = OfRuns
  PROVE  IInv'
<1> USE AgentOfAssumption, NamesAssumption
<1> DEFINE t == run[r].task
<1>1. /\ bg' = [bg EXCEPT ![r] = "done"]
      /\ UNCHANGED <<taskRow, lastRun, sched, jobs, cancelled, given, call, deleting,
                     calls, deletes, boots, torn>>
  BY DEF Finish, OfRuns, requests, bounds
<1>2. t \in Tasks /\ r <= lastRun /\ run[r].status \in {"running", "gone"}
  BY LiveHasTask DEF IInv, LiveUndecided
<1>3. /\ run' \in RunTable
      /\ \A q \in Runs : run'[q].task = run[q].task
      /\ \A q \in Runs \ {r} : run'[q].status \in {run[q].status, "gone"}
  <2> DEFINE written == WriteRun(run, r, verdict, linked)
  <2>1. run \in RunTable /\ verdict \in RowStatus
    BY DEF IInv, TypeOK, RunTable, Verdicts, RowStatus
  <2>2. /\ written \in RunTable /\ \A q \in Runs : written[q].task = run[q].task
        /\ \A q \in Runs \ {r} : written[q] = run[q]
    BY <2>1, WriteRunTouchesOne
  <2>3. run' = Prune(written, t)
    BY DEF Finish
  <2> HIDE DEF written
  <2> QED
    BY <2>2, <2>3, PruneOnlyDeletes
<1>4. /\ active' \in [Tasks -> Runs \cup {NoRun}] /\ busy' \subseteq busy
      /\ \A u \in Tasks : active'[u] = IF u = t /\ active[t] = r THEN NoRun ELSE active[u]
      /\ busy' = IF active[t] = r THEN busy \ {AgentOf[t]} ELSE busy
  BY <1>2 DEF Finish, ReleaseSlot, IInv, TypeOK
<1> HIDE DEF t
<1>t. t = run[r].task
  BY DEF t
<1>5. TypeOK'
  BY <1>1, <1>3, <1>4 DEF IInv, TypeOK, RunTable
<1>6. RunsInOrder' /\ LiveUndecided'
  <2>1. bg'[r] = "done" /\ \A q \in Runs \ {r} : bg'[q] = bg[q]
    BY <1>1 DEF IInv, TypeOK
  <2>2. \A q \in Runs \ {r} : HasRow(q)' => HasRow(q)
    BY <1>3 DEF HasRow, RowStatus
  <2>3. ~(r > lastRun) /\ cancelled \subseteq Runs
    BY <1>2 DEF IInv, TypeOK, Runs
  <2>4. RunsInOrder'
    BY <2>1, <2>2, <2>3, <1>1, <1>2, <1>3 DEF IInv, RunsInOrder
  <2>5. LiveUndecided'
    BY <2>1, <1>3 DEF IInv, LiveUndecided, Live, Waiting
  <2> QED
    BY <2>4, <2>5
<1>7. \A u \in Tasks : Holds(u)' => Holds(u) /\ active'[u] = active[u] /\ active[u] \in Runs \ {r}
  BY <1>2, <1>4, <1>t DEF IInv, TypeOK, Holds, SlotOfTask
<1>8. SlotOfTask'
  BY <1>3, <1>7 DEF IInv, SlotOfTask
<1>9. LiveHolds'
  <2>1. \A q \in Runs : Executing(q)' => Executing(q) /\ q # r
    BY <1>1 DEF Executing, Live, Waiting, IInv, TypeOK
  <2>2. \A q \in Runs : Executing(q) => run[q].task \in Tasks
    BY LiveHasTask DEF Executing
  <2> QED
    BY <2>1, <2>2, <1>3, <1>4 DEF IInv, LiveHolds
<1>10. ErasedHeld' /\ DownIsEmpty'
  BY <1>1, <1>4, <1>7 DEF IInv, TypeOK, ErasedHeld, DownIsEmpty, Holds, Stored
<1>11. SlotAgreement'
  BY <1>1, <1>2, <1>4 DEF IInv, TypeOK, SlotAgreement, Holds
<1>12. NoLeakedSlot'
  BY <1>1, <1>3, <1>7 DEF IInv, TypeOK, NoLeakedSlot, Executing
<1> QED
  BY <1>5, <1>6, <1>8, <1>9, <1>10, <1>11, <1>12 DEF IInv

\* A run goes on to its next await.
LEMMA MovePreserves ==
  ASSUME IInv, NEW r \in Runs, bg[r] \in Live, NEW pc \in Live,
         bg' = [bg EXCEPT ![r] = pc], run' \in RunTable,
         \A q \in Runs : /\ run'[q].task = run[q].task
                         /\ run'[q].status \in {run[q].status, "gone"},
         agentRow' \in [Agents -> {"running", "paused", "error", "absent"}],
         \A a \in Agents : agentRow[a] = "absent" => agentRow'[a] = "absent",
         UNCHANGED <<active, busy>>, OfRuns' = OfRuns
  PROVE  IInv'
<1>1. UNCHANGED <<taskRow, lastRun, sched, jobs, cancelled, given, call, deleting,
                  calls, deletes, boots, torn>>
  BY DEF OfRuns, requests, bounds
<1>2. \A q \in Runs : (bg'[q] \in Live <=> bg[q] \in Live) /\ (bg[q] = "none" => bg'[q] = "none")
  BY DEF IInv, TypeOK, Live, Waiting
<1>3. TypeOK'
  BY <1>1 DEF IInv, TypeOK, RunTable
<1>4. ErasedHeld'
  BY <1>1, AgentOfAssumption DEF IInv, TypeOK, ErasedHeld, Holds, Stored
<1> QED
  BY <1>1, <1>2, <1>3, <1>4, UntouchedPreserves

LEMMA EnterPreserves ==
  ASSUME IInv, NEW r \in Runs, bg[r] \in Live, Enter(r),
         agentRow' \in [Agents -> {"running", "paused", "error", "absent"}],
         \A a \in Agents : agentRow[a] = "absent" => agentRow'[a] = "absent",
         OfRuns' = OfRuns
  PROVE  IInv'
<1>1. CASE FinishFailed(r)
  BY <1>1, FinishPreserves DEF FinishFailed, Verdicts, IInv, TypeOK
<1>2. ASSUME NEW pc \in {"creating", "streaming"}, bg' = [bg EXCEPT ![r] = pc],
             UNCHANGED <<run, active, busy>>
      PROVE  IInv'
  <2>1. pc \in Live /\ run' \in RunTable
    BY <1>2 DEF Live, Waiting, IInv, TypeOK, RunTable
  <2> QED
    BY <1>2, <2>1, MovePreserves
<1> QED
  BY <1>1, <1>2 DEF Enter

LEMMA RunStepPreserves ==
  ASSUME IInv, NEW r \in Runs, RunStep(r)
  PROVE  IInv'
<1> DEFINE agentsOk == /\ agentRow' \in [Agents -> {"running", "paused", "error", "absent"}]
                       /\ \A a \in Agents : agentRow[a] = "absent" => agentRow'[a] = "absent"
<1>1. ASSUME bg[r] \in Live, FinishFailed(r), agentsOk, OfRuns' = OfRuns
      PROVE  IInv'
  BY <1>1, FinishPreserves DEF FinishFailed, Verdicts, IInv, TypeOK
<1>2. UNCHANGED agentRow => agentsOk
  BY DEF IInv, TypeOK
<1>3. run \in RunTable
  BY DEF IInv, TypeOK, RunTable
<1>4. CASE BeginTurn(r)
  <2>1. bg[r] \in Live /\ agentsOk /\ OfRuns' = OfRuns
    BY <1>2, <1>4 DEF BeginTurn, Resumes, Live
  <2>2. CASE FinishFailed(r)
    BY <2>1, <2>2, <1>1
  <2>3. CASE Enter(r)
    BY <2>1, <2>3, EnterPreserves
  <2>4. CASE bg' = [bg EXCEPT ![r] = "resuming"] /\ UNCHANGED <<run, active, busy>>
    BY <2>1, <2>4, <1>3, MovePreserves DEF Live, Waiting
  <2> QED
    BY <2>2, <2>3, <2>4, <1>4 DEF BeginTurn
<1>5. CASE AgentResumed(r)
  <2>1. bg[r] \in Live /\ OfRuns' = OfRuns
    BY <1>5 DEF AgentResumed, Resumes, Live, Waiting
  <2>2. CASE FinishFailed(r) /\ UNCHANGED agentRow
    BY <2>1, <2>2, <1>1, <1>2
  <2>3. CASE /\ agentRow[Agent(r)] # "absent" /\ Enter(r)
             /\ agentRow' = [agentRow EXCEPT ![Agent(r)] = "running"]
    <3>1. agentsOk
      BY <2>3 DEF IInv, TypeOK
    <3> QED
      BY <2>1, <2>3, <3>1, EnterPreserves
  <2> QED
    BY <2>2, <2>3, <1>5 DEF AgentResumed
<1>6. CASE SessionCreated(r)
  <2>1. bg[r] \in Live /\ agentsOk /\ OfRuns' = OfRuns
    BY <1>2, <1>6 DEF SessionCreated, Resumes, Live, Waiting
  <2>2. CASE FinishFailed(r)
    BY <2>1, <2>2, <1>1
  <2>3. CASE /\ run' = WriteRun(run, r, "running", TRUE)
             /\ bg' = [bg EXCEPT ![r] = "streaming"] /\ UNCHANGED <<active, busy>>
    <3>1. run[r].status \in {"running", "gone"}
      BY <2>1 DEF IInv, LiveUndecided
    <3>2. /\ run' \in RunTable
          /\ \A q \in Runs : run'[q].task = run[q].task
          /\ \A q \in Runs \ {r} : run'[q] = run[q]
          /\ run'[r].status \in {run[r].status, "running"}
          /\ run[r].status = "gone" => run'[r].status = "gone"
      <4> DEFINE written == WriteRun(run, r, "running", TRUE)
      <4>1. /\ written \in RunTable
            /\ \A q \in Runs : written[q].task = run[q].task
            /\ \A q \in Runs \ {r} : written[q] = run[q]
            /\ written[r].status \in {run[r].status, "running"}
            /\ run[r].status \in {"none", "gone"} => written[r].status = run[r].status
        BY <1>3, WriteRunTouchesOne, "running" \in RowStatus DEF RowStatus
      <4> HIDE DEF written
      <4> QED
        BY <2>3, <4>1 DEF written
    <3>3. \A q \in Runs : run'[q].status \in {run[q].status, "gone"}
      BY <3>1, <3>2
    <3> QED
      BY <2>1, <2>3, <3>2, <3>3, MovePreserves DEF Live, Waiting
  <2> QED
    BY <2>2, <2>3, <1>6 DEF SessionCreated
<1>7. CASE StreamEnded(r)
  <2>1. bg[r] \in Live /\ agentsOk /\ OfRuns' = OfRuns
    BY <1>2, <1>7 DEF StreamEnded, Resumes, Live, Waiting
  <2>2. CASE FinishFailed(r)
    BY <2>1, <2>2, <1>1
  <2>3. CASE Finish(r, "succeeded", TRUE)
    BY <2>1, <2>3, FinishPreserves DEF Verdicts
  <2> QED
    BY <2>2, <2>3, <1>7 DEF StreamEnded
<1>8. CASE CancelDelivered(r)
  <2>1. r \in cancelled /\ agentsOk /\ OfRuns' = OfRuns
    BY <1>2, <1>8 DEF CancelDelivered
  <2>2. CASE bg[r] \in Waiting /\ Finish(r, "failed", FALSE)
    BY <2>1, <2>2, FinishPreserves DEF Verdicts, Live
  <2>3. CASE bg[r] = "spawned" /\ bg' = [bg EXCEPT ![r] = "done"]
             /\ UNCHANGED <<run, active, busy>>
    <3>1. UNCHANGED <<taskRow, agentRow, lastRun, sched, jobs, cancelled, given, call,
                      deleting, calls, deletes, boots, torn, run, active, busy>>
      BY <2>3, <1>8 DEF CancelDelivered, OfRuns, requests, bounds
    <3>2. /\ \A q \in Runs \ {r} : bg'[q] = bg[q]
          /\ bg'[r] = "done" /\ bg[r] # "none" /\ "done" \notin Live
      BY <2>3 DEF IInv, TypeOK, Live, Waiting
    <3>3. TypeOK'
      BY <2>3, <3>1 DEF IInv, TypeOK
    <3>4. \A q \in Runs : Executing(q)' <=> Executing(q)
      BY <2>1, <3>1, <3>2 DEF Executing
    <3>5. RunsInOrder' /\ LiveUndecided' /\ DownIsEmpty'
      BY <3>1, <3>2 DEF IInv, RunsInOrder, LiveUndecided, DownIsEmpty, HasRow
    <3>6. SlotOfTask' /\ LiveHolds' /\ ErasedHeld' /\ SlotAgreement'
      BY <3>1, <3>4 DEF IInv, SlotOfTask, LiveHolds, ErasedHeld, SlotAgreement,
                        Holds, Stored
    <3>7. NoLeakedSlot'
      <4>1. \A u \in Tasks : Holds(u) => active[u] \in Runs
        BY DEF IInv, TypeOK, Holds
      <4> QED
        BY <3>1, <3>4, <4>1 DEF IInv, NoLeakedSlot, Holds
    <3> QED
      BY <3>3, <3>5, <3>6, <3>7 DEF IInv
  <2> QED
    BY <2>2, <2>3, <1>8 DEF CancelDelivered
<1> QED
  BY <1>4, <1>5, <1>6, <1>7, <1>8 DEF RunStep

LEMMA FirePreserves ==
  ASSUME IInv, NEW t \in Tasks, Fire(t) \/ RunTaskNow(t)
  PROVE  IInv'
<1>1. sched \in {"up", "draining"} /\ lastRun < MaxRuns /\ Stored(t) /\ DispatchFrame
  BY DEF Fire, RunTaskNow, Stored, DispatchFrame
<1>2. \/ Skip(t)
      \/ \E exists \in BOOLEAN : RefuseSession(t, exists)
      \/ Free(t) /\ \E withSession \in BOOLEAN : Dispatch(t, withSession)
  BY DEF Fire, RunTaskNow
<1> QED
  BY <1>1, <1>2, SkipPreserves, RefusePreserves, DispatchPreserves

\* The synchronous routes change rows and jobs; only the erasure of a task
\* under a held slot is remembered, in torn.
LEMMA RoutePreserves ==
  ASSUME IInv, NEW w \in Workers, Route(w)
  PROVE  IInv'
<1> USE AgentOfAssumption
<1> DEFINE Statement == /\ UNCHANGED <<agentRow, lastRun, sched, active, busy, bg,
                                       cancelled, given, deleting, deletes, boots>>
                        /\ calls' \in 0..MaxCalls
                        /\ jobs' \in SUBSET Tasks
                        /\ call' \in [Workers -> Calls]
<1>1. \A pc \in {"schedule", "unschedule", "write", "drop", "erase"}, t \in Tasks,
         enabled \in BOOLEAN : Later(w, pc, t, enabled) => call' \in [Workers -> Calls]
  BY DEF IInv, TypeOK, Later, Calls
<1>2. Return(w) => call' \in [Workers -> Calls]
  BY DEF IInv, TypeOK, Return, Calls
<1>3. NewCall(w) => /\ UNCHANGED <<agentRow, lastRun, sched, active, busy, bg, jobs,
                                   cancelled, given, deleting, deletes, boots, torn>>
                    /\ calls' \in 0..MaxCalls /\ jobs' \in SUBSET Tasks
  BY BoundsAssumption DEF IInv, TypeOK, NewCall
<1>4. run \in RunTable
  BY DEF IInv, TypeOK, RunTable
<1>5. ASSUME Statement, UNCHANGED run, UNCHANGED torn,
             taskRow' \in [Tasks -> {"absent", "enabled", "disabled", "deleted"}],
             \A t \in Tasks : Stored(t) => Stored(t)'
      PROVE  IInv'
  <2>1. TypeOK'
    BY <1>5 DEF IInv, TypeOK
  <2>2. ErasedHeld'
    BY <1>5 DEF IInv, ErasedHeld, Holds
  <2> QED
    BY <1>5, <2>1, <2>2, UntouchedPreserves
<1>6. ASSUME NEW t \in Tasks, NEW enabled \in BOOLEAN, CreateTask(w, t, enabled)
      PROVE  IInv'
  <2>1. Statement /\ UNCHANGED run /\ UNCHANGED torn
    BY <1>1, <1>2, <1>3, <1>6 DEF CreateTask
  <2> QED
    BY <2>1, <1>5, <1>6 DEF CreateTask, IInv, TypeOK, Stored
<1>7. ASSUME NEW t \in Tasks, NEW enabled \in BOOLEAN, SetEnabled(w, t, enabled)
      PROVE  IInv'
  <2>1. Statement /\ UNCHANGED run /\ UNCHANGED torn
    BY <1>1, <1>3, <1>7 DEF SetEnabled
  <2> QED
    BY <2>1, <1>5, <1>7 DEF SetEnabled, IInv, TypeOK, Stored
<1>8. ASSUME NEW t \in Tasks, UpdateTask(w, t) \/ DeleteTask(w, t)
      PROVE  IInv'
  <2>1. Statement /\ UNCHANGED run /\ UNCHANGED torn /\ UNCHANGED taskRow
    BY <1>1, <1>3, <1>8 DEF UpdateTask, DeleteTask
  <2> QED
    BY <2>1, <1>5 DEF IInv, TypeOK, Stored
<1>9. CASE CallStep(w)
  <2> DEFINE t == call[w].task
             c == call[w]
  <2>1. c \in Calls /\ (c.pc # "idle" => t \in Tasks /\ c.enabled \in BOOLEAN)
    BY DEF IInv, TypeOK, Calls, Idle
  <2>2. /\ UNCHANGED <<agentRow, lastRun, sched, active, busy, bg, cancelled, given,
                       deleting, deletes, boots>>
        /\ calls' \in 0..MaxCalls
    BY <1>9 DEF CallStep, bounds, IInv, TypeOK
  <2>3. CASE c.pc = "write" /\ UNCHANGED <<jobs, run, torn>>
    <3>1. /\ call' \in [Workers -> Calls]
          /\ taskRow' \in [Tasks -> {"absent", "enabled", "disabled", "deleted"}]
          /\ \A u \in Tasks : Stored(u) => Stored(u)'
      BY <1>1, <1>2, <1>9, <2>1, <2>3 DEF CallStep, IInv, TypeOK, Stored
    <3> QED
      BY <3>1, <2>2, <2>3, <1>5 DEF IInv, TypeOK
  <2>4. CASE c.pc \in {"schedule", "unschedule", "drop"}
    <3>1. call' \in [Workers -> Calls] /\ jobs' \in SUBSET Tasks /\ UNCHANGED <<taskRow, run, torn>>
      BY <1>1, <1>2, <1>9, <2>1, <2>4 DEF CallStep, IInv, TypeOK
    <3> QED
      BY <3>1, <2>2, <1>5 DEF IInv, TypeOK, Stored
  <2>5. CASE c.pc = "erase"
    <3>1. /\ taskRow' = [taskRow EXCEPT ![t] = "deleted"] /\ run' = Cascade(run, {t})
          /\ torn' = IF active[t] = NoRun THEN torn ELSE torn \cup {AgentOf[t]}
          /\ call' \in [Workers -> Calls] /\ UNCHANGED jobs /\ t \in Tasks
      BY <1>2, <1>9, <2>1, <2>5 DEF CallStep
    <3>2. run' \in RunTable /\ \A q \in Runs : /\ run'[q].task = run[q].task
                                               /\ run'[q].status \in {run[q].status, "gone"}
      BY <3>1, <1>4, CascadeOnlyDeletes
    <3> HIDE DEF t
    <3>3. TypeOK'
      BY <2>2, <3>1, <3>2 DEF IInv, TypeOK, RunTable
    <3>4. ErasedHeld'
      BY <2>2, <3>1 DEF IInv, TypeOK, ErasedHeld, Holds, Stored
    <3> QED
      BY <2>2, <3>1, <3>2, <3>3, <3>4, UntouchedPreserves
  <2> QED
    BY <1>9, <2>3, <2>4, <2>5 DEF CallStep
<1> QED
  BY <1>6, <1>7, <1>8, <1>9 DEF Route

\* Rows go with their agent; a slot that is still held has lost its agent too.
LEMMA ErasePreserves ==
  ASSUME IInv, NEW a \in Agents, EraseAgent(a) \/ UNCHANGED <<agentRow, taskRow, run>>,
         UNCHANGED <<lastRun, sched, active, busy, bg, cancelled, given, call, torn>>,
         jobs' \in SUBSET Tasks, deleting' \in SUBSET Agents,
         calls' \in 0..MaxCalls, deletes' \in 0..MaxDeletes, boots' \in 0..MaxBoots
  PROVE  IInv'
<1> USE AgentOfAssumption
<1>1. run \in RunTable
  BY DEF IInv, TypeOK, RunTable
<1>2. run' \in RunTable /\ \A q \in Runs : /\ run'[q].task = run[q].task
                                           /\ run'[q].status \in {run[q].status, "gone"}
  <2>1. CASE EraseAgent(a)
    BY <1>1, <2>1, CascadeOnlyDeletes DEF EraseAgent
  <2>2. CASE UNCHANGED run
    BY <1>1, <2>2
  <2> QED
    BY <2>1, <2>2
<1>3. /\ agentRow' \in [Agents -> {"running", "paused", "error", "absent"}]
      /\ taskRow' \in [Tasks -> {"absent", "enabled", "disabled", "deleted"}]
      /\ \A b \in Agents : agentRow[b] = "absent" => agentRow'[b] = "absent"
      /\ \A t \in Tasks : taskRow'[t] = taskRow[t] \/ agentRow'[AgentOf[t]] = "absent"
  BY DEF EraseAgent, TasksOf, IInv, TypeOK
<1>4. TypeOK'
  BY <1>2, <1>3 DEF IInv, TypeOK, RunTable
<1>5. ErasedHeld'
  BY <1>3 DEF IInv, ErasedHeld, Holds, Stored
<1> QED
  BY <1>2, <1>4, <1>5, UntouchedPreserves

\* The purge of an agent cancels the runs whose slots it takes away.  Every
\* slot of an agent that is not torn belongs to a stored task, so none stays.
LEMMA DeleteStartsPreserves ==
  ASSUME IInv, NEW a \in Agents, DeleteAgentStarts(a)
  PROVE  IInv'
<1> USE AgentOfAssumption, NamesAssumption
<1>1. run \in RunTable
  BY DEF IInv, TypeOK, RunTable
<1>2. /\ sched = "up" /\ agentRow[a] # "absent"
      /\ UNCHANGED <<lastRun, sched, bg, given, call, calls, boots, torn>>
      /\ jobs' \in SUBSET Tasks /\ deleting' \in SUBSET Agents
      /\ deletes' \in 0..MaxDeletes
  BY BoundsAssumption DEF DeleteAgentStarts, Purge, IInv, TypeOK
<1>3. /\ active' = [t \in Tasks |-> IF t \in TasksOf(a) THEN NoRun ELSE active[t]]
      /\ cancelled' = cancelled \cup
           {r \in Runs : bg[r] \in Live /\ run[r].task \in TasksOf(a)}
      /\ busy' = busy \ {a}
  BY DEF DeleteAgentStarts, Purge
<1>4. /\ run' \in RunTable
      /\ \A q \in Runs : /\ run'[q].task = run[q].task
                         /\ run'[q].status \in {run[q].status, "gone"}
  <2>1. CASE EraseAgent(a)
    BY <1>1, <2>1, CascadeOnlyDeletes DEF EraseAgent
  <2>2. CASE UNCHANGED run
    BY <1>1, <2>2
  <2> QED
    BY <2>1, <2>2 DEF DeleteAgentStarts
<1>5. /\ agentRow' \in [Agents -> {"running", "paused", "error", "absent"}]
      /\ taskRow' \in [Tasks -> {"absent", "enabled", "disabled", "deleted"}]
      /\ \A b \in Agents : agentRow[b] = "absent" => agentRow'[b] = "absent"
      /\ \A t \in Tasks : taskRow'[t] = taskRow[t] \/ agentRow'[AgentOf[t]] = "absent"
  BY DEF DeleteAgentStarts, EraseAgent, TasksOf, IInv, TypeOK
<1>6. TypeOK'
  BY <1>2, <1>3, <1>4, <1>5 DEF IInv, TypeOK, RunTable
<1>7. \A t \in Tasks : Holds(t)' => Holds(t) /\ active'[t] = active[t] /\ t \notin TasksOf(a)
  BY <1>3 DEF Holds
<1>8. RunsInOrder' /\ LiveUndecided'
  <2>1. \A q \in Runs : HasRow(q)' => HasRow(q)
    BY <1>4 DEF HasRow, RowStatus
  <2>2. \A r \in cancelled' : r <= lastRun
    BY <1>3, LiveHasTask DEF IInv, RunsInOrder
  <2> QED
    BY <2>1, <2>2, <1>2, <1>4 DEF IInv, RunsInOrder, LiveUndecided
<1>9. SlotOfTask'
  <2>1. \A t \in Tasks : Holds(t) => active[t] \in Runs
    BY DEF IInv, TypeOK, Holds
  <2> QED
    BY <2>1, <1>4, <1>7 DEF IInv, SlotOfTask
<1>10. LiveHolds'
  <2>1. \A r \in Runs : Executing(r)' =>
          Executing(r) /\ run[r].task \in Tasks /\ run[r].task \notin TasksOf(a)
    BY <1>2, <1>3, LiveHasTask DEF Executing
  <2> QED
    BY <2>1, <1>3, <1>4 DEF IInv, LiveHolds
<1>11. ErasedHeld' /\ DownIsEmpty'
  BY <1>2, <1>5, <1>7 DEF IInv, ErasedHeld, DownIsEmpty, Stored
<1>12. SlotAgreement'
  <2>1. ASSUME NEW t \in Tasks, AgentOf[t] = a, a \notin torn PROVE ~Holds(t)'
    BY <2>1, <1>2, <1>7 DEF IInv, ErasedHeld, TasksOf
  <2>2. \A t \in Tasks : AgentOf[t] # a => (Holds(t)' <=> Holds(t))
    BY <1>3 DEF Holds, TasksOf
  <2> QED
    BY <2>1, <2>2, <1>2, <1>3 DEF IInv, SlotAgreement
<1>13. NoLeakedSlot'
  <2> SUFFICES ASSUME NEW t \in Tasks, Holds(t)'
               PROVE  Executing(active[t])' /\ run'[active'[t]].task = t
    BY DEF NoLeakedSlot
  <2>1. Holds(t) /\ active'[t] = active[t] /\ active[t] \in Runs /\ t \notin TasksOf(a)
    BY <1>7 DEF IInv, TypeOK, Holds
  <2>2. Executing(active[t]) /\ run[active[t]].task = t
    BY <2>1, <1>2 DEF IInv, NoLeakedSlot
  <2> QED
    BY <2>1, <2>2, <1>2, <1>3, <1>4 DEF Executing
<1> QED
  BY <1>6, <1>8, <1>9, <1>10, <1>11, <1>12, <1>13 DEF IInv

LEMMA AgentPreserves ==
  ASSUME IInv, NEW a \in Agents,
         DeleteAgentStarts(a) \/ DeleteAgentEnds(a) \/ AgentStatusChanges(a)
  PROVE  IInv'
<1>1. CASE DeleteAgentEnds(a)
  <2>1. /\ UNCHANGED <<lastRun, sched, active, busy, bg, cancelled, given, call, torn,
                       jobs, calls, deletes, boots>>
        /\ deleting' = deleting \ {a}
        /\ EraseAgent(a) \/ UNCHANGED <<agentRow, taskRow, run>>
    BY <1>1 DEF DeleteAgentEnds, memory, bounds
  <2>2. /\ jobs' \in SUBSET Tasks /\ deleting' \in SUBSET Agents
        /\ calls' \in 0..MaxCalls /\ deletes' \in 0..MaxDeletes /\ boots' \in 0..MaxBoots
    BY <2>1 DEF IInv, TypeOK
  <2> QED
    BY <2>1, <2>2, ErasePreserves
<1>2. CASE AgentStatusChanges(a)
  <2>1. /\ UNCHANGED <<taskRow, run, lastRun, sched, active, busy, bg, cancelled, given,
                       call, torn, jobs, calls, deletes, boots, deleting>>
        /\ agentRow' \in [Agents -> {"running", "paused", "error", "absent"}]
        /\ \A b \in Agents : agentRow[b] = "absent" => agentRow'[b] = "absent"
    BY <1>2 DEF AgentStatusChanges, memory, requests, bounds, IInv, TypeOK
  <2>2. TypeOK'
    BY <2>1 DEF IInv, TypeOK
  <2>3. ErasedHeld'
    BY <2>1, AgentOfAssumption DEF IInv, ErasedHeld, Holds, Stored
  <2> QED
    BY <2>1, <2>2, <2>3, UntouchedPreserves
<1> QED
  BY <1>1, <1>2, DeleteStartsPreserves

LEMMA DeleteSessionPreserves ==
  ASSUME IInv, NEW r \in Runs, DeleteSession(r)
  PROVE  IInv'
<1>1. /\ UNCHANGED <<taskRow, agentRow, lastRun, sched, active, busy, bg, cancelled,
                     given, call, torn, jobs, calls, deletes, boots, deleting>>
      /\ run' = [run EXCEPT ![r].status = "gone"]
  BY DEF DeleteSession, memory, requests, bounds
<1>2. \A q \in Runs : /\ run'[q].task = run[q].task
                      /\ run'[q].status \in {run[q].status, "gone"}
  BY <1>1 DEF IInv, TypeOK
<1>3. TypeOK'
  BY <1>1 DEF IInv, TypeOK
<1>4. ErasedHeld'
  BY <1>1 DEF IInv, ErasedHeld, Holds, Stored
<1> QED
  BY <1>1, <1>2, <1>3, <1>4, UntouchedPreserves

\* A start finds no slot held and no run under way.
LEMMA StartPreserves ==
  ASSUME IInv, Start
  PROVE  IInv'
<1>1. /\ UNCHANGED <<taskRow, agentRow, lastRun, active, busy, bg, cancelled, given,
                     call, deleting, calls, deletes, torn>>
      /\ sched = "down" /\ sched' = "up"
      /\ jobs' \in SUBSET Tasks /\ boots' \in 0..MaxBoots
  BY BoundsAssumption DEF Start, requests, IInv, TypeOK
<1>2. /\ run' \in RunTable
      /\ \A r \in Runs : /\ run'[r].task = run[r].task
                         /\ HasRow(r)' => HasRow(r)
  BY DEF Start, Orphan, HasRow, RunTable, RowStatus, IInv, TypeOK
<1>3. (\A t \in Tasks : ~Holds(t)) /\ (\A r \in Runs : bg[r] \notin Live)
  BY <1>1 DEF IInv, DownIsEmpty, Holds
<1>4. TypeOK'
  BY <1>1, <1>2 DEF IInv, TypeOK, RunTable
<1>5. RunsInOrder' /\ LiveUndecided' /\ LiveHolds'
  <2>1. cancelled \subseteq Runs
    BY DEF IInv, TypeOK
  <2> QED
    BY <2>1, <1>1, <1>2, <1>3 DEF IInv, RunsInOrder, LiveUndecided, LiveHolds, Executing
<1>6. SlotOfTask' /\ ErasedHeld' /\ NoLeakedSlot'
  BY <1>1, <1>3 DEF SlotOfTask, ErasedHeld, NoLeakedSlot, Holds
<1>7. DownIsEmpty' /\ SlotAgreement'
  BY <1>1 DEF IInv, DownIsEmpty, SlotAgreement, Holds
<1> QED
  BY <1>4, <1>5, <1>6, <1>7 DEF IInv

LEMMA ShutdownStartsPreserves ==
  ASSUME IInv, ShutdownStarts
  PROVE  IInv'
<1>1. /\ UNCHANGED <<taskRow, agentRow, run, lastRun, jobs, active, busy, bg, given,
                     call, deleting, calls, deletes, boots, torn>>
      /\ sched' = "draining"
      /\ cancelled' = cancelled \cup {r \in Runs : bg[r] \in Live}
  BY DEF ShutdownStarts, rows, requests, bounds
<1>2. TypeOK'
  BY <1>1 DEF IInv, TypeOK
<1>3. RunsInOrder'
  <2>1. \A r \in cancelled' : r <= lastRun
    BY <1>1, LiveHasTask DEF IInv, RunsInOrder
  <2> QED
    BY <2>1, <1>1 DEF IInv, RunsInOrder, HasRow
<1>4. LiveUndecided' /\ SlotOfTask' /\ ErasedHeld' /\ SlotAgreement'
  BY <1>1 DEF IInv, LiveUndecided, SlotOfTask, ErasedHeld, SlotAgreement, Holds, Stored
<1>5. LiveHolds' /\ DownIsEmpty' /\ NoLeakedSlot'
  BY <1>1 DEF IInv, LiveHolds, DownIsEmpty, NoLeakedSlot, Executing
<1> QED
  BY <1>2, <1>3, <1>4, <1>5 DEF IInv

\* The end of the process empties everything held in memory.
LEMMA ExitPreserves ==
  ASSUME IInv, Exit
  PROVE  IInv'
<1>1. /\ UNCHANGED <<taskRow, agentRow, run, lastRun, given, calls, deletes, boots>>
      /\ sched' = "down" /\ jobs' = {} /\ busy' = {} /\ cancelled' = {}
      /\ deleting' = {} /\ torn' = {}
      /\ active' = [t \in Tasks |-> NoRun] /\ call' = [w \in Workers |-> Idle]
      /\ bg' = [r \in Runs |-> IF bg[r] \in Live THEN "lost" ELSE bg[r]]
  BY DEF Exit, rows, bounds
<1>2. \A r \in Runs : bg'[r] \notin Live /\ (bg[r] = "none" => bg'[r] = "none")
  BY <1>1 DEF Live, Waiting
<1>3. TypeOK'
  BY <1>1 DEF IInv, TypeOK, Calls
<1>4. RunsInOrder' /\ LiveUndecided' /\ LiveHolds' /\ DownIsEmpty'
  BY <1>1, <1>2 DEF IInv, RunsInOrder, LiveUndecided, LiveHolds, DownIsEmpty,
                    Executing, HasRow
<1>5. SlotOfTask' /\ ErasedHeld' /\ SlotAgreement' /\ NoLeakedSlot'
  BY <1>1 DEF SlotOfTask, ErasedHeld, SlotAgreement, NoLeakedSlot, Holds
<1> QED
  BY <1>3, <1>4, <1>5 DEF IInv

-----------------------------------------------------------------------------
(* The theorems.                                                           *)

LEMMA InitEstablishes == Init => IInv
<1> SUFFICES ASSUME Init PROVE IInv
  OBVIOUS
<1>1. TypeOK
  BY BoundsAssumption DEF Init, TypeOK, Calls
<1>2. RunsInOrder /\ LiveUndecided /\ LiveHolds /\ DownIsEmpty
  BY DEF Init, RunsInOrder, LiveUndecided, LiveHolds, DownIsEmpty, Executing, HasRow,
         RowStatus, Live, Waiting, Runs
<1>3. SlotOfTask /\ ErasedHeld /\ SlotAgreement /\ NoLeakedSlot
  BY DEF Init, SlotOfTask, ErasedHeld, SlotAgreement, NoLeakedSlot, Holds
<1> QED
  BY <1>1, <1>2, <1>3 DEF IInv

LEMMA NextPreserves == IInv /\ [Next]_vars => IInv'
<1> SUFFICES ASSUME IInv, [Next]_vars PROVE IInv'
  OBVIOUS
<1>1. CASE UNCHANGED vars
  <2>1. UNCHANGED <<taskRow, agentRow, run, lastRun, sched, jobs, active, busy, bg,
                    cancelled, given, call, deleting, calls, deletes, boots, torn>>
    BY <1>1 DEF vars, rows, memory, requests, bounds
  <2>2. TypeOK' /\ ErasedHeld'
    BY <2>1 DEF IInv, TypeOK, ErasedHeld, Holds, Stored
  <2> QED
    BY <2>1, <2>2, UntouchedPreserves
<1>2. CASE Next
  BY <1>2, FirePreserves, RunStepPreserves, DeleteSessionPreserves, RoutePreserves,
     AgentPreserves, StartPreserves, ShutdownStartsPreserves, ExitPreserves
     DEF Next, ShutdownEnds, Crash
<1> QED
  BY <1>1, <1>2

\* Every reachable state satisfies the inductive invariant.
THEOREM Invariance == Spec => []IInv
BY InitEstablishes, NextPreserves, PTL DEF Spec

\* Every variable keeps its type through every operation of the service.
THEOREM TypeCorrect == Spec => []TypeOK
<1>1. IInv => TypeOK
  BY DEF IInv
<1> QED
  BY <1>1, Invariance, PTL

\* The two tables of slots, _active_runs and _busy_agents, always agree.
THEOREM SlotsAgree == Spec => []SlotAgreement
<1>1. IInv => SlotAgreement
  BY DEF IInv
<1> QED
  BY <1>1, Invariance, PTL

\* While the service is up no slot is held by a run that will not release it.
THEOREM SlotsDoNotLeak == Spec => []NoLeakedSlot
<1>1. IInv => NoLeakedSlot
  BY DEF IInv
<1> QED
  BY <1>1, Invariance, PTL

\* The mutual exclusion of _acquire_slot: two executing runs are of different
\* tasks, and of different agents unless a task of the agent was erased under
\* its run.  It follows from each executing run holding its slot.
THEOREM MutualExclusion == Spec => []OneRunAtATime
<1>1. IInv => OneRunAtATime
  <2> SUFFICES ASSUME IInv, NEW r \in Runs, NEW q \in Runs,
                      Executing(r), Executing(q), r # q
               PROVE  /\ run[r].task # run[q].task
                      /\ Agent(r) = Agent(q) => Agent(r) \in torn
    BY DEF OneRunAtATime
  <2>1. /\ run[r].task \in Tasks /\ active[run[r].task] = r
        /\ run[q].task \in Tasks /\ active[run[q].task] = q
    BY LiveHasTask DEF IInv, LiveHolds, Executing
  <2>2. Holds(run[r].task) /\ Holds(run[q].task)
    BY <2>1, NamesAssumption DEF Holds
  <2> QED
    BY <2>1, <2>2, AgentOfAssumption DEF IInv, SlotAgreement, Agent
<1> QED
  BY <1>1, Invariance, PTL

KeepsVerdicts ==
  \A r \in Runs : run[r].status \in Verdicts => run'[r].status \in {run[r].status, "gone"}

\* A new record is written where there was none.
LEMMA InsertKeepsVerdicts ==
  ASSUME IInv, lastRun < MaxRuns, NEW t \in Tasks, Fire(t) \/ RunTaskNow(t)
  PROVE  KeepsVerdicts
<1>1. PICK status \in RowStatus, linked \in BOOLEAN :
        \/ run' = Insert(t, status, linked)
        \/ run' = Prune(Insert(t, status, linked), t)
  BY DEF Fire, RunTaskNow, Dispatch, Skip, RefuseSession, RowStatus
<1> DEFINE table == Insert(t, status, linked)
<1>2. TypeOK /\ NewRun \in Runs /\ ~(NewRun <= lastRun)
  BY BoundsAssumption DEF IInv, TypeOK, NewRun, Runs
<1>3. table \in RunTable /\ \A q \in Runs \ {NewRun} : table[q] = run[q]
  BY <1>2, InsertAddsOne
<1>4. run[NewRun].status \notin Verdicts
  <2>1. ~HasRow(NewRun)
    BY <1>2 DEF IInv, TypeOK, RunsInOrder, NewRun
  <2> QED
    BY <2>1 DEF HasRow, RowStatus, Verdicts
<1> HIDE DEF table
<1>5. \A q \in Runs : run'[q].status \in {table[q].status, "gone"}
  BY <1>1, <1>3, PruneOnlyDeletes DEF table
<1> QED
  BY <1>3, <1>4, <1>5 DEF KeepsVerdicts

\* A run writes its verdict on a row that has none.
LEMMA FinishKeepsVerdicts ==
  ASSUME IInv, NEW r \in Runs, NEW verdict \in Verdicts, NEW linked \in BOOLEAN,
         bg[r] \in Live, Finish(r, verdict, linked)
  PROVE  KeepsVerdicts
<1> DEFINE written == WriteRun(run, r, verdict, linked)
<1>1. run \in RunTable /\ verdict \in RowStatus
  BY DEF IInv, TypeOK, RunTable, Verdicts, RowStatus
<1>2. written \in RunTable /\ \A q \in Runs \ {r} : written[q] = run[q]
  BY <1>1, WriteRunTouchesOne
<1>3. run' = Prune(written, run[r].task)
  BY DEF Finish
<1>4. run[r].status \notin Verdicts
  BY DEF IInv, LiveUndecided, Verdicts
<1> HIDE DEF written
<1>5. \A q \in Runs : run'[q].status \in {written[q].status, "gone"}
  BY <1>2, <1>3, PruneOnlyDeletes
<1> QED
  BY <1>2, <1>4, <1>5 DEF KeepsVerdicts

LEMMA RunStepKeepsVerdicts ==
  ASSUME IInv, NEW r \in Runs, RunStep(r)
  PROVE  KeepsVerdicts
<1>1. run \in RunTable
  BY DEF IInv, TypeOK, RunTable
<1>2. \/ UNCHANGED run
      \/ bg[r] \in Live /\ run' = WriteRun(run, r, "running", TRUE)
      \/ bg[r] \in Live /\ \E verdict \in Verdicts, linked \in BOOLEAN :
           Finish(r, verdict, linked)
  <2>1. FinishFailed(r) => \E verdict \in Verdicts, linked \in BOOLEAN :
                             Finish(r, verdict, linked)
    BY <1>1 DEF FinishFailed, Verdicts, RunTable
  <2>2. \A pc \in Live : Resumes(r, pc) => bg[r] \in Live
    BY DEF Resumes
  <2>3. CASE BeginTurn(r)
    BY <2>1, <2>2, <2>3 DEF BeginTurn, Enter, Live
  <2>4. CASE AgentResumed(r)
    BY <2>1, <2>2, <2>4 DEF AgentResumed, Enter, Live, Waiting
  <2>5. CASE SessionCreated(r)
    BY <2>1, <2>2, <2>5 DEF SessionCreated, Live, Waiting
  <2>6. CASE StreamEnded(r)
    BY <2>1, <2>2, <2>6 DEF StreamEnded, Live, Waiting, Verdicts
  <2>7. CASE CancelDelivered(r)
    BY <2>1, <2>7 DEF CancelDelivered, Live, Verdicts
  <2> QED
    BY <2>3, <2>4, <2>5, <2>6, <2>7 DEF RunStep
<1>3. CASE UNCHANGED run
  BY <1>3 DEF KeepsVerdicts
<1>4. CASE bg[r] \in Live /\ run' = WriteRun(run, r, "running", TRUE)
  <2> DEFINE written == WriteRun(run, r, "running", TRUE)
  <2>1. "running" \in RowStatus /\ TRUE \in BOOLEAN
    BY DEF RowStatus
  <2>2. \A q \in Runs \ {r} : written[q] = run[q]
    BY <1>1, <2>1, WriteRunTouchesOne
  <2>3. run[r].status \notin Verdicts
    BY <1>4 DEF IInv, LiveUndecided, Verdicts
  <2>4. run' = written
    BY <1>4
  <2> HIDE DEF written
  <2> QED
    BY <2>2, <2>3, <2>4 DEF KeepsVerdicts
<1>5. CASE bg[r] \in Live /\ \E verdict \in Verdicts, linked \in BOOLEAN :
             Finish(r, verdict, linked)
  BY <1>5, FinishKeepsVerdicts
<1> QED
  BY <1>2, <1>3, <1>4, <1>5

\* A verdict outlives everything but the deletion of its row: late results,
\* refused updates, cancellations, restarts and the recovery of orphans.
THEOREM VerdictsAreFinal == Spec => VerdictIsFinal
<1>1. ASSUME IInv, [Next]_vars PROVE [KeepsVerdicts]_vars
  <2> SUFFICES ASSUME Next PROVE KeepsVerdicts
    BY <1>1
  <2>1. run \in RunTable /\ IInv
    BY <1>1 DEF IInv, TypeOK, RunTable
  <2>2. UNCHANGED run => KeepsVerdicts
    BY DEF KeepsVerdicts
  <2>3. \A ts : run' = Cascade(run, ts) => KeepsVerdicts
    BY <2>1, CascadeOnlyDeletes DEF KeepsVerdicts
  <2>4. \A t \in Tasks : Fire(t) \/ RunTaskNow(t) => KeepsVerdicts
    BY <2>1, InsertKeepsVerdicts DEF Fire, RunTaskNow
  <2>5. \A r \in Runs : RunStep(r) => KeepsVerdicts
    BY <2>1, RunStepKeepsVerdicts
  <2>6. \A r \in Runs : DeleteSession(r) => KeepsVerdicts
    BY <2>1 DEF DeleteSession, KeepsVerdicts, RunTable
  <2>7. \A w \in Workers : Route(w) => KeepsVerdicts
    BY <2>2, <2>3 DEF Route, CreateTask, SetEnabled, UpdateTask, DeleteTask, CallStep
  <2>8. \A a \in Agents :
          DeleteAgentStarts(a) \/ DeleteAgentEnds(a) \/ AgentStatusChanges(a) => KeepsVerdicts
    BY <2>2, <2>3 DEF DeleteAgentStarts, DeleteAgentEnds, AgentStatusChanges, EraseAgent
  <2>9. Start => KeepsVerdicts
    BY <2>1 DEF Start, Orphan, KeepsVerdicts, Verdicts, RunTable
  <2>10. ShutdownStarts \/ ShutdownEnds \/ Crash => KeepsVerdicts
    BY <2>2 DEF ShutdownStarts, ShutdownEnds, Crash, Exit, rows
  <2> QED
    BY <2>4, <2>5, <2>6, <2>7, <2>8, <2>9, <2>10 DEF Next
<1>2. VerdictIsFinal <=> [][KeepsVerdicts]_vars
  BY PTL DEF VerdictIsFinal, KeepsVerdicts
<1> QED
  BY <1>1, <1>2, Invariance, PTL DEF Spec

-----------------------------------------------------------------------------
(* The jobs and the rows.                                                  *)

\* Routes run only in a service that is up, and each takes its job after its row.
CallsWhileUp == sched # "up" => \A w \in Workers : call[w] = Idle
NoDeleteYet == deletes = 0 => deleting = {}

\* What the call in progress still owes the scheduler.
Owes(t) == \E w \in Workers : call[w].task = t /\ call[w].pc \in {"schedule", "unschedule", "erase"}
JobsOwed ==
  sched = "up" /\ deletes = 0 =>
    \A t \in Tasks :
      /\ ~Owes(t) => (t \in jobs <=> taskRow[t] = "enabled")
      /\ \A w \in Workers : call[w].task = t =>
           /\ call[w].pc = "schedule" => taskRow[t] = "enabled"
           /\ call[w].pc = "unschedule" => taskRow[t] # "enabled"
           /\ call[w].pc = "erase" => t \notin jobs

JInv == CallsWhileUp /\ NoDeleteYet /\ JobsOwed

\* A route begins, or goes on: the only one in progress.
LEMMA RouteKeepsJobs ==
  ASSUME IInv, JInv, NEW w \in Workers, \A v \in Workers : v = w, Route(w)
  PROVE  JInv'
<1>1. /\ call \in [Workers -> Calls] /\ taskRow \in [Tasks -> {"absent", "enabled", "disabled", "deleted"}]
      /\ Idle.pc = "idle" /\ Idle \in Calls
  BY DEF IInv, TypeOK, Calls, Idle
<1>2. sched = "up" /\ sched' = "up" /\ UNCHANGED <<deleting, deletes>>
  BY DEF Route, CreateTask, SetEnabled, UpdateTask, DeleteTask, CallStep, NewCall, bounds
<1>3. CallsWhileUp' /\ NoDeleteYet'
  BY <1>2 DEF JInv, CallsWhileUp, NoDeleteYet
<1>4. ASSUME NEW pc \in {"schedule", "unschedule", "write", "drop", "erase"}, NEW t \in Tasks,
             NEW enabled \in BOOLEAN, Later(w, pc, t, enabled)
      PROVE  call'[w].pc = pc /\ call'[w].task = t
  BY <1>1, <1>4 DEF Later
<1>5. Return(w) => call'[w].pc = "idle"
  BY <1>1 DEF Return
<1> SUFFICES ASSUME deletes = 0 PROVE JobsOwed'
  BY <1>2, <1>3 DEF JInv, JobsOwed
<1>6. ASSUME call[w] = Idle PROVE \A t \in Tasks : t \in jobs <=> taskRow[t] = "enabled"
  BY <1>1, <1>2, <1>6 DEF JInv, JobsOwed, Owes
<1>7. ASSUME NEW t \in Tasks, NEW enabled \in BOOLEAN, CreateTask(w, t, enabled) \/ SetEnabled(w, t, enabled)
      PROVE  JobsOwed'
  <2>1. /\ call[w] = Idle /\ jobs' = jobs
        /\ taskRow' = [taskRow EXCEPT ![t] = IF enabled THEN "enabled" ELSE "disabled"]
    BY <1>7 DEF CreateTask, SetEnabled, NewCall
  <2>2. \A u \in Tasks : u # t => taskRow'[u] = taskRow[u]
    BY <1>1, <2>1
  <2>3. taskRow'[t] = IF enabled THEN "enabled" ELSE "disabled"
    BY <1>1, <2>1
  <2>4. CASE enabled
    <3>1. call'[w].pc = "schedule" /\ call'[w].task = t
      BY <1>4, <1>7, <2>4 DEF CreateTask, SetEnabled
    <3> QED
      BY <1>6, <2>1, <2>2, <2>3, <2>4, <3>1 DEF JobsOwed, Owes
  <2>5. CASE ~enabled
    <3>1. CASE call'[w].pc = "unschedule" /\ call'[w].task = t
      BY <1>6, <2>1, <2>2, <2>3, <2>5, <3>1 DEF JobsOwed, Owes
    <3>2. CASE call'[w].pc = "idle" /\ taskRow[t] = "absent"
      BY <1>6, <2>1, <2>2, <2>3, <2>5, <3>2 DEF JobsOwed, Owes
    <3> QED
      BY <1>4, <1>5, <1>7, <2>5, <3>1, <3>2 DEF CreateTask, SetEnabled
  <2> QED
    BY <2>4, <2>5
<1>8. ASSUME NEW t \in Tasks, UpdateTask(w, t) \/ DeleteTask(w, t)
      PROVE  JobsOwed'
  <2>1. call[w] = Idle /\ UNCHANGED <<jobs, taskRow>>
    BY <1>8 DEF UpdateTask, DeleteTask, NewCall
  <2>2. call'[w].pc \in {"write", "drop"}
    BY <1>4, <1>8 DEF UpdateTask, DeleteTask
  <2> QED
    BY <1>6, <2>1, <2>2 DEF JobsOwed, Owes
<1>9. CASE CallStep(w)
  <2> DEFINE t == call[w].task
             c == call[w]
  <2>1. c \in Calls /\ (c.pc # "idle" => t \in Tasks /\ c.enabled \in BOOLEAN)
    BY <1>1 DEF Calls, Idle
  <2>2. \A u \in Tasks : u # t => (u \in jobs <=> taskRow[u] = "enabled")
    BY <1>2 DEF JInv, JobsOwed, Owes
  <2>3. CASE c.pc = "write"
    <3>1. jobs' = jobs /\ (t \in jobs <=> taskRow[t] = "enabled")
      BY <1>2, <1>9, <2>1, <2>3 DEF CallStep, JInv, JobsOwed, Owes
    <3>2. CASE Return(w) /\ UNCHANGED taskRow
      BY <1>5, <2>1, <2>2, <3>1, <3>2 DEF JobsOwed, Owes
    <3>3. CASE /\ taskRow' = [taskRow EXCEPT ![t] = IF c.enabled THEN "enabled" ELSE "disabled"]
               /\ Later(w, IF c.enabled THEN "schedule" ELSE "unschedule", t, c.enabled)
      <4>1. call'[w].pc = (IF c.enabled THEN "schedule" ELSE "unschedule") /\ call'[w].task = t
        BY <1>4, <2>1, <2>3, <3>3
      <4>2. /\ taskRow'[t] = (IF c.enabled THEN "enabled" ELSE "disabled")
            /\ \A u \in Tasks : u # t => taskRow'[u] = taskRow[u]
        BY <1>1, <2>1, <2>3, <3>3
      <4> QED
        BY <2>1, <2>2, <3>1, <4>1, <4>2 DEF JobsOwed, Owes
    <3> QED
      BY <1>9, <2>3, <3>2, <3>3 DEF CallStep
  <2>4. CASE c.pc \in {"schedule", "unschedule"}
    <3>1. UNCHANGED taskRow /\ call'[w].pc = "idle"
      BY <1>5, <1>9, <2>4 DEF CallStep
    <3>2. jobs' = IF c.pc = "schedule" THEN jobs \cup {t} ELSE jobs \ {t}
      BY <1>9, <2>4 DEF CallStep
    <3>3. taskRow[t] = "enabled" <=> c.pc = "schedule"
      BY <1>2, <2>1, <2>4 DEF JInv, JobsOwed
    <3> QED
      BY <2>1, <2>2, <2>4, <3>1, <3>2, <3>3 DEF JobsOwed, Owes
  <2>5. CASE c.pc = "drop"
    <3>1. UNCHANGED taskRow /\ jobs' = jobs \ {t} /\ call'[w].pc = "erase" /\ call'[w].task = t
      BY <1>4, <1>9, <2>1, <2>5 DEF CallStep
    <3> QED
      BY <2>1, <2>2, <3>1 DEF JobsOwed, Owes
  <2>6. CASE c.pc = "erase"
    <3>1. taskRow' = [taskRow EXCEPT ![t] = "deleted"] /\ jobs' = jobs /\ call'[w].pc = "idle" /\ t \notin jobs
      BY <1>2, <1>5, <1>9, <2>1, <2>6 DEF CallStep, JInv, JobsOwed
    <3>2. taskRow'[t] = "deleted" /\ \A u \in Tasks : u # t => taskRow'[u] = taskRow[u]
      BY <1>1, <2>1, <2>6, <3>1
    <3> QED
      BY <2>2, <3>1, <3>2 DEF JobsOwed, Owes
  <2> QED
    BY <1>9, <2>3, <2>4, <2>5, <2>6 DEF CallStep
<1> QED
  BY <1>7, <1>8, <1>9 DEF Route

\* Steps of the runs, and of what else changes neither rows nor jobs.
LEMMA OthersKeepJobs ==
  ASSUME JInv, UNCHANGED <<taskRow, jobs, call>>, sched' = sched, deletes' = deletes,
         deleting' \subseteq deleting
  PROVE  JInv'
BY DEF JInv, CallsWhileUp, NoDeleteYet, JobsOwed, Owes

\* Routes served one at a time, and no agent deleted: an enabled task has its job and no other
\* task has one, whatever was created, changed, enabled, disabled and deleted, and after any
\* crash or restart.
THEOREM OneRouteAtATimeKeepsJobs ==
  ASSUME \A v, w \in Workers : v = w
  PROVE  Spec => []JobsFollowRows
<1>1. Init => JInv
  BY DEF Init, JInv, CallsWhileUp, NoDeleteYet, JobsOwed
<1>2. IInv /\ JInv /\ [Next]_vars => JInv'
  <2> SUFFICES ASSUME IInv, JInv, [Next]_vars PROVE JInv'
    OBVIOUS
  <2>1. CASE UNCHANGED vars
    BY <2>1, OthersKeepJobs DEF vars, rows, memory, requests, bounds
  <2>2. ASSUME NEW t \in Tasks, Fire(t) \/ RunTaskNow(t) PROVE JInv'
    BY <2>2, OthersKeepJobs DEF Fire, RunTaskNow, requests, bounds
  <2>3. ASSUME NEW r \in Runs, RunStep(r) \/ DeleteSession(r) PROVE JInv'
    BY <2>3, OthersKeepJobs DEF RunStep, BeginTurn, AgentResumed, SessionCreated, StreamEnded, CancelDelivered, OfRuns,
       DeleteSession, memory, requests, bounds
  <2>4. ASSUME NEW w \in Workers, Route(w) PROVE JInv'
    BY <2>4, RouteKeepsJobs
  <2>5. ASSUME NEW a \in Agents, DeleteAgentStarts(a) PROVE JInv'
    <3>1. deletes' = deletes + 1 /\ deletes \in Nat /\ sched' = sched /\ sched = "up"
      BY <2>5 DEF DeleteAgentStarts, IInv, TypeOK
    <3> QED
      BY <3>1 DEF JInv, CallsWhileUp, NoDeleteYet, JobsOwed
  <2>6. ASSUME NEW a \in Agents, DeleteAgentEnds(a) PROVE JInv'
    <3>1. deletes # 0 /\ UNCHANGED <<deletes, sched, call>>
      BY <2>6 DEF DeleteAgentEnds, JInv, NoDeleteYet, bounds
    <3> QED
      BY <3>1 DEF JInv, CallsWhileUp, NoDeleteYet, JobsOwed
  <2>7. ASSUME NEW a \in Agents, AgentStatusChanges(a) PROVE JInv'
    BY <2>7, OthersKeepJobs DEF AgentStatusChanges, memory, requests, bounds
  <2>8. CASE Start
    <3>1. /\ sched = "down" /\ sched' = "up" /\ jobs' = {t \in Tasks : taskRow[t] = "enabled"}
          /\ UNCHANGED <<taskRow, call, deleting, deletes>>
      BY <2>8 DEF Start, requests
    <3>2. \A w \in Workers : call'[w].pc = "idle"
      BY <3>1 DEF JInv, CallsWhileUp, Idle
    <3> QED
      BY <3>1, <3>2 DEF JInv, CallsWhileUp, NoDeleteYet, JobsOwed, Owes
  <2>9. CASE ShutdownStarts
    BY <2>9 DEF ShutdownStarts, requests, bounds, JInv, CallsWhileUp, NoDeleteYet, JobsOwed
  <2>10. CASE ShutdownEnds \/ Crash
    BY <2>10 DEF ShutdownEnds, Crash, Exit, JInv, CallsWhileUp, NoDeleteYet, JobsOwed
  <2> QED
    BY <2>1, <2>2, <2>3, <2>4, <2>5, <2>6, <2>7, <2>8, <2>9, <2>10 DEF Next
<1>3. JInv => JobsFollowRows
  BY DEF JInv, JobsOwed, Owes, JobsFollowRows, Idle
<1> QED
  BY <1>1, <1>2, <1>3, Invariance, PTL DEF Spec
=============================================================================
