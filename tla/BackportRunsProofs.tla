------------------------- MODULE BackportRunsProofs -------------------------
(* Proofs about BackportRuns, for all Tasks, workers, listings, rows and    *)
(* bounds.                                                                  *)
EXTENDS BackportRuns, TLAPS

WorkerRecord ==
  [pc : WorkerPcs, t : Tasks \cup {"none"}, i : 0..Rows + 1, steps : 0..MaxSteps, failed : BOOLEAN]

Busy(w) == worker[w].pc # "idle"
RunPcs == Ended \cup {"top", "apply", "applied", "recheck", "paused"}
GenPcs == {"generating", "ready", "generation_failed"}
RowPcs == {"apply", "applied", "recheck"}
Good == {"applied", "moot", "error"}

\* A worker works for a Task whose record says so, alone, and is at what the
\* action of the record has.
Threads ==
  /\ \A w \in Workers : ~Busy(w) => worker[w] = Idle
  /\ \A w \in Workers : Busy(w) =>
       /\ up /\ worker[w].t \in Tasks /\ Working(worker[w].t) /\ worker[w].i >= 1
       /\ record[worker[w].t].action # "none"
       /\ record[worker[w].t].action = "generate" => worker[w].i = 1
       /\ worker[w].pc \in RunPcs => record[worker[w].t].action = "run"
       /\ worker[w].pc \in GenPcs => record[worker[w].t].action = "generate"
       /\ worker[w].pc \in RowPcs => worker[w].i <= Rows /\ worker[w].steps < MaxSteps
  /\ OneWorker

\* The Run of a worker is the current one and in progress, whatever a listing
\* took it for; the file after the current one, if there is any, is what a
\* failed start left.
Lives ==
  /\ \A t \in Tasks : task[t].status = "none" => task[t].run = 0 /\ ~Working(t)
  /\ \A t \in Tasks : Working(t) /\ record[t].action = "generate" => task[t].run = 0
  /\ \A w \in Workers : Busy(w) /\ record[worker[w].t].action = "run" =>
       /\ task[worker[w].t].run > 0 /\ Current(worker[w].t).status \in {"running", "interrupted"}
       /\ worker[w].t \notin crossed => Current(worker[w].t).status = "running"
  /\ \A t \in Tasks : \A n \in Numbers : n > task[t].run => runs[t][n].status \in {"none", "running"}

\* A listing is at a Task that nobody works for, and has more to do than look
\* only after a write has failed: unless a Run was started under it.
Listings ==
  \A r \in Readers :
    /\ reader[r].pc = "idle" => reader[r] = Quiet
    /\ reader[r].pc # "idle" =>
         /\ up /\ reader[r].t \in Tasks /\ task[reader[r].t].run > 0
         /\ Working(reader[r].t) => reader[r].t \in crossed
    /\ reader[r].pc = "stale" =>
         /\ reader[r].n \in 1..task[reader[r].t].run
         /\ reader[r].t \notin crossed =>
              /\ reader[r].n = task[reader[r].t].run
              /\ Current(reader[r].t).status \in {"running", "interrupted"}
    /\ reader[r].pc \in {"stale", "half"} => torn \/ reader[r].t \in crossed

\* A worker that has seen no failure leaves only rows that are done behind it.
Tally ==
  /\ \A w \in Workers : Busy(w) /\ ~worker[w].failed =>
       \A j \in 1..Rows : j < worker[w].i => report[worker[w].t][j] \in Good
  /\ \A w \in Workers : worker[w].pc = "completed" => ~worker[w].failed /\ worker[w].i > Rows
  /\ VerdictIsTrue

\* The two files of a Task agree also while the process is down.
Agree ==
  /\ torn \/ \A t \in Tasks : task[t].run > 0 =>
       Current(t).status \in {"running", "interrupted"} \/ task[t].status = Current(t).status \/ t \in crossed
  /\ FilesAgree

\* The branch has moved past the HEAD of the Run, also in the copy of it that a
\* listing may write back.
Behind(t) ==
  /\ Current(t).head < head
  /\ \A r \in Readers : reader[r].pc = "stale" /\ reader[r].t = t => reader[r].head < head

\* The Run of the Task was cut between a commit and the report.
Lost(t) ==
  /\ Current(t).status \in {"running", "interrupted"} /\ Behind(t)
  /\ \A w \in Workers : worker[w].t # t

\* Every commit is in the report, or its worker is about to write it there, or
\* the branch has moved past the HEAD from which the Run may go on.
Committed ==
  torn \/
    /\ AppliedOnce
    /\ \A t \in Tasks : \A i \in 1..Rows : repo[t][i] = 0 \/ report[t][i] = "applied" \/ Lost(t)
         \/ \E w \in Workers : worker[w].pc = "applied" /\ worker[w].t = t /\ worker[w].i = i
    /\ \A t \in Tasks : \A n \in Numbers : runs[t][n].head <= head
    /\ \A r \in Readers : reader[r].pc = "stale" => reader[r].head <= head
    /\ \A t \in Tasks : task[t].run = 0 => \A i \in 1..Rows : repo[t][i] = 0
    /\ \A w \in Workers :
         /\ worker[w].pc = "apply" => Row(w) = "clean"
         /\ worker[w].pc = "applied" => Row(w) \in {"pending", "clean"} /\ Behind(worker[w].t)
         /\ worker[w].pc = "recheck" => Row(w) \in {"pending", "unapplied"}

IInv == TypeOK /\ Threads /\ Lives /\ Listings /\ Tally /\ Agree /\ Committed

-----------------------------------------------------------------------------

LEMMA Bounds ==
  /\ Rows \in Nat /\ Rows >= 1 /\ MaxSteps \in Nat /\ MaxSteps >= 1 /\ MaxRuns \in Nat
  /\ MaxStops \in Nat /\ MaxFaults \in Nat /\ MaxOthers \in Nat
BY BoundsAssumption

LEMMA InitEstablishes == Init => IInv
<1> SUFFICES ASSUME Init PROVE IInv
  OBVIOUS
<1>1. TypeOK
  <2>1. task \in [Tasks -> [status : TaskStatus, run : 0..MaxRuns]] /\ report \in [Tasks -> [1..Rows -> RowStatus]]
    BY Bounds DEF Init, TaskStatus, RunStatus, RowStatus
  <2>2. Absent \in [status : RunStatus, head : Nat]
    BY DEF Absent, RunStatus
  <2>3. runs \in [Tasks -> [Numbers -> [status : RunStatus, head : Nat]]]
    BY <2>2 DEF Init
  <2>4. repo \in [Tasks -> [1..Rows -> Nat]] /\ head \in Nat /\ others \in 0..MaxOthers
    BY Bounds DEF Init
  <2>5. Idle \in WorkerRecord
    BY Bounds DEF Idle, WorkerRecord, WorkerPcs
  <2>6. worker \in [Workers -> WorkerRecord]
    BY <2>5 DEF Init
  <2>7. record \in [Tasks -> [action : {"none", "generate", "run"}, pause : BOOLEAN,
                             status : {"none", "running", "success", "paused", "failed"}]]
    BY DEF Init, NoRecord
  <2>8. reader \in [Readers -> [pc : {"idle", "looked", "stale", "half"}, t : Tasks \cup {"none"},
                               n : 0..MaxRuns, head : Nat]]
    BY Bounds DEF Init, Quiet
  <2>9. holder \in Workers \cup {Nobody, Other}
    BY DEF Init
  <2>10. up \in BOOLEAN /\ torn \in BOOLEAN
    BY Zenon DEF Init
  <2>11. stops \in 0..MaxStops /\ faults \in 0..MaxFaults
    BY Bounds DEF Init
  <2>12. crossed \subseteq Tasks
    BY DEF Init
  <2> QED
    BY <2>1, <2>3, <2>4, <2>6, <2>7, <2>8, <2>9, <2>10, <2>11, <2>12 DEF TypeOK, WorkerRecord
<1>2. Threads
  BY NamesAssumption, Bounds DEF Init, Threads, OneWorker, Busy, Idle
<1>6. Lives
  <2>1. \A t \in Tasks : ~Working(t) /\ task[t].run = 0 /\ \A n \in Numbers : runs[t][n].status = "none"
    <3>1. \A t \in Tasks : ~Working(t) /\ task[t].run = 0
      BY DEF Init, Working, NoRecord
    <3>2. \A t \in Tasks : \A n \in Numbers : runs[t][n].status = "none"
      BY DEF Init, Absent
    <3> QED
      BY <3>1, <3>2
  <2>2. \A w \in Workers : ~Busy(w)
    BY DEF Init, Busy, Idle
  <2> QED
    BY <2>1, <2>2 DEF Lives
<1>4. Listings
  BY DEF Init, Listings, Quiet
<1>3. Tally /\ Agree
  BY Bounds DEF Init, Tally, VerdictIsTrue, Agree, FilesAgree, Busy, Idle,
    NoRecord, Working, Current, Absent, Numbers
<1>5. Committed
  BY Bounds DEF Init, Committed, AppliedOnce, Idle, Quiet, Absent, Numbers
<1> QED
  BY <1>1, <1>2, <1>3, <1>4, <1>5, <1>6 DEF IInv

-----------------------------------------------------------------------------
(* The steps of a worker before it ends.                                   *)

\* The worker stays at its Task, and touches no Run, record or listing.
Works(w) ==
  LET t == worker[w].t
      x == worker'[w]
  IN  /\ worker' = [worker EXCEPT ![w] = x]
      /\ x \in WorkerRecord /\ x.t = t /\ x.i >= 1 /\ x.pc # "idle"
      /\ record[t].action = "generate" => x.i = 1
      /\ x.pc \in RunPcs => record[t].action = "run"
      /\ x.pc \in GenPcs => record[t].action = "generate"
      /\ x.pc \in RowPcs => x.i <= Rows /\ x.steps < MaxSteps
      /\ task' = task \/ \E s \in TaskStatus \ {"none"} : task' = [task EXCEPT ![t].status = s]
      /\ UNCHANGED <<runs, record, reader, up, crossed>>
      /\ torn => torn'
      /\ report' \in [Tasks -> [1..Rows -> RowStatus]]
      /\ \A u \in Tasks \ {t} : report'[u] = report[u]

\* What the worker leaves behind it is done, as long as it has seen no failure.
Counts(w) ==
  LET x == worker'[w] IN
  /\ ~x.failed => \A j \in 1..Rows : j < x.i => report'[x.t][j] \in Good
  /\ x.pc = "completed" => ~x.failed /\ x.i > Rows

\* Nothing is committed, and what is applied stays so; a worker that was about
\* to write that it is applied has.
Keeps(w) ==
  LET t == worker[w].t
      x == worker'[w]
  IN  torn' \/
        /\ repo' = repo /\ head' = head
        /\ \A j \in 1..Rows : repo[t][j] = 0 \/ (report[t][j] = "applied" => report'[t][j] = "applied")
        /\ worker[w].pc = "applied" => report'[t][worker[w].i] = "applied"
        /\ x.pc # "applied"
        /\ x.pc = "apply" => report'[t][x.i] = "clean"
        /\ x.pc = "recheck" => report'[t][x.i] \in {"pending", "unapplied"}

\* The variables that Works leaves open.
Typed ==
  /\ repo \in [Tasks -> [1..Rows -> Nat]] /\ head \in Nat /\ others \in 0..MaxOthers
  /\ holder \in Workers \cup {Nobody, Other}
  /\ torn \in BOOLEAN /\ stops \in 0..MaxStops /\ faults \in 0..MaxFaults

LEMMA WorkerFacts ==
  ASSUME IInv, NEW w \in Workers, Busy(w)
  PROVE  /\ worker \in [Workers -> WorkerRecord] /\ worker[w] \in WorkerRecord
         /\ worker[w].t \in Tasks /\ up
         /\ worker[w].i \in 1..Rows + 1 /\ worker[w].steps \in 0..MaxSteps
         /\ task[worker[w].t] \in [status : TaskStatus, run : 0..MaxRuns]
         /\ report \in [Tasks -> [1..Rows -> RowStatus]]
         /\ record[worker[w].t].status = "running"
         /\ record[worker[w].t].action \in {"generate", "run"}
<1>1. worker \in [Workers -> WorkerRecord] /\ worker[w] \in WorkerRecord
  BY DEF IInv, TypeOK, WorkerRecord
<1>2. worker[w].t \in Tasks /\ up /\ worker[w].i >= 1 /\ Working(worker[w].t) /\ record[worker[w].t].action # "none"
  BY DEF IInv, Threads
<1>3. worker[w].i \in 1..Rows + 1 /\ worker[w].steps \in 0..MaxSteps
  BY <1>1, <1>2, Bounds DEF WorkerRecord
<1>4. record[worker[w].t].action \in {"generate", "run"}
  BY <1>2 DEF IInv, TypeOK
<1> QED
  BY <1>1, <1>2, <1>3, <1>4 DEF IInv, TypeOK, Working

\* What becomes of the record of a worker.
LEMMA GoesMoves ==
  ASSUME NEW w \in Workers, NEW p \in WorkerPcs, worker \in [Workers -> WorkerRecord], Goes(w, p)
  PROVE  LET x == worker'[w] IN
         /\ worker' = [worker EXCEPT ![w] = x] /\ x \in WorkerRecord
         /\ x.pc = p /\ x.t = worker[w].t /\ x.i = worker[w].i
         /\ x.steps = worker[w].steps /\ x.failed = worker[w].failed
<1>1. worker'[w] = [worker[w] EXCEPT !.pc = p] /\ worker' = [worker EXCEPT ![w] = worker'[w]]
  BY DEF Goes
<1> QED
  BY <1>1 DEF WorkerRecord

LEMMA NextRowMoves ==
  ASSUME NEW w \in Workers, NEW failed \in BOOLEAN, worker \in [Workers -> WorkerRecord], NextRow(w, failed),
         worker[w].i <= Rows, worker[w].steps < MaxSteps
  PROVE  LET x == worker'[w] IN
         /\ worker' = [worker EXCEPT ![w] = x] /\ x \in WorkerRecord
         /\ x.pc = "top" /\ x.t = worker[w].t /\ x.i = worker[w].i + 1
         /\ x.failed = (worker[w].failed \/ failed)
<1>1. /\ worker'[w] = [worker[w] EXCEPT !.pc = "top", !.i = @ + 1, !.steps = @ + 1, !.failed = @ \/ failed]
      /\ worker' = [worker EXCEPT ![w] = worker'[w]]
  BY DEF NextRow
<1>2. worker[w].i \in 0..Rows + 1 /\ worker[w].steps \in 0..MaxSteps /\ worker[w].failed \in BOOLEAN
  BY DEF WorkerRecord
<1>3. worker[w].i + 1 \in 0..Rows + 1 /\ worker[w].steps + 1 \in 0..MaxSteps /\ "top" \in WorkerPcs
  BY <1>2, Bounds DEF WorkerPcs
<1>4. (worker[w].failed \/ failed) \in BOOLEAN
  BY Zenon
<1> QED
  BY ZenonT(60), <1>1, <1>3, <1>4 DEF WorkerRecord

LEMMA AgainMoves ==
  ASSUME NEW w \in Workers, worker \in [Workers -> WorkerRecord], Again(w), worker[w].steps < MaxSteps
  PROVE  LET x == worker'[w] IN
         /\ worker' = [worker EXCEPT ![w] = x] /\ x \in WorkerRecord
         /\ x.pc = "top" /\ x.t = worker[w].t /\ x.i = worker[w].i /\ x.failed = worker[w].failed
<1>1. /\ worker'[w] = [worker[w] EXCEPT !.pc = "top", !.steps = @ + 1]
      /\ worker' = [worker EXCEPT ![w] = worker'[w]]
  BY DEF Again
<1>2. worker[w].steps + 1 \in 0..MaxSteps /\ "top" \in WorkerPcs
  BY Bounds DEF WorkerPcs, WorkerRecord
<1>3. worker[w] \in WorkerRecord
  OBVIOUS
<1> QED
  BY <1>1, <1>2, <1>3 DEF WorkerRecord

\* The report of a worker, in which the current row may change.
RowChange(w) ==
  report' = report \/ (worker[w].i <= Rows /\ \E s \in RowStatus : Mark(w, s))

LEMMA RowChanges ==
  ASSUME IInv, NEW w \in Workers, Busy(w), RowChange(w)
  PROVE  /\ report' \in [Tasks -> [1..Rows -> RowStatus]]
         /\ \A u \in Tasks \ {worker[w].t} : report'[u] = report[u]
         /\ \A j \in 1..Rows : j # worker[w].i => report'[worker[w].t][j] = report[worker[w].t][j]
<1>1. CASE report' = report
  BY <1>1, WorkerFacts
<1>2. CASE worker[w].i <= Rows /\ \E s \in RowStatus : Mark(w, s)
  <2>1. worker[w].i \in 1..Rows
    BY <1>2, WorkerFacts, Bounds
  <2> QED
    BY <1>2, <2>1, WorkerFacts DEF Mark
<1> QED
  BY <1>1, <1>2 DEF RowChange

\* Three ways on: to another point of the pass, to the same row, to the next.
Outside(w) ==
  /\ task' = task \/ \E s \in TaskStatus \ {"none"} : task' = [task EXCEPT ![worker[w].t].status = s]
  /\ UNCHANGED <<runs, record, reader, up, crossed>> /\ (torn => torn')

LEMMA GoesWorks ==
  ASSUME IInv, NEW w \in Workers, Busy(w), RowChange(w), Outside(w),
         NEW p \in WorkerPcs \ {"idle"}, Goes(w, p),
         p \in RunPcs => record[worker[w].t].action = "run",
         p \in GenPcs => record[worker[w].t].action = "generate",
         p \in RowPcs => worker[w].i <= Rows /\ worker[w].steps < MaxSteps,
         p = "completed" => ~worker[w].failed /\ worker[w].i > Rows
  PROVE  Works(w) /\ Counts(w) /\ worker'[w].pc = p /\ worker'[w].i = worker[w].i
<1>1. LET x == worker'[w] IN
      /\ worker' = [worker EXCEPT ![w] = x] /\ x \in WorkerRecord
      /\ x.pc = p /\ x.t = worker[w].t /\ x.i = worker[w].i /\ x.steps = worker[w].steps
      /\ x.failed = worker[w].failed
  BY GoesMoves, WorkerFacts
<1>2. Works(w)
  <2>1. /\ report' \in [Tasks -> [1..Rows -> RowStatus]]
        /\ \A u \in Tasks \ {worker[w].t} : report'[u] = report[u]
    BY RowChanges
  <2>2. worker[w].i >= 1 /\ (record[worker[w].t].action = "generate" => worker[w].i = 1)
    BY WorkerFacts DEF IInv, Threads
  <2> QED
    BY <1>1, <2>1, <2>2 DEF Works, Outside
<1>3. Counts(w)
  BY <1>1, RowChanges, WorkerFacts DEF Counts, Busy, IInv, Tally
<1> QED
  BY <1>1, <1>2, <1>3

LEMMA AgainWorks ==
  ASSUME IInv, NEW w \in Workers, Busy(w), RowChange(w), Outside(w), Again(w),
         record[worker[w].t].action = "run", worker[w].steps < MaxSteps
  PROVE  Works(w) /\ Counts(w) /\ worker'[w].pc = "top"
<1>1. LET x == worker'[w] IN
      /\ worker' = [worker EXCEPT ![w] = x] /\ x \in WorkerRecord
      /\ x.pc = "top" /\ x.t = worker[w].t /\ x.i = worker[w].i /\ x.failed = worker[w].failed
  BY AgainMoves, WorkerFacts
<1>2. Works(w)
  <2>1. /\ report' \in [Tasks -> [1..Rows -> RowStatus]]
        /\ \A u \in Tasks \ {worker[w].t} : report'[u] = report[u]
    BY RowChanges
  <2>2. worker'[w].i >= 1 /\ worker'[w].pc \notin {"idle"} \cup RowPcs \cup GenPcs
    BY <1>1, WorkerFacts DEF RowPcs, GenPcs
  <2> QED
    BY <1>1, <2>1, <2>2 DEF Works, Outside
<1>3. Counts(w)
  BY <1>1, RowChanges, WorkerFacts DEF Counts, Busy, IInv, Tally
<1> QED
  BY <1>1, <1>2, <1>3

LEMMA NextRowWorks ==
  ASSUME IInv, NEW w \in Workers, Busy(w), RowChange(w), Outside(w), NEW failed \in BOOLEAN, NextRow(w, failed),
         record[worker[w].t].action = "run", worker[w].i <= Rows, worker[w].steps < MaxSteps,
         failed \/ report'[worker[w].t][worker[w].i] \in Good
  PROVE  Works(w) /\ Counts(w) /\ worker'[w].pc = "top"
<1>1. LET x == worker'[w] IN
      /\ worker' = [worker EXCEPT ![w] = x] /\ x \in WorkerRecord
      /\ x.pc = "top" /\ x.t = worker[w].t /\ x.i = worker[w].i + 1 /\ x.failed = (worker[w].failed \/ failed)
  BY NextRowMoves, WorkerFacts
<1>2. Works(w)
  <2>1. /\ report' \in [Tasks -> [1..Rows -> RowStatus]]
        /\ \A u \in Tasks \ {worker[w].t} : report'[u] = report[u]
    BY RowChanges
  <2>2. worker'[w].i >= 1 /\ worker'[w].pc \notin {"idle"} \cup RowPcs \cup GenPcs
    BY <1>1, WorkerFacts DEF RowPcs, GenPcs
  <2> QED
    BY <1>1, <2>1, <2>2 DEF Works, Outside
<1>3. Counts(w)
  <2> SUFFICES ASSUME ~worker'[w].failed, NEW j \in 1..Rows, j < worker[w].i + 1
               PROVE  report'[worker[w].t][j] \in Good
    BY <1>1 DEF Counts
  <2>1. ~worker[w].failed /\ ~failed
    BY <1>1
  <2>2. j = worker[w].i \/ j < worker[w].i
    BY WorkerFacts
  <2> QED
    BY <2>1, <2>2, RowChanges, WorkerFacts DEF Busy, IInv, Tally
<1> QED
  BY <1>1, <1>2, <1>3

\* Waiting for the repository.
LEMMA WaitWorks ==
  ASSUME IInv, NEW w \in Workers, TakeLock(w) \/ LockTimeout(w)
  PROVE  Works(w) /\ Counts(w) /\ Keeps(w) /\ Typed'
<1>1. Busy(w) /\ worker[w].pc # "applied"
  BY DEF TakeLock, LockTimeout, At, Busy
<1>2. PICK p \in {"top", "generating", "raised"} :
        /\ Goes(w, p)
        /\ p = "top" => record[worker[w].t].action = "run"
        /\ p = "generating" => record[worker[w].t].action = "generate"
  BY <1>1, WorkerFacts DEF TakeLock, LockTimeout
<1>3. p \in WorkerPcs /\ p \notin RowPcs /\ p # "completed" /\ (p \in RunPcs => p = "top") /\ (p \in GenPcs => p = "generating")
  BY DEF WorkerPcs, RowPcs, RunPcs, GenPcs, Ended
<1>4. UNCHANGED <<task, runs, record, reader, up, report, torn, crossed, bounds, git>> /\ holder' \in Workers \cup {Nobody, Other}
  BY DEF TakeLock, LockTimeout, InService, files, Sound, IInv, TypeOK
<1>5. Works(w) /\ Counts(w) /\ worker'[w].pc = p
  BY <1>1, <1>2, <1>3, <1>4, GoesWorks DEF RowChange, Outside
<1>6. Keeps(w)
  BY <1>1, <1>3, <1>4, <1>5 DEF Keeps, git, RowPcs
<1>7. Typed'
  BY <1>4 DEF Typed, bounds, git, IInv, TypeOK
<1> QED
  BY <1>5, <1>6, <1>7

-----------------------------------------------------------------------------
(* One step of a worker on the current row.                                *)

OnRow(w) == worker[w].pc \in RowPcs \/ (worker[w].pc = "top" /\ worker[w].i <= Rows /\ worker[w].steps < MaxSteps)

LEMMA RowFacts ==
  ASSUME IInv, NEW w \in Workers, OnRow(w)
  PROVE  /\ Busy(w) /\ record[worker[w].t].action = "run" /\ worker[w].t \in Tasks
         /\ worker[w].i \in 1..Rows /\ worker[w].steps < MaxSteps /\ worker[w].pc \in WorkerPcs
         /\ Row(w) \in RowStatus /\ task[worker[w].t].run \in Numbers
<1>1. Busy(w) /\ worker[w].pc \in RunPcs
  BY DEF OnRow, Busy, RowPcs, RunPcs
<1>2. record[worker[w].t].action = "run" /\ worker[w].i <= Rows /\ worker[w].steps < MaxSteps
  BY <1>1 DEF OnRow, IInv, Threads
<1>3. worker[w].t \in Tasks /\ worker[w].i \in 1..Rows /\ worker[w].pc \in WorkerPcs
  BY <1>1, <1>2, WorkerFacts, Bounds DEF WorkerRecord
<1>4. Row(w) \in RowStatus
  BY <1>1, <1>3, WorkerFacts DEF Row
<1>5. task[worker[w].t].run \in Numbers
  BY <1>1, <1>2, WorkerFacts, Bounds DEF IInv, Lives, Numbers
<1> QED
  BY <1>1, <1>2, <1>3, <1>4, <1>5

\* What is left alone in a pass.
LEMMA PassFrame ==
  ASSUME IInv, NEW w \in Workers, InPass, holder' \in Workers \cup {Nobody, Other}
  PROVE  Outside(w) /\ Typed' /\ repo' = repo /\ head' = head /\ torn' = torn
BY DEF InPass, Sound, InService, files, git, bounds, Outside, Typed, IInv, TypeOK

LEMMA ReturnsHolder ==
  ASSUME IInv, NEW w \in Workers, NEW p, Returns(w, p)
  PROVE  Goes(w, p) /\ holder' \in Workers \cup {Nobody, Other}
BY DEF Returns, IInv, TypeOK

\* The rows, when the report changes in the current one at most.
LEMMA MarkFacts ==
  ASSUME IInv, NEW w \in Workers, OnRow(w), NEW s \in RowStatus, Mark(w, s)
  PROVE  RowChange(w) /\ report'[worker[w].t][worker[w].i] = s
<1>1. RowChange(w)
  BY RowFacts DEF RowChange
<1>2. report \in [Tasks -> [1..Rows -> RowStatus]] /\ worker[w].t \in Tasks /\ worker[w].i \in 1..Rows
  BY RowFacts, WorkerFacts
<1> QED
  BY <1>1, <1>2 DEF Mark

LEMMA CheckRowWorks ==
  ASSUME IInv, NEW w \in Workers, OnRow(w), worker[w].pc # "applied", torn \/ Row(w) \in {"pending", "unapplied"},
         CheckRow(w), InPass
  PROVE  Works(w) /\ Counts(w) /\ Keeps(w) /\ Typed'
<1>1. holder' \in Workers \cup {Nobody, Other}
  BY ReturnsHolder DEF CheckRow, IInv, TypeOK
<1>2. Outside(w) /\ Typed' /\ repo' = repo /\ head' = head /\ torn' = torn
  BY <1>1, PassFrame
<1>3. RowChange(w) /\ Works(w) /\ Counts(w) /\ worker'[w].pc \in {"top", "failed"}
  <2>1. CASE \E found \in {"pending", "clean", "conflict", "moot"} : Mark(w, found) /\ Again(w)
    <3>1. PICK found \in {"pending", "clean", "conflict", "moot"} : Mark(w, found) /\ Again(w)
      BY <2>1
    <3>2. found \in RowStatus
      BY DEF RowStatus, Settled
    <3> QED
      BY <1>2, <3>1, <3>2, MarkFacts, RowFacts, AgainWorks
  <2>2. CASE (Mark(w, "failed") \/ UNCHANGED report) /\ NextRow(w, TRUE)
    <3>1. RowChange(w)
      BY <2>2, MarkFacts DEF RowChange, RowStatus, Settled, Failed
    <3>2. record[worker[w].t].action = "run" /\ worker[w].i <= Rows /\ worker[w].steps < MaxSteps /\ Busy(w)
      BY RowFacts
    <3>3. NextRow(w, TRUE)
      BY <2>2
    <3>4. Works(w) /\ Counts(w) /\ worker'[w].pc = "top"
      BY <1>2, <3>1, <3>2, <3>3, NextRowWorks, Zenon
    <3> QED
      BY <3>1, <3>4
  <2>3. CASE Mark(w, "timedout") /\ Returns(w, "failed")
    <3>1. RowChange(w)
      BY <2>3, MarkFacts DEF RowChange, RowStatus, Settled, Failed
    <3>2. "failed" \in WorkerPcs \ {"idle"} /\ "failed" \notin GenPcs /\ "failed" \notin RowPcs
      BY DEF WorkerPcs, Results, Ended, GenPcs, RowPcs
    <3> QED
      BY <1>2, <2>3, <3>1, <3>2, ReturnsHolder, RowFacts, GoesWorks
  <2> QED
    BY <2>1, <2>2, <2>3 DEF CheckRow
<1>4. Keeps(w)
  <2> SUFFICES ASSUME ~torn PROVE Keeps(w)
    BY <1>2 DEF Keeps
  <2>1. \A j \in 1..Rows : report[worker[w].t][j] = "applied" => report'[worker[w].t][j] = "applied"
    BY <1>3, RowChanges, RowFacts DEF Row
  <2> QED
    BY <1>2, <1>3, <2>1 DEF Keeps
<1> QED
  BY <1>2, <1>3, <1>4

LEMMA ChecksWorks ==
  ASSUME IInv, NEW w \in Workers, Checks(w) \/ Rechecks(w)
  PROVE  Works(w) /\ Counts(w) /\ Keeps(w) /\ Typed'
<1>1. OnRow(w) /\ worker[w].pc # "applied"
  BY DEF Checks, Rechecks, Pass, MoreToDo, At, OnRow, RowPcs
<1>2. torn \/ Row(w) \in {"pending", "unapplied"}
  BY DEF Checks, Rechecks, At, IInv, Committed
<1> QED
  BY <1>1, <1>2, CheckRowWorks DEF Checks, Rechecks

\* A step to another point of the pass, or out of it.
LEMMA Leads ==
  ASSUME IInv, NEW w \in Workers, OnRow(w), RowChange(w), Outside(w), NEW p \in {"apply", "recheck", "failed", "raised", "applied"},
         Goes(w, p)
  PROVE  Works(w) /\ Counts(w) /\ worker'[w].pc = p /\ worker'[w].i = worker[w].i
<1>1. Busy(w) /\ record[worker[w].t].action = "run" /\ worker[w].i <= Rows /\ worker[w].steps < MaxSteps
  BY RowFacts
<1>2. p \in WorkerPcs \ {"idle"} /\ p \notin GenPcs /\ p # "completed"
  BY DEF WorkerPcs, Results, Ended, GenPcs
<1> QED
  BY <1>1, <1>2, GoesWorks

\* A step to the next row, which has failed, or is done.
LEMMA LeadsOn ==
  ASSUME IInv, NEW w \in Workers, OnRow(w), RowChange(w), Outside(w), NEW failed \in BOOLEAN, NextRow(w, failed),
         failed \/ report'[worker[w].t][worker[w].i] \in Good
  PROVE  Works(w) /\ Counts(w) /\ worker'[w].pc = "top"
<1>1. Busy(w) /\ record[worker[w].t].action = "run" /\ worker[w].i <= Rows /\ worker[w].steps < MaxSteps
  BY RowFacts
<1> QED
  BY <1>1, NextRowWorks

LEMMA LeadsOnFailed ==
  ASSUME IInv, NEW w \in Workers, OnRow(w), RowChange(w), Outside(w), NextRow(w, TRUE)
  PROVE  Works(w) /\ Counts(w) /\ worker'[w].pc = "top"
BY LeadsOn, Zenon

LEMMA LeadsOnDone ==
  ASSUME IInv, NEW w \in Workers, OnRow(w), RowChange(w), Outside(w), NextRow(w, FALSE),
         report'[worker[w].t][worker[w].i] \in Good
  PROVE  Works(w) /\ Counts(w) /\ worker'[w].pc = "top"
BY LeadsOn, Zenon

LEMMA PassOnRow ==
  ASSUME NEW w \in Workers, Pass(w)
  PROVE  OnRow(w) /\ worker[w].pc = "top"
BY DEF Pass, MoreToDo, At, OnRow

\* The rows keep what is applied, when the current one is not.
LEMMA KeepsRows ==
  ASSUME IInv, NEW w \in Workers, OnRow(w), RowChange(w), Row(w) # "applied"
  PROVE  \A j \in 1..Rows : report[worker[w].t][j] = "applied" => report'[worker[w].t][j] = "applied"
BY RowChanges, RowFacts DEF Row

LEMMA SkipsWorks ==
  ASSUME IInv, NEW w \in Workers, Skips(w)
  PROVE  Works(w) /\ Counts(w) /\ Keeps(w) /\ Typed'
<1>1. OnRow(w) /\ worker[w].pc = "top" /\ Row(w) \in Settled /\ report' = report /\ NextRow(w, Row(w) \in Failed)
  BY PassOnRow DEF Skips
<1>2. Outside(w) /\ Typed' /\ repo' = repo /\ head' = head /\ torn' = torn
  BY PassFrame DEF Skips, IInv, TypeOK
<1>3. RowChange(w)
  BY <1>1 DEF RowChange
<1>4. Works(w) /\ Counts(w) /\ worker'[w].pc = "top"
  <2>1. (Row(w) \in Failed) \in BOOLEAN
    BY SMT
  <2>2. Row(w) \in Failed \/ report'[worker[w].t][worker[w].i] \in Good
    BY <1>1 DEF Settled, Good, Row
  <2> QED
    BY <1>1, <1>2, <1>3, <2>1, <2>2, LeadsOn
<1>5. Keeps(w)
  BY <1>1, <1>2, <1>4 DEF Keeps
<1> QED
  BY <1>2, <1>4, <1>5

LEMMA ResolvesWorks ==
  ASSUME IInv, NEW w \in Workers, Resolves(w)
  PROVE  Works(w) /\ Counts(w) /\ Keeps(w) /\ Typed'
<1>1. OnRow(w) /\ worker[w].pc = "top" /\ Row(w) = "conflict"
  BY PassOnRow DEF Resolves
<1>2. holder' \in Workers \cup {Nobody, Other}
  BY ReturnsHolder DEF Resolves, IInv, TypeOK
<1>3. Outside(w) /\ Typed' /\ repo' = repo /\ head' = head /\ torn' = torn
  BY <1>2, PassFrame DEF Resolves
<1>4. {"clean", "moot", "failed"} \subseteq RowStatus
  BY DEF RowStatus, Settled, Failed
<1>5. RowChange(w)
  BY <1>1, <1>4, MarkFacts DEF Resolves, RowChange
<1>6. /\ Works(w) /\ Counts(w) /\ worker'[w].pc \in {"top", "apply", "failed"}
      /\ worker'[w].pc = "apply" => report'[worker[w].t][worker'[w].i] = "clean"
  <2>1. CASE Mark(w, "clean") /\ Goes(w, "apply")
    BY <1>1, <1>3, <1>4, <1>5, <2>1, MarkFacts, Leads
  <2>2. CASE Mark(w, "moot") /\ NextRow(w, FALSE)
    BY <1>1, <1>3, <1>4, <1>5, <2>2, MarkFacts, LeadsOnDone DEF Good
  <2>3. CASE Mark(w, "failed") /\ NextRow(w, TRUE)
    BY <1>1, <1>3, <1>5, <2>3, LeadsOnFailed
  <2>4. CASE UNCHANGED report /\ Returns(w, "failed")
    BY <1>1, <1>3, <1>5, <2>4, ReturnsHolder, Leads
  <2> QED
    BY <2>1, <2>2, <2>3, <2>4 DEF Resolves
<1>7. Keeps(w)
  BY <1>1, <1>3, <1>5, <1>6, KeepsRows DEF Keeps
<1> QED
  BY <1>3, <1>6, <1>7

-----------------------------------------------------------------------------
(* The application of a row.                                               *)

\* What the report and task.json become with the row.
LEMMA SavesFacts ==
  ASSUME IInv, NEW w \in Workers, OnRow(w), NEW s \in RowStatus, Saves(w, s), InApply
  PROVE  RowChange(w) /\ Outside(w) /\ report'[worker[w].t][worker[w].i] = s
<1>1. RowChange(w) /\ report'[worker[w].t][worker[w].i] = s
  BY MarkFacts DEF Saves
<1>2. "running" \in TaskStatus \ {"none"}
  BY DEF TaskStatus, RunStatus
<1> QED
  BY <1>1, <1>2 DEF Saves, Outside, InApply, Sound

LEMMA ApplyFrame ==
  ASSUME IInv, InApply, holder' \in Workers \cup {Nobody, Other}
  PROVE  Typed' /\ repo' = repo /\ head' = head /\ torn' = torn
BY DEF InApply, Sound, git, bounds, Typed, IInv, TypeOK

LEMMA WritesWorks ==
  ASSUME IInv, NEW w \in Workers, Writes(w)
  PROVE  Works(w) /\ Counts(w) /\ Keeps(w) /\ Typed'
<1>1. OnRow(w) /\ worker[w].pc = "applied" /\ Saves(w, "applied") /\ NextRow(w, FALSE) /\ InApply /\ holder' = holder
  BY DEF Writes, At, OnRow, RowPcs
<1>2. "applied" \in RowStatus
  BY DEF RowStatus, Settled
<1>3. RowChange(w) /\ Outside(w) /\ report'[worker[w].t][worker[w].i] = "applied"
  BY <1>1, <1>2, SavesFacts
<1>4. Works(w) /\ Counts(w) /\ worker'[w].pc = "top"
  BY <1>1, <1>3, LeadsOnDone DEF Good
<1>5. Typed' /\ repo' = repo /\ head' = head /\ torn' = torn
  BY <1>1, ApplyFrame DEF IInv, TypeOK
<1>6. Keeps(w)
  <2>1. \A j \in 1..Rows : report[worker[w].t][j] = "applied" => report'[worker[w].t][j] = "applied"
    BY <1>1, <1>3, RowChanges, RowFacts
  <2> QED
    BY <1>3, <1>4, <1>5, <2>1 DEF Keeps
<1> QED
  BY <1>4, <1>5, <1>6

LEMMA MissesWorks ==
  ASSUME IInv, NEW w \in Workers, OnRow(w), RowChange(w), Outside(w), Misses(w)
  PROVE  /\ Works(w) /\ Counts(w) /\ worker'[w].pc \in {"top", "recheck"}
         /\ worker'[w].pc = "recheck" => Row(w) = "pending" /\ worker'[w].i = worker[w].i
<1>1. CASE Row(w) = "pending"
  <2>1. Goes(w, "recheck")
    BY <1>1 DEF Misses
  <2> QED
    BY <1>1, <2>1, Leads
<1>2. CASE Row(w) # "pending"
  <2>1. NextRow(w, TRUE)
    BY <1>2 DEF Misses
  <2> QED
    BY <2>1, LeadsOnFailed
<1> QED
  BY <1>1, <1>2

LEMMA LosesWorks ==
  ASSUME IInv, NEW w \in Workers, Loses(w)
  PROVE  Works(w) /\ Counts(w) /\ Keeps(w) /\ Typed'
<1>1. OnRow(w) /\ Misses(w) /\ torn' = TRUE /\ RowChange(w) /\ Outside(w)
  BY DEF Loses, At, OnRow, RowPcs, RowChange, Outside, InService, files, Faulty
<1>2. Typed'
  BY Bounds DEF Loses, Faulty, git, Typed, IInv, TypeOK
<1> QED
  BY <1>1, <1>2, MissesWorks DEF Keeps

LEMMA AppliesOnRow ==
  ASSUME IInv, NEW w \in Workers, Applies(w)
  PROVE  OnRow(w) /\ worker[w].pc \in {"top", "apply"} /\ (torn \/ Row(w) \in {"pending", "clean"})
<1>1. CASE Pass(w) /\ Row(w) \in {"pending", "clean"}
  BY <1>1, PassOnRow
<1>2. CASE At(w, "apply")
  BY <1>2 DEF At, OnRow, RowPcs, IInv, Committed
<1> QED
  BY <1>1, <1>2 DEF Applies

LEMMA NotAppliedWorks ==
  ASSUME IInv, NEW w \in Workers, NotApplied(w)
  PROVE  Works(w) /\ Counts(w) /\ Keeps(w) /\ Typed'
<1>1. OnRow(w) /\ worker[w].pc \in {"top", "apply"} /\ (torn \/ Row(w) \in {"pending", "clean"}) /\ InApply
  BY AppliesOnRow DEF NotApplied
<1>2. holder' \in Workers \cup {Nobody, Other}
  BY ReturnsHolder DEF NotApplied, IInv, TypeOK
<1>3. Typed' /\ repo' = repo /\ head' = head /\ torn' = torn
  BY <1>1, <1>2, ApplyFrame
<1>4. ASSUME UNCHANGED <<task, report>>
      PROVE  RowChange(w) /\ Outside(w)
  BY <1>1, <1>4 DEF RowChange, Outside, InApply, Sound
<1>5. /\ RowChange(w) /\ Works(w) /\ Counts(w) /\ worker'[w].pc \in {"top", "recheck", "failed"}
      /\ worker'[w].pc = "recheck" =>
           worker'[w].i = worker[w].i /\ report'[worker[w].t][worker[w].i] \in {"pending", "unapplied"}
  <2>1. CASE Saves(w, IF Row(w) = "pending" THEN "unapplied" ELSE "failed") /\ Misses(w)
    <3>1. (IF Row(w) = "pending" THEN "unapplied" ELSE "failed") \in RowStatus
      BY DEF RowStatus, Settled, Failed
    <3>2. /\ RowChange(w) /\ Outside(w)
          /\ report'[worker[w].t][worker[w].i] = IF Row(w) = "pending" THEN "unapplied" ELSE "failed"
      BY <1>1, <2>1, <3>1, SavesFacts
    <3> QED
      BY <1>1, <2>1, <3>2, MissesWorks
  <2>4. CASE Saves(w, "error") /\ NextRow(w, FALSE)
    <3>1. "error" \in RowStatus
      BY DEF RowStatus, Settled, Failed
    <3>2. RowChange(w) /\ Outside(w) /\ report'[worker[w].t][worker[w].i] = "error"
      BY <1>1, <2>4, <3>1, SavesFacts
    <3> QED
      BY <1>1, <2>4, <3>2, LeadsOnDone DEF Good
  <2>2. CASE UNCHANGED <<task, report>> /\ Misses(w)
    BY <1>1, <1>4, <2>2, MissesWorks DEF Row
  <2>3. CASE UNCHANGED <<task, report>> /\ Returns(w, "failed")
    BY <1>1, <1>4, <2>3, ReturnsHolder, Leads
  <2> QED
    BY <2>1, <2>2, <2>3, <2>4 DEF NotApplied
<1>6. Keeps(w)
  <2> SUFFICES ASSUME ~torn PROVE Keeps(w)
    BY <1>3 DEF Keeps
  <2>1. \A j \in 1..Rows : report[worker[w].t][j] = "applied" => report'[worker[w].t][j] = "applied"
    BY <1>1, <1>5, KeepsRows
  <2>2. worker'[w].t = worker[w].t
    BY <1>5 DEF Works
  <2> QED
    BY <1>1, <1>3, <1>5, <2>1, <2>2 DEF Keeps
<1> QED
  BY <1>3, <1>5, <1>6

-----------------------------------------------------------------------------
(* The other steps of a worker.                                            *)

LEMMA GeneratedWorks ==
  ASSUME IInv, NEW w \in Workers, Generated(w)
  PROVE  Works(w) /\ Counts(w) /\ Keeps(w) /\ Typed'
<1> DEFINE t == worker[w].t
<1>1. Busy(w) /\ worker[w].pc = "generating" /\ record[t].action = "generate" /\ worker[w].i = 1 /\ t \in Tasks
  BY DEF Generated, At, Busy, GenPcs, IInv, Threads
<1>2. PICK p \in {"ready", "generation_failed"} :
        /\ Returns(w, p)
        /\ \/ /\ task' = [task EXCEPT ![t].status = "ready"]
              /\ report' = [report EXCEPT ![t] = [i \in 1..Rows |-> "pending"]]
           \/ UNCHANGED <<task, report>>
  BY DEF Generated
<1>3. Goes(w, p) /\ holder' \in Workers \cup {Nobody, Other}
  BY <1>2, ReturnsHolder
<1>4. p \in WorkerPcs /\ p \notin RowPcs /\ p \notin RunPcs /\ p # "completed" /\ p # "idle"
  BY DEF WorkerPcs, Results, Ended, RowPcs, RunPcs
<1>5. /\ UNCHANGED <<runs, record, reader, up, repo, others, head, torn, crossed, stops, faults>>
  BY DEF Generated, Sound, git, bounds
<1>6. LET x == worker'[w] IN
      /\ worker' = [worker EXCEPT ![w] = x] /\ x \in WorkerRecord
      /\ x.pc = p /\ x.t = t /\ x.i = 1 /\ x.steps = worker[w].steps /\ x.failed = worker[w].failed
  BY <1>1, <1>3, <1>4, GoesMoves, WorkerFacts
<1>7. /\ report' \in [Tasks -> [1..Rows -> RowStatus]]
      /\ \A u \in Tasks \ {t} : report'[u] = report[u]
  BY <1>1, <1>2, WorkerFacts DEF RowStatus
<1>8. task' = task \/ \E s \in TaskStatus \ {"none"} : task' = [task EXCEPT ![t].status = s]
  BY <1>2 DEF TaskStatus, RunStatus
<1>9. Works(w)
  <2>1. torn => torn'
    BY <1>5
  <2>2. worker'[w].pc \in GenPcs => record[t].action = "generate"
    BY <1>1
  <2>3. worker'[w].pc \notin RunPcs \cup RowPcs \cup {"idle"} /\ worker'[w].t = worker[w].t /\ worker'[w].i >= 1
    BY <1>4, <1>6
  <2> QED
    BY <1>5, <1>6, <1>7, <1>8, <2>1, <2>2, <2>3 DEF Works
<1>10. Counts(w)
  BY <1>4, <1>6 DEF Counts
<1>11. Keeps(w)
  <2> SUFFICES ASSUME ~torn PROVE Keeps(w)
    BY <1>5 DEF Keeps
  <2>1. \A j \in 1..Rows : repo[t][j] = 0
    BY <1>1, WorkerFacts DEF IInv, Lives, Committed, Working
  <2> QED
    BY <1>1, <1>4, <1>5, <1>6, <2>1 DEF Keeps, RowPcs
<1>12. Typed'
  BY <1>3, <1>5 DEF Typed, IInv, TypeOK
<1> QED
  BY <1>9, <1>10, <1>11, <1>12

LEMMA RaisesWorks ==
  ASSUME IInv, NEW w \in Workers, Raises(w)
  PROVE  Works(w) /\ Counts(w) /\ Keeps(w) /\ Typed'
<1>1. Busy(w) /\ Goes(w, "raised") /\ holder' \in Workers \cup {Nobody, Other}
  BY ReturnsHolder DEF Raises, Busy
<1>2. UNCHANGED <<task, runs, record, reader, up, crossed, report, repo, others, head, stops>> /\ torn' = (torn \/ worker[w].pc = "applied")
  BY DEF Raises, InService, files, git, Faulty
<1>3. RowChange(w) /\ Outside(w)
  BY <1>2 DEF RowChange, Outside
<1>4. "raised" \in WorkerPcs \ {"idle"} /\ "raised" \notin RunPcs \cup GenPcs \cup RowPcs
  BY DEF WorkerPcs, RunPcs, GenPcs, RowPcs, Ended
<1>5. Works(w) /\ Counts(w) /\ worker'[w].pc = "raised"
  BY <1>1, <1>3, <1>4, GoesWorks
<1>6. torn' \in BOOLEAN /\ faults' \in 0..MaxFaults
  <2>1. faults' \in 0..MaxFaults
    BY Bounds DEF Raises, Faulty, IInv, TypeOK
  <2>2. torn' \in BOOLEAN
    BY <1>2, SMT
  <2> QED
    BY <2>1, <2>2
<1>7. Typed'
  BY <1>1, <1>2, <1>6 DEF Typed, IInv, TypeOK
<1>8. Keeps(w)
  BY <1>2, <1>5 DEF Keeps
<1> QED
  BY <1>5, <1>7, <1>8

LEMMA EndsWorks ==
  ASSUME IInv, NEW w \in Workers, LoopEnds(w) \/ Pauses(w)
  PROVE  Works(w) /\ Counts(w) /\ Keeps(w) /\ Typed'
<1>1. Busy(w) /\ worker[w].pc = "top" /\ record[worker[w].t].action = "run"
  BY DEF LoopEnds, Pauses, MoreToDo, At, Busy, RunPcs, IInv, Threads
<1>2. PICK p \in {"failed", "completed_with_failures", "completed", "paused"} :
        Returns(w, p) /\ (p = "completed" => ~worker[w].failed /\ ~(worker[w].i <= Rows))
  BY DEF LoopEnds, Pauses
<1>3. Goes(w, p) /\ holder' \in Workers \cup {Nobody, Other}
  BY <1>2, ReturnsHolder
<1>4. /\ UNCHANGED <<task, runs, record, reader, up, report, repo, others, head, torn, crossed, stops, faults>>
  BY DEF LoopEnds, Pauses, InService, files, git, Sound, bounds
<1>5. RowChange(w) /\ Outside(w)
  BY <1>4 DEF RowChange, Outside
<1>6. p \in WorkerPcs \ {"idle"} /\ p \notin GenPcs \cup RowPcs
  BY DEF WorkerPcs, Results, GenPcs, RowPcs, Ended
<1>7. Works(w) /\ Counts(w) /\ worker'[w].pc = p
  <2>1. p = "completed" => worker[w].i > Rows
    BY <1>1, <1>2, WorkerFacts, Bounds
  <2> QED
    BY <1>1, <1>2, <1>3, <1>5, <1>6, <2>1, GoesWorks
<1>8. Typed'
  BY <1>3, <1>4 DEF Typed, IInv, TypeOK
<1>9. Keeps(w)
  BY <1>1, <1>4, <1>6, <1>7 DEF Keeps, RowPcs
<1> QED
  BY <1>7, <1>8, <1>9

\* The commit itself: the row has none yet, and no other worker is at it.
LEMMA CommitsWorks ==
  ASSUME IInv, NEW w \in Workers, Commits(w)
  PROVE  Works(w) /\ Counts(w) /\ Committed' /\ Typed'
<1> DEFINE t == worker[w].t
           i == worker[w].i
<1>1. /\ OnRow(w) /\ worker[w].pc \in {"top", "apply"} /\ (torn \/ Row(w) \in {"pending", "clean"})
      /\ Busy(w) /\ t \in Tasks /\ i \in 1..Rows /\ record[t].action = "run" /\ task[t].run \in Numbers
  BY AppliesOnRow, RowFacts DEF Commits
<1>2. UNCHANGED <<task, runs, record, reader, up, report, others, torn, crossed, stops, faults, holder>>
  BY DEF Commits, InService, files, Sound, bounds
<1>3. repo' = [repo EXCEPT ![t][i] = @ + 1] /\ head' = head + 1
  BY DEF Commits
<1>4. RowChange(w) /\ Outside(w)
  BY <1>2 DEF RowChange, Outside
<1>5. Works(w) /\ Counts(w) /\ worker'[w].pc = "applied" /\ worker'[w].i = i
  BY <1>1, <1>4, Leads DEF Commits
<1>6. repo' \in [Tasks -> [1..Rows -> Nat]] /\ head \in Nat /\ head' \in Nat
  <2>1. repo \in [Tasks -> [1..Rows -> Nat]] /\ head \in Nat
    BY DEF IInv, TypeOK
  <2>2. repo[t] \in [1..Rows -> Nat] /\ repo[t][i] \in Nat /\ repo[t][i] + 1 \in Nat
    <3>1. repo[t] \in [1..Rows -> Nat]
      BY <1>1, <2>1
    <3>2. repo[t][i] \in Nat
      BY <1>1, <3>1
    <3> QED
      BY <3>1, <3>2
  <2>3. [repo[t] EXCEPT ![i] = @ + 1] \in [1..Rows -> Nat]
    BY <1>1, <2>2
  <2> QED
    BY <1>1, <1>3, <2>1, <2>3
<1>7. Typed'
  BY <1>2, <1>6 DEF Typed, IInv, TypeOK
<1>8. Committed'
  <2> SUFFICES ASSUME ~torn PROVE Committed'
    BY <1>2 DEF Committed
  <2>1. worker'[w].t = t /\ worker' = [worker EXCEPT ![w] = worker'[w]]
    BY <1>5 DEF Works
  <2>2. \A v \in Workers : v # w => worker'[v] = worker[v]
    BY <2>1, <1>1, WorkerFacts
  <2>3. \A v \in Workers : worker'[v].t = worker[v].t
    BY <2>1, <2>2
  <2>4. \A v \in Workers : v # w /\ Busy(v) => worker[v].t # t
    BY <1>1 DEF IInv, Threads, OneWorker, Busy, Idle
  <2>5. repo[t][i] = 0
    <3>1. ~Lost(t)
      BY DEF Lost
    <3>2. report[t][i] # "applied"
      BY <1>1 DEF Row
    <3>3. \A v \in Workers : ~(worker[v].pc = "applied" /\ worker[v].t = t /\ worker[v].i = i)
      BY <1>1, <2>4 DEF Busy
    <3> QED
      BY <1>1, <3>1, <3>2, <3>3 DEF IInv, Committed
  <2>6. \A u \in Tasks : \A j \in 1..Rows : (u = t /\ j = i /\ repo'[u][j] = 1) \/ repo'[u][j] = repo[u][j]
    BY <1>1, <1>3, <2>5 DEF IInv, TypeOK
  <2>7. AppliedOnce'
    BY <2>6 DEF AppliedOnce, IInv, Committed
  <2>8. \A u \in Tasks : Current(u)' = Current(u)
    BY <1>2 DEF Current
  <2>9. \A u \in Tasks : \A n \in Numbers : runs[u][n].head <= head /\ runs[u][n].head \in Nat
    BY DEF IInv, TypeOK, Committed
  <2>14. \A u \in Tasks : task[u].run \in Numbers =>
            Current(u).head \in Nat /\ Current(u).head <= head /\ Current(u).head < head'
    <3> SUFFICES ASSUME NEW u \in Tasks, task[u].run \in Numbers
                 PROVE  Current(u).head \in Nat /\ Current(u).head <= head /\ Current(u).head < head'
      OBVIOUS
    <3>1. Current(u) = runs[u][task[u].run]
      BY Bounds DEF Current, Numbers
    <3>2. Current(u).head \in Nat /\ Current(u).head <= head
      BY <2>9, <3>1
    <3> QED
      BY <1>3, <1>6, <3>2
  <2>15. \A r \in Readers : reader[r].pc = "stale" => reader[r].head \in Nat /\ reader[r].head <= head /\ reader[r].head < head'
    <3> SUFFICES ASSUME NEW r \in Readers, reader[r].pc = "stale"
                 PROVE  reader[r].head \in Nat /\ reader[r].head <= head /\ reader[r].head < head'
      OBVIOUS
    <3>1. reader[r].head \in Nat /\ reader[r].head <= head
      BY DEF IInv, TypeOK, Committed
    <3> QED
      BY <1>3, <1>6, <3>1
  <2>16. \A u \in Tasks : task[u].run \in Numbers => Behind(u)'
    BY <1>2, <2>8, <2>14, <2>15 DEF Behind
  <2>10. \A u \in Tasks : \A j \in 1..Rows : repo'[u][j] = 0 \/ report'[u][j] = "applied" \/ Lost(u)'
           \/ \E v \in Workers : worker'[v].pc = "applied" /\ worker'[v].t = u /\ worker'[v].i = j
    <3> SUFFICES ASSUME NEW u \in Tasks, NEW j \in 1..Rows, repo[u][j] # 0
                 PROVE  report'[u][j] = "applied" \/ Lost(u)'
           \/ \E v \in Workers : worker'[v].pc = "applied" /\ worker'[v].t = u /\ worker'[v].i = j
      BY <1>5, <2>1, <2>6
    <3>1. CASE report[u][j] = "applied"
      BY <1>2, <3>1
    <3>2. CASE Lost(u)
      <4>1. Current(u).status \in {"running", "interrupted"}
        BY <3>2 DEF Lost
      <4>2. task[u].run \in Numbers
        <5>1. task[u].run \in 0..MaxRuns
          BY DEF IInv, TypeOK
        <5> QED
          BY <4>1, <5>1, Bounds DEF Current, Absent, Numbers
      <4> QED
        BY <2>3, <2>8, <2>16, <3>2, <4>1, <4>2 DEF Lost
    <3>3. CASE \E v \in Workers : worker[v].pc = "applied" /\ worker[v].t = u /\ worker[v].i = j
      BY <1>1, <2>2, <3>3
    <3> QED
      BY <3>1, <3>2, <3>3 DEF IInv, Committed
  <2>11. \A u \in Tasks : \A n \in Numbers : runs'[u][n].head <= head'
    BY <1>2, <1>3, <1>6, <2>9
  <2>12. \A u \in Tasks : task'[u].run = 0 => \A j \in 1..Rows : repo'[u][j] = 0
    BY <1>1, <1>2, <2>6, Bounds DEF IInv, Committed, Numbers
  <2>13. ASSUME NEW v \in Workers
         PROVE  /\ worker'[v].pc = "apply" => Row(v)' = "clean"
                /\ worker'[v].pc = "applied" => Row(v)' \in {"pending", "clean"} /\ Behind(worker[v].t)'
                /\ worker'[v].pc = "recheck" => Row(v)' \in {"pending", "unapplied"}
    <3>1. CASE v = w
      <4>1. Row(v)' = Row(v)
        BY <1>2, <1>5, <2>1, <3>1 DEF Row
      <4>2. worker'[v].t \in Tasks /\ task[worker'[v].t].run \in Numbers
        BY <1>1, <2>1, <3>1
      <4>3. Behind(worker[v].t)'
        BY <2>16, <4>2
      <4> QED
        BY <1>1, <1>5, <3>1, <4>1, <4>3
    <3>2. CASE v # w
      <4>1. worker'[v] = worker[v] /\ Row(v)' = Row(v)
        BY <1>2, <2>2, <3>2 DEF Row
      <4>2. /\ worker[v].pc = "apply" => Row(v) = "clean"
            /\ worker[v].pc = "applied" => Row(v) \in {"pending", "clean"} /\ Behind(worker[v].t)
            /\ worker[v].pc = "recheck" => Row(v) \in {"pending", "unapplied"}
        BY DEF IInv, Committed
      <4>3. worker[v].pc = "applied" => Behind(worker[v].t)'
        <5> SUFFICES ASSUME worker[v].pc = "applied" PROVE Behind(worker[v].t)'
          OBVIOUS
        <5>1. OnRow(v)
          BY DEF OnRow, RowPcs
        <5>2. worker[v].t \in Tasks /\ task[worker[v].t].run \in Numbers
          BY <5>1, RowFacts
        <5> QED
          BY <2>3, <2>16, <5>2
      <4> QED
        BY <4>1, <4>2, <4>3
    <3> QED
      BY <3>1, <3>2
  <2> QED
    <3>1. \A r \in Readers : reader'[r].pc = "stale" => reader'[r].head <= head'
      BY <1>2, <1>6, <2>15
    <3> QED
      BY <2>3, <2>7, <2>10, <2>11, <2>12, <2>13, <3>1 DEF Committed
<1> QED
  BY <1>5, <1>7, <1>8

-----------------------------------------------------------------------------
(* What such a step keeps.                                                 *)

\* The facts about a step that the invariants need.
LEMMA WorksFacts ==
  ASSUME IInv, NEW w \in Workers, Busy(w), Works(w)
  PROVE  /\ worker[w].t \in Tasks /\ Working(worker[w].t) /\ up
         /\ \A v \in Workers : v # w => worker'[v] = worker[v]
         /\ \A v \in Workers : worker'[v].t = worker[v].t /\ Busy(v)' = Busy(v)
         /\ \A v \in Workers : v # w /\ Busy(v) => worker[v].t # worker[w].t
         /\ \A u \in Tasks : u # worker[w].t => task'[u] = task[u] /\ report'[u] = report[u]
         /\ \A u \in Tasks : task'[u].run = task[u].run /\ Current(u)' = Current(u)
         /\ \A u \in Tasks : task'[u].status = "none" => task[u].status = "none"
<1>1. worker[w].t \in Tasks /\ Working(worker[w].t) /\ up
  BY DEF IInv, Threads
<1>2. \A v \in Workers : v # w => worker'[v] = worker[v]
  BY WorkerFacts DEF Works
<1>3. \A v \in Workers : worker'[v].t = worker[v].t /\ Busy(v)' = Busy(v)
  BY <1>2 DEF Works, Busy
<1>4. \A v \in Workers : v # w /\ Busy(v) => worker[v].t # worker[w].t
  BY DEF IInv, Threads, OneWorker, Busy, Idle
<1>5. task \in [Tasks -> [status : TaskStatus, run : 0..MaxRuns]]
  BY DEF IInv, TypeOK
<1>6. /\ \A u \in Tasks : u # worker[w].t => task'[u] = task[u] /\ report'[u] = report[u]
      /\ \A u \in Tasks : task'[u].run = task[u].run
      /\ \A u \in Tasks : task'[u].status = "none" => task[u].status = "none"
  <2>1. \A u \in Tasks : u # worker[w].t => report'[u] = report[u]
    BY DEF Works
  <2>2. CASE task' = task
    BY <2>1, <2>2
  <2>3. ASSUME NEW s \in TaskStatus \ {"none"}, task' = [task EXCEPT ![worker[w].t].status = s]
        PROVE  /\ \A u \in Tasks : u # worker[w].t => task'[u] = task[u]
               /\ \A u \in Tasks : task'[u].run = task[u].run
               /\ \A u \in Tasks : task'[u].status = "none" => task[u].status = "none"
    <3>1. \A u \in Tasks : task'[u] = IF u = worker[w].t THEN [task[u] EXCEPT !.status = s] ELSE task[u]
      BY <1>5, <2>3
    <3>2. \A u \in Tasks : task[u] \in [status : TaskStatus, run : 0..MaxRuns]
      BY <1>5
    <3> QED
      BY <3>1, <3>2
  <2> QED
    BY <2>1, <2>2, <2>3 DEF Works
<1>7. \A u \in Tasks : Current(u)' = Current(u)
  BY <1>6 DEF Works, Current
<1> QED
  BY <1>1, <1>2, <1>3, <1>4, <1>6, <1>7

LEMMA WorksTypes ==
  ASSUME IInv, NEW w \in Workers, Busy(w), Works(w), Typed'
  PROVE  TypeOK'
<1>1. task' \in [Tasks -> [status : TaskStatus, run : 0..MaxRuns]]
  <2>1. task \in [Tasks -> [status : TaskStatus, run : 0..MaxRuns]] /\ worker[w].t \in Tasks
    BY WorkerFacts DEF IInv, TypeOK
  <2>2. ASSUME NEW s \in TaskStatus
        PROVE  [task EXCEPT ![worker[w].t].status = s] \in [Tasks -> [status : TaskStatus, run : 0..MaxRuns]]
    BY <2>1
  <2> QED
    BY <2>1, <2>2 DEF Works
<1>2. worker' \in [Workers -> WorkerRecord]
  BY WorkerFacts DEF Works
<1>3. /\ runs' \in [Tasks -> [Numbers -> [status : RunStatus, head : Nat]]]
      /\ report' \in [Tasks -> [1..Rows -> RowStatus]]
      /\ record' \in [Tasks -> [action : {"none", "generate", "run"}, pause : BOOLEAN,
                                status : {"none", "running", "success", "paused", "failed"}]]
      /\ reader' \in [Readers -> [pc : {"idle", "looked", "stale", "half"}, t : Tasks \cup {"none"},
                                  n : 0..MaxRuns, head : Nat]]
      /\ up' \in BOOLEAN
  BY DEF Works, IInv, TypeOK
<1>4. crossed' \subseteq Tasks
  BY DEF Works, IInv, TypeOK
<1> QED
  BY <1>1, <1>2, <1>3, <1>4 DEF TypeOK, Typed, WorkerRecord

LEMMA WorksThreads ==
  ASSUME IInv, NEW w \in Workers, Busy(w), Works(w)
  PROVE  Threads'
<1>1. \A v \in Workers : ~Busy(v)' => worker'[v] = Idle
  BY WorksFacts DEF IInv, Threads
<1>2. ASSUME NEW v \in Workers, Busy(v)'
      PROVE  /\ up' /\ worker'[v].t \in Tasks /\ Working(worker[v].t)' /\ worker'[v].i >= 1
             /\ record'[worker'[v].t].action # "none"
             /\ record'[worker'[v].t].action = "generate" => worker'[v].i = 1
             /\ worker'[v].pc \in RunPcs => record'[worker'[v].t].action = "run"
             /\ worker'[v].pc \in GenPcs => record'[worker'[v].t].action = "generate"
             /\ worker'[v].pc \in RowPcs => worker'[v].i <= Rows /\ worker'[v].steps < MaxSteps
  <2>1. record' = record /\ up' = up
    BY DEF Works
  <2>2. CASE v = w
    BY <2>1, <2>2, WorksFacts DEF Works, IInv, Threads, Working
  <2>3. CASE v # w
    <3>1. worker'[v] = worker[v] /\ Busy(v)
      BY <1>2, <2>3, WorksFacts
    <3> QED
      BY <2>1, <3>1 DEF IInv, Threads, Working
  <2> QED
    BY <2>2, <2>3
<1>3. OneWorker'
  <2>1. \A v \in Workers : worker'[v] # Idle => worker[v] # Idle
    BY <1>1, WorksFacts DEF Busy, Idle
  <2> QED
    BY <2>1, WorksFacts DEF OneWorker, IInv, Threads
<1> QED
  BY <1>1, <1>2, <1>3 DEF Threads

LEMMA WorksLives ==
  ASSUME IInv, NEW w \in Workers, Busy(w), Works(w)
  PROVE  Lives' /\ Listings'
<1>1. runs' = runs /\ record' = record /\ reader' = reader /\ up' = up /\ crossed' = crossed /\ (torn => torn')
  BY DEF Works
<1>2. /\ \A u \in Tasks : Working(u)' = Working(u) /\ task'[u].run = task[u].run /\ Current(u)' = Current(u)
      /\ \A u \in Tasks : task'[u].status = "none" => task[u].status = "none"
  BY <1>1, WorksFacts DEF Working
<1>3. \A v \in Workers : worker'[v].t = worker[v].t /\ Busy(v)' = Busy(v)
  BY WorksFacts
<1>4. Lives'
  <2>1. ASSUME NEW v \in Workers, Busy(v), record[worker[v].t].action = "run"
        PROVE  /\ task'[worker[v].t].run > 0 /\ Current(worker[v].t)'.status \in {"running", "interrupted"}
               /\ worker[v].t \notin crossed => Current(worker[v].t)'.status = "running"
    <3>1. worker[v].t \in Tasks
      BY <2>1 DEF IInv, Threads
    <3> QED
      BY <1>2, <1>3, <2>1, <3>1 DEF IInv, Lives
  <2>2. \A u \in Tasks : task'[u].status = "none" => task'[u].run = 0 /\ ~Working(u)'
    BY <1>2 DEF IInv, Lives
  <2>3. \A u \in Tasks : Working(u)' /\ record'[u].action = "generate" => task'[u].run = 0
    BY <1>1, <1>2 DEF IInv, Lives
  <2>4. \A u \in Tasks : \A n \in Numbers : n > task'[u].run => runs'[u][n].status \in {"none", "running"}
    BY <1>1, <1>2 DEF IInv, Lives
  <2> QED
    BY <1>1, <1>3, <2>1, <2>2, <2>3, <2>4 DEF Lives
<1>5. Listings'
  <2> SUFFICES ASSUME NEW r \in Readers
               PROVE  /\ reader[r].pc = "idle" => reader[r] = Quiet
                      /\ reader[r].pc # "idle" =>
                           /\ up /\ reader[r].t \in Tasks /\ task'[reader[r].t].run > 0
                           /\ Working(reader[r].t)' => reader[r].t \in crossed
                      /\ reader[r].pc = "stale" =>
                           /\ reader[r].n \in 1..task'[reader[r].t].run
                           /\ reader[r].t \notin crossed =>
                                /\ reader[r].n = task'[reader[r].t].run
                                /\ Current(reader[r].t)'.status \in {"running", "interrupted"}
                      /\ reader[r].pc \in {"stale", "half"} => torn' \/ reader[r].t \in crossed
    BY <1>1 DEF Listings
  <2>1. CASE reader[r].pc = "idle"
    BY <2>1 DEF IInv, Listings
  <2>2. CASE reader[r].pc # "idle"
    <3>1. reader[r].t \in Tasks
      BY <2>2 DEF IInv, Listings
    <3> QED
      BY <1>1, <1>2, <2>2, <3>1 DEF IInv, Listings
  <2> QED
    BY <2>1, <2>2
<1> QED
  BY <1>4, <1>5

LEMMA WorksTally ==
  ASSUME IInv, NEW w \in Workers, Busy(w), Works(w), Counts(w)
  PROVE  Tally'
<1>1. ASSUME NEW v \in Workers, Busy(v)', ~worker'[v].failed, NEW j \in 1..Rows, j < worker'[v].i
      PROVE  report'[worker'[v].t][j] \in Good
  <2>1. CASE v = w
    BY <1>1, <2>1 DEF Counts
  <2>2. CASE v # w
    <3>1. worker'[v] = worker[v] /\ Busy(v) /\ worker[v].t # worker[w].t /\ worker[v].t \in Tasks
      BY <1>1, <2>2, WorksFacts DEF IInv, Threads
    <3>2. report'[worker[v].t] = report[worker[v].t]
      BY <3>1, WorksFacts
    <3> QED
      BY <1>1, <3>1, <3>2 DEF IInv, Tally
  <2> QED
    BY <2>1, <2>2
<1>2. \A v \in Workers : worker'[v].pc = "completed" => ~worker'[v].failed /\ worker'[v].i > Rows
  BY WorksFacts DEF Counts, IInv, Tally
<1>3. VerdictIsTrue'
  <2> SUFFICES ASSUME NEW u \in Tasks, Current(u)'.status = "completed", NEW i \in 1..Rows
               PROVE  report'[u][i] \in Good
    BY DEF VerdictIsTrue, Good
  <2>1. Current(u).status = "completed"
    BY WorksFacts
  <2>2. u # worker[w].t
    <3>1. record[worker[w].t].action \in {"generate", "run"}
      BY WorkerFacts
    <3> QED
      BY <2>1, <3>1, WorksFacts DEF IInv, Lives, Current, Absent
  <2> QED
    BY <2>1, <2>2, WorksFacts DEF IInv, Tally, VerdictIsTrue, Good
<1> QED
  BY <1>1, <1>2, <1>3 DEF Tally

LEMMA WorksAgree ==
  ASSUME IInv, NEW w \in Workers, Busy(w), Works(w)
  PROVE  Agree'
<1>1. record' = record /\ up' = up /\ crossed' = crossed /\ (torn => torn')
  BY DEF Works
<1>2. record[worker[w].t].action \in {"generate", "run"}
  BY WorkerFacts
<1>3. ASSUME ~torn', NEW u \in Tasks, task'[u].run > 0
      PROVE  Current(u)'.status \in {"running", "interrupted"} \/ task'[u].status = Current(u)'.status \/ u \in crossed
  <2>1. ~torn /\ task[u].run > 0 /\ Current(u)' = Current(u)
    BY <1>1, <1>3, WorksFacts
  <2>2. CASE u = worker[w].t
    BY <1>2, <2>1, <2>2, WorksFacts DEF IInv, Lives
  <2>3. CASE u # worker[w].t
    BY <2>1, <2>3, WorksFacts DEF IInv, Agree
  <2> QED
    BY <2>2, <2>3
<1>4. FilesAgree'
  <2> SUFFICES ASSUME NEW u \in Tasks, up', ~Working(u)', task'[u].run > 0, ~torn'
               PROVE  /\ Current(u)'.status # "running"
                      /\ task'[u].status = Current(u)'.status \/ Current(u)'.status = "interrupted" \/ u \in crossed
    BY <1>1 DEF FilesAgree
  <2>1. up /\ ~Working(u) /\ task[u].run > 0 /\ ~torn /\ Current(u)' = Current(u) /\ u # worker[w].t
    BY <1>1, WorksFacts DEF Working
  <2>2. task'[u] = task[u]
    BY <2>1, WorksFacts
  <2> QED
    BY <2>1, <2>2 DEF IInv, Agree, FilesAgree
<1> QED
  BY <1>1, <1>3, <1>4 DEF Agree

LEMMA KeepsCommitted ==
  ASSUME IInv, NEW w \in Workers, Busy(w), Works(w), Keeps(w)
  PROVE  Committed'
<1> SUFFICES ASSUME ~torn' PROVE Committed'
  BY DEF Committed
<1> DEFINE t == worker[w].t
<1>1. ~torn /\ repo' = repo /\ head' = head /\ runs' = runs /\ reader' = reader
  BY DEF Keeps, Works
<1>2. Committed
  BY DEF IInv
<1>3. AppliedOnce'
  BY <1>1, <1>2 DEF Committed, AppliedOnce
<1>8. \A u \in Tasks : Behind(u)' = Behind(u)
  BY <1>1, WorksFacts DEF Behind
<1>9. \A r \in Readers : reader'[r].pc = "stale" => reader'[r].head <= head'
  BY <1>1, <1>2 DEF Committed
<1>4. ASSUME NEW u \in Tasks, NEW i \in 1..Rows, repo[u][i] # 0
      PROVE  report'[u][i] = "applied" \/ Lost(u)'
             \/ \E v \in Workers : worker'[v].pc = "applied" /\ worker'[v].t = u /\ worker'[v].i = i
  <2>1. CASE report[u][i] = "applied"
    BY <1>4, <2>1, WorksFacts DEF Keeps
  <2>2. CASE Lost(u)
    BY <1>8, <2>2, WorksFacts DEF Lost
  <2>3. ASSUME NEW v \in Workers, worker[v].pc = "applied", worker[v].t = u, worker[v].i = i
        PROVE  \/ report'[u][i] = "applied"
               \/ \E x \in Workers : worker'[x].pc = "applied" /\ worker'[x].t = u /\ worker'[x].i = i
    <3>1. CASE v = w
      BY <2>3, <3>1 DEF Keeps
    <3>2. CASE v # w
      BY <2>3, <3>2, WorksFacts
    <3> QED
      BY <3>1, <3>2
  <2> QED
    BY <1>1, <1>2, <1>4, <2>1, <2>2, <2>3 DEF Committed
<1>5. \A u \in Tasks : \A n \in Numbers : runs'[u][n].head <= head'
  BY <1>1, <1>2 DEF Committed
<1>6. \A u \in Tasks : task'[u].run = 0 => \A i \in 1..Rows : repo'[u][i] = 0
  BY <1>1, <1>2, WorksFacts DEF Committed
<1>7. ASSUME NEW v \in Workers
      PROVE  /\ worker'[v].pc = "apply" => Row(v)' = "clean"
             /\ worker'[v].pc = "applied" => Row(v)' \in {"pending", "clean"} /\ Behind(worker[v].t)'
             /\ worker'[v].pc = "recheck" => Row(v)' \in {"pending", "unapplied"}
  <2>1. CASE v = w
    <3>1. worker'[v].t = t
      BY <2>1, WorksFacts
    <3> QED
      BY <2>1, <3>1 DEF Keeps, Row
  <2>2. CASE v # w /\ Busy(v)
    <3>1. worker'[v] = worker[v] /\ worker[v].t \in Tasks /\ worker[v].t # t
      BY <2>2, WorksFacts DEF IInv, Threads
    <3>2. Row(v)' = Row(v) /\ Behind(worker[v].t)' = Behind(worker[v].t)
      BY <1>8, <3>1, WorksFacts DEF Row
    <3> QED
      BY <1>1, <1>2, <3>1, <3>2 DEF Committed
  <2>3. CASE v # w /\ ~Busy(v)
    BY <2>3, WorksFacts DEF Busy
  <2> QED
    BY <2>1, <2>2, <2>3
<1> QED
  BY <1>1, <1>3, <1>4, <1>5, <1>6, <1>7, <1>9 DEF Committed

\* Every step of a worker but the last.
LEMMA WorksKeeps ==
  ASSUME IInv, NEW w \in Workers,
         TakeLock(w) \/ LockTimeout(w) \/ Generated(w) \/ Raises(w) \/ LoopEnds(w) \/ Pauses(w) \/ RowStep(w)
  PROVE  IInv' /\ UNCHANGED runs
<1>1. Works(w) /\ Counts(w) /\ Typed' /\ (Keeps(w) \/ Committed')
  <2>1. CASE TakeLock(w) \/ LockTimeout(w)
    BY <2>1, WaitWorks
  <2>2. CASE Generated(w) \/ Raises(w) \/ LoopEnds(w) \/ Pauses(w)
    BY <2>2, GeneratedWorks, RaisesWorks, EndsWorks
  <2>3. CASE RowStep(w)
    BY <2>3, SkipsWorks, ChecksWorks, ResolvesWorks, CommitsWorks, WritesWorks, LosesWorks, NotAppliedWorks DEF RowStep
  <2> QED
    BY <2>1, <2>2, <2>3
<1>2. Busy(w)
  BY DEF TakeLock, LockTimeout, Generated, Raises, LoopEnds, Pauses, RowStep, Skips, Checks, Resolves, Commits,
    Writes, Loses, NotApplied, Rechecks, Applies, Pass, MoreToDo, At, Busy
<1>3. TypeOK' /\ Threads' /\ Lives' /\ Listings' /\ Tally' /\ Agree'
  BY <1>1, <1>2, WorksTypes, WorksThreads, WorksLives, WorksTally, WorksAgree
<1>4. Committed'
  BY <1>1, <1>2, KeepsCommitted
<1> QED
  BY <1>1, <1>3, <1>4 DEF IInv, Works

-----------------------------------------------------------------------------
(* The end of a worker.                                                    *)

\* No Run that has ended changes.
Final ==
  \A t \in Tasks \ crossed : \A n \in Numbers : runs[t][n].status \in Ended => runs'[t][n].status = runs[t][n].status

\* What a worker leaves in the files: the same in both, or after a failing
\* write in task.json alone; the Run of a report is none.
Filed(w) ==
  LET t == worker[w].t IN
  \E s \in TaskStatus \ {"none"} :
    /\ WriteTask(t, s)
    /\ \/ runs' = runs /\ (torn' \/ record[t].action = "generate")
       \/ /\ record[t].action = "run" /\ s \in Ended \cup {"paused"}
          /\ \E at \in {head, Current(t).head} : WriteRun(t, s, at)
          /\ s = "completed" => worker[w].pc = "completed"

Parts(w, outcome) ==
  /\ Leaves(w, outcome) /\ Filed(w)
  /\ UNCHANGED <<report, git, crossed, stops>> /\ faults' \in 0..MaxFaults
  /\ torn' \in BOOLEAN /\ (torn => torn')

\* The facts about the end of a worker that the invariants need.
LEMMA PartsFacts ==
  ASSUME IInv, NEW w \in Workers, Busy(w), NEW t \in Tasks, worker[w].t = t,
         NEW outcome \in {"failed", "paused", "success"}, Parts(w, outcome)
  PROVE  /\ Working(t) /\ worker'[w] = Idle
         /\ record'[t].status = outcome
         /\ \A v \in Workers : v # w => worker'[v] = worker[v] /\ (Busy(v) => worker[v].t # t)
         /\ \A u \in Tasks : u # t => /\ task'[u] = task[u] /\ runs'[u] = runs[u] /\ record'[u] = record[u]
                                                /\ Current(u)' = Current(u)
         /\ \A u \in Tasks : task'[u].run = task[u].run /\ record'[u].action = record[u].action
         /\ task'[t].status # "none"
         /\ ~Working(t)'
<1>1. Working(t)
  BY DEF IInv, Threads
<1>2. /\ worker' = [worker EXCEPT ![w] = Idle] /\ record' = [record EXCEPT ![t].status = outcome]
  BY DEF Parts, Leaves
<1>3. /\ task \in [Tasks -> [status : TaskStatus, run : 0..MaxRuns]]
      /\ runs \in [Tasks -> [Numbers -> [status : RunStatus, head : Nat]]]
      /\ record \in [Tasks -> [action : {"none", "generate", "run"}, pause : BOOLEAN,
                               status : {"none", "running", "success", "paused", "failed"}]]
      /\ worker \in [Workers -> WorkerRecord]
  BY DEF IInv, TypeOK, WorkerRecord
<1>4. worker'[w] = Idle /\ \A v \in Workers : v # w => worker'[v] = worker[v] /\ (Busy(v) => worker[v].t # t)
  BY <1>2, <1>3 DEF IInv, Threads, OneWorker, Busy, Idle
<1>5. /\ \A u \in Tasks : u # t => record'[u] = record[u]
      /\ \A u \in Tasks : record'[u].action = record[u].action
      /\ record'[t].status = outcome
  <2>1. \A u \in Tasks : record'[u] = IF u = t THEN [record[u] EXCEPT !.status = outcome] ELSE record[u]
    BY <1>2, <1>3
  <2>2. \A u \in Tasks : record[u] \in [action : {"none", "generate", "run"}, pause : BOOLEAN,
                               status : {"none", "running", "success", "paused", "failed"}]
    BY <1>3
  <2> QED
    BY <1>1, <2>1, <2>2
<1>6. PICK s \in TaskStatus \ {"none"} : WriteTask(t, s) /\ (runs' = runs \/ \E at \in {head, Current(t).head} : WriteRun(t, s, at))
  BY DEF Parts, Filed
<1>7. /\ \A u \in Tasks : u # t => task'[u] = task[u]
      /\ \A u \in Tasks : task'[u].run = task[u].run
      /\ task'[t].status = s
  <2>1. \A u \in Tasks : task'[u] = IF u = t THEN [task[u] EXCEPT !.status = s] ELSE task[u]
    BY <1>3, <1>6 DEF WriteTask
  <2>2. \A u \in Tasks : task[u] \in [status : TaskStatus, run : 0..MaxRuns]
    BY <1>3
  <2> QED
    BY <1>1, <2>1, <2>2
<1>8. \A u \in Tasks : u # t => runs'[u] = runs[u]
  BY <1>3, <1>6 DEF WriteRun
<1>9. \A u \in Tasks : u # t => Current(u)' = Current(u)
  BY <1>7, <1>8 DEF Current
<1> QED
  BY <1>1, <1>4, <1>5, <1>6, <1>7, <1>8, <1>9 DEF Working

\* What the file of the Run becomes.
LEMMA FiledRun ==
  ASSUME IInv, NEW w \in Workers, Busy(w), NEW t \in Tasks, worker[w].t = t,
         NEW outcome \in {"failed", "paused", "success"}, Parts(w, outcome)
  PROVE  /\ runs' \in [Tasks -> [Numbers -> [status : RunStatus, head : Nat]]]
         /\ \/ runs' = runs /\ (torn' \/ task[t].run = 0)
            \/ /\ task[t].run \in Numbers /\ Current(t).status \in {"running", "interrupted"}
               /\ Current(t)'.status \in Ended \cup {"paused"} /\ Current(t)'.status = task'[t].status
               /\ Current(t)'.head \in {head, Current(t).head}
               /\ Current(t)'.status = "completed" => worker[w].pc = "completed"
               /\ \A n \in Numbers : n # task[t].run => runs'[t][n] = runs[t][n]
<1>1. Working(t) /\ task'[t].run = task[t].run
  BY PartsFacts
<1>2. /\ runs \in [Tasks -> [Numbers -> [status : RunStatus, head : Nat]]] /\ head \in Nat
      /\ task \in [Tasks -> [status : TaskStatus, run : 0..MaxRuns]]
  BY DEF IInv, TypeOK
<1>3. PICK s \in TaskStatus \ {"none"} :
    /\ WriteTask(t, s)
    /\ \/ runs' = runs /\ (torn' \/ record[t].action = "generate")
       \/ /\ record[t].action = "run" /\ s \in Ended \cup {"paused"}
          /\ \E at \in {head, Current(t).head} : WriteRun(t, s, at)
          /\ s = "completed" => worker[w].pc = "completed"
  BY DEF Parts, Filed
<1>4. CASE runs' = runs /\ (torn' \/ record[t].action = "generate")
  <2>1. record[t].action = "generate" => task[t].run = 0
    BY <1>1 DEF IInv, Lives
  <2> QED
    BY <1>2, <1>4, <2>1
<1>5. CASE /\ record[t].action = "run" /\ s \in Ended \cup {"paused"}
           /\ \E at \in {head, Current(t).head} : WriteRun(t, s, at)
           /\ s = "completed" => worker[w].pc = "completed"
  <2>1. PICK at \in {head, Current(t).head} : WriteRun(t, s, at)
    BY <1>5
  <2>2. task[t].run \in Numbers /\ Current(t).status \in {"running", "interrupted"} /\ Current(t) = runs[t][task[t].run]
    <3>1. task[t].run > 0 /\ Current(t).status \in {"running", "interrupted"}
      BY <1>5 DEF IInv, Lives
    <3>2. task[t].run \in 0..MaxRuns
      BY <1>1, <1>2
    <3> QED
      BY <3>1, <3>2, Bounds DEF Numbers, Current
  <2>3. at \in Nat /\ s \in RunStatus
    BY <1>1, <1>2, <1>5, <2>1, <2>2 DEF RunStatus, Stopped
  <2>4. runs' \in [Tasks -> [Numbers -> [status : RunStatus, head : Nat]]]
    BY <1>1, <1>2, <2>1, <2>2, <2>3 DEF WriteRun
  <2>5. runs'[t][task[t].run] = [status |-> s, head |-> at] /\ \A n \in Numbers : n # task[t].run => runs'[t][n] = runs[t][n]
    <3>1. runs'[t] = [runs[t] EXCEPT ![task[t].run] = [status |-> s, head |-> at]]
      BY <1>1, <1>2, <2>1 DEF WriteRun
    <3>2. runs[t] \in [Numbers -> [status : RunStatus, head : Nat]]
      BY <1>1, <1>2
    <3> QED
      BY <2>2, <3>1, <3>2
  <2>6. Current(t)' = [status |-> s, head |-> at]
    <3>1. task[t].run # 0
      BY <2>2, Bounds DEF Numbers
    <3> QED
      BY <1>1, <2>5, <3>1 DEF Current
  <2>7. task'[t].status = s
    BY <1>1, <1>2, <1>3 DEF WriteTask
  <2> QED
    BY <1>5, <2>1, <2>2, <2>4, <2>5, <2>6, <2>7
<1> QED
  BY <1>3, <1>4, <1>5

LEMMA PartsTypes ==
  ASSUME IInv, NEW w \in Workers, Busy(w), NEW t \in Tasks, worker[w].t = t,
         NEW outcome \in {"failed", "paused", "success"}, Parts(w, outcome)
  PROVE  TypeOK'
<1>1. task' \in [Tasks -> [status : TaskStatus, run : 0..MaxRuns]]
  <2>1. PICK s \in TaskStatus \ {"none"} : WriteTask(t, s)
    BY DEF Parts, Filed
  <2>2. task \in [Tasks -> [status : TaskStatus, run : 0..MaxRuns]]
    BY DEF IInv, TypeOK
  <2>3. [task[t] EXCEPT !.status = s] \in [status : TaskStatus, run : 0..MaxRuns]
    BY <2>2
  <2> QED
    BY <2>1, <2>2, <2>3 DEF WriteTask
<1>2. worker' \in [Workers -> WorkerRecord]
  <2>1. Idle \in WorkerRecord
    BY Bounds DEF Idle, WorkerRecord, WorkerPcs
  <2>2. worker' = [worker EXCEPT ![w] = Idle] /\ worker \in [Workers -> WorkerRecord]
    BY DEF Parts, Leaves, IInv, TypeOK, WorkerRecord
  <2> QED
    BY <2>1, <2>2
<1>3. record' \in [Tasks -> [action : {"none", "generate", "run"}, pause : BOOLEAN,
                             status : {"none", "running", "success", "paused", "failed"}]]
  <2> DEFINE Record == [action : {"none", "generate", "run"}, pause : BOOLEAN,
                        status : {"none", "running", "success", "paused", "failed"}]
  <2>1. record \in [Tasks -> Record] /\ record' = [record EXCEPT ![t].status = outcome]
    BY DEF Parts, Leaves, IInv, TypeOK
  <2>2. record[t] \in Record
    BY <2>1
  <2>3. [record[t] EXCEPT !.status = outcome] \in Record
    BY <2>2
  <2> HIDE DEF Record
  <2>4. record' \in [Tasks -> Record]
    BY <2>1, <2>3
  <2> QED
    BY <2>4 DEF Record
<1>4. runs' \in [Tasks -> [Numbers -> [status : RunStatus, head : Nat]]]
  BY FiledRun
<1>5. /\ UNCHANGED <<report, repo, head, others, stops, holder, reader, up, crossed>>
      /\ faults' \in 0..MaxFaults /\ torn' \in BOOLEAN
  BY DEF Parts, Leaves, git
<1> QED
  BY <1>1, <1>2, <1>3, <1>4, <1>5 DEF TypeOK, IInv, WorkerRecord

LEMMA PartsThreads ==
  ASSUME IInv, NEW w \in Workers, Busy(w), NEW t \in Tasks, worker[w].t = t,
         NEW outcome \in {"failed", "paused", "success"}, Parts(w, outcome)
  PROVE  Threads'
<1>1. up' = up
  BY DEF Parts, Leaves
<1>2. ASSUME NEW v \in Workers, Busy(v)'
      PROVE  v # w /\ worker'[v] = worker[v] /\ Busy(v) /\ worker[v].t # t /\ worker[v].t \in Tasks
             /\ record'[worker[v].t] = record[worker[v].t]
  <2>1. v # w
    BY <1>2, PartsFacts DEF Busy, Idle
  <2>2. worker'[v] = worker[v] /\ Busy(v) /\ worker[v].t # t
    BY <1>2, <2>1, PartsFacts DEF Busy
  <2>3. worker[v].t \in Tasks
    BY <2>2 DEF IInv, Threads
  <2> QED
    BY <2>1, <2>2, <2>3, PartsFacts
<1>3. \A v \in Workers : ~Busy(v)' => worker'[v] = Idle
  BY PartsFacts DEF Busy, IInv, Threads
<1>4. ASSUME NEW v \in Workers, Busy(v)'
      PROVE  /\ up' /\ worker'[v].t \in Tasks /\ Working(worker[v].t)' /\ worker'[v].i >= 1
             /\ record'[worker'[v].t].action # "none"
             /\ record'[worker'[v].t].action = "generate" => worker'[v].i = 1
             /\ worker'[v].pc \in RunPcs => record'[worker'[v].t].action = "run"
             /\ worker'[v].pc \in GenPcs => record'[worker'[v].t].action = "generate"
             /\ worker'[v].pc \in RowPcs => worker'[v].i <= Rows /\ worker'[v].steps < MaxSteps
  <2>1. worker'[v] = worker[v] /\ Busy(v) /\ record'[worker[v].t] = record[worker[v].t]
    BY <1>2, <1>4
  <2> QED
    BY <1>1, <2>1 DEF IInv, Threads, Working
<1>5. OneWorker'
  <2> SUFFICES ASSUME NEW u \in Workers, NEW v \in Workers, worker'[u].t = worker'[v].t, worker'[u] # Idle
               PROVE  u = v
    BY DEF OneWorker
  <2>1. Busy(u)'
    BY <1>3
  <2>2. worker'[u] = worker[u] /\ worker[u].t \in Tasks /\ worker[u] # Idle
    BY <1>2, <2>1
  <2>3. worker'[v].t # "none"
    BY <2>2, NamesAssumption
  <2>4. v # w /\ worker'[v] = worker[v]
    BY <2>3, PartsFacts DEF Idle
  <2> QED
    BY <2>2, <2>4 DEF IInv, Threads, OneWorker
<1> QED
  BY <1>3, <1>4, <1>5 DEF Threads

LEMMA PartsLives ==
  ASSUME IInv, NEW w \in Workers, Busy(w), NEW t \in Tasks, worker[w].t = t,
         NEW outcome \in {"failed", "paused", "success"}, Parts(w, outcome)
  PROVE  Lives' /\ Listings' /\ Final
<1>1. reader' = reader /\ up' = up /\ crossed' = crossed /\ (torn => torn')
  BY DEF Parts, Leaves
<1>2. \A u \in Tasks : Working(u)' => u # t /\ Working(u)
  BY PartsFacts DEF Working
<1>3. Lives'
  <2>1. \A u \in Tasks : task'[u].status = "none" => task'[u].run = 0 /\ ~Working(u)'
    BY <1>2, PartsFacts DEF IInv, Lives
  <2>2. \A u \in Tasks : Working(u)' /\ record'[u].action = "generate" => task'[u].run = 0
    BY <1>2, PartsFacts DEF IInv, Lives
  <2>3. ASSUME NEW v \in Workers, Busy(v)', record'[worker'[v].t].action = "run"
        PROVE  /\ task'[worker'[v].t].run > 0 /\ Current(worker[v].t)'.status \in {"running", "interrupted"}
               /\ worker'[v].t \notin crossed => Current(worker[v].t)'.status = "running"
    <3>1. v # w
      BY <2>3, PartsFacts DEF Busy, Idle
    <3>2. worker'[v] = worker[v] /\ Busy(v) /\ worker[v].t # t
      BY <2>3, <3>1, PartsFacts DEF Busy
    <3>3. worker[v].t \in Tasks
      BY <3>2 DEF IInv, Threads
    <3>4. record[worker[v].t].action = "run" /\ task'[worker[v].t] = task[worker[v].t]
      BY <2>3, <3>2, <3>3, PartsFacts
    <3>5. Current(worker[v].t)' = Current(worker[v].t)
      BY <3>2, <3>3, PartsFacts
    <3> QED
      BY <3>2, <3>4, <3>5 DEF IInv, Lives
  <2>4. \A u \in Tasks : \A n \in Numbers : n > task'[u].run => runs'[u][n].status \in {"none", "running"}
    <3> SUFFICES ASSUME NEW u \in Tasks, NEW n \in Numbers, n > task[u].run
                 PROVE  runs'[u][n].status \in {"none", "running"}
      BY PartsFacts
    <3>1. runs'[u][n] = runs[u][n]
      <4>1. task[u].run \in Nat /\ n \in Nat
        BY Bounds DEF IInv, TypeOK, Numbers
      <4>2. CASE u = t
        <5>1. \/ runs' = runs
              \/ \A m \in Numbers : m # task[t].run => runs'[t][m] = runs[t][m]
          BY FiledRun
        <5>2. n # task[t].run
          BY <4>1, <4>2
        <5> QED
          BY ONLY <4>2, <5>1, <5>2, n \in Numbers
      <4>3. CASE u # t
        BY <4>3, PartsFacts
      <4> QED
        BY <4>2, <4>3
    <3> QED
      BY <3>1 DEF IInv, Lives
  <2> QED
    BY <1>1, <2>1, <2>2, <2>3, <2>4 DEF Lives
<1>4. Listings'
  <2> SUFFICES ASSUME NEW r \in Readers
               PROVE  /\ reader[r].pc = "idle" => reader[r] = Quiet
                      /\ reader[r].pc # "idle" =>
                           /\ up /\ reader[r].t \in Tasks /\ task'[reader[r].t].run > 0
                           /\ Working(reader[r].t)' => reader[r].t \in crossed
                      /\ reader[r].pc = "stale" =>
                           /\ reader[r].n \in 1..task'[reader[r].t].run
                           /\ reader[r].t \notin crossed =>
                                /\ reader[r].n = task'[reader[r].t].run
                                /\ Current(reader[r].t)'.status \in {"running", "interrupted"}
                      /\ reader[r].pc \in {"stale", "half"} => torn' \/ reader[r].t \in crossed
    BY <1>1 DEF Listings
  <2>1. CASE reader[r].pc = "idle"
    BY <2>1 DEF IInv, Listings
  <2>2. CASE reader[r].pc # "idle"
    <3>1. reader[r].t \in Tasks /\ task'[reader[r].t].run = task[reader[r].t].run
      BY <2>2, PartsFacts DEF IInv, Listings
    <3>2. CASE reader[r].t = t
      <4>1. t \in crossed
        BY <2>2, <3>2, PartsFacts DEF IInv, Listings
      <4> QED
        BY <1>1, <1>2, <2>2, <3>1, <3>2, <4>1 DEF IInv, Listings
    <3>3. CASE reader[r].t # t
      <4>1. Current(reader[r].t)' = Current(reader[r].t) /\ (Working(reader[r].t)' => Working(reader[r].t))
            /\ task'[reader[r].t] = task[reader[r].t]
        BY <1>1, <1>2, <3>1, <3>3, PartsFacts
      <4> QED
        BY <1>1, <2>2, <3>1, <4>1 DEF IInv, Listings
    <3> QED
      BY <3>2, <3>3
  <2> QED
    BY <2>1, <2>2
<1>5. Final
  <2> SUFFICES ASSUME NEW u \in Tasks, NEW n \in Numbers, runs[u][n].status \in Ended
               PROVE  runs'[u][n].status = runs[u][n].status
    BY DEF Final
  <2>1. ~(u = t /\ n = task[t].run /\ Current(t).status \in {"running", "interrupted"})
    <3>1. task[t].run \in 0..MaxRuns
      BY DEF IInv, TypeOK
    <3> QED
      BY <3>1, Bounds DEF Current, Numbers, Ended
  <2> QED
    BY <2>1, PartsFacts, FiledRun
<1> QED
  BY <1>3, <1>4, <1>5

LEMMA PartsFiles ==
  ASSUME IInv, NEW w \in Workers, Busy(w), NEW t \in Tasks, worker[w].t = t,
         NEW outcome \in {"failed", "paused", "success"}, Parts(w, outcome)
  PROVE  Tally' /\ Agree'
<1>1. report' = report /\ up' = up /\ crossed' = crossed /\ (torn => torn')
  BY DEF Parts, Leaves
<1>2. Tally'
  <2>1. ASSUME NEW v \in Workers, Busy(v)' \/ worker'[v].pc = "completed"
        PROVE  worker'[v] = worker[v] /\ Busy(v)
    <3>1. v # w
      BY <2>1, PartsFacts DEF Busy, Idle
    <3> QED
      BY <2>1, <3>1, PartsFacts DEF Busy
  <2>2. VerdictIsTrue'
    <3> SUFFICES ASSUME NEW u \in Tasks, Current(u)'.status = "completed", NEW i \in 1..Rows
                 PROVE  report[u][i] \in Good
      BY <1>1 DEF VerdictIsTrue, Good
    <3>1. CASE Current(u).status = "completed"
      BY <3>1 DEF IInv, Tally, VerdictIsTrue, Good
    <3>2. CASE Current(u).status # "completed"
      <4>1. u = t
        BY <3>2, PartsFacts
      <4>2. worker[w].pc = "completed"
        <5>1. task[t].run = 0 => Current(t)' = Absent
          BY PartsFacts DEF Current
        <5>2. runs' = runs => Current(t)' = Current(t)
          BY PartsFacts DEF Current
        <5> QED
          BY <3>2, <4>1, <5>2, FiledRun
      <4>3. ~worker[w].failed /\ worker[w].i > Rows
        BY <4>2 DEF IInv, Tally
      <4>4. i < worker[w].i
        BY <4>3, WorkerFacts, Bounds
      <4> QED
        BY <4>1, <4>2, <4>3, <4>4 DEF IInv, Tally, Busy
    <3> QED
      BY <3>1, <3>2
  <2> QED
    BY <1>1, <2>1, <2>2 DEF IInv, Tally
<1>3. ASSUME ~torn', NEW u \in Tasks, task'[u].run > 0
      PROVE  Current(u)'.status \in {"running", "interrupted"} \/ task'[u].status = Current(u)'.status \/ u \in crossed
  <2>1. CASE u = t
    BY <1>3, <2>1, PartsFacts, FiledRun
  <2>2. CASE u # t
    BY <1>1, <1>3, <2>2, PartsFacts DEF IInv, Agree
  <2> QED
    BY <2>1, <2>2
<1>4. FilesAgree'
  <2> SUFFICES ASSUME NEW u \in Tasks, up', ~Working(u)', task'[u].run > 0, ~torn'
               PROVE  /\ Current(u)'.status # "running"
                      /\ task'[u].status = Current(u)'.status \/ Current(u)'.status = "interrupted" \/ u \in crossed
    BY <1>1 DEF FilesAgree
  <2>1. CASE u = t
    BY <2>1, PartsFacts, FiledRun DEF Ended
  <2>2. CASE u # t
    <3>1. up /\ ~Working(u) /\ task[u].run > 0 /\ ~torn /\ Current(u)' = Current(u) /\ task'[u] = task[u]
      BY <1>1, <2>2, PartsFacts DEF Working
    <3> QED
      BY <3>1 DEF IInv, Agree, FilesAgree
  <2> QED
    BY <2>1, <2>2
<1> QED
  BY <1>1, <1>2, <1>3, <1>4 DEF Agree

LEMMA PartsCommitted ==
  ASSUME IInv, NEW w \in Workers, Busy(w), NEW t \in Tasks, worker[w].t = t, worker[w].pc # "applied",
         NEW outcome \in {"failed", "paused", "success"}, Parts(w, outcome)
  PROVE  Committed'
<1> SUFFICES ASSUME ~torn' PROVE Committed'
  BY DEF Committed
<1>1. ~torn /\ report' = report /\ repo' = repo /\ head' = head /\ reader' = reader /\ Committed
  BY DEF Parts, Leaves, git, IInv
<1>7. \A u \in Tasks \ {t} : Behind(u)' = Behind(u)
  BY <1>1, PartsFacts DEF Behind
<1>2. AppliedOnce'
  BY <1>1 DEF Committed, AppliedOnce
<1>3. ASSUME NEW u \in Tasks, NEW i \in 1..Rows, repo[u][i] # 0
      PROVE  report[u][i] = "applied" \/ Lost(u)'
             \/ \E v \in Workers : worker'[v].pc = "applied" /\ worker'[v].t = u /\ worker'[v].i = i
  <2>1. CASE Lost(u)
    <3>1. u # t /\ Current(u)' = Current(u)
      BY <2>1, PartsFacts DEF Lost
    <3>2. \A v \in Workers : worker'[v].t # u
      BY <2>1, PartsFacts, NamesAssumption DEF Lost, Idle
    <3> QED
      BY <1>7, <2>1, <3>1, <3>2 DEF Lost
  <2>2. ASSUME NEW v \in Workers, worker[v].pc = "applied", worker[v].t = u, worker[v].i = i
        PROVE  worker'[v].pc = "applied" /\ worker'[v].t = u /\ worker'[v].i = i
    BY <2>2, PartsFacts
  <2> QED
    BY <1>1, <1>3, <2>1, <2>2 DEF Committed
<1>4. \A u \in Tasks : \A n \in Numbers : runs'[u][n].head <= head
  <2> SUFFICES ASSUME NEW u \in Tasks, NEW n \in Numbers, runs'[u][n] # runs[u][n]
               PROVE  runs'[u][n].head <= head
    BY <1>1 DEF Committed
  <2>1. /\ u = t /\ n = task[t].run
        /\ task[t].run \in Numbers /\ Current(t)'.head \in {head, Current(t).head}
    BY PartsFacts, FiledRun
  <2>2. Current(t)' = runs'[t][n] /\ Current(t) = runs[t][n]
    BY <2>1, PartsFacts, Bounds DEF Current, Numbers
  <2>3. head <= head
    BY DEF IInv, TypeOK
  <2> QED
    BY <1>1, <2>1, <2>2, <2>3 DEF Committed
<1>5. \A u \in Tasks : task'[u].run = 0 => \A i \in 1..Rows : repo[u][i] = 0
  BY <1>1, PartsFacts DEF Committed
<1>6. ASSUME NEW v \in Workers
      PROVE  /\ worker'[v].pc = "apply" => Row(v)' = "clean"
             /\ worker'[v].pc = "applied" => Row(v)' \in {"pending", "clean"} /\ Behind(worker[v].t)'
             /\ worker'[v].pc = "recheck" => Row(v)' \in {"pending", "unapplied"}
  <2>1. CASE worker'[v].pc \notin RowPcs
    BY <2>1 DEF RowPcs
  <2>2. CASE worker'[v].pc \in RowPcs
    <3>1. v # w
      BY <2>2, PartsFacts DEF Idle, RowPcs
    <3>2. worker'[v] = worker[v] /\ Busy(v) /\ worker[v].t # t
      BY <2>2, <3>1, PartsFacts DEF Busy, RowPcs
    <3>3. worker[v].t \in Tasks
      BY <3>2 DEF IInv, Threads
    <3>4. Row(v)' = Row(v) /\ Behind(worker[v].t)' = Behind(worker[v].t)
      BY <1>1, <1>7, <3>2, <3>3, PartsFacts DEF Row
    <3> QED
      BY <1>1, <3>2, <3>4 DEF Committed
  <2> QED
    BY <2>1, <2>2
<1> QED
  BY <1>1, <1>2, <1>3, <1>4, <1>5, <1>6 DEF Committed

\* The death of the process, whatever of the files it had written.
LEMMA DiesKeeps ==
  ASSUME IInv, Dies, UNCHANGED <<report, git>>,
         task' \in [Tasks -> [status : TaskStatus, run : 0..MaxRuns]],
         runs' \in [Tasks -> [Numbers -> [status : RunStatus, head : Nat]]],
         \A t \in Tasks : task'[t].status = "none" => task'[t].run = 0,
         \A t \in Tasks : \A n \in Numbers : n > task'[t].run => runs'[t][n].status \in {"none", "running"},
         VerdictIsTrue',
         torn \/ \A t \in Tasks : task'[t].run > 0 =>
           Current(t)'.status \in {"running", "interrupted"} \/ task'[t].status = Current(t)'.status \/ t \in crossed,
         torn \/ \A t \in Tasks : \A n \in Numbers : runs'[t][n].head <= head,
         \A t \in Tasks : task'[t].run = task[t].run,
         torn \/ \A t \in Tasks : Current(t).status \in {"running", "interrupted"} /\ Current(t).head < head =>
           Current(t)'.status \in {"running", "interrupted"} /\ Current(t)'.head < head
  PROVE  IInv'
<1>1. /\ record' = [t \in Tasks |-> NoRecord] /\ worker' = [w \in Workers |-> Idle]
      /\ reader' = [r \in Readers |-> Quiet] /\ up' = FALSE
      /\ torn' = torn /\ crossed' = crossed /\ faults' = faults
      /\ UNCHANGED <<report, repo, others, head>>
  BY DEF Dies, git
<1>2. TypeOK'
  <2>1. Idle \in WorkerRecord
    BY Bounds DEF Idle, WorkerRecord, WorkerPcs
  <2>2. worker' \in [Workers -> WorkerRecord]
    BY <1>1, <2>1
  <2>3. record' \in [Tasks -> [action : {"none", "generate", "run"}, pause : BOOLEAN,
                             status : {"none", "running", "success", "paused", "failed"}]]
    BY <1>1 DEF NoRecord
  <2>4. reader' \in [Readers -> [pc : {"idle", "looked", "stale", "half"}, t : Tasks \cup {"none"},
                               n : 0..MaxRuns, head : Nat]]
    BY <1>1, Bounds DEF Quiet
  <2>5. holder' \in Workers \cup {Nobody, Other} /\ stops' \in 0..MaxStops
    BY Bounds DEF Dies, IInv, TypeOK
  <2>6. up' \in BOOLEAN
    BY <1>1, Zenon
  <2> QED
    BY <1>1, <2>2, <2>3, <2>4, <2>5, <2>6 DEF TypeOK, IInv, WorkerRecord
<1>3. Threads'
  BY <1>1, NamesAssumption DEF Threads, OneWorker, Busy, Idle
<1>4. Lives' /\ Listings'
  BY <1>1 DEF Lives, Listings, Busy, Idle, Quiet, NoRecord, Working
<1>5. Tally' /\ Agree'
  BY <1>1 DEF Tally, Agree, FilesAgree, Busy, Idle
<1>6. Committed'
  <2> SUFFICES ASSUME ~torn PROVE Committed'
    BY <1>1 DEF Committed
  <2>1. Committed
    BY DEF IInv
  <2>2. AppliedOnce'
    BY <1>1, <2>1 DEF Committed, AppliedOnce
  <2>3. ASSUME NEW u \in Tasks, NEW i \in 1..Rows, repo[u][i] # 0
        PROVE  report[u][i] = "applied" \/ Lost(u)'
    <3>1. ASSUME Current(u).status \in {"running", "interrupted"} /\ Current(u).head < head PROVE Lost(u)'
      BY <1>1, <3>1, NamesAssumption DEF Lost, Behind, Idle, Quiet
    <3>2. ASSUME NEW v \in Workers, worker[v].pc = "applied", worker[v].t = u
          PROVE  Current(u).status \in {"running", "interrupted"} /\ Current(u).head < head
      <4>1. OnRow(v)
        BY <3>2 DEF OnRow, RowPcs
      <4> QED
        BY <2>1, <3>2, <4>1, RowFacts DEF Committed, Behind, IInv, Lives
    <3> QED
      BY <2>1, <2>3, <3>1, <3>2 DEF Committed, Lost, Behind
  <2>4. \A u \in Tasks : task'[u].run = 0 => \A i \in 1..Rows : repo[u][i] = 0
    BY <2>1 DEF Committed
  <2>5. \A v \in Workers : worker'[v].pc \notin RowPcs
    BY <1>1 DEF Idle, RowPcs
  <2> QED
    BY <1>1, <2>2, <2>3, <2>4, <2>5 DEF Committed, RowPcs, Quiet
<1> QED
  BY <1>2, <1>3, <1>4, <1>5, <1>6 DEF IInv

\* The same when the Runs are left alone.
LEMMA DiesKeepsRuns ==
  ASSUME IInv, Dies, UNCHANGED <<report, git, runs>>,
         task' \in [Tasks -> [status : TaskStatus, run : 0..MaxRuns]],
         \A t \in Tasks : task'[t].status = "none" => task[t].status = "none",
         \A t \in Tasks : task'[t].run = task[t].run,
         \A t \in Tasks : task'[t].status = task[t].status \/ Current(t).status \in {"running", "interrupted"}
                          \/ task[t].run = 0
  PROVE  IInv'
<1>1. runs' = runs /\ \A t \in Tasks : Current(t)' = Current(t)
  BY DEF Current
<1>2. runs' \in [Tasks -> [Numbers -> [status : RunStatus, head : Nat]]]
  BY DEF IInv, TypeOK
<1>3. VerdictIsTrue'
  BY <1>1 DEF VerdictIsTrue, IInv, Tally
<1>4. torn \/ \A t \in Tasks : task'[t].run > 0 =>
           Current(t)'.status \in {"running", "interrupted"} \/ task'[t].status = Current(t)'.status \/ t \in crossed
  BY <1>1 DEF IInv, Agree
<1>5. torn \/ \A t \in Tasks : \A n \in Numbers : runs'[t][n].head <= head
  BY <1>1 DEF IInv, Committed
<1>6. torn \/ \A t \in Tasks : Current(t).status \in {"running", "interrupted"} /\ Current(t).head < head =>
           Current(t)'.status \in {"running", "interrupted"} /\ Current(t)'.head < head
  BY <1>1
<1>7. \A t \in Tasks : task'[t].status = "none" => task'[t].run = 0
  BY DEF IInv, Lives
<1>8. \A t \in Tasks : \A n \in Numbers : n > task'[t].run => runs'[t][n].status \in {"none", "running"}
  BY <1>1 DEF IInv, Lives
<1> QED
  BY <1>2, <1>3, <1>4, <1>5, <1>6, <1>7, <1>8, DiesKeeps

\* A write to task.json changes its status.
LEMMA TaskWritten ==
  ASSUME IInv, NEW t \in Tasks, NEW s \in TaskStatus, WriteTask(t, s)
  PROVE  /\ task' \in [Tasks -> [status : TaskStatus, run : 0..MaxRuns]]
         /\ \A u \in Tasks : task'[u].run = task[u].run
         /\ \A u \in Tasks \ {t} : task'[u] = task[u]
         /\ task'[t].status = s
<1>1. task \in [Tasks -> [status : TaskStatus, run : 0..MaxRuns]]
  BY DEF IInv, TypeOK
<1>2. \A u \in Tasks : task[u] \in [status : TaskStatus, run : 0..MaxRuns]
  BY <1>1
<1>3. task' = [task EXCEPT ![t] = [task[t] EXCEPT !.status = s]]
  BY DEF WriteTask
<1>4. [task[t] EXCEPT !.status = s] \in [status : TaskStatus, run : 0..MaxRuns]
      /\ [task[t] EXCEPT !.status = s].run = task[t].run /\ [task[t] EXCEPT !.status = s].status = s
  BY <1>2
<1> QED
  BY <1>1, <1>3, <1>4

LEMMA PartsKeep ==
  ASSUME IInv, NEW w \in Workers, Busy(w), worker[w].pc # "applied",
         NEW outcome \in {"failed", "paused", "success"}, Parts(w, outcome)
  PROVE  IInv' /\ Final
<1>1. worker[w].t \in Tasks
  BY DEF IInv, Threads
<1>2. PICK t \in Tasks : worker[w].t = t
  BY <1>1
<1> QED
  BY <1>2, PartsTypes, PartsThreads, PartsLives, PartsFiles, PartsCommitted DEF IInv

\* The death of a worker with its process: task.json may say more than the Run.
LEMMA WorkerDies ==
  ASSUME IInv, NEW w \in Workers, Busy(w), NEW s \in TaskStatus \ {"none"}, WriteTask(worker[w].t, s),
         Dies, UNCHANGED <<runs, report, git>>
  PROVE  IInv' /\ Final
<1> DEFINE t == worker[w].t
<1>1. t \in Tasks /\ Working(t) /\ record[t].action \in {"generate", "run"}
  BY WorkerFacts DEF IInv, Threads
<1>2. /\ task' \in [Tasks -> [status : TaskStatus, run : 0..MaxRuns]]
      /\ \A u \in Tasks : task'[u].run = task[u].run
      /\ \A u \in Tasks \ {t} : task'[u] = task[u]
      /\ task'[t].status = s
  BY <1>1, TaskWritten
<1>3. \A u \in Tasks : task'[u].status = "none" => task[u].status = "none"
  BY <1>2
<1>4. \A u \in Tasks : task'[u].status = task[u].status \/ Current(u).status \in {"running", "interrupted"}
                          \/ task[u].run = 0
  BY <1>1, <1>2 DEF IInv, Lives
<1>5. IInv'
  BY <1>2, <1>3, <1>4, DiesKeepsRuns
<1> QED
  BY <1>5 DEF Final

\* What the handler of exceptions writes.
LEMMA HandledFiles ==
  ASSUME IInv, NEW w \in Workers, Busy(w), Handled(w)
  PROVE  Filed(w)
<1>1. record[worker[w].t].action \in {"generate", "run"}
  BY WorkerFacts
<1>2. CASE record[worker[w].t].action = "generate"
  BY <1>2 DEF Handled, Filed, TaskStatus
<1>3. CASE record[worker[w].t].action = "run"
  BY <1>3 DEF Handled, Filed, TaskStatus, RunStatus, Ended
<1> QED
  BY <1>1, <1>2, <1>3

LEMMA FinishesKeeps ==
  ASSUME IInv, NEW w \in Workers, Finishes(w)
  PROVE  IInv' /\ Final
<1> DEFINE t == worker[w].t
           result == worker[w].pc
<1>1. /\ up /\ result \in Results /\ Busy(w) /\ result # "applied" /\ UNCHANGED <<report, git>>
  BY DEF Finishes, Results, Ended, Busy
<1>2. result \in TaskStatus \ {"none"} /\ "failed" \in TaskStatus \ {"none"}
  BY <1>1 DEF Results, TaskStatus, RunStatus, Ended, Stopped
<1>3. torn \in BOOLEAN /\ faults \in 0..MaxFaults /\ stops \in 0..MaxStops
  BY DEF IInv, TypeOK
<1>4. CASE /\ Leaves(w, Outcome(result)) /\ WriteTask(t, result) /\ Sound
           /\ IF record[t].action = "generate" THEN UNCHANGED runs ELSE WriteRun(t, result, head)
  <2>1. Outcome(result) \in {"failed", "paused", "success"}
    BY DEF Outcome
  <2>2. record[t].action \in {"generate", "run"} /\ (record[t].action = "run" => result \in Ended \cup {"paused"})
    BY <1>1, WorkerFacts DEF Results, GenPcs, IInv, Threads
  <2>3. Filed(w)
    BY <1>2, <1>4, <2>2 DEF Filed
  <2>4. Parts(w, Outcome(result))
    BY <1>1, <1>3, <1>4, <2>3 DEF Parts, Sound, bounds
  <2> QED
    BY <1>1, <2>1, <2>4, PartsKeep
<1>5. CASE Handled(w) /\ Faulty /\ UNCHANGED torn
  <2>1. faults' \in 0..MaxFaults /\ stops' = stops /\ crossed' = crossed
    BY <1>3, <1>5, Bounds DEF Faulty
  <2>2. Parts(w, "failed")
    BY <1>1, <1>3, <1>5, <2>1, HandledFiles DEF Parts, Handled
  <2> QED
    BY <1>1, <2>2, PartsKeep
<1>6. CASE /\ Leaves(w, "failed") /\ Faulty /\ torn' = TRUE
           /\ \E status \in {result, "failed"} : WriteTask(t, status)
           /\ UNCHANGED runs
  <2>1. faults' \in 0..MaxFaults /\ stops' = stops /\ crossed' = crossed
    BY <1>3, <1>6, Bounds DEF Faulty
  <2>2. Filed(w)
    BY <1>2, <1>6 DEF Filed
  <2>3. torn' \in BOOLEAN /\ (torn => torn')
    BY <1>6, Zenon
  <2>4. Parts(w, "failed")
    BY <1>1, <1>6, <2>1, <2>2, <2>3 DEF Parts
  <2> QED
    BY <1>1, <2>4, PartsKeep
<1>7. CASE WriteTask(t, result) /\ UNCHANGED runs /\ Dies
  BY <1>1, <1>2, <1>7, WorkerDies
<1> QED
  BY <1>4, <1>5, <1>6, <1>7 DEF Finishes

LEMMA FinishesRaisedKeeps ==
  ASSUME IInv, NEW w \in Workers, FinishesRaised(w)
  PROVE  IInv' /\ Final
<1> DEFINE t == worker[w].t
<1>1. up /\ worker[w].pc = "raised" /\ Busy(w) /\ UNCHANGED <<report, git>>
  BY DEF FinishesRaised, At, Busy
<1>2. torn \in BOOLEAN /\ faults \in 0..MaxFaults /\ stops \in 0..MaxStops
  BY DEF IInv, TypeOK
<1>3. task[t].status \in TaskStatus \ {"none"} /\ "failed" \in TaskStatus \ {"none"}
  <2>1. t \in Tasks /\ Working(t)
    BY <1>1 DEF IInv, Threads
  <2>2. task[t].status # "none"
    BY <2>1 DEF IInv, Lives
  <2> QED
    BY <1>1, <2>2, WorkerFacts DEF TaskStatus, RunStatus, Ended
<1>4. CASE Handled(w) /\ Sound
  <2>1. Parts(w, "failed")
    BY <1>1, <1>2, <1>4, HandledFiles DEF Parts, Handled, Sound, bounds
  <2> QED
    BY <1>1, <2>1, PartsKeep
<1>5. CASE /\ Leaves(w, "failed") /\ Faulty /\ torn' = TRUE
           /\ \E status \in {task[t].status, "failed"} : WriteTask(t, status)
           /\ UNCHANGED runs
  <2>1. faults' \in 0..MaxFaults /\ stops' = stops /\ crossed' = crossed
    BY <1>2, <1>5, Bounds DEF Faulty
  <2>2. Filed(w)
    BY <1>3, <1>5 DEF Filed
  <2>3. torn' \in BOOLEAN /\ (torn => torn')
    BY <1>5, Zenon
  <2>4. Parts(w, "failed")
    BY <1>1, <1>5, <2>1, <2>2, <2>3 DEF Parts
  <2> QED
    BY <1>1, <2>4, PartsKeep
<1>6. CASE WriteTask(t, "failed") /\ UNCHANGED runs /\ Dies
  BY <1>1, <1>3, <1>6, WorkerDies
<1> QED
  BY <1>4, <1>5, <1>6 DEF FinishesRaised

-----------------------------------------------------------------------------
(* The start of a worker.                                                  *)

LEMMA BegunFacts ==
  ASSUME NEW t \in Tasks
  PROVE  Begun(t) \in WorkerRecord /\ Begun(t).pc = "waiting" /\ Begun(t).t = t /\ Begun(t).i = 1
<1>1. 1 \in 0..Rows + 1 /\ 0 \in 0..MaxSteps /\ "waiting" \in WorkerPcs
  BY Bounds DEF WorkerPcs
<1> QED
  BY <1>1 DEF Begun, WorkerRecord

\* The worker that is taken, if the thread starts, what others work for, and
\* the listings under which the Run is started.
LEMMA StartsFacts ==
  ASSUME IInv, NEW t \in Tasks, ~Working(t), NEW action \in {"generate", "run"}, Starts(t, action)
  PROVE  /\ \E w \in Workers : /\ ~Busy(w) /\ worker'[w] \in {Begun(t), worker[w]}
                                /\ \A v \in Workers \ {w} : worker'[v] = worker[v]
         /\ worker' \in [Workers -> WorkerRecord]
         /\ record' \in [Tasks -> [action : {"none", "generate", "run"}, pause : BOOLEAN,
                                   status : {"none", "running", "success", "paused", "failed"}]]
         /\ \A u \in Tasks \ {t} : record'[u] = record[u]
         /\ record'[t].action = action /\ record'[t].status = "running"
         /\ \A v \in Workers : worker[v].t # t
         /\ torn' = torn /\ stops' = stops /\ faults' \in 0..MaxFaults
         /\ crossed \subseteq crossed' /\ crossed' \subseteq Tasks /\ crossed' \subseteq crossed \cup {t}
         /\ \A r \in Readers : reader[r].t = t => t \in crossed'
<1> DEFINE Entry == [action |-> action, status |-> "running", pause |-> FALSE]
           Record == [action : {"none", "generate", "run"}, pause : BOOLEAN,
                      status : {"none", "running", "success", "paused", "failed"}]
<1>1. PICK w \in Workers :
        /\ FreeWorker(w) /\ record' = [record EXCEPT ![t] = Entry]
        /\ worker' = [worker EXCEPT ![w] = Begun(t)] \/ worker' = worker
  BY DEF Starts
<1>9. torn' = torn /\ stops' = stops /\ faults' \in 0..MaxFaults
  <2>1. faults \in 0..MaxFaults
    BY DEF IInv, TypeOK
  <2>2. torn' = torn /\ (UNCHANGED bounds \/ (faults < MaxFaults /\ faults' = faults + 1 /\ UNCHANGED stops))
    BY DEF Starts
  <2> QED
    BY <2>1, <2>2, Bounds DEF bounds
<1>10. /\ crossed \subseteq crossed' /\ crossed' \subseteq Tasks /\ crossed' \subseteq crossed \cup {t}
       /\ \A r \in Readers : reader[r].t = t => t \in crossed'
  <2>1. crossed' = crossed \cup {u \in {t} : \E r \in Readers : reader[r].t = u} /\ crossed \subseteq Tasks
    BY DEF Starts, IInv, TypeOK
  <2> QED
    BY <2>1
<1>2. worker \in [Workers -> WorkerRecord] /\ record \in [Tasks -> Record]
  BY DEF IInv, TypeOK, WorkerRecord
<1>3. Begun(t) \in WorkerRecord
  BY BegunFacts
<1>4. Entry \in Record /\ Entry.action = action /\ Entry.status = "running"
  BY Zenon
<1>5. ~Busy(w)
  BY <1>1 DEF FreeWorker, Busy
<1> HIDE DEF Entry, Record
<1>6. /\ worker' \in [Workers -> WorkerRecord] /\ worker'[w] \in {Begun(t), worker[w]}
      /\ \A v \in Workers \ {w} : worker'[v] = worker[v]
  BY <1>1, <1>2, <1>3
<1>7. record' \in [Tasks -> Record] /\ record'[t] = Entry /\ \A u \in Tasks \ {t} : record'[u] = record[u]
  BY <1>1, <1>2, <1>4
<1>8. \A v \in Workers : worker[v].t # t
  BY NamesAssumption DEF IInv, Threads, Idle
<1> QED
  BY <1>4, <1>5, <1>6, <1>7, <1>8, <1>9, <1>10 DEF Record

\* The threads after it.
LEMMA StartsThreads ==
  ASSUME IInv, NEW t \in Tasks, ~Working(t), NEW action \in {"generate", "run"}, Starts(t, action), up, up' = up
  PROVE  Threads'
<1>1. PICK w \in Workers : /\ ~Busy(w) /\ worker'[w] \in {Begun(t), worker[w]}
                            /\ \A v \in Workers \ {w} : worker'[v] = worker[v]
  BY StartsFacts
<1>2. \/ worker'[w] = worker[w] /\ worker'[w] = Idle /\ worker'[w].pc = "idle"
      \/ worker'[w].pc = "waiting" /\ worker'[w].t = t /\ worker'[w].i = 1
  BY <1>1, BegunFacts DEF IInv, Threads, Idle
<1>3. /\ \A u \in Tasks \ {t} : record'[u] = record[u]
      /\ record'[t].action = action /\ record'[t].status = "running"
      /\ \A v \in Workers : worker[v].t # t
  BY StartsFacts
<1>4. \A v \in Workers : ~Busy(v)' => worker'[v] = Idle
  BY <1>1, <1>2 DEF Busy, IInv, Threads
<1>5. ASSUME NEW v \in Workers, Busy(v)'
      PROVE  /\ up' /\ worker'[v].t \in Tasks /\ Working(worker[v].t)' /\ worker'[v].i >= 1
             /\ record'[worker'[v].t].action # "none"
             /\ record'[worker'[v].t].action = "generate" => worker'[v].i = 1
             /\ worker'[v].pc \in RunPcs => record'[worker'[v].t].action = "run"
             /\ worker'[v].pc \in GenPcs => record'[worker'[v].t].action = "generate"
             /\ worker'[v].pc \in RowPcs => worker'[v].i <= Rows /\ worker'[v].steps < MaxSteps
  <2>1. CASE v = w
    BY <1>2, <1>3, <1>5, <2>1 DEF Busy, Working, RunPcs, GenPcs, RowPcs, Ended
  <2>2. CASE v # w
    <3>1. worker'[v] = worker[v] /\ Busy(v)
      BY <1>1, <1>5, <2>2 DEF Busy
    <3>2. worker[v].t \in Tasks \ {t}
      BY <1>3, <3>1 DEF IInv, Threads
    <3> QED
      BY <1>3, <3>1, <3>2 DEF IInv, Threads, Working
  <2> QED
    BY <2>1, <2>2
<1>6. OneWorker'
  <2> SUFFICES ASSUME NEW u \in Workers, NEW v \in Workers, worker'[u].t = worker'[v].t, worker'[u] # Idle
               PROVE  u = v
    BY DEF OneWorker
  <2>1. CASE u = w
    BY <1>1, <1>2, <1>3, <2>1
  <2>2. CASE u # w
    <3>1. worker'[u] = worker[u] /\ worker'[v] = worker[v]
      BY <1>1, <1>2, <1>3, <2>2
    <3> QED
      BY <3>1 DEF OneWorker, IInv, Threads
  <2> QED
    BY <2>1, <2>2
<1> QED
  BY <1>4, <1>5, <1>6 DEF Threads

\* The rest, when the Task is given a Run that is in progress, or none.
LEMMA StartsKeeps ==
  ASSUME IInv, NEW t \in Tasks, ~Working(t), NEW action \in {"generate", "run"}, Starts(t, action),
         UNCHANGED <<report, git, holder, reader, up>>, up,
         task' \in [Tasks -> [status : TaskStatus, run : 0..MaxRuns]],
         runs' \in [Tasks -> [Numbers -> [status : RunStatus, head : Nat]]],
         \A u \in Tasks \ {t} : task'[u] = task[u] /\ runs'[u] = runs[u],
         task'[t].status # "none",
         action = "generate" => task[t].run = 0 /\ task'[t].run = 0 /\ runs'[t] = runs[t],
         action = "run" =>
           /\ task'[t].run \in Numbers /\ task'[t].run \in {task[t].run, task[t].run + 1}
           /\ Current(t)'.status = "running"
           /\ \A n \in Numbers : n > task'[t].run => runs'[t][n].status \in {"none", "running"}
           /\ torn \/ (~Lost(t) /\ \A n \in Numbers : runs'[t][n].head <= head)
  PROVE  IInv'
<1>1. PICK w \in Workers : /\ ~Busy(w) /\ worker'[w] \in {Begun(t), worker[w]}
                            /\ \A v \in Workers \ {w} : worker'[v] = worker[v]
  BY StartsFacts
<1>2. /\ \A u \in Tasks \ {t} : record'[u] = record[u]
      /\ record'[t].action = action /\ Working(t)'
      /\ \A v \in Workers : worker[v].t # t
      /\ torn' = torn
      /\ crossed \subseteq crossed' /\ crossed' \subseteq Tasks /\ crossed' \subseteq crossed \cup {t}
      /\ \A r \in Readers : reader[r].t = t => t \in crossed'
  BY StartsFacts DEF Working
<1>3. /\ worker'[w].pc \in {"idle", "waiting"} /\ (worker'[w] = worker[w] \/ worker'[w].t = t)
      /\ Busy(w)' => worker'[w].t = t /\ worker'[w].i = 1
  BY <1>1, BegunFacts DEF Busy
<1>4. TypeOK'
  <2>1. /\ worker' \in [Workers -> WorkerRecord]
        /\ record' \in [Tasks -> [action : {"none", "generate", "run"}, pause : BOOLEAN,
                                  status : {"none", "running", "success", "paused", "failed"}]]
    BY StartsFacts
  <2>2. UNCHANGED <<report, repo, head, others, holder, reader, up, torn, stops>> /\ faults' \in 0..MaxFaults
    BY StartsFacts DEF git
  <2> QED
    BY <1>2, <2>1, <2>2 DEF TypeOK, IInv, WorkerRecord
<1>5. Threads'
  BY StartsThreads
<1>6. \A u \in Tasks \ {t} : Current(u)' = Current(u) /\ Working(u)' = Working(u)
  BY <1>2 DEF Current, Working
<1>7. ASSUME NEW v \in Workers \ {w}, Busy(v)'
      PROVE  worker'[v] = worker[v] /\ Busy(v) /\ worker[v].t \in Tasks \ {t}
  BY <1>1, <1>2, <1>7 DEF Busy, IInv, Threads
<1>8. Lives'
  <2>1. \A u \in Tasks : task'[u].status = "none" => task'[u].run = 0 /\ ~Working(u)'
    BY <1>6 DEF IInv, Lives
  <2>2. \A u \in Tasks : Working(u)' /\ record'[u].action = "generate" => task'[u].run = 0
    BY <1>2, <1>6 DEF IInv, Lives
  <2>3. ASSUME NEW v \in Workers, Busy(v)', record'[worker'[v].t].action = "run"
        PROVE  /\ task'[worker'[v].t].run > 0 /\ Current(worker[v].t)'.status \in {"running", "interrupted"}
               /\ worker'[v].t \notin crossed' => Current(worker[v].t)'.status = "running"
    <3>1. CASE v = w
      BY <1>2, <1>3, <2>3, <3>1, Bounds DEF Numbers
    <3>2. CASE v # w
      BY <1>2, <1>6, <1>7, <2>3, <3>2 DEF IInv, Lives
    <3> QED
      BY <3>1, <3>2
  <2>4. \A u \in Tasks : \A n \in Numbers : n > task'[u].run => runs'[u][n].status \in {"none", "running"}
    BY DEF IInv, Lives
  <2> QED
    BY <2>1, <2>2, <2>3, <2>4 DEF Lives
<1>9. Listings'
  <2> SUFFICES ASSUME NEW r \in Readers
               PROVE  /\ reader[r].pc = "idle" => reader[r] = Quiet
                      /\ reader[r].pc # "idle" =>
                           /\ up /\ reader[r].t \in Tasks /\ task'[reader[r].t].run > 0
                           /\ Working(reader[r].t)' => reader[r].t \in crossed'
                      /\ reader[r].pc = "stale" =>
                           /\ reader[r].n \in 1..task'[reader[r].t].run
                           /\ reader[r].t \notin crossed' =>
                                /\ reader[r].n = task'[reader[r].t].run
                                /\ Current(reader[r].t)'.status \in {"running", "interrupted"}
                      /\ reader[r].pc \in {"stale", "half"} => torn' \/ reader[r].t \in crossed'
    BY DEF Listings
  <2>1. CASE reader[r].pc = "idle"
    BY <2>1 DEF IInv, Listings
  <2>2. CASE reader[r].pc # "idle" /\ reader[r].t # t
    <3>1. reader[r].t \in Tasks \ {t}
      BY <2>2 DEF IInv, Listings
    <3>2. task'[reader[r].t] = task[reader[r].t] /\ Working(reader[r].t)' = Working(reader[r].t)
          /\ Current(reader[r].t)' = Current(reader[r].t)
      BY <1>6, <3>1
    <3> QED
      BY <1>2, <2>2, <3>1, <3>2 DEF IInv, Listings
  <2>3. CASE reader[r].pc # "idle" /\ reader[r].t = t
    <3>1. /\ up /\ task[t].run > 0 /\ t \in crossed'
          /\ reader[r].pc = "stale" => reader[r].n \in 1..task[t].run
      BY <1>2, <2>3 DEF IInv, Listings
    <3>2. action = "run" /\ task[t].run \in 0..MaxRuns
      BY <3>1 DEF IInv, TypeOK
    <3>3. task'[t].run \in {task[t].run, task[t].run + 1}
      BY <3>2
    <3>4. task'[t].run > 0 /\ (reader[r].pc = "stale" => reader[r].n \in 1..task'[t].run)
      BY <3>1, <3>2, <3>3, Bounds
    <3> QED
      BY <2>3, <3>1, <3>4
  <2> QED
    BY <2>1, <2>2, <2>3
<1>10. action = "generate" => Current(t)'.status = "none" /\ task'[t].run = 0
  BY DEF Current, Absent
<1>11. Tally'
  <2>1. VerdictIsTrue'
    BY <1>6, <1>10 DEF VerdictIsTrue, IInv, Tally
  <2>2. ASSUME NEW v \in Workers, Busy(v)', ~worker'[v].failed, NEW j \in 1..Rows, j < worker'[v].i
        PROVE  report'[worker'[v].t][j] \in Good
    <3>1. v # w
      BY <1>1, <1>3, <2>2, Bounds
    <3> QED
      BY <1>7, <2>2, <3>1 DEF IInv, Tally
  <2>3. \A v \in Workers : worker'[v].pc = "completed" => ~worker'[v].failed /\ worker'[v].i > Rows
    BY <1>1, <1>3 DEF IInv, Tally
  <2> QED
    BY <2>1, <2>2, <2>3 DEF Tally
<1>12. Agree'
  <2>1. torn' = torn /\ up' = up
    BY <1>2
  <2>2. ASSUME ~torn, NEW u \in Tasks, task'[u].run > 0
        PROVE  Current(u)'.status \in {"running", "interrupted"} \/ task'[u].status = Current(u)'.status \/ u \in crossed'
    <3>1. CASE u = t
      BY <1>10, <2>2, <3>1
    <3>2. CASE u # t
      BY <1>2, <1>6, <2>2, <3>2 DEF IInv, Agree
    <3> QED
      BY <3>1, <3>2
  <2>3. FilesAgree'
    BY <1>2, <1>6 DEF FilesAgree, IInv, Agree
  <2> QED
    BY <2>1, <2>2, <2>3 DEF Agree
<1>14. \A u \in Tasks \ {t} : Behind(u)' = Behind(u)
  BY <1>6 DEF Behind, git
<1>13. Committed'
  <2> SUFFICES ASSUME ~torn PROVE Committed'
    BY <1>2 DEF Committed
  <2>1. Committed /\ repo' = repo /\ head' = head /\ report' = report
    BY DEF IInv, git
  <2>2. AppliedOnce'
    BY <2>1 DEF Committed, AppliedOnce
  <2>3. ASSUME NEW u \in Tasks, NEW i \in 1..Rows, repo[u][i] # 0
        PROVE  report[u][i] = "applied" \/ Lost(u)'
               \/ \E v \in Workers : worker'[v].pc = "applied" /\ worker'[v].t = u /\ worker'[v].i = i
    <3>1. CASE report[u][i] = "applied"
      BY <3>1
    <3>2. CASE Lost(u)
      <4>1. u # t
        <5>1. action = "generate" => ~Lost(t)
          BY DEF Lost, Current, Absent
        <5> QED
          BY <3>2, <5>1
      <4>2. \A v \in Workers : worker'[v].t # u
        BY <1>1, <1>3, <3>2, <4>1 DEF Lost
      <4> QED
        BY <1>6, <1>14, <3>2, <4>1, <4>2 DEF Lost
    <3>3. ASSUME NEW v \in Workers, worker[v].pc = "applied", worker[v].t = u, worker[v].i = i
          PROVE  worker'[v].pc = "applied" /\ worker'[v].t = u /\ worker'[v].i = i
      BY <1>1, <3>3 DEF Busy
    <3> QED
      BY <2>1, <2>3, <3>1, <3>2, <3>3 DEF Committed
  <2>4. \A u \in Tasks : \A n \in Numbers : runs'[u][n].head <= head
    BY <2>1 DEF Committed
  <2>5. \A u \in Tasks : task'[u].run = 0 => \A i \in 1..Rows : repo[u][i] = 0
    <3>1. action = "run" => task'[t].run # 0
      BY Bounds DEF Numbers
    <3>2. action = "run" \/ (action = "generate" /\ task[t].run = 0)
      OBVIOUS
    <3>3. \A u \in Tasks : task'[u].run = 0 => task[u].run = 0
      <4>1. \A u \in Tasks \ {t} : task'[u] = task[u]
        OBVIOUS
      <4> QED
        BY ONLY <3>1, <3>2, <4>1
    <3> QED
      BY <2>1, <3>3 DEF Committed
  <2>6. ASSUME NEW v \in Workers
        PROVE  /\ worker'[v].pc = "apply" => Row(v)' = "clean"
               /\ worker'[v].pc = "applied" => Row(v)' \in {"pending", "clean"} /\ Behind(worker[v].t)'
               /\ worker'[v].pc = "recheck" => Row(v)' \in {"pending", "unapplied"}
    <3>1. CASE worker'[v].pc \notin RowPcs
      BY <3>1 DEF RowPcs
    <3>2. CASE worker'[v].pc \in RowPcs
      <4>1. v # w
        BY <1>1, <1>3, <3>2 DEF RowPcs
      <4>2. worker'[v] = worker[v] /\ worker[v].t \in Tasks \ {t}
        BY <1>7, <3>2, <4>1 DEF Busy, RowPcs
      <4>3. Row(v)' = Row(v) /\ Behind(worker[v].t)' = Behind(worker[v].t)
        BY <1>14, <2>1, <4>2 DEF Row
      <4> QED
        BY <2>1, <4>2, <4>3 DEF Committed
    <3> QED
      BY <3>1, <3>2
  <2> QED
    BY <2>1, <2>2, <2>3, <2>4, <2>5, <2>6 DEF Committed
<1> QED
  BY <1>4, <1>5, <1>8, <1>9, <1>11, <1>12, <1>13 DEF IInv

LEMMA GenerateKeeps ==
  ASSUME IInv, NEW t \in Tasks, Generate(t)
  PROVE  IInv' /\ Final
<1>1. /\ up /\ task[t].status = "none" /\ task[t].run = 0 /\ ~Working(t) /\ Starts(t, "generate")
      /\ UNCHANGED <<report, git, holder, reader, up, runs>>
      /\ task' = [task EXCEPT ![t].status = "generating"]
  BY DEF Generate, IInv, Lives
<1>3. /\ task' \in [Tasks -> [status : TaskStatus, run : 0..MaxRuns]]
      /\ \A u \in Tasks : task'[u].run = task[u].run
      /\ \A u \in Tasks \ {t} : task'[u] = task[u]
      /\ task'[t].status = "generating"
  BY <1>1, TaskWritten DEF WriteTask, TaskStatus
<1>4. runs' = runs /\ runs' \in [Tasks -> [Numbers -> [status : RunStatus, head : Nat]]]
  BY <1>1 DEF IInv, TypeOK
<1>5. IInv'
  BY <1>1, <1>3, <1>4, StartsKeeps
<1> QED
  BY <1>4, <1>5 DEF Final

\* The file of the Run that is started, and the Run that was there before.
LEMMA CreateFacts ==
  ASSUME IInv, NEW t \in Tasks, CreateRun(t)
  PROVE  LET f == RunFile(t) IN
         /\ ~Working(t) /\ up /\ UNCHANGED <<report, git>>
         /\ f.n \in Numbers /\ f.n \in {task[t].run, task[t].run + 1} /\ task[t].run \in Nat
         /\ runs' \in [Tasks -> [Numbers -> [status : RunStatus, head : Nat]]]
         /\ \A u \in Tasks \ {t} : runs'[u] = runs[u]
         /\ \A n \in Numbers \ {f.n} : runs'[t][n] = runs[t][n]
         /\ runs'[t][f.n].status = "running" /\ (torn \/ runs'[t][f.n].head <= head)
         /\ runs[t][f.n].status \notin Ended
         /\ torn \/ ~(Current(t).status \in {"running", "interrupted"} /\ Current(t).head < head)
         /\ Current(t).status # "running"
         /\ \A n \in Numbers : n > task[t].run => runs'[t][n].status \in {"none", "running"}
<1> DEFINE f == RunFile(t)
<1>1. /\ up /\ ~Working(t) /\ UNCHANGED <<report, git>>
      /\ TargetIsValid(t) /\ (Resumable(t) \/ Startable(t))
      /\ runs' = [runs EXCEPT ![t][f.n] = [status |-> "running", head |-> f.head]]
  BY DEF CreateRun
<1>2. /\ runs \in [Tasks -> [Numbers -> [status : RunStatus, head : Nat]]] /\ head \in Nat
      /\ task[t].run \in 0..MaxRuns /\ task[t].run \in Nat
  BY Bounds DEF IInv, TypeOK
<1>3. torn \/ \A n \in Numbers : runs[t][n].head <= head
  BY DEF IInv, Committed
<1>4. \A n \in Numbers : n > task[t].run => runs[t][n].status \in {"none", "running"}
  BY DEF IInv, Lives
<1>5. /\ f.n \in Numbers /\ f.n \in {task[t].run, task[t].run + 1} /\ f.head \in Nat
      /\ torn \/ f.head <= head
      /\ runs[t][f.n].status \notin Ended
  <2>1. CASE Resumable(t)
    <3>1. f = [n |-> task[t].run, head |-> Current(t).head] /\ Current(t).status \in Stopped
      BY <2>1 DEF RunFile, Resumable
    <3>2. task[t].run # 0
      BY <3>1 DEF Current, Absent, Stopped
    <3>3. task[t].run \in Numbers /\ Current(t) = runs[t][task[t].run]
      BY <1>2, <3>2, Bounds DEF Numbers, Current
    <3>4. Current(t).head \in Nat
      BY <1>2, <3>3
    <3> QED
      BY <1>3, <3>1, <3>3, <3>4 DEF Stopped, Ended
  <2>2. CASE ~Resumable(t)
    <3>1. f = [n |-> task[t].run + 1, head |-> head] /\ task[t].run < MaxRuns
      BY <1>1, <2>2 DEF RunFile, Startable
    <3>2. task[t].run + 1 \in Numbers /\ task[t].run + 1 > task[t].run
      BY <1>2, <3>1, Bounds DEF Numbers
    <3>3. head <= head
      BY <1>2
    <3> QED
      BY <1>2, <1>4, <3>1, <3>2, <3>3 DEF Ended
  <2> QED
    BY <2>1, <2>2
<1>6. [status |-> "running", head |-> f.head] \in [status : RunStatus, head : Nat]
  BY <1>5 DEF RunStatus
<1> HIDE DEF f
<1>7. /\ runs'[t] = [runs[t] EXCEPT ![f.n] = [status |-> "running", head |-> f.head]]
      /\ \A u \in Tasks \ {t} : runs'[u] = runs[u]
      /\ runs' \in [Tasks -> [Numbers -> [status : RunStatus, head : Nat]]]
  BY <1>1, <1>2, <1>5, <1>6
<1>8. /\ runs'[t][f.n] = [status |-> "running", head |-> f.head]
      /\ \A n \in Numbers \ {f.n} : runs'[t][n] = runs[t][n]
  <2>1. runs[t] \in [Numbers -> [status : RunStatus, head : Nat]]
    BY <1>2
  <2> QED
    BY <1>5, <1>7, <2>1
<1>9. /\ torn \/ ~(Current(t).status \in {"running", "interrupted"} /\ Current(t).head < head)
      /\ Current(t).status # "running"
  <2>1. CASE Resumable(t)
    BY <1>1, <1>2, <2>1 DEF Resumable, TargetIsValid, Stopped
  <2>2. CASE ~Resumable(t)
    BY <1>1, <2>2 DEF Startable, Ended
  <2> QED
    BY <2>1, <2>2
<1>10. \A n \in Numbers : n > task[t].run => runs'[t][n].status \in {"none", "running"}
  BY <1>4, <1>8
<1> QED
  BY <1>1, <1>2, <1>5, <1>7, <1>8, <1>9, <1>10 DEF f

\* The current Run afterwards, if task.json stays as it was.
LEMMA CreateLeaves ==
  ASSUME IInv, NEW t \in Tasks, CreateRun(t), task' = task
  PROVE  /\ \A u \in Tasks : Current(u)' = Current(u) \/ (u = t /\ Current(u)'.status = "running")
         /\ \A u \in Tasks : \A n \in Numbers : n > task'[u].run => runs'[u][n].status \in {"none", "running"}
         /\ torn \/ \A u \in Tasks : \A n \in Numbers : runs'[u][n].head <= head
         /\ VerdictIsTrue'
<1>1. ASSUME NEW u \in Tasks
      PROVE  Current(u)' = Current(u) \/ (u = t /\ Current(u)'.status = "running")
  <2>1. task[u].run \in 0..MaxRuns
    BY DEF IInv, TypeOK
  <2>2. task[u].run # 0 => task[u].run \in Numbers
    BY <2>1, Bounds DEF Numbers
  <2>3. Current(u) = (IF task[u].run = 0 THEN Absent ELSE runs[u][task[u].run])
        /\ Current(u)' = (IF task[u].run = 0 THEN Absent ELSE runs'[u][task[u].run])
    BY DEF Current
  <2> QED
    BY <2>2, <2>3, CreateFacts
<1>2. \A u \in Tasks : \A n \in Numbers : n > task'[u].run => runs'[u][n].status \in {"none", "running"}
  BY CreateFacts DEF IInv, Lives
<1>3. torn \/ \A u \in Tasks : \A n \in Numbers : runs'[u][n].head <= head
  <2>1. torn \/ \A u \in Tasks : \A n \in Numbers : runs[u][n].head <= head
    BY DEF IInv, Committed
  <2>2. torn \/ \A n \in Numbers : runs'[t][n].head <= head
    BY <2>1, CreateFacts
  <2>3. torn \/ \A u \in Tasks \ {t} : \A n \in Numbers : runs'[u][n].head <= head
    BY <2>1, CreateFacts
  <2> QED
    BY <2>2, <2>3
<1>4. VerdictIsTrue'
  BY <1>1, CreateFacts DEF VerdictIsTrue, IInv, Tally
<1> QED
  BY <1>1, <1>2, <1>3, <1>4

LEMMA CreateRunKeeps ==
  ASSUME IInv, NEW t \in Tasks, CreateRun(t)
  PROVE  IInv' /\ Final
<1> DEFINE f == RunFile(t)
<1>1. Final
  BY CreateFacts DEF Final
<1>2. CASE /\ task' = [task EXCEPT ![t] = [status |-> "running", run |-> f.n]]
           /\ Starts(t, "run") /\ UNCHANGED <<holder, reader, up>>
  <2>1. f.n \in {task[t].run, task[t].run + 1}
    BY CreateFacts
  <2>2. /\ [status |-> "running", run |-> f.n] \in [status : TaskStatus, run : 0..MaxRuns]
        /\ task \in [Tasks -> [status : TaskStatus, run : 0..MaxRuns]]
    <3>1. f.n \in 0..MaxRuns
      BY CreateFacts, Bounds DEF Numbers
    <3> QED
      BY <3>1 DEF TaskStatus, RunStatus, IInv, TypeOK
  <2>3. /\ task' \in [Tasks -> [status : TaskStatus, run : 0..MaxRuns]]
        /\ \A u \in Tasks \ {t} : task'[u] = task[u]
        /\ task'[t].status = "running" /\ task'[t].run = f.n
    BY <1>2, <2>2
  <2>4. Current(t)'.status = "running"
    <3>1. f.n # 0
      BY CreateFacts, Bounds DEF Numbers
    <3>2. Current(t)' = runs'[t][f.n]
      BY <2>3, <3>1 DEF Current
    <3> QED
      BY <3>2, CreateFacts
  <2>5. torn \/ (~Lost(t) /\ \A n \in Numbers : runs'[t][n].head <= head)
    <3>1. torn \/ \A n \in Numbers : runs[t][n].head <= head
      BY DEF IInv, Committed
    <3>2. torn \/ \A n \in Numbers : runs'[t][n].head <= head
      BY <3>1, CreateFacts
    <3> QED
      BY <3>2, CreateFacts DEF Lost, Behind
  <2>6. \A n \in Numbers : n > f.n => runs'[t][n].status \in {"none", "running"}
    <3>1. \A n \in Numbers : n > f.n => n > task[t].run
      <4>1. f.n \in {task[t].run, task[t].run + 1} /\ task[t].run \in Nat
        BY CreateFacts
      <4>2. \A n \in Numbers : n \in Nat
        BY Bounds DEF Numbers
      <4> HIDE DEF f
      <4> QED
        BY <4>1, <4>2
    <3> QED
      BY <3>1, CreateFacts
  <2>7. UNCHANGED <<report, git, holder, reader, up>> /\ up /\ ~Working(t)
    BY <1>2, CreateFacts
  <2>8. IInv'
    BY <1>2, <2>1, <2>3, <2>4, <2>5, <2>6, <2>7, CreateFacts, StartsKeeps
  <2> QED
    BY <1>1, <2>8
<1>3. CASE UNCHANGED task /\ Dies
  <2>1. /\ task' = task /\ task' \in [Tasks -> [status : TaskStatus, run : 0..MaxRuns]]
        /\ \A u \in Tasks : task'[u].status = "none" => task'[u].run = 0
        /\ \A u \in Tasks : task'[u].run = task[u].run
    BY <1>3 DEF IInv, TypeOK, Lives
  <2>2. torn \/ \A u \in Tasks : task'[u].run > 0 =>
           Current(u)'.status \in {"running", "interrupted"} \/ task'[u].status = Current(u)'.status \/ u \in crossed
    BY <1>3, CreateLeaves DEF IInv, Agree
  <2>3. torn \/ \A u \in Tasks : Current(u).status \in {"running", "interrupted"} /\ Current(u).head < head =>
           Current(u)'.status \in {"running", "interrupted"} /\ Current(u)'.head < head
    BY <1>3, CreateLeaves, CreateFacts
  <2>4. IInv'
    BY <1>3, <2>1, <2>2, <2>3, CreateLeaves, CreateFacts, DiesKeeps
  <2> QED
    BY <1>1, <2>4
<1>4. CASE UNCHANGED task /\ Faulty /\ torn' = TRUE /\ UNCHANGED memory
  <2>1. /\ task' = task /\ UNCHANGED <<record, worker, holder, reader, up, report, repo, others, head, crossed, stops>>
        /\ faults' \in 0..MaxFaults
    <3>1. UNCHANGED <<task, record, worker, holder, reader, up, crossed, stops>>
      BY <1>4 DEF memory, Faulty
    <3>2. UNCHANGED <<report, repo, head, others>>
      BY CreateFacts DEF git
    <3>3. faults' \in 0..MaxFaults
      BY <1>4, Bounds DEF Faulty, IInv, TypeOK
    <3> QED
      BY <3>1, <3>2, <3>3
  <2>2. Current(t)' = Current(t) \/ Current(t)'.status = "running"
    BY <2>1, CreateLeaves
  <2>3. \A u \in Tasks \ {t} : Current(u)' = Current(u)
    BY <2>1, CreateFacts DEF Current
  <2>4. \A v \in Workers : Busy(v) => worker[v].t \in Tasks \ {t}
    BY CreateFacts DEF IInv, Threads
  <2>5. TypeOK'
    <3>1. torn' \in BOOLEAN
      BY <1>4, Zenon
    <3> QED
      BY <2>1, <3>1, CreateFacts DEF TypeOK, IInv
  <2>6. Threads'
    BY <2>1 DEF IInv, Threads, OneWorker, Busy, Working
  <2>7. Lives'
    <3>1. \A v \in Workers : Busy(v) /\ record[worker[v].t].action = "run" =>
       /\ task[worker[v].t].run > 0 /\ Current(worker[v].t)'.status \in {"running", "interrupted"}
       /\ worker[v].t \notin crossed => Current(worker[v].t)'.status = "running"
      BY <2>1, <2>3, <2>4 DEF IInv, Lives
    <3>2. \A u \in Tasks : \A n \in Numbers : n > task'[u].run => runs'[u][n].status \in {"none", "running"}
      BY <2>1, CreateLeaves
    <3> QED
      BY <2>1, <3>1, <3>2 DEF Lives, IInv, Busy, Working
  <2>8. Listings'
    <3> SUFFICES ASSUME NEW r \in Readers
                 PROVE  /\ reader[r].pc = "idle" => reader[r] = Quiet
                        /\ reader[r].pc # "idle" =>
                             /\ up /\ reader[r].t \in Tasks /\ task[reader[r].t].run > 0
                             /\ Working(reader[r].t) => reader[r].t \in crossed
                        /\ reader[r].pc = "stale" =>
                             /\ reader[r].n \in 1..task[reader[r].t].run
                             /\ reader[r].t \notin crossed =>
                                  /\ reader[r].n = task[reader[r].t].run
                                  /\ Current(reader[r].t)'.status \in {"running", "interrupted"}
      BY <1>4, <2>1 DEF Listings, Working
    <3>1. /\ reader[r].pc = "idle" => reader[r] = Quiet
          /\ reader[r].pc # "idle" =>
               /\ up /\ reader[r].t \in Tasks /\ task[reader[r].t].run > 0
               /\ Working(reader[r].t) => reader[r].t \in crossed
          /\ reader[r].pc = "stale" =>
               /\ reader[r].n \in 1..task[reader[r].t].run
               /\ reader[r].t \notin crossed =>
                    reader[r].n = task[reader[r].t].run /\ Current(reader[r].t).status \in {"running", "interrupted"}
      BY DEF IInv, Listings
    <3>2. ASSUME reader[r].pc = "stale", Current(reader[r].t).status \in {"running", "interrupted"}
          PROVE  Current(reader[r].t)'.status \in {"running", "interrupted"}
      <4>1. reader[r].t \in Tasks
        BY <3>1, <3>2
      <4>2. reader[r].t = reader'[r].t
        BY <2>1
      <4>3. CASE reader[r].t = t
        BY <2>2, <3>2, <4>2, <4>3
      <4>4. CASE reader[r].t # t
        BY <2>3, <3>2, <4>1, <4>2, <4>4
      <4> QED
        BY <4>3, <4>4
    <3> QED
      BY <3>1, <3>2
  <2>9. Tally'
    BY <2>1, CreateLeaves DEF IInv, Tally, Busy
  <2>10. Agree' /\ Committed'
    BY <1>4 DEF Agree, FilesAgree, Committed
  <2> QED
    BY <1>1, <2>5, <2>6, <2>7, <2>8, <2>9, <2>10 DEF IInv
<1> QED
  BY <1>2, <1>3, <1>4 DEF CreateRun

-----------------------------------------------------------------------------
(* The other steps.                                                        *)

\* A step that touches neither the files nor the workers; the branch may move on.
LEMMA Aside ==
  ASSUME IInv, TypeOK', Listings', UNCHANGED <<task, runs, report, repo, worker, up, torn, crossed>>,
         head' \in Nat, head' >= head,
         \A r \in Readers : \/ reader'[r] = reader[r] \/ reader'[r].pc # "stale"
                            \/ reader'[r].t \in Tasks /\ reader'[r].head = Current(reader[r].t).head /\ reader'[r].t = reader[r].t,
         \A u \in Tasks : record'[u].action = record[u].action /\ record'[u].status = record[u].status
  PROVE  IInv' /\ Final
<1>1. /\ \A u \in Tasks : Current(u)' = Current(u) /\ Working(u)' = Working(u)
      /\ \A w \in Workers : Busy(w)' = Busy(w) /\ Row(w)' = Row(w)
  BY DEF Current, Working, Busy, Row
<1>2. \A w \in Workers : Busy(w) => worker[w].t \in Tasks
  BY DEF IInv, Threads
<1>3. Threads'
  BY <1>1, <1>2 DEF IInv, Threads, OneWorker
<1>4. Lives'
  <2>1. \A w \in Workers : Busy(w) /\ record[worker[w].t].action = "run" =>
          /\ Current(worker[w].t)'.status \in {"running", "interrupted"}
          /\ worker[w].t \notin crossed => Current(worker[w].t)'.status = "running"
    BY <1>1, <1>2 DEF IInv, Lives
  <2> QED
    BY <1>1, <1>2, <2>1 DEF IInv, Lives
<1>5. Tally' /\ Agree'
  BY <1>1 DEF IInv, Tally, VerdictIsTrue, Agree, FilesAgree
<1>6. Committed'
  <2> SUFFICES ASSUME ~torn PROVE Committed'
    BY DEF Committed
  <2>1. Committed /\ head \in Nat
    BY DEF IInv, TypeOK
  <2>2. \A u \in Tasks : \A n \in Numbers : runs[u][n].head \in Nat /\ runs[u][n].head <= head
    BY <2>1 DEF Committed, IInv, TypeOK
  <2>3. \A u \in Tasks : Current(u).head \in Nat /\ Current(u).head <= head
    <3>1. \A u \in Tasks : task[u].run \in 0..MaxRuns
      BY DEF IInv, TypeOK
    <3> QED
      BY <2>1, <2>2, <3>1, Bounds DEF Current, Absent, Numbers
  <2>8. \A r \in Readers : reader[r].head \in Nat /\ (reader[r].pc = "stale" => reader[r].head <= head)
    BY <2>1 DEF Committed, IInv, TypeOK
  <2>9. ASSUME NEW u \in Tasks, Behind(u)
        PROVE  Behind(u)'
    <3>1. Current(u)'.head < head'
      BY <1>1, <2>1, <2>3, <2>9 DEF Behind
    <3>2. ASSUME NEW r \in Readers, reader'[r].pc = "stale", reader'[r].t = u
          PROVE  reader'[r].head < head'
      <4>1. CASE reader'[r] = reader[r]
        BY <2>1, <2>8, <2>9, <3>2, <4>1 DEF Behind
      <4>2. CASE reader'[r].head = Current(u).head
        BY <2>1, <2>3, <2>9, <4>2 DEF Behind
      <4> QED
        BY <3>2, <4>1, <4>2
    <3> QED
      BY <3>1, <3>2 DEF Behind
  <2>4. \A u \in Tasks : Lost(u) => Lost(u)'
    BY <1>1, <2>9 DEF Lost
  <2>7. ASSUME NEW r \in Readers, reader'[r].pc = "stale"
        PROVE  reader'[r].head <= head'
    <3>1. CASE reader'[r] = reader[r]
      BY <2>1, <2>7, <2>8, <3>1
    <3>2. CASE reader'[r].t \in Tasks /\ reader'[r].head = Current(reader[r].t).head /\ reader'[r].t = reader[r].t
      BY <2>1, <2>3, <3>2
    <3> QED
      BY <2>7, <3>1, <3>2
  <2>5. \A u \in Tasks : \A n \in Numbers : runs'[u][n].head <= head'
    BY <2>1, <2>2
  <2>6. ASSUME NEW w \in Workers, worker[w].pc = "applied"
        PROVE  Behind(worker[w].t)'
    <3>1. worker[w].t \in Tasks /\ Behind(worker[w].t)
      BY <1>2, <2>1, <2>6 DEF Busy, Committed
    <3>2. worker'[w].t = worker[w].t
      OBVIOUS
    <3> QED
      BY <2>9, <3>1, <3>2
  <2> QED
    BY <1>1, <2>1, <2>4, <2>5, <2>6, <2>7 DEF Committed, AppliedOnce
<1> QED
  BY <1>3, <1>4, <1>5, <1>6 DEF IInv, Final

LEMMA PauseKeeps ==
  ASSUME IInv, NEW t \in Tasks, Pause(t)
  PROVE  IInv' /\ Final
<1> DEFINE Record == [action : {"none", "generate", "run"}, pause : BOOLEAN,
                      status : {"none", "running", "success", "paused", "failed"}]
<1>1. /\ UNCHANGED <<task, runs, report, repo, head, others, worker, holder, reader, up, torn, crossed, stops, faults>>
      /\ record' = [record EXCEPT ![t].pause = TRUE] /\ record \in [Tasks -> Record] /\ head \in Nat
  BY DEF Pause, Sound, files, git, bounds, IInv, TypeOK
<1>2. \A u \in Tasks : record[u] \in Record /\ record'[u] = IF u = t THEN [record[u] EXCEPT !.pause = TRUE] ELSE record[u]
  BY <1>1
<1>3. \A u \in Tasks : record'[u] \in Record /\ record'[u].action = record[u].action /\ record'[u].status = record[u].status
  BY <1>2
<1> HIDE DEF Record
<1>4. record' \in [Tasks -> Record]
  BY <1>1, <1>3
<1>5. TypeOK'
  BY <1>1, <1>4 DEF TypeOK, IInv, Record
<1>6. Listings'
  BY <1>1, <1>3 DEF IInv, Listings, Working, Current
<1> QED
  BY <1>1, <1>3, <1>5, <1>6, Aside

LEMMA OtherKeeps ==
  ASSUME IInv, OtherTakes \/ OtherFrees
  PROVE  IInv' /\ Final
<1>1. /\ UNCHANGED <<task, runs, report, repo, record, worker, reader, up, torn, crossed, stops, faults>>
      /\ holder' \in {Nobody, Other}
  BY DEF OtherTakes, OtherFrees, InService, files, git, Sound, bounds
<1>2. head' \in Nat /\ head' >= head /\ others' \in 0..MaxOthers
  BY Bounds DEF OtherTakes, OtherFrees, git, IInv, TypeOK
<1>3. TypeOK'
  BY <1>1, <1>2 DEF TypeOK, IInv
<1>4. Listings'
  BY <1>1 DEF IInv, Listings, Working, Current
<1> QED
  BY <1>1, <1>2, <1>3, <1>4, Aside

LEMMA LooksKeeps ==
  ASSUME IInv, NEW r \in Readers, NEW t \in Tasks, Looks(r, t)
  PROVE  IInv' /\ Final
<1> DEFINE Reading == [pc : {"idle", "looked", "stale", "half"}, t : Tasks \cup {"none"}, n : 0..MaxRuns, head : Nat]
           Looked == [pc |-> "looked", t |-> t, n |-> 0, head |-> 0]
<1>1. /\ UNCHANGED <<task, runs, report, repo, head, others, record, worker, holder, up, torn, crossed, stops, faults>>
      /\ up /\ ~Working(t) /\ task[t].run > 0
      /\ reader' = [reader EXCEPT ![r] = Looked] /\ reader \in [Readers -> Reading]
  BY DEF Looks, Sound, files, git, bounds, IInv, TypeOK
<1>2. Looked \in Reading /\ Looked.pc = "looked" /\ Looked.t = t
  BY Bounds
<1> HIDE DEF Looked, Reading
<1>3. reader' \in [Readers -> Reading] /\ \A s \in Readers : reader'[s] = IF s = r THEN Looked ELSE reader[s]
  BY <1>1, <1>2
<1>4. TypeOK'
  BY <1>1, <1>3 DEF TypeOK, IInv, Reading
<1>5. Listings'
  BY <1>1, <1>2, <1>3 DEF IInv, Listings, Working, Current
<1>6. head' \in Nat /\ head' >= head
  BY <1>1 DEF IInv, TypeOK
<1>7. \A s \in Readers : reader'[s] = reader[s] \/ reader'[s].pc # "stale"
  BY <1>2, <1>3
<1> QED
  BY <1>1, <1>4, <1>5, <1>6, <1>7, Aside

LEMMA ReadsKeeps ==
  ASSUME IInv, NEW r \in Readers, Reads(r)
  PROVE  IInv' /\ Final
<1> DEFINE t == reader[r].t
           Reading == [pc : {"idle", "looked", "stale", "half"}, t : Tasks \cup {"none"}, n : 0..MaxRuns, head : Nat]
           x == IF Current(t).status = "running"
                THEN [pc |-> "stale", t |-> t, n |-> task[t].run, head |-> Current(t).head] ELSE Quiet
<1>1. /\ UNCHANGED <<task, runs, report, repo, head, others, record, worker, holder, up, torn, crossed, stops, faults>>
      /\ up /\ reader[r].pc = "looked"
      /\ reader' = [reader EXCEPT ![r] = x] /\ reader \in [Readers -> Reading]
  BY DEF Reads, Sound, files, git, bounds, IInv, TypeOK
<1>2. up /\ t \in Tasks /\ task[t].run > 0 /\ (Working(t) => t \in crossed)
  BY <1>1 DEF IInv, Listings
<1>3. Current(t).status = "running" => torn \/ t \in crossed
  BY <1>2 DEF IInv, Agree, FilesAgree
<1>4. task[t].run \in Numbers /\ task[t].run \in 0..MaxRuns /\ Current(t).head \in Nat
  <2>1. task[t].run \in Numbers /\ task[t].run \in 0..MaxRuns
    BY <1>2, Bounds DEF IInv, TypeOK, Numbers
  <2> QED
    BY <1>2, <2>1, Bounds DEF Current, IInv, TypeOK, Numbers
<1>5. /\ x \in Reading /\ (x.pc = "idle" => x = Quiet) /\ (x.pc # "idle" => x.t = t)
      /\ x.pc \in {"idle", "stale"} /\ (x.pc = "stale" => Current(t).status = "running" /\ x.n = task[t].run /\ x.head = Current(t).head)
  BY <1>2, <1>4, Bounds DEF Quiet
<1> HIDE DEF x, Reading
<1>6. reader' \in [Readers -> Reading] /\ \A s \in Readers : reader'[s] = IF s = r THEN x ELSE reader[s]
  BY <1>1, <1>5
<1>7. TypeOK'
  BY <1>1, <1>6 DEF TypeOK, IInv, Reading
<1>8. Listings'
  <2> SUFFICES ASSUME NEW s \in Readers
               PROVE  /\ reader'[s].pc = "idle" => reader'[s] = Quiet
                      /\ reader'[s].pc # "idle" =>
                           /\ up /\ reader'[s].t \in Tasks /\ task[reader'[s].t].run > 0
                           /\ Working(reader[s].t)' => reader'[s].t \in crossed
                      /\ reader'[s].pc = "stale" =>
                           /\ reader'[s].n \in 1..task[reader'[s].t].run
                           /\ reader'[s].t \notin crossed =>
                                /\ reader'[s].n = task[reader'[s].t].run
                                /\ Current(reader[s].t)'.status \in {"running", "interrupted"}
                      /\ reader'[s].pc \in {"stale", "half"} => torn \/ reader'[s].t \in crossed
    BY <1>1 DEF Listings
  <2>1. \A u \in Tasks : Current(u)' = Current(u) /\ Working(u)' = Working(u)
    BY <1>1 DEF Current, Working
  <2>2. CASE s = r
    <3>1. reader'[s] = x
      BY <1>6, <2>2
    <3>2. task[t].run \in 1..task[t].run
      BY <1>2, <1>4
    <3> QED
      BY <1>2, <1>3, <1>5, <2>1, <3>1, <3>2
  <2>3. CASE s # r
    <3>1. reader'[s] = reader[s]
      BY <1>6, <2>3
    <3> QED
      BY <2>1, <3>1 DEF IInv, Listings
  <2> QED
    BY <2>2, <2>3
<1>9. head' \in Nat /\ head' >= head
  BY <1>1 DEF IInv, TypeOK
<1>10. \A s \in Readers : \/ reader'[s] = reader[s] \/ reader'[s].pc # "stale"
                          \/ reader'[s].t \in Tasks /\ reader'[s].head = Current(reader[s].t).head /\ reader'[s].t = reader[s].t
  BY <1>2, <1>5, <1>6
<1> QED
  BY <1>1, <1>7, <1>8, <1>9, <1>10, Aside

\* A listing has more to do than look only after a failed write, or when a Run
\* was started under it; what it writes is about a Run that there is.
LEMMA ListingFacts ==
  ASSUME IInv, NEW r \in Readers, reader[r].pc \in {"stale", "half"}
  PROVE  /\ torn \/ reader[r].t \in crossed
         /\ up /\ reader[r].t \in Tasks /\ (Working(reader[r].t) => reader[r].t \in crossed)
         /\ task[reader[r].t].run \in Numbers /\ Current(reader[r].t) = runs[reader[r].t][task[reader[r].t].run]
         /\ \A w \in Workers : Busy(w) => worker[w].t \in Tasks /\ (worker[w].t = reader[r].t => reader[r].t \in crossed)
<1>1. /\ torn \/ reader[r].t \in crossed
      /\ up /\ reader[r].t \in Tasks /\ (Working(reader[r].t) => reader[r].t \in crossed) /\ task[reader[r].t].run > 0
  BY DEF IInv, Listings
<1>2. task[reader[r].t].run \in Numbers
  BY <1>1, Bounds DEF IInv, TypeOK, Numbers
<1>3. \A w \in Workers : Busy(w) => worker[w].t \in Tasks /\ Working(worker[w].t)
  BY DEF IInv, Threads
<1>4. Current(reader[r].t) = runs[reader[r].t][task[reader[r].t].run]
  BY <1>1 DEF Current
<1> QED
  BY <1>1, <1>2, <1>3, <1>4

\* The Run that is written over: the current one, or one before it if a Run was
\* started under the listing.
LEMMA InterruptsFacts ==
  ASSUME IInv, NEW r \in Readers, NEW t \in Tasks, t = reader[r].t, Interrupts(r)
  PROVE  /\ UNCHANGED <<task, report, repo, head, others, record, worker, holder, up, torn, crossed, stops, faults>>
         /\ reader[r].pc = "stale" /\ reader[r].n \in 1..task[t].run /\ task[t].run \in Numbers /\ reader[r].n \in Numbers
         /\ t \notin crossed => reader[r].n = task[t].run /\ Current(t).status \in {"running", "interrupted"}
         /\ runs' \in [Tasks -> [Numbers -> [status : RunStatus, head : Nat]]]
         /\ \A u \in Tasks \ {t} : runs'[u] = runs[u]
         /\ \A n \in Numbers : n # reader[r].n => runs'[t][n] = runs[t][n]
         /\ runs'[t][reader[r].n] = [status |-> "interrupted", head |-> reader[r].head]
         /\ reader' \in [Readers -> [pc : {"idle", "looked", "stale", "half"}, t : Tasks \cup {"none"},
                                     n : 0..MaxRuns, head : Nat]]
         /\ \A s \in Readers : reader'[s].t = reader[s].t /\ reader'[s].n = reader[s].n
         /\ \A s \in Readers : s # r => reader'[s] = reader[s]
         /\ reader'[r].pc = "half"
         /\ \A u \in Tasks \ {t} : Current(u)' = Current(u)
         /\ Current(t)' = Current(t) \/ Current(t)' = [status |-> "interrupted", head |-> reader[r].head]
         /\ t \notin crossed => Current(t)'.status = "interrupted"
<1> DEFINE Reading == [pc : {"idle", "looked", "stale", "half"}, t : Tasks \cup {"none"}, n : 0..MaxRuns, head : Nat]
           n0 == reader[r].n
           y == [status |-> "interrupted", head |-> reader[r].head]
<1>1. /\ UNCHANGED <<task, report, repo, head, others, record, worker, holder, up, torn, crossed, stops, faults>>
      /\ reader[r].pc = "stale" /\ task[t].run \in Numbers /\ Current(t) = runs[t][task[t].run]
  BY ListingFacts DEF Interrupts, Sound, git, bounds
<1>2. /\ n0 \in 1..task[t].run
      /\ t \notin crossed => n0 = task[t].run /\ Current(t).status \in {"running", "interrupted"}
  BY <1>1 DEF IInv, Listings
<1>3. n0 \in Numbers /\ task[t].run # 0
  BY <1>1, <1>2, Bounds DEF Numbers
<1>4. /\ runs' = [runs EXCEPT ![t][n0] = y] /\ reader' = [reader EXCEPT ![r].pc = "half"]
      /\ runs \in [Tasks -> [Numbers -> [status : RunStatus, head : Nat]]] /\ reader \in [Readers -> Reading]
  BY DEF Interrupts, IInv, TypeOK
<1>5. y \in [status : RunStatus, head : Nat]
  BY <1>4 DEF RunStatus, Stopped
<1>6. /\ reader' \in [Readers -> Reading]
      /\ \A s \in Readers : reader'[s].t = reader[s].t /\ reader'[s].n = reader[s].n
      /\ \A s \in Readers : s # r => reader'[s] = reader[s]
      /\ reader'[r].pc = "half"
  <2>1. reader[r] \in Reading /\ [reader[r] EXCEPT !.pc = "half"] \in Reading
    BY <1>4
  <2>2. [reader[r] EXCEPT !.pc = "half"].t = reader[r].t /\ [reader[r] EXCEPT !.pc = "half"].n = reader[r].n
        /\ [reader[r] EXCEPT !.pc = "half"].pc = "half"
    BY <2>1
  <2> HIDE DEF Reading
  <2> QED
    BY <1>4, <2>1, <2>2
<1> HIDE DEF y, n0, Reading
<1>7. /\ runs' \in [Tasks -> [Numbers -> [status : RunStatus, head : Nat]]]
      /\ \A u \in Tasks \ {t} : runs'[u] = runs[u]
      /\ \A n \in Numbers : n # n0 => runs'[t][n] = runs[t][n]
      /\ runs'[t][n0] = y
  <2>1. runs[t] \in [Numbers -> [status : RunStatus, head : Nat]]
    BY <1>4
  <2>2. /\ runs'[t] = [runs[t] EXCEPT ![n0] = y]
        /\ \A u \in Tasks \ {t} : runs'[u] = runs[u]
        /\ runs' \in [Tasks -> [Numbers -> [status : RunStatus, head : Nat]]]
    BY <1>3, <1>4, <1>5, <2>1
  <2> QED
    BY <1>3, <2>1, <2>2
<1>8. \A u \in Tasks \ {t} : Current(u)' = Current(u)
  BY <1>1, <1>7 DEF Current
<1>9. (n0 = task[t].run => Current(t)' = y) /\ (n0 # task[t].run => Current(t)' = Current(t))
  BY <1>1, <1>3, <1>7 DEF Current
<1> QED
  BY <1>1, <1>2, <1>3, <1>6, <1>7, <1>8, <1>9 DEF y, n0, Reading

LEMMA InterruptsKeeps ==
  ASSUME IInv, NEW r \in Readers, Interrupts(r)
  PROVE  IInv' /\ Final
<1>1. PICK t \in Tasks : t = reader[r].t
  BY ListingFacts DEF Interrupts
<1> DEFINE n0 == reader[r].n
<1>2. /\ UNCHANGED <<task, report, repo, head, others, record, worker, holder, up, torn, crossed, stops, faults>>
      /\ up /\ reader[r].pc = "stale" /\ n0 \in 1..task[t].run /\ task[t].run \in Numbers /\ n0 \in Numbers
      /\ t \notin crossed => n0 = task[t].run /\ Current(t).status \in {"running", "interrupted"}
  BY <1>1, InterruptsFacts DEF Interrupts
<1>3. /\ torn \/ t \in crossed
      /\ Current(t) = runs[t][task[t].run]
      /\ \A w \in Workers : Busy(w) => worker[w].t \in Tasks /\ (worker[w].t = t => t \in crossed)
  BY <1>1, <1>2, ListingFacts
<1>4. /\ runs' \in [Tasks -> [Numbers -> [status : RunStatus, head : Nat]]]
      /\ \A u \in Tasks \ {t} : runs'[u] = runs[u]
      /\ \A n \in Numbers : n # n0 => runs'[t][n] = runs[t][n]
      /\ runs'[t][n0] = [status |-> "interrupted", head |-> reader[r].head]
  BY <1>1, InterruptsFacts
<1>5. /\ \A s \in Readers : reader'[s].t = reader[s].t /\ reader'[s].n = reader[s].n
      /\ \A s \in Readers : s # r => reader'[s] = reader[s]
      /\ reader'[r].pc = "half"
  BY <1>1, InterruptsFacts
<1>6. /\ \A u \in Tasks \ {t} : Current(u)' = Current(u)
      /\ Current(t)' = Current(t) \/ Current(t)' = [status |-> "interrupted", head |-> reader[r].head]
      /\ t \notin crossed => Current(t)'.status = "interrupted"
      /\ \A u \in Tasks : Working(u)' = Working(u)
  BY <1>1, <1>2, InterruptsFacts DEF Working
<1> HIDE DEF n0
<1>7. TypeOK'
  BY <1>1, <1>2, <1>4, InterruptsFacts DEF TypeOK, IInv
<1>8. Threads'
  BY <1>2 DEF IInv, Threads, OneWorker, Busy, Working
<1>9. Lives'
  <2>1. ASSUME NEW w \in Workers, Busy(w), record[worker[w].t].action = "run"
        PROVE  /\ Current(worker[w].t)'.status \in {"running", "interrupted"}
               /\ worker[w].t \notin crossed => Current(worker[w].t)'.status = "running"
    <3>1. /\ Current(worker[w].t).status \in {"running", "interrupted"}
          /\ worker[w].t \notin crossed => Current(worker[w].t).status = "running"
      BY <2>1 DEF IInv, Lives
    <3>2. worker'[w].t = worker[w].t /\ worker[w].t \in Tasks
      BY <1>2, <1>3, <2>1
    <3>3. CASE worker[w].t = t
      BY <1>3, <1>6, <2>1, <3>1, <3>2, <3>3
    <3>4. CASE worker[w].t # t
      BY <1>6, <3>1, <3>2, <3>4
    <3> QED
      BY <3>3, <3>4
  <2>2. \A u \in Tasks : \A n \in Numbers : n > task[u].run => runs'[u][n].status \in {"none", "running"}
    <3>1. \A n \in Numbers : n > task[t].run => n # n0
      BY <1>2, Bounds DEF Numbers
    <3> QED
      BY <1>4, <3>1 DEF IInv, Lives
  <2> QED
    BY <1>2, <1>6, <2>1, <2>2 DEF IInv, Lives, Busy
<1>10. Listings'
  <2> SUFFICES ASSUME NEW s \in Readers
               PROVE  /\ reader'[s].pc = "idle" => reader'[s] = Quiet
                      /\ reader'[s].pc # "idle" =>
                           /\ up /\ reader[s].t \in Tasks /\ task[reader[s].t].run > 0
                           /\ Working(reader[s].t) => reader[s].t \in crossed
                      /\ reader'[s].pc = "stale" =>
                           /\ reader[s].n \in 1..task[reader[s].t].run
                           /\ reader[s].t \notin crossed =>
                                /\ reader[s].n = task[reader[s].t].run
                                /\ Current(reader[s].t)'.status \in {"running", "interrupted"}
                      /\ reader'[s].pc \in {"stale", "half"} => torn \/ reader[s].t \in crossed
    BY <1>2, <1>5 DEF Listings, Working
  <2>1. CASE s = r
    BY <1>1, <1>2, <1>3, <1>5, <2>1 DEF IInv, Listings
  <2>2. CASE s # r
    <3>1. reader'[s] = reader[s]
      BY <1>5, <2>2
    <3>2. CASE reader[s].t = t
      BY <1>6, <3>1, <3>2 DEF IInv, Listings
    <3>3. CASE reader[s].t # t
      BY <1>6, <3>1, <3>3 DEF IInv, Listings
    <3> QED
      BY <3>2, <3>3
  <2> QED
    BY <2>1, <2>2
<1>11. Tally'
  <2>1. \A u \in Tasks : Current(u)'.status = "completed" => Current(u).status = "completed"
    BY <1>6
  <2> QED
    BY <1>2, <2>1 DEF IInv, Tally, VerdictIsTrue, Busy
<1>12. Agree'
  <2>1. ASSUME ~torn, NEW u \in Tasks, task[u].run > 0
        PROVE  Current(u)'.status \in {"running", "interrupted"} \/ task[u].status = Current(u)'.status \/ u \in crossed
    BY <1>3, <1>6, <2>1 DEF IInv, Agree
  <2>2. ASSUME NEW u \in Tasks, up, ~Working(u), task[u].run > 0, ~torn
        PROVE  /\ Current(u)'.status # "running"
               /\ task[u].status = Current(u)'.status \/ Current(u)'.status = "interrupted" \/ u \in crossed
    <3>1. /\ Current(u).status # "running"
          /\ task[u].status = Current(u).status \/ Current(u).status = "interrupted" \/ u \in crossed
      BY <2>2 DEF IInv, Agree, FilesAgree
    <3> QED
      BY <1>6, <3>1
  <2>3. FilesAgree'
    BY <1>2, <1>6, <2>2 DEF FilesAgree
  <2> QED
    BY <1>2, <2>1, <2>3 DEF Agree
<1>14. Committed'
  <2> SUFFICES ASSUME ~torn PROVE Committed'
    BY <1>2 DEF Committed
  <2>1. Committed /\ reader[r].head <= head
    BY <1>2 DEF IInv, Committed
  <2>2. ASSUME NEW u \in Tasks, Behind(u)
        PROVE  Behind(u)'
    <3>1. Current(u)'.head < head
      <4>1. u = t => reader[r].head < head
        BY <1>1, <1>2, <2>2 DEF Behind
      <4> QED
        BY <1>6, <2>2, <4>1 DEF Behind
    <3>2. \A s \in Readers : reader'[s].pc = "stale" => reader'[s] = reader[s]
      BY <1>5
    <3> QED
      BY <1>2, <2>2, <3>1, <3>2 DEF Behind
  <2>3. \A u \in Tasks : Lost(u) => Lost(u)'
    BY <1>2, <1>6, <2>2 DEF Lost
  <2>4. \A u \in Tasks : \A n \in Numbers : runs'[u][n].head <= head
    <3> SUFFICES ASSUME NEW u \in Tasks, NEW n \in Numbers PROVE runs'[u][n].head <= head
      OBVIOUS
    <3>1. CASE u = t /\ n = n0
      BY <1>4, <2>1, <3>1
    <3>2. CASE ~(u = t /\ n = n0)
      BY <1>4, <2>1, <3>2 DEF Committed
    <3> QED
      BY <3>1, <3>2
  <2>5. \A s \in Readers : reader'[s].pc = "stale" => reader'[s].head <= head
    BY <1>5, <2>1 DEF Committed
  <2>6. ASSUME NEW w \in Workers, worker[w].pc = "applied"
        PROVE  Behind(worker[w].t)'
    <3>1. worker'[w].t = worker[w].t /\ worker[w].t \in Tasks /\ Behind(worker[w].t)
      BY <1>2, <1>3, <2>1, <2>6 DEF Committed, Busy
    <3> QED
      BY <2>2, <3>1
  <2>7. \A w \in Workers : Row(w)' = Row(w)
    BY <1>2 DEF Row
  <2> QED
    BY <1>2, <2>1, <2>3, <2>4, <2>5, <2>6, <2>7 DEF Committed, AppliedOnce
<1>13. Final
  <2> SUFFICES ASSUME NEW u \in Tasks \ crossed, NEW n \in Numbers, runs[u][n].status \in Ended
               PROVE  runs'[u][n].status = runs[u][n].status
    BY DEF Final
  <2>1. ~(u = t /\ n = n0)
    BY <1>2, <1>3 DEF Ended
  <2> QED
    BY <1>4, <2>1
<1> QED
  BY <1>7, <1>8, <1>9, <1>10, <1>11, <1>12, <1>13, <1>14 DEF IInv

LEMMA TellsKeeps ==
  ASSUME IInv, NEW r \in Readers, Tells(r)
  PROVE  IInv' /\ Final
<1> DEFINE Reading == [pc : {"idle", "looked", "stale", "half"}, t : Tasks \cup {"none"}, n : 0..MaxRuns, head : Nat]
<1>1. PICK t \in Tasks : t = reader[r].t
  BY ListingFacts DEF Tells
<1>2. /\ UNCHANGED <<runs, report, repo, head, others, record, worker, holder, up, torn, crossed, stops, faults>>
      /\ up /\ (torn \/ t \in crossed) /\ WriteTask(t, "interrupted")
      /\ reader' = [reader EXCEPT ![r] = Quiet] /\ reader \in [Readers -> Reading]
  BY <1>1, ListingFacts DEF Tells, Sound, git, bounds, WriteTask, IInv, TypeOK
<1>3. /\ task' \in [Tasks -> [status : TaskStatus, run : 0..MaxRuns]]
      /\ \A u \in Tasks : task'[u].run = task[u].run
      /\ \A u \in Tasks \ {t} : task'[u] = task[u]
      /\ task'[t].status = "interrupted"
  BY <1>2, TaskWritten DEF TaskStatus, RunStatus, Stopped
<1>4. Quiet \in Reading /\ Quiet.pc = "idle"
  BY Bounds DEF Quiet
<1> HIDE DEF Reading
<1>5. reader' \in [Readers -> Reading] /\ \A s \in Readers : reader'[s] = IF s = r THEN Quiet ELSE reader[s]
  BY <1>2, <1>4
<1>6. \A u \in Tasks : Current(u)' = Current(u) /\ Working(u)' = Working(u)
  BY <1>2, <1>3 DEF Current, Working
<1>7. TypeOK'
  BY <1>2, <1>3, <1>5 DEF TypeOK, IInv, Reading
<1>8. Threads'
  BY <1>2 DEF IInv, Threads, OneWorker, Busy, Working
<1>9. \A w \in Workers : Busy(w) => worker[w].t \in Tasks
  BY DEF IInv, Threads
<1>10. Lives'
  <2>1. \A w \in Workers : Busy(w) /\ record[worker[w].t].action = "run" =>
          /\ task'[worker[w].t].run > 0 /\ Current(worker[w].t)'.status \in {"running", "interrupted"}
          /\ worker[w].t \notin crossed => Current(worker[w].t)'.status = "running"
    BY <1>2, <1>3, <1>6, <1>9 DEF IInv, Lives
  <2>2. \A u \in Tasks : task'[u].status = "none" => task'[u].run = 0 /\ ~Working(u)'
    BY <1>3, <1>6 DEF IInv, Lives
  <2> QED
    BY <1>2, <1>3, <1>6, <2>1, <2>2 DEF IInv, Lives, Busy
<1>11. Listings'
  <2> SUFFICES ASSUME NEW s \in Readers, s # r
               PROVE  /\ reader[s].pc = "idle" => reader[s] = Quiet
                      /\ reader[s].pc # "idle" =>
                           /\ up /\ reader[s].t \in Tasks /\ task'[reader[s].t].run > 0
                           /\ Working(reader[s].t) => reader[s].t \in crossed
                      /\ reader[s].pc = "stale" =>
                           /\ reader[s].n \in 1..task'[reader[s].t].run
                           /\ reader[s].t \notin crossed =>
                                /\ reader[s].n = task'[reader[s].t].run
                                /\ Current(reader[s].t).status \in {"running", "interrupted"}
                      /\ reader[s].pc \in {"stale", "half"} => torn \/ reader[s].t \in crossed
    <3>1. \A s \in Readers \ {r} : reader'[s] = reader[s]
      BY <1>5
    <3>2. \A s \in Readers \ {r} : reader[s].pc # "idle" =>
            Working(reader[s].t)' = Working(reader[s].t) /\ Current(reader[s].t)' = Current(reader[s].t)
      BY <1>6, <3>1 DEF IInv, Listings
    <3>3. reader'[r] = Quiet
      BY <1>5
    <3> QED
      BY <1>2, <1>4, <3>1, <3>2, <3>3 DEF Listings
  <2> QED
    BY <1>3 DEF IInv, Listings
<1>12. Tally'
  BY <1>2, <1>6 DEF IInv, Tally, VerdictIsTrue, Busy
<1>13. Agree'
  <2>1. ASSUME ~torn, NEW u \in Tasks, task'[u].run > 0
        PROVE  Current(u).status \in {"running", "interrupted"} \/ task'[u].status = Current(u).status \/ u \in crossed
    BY <1>2, <1>3, <2>1 DEF IInv, Agree
  <2>2. ASSUME NEW u \in Tasks, up, ~Working(u), task'[u].run > 0, ~torn
        PROVE  /\ Current(u).status # "running"
               /\ task'[u].status = Current(u).status \/ Current(u).status = "interrupted" \/ u \in crossed
    BY <1>2, <1>3, <2>2 DEF IInv, Agree, FilesAgree
  <2>3. FilesAgree'
    BY <1>2, <1>6, <2>2 DEF FilesAgree
  <2> QED
    BY <1>2, <1>6, <2>1, <2>3 DEF Agree
<1>15. Committed'
  <2> SUFFICES ASSUME ~torn PROVE Committed'
    BY <1>2 DEF Committed
  <2>1. Committed
    BY DEF IInv
  <2>2. \A s \in Readers : reader'[s].pc = "stale" => reader'[s] = reader[s]
    BY <1>4, <1>5
  <2>3. \A u \in Tasks : Behind(u) => Behind(u)'
    BY <1>2, <1>6, <2>2 DEF Behind
  <2>4. \A u \in Tasks : Lost(u) => Lost(u)'
    BY <1>2, <1>6, <2>3 DEF Lost
  <2>5. \A s \in Readers : reader'[s].pc = "stale" => reader'[s].head <= head
    BY <2>1, <2>2 DEF Committed
  <2>6. ASSUME NEW w \in Workers, worker[w].pc = "applied"
        PROVE  Behind(worker[w].t)'
    <3>1. worker'[w].t = worker[w].t /\ worker[w].t \in Tasks /\ Behind(worker[w].t)
      BY <1>2, <1>9, <2>1, <2>6 DEF Committed, Busy
    <3> QED
      BY <2>3, <3>1
  <2>7. \A w \in Workers : Row(w)' = Row(w)
    BY <1>2 DEF Row
  <2> QED
    BY <1>2, <1>3, <2>1, <2>4, <2>5, <2>6, <2>7 DEF Committed, AppliedOnce
<1>14. Final
  BY <1>2 DEF Final
<1> QED
  BY <1>7, <1>8, <1>10, <1>11, <1>12, <1>13, <1>14, <1>15 DEF IInv

LEMMA CrashKeeps ==
  ASSUME IInv, Crash
  PROVE  IInv' /\ Final
<1>1. UNCHANGED <<report, git, runs, task>> /\ Dies
  BY DEF Crash, files
<1>2. IInv'
  BY <1>1, DiesKeepsRuns DEF IInv, TypeOK
<1> QED
  BY <1>1, <1>2 DEF Final

\* The start-up marks the Runs that a crash has cut.
LEMMA ConvergeFacts ==
  ASSUME IInv, NEW done \in SUBSET Cut, NEW half \in SUBSET Cut, Converge(done, half)
  PROVE  /\ task' \in [Tasks -> [status : TaskStatus, run : 0..MaxRuns]]
         /\ runs' \in [Tasks -> [Numbers -> [status : RunStatus, head : Nat]]]
         /\ \A t \in Tasks : task'[t].run = task[t].run /\ (task'[t].status = "none" => task[t].status = "none")
         /\ \A t \in Tasks : task'[t].status = IF t \in done THEN "interrupted" ELSE task[t].status
         /\ \A t \in Tasks : Current(t)'.head = Current(t).head
         /\ \A t \in Tasks : Current(t)'.status = IF t \in done \cup half THEN "interrupted" ELSE Current(t).status
         /\ \A t \in Tasks : \A n \in Numbers : runs'[t][n].head = runs[t][n].head
         /\ \A t \in Tasks : \A n \in Numbers : runs'[t][n].status # runs[t][n].status =>
              n = task[t].run /\ runs[t][n].status = "running"
<1>1. /\ task \in [Tasks -> [status : TaskStatus, run : 0..MaxRuns]]
      /\ runs \in [Tasks -> [Numbers -> [status : RunStatus, head : Nat]]]
  BY DEF IInv, TypeOK
<1>2. \A t \in Cut : t \in Tasks /\ task[t].run \in Numbers /\ runs[t][task[t].run].status = "running"
                     /\ Current(t) = runs[t][task[t].run]
  BY <1>1, Bounds DEF Cut, Current, Absent, Numbers
<1>3. \A t \in Tasks : task'[t] = IF t \in done THEN [task[t] EXCEPT !.status = "interrupted"] ELSE task[t]
  BY DEF Converge
<1>4. \A t \in Tasks : runs'[t] = IF t \in done \cup half
                         THEN [runs[t] EXCEPT ![task[t].run].status = "interrupted"] ELSE runs[t]
  BY DEF Converge
<1>5. ASSUME NEW t \in Tasks
      PROVE  /\ task'[t] \in [status : TaskStatus, run : 0..MaxRuns] /\ task'[t].run = task[t].run
             /\ task'[t].status = IF t \in done THEN "interrupted" ELSE task[t].status
  <2>1. task[t] \in [status : TaskStatus, run : 0..MaxRuns] /\ "interrupted" \in TaskStatus
    BY <1>1 DEF TaskStatus, RunStatus, Stopped
  <2> QED
    BY <1>3, <2>1
<1>6. ASSUME NEW t \in Tasks, t \in done \cup half
      PROVE  /\ runs'[t] \in [Numbers -> [status : RunStatus, head : Nat]]
             /\ runs'[t][task[t].run].status = "interrupted"
             /\ \A n \in Numbers : runs'[t][n].head = runs[t][n].head
             /\ \A n \in Numbers : n # task[t].run => runs'[t][n] = runs[t][n]
  <2> DEFINE n0 == task[t].run
             y == [runs[t][n0] EXCEPT !.status = "interrupted"]
  <2>1. t \in Cut /\ n0 \in Numbers /\ runs[t] \in [Numbers -> [status : RunStatus, head : Nat]]
    BY <1>1, <1>2, <1>6
  <2>2. runs[t][n0] \in [status : RunStatus, head : Nat] /\ "interrupted" \in RunStatus
    BY <2>1 DEF RunStatus, Stopped
  <2>3. y \in [status : RunStatus, head : Nat] /\ y.status = "interrupted" /\ y.head = runs[t][n0].head
    BY <2>2
  <2>4. runs'[t] = [runs[t] EXCEPT ![n0] = y]
    BY <1>4, <1>6
  <2> HIDE DEF y, n0
  <2>5. runs'[t] \in [Numbers -> [status : RunStatus, head : Nat]] /\ runs'[t][n0] = y
        /\ \A n \in Numbers : n # n0 => runs'[t][n] = runs[t][n]
    BY <2>1, <2>3, <2>4
  <2>6. \A n \in Numbers : runs'[t][n].head = runs[t][n].head
    BY <2>3, <2>5
  <2> QED
    BY <2>3, <2>5, <2>6 DEF n0
<1>7. ASSUME NEW t \in Tasks, t \notin done \cup half
      PROVE  runs'[t] = runs[t]
  BY <1>4, <1>7
<1>8. ASSUME NEW t \in Tasks
      PROVE  /\ Current(t)'.head = Current(t).head
             /\ Current(t)'.status = IF t \in done \cup half THEN "interrupted" ELSE Current(t).status
  <2>1. Current(t)' = IF task[t].run = 0 THEN Absent ELSE runs'[t][task[t].run]
    BY <1>5 DEF Current
  <2>2. CASE t \in done \cup half
    <3>1. task[t].run \in Numbers /\ task[t].run # 0 /\ Current(t) = runs[t][task[t].run]
      BY <1>2, <2>2, Bounds DEF Numbers
    <3> QED
      BY <1>6, <2>1, <2>2, <3>1
  <2>3. CASE t \notin done \cup half
    BY <1>7, <2>1, <2>3 DEF Current
  <2> QED
    BY <2>2, <2>3
<1>9. task' \in [Tasks -> [status : TaskStatus, run : 0..MaxRuns]]
  BY <1>5 DEF Converge
<1>10. runs' \in [Tasks -> [Numbers -> [status : RunStatus, head : Nat]]]
  <2>1. \A t \in Tasks : runs'[t] \in [Numbers -> [status : RunStatus, head : Nat]]
    BY <1>1, <1>6, <1>7
  <2>2. runs' = [t \in Tasks |-> runs'[t]]
    BY DEF Converge
  <2> QED
    BY <2>1, <2>2
<1>11. \A t \in Tasks : \A n \in Numbers : runs'[t][n].head = runs[t][n].head
  BY <1>6, <1>7
<1>12. \A t \in Tasks : \A n \in Numbers : runs'[t][n].status # runs[t][n].status =>
              n = task[t].run /\ runs[t][n].status = "running"
  BY <1>2, <1>6, <1>7
<1> QED
  BY <1>5, <1>8, <1>9, <1>10, <1>11, <1>12

LEMMA BootKeeps ==
  ASSUME IInv, Boot
  PROVE  IInv' /\ Final
<1>1. ~up /\ UNCHANGED <<report, git>> /\ \A w \in Workers : ~Busy(w)
  BY DEF Boot, IInv, Threads
<1>2. PICK done \in SUBSET Cut, half \in SUBSET Cut :
        /\ Converge(done, half)
        /\ \/ done = Cut /\ up' = TRUE /\ Sound /\ UNCHANGED <<record, worker, holder, reader>>
           \/ Dies
  <2>1. CASE Converge(Cut, {}) /\ up' = TRUE /\ Sound /\ UNCHANGED <<record, worker, holder, reader>>
    BY <2>1
  <2>2. CASE \E done \in SUBSET Cut : \E t \in Cut \ done : Converge(done, {t}) /\ Dies
    <3>1. PICK done \in SUBSET Cut : \E t \in Cut \ done : Converge(done, {t}) /\ Dies
      BY <2>2
    <3>2. PICK t \in Cut \ done : Converge(done, {t}) /\ Dies
      BY <3>1
    <3>3. {t} \in SUBSET Cut
      OBVIOUS
    <3> QED
      BY <3>2, <3>3
  <2> QED
    BY <2>1, <2>2 DEF Boot
<1>14. /\ \A t \in Tasks : task'[t].run = task[t].run /\ (task'[t].status = "none" => task[t].status = "none")
       /\ \A t \in Tasks : task'[t].status = IF t \in done THEN "interrupted" ELSE task[t].status
       /\ \A t \in Tasks : Current(t)'.status = IF t \in done \cup half THEN "interrupted" ELSE Current(t).status
       /\ \A t \in Tasks : \A n \in Numbers : runs'[t][n].status # runs[t][n].status => n = task[t].run
  BY <1>2, ConvergeFacts
<1>3. Final
  BY <1>2, ConvergeFacts DEF Final, Ended
<1>4. \A t \in done \cup half : t \in Tasks /\ Current(t).status = "running"
  BY DEF Cut
<1>5. VerdictIsTrue'
  BY <1>1, <1>2, ConvergeFacts DEF VerdictIsTrue, IInv, Tally
<1>6. torn \/ \A t \in Tasks : task'[t].run > 0 =>
           Current(t)'.status \in {"running", "interrupted"} \/ task'[t].status = Current(t)'.status \/ t \in crossed
  BY <1>4, <1>14 DEF IInv, Agree
<1>7. torn \/ \A t \in Tasks : \A n \in Numbers : runs'[t][n].head <= head
  <2>1. \A t \in Tasks : \A n \in Numbers : runs'[t][n].head = runs[t][n].head
    BY <1>2, ConvergeFacts
  <2>2. torn \/ \A t \in Tasks : \A n \in Numbers : runs[t][n].head <= head
    BY DEF IInv, Committed
  <2> QED
    BY <2>1, <2>2
<1>8. \A t \in Tasks : Current(t).status \in {"running", "interrupted"} /\ Current(t).head < head =>
           Current(t)'.status \in {"running", "interrupted"} /\ Current(t)'.head < head
  BY <1>2, ConvergeFacts
<1>9. \A t \in Tasks : task'[t].status = "none" => task'[t].run = 0
  BY <1>14 DEF IInv, Lives
<1>10. \A t \in Tasks : \A n \in Numbers : n > task'[t].run => runs'[t][n].status \in {"none", "running"}
  <2> SUFFICES ASSUME NEW t \in Tasks, NEW n \in Numbers, n > task[t].run
               PROVE  runs'[t][n].status \in {"none", "running"}
    BY <1>14
  <2>1. n # task[t].run
    BY Bounds DEF IInv, TypeOK, Numbers
  <2> QED
    BY <1>14, <2>1 DEF IInv, Lives
<1>11. /\ task' \in [Tasks -> [status : TaskStatus, run : 0..MaxRuns]]
       /\ runs' \in [Tasks -> [Numbers -> [status : RunStatus, head : Nat]]]
       /\ \A t \in Tasks : task'[t].run = task[t].run
  BY <1>2, ConvergeFacts
<1>12. CASE Dies
  <2>1. IInv'
    BY <1>1, <1>5, <1>6, <1>7, <1>8, <1>9, <1>10, <1>11, <1>12, DiesKeeps
  <2> QED
    BY <1>3, <2>1
<1>13. CASE done = Cut /\ up' = TRUE /\ Sound /\ UNCHANGED <<record, worker, holder, reader>>
  <2>1. UNCHANGED <<report, repo, head, others, record, worker, holder, reader, torn, crossed, stops, faults>>
    BY <1>1, <1>13 DEF git, Sound, bounds
  <2>2. TypeOK'
    <3>1. up' \in BOOLEAN
      BY <1>13, Zenon
    <3> QED
      BY <1>11, <2>1, <3>1 DEF TypeOK, IInv
  <2>3. \A w \in Workers : ~Busy(w)' /\ worker'[w] = worker[w]
    BY <1>1, <2>1 DEF Busy
  <2>4. Threads'
    BY <2>1, <2>3, <1>1 DEF IInv, Threads, OneWorker, Busy
  <2>5. \A t \in Tasks : Working(t)' = Working(t)
    BY <2>1 DEF Working
  <2>6. Lives'
    <3>1. \A t \in Tasks : task'[t].status = "none" => task'[t].run = 0 /\ ~Working(t)'
      BY <1>14, <2>5 DEF IInv, Lives
    <3> QED
      BY <1>10, <1>11, <2>1, <2>3, <2>5, <3>1 DEF IInv, Lives, Busy
  <2>7. Listings'
    <3>1. \A r \in Readers : reader'[r] = Quiet
      BY <1>1, <2>1 DEF IInv, Listings
    <3> QED
      BY <3>1 DEF Listings, Quiet
  <2>8. Tally'
    BY <1>1, <1>5, <2>1, <2>3 DEF IInv, Tally, Busy
  <2>9. FilesAgree'
    <3> SUFFICES ASSUME NEW t \in Tasks, ~torn, task[t].run > 0
                 PROVE  /\ Current(t)'.status # "running"
                        /\ task'[t].status = Current(t)'.status \/ Current(t)'.status = "interrupted" \/ t \in crossed
      BY <1>11, <2>1 DEF FilesAgree
    <3>1. CASE t \in Cut
      BY <1>13, <1>14, <3>1
    <3>2. CASE t \notin Cut
      <4>1. Current(t).status # "running" /\ t \notin done \cup half
        BY <3>2 DEF Cut
      <4>2. Current(t)'.status = Current(t).status /\ task'[t].status = task[t].status
        BY <1>14, <4>1
      <4> QED
        BY <4>1, <4>2 DEF IInv, Agree
    <3> QED
      BY <3>1, <3>2
  <2>10. Agree'
    BY <1>6, <2>1, <2>9 DEF Agree
  <2>11. Committed'
    <3> SUFFICES ASSUME ~torn PROVE Committed'
      BY <2>1 DEF Committed
    <3>1. Committed
      BY DEF IInv
    <3>6. \A r \in Readers : reader'[r] = Quiet /\ reader'[r].pc # "stale"
      BY <1>1, <2>1 DEF IInv, Listings, Quiet
    <3>2. \A t \in Tasks : Lost(t) => Lost(t)'
      BY <1>8, <2>1, <3>6 DEF Lost, Behind, Quiet
    <3>3. \A t \in Tasks : task'[t].run = 0 => \A i \in 1..Rows : repo[t][i] = 0
      BY <1>11, <3>1 DEF Committed
    <3>4. \A w \in Workers : worker'[w].pc = "idle"
      BY <2>3 DEF Busy
    <3>5. \A t \in Tasks : \A i \in 1..Rows : repo[t][i] = 0 \/ report[t][i] = "applied" \/ Lost(t)
      BY <1>1, <3>1 DEF Committed, Busy
    <3> QED
      BY <1>7, <2>1, <3>1, <3>2, <3>3, <3>4, <3>5, <3>6 DEF Committed, AppliedOnce
  <2> QED
    BY <1>3, <2>2, <2>4, <2>6, <2>7, <2>8, <2>10, <2>11 DEF IInv
<1> QED
  BY <1>2, <1>12, <1>13

LEMMA NextKeeps ==
  ASSUME IInv, Next
  PROVE  IInv' /\ Final
<1>1. ASSUME NEW t \in Tasks, Generate(t) \/ CreateRun(t) \/ Pause(t)
      PROVE  IInv' /\ Final
  BY <1>1, GenerateKeeps, CreateRunKeeps, PauseKeeps
<1>2. ASSUME NEW w \in Workers, WorkerStep(w)
      PROVE  IInv' /\ Final
  <2>1. CASE Finishes(w) \/ FinishesRaised(w)
    BY <2>1, FinishesKeeps, FinishesRaisedKeeps
  <2>2. CASE TakeLock(w) \/ LockTimeout(w) \/ Generated(w) \/ Raises(w) \/ LoopEnds(w) \/ Pauses(w) \/ RowStep(w)
    BY <2>2, WorksKeeps DEF Final
  <2> QED
    BY <1>2, <2>1, <2>2 DEF WorkerStep
<1>3. ASSUME NEW r \in Readers, Reads(r) \/ Interrupts(r) \/ Tells(r) \/ \E t \in Tasks : Looks(r, t)
      PROVE  IInv' /\ Final
  BY <1>3, ReadsKeeps, InterruptsKeeps, TellsKeeps, LooksKeeps
<1>4. CASE OtherTakes \/ OtherFrees \/ Crash \/ Boot
  BY <1>4, OtherKeeps, CrashKeeps, BootKeeps
<1> QED
  BY <1>1, <1>2, <1>3, <1>4 DEF Next

LEMMA StutterKeeps ==
  ASSUME IInv, UNCHANGED vars
  PROVE  IInv'
<1>1. UNCHANGED <<task, runs, report, repo, head, others, record, worker, holder, reader, up, torn, crossed, stops, faults>>
  BY DEF vars, files, git, memory, bounds
<1>2. TypeOK'
  BY <1>1 DEF IInv, TypeOK
<1>3. Listings'
  BY <1>1 DEF IInv, Listings, Working, Current
<1>4. head' \in Nat /\ head' >= head
  BY <1>1 DEF IInv, TypeOK
<1> QED
  BY <1>1, <1>2, <1>3, <1>4, Aside

-----------------------------------------------------------------------------
(* The theorems.                                                           *)

\* The inductive invariant of the Runs.
THEOREM RunsInvariant == Spec => []IInv
<1>1. Init => IInv
  BY InitEstablishes
<1>2. IInv /\ [Next]_vars => IInv'
  BY NextKeeps, StutterKeeps
<1> QED
  BY <1>1, <1>2, PTL DEF Spec

\* The values of the variables are in their sets.
THEOREM RunsTypes == Spec => []TypeOK
<1>1. IInv => TypeOK
  BY DEF IInv
<1> QED
  BY <1>1, RunsInvariant, PTL

\* At most one thread works for a Task: the record in memory keeps a second
\* start of the same Task away (_existing_in_progress_run).
THEOREM RunsHaveOneWorker == Spec => []OneWorker
<1>1. IInv => OneWorker
  BY DEF IInv, Threads
<1> QED
  BY <1>1, RunsInvariant, PTL

\* No commit is moved to the branch twice, whatever the pauses, the failures
\* and the crashes: a Run goes on only from the HEAD it left.
THEOREM RunsApplyOnce == Spec => []AppliedOnce
<1>1. IInv => AppliedOnce
  BY DEF IInv, Committed, AppliedOnce
<1> QED
  BY <1>1, RunsInvariant, PTL

\* A Run that says it is completed has left no row undone, but for those of
\* which cvekit said "error", which the loop does not count.
THEOREM RunsTellTheTruth == Spec => []VerdictIsTrue
<1>1. IInv => VerdictIsTrue
  BY DEF IInv, Tally
<1> QED
  BY <1>1, RunsInvariant, PTL

\* At rest task.json and the file of the current Run agree, and neither is left
\* saying that it is running: but for Tasks of which a Run was started between
\* a listing's look at the active Runs and its look at the files.
THEOREM RunsFilesAgree == Spec => []FilesAgree
<1>1. IInv => FilesAgree
  BY DEF IInv, Agree
<1> QED
  BY <1>1, RunsInvariant, PTL

\* A Run that has ended is neither resumed nor marked interrupted, with the same
\* exception: the listing takes the Run that was started for one of an earlier
\* life, and writes so over its end.
THEOREM RunsEndForGood == Spec => EndIsFinal
<1>1. IInv /\ [Next]_vars => [Final]_vars
  BY NextKeeps
<1>2. Spec => [][Final]_vars
  BY <1>1, RunsInvariant, PTL DEF Spec
<1>3. [][Final]_vars => EndIsFinal
  BY PTL DEF Final, EndIsFinal
<1> QED
  BY <1>2, <1>3
=============================================================================
