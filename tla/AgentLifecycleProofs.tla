------------------------ MODULE AgentLifecycleProofs ------------------------
(* Proofs about AgentLifecycle, for every number of requests, sandboxes,   *)
(* faults and restarts, and whichever requests may overlap.                *)
EXTENDS AgentLifecycle, TLAPS

\* The sandboxes that live and that no shutdown would stop.
Loose == alive \ (tracked \cup stuck)

\* What remains of those whose server is gone, and no registry holds.
Stray == remains \ tracked

\* The sandboxes' part of TypeOK.
BoxTypes ==
  /\ born \in 0..MaxBoxes /\ alive \subseteq 1..born /\ tracked \subseteq 1..born
  /\ runtime \subseteq alive /\ stuck \subseteq 1..born /\ remains \subseteq (1..born) \ alive
  /\ port \in [Boxes -> 0..MaxBoxes]

Pcs == {"idle", "read", "start", "store", "health", "launch", "running", "undo", "forget",
        "quiet", "stop", "paused", "probe", "restart", "save", "kill", "mark", "erase",
        "accuse", "failed"}

Ops == [kind : Kinds \cup {"none", "recover"}, pc : Pcs, box : Nat, url : Nat, bad : BOOLEAN]

Shape == TypeOK /\ op \in [Procs -> Ops]

\* Who is about to replace the sandbox that the database names, or its row.
Writes(p) ==
  \/ op[p].kind = "create" /\ op[p].pc # "idle"
  \/ op[p].kind \in {"resume", "recover"} /\ op[p].pc = "save"
  \/ op[p].kind = "pause" /\ op[p].pc = "store"
  \/ op[p].kind = "delete" /\ (op[p].pc \in {"mark", "erase"} \/ (op[p].pc = "kill" /\ op[p].box = 0))

\* By then every sandbox that lives is in the registry.
ReplacesNothingLoose == \A p \in Procs : Writes(p) => Loose = {}

\* A request is served by a service that runs.
BusyMeansUp == \A p \in Procs : op[p].pc # "idle" => phase # "down"

\* A sandbox just started is saved, and a delete that asks for quiet has read one.
HoldsABox == \A p \in Procs :
  op[p].pc = "save" \/ (op[p].pc = "quiet" /\ op[p].kind = "delete") => op[p].box # 0

\* The row of the agent comes before that of its sandbox.
UnbornHasNoBox == row = "unborn" => rec = 0

\* What remains of a sandbox is in the registry, which is empty while the service is down,
\* or known to be out of reach.
RemainsAreKnown == Stray \subseteq forsaken /\ (phase = "down" => tracked = {})

IInv == Shape /\ RemainsAreKnown /\ BusyMeansUp /\ HoldsABox /\ UnbornHasNoBox /\ EveryBoxIsWithinReach /\ ReplacesNothingLoose

-----------------------------------------------------------------------------
(* Lemmas about the sandboxes.                                             *)

\* A start takes the place of the previous sandbox, which does not live on.
LEMMA StartIsCalm ==
  ASSUME BoxTypes, NEW prev \in 0..born, NEW wanted \in 0..MaxBoxes, Start(prev, wanted)
  PROVE  /\ BoxTypes' /\ Loose' \subseteq Loose \ {prev} /\ Stray' \subseteq Stray /\ born <= born'
         /\ born' \in 1..MaxBoxes /\ born' \in Boxes
<1>1. /\ born' = born + 1 /\ born' \in 1..MaxBoxes /\ born \in Nat /\ UNCHANGED stuck
      /\ alive' = (alive \ {prev}) \cup {born'} /\ tracked' = (tracked \ {prev}) \cup {born'}
      /\ runtime' = runtime \ {prev} /\ prev \notin stuck /\ remains' = remains \ ({prev} \cap tracked)
  BY BoundsAssumption DEF Start, Stops, BoxTypes
<1>2. port' \in [Boxes -> 0..MaxBoxes]
  BY <1>1, BoundsAssumption DEF Start, BoxTypes, Boxes
<1> QED
  BY <1>1, <1>2, BoundsAssumption DEF BoxTypes, Loose, Stray, Boxes

\* Stopping, with or without forgetting, and failing to start.
LEMMA StopsAreCalm ==
  ASSUME BoxTypes, NEW b \in 0..born,
         StartFails(b) \/ CleanUp(b) \/ (Stops(b) /\ Halt(b) /\ UNCHANGED <<stuck, tracked, port, born>>)
  PROVE  /\ BoxTypes' /\ Loose' \subseteq Loose /\ Stray' \subseteq Stray /\ born' = born
         /\ ~StartFails(b) => Loose' \subseteq Loose \ {b}
BY DEF StartFails, CleanUp, Halt, Stops, BoxTypes, Loose, Stray

\* The runtime in a sandbox is of no concern.
LEMMA RuntimeIsCalm ==
  ASSUME BoxTypes, runtime' \subseteq alive, UNCHANGED <<alive, stuck, remains, tracked, port, born>>
  PROVE  BoxTypes' /\ Loose' = Loose /\ Stray' = Stray
BY DEF BoxTypes, Loose, Stray

-----------------------------------------------------------------------------
(* Lemmas about the requests.                                              *)

\* What a process serves changes, of this process alone.
Moved(p) == op' \in [Procs -> Ops] /\ \A q \in Procs \ {p} : op'[q] = op[q]

\* A process goes on to another step, and nothing else of it changes.
LEMMA GotoMoves ==
  ASSUME op \in [Procs -> Ops], NEW p \in Procs, NEW pc \in Pcs, Goto(p, pc)
  PROVE  /\ Moved(p) /\ op'[p].kind = op[p].kind /\ op'[p].pc = pc
         /\ op'[p].box = op[p].box /\ op'[p].url = op[p].url /\ op'[p].bad = op[p].bad
BY DEF Goto, Moved, Ops

\* A process is done.
LEMMA LeaveMoves ==
  ASSUME op \in [Procs -> Ops], NEW p \in Procs, Leave(p)
  PROVE  Moved(p) /\ op'[p] = Idle /\ Idle \in Ops /\ Idle.pc = "idle" /\ Idle.box = 0 /\ Idle.url = 0
         /\ Idle.bad = FALSE /\ Idle.kind = "none"
BY DEF Leave, Idle, Moved, Ops, Pcs

\* An exception leads nowhere where a row would be replaced, but in create.
LEMMA RaiseMoves ==
  ASSUME op \in [Procs -> Ops], NEW p \in Procs, Raise(p)
  PROVE  /\ Moved(p) /\ op'[p].box \in {0, op[p].box} /\ op'[p].url \in {0, op[p].url}
         /\ op'[p].bad \in BOOLEAN
         /\ Writes(p)' => op[p].kind = "create" 
         /\ op'[p].pc \in {"idle", "undo", "failed"}
<1>1. CASE op[p].kind = "create"
  BY <1>1, GotoMoves DEF Raise, Pcs, Ops, Moved
<1>2. CASE op[p].kind = "recover"
  BY <1>2, GotoMoves DEF Raise, Pcs, Ops, Moved, Writes
<1>3. CASE op[p].kind \notin {"create", "recover"}
  BY <1>3, LeaveMoves DEF Raise, Writes
<1> QED
  BY <1>1, <1>2, <1>3

\* What a step of a request may do.
Calm(p) ==
  /\ BoxTypes' /\ born <= born' /\ Loose' \subseteq Loose /\ phase' = phase
  /\ Stray' \subseteq Stray /\ forsaken' = forsaken /\ forsaken \subseteq 1..born /\ unheard' \in BOOLEAN
  /\ row' \in {"unborn", "creating", "running", "paused", "deleted", "error", "gone"}
  /\ rec' = rec \/ (Loose = {} /\ rec' \in 0..born')
  /\ row' = "unborn" => row = "unborn" /\ rec' = rec
  /\ Moved(p) /\ op'[p].box \in 0..born' /\ op'[p].url \in 0..MaxBoxes /\ op'[p].bad \in BOOLEAN
  /\ op'[p].pc = "save" \/ (op'[p].pc = "quiet" /\ op'[p].kind = "delete") => op'[p].box # 0
  /\ op[p].pc # "idle" \/ phase # "down"
  /\ Writes(p)' => Writes(p) \/ Loose' = {}

\* Such a step preserves the invariant: no sandbox becomes loose, and the one that the row
\* names is replaced only when none is.
LEMMA CalmPreserves ==
  ASSUME IInv, NEW p \in Procs, Calm(p)
  PROVE  IInv'
<1>1. Shape'
  <2>1. \A q \in Procs : op'[q].box \in 0..born' /\ op'[q].url \in 0..MaxBoxes /\ op'[q].bad \in BOOLEAN
    BY DEF Calm, Moved, IInv, Shape, TypeOK, BoxTypes
  <2>2. rec' \in 0..born'
    BY DEF Calm, IInv, Shape, TypeOK, BoxTypes
  <2> QED
    BY <2>1, <2>2 DEF Calm, Moved, BoxTypes, IInv, Shape, TypeOK
<1>2. BusyMeansUp'
  BY DEF Calm, Moved, IInv, BusyMeansUp
<1>6. HoldsABox'
  BY DEF Calm, Moved, IInv, HoldsABox
<1>3. UnbornHasNoBox'
  BY DEF Calm, IInv, UnbornHasNoBox
<1>4. EveryBoxIsWithinReach'
  BY DEF Calm, IInv, EveryBoxIsWithinReach, RemainsAreKnown, Loose, Stray
<1>7. RemainsAreKnown'
  BY DEF Calm, IInv, RemainsAreKnown, BusyMeansUp
<1>5. ReplacesNothingLoose'
  <2> SUFFICES ASSUME NEW q \in Procs, Writes(q)' PROVE Loose' = {}
    BY DEF ReplacesNothingLoose
  <2>1. Writes(q) => Loose = {}
    BY DEF IInv, ReplacesNothingLoose
  <2>2. q # p => Writes(q)
    BY DEF Calm, Moved, Writes
  <2> QED
    BY <2>1, <2>2 DEF Calm
<1> QED
  BY <1>1, <1>2, <1>3, <1>4, <1>5, <1>6, <1>7 DEF IInv

\* What the steps below take from the invariant.
LEMMA Facts ==
  ASSUME IInv, NEW p \in Procs
  PROVE  /\ BoxTypes /\ forsaken \subseteq 1..born /\ unheard \in BOOLEAN /\ op \in [Procs -> Ops] /\ rec \in 0..born /\ 0 \in 0..born
         /\ op[p].box \in 0..born /\ op[p].url \in 0..MaxBoxes /\ op[p].bad \in BOOLEAN
         /\ row \in {"unborn", "creating", "running", "paused", "deleted", "error", "gone"}
         /\ 0 \notin Loose /\ 0 \in 0..MaxBoxes /\ born \in Nat
         /\ rec # 0 => port[rec] \in 0..MaxBoxes
         /\ Writes(p) => Loose = {}
         /\ phase # "down" => Loose \subseteq {rec}
         /\ op[p].pc # "idle" => phase # "down"
         /\ op[p].pc = "save" => op[p].box \in Boxes
         /\ op[p].pc = "quiet" /\ op[p].kind = "delete" => op[p].box # 0
BY BoundsAssumption DEF IInv, Shape, TypeOK, BoxTypes, Loose, Boxes, ReplacesNothingLoose, EveryBoxIsWithinReach, BusyMeansUp, HoldsABox

\* Steps that touch no sandbox, and replace the one in the row only when none is loose.
LEMMA StaysCalm ==
  ASSUME IInv, NEW p \in Procs, UNCHANGED <<boxes, phase, history>>, Moved(p),
         row' = row \/ row' \in {"creating", "running", "paused", "deleted", "error", "gone"},
         rec' = rec \/ (Loose = {} /\ rec' \in 0..born /\ row' # "unborn"),
         op'[p].box \in 0..born, op'[p].url \in 0..MaxBoxes, op'[p].bad \in BOOLEAN,
         op'[p].pc # "save", op'[p].pc = "quiet" /\ op'[p].kind = "delete" => op'[p].box # 0,
         op[p].pc # "idle" \/ phase # "down", Writes(p)' => Writes(p) \/ Loose = {}
  PROVE  IInv'
<1>1. BoxTypes /\ BoxTypes' /\ Loose' = Loose /\ Stray' = Stray /\ UNCHANGED history /\ born' = born /\ born \in Nat
  BY Facts DEF boxes, BoxTypes, Loose, Stray
<1>2. Calm(p)
  BY <1>1, Facts DEF boxes, history, Calm
<1> QED
  BY <1>2, CalmPreserves

\* A request arrives.
LEMMA IssuePreserves ==
  ASSUME IInv, NEW p \in Procs, NEW k \in {"pause", "resume", "delete", "check"}, Issue(p, k)
  PROVE  IInv'
<1> USE DEF bounds
<1>1. /\ op[p] = Idle /\ phase = "serving" /\ UNCHANGED <<row, rec, boxes, phase, history>>
      /\ op' = [op EXCEPT ![p].kind = k, ![p].pc = "read"]
  BY DEF Issue, Accept
<1>2. /\ Moved(p) /\ op'[p].box = op[p].box /\ op'[p].url = op[p].url /\ op'[p].bad = op[p].bad
      /\ op'[p].kind = k /\ op'[p].pc = "read"
  BY <1>1, Facts DEF Moved, Ops, Pcs, Kinds
<1> QED
  BY <1>1, <1>2, Facts, StaysCalm DEF Writes

\* Before its row is there an agent has no sandbox, and so none is loose.
LEMMA CreateInsertPreserves ==
  ASSUME IInv, NEW p \in Procs, CreateInsert(p)
  PROVE  IInv'
<1> USE DEF bounds
<1>1. /\ op[p] = Idle /\ phase = "serving" /\ row = "unborn" /\ row' = "creating" /\ UNCHANGED <<rec, boxes, phase, history>>
      /\ op' = [op EXCEPT ![p].kind = "create", ![p].pc = "start"]
  BY DEF CreateInsert, Accept
<1>2. /\ Moved(p) /\ op'[p].box = op[p].box /\ op'[p].url = op[p].url /\ op'[p].bad = op[p].bad /\ op'[p].pc = "start"
  BY <1>1, Facts DEF Moved, Ops, Pcs, Kinds
<1>3. Loose = {}
  BY <1>1, Facts DEF IInv, UnbornHasNoBox
<1> QED
  BY <1>1, <1>2, <1>3, Facts, StaysCalm

\* create_agent, from the start of the sandbox to its undoing.
LEMMA CreatePreserves ==
  ASSUME IInv, NEW p \in Procs, Create(p)
  PROVE  IInv'
<1> USE DEF bounds
<1>1. CASE CreateStart(p)
  <2>1. /\ op[p].kind = "create" /\ op[p].pc = "start" /\ UNCHANGED <<row, rec, phase, history>>
        /\ Writes(p)
    BY <1>1 DEF CreateStart, Writes
  <2>2. CASE Start(0, 0) /\ op' = [op EXCEPT ![p].pc = "store", ![p].box = born', ![p].url = port'[born']]
    <3>1. BoxTypes' /\ Loose' \subseteq Loose /\ Stray' \subseteq Stray /\ born <= born' /\ born' \in 1..MaxBoxes /\ born' \in Boxes
      BY <2>2, Facts, StartIsCalm
    <3>2. Moved(p) /\ op'[p].box = born' /\ op'[p].url = port'[born'] /\ op'[p].bad = op[p].bad /\ op'[p].pc = "store"
      BY SMTT(40), <2>2, <3>1, Facts DEF Moved, Ops, Pcs, BoxTypes
    <3>3. Calm(p)
      BY <2>1, <3>1, <3>2, Facts DEF Calm, history, BoxTypes
    <3> QED
      BY <3>3, CalmPreserves
  <2>3. CASE StartFails(0) /\ Raise(p)
    <3>1. Calm(p)
      BY <2>1, <2>3, Facts, StopsAreCalm, RaiseMoves DEF Calm, history
    <3> QED
      BY <3>1, CalmPreserves
  <2> QED
    BY <1>1, <2>2, <2>3 DEF CreateStart
<1>2. CASE CreateStore(p)
  <2>1. op[p].pc = "store" /\ Writes(p) /\ UNCHANGED <<row, boxes, phase, history>>
    BY <1>2 DEF CreateStore, Writes
  <2>2. \/ rec' = op[p].box /\ row # "unborn" /\ Goto(p, "health")
        \/ rec' = rec /\ Raise(p)
    BY <1>2 DEF CreateStore, SaveSandbox, Present
  <2>3. CASE rec' = rec /\ Raise(p)
    BY <2>1, <2>3, Facts, RaiseMoves, StaysCalm
  <2>4. CASE rec' = op[p].box /\ row # "unborn" /\ Goto(p, "health")
    BY <2>1, <2>4, Facts, GotoMoves, StaysCalm DEF Pcs
  <2> QED
    BY <2>2, <2>3, <2>4
<1>3. CASE CreateUndo(p)
  <2>1. op[p].pc = "undo" /\ Writes(p) /\ UNCHANGED <<row, rec, phase, history>> /\ Goto(p, "forget")
    BY <1>3 DEF CreateUndo, Writes
  <2>2. CASE UNCHANGED boxes
    BY <2>1, <2>2, Facts, GotoMoves, StaysCalm DEF Pcs
  <2>3. CASE CleanUp(op[p].box)
    <3>1. Calm(p)
      BY <2>1, <2>3, Facts, StopsAreCalm, GotoMoves DEF Calm, history, Pcs
    <3> QED
      BY <3>1, CalmPreserves
  <2> QED
    BY <1>3, <2>2, <2>3 DEF CreateUndo
<1>4. CASE CreateForget(p)
  <2>1. /\ op[p].pc = "forget" /\ Writes(p) /\ UNCHANGED <<boxes, phase, history>>
        /\ row' = "gone" /\ rec' = 0 /\ Leave(p)
    BY <1>4 DEF CreateForget, Writes
  <2> QED
    BY <2>1, Facts, LeaveMoves, StaysCalm
<1> QED
  BY <1>1, <1>2, <1>3, <1>4 DEF Create

\* A pause writes the sandbox back that it stopped: then none is loose.
LEMMA PausePreserves ==
  ASSUME IInv, NEW p \in Procs, Pause(p)
  PROVE  IInv'
<1> USE DEF bounds
<1>1. CASE PauseRead(p)
  <2>1. op[p].kind = "pause" /\ op[p].pc = "read" /\ UNCHANGED <<row, rec, boxes, phase, history>> /\ (Goto(p, "quiet") \/ Leave(p))
    BY <1>1 DEF PauseRead
  <2> QED
    <3>1. CASE Goto(p, "quiet")
      BY <2>1, <3>1, Facts, GotoMoves, StaysCalm DEF Pcs, Writes
    <3>2. CASE Leave(p)
      BY <2>1, <3>2, Facts, LeaveMoves, StaysCalm DEF Writes
    <3> QED
      BY <2>1, <3>1, <3>2
<1>2. CASE PauseQuiet(p)
  <2>1. /\ op[p].kind = "pause" /\ op[p].pc = "quiet" /\ Goto(p, "stop")
        /\ UNCHANGED <<row, rec, alive, stuck, remains, tracked, port, born, phase, history>> /\ runtime' \subseteq runtime
    BY <1>2 DEF PauseQuiet
  <2>2. BoxTypes' /\ Loose' = Loose /\ Stray' = Stray
    BY <2>1, Facts, RuntimeIsCalm DEF BoxTypes
  <2>3. Calm(p)
    BY <2>1, <2>2, Facts, GotoMoves DEF Calm, history, Pcs, Writes
  <2> QED
    BY <2>3, CalmPreserves
<1>3. CASE PauseStop(p)
  <2>1. op[p].kind = "pause" /\ op[p].pc = "stop" /\ UNCHANGED <<row, rec, stuck, tracked, port, born, phase, history>>
    BY <1>3 DEF PauseStop
  <2>2. CASE UNCHANGED <<alive, remains, runtime>> /\ Goto(p, "paused")
    BY <2>1, <2>2, Facts, GotoMoves, StaysCalm DEF Pcs, Writes, boxes
  <2>3. CASE Stops(rec) /\ Halt(rec) /\ op' = [op EXCEPT ![p].box = rec, ![p].pc = "store"]
    <3>1. BoxTypes' /\ Loose' \subseteq Loose \ {rec} /\ Stray' \subseteq Stray /\ born' = born
      <4>1. ~StartFails(rec) \/ alive' = alive \ {rec}
        BY <2>3 DEF Halt
      <4> QED
        BY <2>1, <2>3, Facts, StopsAreCalm DEF Halt, Loose, Stray
    <3>2. Loose' = {}
      BY <2>1, <3>1, Facts
    <3>3. Moved(p) /\ op'[p].box = rec /\ op'[p].url = op[p].url /\ op'[p].bad = op[p].bad /\ op'[p].pc = "store"
      BY <2>3, Facts DEF Moved, Ops, Pcs
    <3>4. Calm(p)
      BY <2>1, <3>1, <3>2, <3>3, Facts DEF Calm, history
    <3> QED
      BY <3>4, CalmPreserves
  <2> QED
    BY <1>3, <2>2, <2>3 DEF PauseStop
<1>4. CASE PauseStore(p)
  <2>1. op[p].pc = "store" /\ Writes(p) /\ UNCHANGED <<row, boxes, phase, history>>
    BY <1>4 DEF PauseStore, Writes
  <2>2. \/ rec' = op[p].box /\ row # "unborn" /\ Goto(p, "paused")
        \/ rec' = rec /\ Raise(p)
    BY <1>4 DEF PauseStore, SaveSandbox, Present
  <2>3. CASE rec' = rec /\ Raise(p)
    BY <2>1, <2>3, Facts, RaiseMoves, StaysCalm
  <2>4. CASE rec' = op[p].box /\ row # "unborn" /\ Goto(p, "paused")
    BY <2>1, <2>4, Facts, GotoMoves, StaysCalm DEF Pcs
  <2> QED
    BY <2>2, <2>3, <2>4
<1>5. CASE SetPaused(p)
  <2>1. op[p].pc = "paused" /\ row' \in {row, "paused"} /\ UNCHANGED <<rec, boxes, phase, history>> /\ Leave(p)
    BY <1>5 DEF SetPaused, UpdateStatus
  <2> QED
    BY <2>1, Facts, LeaveMoves, StaysCalm DEF Writes
<1> QED
  BY <1>1, <1>2, <1>3, <1>4, <1>5 DEF Pause

\* A restart kills the sandbox that the row names before the new one is written there.
LEMMA ResumePreserves ==
  ASSUME IInv, NEW p \in Procs, Resume(p)
  PROVE  IInv'
<1> USE DEF bounds
<1>1. CASE ResumeRead(p) \/ ResumeProbe(p)
  <2>1. /\ op[p].kind \in {"resume", "recover"} /\ op[p].pc \in {"read", "probe"} /\ UNCHANGED <<row, rec, boxes, phase, history>>
    BY <1>1 DEF ResumeRead, ResumeProbe, Resuming
  <2>2. \/ \E pc \in {"probe", "launch"} : rec # 0 /\ op' = [op EXCEPT ![p].pc = pc, ![p].url = port[rec]]
        \/ Goto(p, "restart")
        \/ Raise(p)
    BY <1>1 DEF ResumeRead, ResumeProbe
  <2>3. CASE Goto(p, "restart")
    BY <2>1, <2>3, Facts, GotoMoves, StaysCalm DEF Pcs, Writes
  <2>4. CASE Raise(p)
    BY <2>1, <2>4, Facts, RaiseMoves, StaysCalm
  <2>5. ASSUME NEW pc \in {"probe", "launch"}, rec # 0, op' = [op EXCEPT ![p].pc = pc, ![p].url = port[rec]]
        PROVE  IInv'
    <3>1. Moved(p) /\ op'[p].kind = op[p].kind /\ op'[p].pc = pc /\ op'[p].box = op[p].box /\ op'[p].url = port[rec] /\ op'[p].bad = op[p].bad
      BY <2>5, Facts DEF Moved, Ops, Pcs
    <3> QED
      BY <2>1, <2>5, <3>1, Facts, StaysCalm DEF Writes
  <2> QED
    BY <2>2, <2>3, <2>4, <2>5
<1>2. CASE ResumeRestart(p)
  <2>1. op[p].kind \in {"resume", "recover"} /\ op[p].pc = "restart" /\ UNCHANGED <<row, rec, phase, history>>
    BY <1>2 DEF ResumeRestart, Resuming
  <2>2. CASE StartFails(rec) /\ Raise(p)
    <3>1. Calm(p)
      BY <2>1, <2>2, Facts, StopsAreCalm, RaiseMoves DEF Calm, history
    <3> QED
      BY <3>1, CalmPreserves
  <2>3. CASE Start(rec, IF rec = 0 THEN 0 ELSE port[rec]) /\ op' = [op EXCEPT ![p].pc = "save", ![p].box = born']
    <3>1. (IF rec = 0 THEN 0 ELSE port[rec]) \in 0..MaxBoxes
      BY Facts
    <3>2. /\ BoxTypes' /\ Loose' \subseteq Loose \ {rec} /\ Stray' \subseteq Stray /\ born <= born' /\ born' \in 1..MaxBoxes
      BY <2>3, <3>1, Facts, StartIsCalm
    <3>3. Loose' = {}
      BY <2>1, <3>2, Facts
    <3>4. Moved(p) /\ op'[p].box = born' /\ op'[p].url = op[p].url /\ op'[p].bad = op[p].bad
      BY <2>3, <3>2, Facts DEF Moved, Ops, Pcs
    <3>5. Calm(p)
      BY <2>1, <3>2, <3>3, <3>4, Facts DEF Calm, history
    <3> QED
      BY <3>5, CalmPreserves
  <2> QED
    BY <1>2, <2>2, <2>3 DEF ResumeRestart
<1>3. CASE ResumeSave(p)
  <2>1. op[p].pc = "save" /\ Writes(p) /\ op[p].kind \in {"resume", "recover"} /\ UNCHANGED <<row, boxes, phase, history>>
    BY <1>3 DEF ResumeSave, Resuming, Writes
  <2>2. \/ rec' = op[p].box /\ row # "unborn" /\ op' = [op EXCEPT ![p].pc = "health", ![p].url = port[op[p].box]]
        \/ rec' = rec /\ Raise(p)
    BY <1>3 DEF ResumeSave, SaveSandbox, Present
  <2>3. CASE rec' = rec /\ Raise(p)
    BY <2>1, <2>3, Facts, RaiseMoves, StaysCalm
  <2>4. CASE rec' = op[p].box /\ row # "unborn" /\ op' = [op EXCEPT ![p].pc = "health", ![p].url = port[op[p].box]]
    <3>1. port[op[p].box] \in 0..MaxBoxes
      BY <2>1, Facts DEF BoxTypes
    <3>2. Moved(p) /\ op'[p].box = op[p].box /\ op'[p].url = port[op[p].box] /\ op'[p].bad = op[p].bad /\ op'[p].pc = "health"
      BY <2>4, <3>1, Facts DEF Moved, Ops, Pcs
    <3> QED
      BY <2>1, <2>4, <3>1, <3>2, Facts, StaysCalm
  <2> QED
    BY <2>2, <2>3, <2>4
<1> QED
  BY <1>1, <1>2, <1>3 DEF Resume

\* The health polls, the start of the runtime and the status, of create and resume.
LEMMA BringPreserves ==
  ASSUME IInv, NEW p \in Procs, Bring(p)
  PROVE  IInv'
<1> USE DEF bounds
<1>1. CASE Health(p)
  <2>1. /\ op[p].pc = "health" /\ op[p].kind \in {"create", "resume", "recover"} /\ UNCHANGED <<row, rec, boxes, phase, history>>
        /\ op[p].kind = "create" => Writes(p)
    BY <1>1 DEF Health, Resuming, Writes
  <2>2. \/ /\ op[p].kind = "create" \/ rec # 0
           /\ op' = [op EXCEPT ![p].pc = "launch", ![p].url = IF op[p].kind = "create" THEN @ ELSE port[rec]]
        \/ Raise(p)
    BY <1>1 DEF Health
  <2>3. CASE Raise(p)
    BY <2>1, <2>3, Facts, RaiseMoves, StaysCalm
  <2>4. CASE /\ op[p].kind = "create" \/ rec # 0
             /\ op' = [op EXCEPT ![p].pc = "launch", ![p].url = IF op[p].kind = "create" THEN @ ELSE port[rec]]
    <3>1. /\ Moved(p) /\ op'[p].box = op[p].box /\ op'[p].url \in 0..MaxBoxes /\ op'[p].bad = op[p].bad
          /\ op'[p].pc = "launch" /\ op'[p].kind = op[p].kind
      BY <2>4, Facts DEF Moved, Ops, Pcs
    <3> QED
      BY <2>1, <3>1, Facts, StaysCalm DEF Writes
  <2> QED
    BY <2>2, <2>3, <2>4
<1>2. CASE Launch(p)
  <2>1. /\ op[p].pc = "launch" /\ op[p].kind \in {"create", "resume", "recover"}
        /\ UNCHANGED <<row, rec, alive, stuck, remains, tracked, port, born, phase, history>>
        /\ op[p].kind = "create" => Writes(p)
    BY <1>2 DEF Launch, Resuming, Writes
  <2>2. runtime' \subseteq alive /\ (Goto(p, "running") \/ Raise(p))
    BY <1>2, Facts DEF Launch, StartRuntime, At, BoxTypes
  <2>3. BoxTypes' /\ Loose' = Loose /\ Stray' = Stray
    BY <2>1, <2>2, Facts, RuntimeIsCalm
  <2>4. CASE Goto(p, "running")
    <3>1. Calm(p)
      BY <2>1, <2>3, <2>4, Facts, GotoMoves DEF Calm, history, Pcs, Writes
    <3> QED
      BY <3>1, CalmPreserves
  <2>5. CASE Raise(p)
    <3>1. Calm(p)
      BY <2>1, <2>3, <2>5, Facts, RaiseMoves DEF Calm, history
    <3> QED
      BY <3>1, CalmPreserves
  <2> QED
    BY <2>2, <2>4, <2>5
<1>3. CASE SetRunning(p)
  <2>1. /\ op[p].pc = "running" /\ op[p].kind \in {"create", "resume", "recover"} /\ UNCHANGED <<rec, boxes, phase, history>>
        /\ row' \in {row, "running"} /\ (Leave(p) \/ Raise(p))
        /\ op[p].kind = "create" => Writes(p)
    BY <1>3 DEF SetRunning, UpdateStatus, Writes
  <2>2. CASE Leave(p)
    BY <2>1, <2>2, Facts, LeaveMoves, StaysCalm DEF Writes
  <2>3. CASE Raise(p)
    BY <2>1, <2>3, Facts, RaiseMoves, StaysCalm
  <2> QED
    BY <2>1, <2>2, <2>3
<1> QED
  BY <1>1, <1>2, <1>3 DEF Bring

\* A delete removes the row when it has killed the sandbox there, or there was none.
LEMMA DeletePreserves ==
  ASSUME IInv, NEW p \in Procs, Delete(p)
  PROVE  IInv'
<1> USE DEF bounds
<1>1. CASE DeleteRead(p)
  <2>1. op[p].kind = "delete" /\ op[p].pc = "read" /\ UNCHANGED <<row, rec, boxes, phase, history>>
    BY <1>1 DEF DeleteRead, Deleting
  <2>2. \/ rec # 0 /\ op' = [op EXCEPT ![p].pc = "quiet", ![p].box = rec, ![p].url = port[rec]]
        \/ op' = [op EXCEPT ![p].pc = "kill", ![p].box = rec, ![p].bad = row \in {"running", "paused"}]
        \/ Raise(p)
    BY <1>1 DEF DeleteRead
  <2>3. CASE Raise(p)
    BY <2>1, <2>3, Facts, RaiseMoves, StaysCalm
  <2>4. CASE rec # 0 /\ op' = [op EXCEPT ![p].pc = "quiet", ![p].box = rec, ![p].url = port[rec]]
    <3>1. /\ Moved(p) /\ op'[p].box = rec /\ op'[p].url = port[rec] /\ op'[p].bad = op[p].bad
          /\ op'[p].pc = "quiet" /\ op'[p].kind = "delete"
      BY <2>1, <2>4, Facts DEF Moved, Ops, Pcs
    <3> QED
      BY <2>1, <2>4, <3>1, Facts, StaysCalm DEF Writes
  <2>5. CASE op' = [op EXCEPT ![p].pc = "kill", ![p].box = rec, ![p].bad = row \in {"running", "paused"}]
    <3>1. (row \in {"running", "paused"}) \in BOOLEAN
      OBVIOUS
    <3>2. /\ Moved(p) /\ op'[p].box = rec /\ op'[p].url = op[p].url /\ op'[p].bad \in BOOLEAN
          /\ op'[p].pc = "kill" /\ op'[p].kind = "delete"
      BY <2>1, <2>5, <3>1, Facts DEF Moved, Ops, Pcs
    <3>3. Writes(p)' => Loose = {}
      BY <2>1, <3>2, Facts DEF Writes
    <3> QED
      BY <2>1, <3>2, <3>3, Facts, StaysCalm
  <2> QED
    BY <2>2, <2>3, <2>4, <2>5
<1>2. CASE DeleteQuiet(p)
  <2>1. /\ op[p].kind = "delete" /\ op[p].pc = "quiet" /\ UNCHANGED <<row, rec, alive, stuck, remains, tracked, port, born, phase, history>>
        /\ runtime' \subseteq runtime
    BY <1>2 DEF DeleteQuiet, Deleting
  <2>2. Goto(p, "kill") \/ op' = [op EXCEPT ![p].pc = "kill", ![p].bad = TRUE]
    BY <1>2 DEF DeleteQuiet
  <2>3. BoxTypes' /\ Loose' = Loose /\ Stray' = Stray
    BY <2>1, Facts, RuntimeIsCalm DEF BoxTypes
  <2>4. /\ Moved(p) /\ op'[p].box = op[p].box /\ op'[p].url = op[p].url /\ op'[p].bad \in BOOLEAN
        /\ op'[p].pc = "kill" /\ op'[p].kind = "delete"
    BY <2>1, <2>2, Facts DEF Goto, Moved, Ops, Pcs
  <2>5. op[p].box # 0
    BY <2>1, Facts
  <2>6. Calm(p)
    BY <2>1, <2>3, <2>4, <2>5, Facts DEF Calm, history, Writes
  <2> QED
    BY <2>6, CalmPreserves
<1>3. CASE DeleteKill(p)
  <2>1. op[p].kind = "delete" /\ op[p].pc = "kill" /\ UNCHANGED <<row, rec, phase, history>>
    BY <1>3 DEF DeleteKill, Deleting
  <2>2. Raise(p) \/ Goto(p, "mark")
    BY <1>3 DEF DeleteKill
  <2>3. \/ CleanUp(rec)
        \/ UNCHANGED boxes /\ Raise(p)
        \/ UNCHANGED boxes /\ (op[p].box = 0 \/ rec = 0)
    BY <1>3 DEF DeleteKill
  <2>4. CASE UNCHANGED boxes /\ Raise(p)
    BY <2>1, <2>4, Facts, RaiseMoves, StaysCalm
  <2>5. CASE UNCHANGED boxes /\ (op[p].box = 0 \/ rec = 0)
    <3>1. Loose = {}
      BY <2>1, <2>5, Facts DEF Writes
    <3>2. CASE Raise(p)
      BY <2>1, <2>5, <3>2, Facts, RaiseMoves, StaysCalm
    <3>3. CASE Goto(p, "mark")
      BY <2>1, <2>5, <3>1, <3>3, Facts, GotoMoves, StaysCalm DEF Pcs
    <3> QED
      BY <2>2, <3>2, <3>3
  <2>6. CASE CleanUp(rec)
    <3>1. BoxTypes' /\ Loose' \subseteq Loose \ {rec} /\ Stray' \subseteq Stray /\ born' = born
      BY <2>6, Facts, StopsAreCalm DEF CleanUp, Halt, Loose, Stray
    <3>2. Loose' = {}
      BY <2>1, <3>1, Facts
    <3>3. CASE Raise(p)
      <4>1. Calm(p)
        BY <2>1, <3>1, <3>2, <3>3, Facts, RaiseMoves DEF Calm, history
      <4> QED
        BY <4>1, CalmPreserves
    <3>4. CASE Goto(p, "mark")
      <4>1. Calm(p)
        BY <2>1, <3>1, <3>2, <3>4, Facts, GotoMoves DEF Calm, history, Pcs
      <4> QED
        BY <4>1, CalmPreserves
    <3> QED
      BY <2>2, <3>3, <3>4
  <2> QED
    BY <2>3, <2>4, <2>5, <2>6
<1>4. CASE DeleteMark(p)
  <2>1. /\ op[p].kind = "delete" /\ op[p].pc = "mark" /\ Writes(p) /\ UNCHANGED <<rec, boxes, phase, history>>
        /\ row' \in {row, "deleted"} /\ (Goto(p, "erase") \/ Raise(p))
    BY <1>4 DEF DeleteMark, Deleting, UpdateStatus, Writes
  <2> QED
    BY <2>1, Facts, GotoMoves, RaiseMoves, StaysCalm DEF Pcs
<1>5. CASE DeleteErase(p)
  <2>1. /\ op[p].pc = "erase" /\ Writes(p) /\ UNCHANGED <<boxes, phase, history>>
        /\ row' = "gone" /\ rec' = 0 /\ Leave(p)
    BY <1>5 DEF DeleteErase, Deleting, Writes
  <2> QED
    BY <2>1, Facts, LeaveMoves, StaysCalm
<1> QED
  BY <1>1, <1>2, <1>3, <1>4, <1>5 DEF Delete

\* The status check writes no more than the status.
LEMMA CheckPreserves ==
  ASSUME IInv, NEW p \in Procs, Check(p)
  PROVE  IInv'
<1> USE DEF bounds
<1>1. /\ op[p].kind = "check" /\ op[p].pc \in {"read", "accuse"} /\ UNCHANGED <<rec, boxes, phase, history>>
      /\ row' \in {row, "error"} /\ (Goto(p, "accuse") \/ Leave(p))
  BY DEF Check, CheckRead, CheckAccuse, UpdateStatus
<1> QED
  BY <1>1, Facts, GotoMoves, LeaveMoves, StaysCalm DEF Pcs, Writes

-----------------------------------------------------------------------------
(* Start-up, shutdown, crash, and the sandboxes' own faults.               *)

\* The reaper leaves what the row names and what cannot be killed; a shutdown stops
\* what is registered; a crash forgets the registry, and what was under way.
LEMMA PhasesPreserve ==
  ASSUME IInv, Reap \/ Recover \/ Serve \/ Shutdown \/ Crash
  PROVE  IInv'
<1> USE NamesAssumption DEF Procs, bounds, history
<1>1. /\ BoxTypes /\ op \in [Procs -> Ops] /\ Idle \in Ops /\ Idle.pc = "idle" /\ Idle.box = 0 /\ Idle.url = 0 /\ Idle.bad = FALSE
      /\ 0 \in 0..born /\ 0 \in 0..MaxBoxes
  BY BoundsAssumption DEF IInv, Shape, TypeOK, BoxTypes, Idle, Ops, Pcs
<1>2. CASE Reap
  <2>1. /\ phase' = "reaped" /\ alive' \subseteq alive /\ alive' \subseteq stuck \cup {rec} /\ runtime' \subseteq alive'
        /\ UNCHANGED <<row, rec, stuck, remains, tracked, port, born, op, forsaken>> /\ unheard' \in BOOLEAN
    BY <1>2, <1>1 DEF Reap, BoxTypes
  <2> QED
    BY <1>2, <2>1 DEF Reap, IInv, Shape, TypeOK, BusyMeansUp, HoldsABox, UnbornHasNoBox, EveryBoxIsWithinReach,
       ReplacesNothingLoose, RemainsAreKnown, Writes, Loose, Stray
<1>3. CASE Recover \/ Serve
  <2>1. /\ phase # "down" /\ phase' \in {"recovering", "serving"} /\ UNCHANGED <<row, rec, boxes, forsaken>>
        /\ unheard' \in BOOLEAN
        /\ op' = op \/ op' = [op EXCEPT ![Boot].kind = "recover", ![Boot].pc = "read"]
    BY <1>3 DEF Recover, Unheard, Serve, IInv, Shape, TypeOK
  <2>2. /\ op' \in [Procs -> Ops]
        /\ \A q \in Procs : /\ op'[q].box = op[q].box /\ op'[q].url = op[q].url /\ op'[q].bad \in BOOLEAN
                            /\ op'[q] = op[q] \/ (op'[q].kind = "recover" /\ op'[q].pc = "read")
    BY <1>1, <2>1 DEF Ops, Pcs
  <2>3. Shape'
    <3>1. \A q \in Procs : op'[q].box \in 0..born' /\ op'[q].url \in 0..MaxBoxes /\ op'[q].bad \in BOOLEAN
      BY <2>1, <2>2 DEF boxes, IInv, Shape, TypeOK
    <3> QED
      BY <2>1, <2>2, <3>1 DEF boxes, IInv, Shape, TypeOK
  <2>4. BusyMeansUp' /\ HoldsABox' /\ UnbornHasNoBox' /\ EveryBoxIsWithinReach' /\ RemainsAreKnown'
    BY <2>1, <2>2 DEF boxes, IInv, RemainsAreKnown, Stray, BusyMeansUp, HoldsABox, UnbornHasNoBox, EveryBoxIsWithinReach
  <2>5. ReplacesNothingLoose'
    BY <2>1, <2>2 DEF boxes, IInv, ReplacesNothingLoose, Writes, Loose
  <2> QED
    BY <2>3, <2>4, <2>5 DEF IInv
<1>4. CASE Shutdown \/ Crash
  <2>1. /\ phase' = "down" /\ alive' \subseteq alive /\ runtime' \subseteq alive' /\ tracked' = {}
        /\ remains' \subseteq remains /\ remains' \subseteq forsaken' /\ forsaken' \subseteq 1..born
        /\ UNCHANGED <<row, rec, stuck, port, born, unheard>>
    BY <1>1, <1>4 DEF Shutdown, Crash, BoxTypes, IInv, Shape, TypeOK, RemainsAreKnown, Stray
  <2>2. op' \in [Procs -> Ops] /\ \A q \in Procs : op'[q] = Idle \/ (op'[q] = op[q] /\ op[q].pc = "idle")
    BY <1>1, <1>4 DEF Shutdown, Crash, Busy
  <2>3. \A q \in Procs : op'[q].pc = "idle" /\ op'[q].box \in 0..born /\ op'[q].url \in 0..MaxBoxes /\ op'[q].bad \in BOOLEAN
    BY <1>1, <2>2 DEF IInv, Shape, TypeOK
  <2>4. Shape'
    BY <1>1, <2>1, <2>2, <2>3 DEF IInv, Shape, TypeOK, BoxTypes
  <2> QED
    BY <2>1, <2>3, <2>4 DEF IInv, BusyMeansUp, HoldsABox, UnbornHasNoBox, EveryBoxIsWithinReach, ReplacesNothingLoose, Writes, RemainsAreKnown, Stray
<1> QED
  BY <1>2, <1>3, <1>4

\* A sandbox dies by itself, or gets stuck.
LEMMA FaultsPreserve ==
  ASSUME IInv, NEW b \in Boxes, BoxDies(b) \/ BoxSticks(b)
  PROVE  IInv'
<1>1. /\ UNCHANGED <<row, rec, tracked, port, born, op, phase, unheard>> /\ b \in alive
      /\ \/ /\ alive' = alive \ {b} /\ runtime' = runtime \ {b} /\ stuck' = stuck \ {b}
            /\ \/ UNCHANGED <<remains, forsaken>>
               \/ /\ remains' = remains \cup {b}
                  /\ forsaken' = forsaken \cup ({b} \ (tracked \ stuck))
         \/ /\ UNCHANGED <<alive, runtime, remains, forsaken>> /\ stuck' = stuck \cup {b}
  BY DEF BoxDies, BoxSticks, history
<1>2. Loose' \subseteq Loose /\ Shape'
  BY <1>1 DEF IInv, Shape, TypeOK, Loose
<1>5. RemainsAreKnown'
  BY <1>1 DEF IInv, RemainsAreKnown, Stray
<1>3. BusyMeansUp' /\ HoldsABox' /\ UnbornHasNoBox'
  BY <1>1 DEF IInv, BusyMeansUp, HoldsABox, UnbornHasNoBox
<1>4. EveryBoxIsWithinReach' /\ ReplacesNothingLoose'
  BY <1>1, <1>2, <1>5 DEF IInv, EveryBoxIsWithinReach, ReplacesNothingLoose, Writes, Loose, RemainsAreKnown, Stray
<1> QED
  BY <1>2, <1>3, <1>4, <1>5 DEF IInv

-----------------------------------------------------------------------------

\* Nothing was created yet.
LEMMA InitEstablishes == Init => IInv
<1> SUFFICES ASSUME Init PROVE IInv
  OBVIOUS
<1>1. Shape
  <2>1. Idle \in Ops /\ Idle.box = 0 /\ Idle.url = 0 /\ Idle.bad = FALSE
    BY DEF Idle, Ops, Pcs
  <2>2. op \in [Procs -> Ops] /\ \A p \in Procs : op[p] = Idle
    BY <2>1 DEF Init
  <2>3. born = 0 /\ 0 \in 0..MaxBoxes /\ 0 \in 0..born /\ port \in [Boxes -> 0..MaxBoxes]
    BY BoundsAssumption DEF Init
  <2> QED
    BY <2>1, <2>2, <2>3 DEF Init, Shape, TypeOK
<1> QED
  BY <1>1 DEF Init, Idle, IInv, BusyMeansUp, HoldsABox, UnbornHasNoBox, EveryBoxIsWithinReach, ReplacesNothingLoose, Writes, RemainsAreKnown, Stray

\* The inductive invariant, by the processes.
THEOREM Invariance == Spec => []IInv
<1>1. Init => IInv
  BY InitEstablishes
<1>2. IInv /\ [Next]_vars => IInv'
  <2> SUFFICES ASSUME IInv, [Next]_vars PROVE IInv'
    OBVIOUS
  <2>1. CASE UNCHANGED vars
    BY <2>1 DEF vars, boxes, bounds, history, IInv, Shape, TypeOK, RemainsAreKnown, Stray, BusyMeansUp, HoldsABox, UnbornHasNoBox,
       EveryBoxIsWithinReach, ReplacesNothingLoose, Writes, Loose
  <2>2. ASSUME NEW p \in Procs, Step(p) PROVE IInv'
    BY <2>2, CreatePreserves, PausePreserves, ResumePreserves, BringPreserves, DeletePreserves, CheckPreserves DEF Step
  <2>3. CASE StartUp
    <3>1. CASE RecoverFailed
      <4>1. /\ op[Boot].pc = "failed" /\ Boot \in Procs /\ row' \in {row, "error"} /\ Leave(Boot)
            /\ UNCHANGED <<rec, boxes, phase, forsaken>> /\ unheard' \in BOOLEAN
        BY <3>1 DEF RecoverFailed, Unheard, UpdateStatus, Procs, bounds, history, IInv, Shape, TypeOK
      <4>2. BoxTypes' /\ Loose' = Loose /\ Stray' = Stray /\ born' = born
        BY <4>1, Facts DEF boxes, BoxTypes, Loose, Stray
      <4>3. Calm(Boot)
        <5>1. /\ Moved(Boot) /\ op'[Boot].pc = "idle" /\ op'[Boot].box = 0 /\ op'[Boot].url = 0 /\ op'[Boot].bad = FALSE
              /\ ~Writes(Boot)'
          BY <4>1, Facts, LeaveMoves DEF Writes
        <5>2. /\ row' \in {"unborn", "creating", "running", "paused", "deleted", "error", "gone"} /\ rec' = rec
              /\ row' = "unborn" => row = "unborn"
          BY <4>1, Facts
        <5>3. /\ born <= born' /\ 0 \in 0..born' /\ 0 \in 0..MaxBoxes /\ forsaken \subseteq 1..born
              /\ phase' = phase /\ forsaken' = forsaken /\ op[Boot].pc # "idle"
          BY <4>1, <4>2, Facts
        <5> QED
          BY <4>1, <4>2, <5>1, <5>2, <5>3 DEF Calm
      <4> QED
        BY <4>1, <4>3, CalmPreserves
    <3> QED
      BY <2>3, <3>1, PhasesPreserve DEF StartUp
  <2> QED
    BY <2>1, <2>2, <2>3, CreateInsertPreserves, IssuePreserves, PhasesPreserve, FaultsPreserve DEF Next
<1> QED
  BY <1>1, <1>2, PTL DEF Spec

\* The rows and the registry name only sandboxes that were started, and a runtime runs
\* only in one that lives.
THEOREM TypeCorrect == Spec => []TypeOK
<1>1. IInv => TypeOK
  BY DEF IInv, Shape
<1> QED
  BY <1>1, Invariance, PTL

\* However create, pause, resume, delete, the check, crashes and restarts interleave, a
\* sandbox that lives is named by the agent's row or stopped by the next shutdown.
THEOREM NoneIsLost == Spec => []EveryBoxIsWithinReach
<1>1. IInv => EveryBoxIsWithinReach
  BY DEF IInv
<1> QED
  BY <1>1, Invariance, PTL

-----------------------------------------------------------------------------
(* The discipline of the requests, on which the next two results depend.    *)

ActiveAt(p, kind) == op[p].kind = kind /\ op[p].pc # "idle"

\* Nobody is served unless the service serves, but for the recovery while it recovers.
ServedInPhase ==
  \A p \in Procs : op[p].pc # "idle" =>
    IF p = Boot THEN phase = "recovering" /\ op[p].kind = "recover"
                ELSE phase = "serving" /\ op[p].kind \in Kinds

\* Who is done has forgotten everything.
IdleIsIdle == \A p \in Procs : op[p].pc = "idle" => op[p] = Idle

\* Two requests in flight are a pair that may overlap.
Paired == \A p, q \in Procs :
  p # q /\ op[p].pc # "idle" /\ op[q].pc # "idle" => {op[p].kind, op[q].kind} \in Together

\* One coroutine at a time is between two of its awaits.
OneHolds == \A p, q \in Procs : op[p].pc \in LoopHeld /\ op[q].pc \in LoopHeld => p = q

Discipline == ServedInPhase /\ IdleIsIdle /\ Paired /\ OneHolds

\* What a request's step is to the others: it is the same request afterwards, or over, and
\* it is between two awaits only if nobody else is.
Shift(p) ==
  /\ op \in [Procs -> Ops] /\ Moved(p) /\ phase' = phase /\ op[p].pc # "idle"
  /\ op'[p] = Idle \/ (op'[p].kind = op[p].kind /\ op'[p].pc # "idle")
  /\ op'[p].pc \in LoopHeld => LoopFree(p)

\* An exception ends a request, or sends create and the recovery to their handlers.
LEMMA RaiseEnds ==
  ASSUME op \in [Procs -> Ops], NEW p \in Procs, Raise(p)
  PROVE  /\ Moved(p)
         /\ op'[p] = Idle \/ (op'[p].kind = op[p].kind /\ op'[p].pc \in {"undo", "failed"})
         /\ op[p].kind = "create" => op'[p].pc = "undo" /\ op'[p].box = op[p].box
         /\ op[p].kind = "recover" => op'[p].pc = "failed"
         /\ op[p].kind \notin {"create", "recover"} => op'[p] = Idle
<1>1. CASE op[p].kind \in {"create", "recover"}
  BY <1>1, GotoMoves DEF Raise, Pcs
<1>2. CASE op[p].kind \notin {"create", "recover"}
  BY <1>2, LeaveMoves DEF Raise
<1> QED
  BY <1>1, <1>2

LEMMA ThreadsShift ==
  ASSUME IInv, NEW p \in Procs, Create(p) \/ Pause(p) \/ Check(p)
  PROVE  Shift(p)
<1>1. /\ op \in [Procs -> Ops] /\ phase' = phase /\ op[p].pc # "idle"
      /\ \/ \E pc \in Pcs \ (LoopHeld \cup {"idle"}) : Goto(p, pc)
         \/ Leave(p) \/ Raise(p)
         \/ /\ op[p].kind = "create"
            /\ op' = [op EXCEPT ![p].pc = "store", ![p].box = born', ![p].url = port'[born']]
            /\ Start(0, 0)
         \/ op[p].kind = "pause" /\ op' = [op EXCEPT ![p].box = rec, ![p].pc = "store"]
  BY Facts DEF Create, CreateStart, CreateStore, CreateUndo, CreateForget, Pause, PauseRead, PauseQuiet, PauseStop,
     PauseStore, SetPaused, Check, CheckRead, CheckAccuse, Pcs, LoopHeld
<1>2. CASE \E pc \in Pcs \ (LoopHeld \cup {"idle"}) : Goto(p, pc)
  BY <1>1, <1>2, GotoMoves DEF Shift
<1>3. CASE Leave(p)
  BY <1>1, <1>3, LeaveMoves DEF Shift, LoopHeld
<1>4. CASE Raise(p)
  BY <1>1, <1>4, RaiseEnds DEF Shift, LoopHeld, Idle
<1>5. CASE /\ op' = [op EXCEPT ![p].pc = "store", ![p].box = born', ![p].url = port'[born']]
           /\ Start(0, 0)
  <2>1. born' \in Nat /\ port'[born'] \in Nat
    BY <1>5, Facts, StartIsCalm DEF BoxTypes
  <2>2. Moved(p) /\ op'[p].kind = op[p].kind /\ op'[p].pc = "store"
    BY <1>1, <1>5, <2>1 DEF Moved, Ops, Pcs
  <2> QED
    BY <1>1, <2>2 DEF Shift, LoopHeld
<1>6. CASE op' = [op EXCEPT ![p].box = rec, ![p].pc = "store"]
  <2>1. Moved(p) /\ op'[p].kind = op[p].kind /\ op'[p].pc = "store"
    BY <1>1, <1>6, Facts DEF Moved, Ops, Pcs
  <2> QED
    BY <1>1, <2>1 DEF Shift, LoopHeld
<1> QED
  BY <1>1, <1>2, <1>3, <1>4, <1>5, <1>6

LEMMA CoroutinesShift ==
  ASSUME IInv, NEW p \in Procs, Resume(p) \/ Delete(p)
  PROVE  Shift(p)
<1>1. op \in [Procs -> Ops] /\ phase' = phase /\ op[p].pc # "idle" /\ LoopFree(p)
  BY Facts DEF Resume, Resuming, ResumeRead, ResumeProbe, ResumeRestart, ResumeSave, Delete, Deleting, DeleteRead,
     DeleteQuiet, DeleteKill, DeleteMark, DeleteErase
<1>2. \/ \E pc \in Pcs \ {"idle"} : Goto(p, pc)
      \/ Leave(p) \/ Raise(p)
      \/ rec # 0 /\ op' = [op EXCEPT ![p].pc = "probe", ![p].url = port[rec]]
      \/ rec # 0 /\ op' = [op EXCEPT ![p].pc = "launch", ![p].url = port[rec]]
      \/ op[p].pc = "save" /\ op' = [op EXCEPT ![p].pc = "health", ![p].url = port[op[p].box]]
      \/ op' = [op EXCEPT ![p].pc = "kill", ![p].bad = TRUE]
      \/ rec # 0 /\ op' = [op EXCEPT ![p].pc = "quiet", ![p].box = rec, ![p].url = port[rec]]
      \/ op' = [op EXCEPT ![p].pc = "kill", ![p].box = rec, ![p].bad = row \in {"running", "paused"}]
      \/ /\ Start(rec, IF rec = 0 THEN 0 ELSE port[rec])
         /\ op' = [op EXCEPT ![p].pc = "save", ![p].box = born']
  BY DEF Resume, ResumeRead, ResumeProbe, ResumeRestart, ResumeSave, Delete, DeleteRead,
     DeleteQuiet, DeleteKill, DeleteMark, DeleteErase, Pcs
<1>3. CASE \E pc \in Pcs \ {"idle"} : Goto(p, pc)
  BY <1>1, <1>3, GotoMoves DEF Shift
<1>4. CASE Leave(p)
  BY <1>1, <1>4, LeaveMoves DEF Shift
<1>5. CASE Raise(p)
  BY <1>1, <1>5, RaiseEnds DEF Shift
<1>6. op[p] \in Ops /\ rec \in Nat /\ (rec # 0 => port[rec] \in Nat)
  BY Facts
<1>7. ASSUME rec # 0, NEW pc \in {"probe", "launch"}, op' = [op EXCEPT ![p].pc = pc, ![p].url = port[rec]]
      PROVE  Moved(p) /\ op'[p].kind = op[p].kind /\ op'[p].pc # "idle"
  BY <1>1, <1>6, <1>7 DEF Moved, Ops, Pcs
<1>8. ASSUME op[p].pc = "save", op' = [op EXCEPT ![p].pc = "health", ![p].url = port[op[p].box]]
      PROVE  Moved(p) /\ op'[p].kind = op[p].kind /\ op'[p].pc # "idle"
  <2>1. port[op[p].box] \in Nat
    BY <1>8, Facts DEF BoxTypes
  <2> QED
    BY <1>1, <1>6, <1>8, <2>1 DEF Moved, Ops, Pcs
<1>9. ASSUME op' = [op EXCEPT ![p].pc = "kill", ![p].bad = TRUE]
       PROVE  Moved(p) /\ op'[p].kind = op[p].kind /\ op'[p].pc # "idle"
  BY <1>1, <1>9 DEF Moved, Ops, Pcs
<1>10. ASSUME rec # 0, op' = [op EXCEPT ![p].pc = "quiet", ![p].box = rec, ![p].url = port[rec]]
       PROVE  Moved(p) /\ op'[p].kind = op[p].kind /\ op'[p].pc # "idle"
  BY <1>1, <1>6, <1>10 DEF Moved, Ops, Pcs
<1>11. ASSUME op' = [op EXCEPT ![p].pc = "kill", ![p].box = rec, ![p].bad = row \in {"running", "paused"}]
       PROVE  Moved(p) /\ op'[p].kind = op[p].kind /\ op'[p].pc # "idle"
  <2>1. (row \in {"running", "paused"}) \in BOOLEAN
    OBVIOUS
  <2> QED
    BY <1>1, <1>6, <1>11, <2>1 DEF Moved, Ops, Pcs
<1>12. ASSUME Start(rec, IF rec = 0 THEN 0 ELSE port[rec]), op' = [op EXCEPT ![p].pc = "save", ![p].box = born']
       PROVE  Moved(p) /\ op'[p].kind = op[p].kind /\ op'[p].pc # "idle"
  <2>1. born' \in Nat
    BY <1>12, Facts DEF Start
  <2> QED
    BY <1>1, <1>12, <2>1 DEF Moved, Ops, Pcs
<1>13. CASE Moved(p) /\ op'[p].kind = op[p].kind /\ op'[p].pc # "idle"
  BY <1>1, <1>13 DEF Shift
<1> QED
  BY <1>2, <1>3, <1>4, <1>5, <1>7, <1>8, <1>9, <1>10, <1>11, <1>12, <1>13


LEMMA BringShift ==
  ASSUME IInv, NEW p \in Procs, Bring(p)
  PROVE  Shift(p)
<1>1. op \in [Procs -> Ops] /\ phase' = phase /\ op[p].pc # "idle"
  BY Facts DEF Bring, Health, Launch, SetRunning
<1>2. \/ Goto(p, "running") \/ Leave(p) \/ Raise(p)
      \/ /\ op[p].kind = "create" \/ rec # 0
         /\ op' = [op EXCEPT ![p].pc = "launch", ![p].url = IF op[p].kind = "create" THEN @ ELSE port[rec]]
  BY DEF Bring, Health, Launch, SetRunning
<1>3. CASE Goto(p, "running")
  BY <1>1, <1>3, GotoMoves DEF Shift, LoopHeld, Pcs
<1>4. CASE Leave(p)
  BY <1>1, <1>4, LeaveMoves DEF Shift, LoopHeld
<1>5. CASE Raise(p)
  BY <1>1, <1>5, RaiseEnds DEF Shift, LoopHeld, Idle
<1>6. CASE /\ op[p].kind = "create" \/ rec # 0
           /\ op' = [op EXCEPT ![p].pc = "launch", ![p].url = IF op[p].kind = "create" THEN @ ELSE port[rec]]
  <2>1. PICK u \in Nat : op' = [op EXCEPT ![p].pc = "launch", ![p].url = u]
    <3>1. CASE op[p].kind = "create"
      BY <1>1, <1>6, <3>1 DEF Ops
    <3>2. CASE op[p].kind # "create"
      <4>1. op' = [op EXCEPT ![p].pc = "launch", ![p].url = port[rec]]
        BY <1>6, <3>2
      <4>2. port[rec] \in Nat
        BY <1>6, <3>2, Facts
      <4> QED
        BY <4>1, <4>2
    <3> QED
      BY <3>1, <3>2
  <2>2. Moved(p) /\ op'[p].kind = op[p].kind /\ op'[p].pc = "launch"
    BY <1>1, <2>1 DEF Moved, Ops, Pcs
  <2> QED
    BY <1>1, <2>2 DEF Shift, LoopHeld
<1> QED
  BY <1>2, <1>3, <1>4, <1>5, <1>6

LEMMA StepsShift ==
  ASSUME IInv, NEW p \in Procs, Step(p)
  PROVE  Shift(p)
BY ThreadsShift, CoroutinesShift, BringShift DEF Step

\* A step keeps the discipline.
LEMMA ShiftKeepsDiscipline ==
  ASSUME Discipline, NEW p \in Procs, Shift(p)
  PROVE  Discipline'
<1>1. /\ \A q \in Procs : q # p => op'[q] = op[q]
      /\ op'[p] = Idle \/ (op'[p].kind = op[p].kind /\ op'[p].pc # "idle")
      /\ Idle.pc = "idle" /\ op[p].pc # "idle" /\ phase' = phase
  BY DEF Shift, Moved, Idle
<1>2. ServedInPhase' /\ IdleIsIdle' /\ Paired'
  BY <1>1 DEF Discipline, ServedInPhase, IdleIsIdle, Paired
<1>3. OneHolds'
  BY <1>1 DEF Discipline, OneHolds, Shift, LoopFree
<1> QED
  BY <1>2, <1>3 DEF Discipline

\* A request is accepted only next to those that it may overlap.
LEMMA AcceptKeepsDiscipline ==
  ASSUME IInv, Discipline, NEW p \in Procs, NEW k \in Kinds, NEW pc \in {"read", "start"}, Accept(p, k), phase' = phase,
         op' = [op EXCEPT ![p].kind = k, ![p].pc = pc]
  PROVE  Discipline'
<1>1. /\ op \in [Procs -> Ops] /\ \A q \in Procs : q # p => op'[q] = op[q]
      /\ op'[p].kind = k /\ op'[p].pc = pc /\ op[p].pc = "idle" /\ p # Boot
      /\ \A q \in Procs : op[q].pc # "idle" => {k, op[q].kind} \in Together
      /\ phase = "serving" /\ phase' = phase
  BY Facts, NamesAssumption DEF Accept, Ops, Idle, Busy
<1>2. \A q, r \in Procs : {op'[q].kind, op'[r].kind} = {op'[r].kind, op'[q].kind}
  OBVIOUS
<1>3. Paired'
  BY <1>1, <1>2 DEF Discipline, Paired
<1>4. ServedInPhase' /\ IdleIsIdle' /\ OneHolds'
  BY <1>1 DEF Discipline, ServedInPhase, IdleIsIdle, OneHolds, LoopHeld
<1> QED
  BY <1>3, <1>4 DEF Discipline

\* Start-up, shutdown and crash: the recovery is alone, and a service that stops serves nobody.
LEMMA PhasesKeepDiscipline ==
  ASSUME IInv, Discipline, StartUp \/ Shutdown \/ Crash
  PROVE  Discipline'
<1> USE DEF Discipline
<1>1. op \in [Procs -> Ops] /\ Boot \in Procs /\ Idle.pc = "idle" /\ BusyMeansUp
  BY Facts DEF Procs, Idle, IInv
<1>2. CASE RecoverFailed
  <2>1. Shift(Boot)
    BY <1>1, <1>2, LeaveMoves DEF RecoverFailed, Shift, LoopHeld
  <2> QED
    BY <1>1, <2>1, ShiftKeepsDiscipline
<1>3. CASE Recover
  <2>1. \A q \in Procs : op[q].pc = "idle"
    BY <1>3 DEF Recover, ServedInPhase
  <2>2. \A q \in Procs : \/ op'[q] = op[q]
                         \/ q = Boot /\ op'[q].kind = "recover" /\ op'[q].pc = "read"
    BY <1>1, <1>3 DEF Recover, Ops
  <2> QED
    BY <1>3, <2>1, <2>2 DEF Recover, ServedInPhase, IdleIsIdle, Paired, OneHolds, LoopHeld
<1>4. CASE Reap
  <2>1. \A q \in Procs : op[q].pc = "idle"
    BY <1>1, <1>4 DEF Reap, BusyMeansUp
  <2> QED
    BY <1>4, <2>1 DEF Reap, ServedInPhase, IdleIsIdle, Paired, OneHolds, LoopHeld
<1>5. CASE Serve
  <2>1. \A q \in Procs : op[q].pc = "idle"
    BY <1>1, <1>5 DEF Serve, ServedInPhase
  <2> QED
    BY <1>5, <2>1 DEF Serve, ServedInPhase, IdleIsIdle, Paired, OneHolds, LoopHeld
<1>6. CASE Shutdown
  <2>1. \A q \in Procs : op[q].pc = "idle"
    BY <1>6 DEF Shutdown, Busy
  <2> QED
    BY <1>6, <2>1 DEF Shutdown, ServedInPhase, IdleIsIdle, Paired, OneHolds, LoopHeld
<1>7. CASE Crash
  BY <1>1, <1>7 DEF Crash, ServedInPhase, IdleIsIdle, Paired, OneHolds, LoopHeld
<1> QED
  BY <1>2, <1>3, <1>4, <1>5, <1>6, <1>7 DEF StartUp

LEMMA NextKeepsDiscipline ==
  ASSUME IInv, Discipline, [Next]_vars
  PROVE  Discipline'
<1>1. CASE UNCHANGED vars
  BY <1>1 DEF vars, bounds, Discipline, ServedInPhase, IdleIsIdle, Paired, OneHolds
<1>2. ASSUME NEW p \in Procs, Step(p) PROVE Discipline'
  BY <1>2, StepsShift, ShiftKeepsDiscipline
<1>3. ASSUME NEW p \in Procs, CreateInsert(p) PROVE Discipline'
  <2>1. Accept(p, "create") /\ phase' = phase /\ op' = [op EXCEPT ![p].kind = "create", ![p].pc = "start"]
    BY <1>3 DEF CreateInsert
  <2> QED
    BY <2>1, AcceptKeepsDiscipline DEF Kinds
<1>4. ASSUME NEW p \in Procs, NEW k \in {"pause", "resume", "delete", "check"}, Issue(p, k) PROVE Discipline'
  <2>1. Accept(p, k) /\ phase' = phase /\ op' = [op EXCEPT ![p].kind = k, ![p].pc = "read"]
    BY <1>4 DEF Issue
  <2> QED
    BY <2>1, AcceptKeepsDiscipline DEF Kinds
<1>5. ASSUME NEW b \in Boxes, BoxDies(b) \/ BoxSticks(b) PROVE Discipline'
  <2>1. UNCHANGED <<op, phase>>
    BY <1>5 DEF BoxDies, BoxSticks
  <2> QED
    BY <2>1 DEF Discipline, ServedInPhase, IdleIsIdle, Paired, OneHolds
<1> QED
  BY <1>1, <1>2, <1>3, <1>4, <1>5, PhasesKeepDiscipline DEF Next

\* Nobody is served at first.
LEMMA InitIsDisciplined == Init => Discipline
BY DEF Init, Idle, Discipline, ServedInPhase, IdleIsIdle, Paired, OneHolds, LoopHeld

-----------------------------------------------------------------------------
(* What the recovery leaves behind.                                         *)

RowStays == \A p \in Procs : op[p].kind = "recover" => row = "running"
HeardOut ==
  /\ op[Boot].pc = "launch" => op[Boot].url = port[rec]
  /\ op[Boot].pc = "running" => rec \in runtime \/ rec \notin alive

RInv == RowStays /\ HeardOut /\ RecoveredOrError


\* It is a matter of the start-up alone.
LEMMA OnlyWhenRecovering == Discipline /\ phase # "recovering" => RInv
<1> SUFFICES ASSUME Discipline, phase # "recovering" PROVE RInv
  OBVIOUS
<1>1. Boot \in Procs /\ "recover" \notin Kinds /\ Idle.kind = "none" /\ Idle.pc = "idle"
  BY DEF Procs, Kinds, Idle
<1>2. \A p \in Procs : op[p].kind # "recover"
  BY <1>1 DEF Discipline, ServedInPhase, IdleIsIdle
<1>3. op[Boot].pc = "idle"
  BY <1>1 DEF Discipline, ServedInPhase
<1> QED
  BY <1>2, <1>3 DEF RInv, RowStays, HeardOut, RecoveredOrError

\* While it recovers, the service serves nobody but the recovery.
LEMMA AloneInRecovery ==
  ASSUME Discipline, phase = "recovering"
  PROVE  /\ Boot \in Procs
         /\ \A p \in Procs : op[p].pc # "idle" => p = Boot /\ op[p].kind = "recover"
         /\ \A p \in Procs : op[p].kind = "recover" => p = Boot /\ op[p].pc # "idle"
<1>1. Boot \in Procs /\ Idle.kind = "none"
  BY DEF Procs, Idle
<1>2. \A p \in Procs : op[p].pc # "idle" => p = Boot /\ op[p].kind = "recover"
  BY DEF Discipline, ServedInPhase
<1>3. \A p \in Procs : op[p].kind = "recover" => op[p].pc # "idle"
  BY <1>1 DEF Discipline, IdleIsIdle
<1> QED
  BY <1>1, <1>2, <1>3

\* The recovery of the agent: what it heard of is the sandbox that the row names.
LEMMA ResumeKeepsHeard ==
  ASSUME IInv, Discipline, RInv, phase = "recovering", Resume(Boot)
  PROVE  RInv'
<1>1. /\ op \in [Procs -> Ops] /\ Boot \in Procs /\ op[Boot].kind = "recover" /\ row = "running"
      /\ \A q \in Procs : q # Boot => op'[q] = op[q] /\ op[q].kind # "recover"
      /\ Moved(Boot) /\ op'[Boot] # Idle
  <2>1. Boot \in Procs /\ op[Boot].pc # "idle"
    BY AloneInRecovery DEF Resume, ResumeRead, ResumeProbe, ResumeRestart, ResumeSave
  <2>2. op[Boot].kind = "recover" /\ \A q \in Procs : q # Boot => op[q].kind # "recover"
    BY <2>1, AloneInRecovery
  <2>3. Shift(Boot)
    BY <2>1, CoroutinesShift
  <2>4. op'[Boot] # Idle
    <3>1. Idle.pc = "idle"
      BY DEF Idle
    <3>2. \A pc \in Pcs \ {"idle"} : Goto(Boot, pc) => op'[Boot].pc # "idle"
      BY <2>1, Facts, GotoMoves
    <3>3. Raise(Boot) => op'[Boot].pc # "idle"
      BY <2>1, <2>2, Facts, RaiseEnds
    <3>4. ASSUME NEW pc \in Pcs \ {"idle"}, NEW u, NEW b,
                 \/ op' = [op EXCEPT ![Boot].pc = pc, ![Boot].url = u]
                 \/ op' = [op EXCEPT ![Boot].pc = pc, ![Boot].box = b]
          PROVE  op'[Boot].pc # "idle"
      BY <2>1, <3>4, Facts DEF Ops
    <3> QED
      BY <3>1, <3>2, <3>3, <3>4 DEF Resume, ResumeRead, ResumeProbe, ResumeRestart, ResumeSave, Pcs
  <2> QED
    BY <2>1, <2>2, <2>3, <2>4, Facts DEF Shift, Moved, RInv, RowStays
<1>2. /\ row' = row /\ phase' = phase
      /\ op'[Boot].pc = "launch" => op'[Boot].url = port'[rec']
      /\ op'[Boot].pc # "running"
  <2>1. CASE ResumeRead(Boot) \/ ResumeProbe(Boot)
    <3>1. UNCHANGED <<row, rec, boxes, phase>>
      BY <2>1 DEF ResumeRead, ResumeProbe
    <3>2. \/ op' = [op EXCEPT ![Boot].pc = "probe", ![Boot].url = port[rec]]
          \/ op' = [op EXCEPT ![Boot].pc = "launch", ![Boot].url = port[rec]]
          \/ Goto(Boot, "restart") \/ Raise(Boot)
      BY <2>1 DEF ResumeRead, ResumeProbe
    <3>3. ASSUME NEW pc \in {"probe", "launch"}, op' = [op EXCEPT ![Boot].pc = pc, ![Boot].url = port[rec]]
          PROVE  op'[Boot].pc = pc /\ op'[Boot].url = port[rec]
      BY <1>1, <3>3 DEF Ops
    <3> QED
      BY <1>1, <3>1, <3>2, <3>3, GotoMoves, RaiseEnds DEF boxes, Pcs
  <2>2. CASE ResumeRestart(Boot)
    <3>1. UNCHANGED <<row, rec, phase>> /\ (Raise(Boot) \/ op' = [op EXCEPT ![Boot].pc = "save", ![Boot].box = born'])
      BY <2>2 DEF ResumeRestart
    <3>2. op' = [op EXCEPT ![Boot].pc = "save", ![Boot].box = born'] => op'[Boot].pc = "save"
      BY <1>1 DEF Ops
    <3> QED
      BY <1>1, <3>1, <3>2, RaiseEnds
  <2>3. CASE ResumeSave(Boot)
    <3>1. UNCHANGED <<row, phase>> /\ (Raise(Boot) \/ op' = [op EXCEPT ![Boot].pc = "health", ![Boot].url = port[op[Boot].box]])
      BY <2>3 DEF ResumeSave
    <3>2. op' = [op EXCEPT ![Boot].pc = "health", ![Boot].url = port[op[Boot].box]] => op'[Boot].pc = "health"
      BY <1>1 DEF Ops
    <3> QED
      BY <1>1, <3>1, <3>2, RaiseEnds
  <2> QED
    BY <2>1, <2>2, <2>3 DEF Resume
<1> QED
  BY <1>1, <1>2 DEF RInv, RowStays, HeardOut, RecoveredOrError

LEMMA BringKeepsHeard ==
  ASSUME IInv, Discipline, RInv, phase = "recovering", Bring(Boot)
  PROVE  RInv'
<1>1. /\ op \in [Procs -> Ops] /\ Boot \in Procs /\ op[Boot].kind = "recover" /\ row = "running"
      /\ \A q \in Procs : q # Boot => op'[q] = op[q] /\ op[q].kind # "recover"
  <2>1. Boot \in Procs /\ op[Boot].pc # "idle"
    BY AloneInRecovery DEF Bring, Health, Launch, SetRunning
  <2>2. op[Boot].kind = "recover" /\ \A q \in Procs : q # Boot => op[q].kind # "recover"
    BY <2>1, AloneInRecovery
  <2>3. Shift(Boot)
    BY <2>1, BringShift
  <2> QED
    BY <2>1, <2>2, <2>3 DEF Shift, Moved, RInv, RowStays
<1>2. CASE Raise(Boot) /\ row' = row
  <2>1. op'[Boot].pc = "failed" /\ Idle.pc = "idle"
    BY <1>1, <1>2, RaiseEnds DEF Idle
  <2> QED
    BY <1>1, <1>2, <2>1 DEF RInv, RowStays, HeardOut, RecoveredOrError
<1>3. CASE Health(Boot)
  <2>1. UNCHANGED <<row, rec, boxes, phase>>
    BY <1>3 DEF Health
  <2>2. CASE op' = [op EXCEPT ![Boot].pc = "launch", ![Boot].url = IF op[Boot].kind = "create" THEN @ ELSE port[rec]]
    <3>1. op'[Boot].pc = "launch" /\ op'[Boot].url = port[rec]
      BY <1>1, <2>2 DEF Ops
    <3> QED
      BY <1>1, <2>1, <3>1 DEF RInv, RowStays, HeardOut, RecoveredOrError, boxes, Idle
  <2> QED
    BY <1>2, <1>3, <2>1, <2>2 DEF Health
<1>4. CASE Launch(Boot)
  <2>1. UNCHANGED <<row, rec, alive, port>>
    BY <1>4 DEF Launch
  <2>2. CASE StartRuntime(op[Boot].url) /\ Goto(Boot, "running")
    <3>1. op'[Boot].pc = "running" /\ Idle.pc = "idle"
      BY <1>1, <2>2, GotoMoves DEF Pcs, Idle
    <3>2. op[Boot].url = port[rec]
      BY <1>4 DEF Launch, RInv, HeardOut
    <3>3. rec \in runtime' \/ rec \notin alive
      BY <2>2, <3>2 DEF StartRuntime, At
    <3> QED
      BY <1>1, <2>1, <3>1, <3>3 DEF RInv, RowStays, HeardOut, RecoveredOrError
  <2> QED
    BY <1>2, <1>4, <2>1, <2>2 DEF Launch
<1>5. CASE SetRunning(Boot)
  <2>1. op[Boot].pc = "running" /\ UNCHANGED <<rec, boxes, phase>>
    BY <1>5 DEF SetRunning
  <2>2. CASE UpdateStatus("running") /\ Leave(Boot)
    <3>1. op'[Boot] = Idle /\ row' = "running" /\ Idle.pc = "idle"
      BY <1>1, <2>2, LeaveMoves DEF UpdateStatus
    <3> QED
      BY <1>1, <2>1, <3>1 DEF RInv, RowStays, HeardOut, RecoveredOrError, boxes
  <2> QED
    BY <1>2, <1>5, <2>2 DEF SetRunning
<1> QED
  BY <1>3, <1>4, <1>5 DEF Bring

\* The recovery of an agent that runs ends with its runtime in the sandbox, or with "error".
LEMMA NextKeepsRecovered ==
  ASSUME IInv, Discipline, RInv, [Next]_vars, Discipline'
  PROVE  RInv'
<1>0. (Discipline /\ phase # "recovering")' => RInv'
  BY OnlyWhenRecovering, PTL
<1> SUFFICES ASSUME phase' = "recovering" PROVE RInv'
  BY <1>0
<1>1. CASE UNCHANGED vars
  BY <1>1 DEF vars, boxes, bounds, history, RInv, RowStays, HeardOut, RecoveredOrError
<1>2. ASSUME NEW p \in Procs, Step(p) PROVE RInv'
  <2>1. Shift(p)
    BY <1>2, StepsShift
  <2>2. phase = "recovering" /\ p = Boot /\ op[p].kind = "recover"
    BY <2>1, AloneInRecovery DEF Shift
  <2>3. Resume(p) \/ Bring(p)
    BY <1>2, <2>2 DEF Step, Create, CreateStart, CreateStore, CreateUndo, CreateForget, Pause, PauseRead, PauseQuiet,
       PauseStop, PauseStore, SetPaused, Delete, Deleting, DeleteRead, DeleteQuiet, DeleteKill, DeleteMark, DeleteErase,
       Check, CheckRead, CheckAccuse
  <2> QED
    BY <2>2, <2>3, ResumeKeepsHeard, BringKeepsHeard
<1>3. CASE RecoverFailed
  <2>1. op \in [Procs -> Ops] /\ phase = "recovering" /\ Boot \in Procs /\ row = "running"
    BY <1>3, Facts, AloneInRecovery DEF RecoverFailed, Procs, RInv, RowStays
  <2>2. /\ row' = "error" \/ (row' = row /\ unheard' = TRUE)
        /\ op'[Boot] = Idle /\ \A q \in Procs : q # Boot => op'[q] = op[q] /\ op[q].kind # "recover"
    BY <1>3, <2>1, AloneInRecovery DEF RecoverFailed, Unheard, UpdateStatus, Present, Leave
  <2> QED
    BY <2>1, <2>2 DEF RInv, RowStays, HeardOut, RecoveredOrError, Idle
<1>4. CASE Recover
  <2>1. \A q \in Procs : op[q].pc = "idle" /\ op[q] = Idle
    BY <1>4 DEF Recover, Discipline, ServedInPhase, IdleIsIdle
  <2>2. op \in [Procs -> Ops] /\ Boot \in Procs
    BY Facts DEF Procs
  <2>3. CASE row = "running" /\ op' = [op EXCEPT ![Boot].kind = "recover", ![Boot].pc = "read"]
    <3>1. op'[Boot].pc = "read" /\ row' = "running"
      BY <1>4, <2>2, <2>3 DEF Recover, Ops
    <3> QED
      BY <3>1 DEF RInv, RowStays, HeardOut, RecoveredOrError, Idle
  <2>4. CASE (row # "running" \/ unheard' = TRUE) /\ op' = op
    <3>1. \A q \in Procs : op'[q] = Idle
      BY <2>1, <2>4
    <3> QED
      BY <1>4, <2>2, <2>4, <3>1 DEF Recover, RInv, RowStays, HeardOut, RecoveredOrError, Idle
  <2> QED
    BY <1>4, <2>3, <2>4 DEF Recover, Unheard
<1>5. ASSUME NEW b \in Boxes, BoxDies(b) \/ BoxSticks(b) PROVE RInv'
  <2>1. /\ UNCHANGED <<row, rec, port, op, phase, unheard>>
        /\ \/ alive' = alive \ {b} /\ runtime' = runtime \ {b}
           \/ alive' = alive /\ runtime' = runtime
    BY <1>5 DEF BoxDies, BoxSticks, history
  <2> QED
    BY <2>1 DEF RInv, RowStays, HeardOut, RecoveredOrError
<1>6. ASSUME NEW p \in Procs, CreateInsert(p) \/ \E k \in {"pause", "resume", "delete", "check"} : Issue(p, k) PROVE FALSE
  BY <1>6 DEF CreateInsert, Issue, Accept
<1>7. CASE Reap \/ Serve \/ Shutdown \/ Crash
  BY <1>7 DEF Reap, Serve, Shutdown, Crash
<1> QED
  BY <1>1, <1>2, <1>3, <1>4, <1>5, <1>6, <1>7 DEF Next, StartUp

\* Both go with the inductive invariant.
LEMMA DisciplineAndRecovery == Spec => [](IInv /\ Discipline /\ RInv)
<1>1. Init => Discipline /\ RInv
  BY InitIsDisciplined, OnlyWhenRecovering DEF Init
<1>2. IInv /\ Discipline /\ RInv /\ [Next]_vars => Discipline' /\ RInv'
  BY NextKeepsDiscipline, NextKeepsRecovered
<1> QED
  BY <1>1, <1>2, Invariance, PTL DEF Spec

\* Wherever a crash or a shutdown left the agent and its sandbox, and whatever fails on the
\* way: when the recovery is over, an agent that is still "running" has its runtime in the
\* sandbox that the database names.
THEOREM RunningIsRecovered == Spec => []RecoveredOrError
<1>1. RInv => RecoveredOrError
  BY DEF RInv
<1> QED
  BY <1>1, DisciplineAndRecovery, PTL

-----------------------------------------------------------------------------
(* Requests that the code orders leave no orphan.                           *)

\* The pairs of requests that nothing in the code orders do not overlap: a resume with a
\* pause, and a delete with a create or a resume.  The recovery overlaps with none anyway.
Tame == {"pause", "resume"} \notin Together /\ {"delete", "resume"} \notin Together
        /\ {"create", "delete"} \notin Together

\* The sandboxes that live in whole or in part, but for what is out of reach.
Trees == alive \cup (remains \ forsaken)

\* A process that has a sandbox of its own, which the row need not name yet.
Making(p) == (op[p].kind = "create" /\ op[p].pc # "idle") \/ op[p].pc = "save"

\* What a process knows of the agent's row, of the sandbox's row and of the sandboxes: the
\* row is "creating" as long as the agent is created, and nobody else has got past reading it.
Knows(p) ==
  /\ op[p].kind = "create" /\ op[p].pc # "idle" => row = "creating"
  /\ op[p].kind = "pause" /\ op[p].pc \notin {"idle", "read"} => row \notin {"unborn", "creating"}
  /\ op[p].kind = "check" /\ op[p].pc = "accuse" => row \notin {"unborn", "creating"}
  /\ op[p].kind \in {"resume", "recover"} /\ op[p].pc \notin {"idle", "read"} => row \notin {"unborn", "creating", "gone"}
  /\ op[p].kind = "create" /\ op[p].pc = "start" => op[p].box = 0
  /\ op[p].kind = "create" /\ op[p].pc \in {"health", "launch", "running"} => rec = op[p].box
  /\ op[p].kind = "pause" /\ op[p].pc = "store" => rec = op[p].box \/ ~Present
  /\ op[p].kind = "delete" /\ op[p].pc \in {"quiet", "kill"} /\ op[p].box = 0 => rec = 0
  /\ Making(p) => Trees \subseteq {op[p].box} \cup stuck
  /\ op[p].pc \in {"forget", "mark", "erase"} => Trees \subseteq stuck
  /\ op[p].pc = "save" => op[p].kind \in {"resume", "recover"}
  /\ op[p].pc \in {"mark", "erase"} => op[p].kind = "delete"
  /\ op[p].pc = "forget" => op[p].kind = "create"

OneCreate == \A p, q \in Procs :
  op[p].kind = "create" /\ op[q].kind = "create" /\ op[p].pc # "idle" /\ op[q].pc # "idle" => p = q

\* If nobody is making a sandbox, those that live are named by the row.
Named == phase # "down" /\ (\A p \in Procs : ~Making(p)) => Trees \subseteq {rec} \cup stuck

OInv == (\A p \in Procs : Knows(p)) /\ OneCreate /\ Named

\* Who may be under way next to whom.
LEMMA Company ==
  ASSUME Tame, Discipline, OInv, NEW p \in Procs, NEW q \in Procs, p # q, op[p].pc # "idle", op[q].pc # "idle"
  PROVE  /\ op[p].kind = "create" => op[q].kind \notin {"create", "delete"}
                                     /\ (op[q].pc = "read" \/ op[q].kind \notin {"pause", "resume", "recover"})
         /\ op[p].kind \in {"resume", "recover"} /\ op[p].pc # "read" => op[q].kind \notin {"create", "delete", "pause"}
         /\ op[p].kind = "delete" => op[q].kind \notin {"create", "resume", "recover"}
         /\ op[p].kind = "pause" /\ op[p].pc # "read" => op[q].kind # "create"
         /\ op[p].kind = "check" /\ op[p].pc = "accuse" => op[q].kind # "create"
<1>1. {op[p].kind, op[q].kind} \in Together /\ {op[q].kind, op[p].kind} \in Together
  BY DEF Discipline, Paired
<1>2. op[p].kind # "recover" /\ op[q].kind # "recover"
  BY <1>1, NamesAssumption DEF Kinds
<1>3. Knows(p) /\ Knows(q) /\ OneCreate
  BY DEF OInv
<1>4. ~(op[p].kind = "create" /\ op[q].kind = "create")
  BY <1>3 DEF OneCreate
<1>5. /\ ~(op[p].kind = "create" /\ op[q].kind = "delete") /\ ~(op[p].kind = "delete" /\ op[q].kind = "create")
      /\ ~(op[p].kind = "resume" /\ op[q].kind = "delete") /\ ~(op[p].kind = "delete" /\ op[q].kind = "resume")
      /\ ~(op[p].kind = "resume" /\ op[q].kind = "pause")
  BY <1>1 DEF Tame
<1> QED
  BY <1>2, <1>3, <1>4, <1>5 DEF Knows

\* It is enough to look at the process that moves, at what the others know and at the rest.
LEMMA OrderIsKept ==
  ASSUME OInv, NEW p \in Procs, Shift(p), Knows(p)',
         \A q \in Procs : q # p /\ op[q].pc # "idle" => Knows(q)', Named'
  PROVE  OInv'
<1>1. \A q \in Procs : q # p => op'[q] = op[q]
  BY DEF Shift, Moved
<1>2. \A q \in Procs : q # p /\ op[q].pc = "idle" => Knows(q)'
  BY <1>1 DEF Knows, Making
<1>3. OneCreate'
  <2>1. Idle.pc = "idle"
    BY DEF Idle
  <2> QED
    BY <1>1, <2>1 DEF Shift, OInv, OneCreate
<1> QED
  BY <1>2, <1>3 DEF OInv

\* A step that touches no row, starts nothing and makes nobody forget a sandbox of his.
LEMMA QuietSteps ==
  ASSUME OInv, NEW p \in Procs, Shift(p), UNCHANGED <<row, rec, stuck>>, Trees' \subseteq Trees, Knows(p)',
         Making(p) => Making(p)'
  PROVE  OInv'
<1>1. \A q \in Procs : q # p => op'[q] = op[q]
  BY DEF Shift, Moved
<1>2. \A q \in Procs : q # p => Knows(q)'
  BY <1>1 DEF OInv, Knows, Making, Present
<1>3. Named'
  BY <1>1 DEF OInv, Named, Making, Shift
<1> QED
  BY <1>2, <1>3, OrderIsKept

\* What the steps below take from the invariants.
LEMMA OrderFacts ==
  ASSUME IInv, OInv, NEW p \in Procs
  PROVE  /\ op \in [Procs -> Ops] /\ 0 \notin Trees /\ Knows(p)
         /\ row = "unborn" => rec = 0
         /\ op[p].pc # "idle" => phase # "down"
         /\ Idle.pc = "idle" /\ Idle.kind = "none"
BY DEF IInv, Shape, TypeOK, UnbornHasNoBox, BusyMeansUp, OInv, Idle, Trees

\* What lives of a sandbox that is stopped goes in whole, unless it is out of reach.
LEMMA KilledInWhole ==
  ASSUME IInv, NEW b, CleanUp(b), Trees \subseteq {b} \cup stuck, UNCHANGED bounds
  PROVE  UNCHANGED stuck /\ Trees' \subseteq Trees /\ Trees' \subseteq stuck
BY DEF CleanUp, Halt, Trees, IInv, RemainsAreKnown, Stray, bounds, history

\* create_agent.
LEMMA CreateKeepsOrder ==
  ASSUME Tame, IInv, Discipline, OInv, NEW p \in Procs, Create(p)
  PROVE  OInv'
<1>1. /\ Shift(p) /\ op[p].kind = "create" /\ op[p].pc # "idle" /\ row = "creating" /\ Making(p)
      /\ Trees \subseteq {op[p].box} \cup stuck
  <2>1. op[p].kind = "create" /\ op[p].pc # "idle"
    BY DEF Create, CreateStart, CreateStore, CreateUndo, CreateForget
  <2> QED
    BY <2>1, ThreadsShift, OrderFacts DEF Knows, Making
<1>2. \A q \in Procs : q # p /\ op[q].pc # "idle" =>
        /\ op'[q] = op[q] /\ Knows(q) /\ op[q].kind \notin {"create", "delete"}
        /\ op[q].pc = "read" \/ op[q].kind \notin {"pause", "resume", "recover"}
  BY <1>1, Company DEF Shift, Moved, OInv
<1>3. CASE CreateStart(p)
  <2>1. op[p].pc = "start" /\ op[p].box = 0 /\ Trees \subseteq stuck /\ UNCHANGED <<row, rec>>
    BY <1>1, <1>3, OrderFacts DEF CreateStart, Knows
  <2>2. CASE StartFails(0) /\ Raise(p)
    <3>1. /\ op'[p].kind = "create" /\ op'[p].pc = "undo" /\ op'[p].box = op[p].box
          /\ UNCHANGED stuck /\ Trees' \subseteq Trees
      BY <1>1, <1>3, <2>2, OrderFacts, RaiseEnds DEF CreateStart, StartFails, Halt, Idle, Trees, bounds, history
    <3> QED
      BY <1>1, <2>1, <3>1, QuietSteps DEF Knows, Making
  <2>3. CASE Start(0, 0) /\ op' = [op EXCEPT ![p].pc = "store", ![p].box = born', ![p].url = port'[born']]
    <3>1. op'[p].kind = "create" /\ op'[p].pc = "store" /\ op'[p].box = born'
      BY <1>1, <2>3, OrderFacts DEF Ops
    <3>2. UNCHANGED stuck /\ Trees' \subseteq Trees \cup {born'}
      BY <1>3, <2>3 DEF CreateStart, Start, Trees, bounds, history
    <3>3. Knows(p)'
      BY <1>1, <2>1, <3>1, <3>2 DEF Knows, Making
    <3>4. \A q \in Procs : q # p /\ op[q].pc # "idle" => Knows(q)'
      <4> SUFFICES ASSUME NEW q \in Procs, q # p, op[q].pc # "idle" PROVE Knows(q)'
        OBVIOUS
      <4>1. op[q].pc \notin {"save", "forget", "mark", "erase"}
        BY <1>2 DEF Knows
      <4> QED
        BY <1>2, <2>1, <4>1 DEF Knows, Making, Present
    <3>5. Named'
      BY <3>1 DEF Named, Making
    <3> QED
      BY <1>1, <3>3, <3>4, <3>5, OrderIsKept
  <2> QED
    BY <1>3, <2>2, <2>3 DEF CreateStart
<1>4. CASE CreateStore(p)
  <2>1. op[p].pc = "store" /\ UNCHANGED <<row, Trees, stuck, phase>> /\ Present
    BY <1>1, <1>4 DEF CreateStore, boxes, bounds, history, Trees, Present
  <2>2. rec' = op[p].box /\ Goto(p, "health")
    BY <1>4, <2>1 DEF CreateStore, SaveSandbox
  <2>3. op'[p].kind = "create" /\ op'[p].pc = "health" /\ op'[p].box = op[p].box
    BY <1>1, <2>2, OrderFacts, GotoMoves DEF Pcs
  <2>4. Knows(p)'
    BY <1>1, <2>1, <2>2, <2>3 DEF Knows, Making
  <2>5. \A q \in Procs : q # p /\ op[q].pc # "idle" => Knows(q)'
    BY <1>2, <2>1 DEF Knows, Making, Present
  <2>6. Named'
    BY <2>3 DEF Named, Making
  <2> QED
    BY <1>1, <2>4, <2>5, <2>6, OrderIsKept
<1>5. CASE CreateUndo(p)
  <2>1. op[p].pc = "undo" /\ UNCHANGED <<row, rec>> /\ Goto(p, "forget")
    BY <1>5 DEF CreateUndo
  <2>2. op'[p].kind = "create" /\ op'[p].pc = "forget" /\ op'[p].box = op[p].box
    BY <1>1, <2>1, OrderFacts, GotoMoves DEF Pcs
  <2>3. UNCHANGED stuck /\ Trees' \subseteq Trees /\ Trees' \subseteq stuck
    <3>1. CASE CleanUp(op[p].box)
      BY <1>1, <1>5, <3>1, KilledInWhole DEF CreateUndo
    <3>2. CASE UNCHANGED boxes /\ (op[p].box = 0 \/ op[p].box \in stuck)
      BY <1>1, <1>5, <3>2, OrderFacts DEF CreateUndo, boxes, bounds, history, Trees
    <3> QED
      BY <1>5, <3>1, <3>2 DEF CreateUndo, Stops
  <2> QED
    BY <1>1, <2>1, <2>2, <2>3, QuietSteps DEF Knows, Making
<1>6. CASE CreateForget(p)
  <2>1. op[p].pc = "forget" /\ UNCHANGED <<Trees, stuck, phase>> /\ row' = "gone" /\ rec' = 0 /\ Leave(p)
    BY <1>6 DEF CreateForget, boxes, bounds, history, Trees
  <2>2. op'[p] = Idle
    BY <2>1, OrderFacts, LeaveMoves
  <2>3. Trees \subseteq stuck
    BY <2>1, OrderFacts DEF Knows
  <2>4. Knows(p)'
    BY <2>2, OrderFacts DEF Knows, Making
  <2>5. \A q \in Procs : q # p /\ op[q].pc # "idle" => Knows(q)'
    BY <1>2, <2>1 DEF Knows, Making, Present
  <2>6. Named'
    BY <2>1, <2>3 DEF Named
  <2> QED
    BY <1>1, <2>4, <2>5, <2>6, OrderIsKept
<1> QED
  BY <1>3, <1>4, <1>5, <1>6 DEF Create

\* pause_agent: the state that it writes back is the one that is there.
LEMMA PauseKeepsOrder ==
  ASSUME Tame, IInv, Discipline, OInv, NEW p \in Procs, Pause(p)
  PROVE  OInv'
<1>1. Shift(p) /\ op[p].kind = "pause" /\ op[p].pc # "idle" /\ Knows(p) /\ UNCHANGED stuck /\ Trees' \subseteq Trees
  BY ThreadsShift, OrderFacts DEF Pause, PauseRead, PauseQuiet, PauseStop, PauseStore, SetPaused, Halt, boxes, bounds, history, Trees
<1>2. ~Making(p)
  BY <1>1, OrderFacts DEF Making, Knows
<1>3. CASE PauseRead(p)
  <2>1. UNCHANGED <<row, rec>> /\ (op'[p] = Idle \/ (op'[p].kind = "pause" /\ op'[p].pc = "quiet" /\ row = "running"))
    BY <1>1, <1>3, OrderFacts, GotoMoves, LeaveMoves DEF PauseRead, CanTransition, Present, Pcs
  <2> QED
    BY <1>1, <1>2, <2>1, OrderFacts, QuietSteps DEF Knows, Making
<1>4. CASE PauseQuiet(p)
  <2>1. UNCHANGED <<row, rec>> /\ op[p].pc = "quiet" /\ op'[p].kind = "pause" /\ op'[p].pc = "stop"
    BY <1>1, <1>4, OrderFacts, GotoMoves DEF PauseQuiet, Pcs
  <2> QED
    BY <1>1, <1>2, <2>1, QuietSteps DEF Knows, Making
<1>5. CASE PauseStop(p)
  <2>1. /\ UNCHANGED <<row, rec>> /\ op[p].pc = "stop" /\ op'[p].kind = "pause"
        /\ op'[p].pc = "paused" \/ (op'[p].pc = "store" /\ op'[p].box = rec)
    <3>1. CASE Goto(p, "paused")
      BY <1>1, <1>5, <3>1, OrderFacts, GotoMoves DEF PauseStop, Pcs
    <3>2. CASE op' = [op EXCEPT ![p].box = rec, ![p].pc = "store"]
      BY <1>1, <1>5, <3>2, OrderFacts DEF PauseStop, Ops
    <3> QED
      BY <1>5, <3>1, <3>2 DEF PauseStop
  <2> QED
    BY <1>1, <1>2, <2>1, QuietSteps DEF Knows, Making
<1>6. CASE PauseStore(p)
  <2>1. op[p].pc = "store" /\ UNCHANGED row /\ (rec' = rec) /\ (Goto(p, "paused") \/ Leave(p))
    BY <1>1, <1>6 DEF PauseStore, SaveSandbox, Knows, Raise
  <2>2. op'[p] = Idle \/ (op'[p].kind = "pause" /\ op'[p].pc = "paused")
    BY <1>1, <2>1, OrderFacts, GotoMoves, LeaveMoves DEF Pcs
  <2> QED
    BY <1>1, <1>2, <2>1, <2>2, OrderFacts, QuietSteps DEF Knows, Making
<1>7. CASE SetPaused(p)
  <2>1. /\ op[p].pc = "paused" /\ UNCHANGED <<rec, Trees, stuck, phase>> /\ op'[p] = Idle
        /\ row' = row \/ (Present /\ row' = "paused")
    BY <1>7, OrderFacts, LeaveMoves DEF SetPaused, UpdateStatus, boxes, bounds, history, Trees
  <2>2. Knows(p)'
    BY <2>1, OrderFacts DEF Knows, Making
  <2>3. \A q \in Procs : q # p /\ op[q].pc # "idle" => op'[q] = op[q] /\ Knows(q) /\ op[q].kind # "create"
    BY <1>1, <2>1, Company DEF Shift, Moved, OInv
  <2>4. \A q \in Procs : q # p /\ op[q].pc # "idle" => Knows(q)'
    BY <2>1, <2>3 DEF Knows, Making, Present
  <2>5. Named'
    BY <1>1, <1>2, <2>1 DEF OInv, Named, Making, Shift, Moved
  <2> QED
    BY <1>1, <2>2, <2>4, <2>5, OrderIsKept
<1> QED
  BY <1>3, <1>4, <1>5, <1>6, <1>7 DEF Pause

\* The status check.
LEMMA CheckKeepsOrder ==
  ASSUME Tame, IInv, Discipline, OInv, NEW p \in Procs, Check(p)
  PROVE  OInv'
<1>1. Shift(p) /\ op[p].kind = "check" /\ op[p].pc # "idle" /\ Knows(p) /\ UNCHANGED <<rec, Trees, stuck, phase>>
  BY ThreadsShift, OrderFacts DEF Check, CheckRead, CheckAccuse, boxes, bounds, history, Trees
<1>2. ~Making(p)
  BY <1>1 DEF Making, Knows
<1>3. CASE CheckRead(p)
  <2>1. UNCHANGED row /\ (op'[p] = Idle \/ (op'[p].kind = "check" /\ op'[p].pc = "accuse" /\ row = "running"))
    BY <1>1, <1>3, OrderFacts, GotoMoves, LeaveMoves DEF CheckRead, Pcs
  <2> QED
    BY <1>1, <1>2, <2>1, OrderFacts, QuietSteps DEF Knows, Making
<1>4. CASE CheckAccuse(p)
  <2>1. op[p].pc = "accuse" /\ op'[p] = Idle /\ (row' = row \/ (Present /\ row' = "error"))
    BY <1>4, OrderFacts, LeaveMoves DEF CheckAccuse, UpdateStatus
  <2>2. Knows(p)'
    BY <2>1, OrderFacts DEF Knows, Making
  <2>3. \A q \in Procs : q # p /\ op[q].pc # "idle" => op'[q] = op[q] /\ Knows(q) /\ op[q].kind # "create"
    BY <1>1, <2>1, Company DEF Shift, Moved, OInv
  <2>4. \A q \in Procs : q # p /\ op[q].pc # "idle" => Knows(q)'
    BY <1>1, <2>1, <2>3 DEF Knows, Making, Present
  <2>5. Named'
    BY <1>1, <1>2, <2>1 DEF OInv, Named, Making, Shift, Moved
  <2> QED
    BY <1>1, <2>2, <2>4, <2>5, OrderIsKept
<1> QED
  BY <1>3, <1>4 DEF Check

\* The restart of a sandbox: the one that the row names makes room for the new one, which is
\* the only one until it is named there.
LEMMA ResumeKeepsOrder ==
  ASSUME Tame, IInv, Discipline, RowStays, OInv, NEW p \in Procs, Resume(p)
  PROVE  OInv'
<1>1. /\ Shift(p) /\ op[p].kind \in {"resume", "recover"} /\ op[p].pc # "idle" /\ Knows(p) /\ LoopFree(p)
      /\ op \in [Procs -> Ops]
  BY CoroutinesShift, OrderFacts DEF Resume, Resuming, ResumeRead, ResumeProbe, ResumeRestart, ResumeSave
<1>2. \A q \in Procs : q # p /\ op[q].pc # "idle" => op'[q] = op[q] /\ Knows(q) /\ op[q].pc \notin LoopHeld
  BY <1>1 DEF Shift, Moved, OInv, LoopFree
<1>3. op[p].pc # "read" => \A q \in Procs : q # p /\ op[q].pc # "idle" => op[q].kind \notin {"create", "delete", "pause"}
  BY <1>1, Company
<1>4. Raise(p) => op'[p] = Idle \/ (op'[p].kind = op[p].kind /\ op'[p].pc = "failed")
  BY <1>1, RaiseEnds
<1>5. CASE ResumeRead(p)
  <2>1. op[p].pc = "read" /\ UNCHANGED <<row, rec, Trees, stuck>> /\ ~Making(p)
    BY <1>1, <1>5 DEF ResumeRead, boxes, bounds, history, Trees, Making
  <2>2. CASE Raise(p)
    <3>1. op[p].kind # "recover" => op'[p] = Idle
      BY <1>1, <2>2, RaiseEnds
    <3>2. op'[p] = Idle \/ row = "running"
      BY <1>1, <3>1 DEF RowStays
    <3> QED
      BY <1>1, <1>4, <2>1, <2>2, <3>2, OrderFacts, QuietSteps DEF Knows, Making
  <2>3. CASE row \in {"paused", "running", "error", "deleted"} /\ ~Raise(p)
    <3>1. op'[p].kind = op[p].kind /\ op'[p].pc \in {"probe", "restart"}
      <4>1. CASE Goto(p, "restart")
        BY <1>1, <4>1, GotoMoves DEF Pcs
      <4>2. CASE op' = [op EXCEPT ![p].pc = "probe", ![p].url = port[rec]]
        BY <1>1, <4>2 DEF Ops
      <4> QED
        BY <1>5, <2>3, <4>1, <4>2 DEF ResumeRead
    <3> QED
      BY <1>1, <2>1, <2>3, <3>1, QuietSteps DEF Knows, Making
  <2> QED
    BY <1>5, <2>2, <2>3 DEF ResumeRead
<1>6. CASE ResumeProbe(p)
  <2>1. op[p].pc = "probe" /\ UNCHANGED <<row, rec, Trees, stuck>> /\ ~Making(p)
    BY <1>1, <1>6 DEF ResumeProbe, boxes, bounds, history, Trees, Making
  <2>2. op'[p] = Idle \/ (op'[p].kind = op[p].kind /\ op'[p].pc \in {"launch", "restart", "failed"})
    <3>1. CASE Goto(p, "restart")
      BY <1>1, <3>1, GotoMoves DEF Pcs
    <3>2. CASE op' = [op EXCEPT ![p].pc = "launch", ![p].url = port[rec]]
      BY <1>1, <3>2 DEF Ops
    <3> QED
      BY <1>4, <1>6, <3>1, <3>2 DEF ResumeProbe
  <2> QED
    BY <1>1, <2>1, <2>2, OrderFacts, QuietSteps DEF Knows, Making
<1>7. CASE ResumeRestart(p)
  <2>1. op[p].pc = "restart" /\ UNCHANGED <<row, rec, phase>> /\ ~Making(p)
    BY <1>1, <1>7 DEF ResumeRestart, Making
  <2>2. CASE StartFails(rec) /\ Raise(p)
    <3>1. UNCHANGED stuck /\ Trees' \subseteq Trees
      BY <1>7, <2>2 DEF ResumeRestart, StartFails, Halt, Trees, bounds, history
    <3> QED
      BY <1>1, <1>4, <2>1, <2>2, <3>1, OrderFacts, QuietSteps DEF Knows, Making
  <2>3. CASE Start(rec, IF rec = 0 THEN 0 ELSE port[rec]) /\ op' = [op EXCEPT ![p].pc = "save", ![p].box = born']
    <3>1. op'[p].kind = op[p].kind /\ op'[p].pc = "save" /\ op'[p].box = born'
      BY <1>1, <2>3 DEF Ops
    <3>2. \A q \in Procs : ~Making(q)
      BY <1>1, <1>2, <1>3, <2>1 DEF Making, LoopHeld
    <3>3. Trees \subseteq {rec} \cup stuck
      BY <1>1, <3>2, OrderFacts DEF OInv, Named
    <3>4. UNCHANGED stuck /\ Trees' \subseteq {born'} \cup stuck
      BY <1>7, <2>3, <3>3 DEF ResumeRestart, Start, Trees, IInv, RemainsAreKnown, Stray, bounds, history
    <3>5. Knows(p)'
      BY <1>1, <2>1, <3>1, <3>4 DEF Knows, Making
    <3>6. \A q \in Procs : q # p /\ op[q].pc # "idle" => Knows(q)'
      <4> SUFFICES ASSUME NEW q \in Procs, q # p, op[q].pc # "idle" PROVE Knows(q)'
        OBVIOUS
      <4>1. op[q].pc \notin {"save", "forget", "mark", "erase"} /\ op'[q] = op[q] /\ op[q].kind # "create" /\ Knows(q)
        BY <1>2, <1>3, <2>1 DEF LoopHeld, Knows
      <4> QED
        BY <2>1, <4>1 DEF Knows, Making, Present
    <3>7. Named'
      BY <3>1 DEF Named, Making
    <3> QED
      BY <1>1, <3>5, <3>6, <3>7, OrderIsKept
  <2> QED
    BY <1>7, <2>2, <2>3 DEF ResumeRestart
<1>8. CASE ResumeSave(p)
  <2>1. op[p].pc = "save" /\ UNCHANGED <<row, Trees, stuck, phase>> /\ Present /\ Trees \subseteq {op[p].box} \cup stuck
    BY <1>1, <1>8 DEF ResumeSave, boxes, bounds, history, Trees, Present, Knows, Making
  <2>2. rec' = op[p].box /\ op' = [op EXCEPT ![p].pc = "health", ![p].url = port[op[p].box]]
    BY <1>8, <2>1 DEF ResumeSave, SaveSandbox
  <2>3. op'[p].kind = op[p].kind /\ op'[p].pc = "health"
    BY <1>1, <2>2 DEF Ops
  <2>4. Knows(p)'
    BY <1>1, <2>1, <2>3 DEF Knows, Making
  <2>5. \A q \in Procs : q # p /\ op[q].pc # "idle" => Knows(q)'
    BY <1>2, <1>3, <2>1 DEF Knows, Making, Present
  <2>6. Named'
    BY <2>1, <2>2 DEF Named
  <2> QED
    BY <1>1, <2>4, <2>5, <2>6, OrderIsKept
<1> QED
  BY <1>5, <1>6, <1>7, <1>8 DEF Resume

\* The polls, the start of the runtime, and the status.
LEMMA BringKeepsOrder ==
  ASSUME Tame, IInv, Discipline, OInv, NEW p \in Procs, Bring(p)
  PROVE  OInv'
<1>1. /\ Shift(p) /\ op[p].kind \in {"create", "resume", "recover"} /\ op[p].pc \in {"health", "launch", "running"}
      /\ Knows(p) /\ UNCHANGED <<rec, Trees, stuck, phase>> /\ op \in [Procs -> Ops]
  BY BringShift, OrderFacts DEF Bring, Health, Launch, SetRunning, Resuming, boxes, bounds, history, Trees
<1>2. /\ op[p].kind = "create" => row = "creating" /\ Trees \subseteq {rec} \cup stuck /\ rec = op[p].box
      /\ op[p].kind # "create" => row \notin {"unborn", "creating", "gone"}
  BY <1>1 DEF Knows, Making
<1>3. CASE Raise(p) /\ row' = row
  <2>1. \/ op'[p] = Idle /\ op[p].kind # "create"
        \/ op'[p].kind = op[p].kind /\ op[p].kind # "create" /\ op'[p].pc = "failed"
        \/ op'[p].kind = op[p].kind /\ op[p].kind = "create" /\ op'[p].pc = "undo" /\ op'[p].box = op[p].box
    BY <1>1, <1>3, RaiseEnds, OrderFacts
  <2> QED
    BY <1>1, <1>2, <1>3, <2>1, OrderFacts, QuietSteps DEF Knows, Making
<1>4. CASE Health(p) /\ ~Raise(p)
  <2>1. op' = [op EXCEPT ![p].pc = "launch", ![p].url = IF op[p].kind = "create" THEN @ ELSE port[rec]] /\ row' = row
    BY <1>4 DEF Health
  <2>2. op'[p].kind = op[p].kind /\ op'[p].pc = "launch" /\ op'[p].box = op[p].box
    BY <1>1, <2>1 DEF Ops
  <2> QED
    BY <1>1, <1>2, <2>1, <2>2, QuietSteps DEF Knows, Making
<1>5. CASE Launch(p) /\ ~Raise(p)
  <2>1. Goto(p, "running") /\ row' = row
    BY <1>5 DEF Launch
  <2>2. op'[p].kind = op[p].kind /\ op'[p].pc = "running" /\ op'[p].box = op[p].box
    BY <1>1, <2>1, GotoMoves DEF Pcs
  <2> QED
    BY <1>1, <1>2, <2>1, <2>2, QuietSteps DEF Knows, Making
<1>6. CASE SetRunning(p) /\ ~(Raise(p) /\ row' = row)
  <2>1. row' = "running" /\ op'[p] = Idle
    BY <1>6, OrderFacts, LeaveMoves DEF SetRunning, UpdateStatus
  <2>2. Knows(p)'
    BY <2>1, OrderFacts DEF Knows, Making
  <2>3. \A q \in Procs : q # p /\ op[q].pc # "idle" => op'[q] = op[q] /\ Knows(q) /\ op[q].kind # "create"
    BY <1>1, Company DEF Shift, Moved, OInv
  <2>4. \A q \in Procs : q # p /\ op[q].pc # "idle" => Knows(q)'
    BY <1>1, <1>2, <2>1, <2>3 DEF Knows, Making, Present
  <2>5. Named'
    <3>1. CASE op[p].kind = "create"
      BY <1>1, <1>2, <3>1 DEF Named
    <3>2. CASE op[p].kind # "create"
      <4>1. ~Making(p)
        BY <1>1, <3>2 DEF Making
      <4> QED
        BY <1>1, <4>1 DEF OInv, Named, Making, Shift, Moved
    <3> QED
      BY <3>1, <3>2
  <2> QED
    BY <1>1, <2>2, <2>4, <2>5, OrderIsKept
<1>7. row' = row \/ SetRunning(p)
  BY DEF Bring, Health, Launch
<1> QED
  BY <1>3, <1>4, <1>5, <1>6, <1>7 DEF Bring

\* delete_agent: what the row names is killed before the row goes.
LEMMA DeleteKeepsOrder ==
  ASSUME Tame, IInv, Discipline, OInv, NEW p \in Procs, Delete(p)
  PROVE  OInv'
<1>1. Shift(p) /\ op[p].kind = "delete" /\ op[p].pc # "idle" /\ Knows(p) /\ op \in [Procs -> Ops]
  BY CoroutinesShift, OrderFacts DEF Delete, Deleting, DeleteRead, DeleteQuiet, DeleteKill, DeleteMark, DeleteErase
<1>2. \A q \in Procs : q # p /\ op[q].pc # "idle" =>
        op'[q] = op[q] /\ Knows(q) /\ op[q].kind \notin {"create", "resume", "recover"} /\ ~Making(q)
  BY <1>1, Company DEF Shift, Moved, OInv, Making, Knows
<1>3. ~Making(p)
  BY <1>1 DEF Making, Knows
<1>4. Trees \subseteq {rec} \cup stuck
  <2>1. \A q \in Procs : ~Making(q)
    BY <1>2, <1>3 DEF Making, OInv, Knows
  <2> QED
    BY <1>1, <2>1, OrderFacts DEF OInv, Named
<1>5. Raise(p) => op'[p] = Idle
  BY <1>1, RaiseEnds
<1>6. CASE DeleteRead(p)
  <2>1. op[p].pc = "read" /\ UNCHANGED <<row, rec, Trees, stuck>>
    BY <1>6 DEF DeleteRead, boxes, bounds, history, Trees
  <2>2. op'[p] = Idle \/ (op'[p].kind = "delete" /\ op'[p].pc \in {"quiet", "kill"} /\ op'[p].box = rec)
    <3>1. CASE op' = [op EXCEPT ![p].pc = "quiet", ![p].box = rec, ![p].url = port[rec]]
      BY <1>1, <3>1 DEF Ops
    <3>2. CASE op' = [op EXCEPT ![p].pc = "kill", ![p].box = rec, ![p].bad = row \in {"running", "paused"}]
      BY <1>1, <3>2 DEF Ops
    <3> QED
      BY <1>5, <1>6, <3>1, <3>2 DEF DeleteRead
  <2> QED
    BY <1>1, <1>3, <2>1, <2>2, OrderFacts, QuietSteps DEF Knows, Making
<1>7. CASE DeleteQuiet(p)
  <2>1. op[p].pc = "quiet" /\ UNCHANGED <<row, rec, Trees, stuck>>
    BY <1>7 DEF DeleteQuiet, Trees, bounds, history
  <2>2. op'[p].kind = "delete" /\ op'[p].pc = "kill" /\ op'[p].box = op[p].box
    <3>1. CASE Goto(p, "kill")
      BY <1>1, <3>1, GotoMoves DEF Pcs
    <3>2. CASE op' = [op EXCEPT ![p].pc = "kill", ![p].bad = TRUE]
      BY <1>1, <3>2 DEF Ops
    <3> QED
      BY <1>7, <3>1, <3>2 DEF DeleteQuiet
  <2> QED
    BY <1>1, <1>3, <2>1, <2>2, QuietSteps DEF Knows, Making
<1>8. CASE DeleteKill(p)
  <2>1. op[p].pc = "kill" /\ UNCHANGED <<row, rec, stuck>> /\ Trees' \subseteq Trees
    BY <1>8 DEF DeleteKill, CleanUp, Halt, boxes, bounds, history, Trees
  <2>2. op'[p] = Idle \/ (op'[p].kind = "delete" /\ op'[p].pc = "mark" /\ Trees' \subseteq stuck)
    <3>1. CASE Raise(p)
      BY <1>5, <3>1
    <3>2. CASE Goto(p, "mark") /\ ~Raise(p)
      <4>1. op'[p].kind = "delete" /\ op'[p].pc = "mark"
        BY <1>1, <3>2, GotoMoves DEF Pcs
      <4>2. CASE CleanUp(rec)
          BY <1>4, <1>8, <2>1, <4>1, <4>2, KilledInWhole DEF DeleteKill
      <4>3. CASE (op[p].box = 0 \/ rec = 0) /\ UNCHANGED boxes
        <5>1. rec = 0
          BY <1>1, <1>8, <4>3 DEF Knows, DeleteKill
        <5> QED
          BY <1>4, <1>8, <4>1, <4>3, <5>1, OrderFacts DEF DeleteKill, boxes, bounds, history, Trees
      <4> QED
        BY <1>8, <3>2, <4>2, <4>3 DEF DeleteKill
    <3> QED
      BY <1>8, <3>1, <3>2 DEF DeleteKill
  <2> QED
    BY <1>1, <1>3, <2>1, <2>2, OrderFacts, QuietSteps DEF Knows, Making
<1>9. CASE DeleteMark(p)
  <2>1. op[p].pc = "mark" /\ UNCHANGED <<rec, Trees, stuck, phase>> /\ Trees \subseteq stuck
    BY <1>1, <1>9 DEF DeleteMark, boxes, bounds, history, Trees, Knows
  <2>2. /\ row' = row \/ (Present /\ row' = "deleted")
        /\ op'[p] = Idle \/ (op'[p].kind = "delete" /\ op'[p].pc = "erase")
    BY <1>1, <1>5, <1>9, GotoMoves DEF DeleteMark, UpdateStatus, Pcs
  <2>3. Knows(p)'
    BY <2>1, <2>2, OrderFacts DEF Knows, Making
  <2>4. \A q \in Procs : q # p /\ op[q].pc # "idle" => Knows(q)'
    BY <1>2, <2>1, <2>2 DEF Knows, Making, Present
  <2>5. Named'
    BY <2>1 DEF Named
  <2> QED
    BY <1>1, <2>3, <2>4, <2>5, OrderIsKept
<1>10. CASE DeleteErase(p)
  <2>1. /\ op[p].pc = "erase" /\ UNCHANGED <<Trees, stuck, phase>> /\ Trees \subseteq stuck /\ row' = "gone" /\ rec' = 0
        /\ op'[p] = Idle
    BY <1>1, <1>10, LeaveMoves DEF DeleteErase, boxes, bounds, history, Trees, Knows
  <2>2. Knows(p)'
    BY <2>1, OrderFacts DEF Knows, Making
  <2>3. \A q \in Procs : q # p /\ op[q].pc # "idle" => Knows(q)'
    BY <1>2, <2>1 DEF Knows, Making, Present
  <2>4. Named'
    BY <2>1 DEF Named
  <2> QED
    BY <1>1, <2>2, <2>3, <2>4, OrderIsKept
<1> QED
  BY <1>6, <1>7, <1>8, <1>9, <1>10 DEF Delete

\* An agent is created when nothing lives yet; the other requests begin with nothing in hand.
LEMMA AcceptKeepsOrder ==
  ASSUME Tame, IInv, Discipline, OInv, NEW p \in Procs,
         CreateInsert(p) \/ \E k \in {"pause", "resume", "delete", "check"} : Issue(p, k)
  PROVE  OInv'
<1>1. /\ op[p] = Idle /\ op[p].box = 0 /\ op[p].pc = "idle" /\ op \in [Procs -> Ops]
      /\ UNCHANGED <<rec, Trees, stuck, phase>> /\ phase # "down"
  BY OrderFacts DEF CreateInsert, Issue, Accept, Idle, boxes, bounds, history, Trees
<1>2. \A q \in Procs : q # p => op'[q] = op[q] /\ Knows(q)
  BY <1>1 DEF CreateInsert, Issue, OInv
<1>3. CASE CreateInsert(p)
  <2>1. /\ row = "unborn" /\ row' = "creating" /\ rec = 0
        /\ op'[p].kind = "create" /\ op'[p].pc = "start" /\ op'[p].box = 0
    BY <1>1, <1>3, OrderFacts DEF CreateInsert, Ops
  <2>2. \A q \in Procs : ~Making(q) /\ ~(op[q].kind = "create" /\ op[q].pc # "idle")
    BY <2>1 DEF OInv, Knows, Making
  <2>3. Trees \subseteq stuck
    BY <1>1, <2>1, <2>2, OrderFacts DEF OInv, Named
  <2>4. Knows(p)'
    BY <1>1, <2>1, <2>3 DEF Knows, Making
  <2>5. \A q \in Procs : q # p => Knows(q)'
    <3> SUFFICES ASSUME NEW q \in Procs, q # p PROVE Knows(q)'
      OBVIOUS
    <3>1. /\ op'[q] = op[q] /\ Knows(q) /\ ~(op[q].kind = "create" /\ op[q].pc # "idle")
          /\ op[q].kind = "delete" /\ op[q].pc \in {"quiet", "kill"} => ~Making(q)
      BY <1>2, <2>2
    <3>2. op[q].kind = "pause" => op[q].pc \in {"idle", "read"}
      BY <2>1, <3>1 DEF Knows
    <3> QED
      BY <1>1, <2>1, <3>1, <3>2 DEF Knows, Making
  <2>6. OneCreate'
    BY <1>2, <2>2 DEF OneCreate
  <2>7. Named'
    BY <2>1 DEF Named, Making
  <2> QED
    BY <2>4, <2>5, <2>6, <2>7 DEF OInv
<1>4. CASE \E k \in {"pause", "resume", "delete", "check"} : Issue(p, k)
  <2>1. row' = row /\ op'[p].kind \in {"pause", "resume", "delete", "check"} /\ op'[p].pc = "read"
    BY <1>1, <1>4 DEF Issue, Ops
  <2>2. Knows(p)'
    BY <2>1 DEF Knows, Making
  <2>3. \A q \in Procs : q # p => Knows(q)'
    BY <1>1, <1>2, <2>1 DEF Knows, Making, Present
  <2>4. OneCreate'
    BY <1>2, <2>1 DEF OInv, OneCreate
  <2>5. Named'
    BY <1>1, <1>2, <2>1 DEF OInv, Named, Making
  <2> QED
    BY <2>2, <2>3, <2>4, <2>5 DEF OInv
<1> QED
  BY <1>3, <1>4

\* The reaper leaves only what the row names, and nobody is served by then.
LEMMA PhasesKeepOrder ==
  ASSUME IInv, Discipline, RowStays, OInv, StartUp \/ Shutdown \/ Crash
  PROVE  OInv'
<1>1. op \in [Procs -> Ops] /\ Boot \in Procs /\ 0 \notin Trees /\ Idle.pc = "idle" /\ Idle.kind = "none" /\ BusyMeansUp
  BY OrderFacts DEF Procs, IInv
<1>2. ASSUME \A q \in Procs : op'[q].pc = "idle", Named' PROVE OInv'
  BY <1>2 DEF OInv, OneCreate, Knows, Making
<1>3. CASE Reap
  <2>1. \A q \in Procs : op'[q].pc = "idle"
    BY <1>1, <1>3 DEF Reap, BusyMeansUp
  <2>2. Trees' \subseteq {rec} \cup stuck /\ UNCHANGED <<rec, stuck>>
    BY <1>3 DEF Reap, Trees, IInv, RemainsAreKnown, Stray
  <2> QED
    BY <1>2, <2>1, <2>2 DEF Named
<1>4. CASE Shutdown
  <2>1. \A q \in Procs : op'[q].pc = "idle"
    BY <1>4 DEF Shutdown, Busy
  <2> QED
    BY <1>2, <1>4, <2>1 DEF Shutdown, Named
<1>5. CASE Crash
  <2>1. \A q \in Procs : op'[q].pc = "idle"
    BY <1>1, <1>5 DEF Crash
  <2> QED
    BY <1>2, <1>5, <2>1 DEF Crash, Named
<1>6. CASE Serve
  <2>1. \A q \in Procs : op'[q].pc = "idle"
    BY <1>1, <1>6 DEF Serve, Discipline, ServedInPhase
  <2> QED
    BY <1>2, <1>6, <2>1 DEF Serve, Named, OInv, Making, boxes, bounds, history, Trees
<1>7. CASE Recover
  <2>1. \A q \in Procs : op[q].pc = "idle"
    BY <1>7 DEF Recover, Discipline, ServedInPhase
  <2>2. \A q \in Procs : op'[q].pc = "idle" \/ (op'[q].pc = "read" /\ op'[q].kind = "recover")
    BY <1>1, <1>7, <2>1 DEF Recover, Ops
  <2>3. Named'
    BY <1>7, <2>1, <2>2 DEF Recover, Unheard, Named, OInv, Making, boxes, bounds, history, Trees
  <2> QED
    BY <2>2, <2>3 DEF OInv, OneCreate, Knows, Making
<1>8. CASE RecoverFailed
  <2>1. op[Boot].pc = "failed" /\ phase = "recovering"
    BY <1>1, <1>8 DEF RecoverFailed, Discipline, ServedInPhase
  <2>2. \A q \in Procs : op[q].pc # "idle" => q = Boot
    BY <2>1, AloneInRecovery
  <2>3. \A q \in Procs : op'[q].pc = "idle"
    BY <1>1, <1>8, <2>2 DEF RecoverFailed, Leave
  <2>4. \A q \in Procs : ~Making(q)
    BY <1>1, <2>1, <2>2, AloneInRecovery DEF Making
  <2> QED
    BY <1>2, <1>8, <2>1, <2>3, <2>4 DEF RecoverFailed, Unheard, Named, OInv, boxes, bounds, history, Trees
<1> QED
  BY <1>3, <1>4, <1>5, <1>6, <1>7, <1>8 DEF StartUp

\* A sandbox that dies or gets stuck is no orphan.
LEMMA FaultsKeepOrder ==
  ASSUME IInv, OInv, NEW b \in Boxes, BoxDies(b) \/ BoxSticks(b)
  PROVE  OInv'
<1>1. /\ UNCHANGED <<row, rec, op, phase>>
      /\ Trees' \subseteq Trees /\ Trees' \ stuck' \subseteq Trees \ stuck
  <2>1. remains \cap alive = {}
    BY DEF IInv, Shape, TypeOK
  <2> QED
    BY <2>1 DEF BoxDies, BoxSticks, Trees, history
<1>2. \A q \in Procs : Knows(q)'
  BY <1>1 DEF OInv, Knows, Making, Present
<1>3. OneCreate' /\ Named'
  BY <1>1 DEF OInv, OneCreate, Named, Making
<1> QED
  BY <1>2, <1>3 DEF OInv

\* Of requests that the code orders none leaves a sandbox behind: when they are through, each
\* living one is named by the database or cannot be killed.
THEOREM OrderedRequestsLeaveNoOrphans ==
  ASSUME Tame
  PROVE  Spec => []NoOrphans
<1>1. Init => OInv
  <2> SUFFICES ASSUME Init PROVE OInv
    OBVIOUS
  <2>1. \A p \in Procs : op[p].pc = "idle"
    BY DEF Init, Idle
  <2> QED
    BY <2>1 DEF Init, OInv, Knows, Making, OneCreate, Named, Trees
<1>2. IInv /\ Discipline /\ RInv /\ OInv /\ [Next]_vars => OInv'
  <2> SUFFICES ASSUME IInv, Discipline, RInv, OInv, [Next]_vars PROVE OInv'
    OBVIOUS
  <2>1. CASE UNCHANGED vars
    BY <2>1 DEF vars, boxes, bounds, history, Trees, OInv, Knows, Making, Present, OneCreate, Named
  <2>2. ASSUME NEW p \in Procs, Step(p) PROVE OInv'
    BY <2>2, CreateKeepsOrder, PauseKeepsOrder, ResumeKeepsOrder, BringKeepsOrder, DeleteKeepsOrder, CheckKeepsOrder
       DEF Step, RInv
  <2> QED
    BY <2>1, <2>2, AcceptKeepsOrder, PhasesKeepOrder, FaultsKeepOrder DEF Next, RInv
<1>3. OInv => NoOrphans
  <2> SUFFICES ASSUME OInv, Busy = {}, phase = "serving" PROVE Trees \subseteq {rec} \cup stuck
    BY DEF NoOrphans, Trees
  <2>1. \A p \in Procs : ~Making(p)
    BY DEF Busy, Making
  <2> QED
    BY <2>1 DEF OInv, Named
<1> QED
  BY <1>1, <1>2, <1>3, DisciplineAndRecovery, PTL DEF Spec
=============================================================================
