---------------------------- MODULE SessionTurns ----------------------------
(* One session of the agent server: its WebSocket connections              *)
(* (session_ws_router.py), the TaskPool that runs one turn at a time       *)
(* (task_pool.py), the generator that reports the state of the session     *)
(* (session_ws_orchestrator.py, session_state_sync_service.py).            *)
(*                                                                         *)
(* Everything but the producers runs on one event loop, atomic between two *)
(* awaits (the queues are unbounded and the lock is never held across an   *)
(* await, so puts and locking do not suspend).  The producer of a turn is a*)
(* thread of the executor.  All the dictionaries of the code are keyed by  *)
(* (agent, session), so one session stands for all.                        *)
EXTENDS Naturals, Sequences, FiniteSets

CONSTANTS
  Conns,        \* WebSocket connections a client may open
  MaxTurns,     \* bound: turns submitted
  MaxEvents,    \* bound: events the runtime yields in one turn
  NoConn,       \* no connection is bound
  NoTurn        \* no cancel event is registered

Turns == 1..MaxTurns

ASSUME BoundsAssumption == MaxTurns \in Nat /\ MaxEvents \in Nat
ASSUME NamesAssumption == NoConn \notin Conns /\ NoTurn \notin Turns

VARIABLES
  conn,         \* each connection; "draining": awaits its sender, still registered
  bound,        \* SessionStateSyncService._bindings of the session
  terminal,     \* connections whose terminal_forwarded is set
  told,         \* the last state event put on the outbound queue of each connection
  turn,         \* where the asyncio task of each turn stands
  owner,        \* the connection whose on_event the turn was submitted with
  inflight,     \* whether the session is in _inflight_sessions
  cancelSlot,   \* the turn whose event is in _cancel_events
  cancelled,    \* turns whose cancel event is set
  loop,         \* "free", or "aborting": blocked in runtime.abort_session
  producer,     \* where the producer thread of each turn stands
  failed,       \* turns whose turn_failed is set
  yielded,      \* number of events the runtime yielded in each turn
  hand,         \* the item each producer has tested the cancel event for
  queue,        \* the queue between the producer and the task of each turn
  state,        \* SessionStateSyncService._states of the session
  early         \* history: turns that gave the session free before they ended

link == <<conn, bound, terminal, told>>
pool == <<turn, owner, inflight, cancelSlot, cancelled, loop, early>>
threads == <<producer, failed, yielded, hand, queue, state>>
vars == <<link, pool, threads>>

States == {"running", "idle", "error"}
Events == {"msg", "completed", "fail"}    \* "fail": stream.error
Items == States \cup Events \cup {"END"}

Registered == {"open", "draining"}
Ongoing == {"created", "consuming"}
Live(t) == turn[t] \in Ongoing

TypeOK ==
  /\ conn \in [Conns -> {"new", "closed"} \cup Registered]
  /\ bound \in Conns \cup {NoConn}
  /\ terminal \in SUBSET Conns
  /\ told \in [Conns -> States \cup {"none"}]
  /\ turn \in [Turns -> {"none", "done"} \cup Ongoing]
  /\ owner \in [Turns -> Conns \cup {NoConn}]
  /\ inflight \in BOOLEAN
  /\ cancelSlot \in Turns \cup {NoTurn}
  /\ cancelled \in SUBSET Turns
  /\ loop \in {"free", "aborting"}
  /\ producer \in [Turns -> {"none", "queued", "opened", "turn", "ending", "settled", "last", "done"}]
  /\ failed \in SUBSET Turns
  /\ yielded \in [Turns -> 0..MaxEvents]
  /\ hand \in [Turns -> States \cup Events \cup {"none"}]
  /\ queue \in [Turns -> Seq(Items)]
  /\ state \in States \cup {"none"}
  /\ early \in SUBSET Turns

-----------------------------------------------------------------------------
(* Connections.                                                            *)

\* SessionConnectionRegistry.hold, then bind_connection; a second connection
\* is closed with SESSION_ALREADY_CONNECTED.
Connect(c) ==
  /\ loop = "free" /\ conn[c] = "new"
  /\ IF \E d \in Conns : conn[d] \in Registered
       THEN conn' = [conn EXCEPT ![c] = "closed"] /\ UNCHANGED bound
       ELSE conn' = [conn EXCEPT ![c] = "open"] /\ bound' = c
  /\ UNCHANGED <<terminal, told, pool, threads>>

\* TaskPool.abort_session, up to runtime.abort_session, which blocks the loop.
AbortBegins ==
  IF cancelSlot = NoTurn
    THEN UNCHANGED <<cancelled, loop>>
    ELSE cancelled' = cancelled \cup {cancelSlot} /\ loop' = "aborting"

\* The client sends message.abort.
Abort(c) ==
  /\ loop = "free" /\ conn[c] = "open" /\ cancelSlot # NoTurn
  /\ AbortBegins
  /\ UNCHANGED <<link, turn, owner, inflight, cancelSlot, early, threads>>

\* The rest of abort_turn: emit_state_changed(idle), to the bound connection.
AbortEnds ==
  /\ loop = "aborting"
  /\ loop' = "free"
  /\ state' = "idle"
  /\ told' = IF state # "idle" /\ bound # NoConn
               THEN [told EXCEPT ![bound] = "idle"] ELSE told
  /\ UNCHANGED <<conn, bound, terminal, turn, owner, inflight, cancelSlot, cancelled,
                 early, producer, failed, yielded, hand, queue>>

\* The client goes away: unbind, and abort unless a terminal event was forwarded.
Disconnect(c) ==
  /\ loop = "free" /\ conn[c] = "open"
  /\ conn' = [conn EXCEPT ![c] = "draining"]
  /\ bound' = NoConn
  /\ IF c \in terminal THEN UNCHANGED <<cancelled, loop>> ELSE AbortBegins
  /\ UNCHANGED <<terminal, told, turn, owner, inflight, cancelSlot, early, threads>>

\* The sender task has ended; the registry is released.
Closed(c) ==
  /\ loop = "free" /\ conn[c] = "draining"
  /\ conn' = [conn EXCEPT ![c] = "closed"]
  /\ UNCHANGED <<bound, terminal, told, pool, threads>>

-----------------------------------------------------------------------------
(* TaskPool.                                                               *)

Mutant_SubmitAnyway(c, t) ==
  /\ loop = "free" /\ conn[c] = "open"
  /\ turn[t] = "none" /\ \A u \in Turns : u < t => turn[u] # "none"
  /\ inflight' = TRUE
  /\ turn' = [turn EXCEPT ![t] = "created"]
  /\ owner' = [owner EXCEPT ![t] = c]
  /\ UNCHANGED <<link, cancelSlot, cancelled, loop, early, threads>>

\* submit: the session is taken and the task of the turn created; a session
\* that is taken is refused with SESSION_BUSY.
Submit(c, t) ==
  /\ loop = "free" /\ conn[c] = "open" /\ ~inflight
  /\ turn[t] = "none" /\ \A u \in Turns : u < t => turn[u] # "none"
  /\ inflight' = TRUE
  /\ turn' = [turn EXCEPT ![t] = "created"]
  /\ owner' = [owner EXCEPT ![t] = c]
  /\ UNCHANGED <<link, cancelSlot, cancelled, loop, early, threads>>

\* The first step of _run_turn.
TurnStarts(t) ==
  /\ loop = "free" /\ turn[t] = "created"
  /\ turn' = [turn EXCEPT ![t] = "consuming"]
  /\ cancelSlot' = t
  /\ producer' = [producer EXCEPT ![t] = "queued"]
  /\ UNCHANGED <<link, owner, inflight, cancelled, loop, early,
                 failed, yielded, hand, queue, state>>

Forward(t, item) ==
  LET c == owner[t] IN
  /\ terminal' = IF item \in {"completed", "fail"} THEN terminal \cup {c} ELSE terminal
  /\ told' = IF item \in States THEN [told EXCEPT ![c] = item] ELSE told

\* An event: the session is free again as soon as the turn has completed.
TakeItem(t, item) ==
  /\ Forward(t, item)
  /\ IF item = "completed"
       THEN inflight' = FALSE /\ early' = early \cup {t}
       ELSE UNCHANGED <<inflight, early>>
  /\ UNCHANGED <<turn, cancelSlot>>

\* The end of the stream: the finally of _run_turn, which discards the entries
\* of the session, whichever turn they belong to.
TakeEnd(t) ==
  /\ turn' = [turn EXCEPT ![t] = "done"]
  /\ inflight' = FALSE
  /\ cancelSlot' = NoTurn
  /\ UNCHANGED <<early, terminal, told>>

Consume(t) ==
  /\ loop = "free" /\ turn[t] = "consuming" /\ queue[t] # <<>>
  /\ queue' = [queue EXCEPT ![t] = Tail(@)]
  /\ IF Head(queue[t]) = "END" THEN TakeEnd(t) ELSE TakeItem(t, Head(queue[t]))
  /\ UNCHANGED <<conn, bound, owner, cancelled, loop, producer, failed, yielded, hand, state>>

-----------------------------------------------------------------------------
(* The producer thread: stream_message, and the loop of _producer over it. *)
(* For each item it tests the cancel event and then, in a step of its own, *)
(* puts the item: an abort may come between the two.  Of a turn that was   *)
(* cancelled the loop breaks and the generator is closed where it stands.  *)

Put(t, items) == queue' = [queue EXCEPT ![t] = @ \o items]
At(t, pc) == producer' = [producer EXCEPT ![t] = pc]
Target(hasFailed) == IF hasFailed THEN "error" ELSE "idle"

OfThreads == <<link, turn, owner, inflight, cancelSlot, cancelled, loop, early>>

Mutant_Test(t, item, next) ==
  /\ hand' = [hand EXCEPT ![t] = item] /\ At(t, next) /\ UNCHANGED queue

\* The test of the cancel event for an item that was yielded.
Test(t, item, next) ==
  IF t \in cancelled
    THEN At(t, "done") /\ Put(t, <<"END">>) /\ UNCHANGED hand
    ELSE hand' = [hand EXCEPT ![t] = item] /\ At(t, next) /\ UNCHANGED queue

\* call_soon_threadsafe(queue.put_nowait, item); after the last item of the
\* generator comes the finally of _producer.
Puts(t) ==
  /\ hand[t] # "none"
  /\ hand' = [hand EXCEPT ![t] = "none"]
  /\ IF producer[t] = "last"
       THEN At(t, "done") /\ Put(t, <<hand[t], "END">>)
       ELSE Put(t, <<hand[t]>>) /\ UNCHANGED producer
  /\ UNCHANGED <<failed, yielded, state, OfThreads>>

\* The checks before the first event; the state becomes running, which yields
\* an event only if it was another.
Opens(t) ==
  /\ producer[t] = "queued"
  /\ \/ At(t, "done") /\ Put(t, <<"fail", "END">>) /\ UNCHANGED state
     \/ /\ state' = "running"
        /\ At(t, IF state = "running" THEN "turn" ELSE "opened")
        /\ UNCHANGED queue
  /\ UNCHANGED <<failed, yielded, hand, OfThreads>>

\* Closed at its first yield, the generator is not yet inside its try.
Opened(t) ==
  /\ producer[t] = "opened"
  /\ Test(t, "running", "turn")
  /\ UNCHANGED <<failed, yielded, state, OfThreads>>

\* Closed inside its try, the generator sets the final state, and the event
\* that would report it is lost.
Yield(t, item, next, hasFailed) ==
  /\ Test(t, item, next)
  /\ state' = IF t \in cancelled THEN Target(hasFailed) ELSE state

\* The runtime yields an event, or raises.
RuntimeYields(t) ==
  /\ producer[t] = "turn" /\ hand[t] = "none"
  /\ \/ \E item \in Events :
          /\ yielded[t] < MaxEvents
          /\ yielded' = [yielded EXCEPT ![t] = @ + 1]
          /\ failed' = IF item = "fail" THEN failed \cup {t} ELSE failed
          /\ Yield(t, item, "turn", t \in failed')
     \/ /\ failed' = failed \cup {t}
        /\ Yield(t, "fail", "ending", TRUE)
        /\ UNCHANGED yielded
  /\ UNCHANGED OfThreads

Mutant_Settles(t) ==
  /\ producer[t] \in {"turn", "ending"} /\ hand[t] = "none"
  /\ state' = Target(t \in failed)
  /\ At(t, IF state = Target(t \in failed) THEN "done" ELSE "settled")
  /\ UNCHANGED <<failed, yielded, hand, queue, OfThreads>>

\* The stream of the runtime is over: the finally of stream_message.
Settles(t) ==
  /\ producer[t] \in {"turn", "ending"} /\ hand[t] = "none"
  /\ state' = Target(t \in failed)
  /\ IF state = Target(t \in failed)
       THEN At(t, "done") /\ Put(t, <<"END">>)
       ELSE At(t, "settled") /\ UNCHANGED queue
  /\ UNCHANGED <<failed, yielded, hand, OfThreads>>

Settled(t) ==
  /\ producer[t] = "settled"
  /\ Test(t, Target(t \in failed), "last")
  /\ UNCHANGED <<failed, yielded, state, OfThreads>>

Produce(t) ==
  Puts(t) \/ Opens(t) \/ Opened(t) \/ RuntimeYields(t) \/ Settles(t) \/ Settled(t)

-----------------------------------------------------------------------------

Init ==
  /\ conn = [c \in Conns |-> "new"]
  /\ bound = NoConn
  /\ terminal = {}
  /\ told = [c \in Conns |-> "none"]
  /\ turn = [t \in Turns |-> "none"]
  /\ owner = [t \in Turns |-> NoConn]
  /\ inflight = FALSE
  /\ cancelSlot = NoTurn
  /\ cancelled = {}
  /\ loop = "free"
  /\ producer = [t \in Turns |-> "none"]
  /\ failed = {}
  /\ yielded = [t \in Turns |-> 0]
  /\ hand = [t \in Turns |-> "none"]
  /\ queue = [t \in Turns |-> <<>>]
  /\ state = "none"
  /\ early = {}

Next ==
  \/ \E c \in Conns : Connect(c) \/ Abort(c) \/ Disconnect(c) \/ Closed(c)
  \/ \E c \in Conns, t \in Turns : Submit(c, t)
  \/ \E t \in Turns : TurnStarts(t) \/ Consume(t) \/ Produce(t)
  \/ AbortEnds

Spec == Init /\ [][Next]_vars

\* The loop runs ready tasks first come, first served, however often a client
\* interrupts them; the threads are scheduled; and the stream of the runtime
\* yields, raises or ends (its clients read with timeouts).
FairSpec ==
  /\ Spec
  /\ \A t \in Turns : /\ SF_vars(TurnStarts(t)) /\ SF_vars(Consume(t))
                      /\ WF_vars(Produce(t))
  /\ WF_vars(AbortEnds)

-----------------------------------------------------------------------------
(* Properties.                                                             *)

\* A session without an ongoing turn is free: it is not in _inflight_sessions,
\* which would refuse every later message with SESSION_BUSY.
QuietMeansFree == (\A t \in Turns : ~Live(t)) => ~inflight

\* An abort finds a turn that is being consumed, never one that has ended: it
\* cannot report idle over the state of a later turn.
AbortHitsOngoing == cancelSlot # NoTurn => turn[cancelSlot] = "consuming"

\* As long as no turn has freed its session early, the session is in
\* _inflight_sessions exactly while a turn is ongoing, and turns are serial.
SerialUntilEarlyRelease ==
  early = {} =>
    /\ inflight <=> \E t \in Turns : Live(t)
    /\ \A t, u \in Turns : Live(t) /\ Live(u) => t = u

\* State events are bound to the open connection, through reconnections: the
\* unbinding of an old connection never takes away the binding of a new one.
BindingIsOpen == \A c \in Conns : bound = c <=> conn[c] = "open"

\* What is put on the queue of a turn after its abort: the end of it, the
\* failure of a turn that had not opened, and at most one event, which its
\* thread had tested for cancellation before the abort came.
PutAfterAbort(t, item) ==
  \/ item = "END"
  \/ item = "fail" /\ producer[t] = "queued"
  \/ item = hand[t] /\ hand'[t] = "none"
AbortCutsStream ==
  [][\A t \in cancelled :
       /\ hand'[t] \in {hand[t], "none"}
       /\ \A i \in 1..Len(queue'[t]) :
            Len(queue'[t]) > Len(queue[t]) /\ i > Len(queue[t]) => PutAfterAbort(t, queue'[t][i])]_vars

\* A session that is taken becomes free again, whatever the client does.
SessionFreed == inflight ~> ~inflight

-----------------------------------------------------------------------------
(* Claims of the source that the code does not keep (violation runs).      *)

Quiet == loop = "free" /\ \A t \in Turns : ~Live(t)

\* "Within one session, serial" (TaskPool, line 36): a turn that has not yet
\* completed excludes every other one.
SerialPerSession ==
  \A t, u \in Turns \ early : Live(t) /\ Live(u) => t = u

\* "After this round ends, report the state: error if it failed, idle if it
\* completed" (stream_message, line 128): no ended round leaves it running.
RoundsSettle == Quiet => state # "running"
=============================================================================
