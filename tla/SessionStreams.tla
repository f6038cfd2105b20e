--------------------------- MODULE SessionStreams ---------------------------
(* One session of witty-service: the turns that stream an assistant's      *)
(* reply (agent_manager.py), the registry that broadcasts a reply to the   *)
(* requests that read it (SessionStreamRegistry), the pooled WebSocket     *)
(* client (adapter/) and, as the other end of its connections, the agent   *)
(* server (session_ws_router.py; SessionTurns has its inner workings).     *)
(*                                                                         *)
(* Everything in the service runs on one event loop: an action is what     *)
(* happens between two awaits that can suspend.  Every dictionary of the   *)
(* code is keyed by the session, so one session stands for all.            *)
(* A turn names, too, the connection it opened, the client object it       *)
(* created and the assistant row it wrote: it makes at most one of each.   *)
EXTENDS Naturals, Sequences, FiniteSets, SequencesExt

CONSTANTS
  Turns,        \* calls of send_message_stream and regenerate_message_stream
  Readers,      \* calls of reconnect_stream
  Aborts,       \* calls of abort_session
  MaxEvents,    \* bound: deltas of one reply
  MaxFaults,    \* bound: failures, departures of callers, restarts
  History,      \* assistant rows of earlier turns: at most one
  Serial,       \* TRUE: a turn begins only when nothing of the others is left
  None          \* no connection, client, turn or generation

ASSUME BoundsAssumption == MaxEvents \in Nat /\ MaxFaults \in Nat /\ Serial \in BOOLEAN
ASSUME NamesAssumption ==
  /\ Turns \cap Readers = {} /\ Turns \cap Aborts = {}
  /\ History \cap Turns = {} /\ IsFiniteSet(History) /\ Cardinality(History) <= 1
  /\ None \notin History \cup Turns \cup Readers \cup Aborts \cup Nat

Requests == Turns \cup Readers     \* each reads one queue of the registry
Clients == Turns \cup Aborts       \* each may create one WebSocketClient
Event(t, kind, n) == [turn |-> t, kind |-> kind, n |-> n]
End == Event(None, "end", 0)       \* the sentinel of a queue

VARIABLES
  turn,         \* where each turn's request stands
  gen,          \* its stream generation
  target,       \* the row a regeneration replaces
  client,       \* the WebSocketClient each turn was given
  consumer,     \* its background task consume_ws
  source,       \* the connection the consumer iterates over
  reader,       \* where each reconnecting request stands
  replay,       \* the buffered events it has still to yield
  abort,        \* where each abort stands
  got,          \* the events each request yielded to its caller
  hub,          \* the registry's entries for the session, and the queues
  pool,         \* the client object in WebSocketClientPool
  ws,           \* each client object: its connection and is_connected
  link,         \* each connection, seen from both ends
  rows,         \* the assistant messages of the session, by creation
  status,       \* the status column of the session
  running,      \* the agent server's in-flight turn
  emitted,      \* how much of each turn's reply the agent server produced
  faults        \* how many of the bounded faults happened

requests == <<turn, gen, target, client, consumer, source>>
others == <<reader, replay, abort>>
db == <<rows, status>>
server == <<running, emitted>>
vars == <<requests, others, got, hub, pool, ws, link, db, server, faults>>

\* A step that the environment takes a bounded number of times.
Faulty == faults < MaxFaults /\ faults' = faults + 1

-----------------------------------------------------------------------------
(* SessionStreamRegistry.                                                  *)

Broadcast(h, item) ==
  [q \in Requests |-> IF q \in h.subs THEN Append(h.inbox[q], item) ELSE h.inbox[q]]

EndStream(h) == [h EXCEPT !.ended = TRUE, !.inbox = Broadcast(h, End)]

Mutant_StartStream(h) ==
  [h EXCEPT !.gen = @ + 1, !.listed = TRUE, !.subs = {}, !.buffer = <<>>, !.ended = FALSE]

StartStream(h) ==
  [EndStream(h) EXCEPT !.gen = @ + 1, !.listed = TRUE, !.subs = {},
                       !.buffer = <<>>, !.ended = FALSE]

\* push_event drops the events of another generation.
PushEvent(h, g, e) ==
  IF h.gen # g THEN h
  ELSE [h EXCEPT !.buffer = Append(@, e), !.inbox = Broadcast(h, e)]

IsActive(h) == h.listed /\ ~h.ended

ReleaseStream(h, g) == IF h.gen = g THEN EndStream(h) ELSE h

Subscribe(h, q) == [h EXCEPT !.listed = TRUE, !.subs = @ \cup {q}]

Unsubscribe(h, q) == [h EXCEPT !.subs = @ \ {q}]

\* cleanup forgets the generation as well: the numbers start again at 1.
Cleanup(h) ==
  [h EXCEPT !.gen = 0, !.listed = FALSE, !.subs = {}, !.buffer = <<>>, !.ended = FALSE]

EmptyHub ==
  [gen |-> 0, listed |-> FALSE, ended |-> FALSE, subs |-> {}, buffer |-> <<>>,
   inbox |-> [q \in Requests |-> <<>>]]

-----------------------------------------------------------------------------
(* The rows of the assistant's messages.                                   *)

\* update_message_status and finalize_message.
SetStatus(rs, t, s) == [i \in DOMAIN rs |-> IF rs[i].id = t THEN [rs[i] EXCEPT !.status = s] ELSE rs[i]]

\* update_message_status(completed) spares a row that is no longer generating.
Complete(rs, t) ==
  [i \in DOMAIN rs |-> IF rs[i].id = t /\ rs[i].status = "generating"
                         THEN [rs[i] EXCEPT !.status = "completed"] ELSE rs[i]]

HasRow(rs, t) == \E i \in DOMAIN rs : rs[i].id = t

\* create_message, with replaces_message_id in the same transaction.
Without(rs, t) ==
  IF HasRow(rs, t) THEN RemoveAt(rs, CHOOSE i \in DOMAIN rs : rs[i].id = t) ELSE rs
CreateRow(rs, t, replaced) ==
  Append(Without(rs, replaced), [id |-> t, status |-> "generating", stamped |-> FALSE])

-----------------------------------------------------------------------------
(* WebSocketClient and the ends of its connections.                        *)

\* A frame of the server reaches the client until the connection is closed.
ToClient(l, k, e) ==
  IF l[k].state \in {"open", "closing"} THEN [l EXCEPT ![k].events = Append(@, e)] ELSE l

CanSend(c) == ws[c].up /\ ws[c].conn # None /\ link[ws[c].conn].state = "open"

\* disconnect() up to its await: the handshake is under way.
CloseLink(l, c) ==
  IF l[ws[c].conn].state = "open" THEN [l EXCEPT ![ws[c].conn].state = "closing"] ELSE l

\* The await returns: self._ws = None, then remove_client drops whatever
\* client the pool holds for the session by now.
LinkClosed(c) == ws[c].conn # None => link[ws[c].conn].state \in {"clean", "broken"}
CloseReturns(c) ==
  /\ LinkClosed(c)
  /\ ws' = [ws EXCEPT ![c].conn = None]
  /\ pool' = None

-----------------------------------------------------------------------------
(* The request of a turn, up to the hand-over to its consumer.             *)

LastRow == IF rows = <<>> THEN None ELSE rows[Len(rows)].id

\* Nothing of another turn or abort is left in the service, not even the
\* connected client that a call cancelled after its send leaves in the pool.
Quiet ==
  /\ \A c \in Clients : ~ws[c].up
  /\ \A u \in Turns : turn[u] \notin {"connecting", "sending"} /\ consumer[u] \in {"none", "done"}
  /\ \A a \in Aborts : abort[a] # "closing"

\* _prepare_ws_message_client up to its first await: connect, or send at once
\* on a client that is connected; a send that raises fails the turn.
Prepare(t, h, g) ==
  LET c == IF pool = None THEN t ELSE pool
      fails == ws[c].up /\ ~CanSend(c)
  IN
  /\ pool' = c
  /\ client' = [client EXCEPT ![t] = c]
  /\ turn' = [turn EXCEPT ![t] = IF fails THEN "failed" ELSE IF ws[c].up THEN "sending" ELSE "connecting"]
  /\ hub' = IF fails /\ g # None THEN ReleaseStream(h, g) ELSE h
  /\ gen' = [gen EXCEPT ![t] = g]
  /\ link' = IF CanSend(c) THEN [link EXCEPT ![ws[c].conn].frames = Append(@, t)] ELSE link

\* send_message_stream.  It does not look at the registry before it sends.
SendMessage(t) ==
  /\ turn[t] = "new" /\ (Serial => Quiet)
  /\ Prepare(t, hub, None)
  /\ UNCHANGED <<target, consumer, source, others, got, ws, db, server, faults>>

\* regenerate_message_stream: the stream is reserved before any await.
Regenerate(t) ==
  /\ turn[t] = "new" /\ (Serial => Quiet)
  /\ \/ /\ IsActive(hub)
        /\ turn' = [turn EXCEPT ![t] = "refused"]
        /\ UNCHANGED <<client, gen, target, hub, pool, link>>
     \/ /\ ~IsActive(hub) /\ rows = <<>>
        /\ turn' = [turn EXCEPT ![t] = "refused"]
        /\ hub' = LET h == StartStream(hub) IN ReleaseStream(h, h.gen)
        /\ UNCHANGED <<client, gen, target, pool, link>>
     \/ /\ ~IsActive(hub) /\ rows # <<>>
        /\ target' = [target EXCEPT ![t] = LastRow]
        /\ LET h == StartStream(hub) IN Prepare(t, h, h.gen)
  /\ UNCHANGED <<consumer, source, others, got, ws, db, server, faults>>

\* connect returns, and the frame is sent without another await between.
Connected(t) ==
  LET c == client[t] IN
  /\ turn[t] = "connecting"
  /\ ws' = [ws EXCEPT ![c] = [conn |-> t, up |-> TRUE]]
  /\ link' = [link EXCEPT ![t] = [@ EXCEPT !.state = "open", !.server = "accepted", !.frames = <<t>>]]
  /\ turn' = [turn EXCEPT ![t] = "sending"]
  /\ UNCHANGED <<gen, target, client, consumer, source, others, got, hub, pool, db, server, faults>>

\* The await raises, or the caller goes away: only a reservation is released.
CallFails(t) ==
  /\ Faulty
  /\ turn[t] \in {"connecting", "sending"}
  /\ turn' = [turn EXCEPT ![t] = "failed"]
  /\ hub' = IF gen[t] = None THEN hub ELSE ReleaseStream(hub, gen[t])
  /\ UNCHANGED <<gen, target, client, consumer, source, others, got, pool, ws, link, db, server>>

Mutant_HandOver(t) ==
  LET h == Subscribe(hub, t) IN
  /\ turn[t] = "sending"
  /\ hub' = IF gen[t] = None THEN StartStream(h) ELSE h
  /\ gen' = [gen EXCEPT ![t] = IF @ = None THEN h.gen + 1 ELSE @]
  /\ turn' = [turn EXCEPT ![t] = "reading"]
  /\ consumer' = [consumer EXCEPT ![t] = "created"]
  /\ UNCHANGED <<target, client, source, others, got, pool, ws, link, db, server, faults>>

\* The send returns: the stream, the subscription and the background task.
HandOver(t) ==
  LET h == IF gen[t] = None THEN StartStream(hub) ELSE hub IN
  /\ turn[t] = "sending"
  /\ hub' = Subscribe(h, t)
  /\ gen' = [gen EXCEPT ![t] = IF @ = None THEN h.gen ELSE @]
  /\ turn' = [turn EXCEPT ![t] = "reading"]
  /\ consumer' = [consumer EXCEPT ![t] = "created"]
  /\ UNCHANGED <<target, client, source, others, got, pool, ws, link, db, server, faults>>

-----------------------------------------------------------------------------
(* consume_ws, the background task of a turn.                              *)

Mutant_Finally(t, h, l, w) ==
  LET c == client[t] IN
  /\ hub' = Cleanup(h)
  /\ IF w[c].conn = None
       THEN /\ consumer' = [consumer EXCEPT ![t] = "done"]
            /\ ws' = w /\ link' = l /\ pool' = None
       ELSE /\ consumer' = [consumer EXCEPT ![t] = "closing"]
            /\ ws' = [w EXCEPT ![c].up = FALSE]
            /\ link' = CloseLink(l, c)
            /\ UNCHANGED pool

\* Its finally block, after the rows were finalized: end_stream and cleanup,
\* of whatever stream the session has by now, then the close of the client.
Finally(t, h, l, w) ==
  LET c == client[t] IN
  /\ hub' = Cleanup(EndStream(h))
  /\ IF w[c].conn = None
       THEN /\ consumer' = [consumer EXCEPT ![t] = "done"]
            /\ ws' = w /\ link' = l /\ pool' = None
       ELSE /\ consumer' = [consumer EXCEPT ![t] = "closing"]
            /\ ws' = [w EXCEPT ![c].up = FALSE]
            /\ link' = CloseLink(l, c)
            /\ UNCHANGED pool

\* finalize_abnormal_turn marks the row, whatever its status, and this.
IdleAgain(s) == IF s = "running" THEN "idle" ELSE s

\* An exception of recv: a stream.error of the service's own is pushed.
Fault(t, w) ==
  /\ rows' = SetStatus(rows, t, "interrupted")
  /\ status' = IdleAgain(status)
  /\ Finally(t, PushEvent(hub, gen[t], Event(t, "fault", 0)), link, w)

Receiving(k) == \E u \in Turns : consumer[u] = "waiting" /\ source[u] = k

\* The iteration calls recv, which refuses a second reader of a connection.
Iterate(t, k) ==
  IF Receiving(k)
    THEN Fault(t, ws) /\ UNCHANGED source
    ELSE /\ consumer' = [consumer EXCEPT ![t] = "waiting"]
         /\ source' = [source EXCEPT ![t] = k]
         /\ UNCHANGED <<hub, db, ws, link, pool>>

\* The task's first step: the client may have been closed since the send.
Listen(t) ==
  LET w == ws[client[t]] IN
  /\ consumer[t] = "created"
  /\ IF w.up /\ w.conn # None THEN Iterate(t, w.conn) ELSE Fault(t, ws) /\ UNCHANGED source
  /\ UNCHANGED <<turn, gen, target, client, others, got, server, faults>>

\* sleep(0) after a pushed event returns.
Resume(t) ==
  /\ consumer[t] = "yielded"
  /\ Iterate(t, source[t])
  /\ UNCHANGED <<turn, gen, target, client, others, got, server, faults>>

Pop(l, k) == [l EXCEPT ![k].events = Tail(@)]

\* session.state_changed: it is filtered, and the next recv follows at once.
StateEvent(t, e) ==
  /\ e.kind \in {"running", "idle"}
  /\ status' = e.kind
  /\ link' = Pop(link, source[t])
  /\ UNCHANGED <<rows, hub, consumer, ws, pool>>

Mutant_ErrorEvent(t, e) ==
  /\ e.kind = "error"
  /\ status' = "error"
  /\ rows' = SetStatus(IF HasRow(rows, t) THEN rows ELSE CreateRow(rows, t, None), t, "error")
  /\ Finally(t, PushEvent(EndStream(hub), gen[t], e), Pop(link, source[t]), ws)

\* client.error or stream.error ends the turn.
ErrorEvent(t, e) ==
  /\ e.kind = "error"
  /\ status' = "error"
  /\ rows' = SetStatus(IF HasRow(rows, t) THEN rows ELSE CreateRow(rows, t, None), t, "error")
  /\ Finally(t, EndStream(PushEvent(hub, gen[t], e)), Pop(link, source[t]), ws)

\* The first event of the reply replaces the regenerated row.
WithRow(t) == IF HasRow(rows, t) THEN rows ELSE CreateRow(rows, t, target[t])

DeltaEvent(t, e) ==
  /\ e.kind = "delta"
  /\ \E checkpoint \in BOOLEAN : rows' =
       [i \in DOMAIN WithRow(t) |-> IF WithRow(t)[i].id = t
          THEN [WithRow(t)[i] EXCEPT !.stamped = @ \/ checkpoint] ELSE WithRow(t)[i]]
  /\ hub' = PushEvent(hub, gen[t], e)
  /\ consumer' = [consumer EXCEPT ![t] = "yielded"]
  /\ link' = Pop(link, source[t])
  /\ UNCHANGED <<status, ws, pool>>

CompletedEvent(t, e) ==
  /\ e.kind = "completed"
  /\ status' = "idle"
  /\ rows' = Complete(WithRow(t), t)
  /\ hub' = PushEvent(hub, gen[t], e)
  /\ consumer' = [consumer EXCEPT ![t] = "finishing"]
  /\ link' = Pop(link, source[t])
  /\ UNCHANGED <<ws, pool>>

Receive(t) ==
  /\ consumer[t] = "waiting" /\ link[source[t]].events # <<>>
  /\ LET e == Head(link[source[t]].events) IN
       StateEvent(t, e) \/ ErrorEvent(t, e) \/ DeltaEvent(t, e) \/ CompletedEvent(t, e)
  /\ UNCHANGED <<turn, gen, target, client, source, others, got, server, faults>>

\* No frame is left and the connection is closed.  After a close handshake
\* the iteration just ends, and failure_status is None.
StreamCloses(t) ==
  /\ consumer[t] = "waiting" /\ link[source[t]].events = <<>>
  /\ \/ /\ link[source[t]].state = "clean"
        /\ Finally(t, hub, link, ws)
        /\ UNCHANGED db
     \/ /\ link[source[t]].state = "broken"
        /\ Fault(t, [ws EXCEPT ![client[t]].up = FALSE])
  /\ UNCHANGED <<turn, gen, target, client, source, others, got, server, faults>>

\* The sleep(0) after the completed event returns, and the loop is left.
Finish(t) ==
  /\ consumer[t] = "finishing"
  /\ Finally(t, hub, link, ws)
  /\ UNCHANGED <<turn, gen, target, client, source, others, got, db, server, faults>>

ConsumerClosed(t) ==
  /\ consumer[t] = "closing"
  /\ CloseReturns(client[t])
  /\ consumer' = [consumer EXCEPT ![t] = "done"]
  /\ UNCHANGED <<turn, gen, target, client, source, others, got, hub, link, db, server, faults>>

-----------------------------------------------------------------------------
(* The requests that read a reply.                                         *)

Reading(q) == IF q \in Turns THEN turn[q] = "reading" ELSE reader[q] = "reading"
SetRequest(q, s) ==
  IF q \in Turns THEN turn' = [turn EXCEPT ![q] = s] /\ UNCHANGED reader
                 ELSE reader' = [reader EXCEPT ![q] = s] /\ UNCHANGED turn

\* queue.get returns: an event is yielded, the sentinel ends the response.
Take(q) ==
  /\ Reading(q) /\ hub.inbox[q] # <<>>
  /\ hub' = [hub EXCEPT !.inbox[q] = Tail(@)]
  /\ IF Head(hub.inbox[q]) = End
       THEN SetRequest(q, "ended") /\ UNCHANGED got
       ELSE got' = [got EXCEPT ![q] = Append(@, Head(hub.inbox[q]))] /\ UNCHANGED <<turn, reader>>
  /\ UNCHANGED <<gen, target, client, consumer, source, replay, abort, pool, ws, link, db, server, faults>>

\* The caller disconnects: GeneratorExit or CancelledError.
Leave(q) ==
  /\ Faulty
  /\ Reading(q)
  /\ hub' = Unsubscribe(hub, q)
  /\ SetRequest(q, "left")
  /\ UNCHANGED <<gen, target, client, consumer, source, replay, abort, got, pool, ws, link, db, server>>

Mutant_YieldNext(r, buffered) ==
  IF buffered = <<>>
    THEN /\ hub' = [Subscribe(hub, r) EXCEPT !.inbox[r] = hub.buffer]
         /\ reader' = [reader EXCEPT ![r] = "reading"]
         /\ UNCHANGED <<replay, got>>
    ELSE /\ got' = [got EXCEPT ![r] = Append(@, Head(buffered))]
         /\ replay' = [replay EXCEPT ![r] = Tail(buffered)]
         /\ reader' = [reader EXCEPT ![r] = "replaying"]
         /\ UNCHANGED hub

\* The next buffered event is yielded; after the last one the request
\* subscribes, without an await between.
YieldNext(r, buffered) ==
  IF buffered = <<>>
    THEN /\ hub' = Subscribe(hub, r)
         /\ reader' = [reader EXCEPT ![r] = "reading"]
         /\ UNCHANGED <<replay, got>>
    ELSE /\ got' = [got EXCEPT ![r] = Append(@, Head(buffered))]
         /\ replay' = [replay EXCEPT ![r] = Tail(buffered)]
         /\ reader' = [reader EXCEPT ![r] = "replaying"]
         /\ UNCHANGED hub

\* reconnect_stream.
Reconnect(r) ==
  /\ reader[r] = "new"
  /\ IF IsActive(hub) THEN YieldNext(r, hub.buffer)
     ELSE reader' = [reader EXCEPT ![r] = "ended"] /\ UNCHANGED <<replay, got, hub>>
  /\ UNCHANGED <<requests, abort, pool, ws, link, db, server, faults>>

Replay(r) ==
  /\ reader[r] = "replaying"
  /\ YieldNext(r, replay[r])
  /\ UNCHANGED <<requests, abort, pool, ws, link, db, server, faults>>

-----------------------------------------------------------------------------
(* abort_session.                                                          *)

\* The answer of the agent server, or the failure to reach it.
AbortRemote(a) ==
  /\ abort[a] = "new" /\ Faulty
  /\ abort' = [abort EXCEPT ![a] = "answered"]
  /\ \/ UNCHANGED <<running, link>>
     \/ /\ running # None
        /\ running' = None
        /\ link' = ToClient(link, running.via, Event(running.turn, "idle", 0))
  /\ UNCHANGED <<requests, reader, replay, got, hub, pool, ws, db, emitted>>

\* The last assistant row is marked, whatever its state; then the client the
\* pool holds, or a fresh one that is not connected, is closed.
AbortLocally(a) ==
  LET c == IF pool = None THEN a ELSE pool IN
  /\ abort[a] = "answered"
  /\ rows' = SetStatus(rows, LastRow, "interrupted")
  /\ client' = [client EXCEPT ![a] = c]
  /\ IF ~ws[c].up
       THEN /\ abort' = [abort EXCEPT ![a] = "done"]
            /\ pool' = c
            /\ UNCHANGED <<ws, link>>
       ELSE IF ws[c].conn = None
       THEN /\ abort' = [abort EXCEPT ![a] = "done"]
            /\ pool' = None
            /\ UNCHANGED <<ws, link>>
       ELSE /\ abort' = [abort EXCEPT ![a] = "closing"]
            /\ ws' = [ws EXCEPT ![c].up = FALSE]
            /\ link' = CloseLink(link, c)
            /\ UNCHANGED pool
  /\ UNCHANGED <<turn, gen, target, consumer, source, reader, replay, got, hub, status, server, faults>>

AbortClosed(a) ==
  /\ abort[a] = "closing"
  /\ CloseReturns(client[a])
  /\ abort' = [abort EXCEPT ![a] = "done"]
  /\ UNCHANGED <<requests, reader, replay, got, hub, link, db, server, faults>>

-----------------------------------------------------------------------------
(* The agent server's ends of the connections (session_ws_router.py).      *)

Held == \E k \in Turns : link[k].server \in {"held", "draining"}

\* SessionConnectionRegistry.hold: a second connection is closed with 1008.
Hold(k) ==
  /\ link[k].server = "accepted"
  /\ link' = IF Held
       THEN [link EXCEPT ![k].server = "gone", ![k].state = IF @ = "closing" THEN "clean" ELSE "broken"]
       ELSE [link EXCEPT ![k].server = "held"]
  /\ UNCHANGED <<requests, others, got, hub, pool, ws, db, server, faults>>

\* A message.create frame: the turn starts, or SESSION_BUSY is answered.
Dispatch(k) ==
  /\ link[k].server = "held" /\ link[k].frames # <<>>
  /\ LET t == Head(link[k].frames)
         l == [link EXCEPT ![k].frames = Tail(@)]
     IN IF running = None
          THEN running' = [turn |-> t, via |-> k] /\ link' = l
          ELSE link' = ToClient(l, k, Event(t, "error", 0)) /\ UNCHANGED running
  /\ UNCHANGED <<requests, others, got, hub, pool, ws, db, emitted, faults>>

\* The turn in flight produces its next event; the completed one is the last.
Emit ==
  /\ running # None
  /\ LET t == running.turn
         k == running.via
         n == emitted[t]
     IN /\ emitted' = [emitted EXCEPT ![t] = n + 1]
        /\ IF n <= MaxEvents
             THEN /\ link' = ToClient(link, k, Event(t, IF n = 0 THEN "running" ELSE "delta", n))
                  /\ UNCHANGED running
             ELSE /\ link' = [ToClient(link, k, Event(t, "completed", n)) EXCEPT ![k].terminal = TRUE]
                  /\ running' = None
  /\ UNCHANGED <<requests, others, got, hub, pool, ws, db, faults>>

\* The runtime fails: stream.error.
EmitError ==
  /\ Faulty
  /\ running # None
  /\ link' = [ToClient(link, running.via, Event(running.turn, "error", 0)) EXCEPT ![running.via].terminal = TRUE]
  /\ running' = None
  /\ UNCHANGED <<requests, others, got, hub, pool, ws, db, emitted>>

\* The server reads the end of the connection; unless a terminal event was
\* ever forwarded on it, the turn in flight is aborted.
SeesClose(k) ==
  /\ link[k].server = "held" /\ link[k].frames = <<>>
  /\ link[k].state \in {"closing", "clean", "broken"}
  /\ link' = [link EXCEPT ![k].server = "draining", ![k].state = IF @ = "broken" THEN @ ELSE "clean"]
  /\ running' = IF link[k].terminal THEN running ELSE None
  /\ UNCHANGED <<requests, others, got, hub, pool, ws, db, emitted, faults>>

\* The sender task ended and the session is discarded from the registry.
Release(k) ==
  /\ link[k].server = "draining"
  /\ link' = [link EXCEPT ![k].server = "gone"]
  /\ UNCHANGED <<requests, others, got, hub, pool, ws, db, server, faults>>

\* The network loses a connection.
Break(k) ==
  /\ Faulty
  /\ link[k].state \in {"open", "closing"}
  /\ link' = [link EXCEPT ![k].state = "broken"]
  /\ UNCHANGED <<requests, others, got, hub, pool, ws, db, server>>

-----------------------------------------------------------------------------
(* The service stops and starts: what was in memory is lost, and           *)
(* recover_stale_generations marks rows with an old enough last_stream_at. *)

Lost(s) == IF s = "new" THEN s ELSE "lost"

Restart ==
  /\ Faulty
  /\ turn' = [t \in Turns |-> Lost(turn[t])]
  /\ consumer' = [t \in Turns |-> IF consumer[t] = "none" THEN "none" ELSE "done"]
  /\ reader' = [r \in Readers |-> Lost(reader[r])]
  /\ replay' = [r \in Readers |-> <<>>]
  /\ abort' = [a \in Aborts |-> Lost(abort[a])]
  /\ hub' = EmptyHub
  /\ pool' = None
  /\ ws' = [c \in Clients |-> [conn |-> None, up |-> FALSE]]
  /\ link' = [k \in Turns |-> [link[k] EXCEPT !.state = IF @ \in {"open", "closing"} THEN "broken" ELSE @]]
  /\ \E stale \in SUBSET {i \in DOMAIN rows : rows[i].status = "generating" /\ rows[i].stamped} :
       rows' = [i \in DOMAIN rows |-> IF i \in stale THEN [rows[i] EXCEPT !.status = "interrupted"] ELSE rows[i]]
  /\ UNCHANGED <<gen, target, client, source, got, status, server>>

-----------------------------------------------------------------------------

Init ==
  /\ turn = [t \in Turns |-> "new"]
  /\ gen = [t \in Turns |-> None]
  /\ target = [t \in Turns |-> None]
  /\ client = [c \in Clients |-> None]
  /\ consumer = [t \in Turns |-> "none"]
  /\ source = [t \in Turns |-> None]
  /\ reader = [r \in Readers |-> "new"]
  /\ replay = [r \in Readers |-> <<>>]
  /\ abort = [a \in Aborts |-> "new"]
  /\ got = [q \in Requests |-> <<>>]
  /\ hub = EmptyHub
  /\ pool = None
  /\ ws = [c \in Clients |-> [conn |-> None, up |-> FALSE]]
  /\ link = [k \in Turns |-> [state |-> "none", server |-> "none", terminal |-> FALSE, events |-> <<>>, frames |-> <<>>]]
  /\ rows = [i \in 1..Cardinality(History) |->
              [id |-> CHOOSE h \in History : TRUE, status |-> "completed", stamped |-> TRUE]]
  /\ status = "idle"
  /\ running = None
  /\ emitted = [t \in Turns |-> 0]
  /\ faults = 0

Request(t) == SendMessage(t) \/ Regenerate(t)
Handing(t) == Connected(t) \/ HandOver(t)
Consume(t) == Listen(t) \/ Resume(t) \/ Receive(t) \/ StreamCloses(t) \/ Finish(t) \/ ConsumerClosed(t)
Aborting(a) == AbortRemote(a) \/ AbortLocally(a) \/ AbortClosed(a)
Serve(k) == Hold(k) \/ Dispatch(k) \/ SeesClose(k) \/ Release(k)

Next ==
  \/ \E t \in Turns : Request(t) \/ Handing(t) \/ CallFails(t) \/ Consume(t)
  \/ \E q \in Requests : Take(q) \/ Leave(q)
  \/ \E r \in Readers : Reconnect(r) \/ Replay(r)
  \/ \E a \in Aborts : Aborting(a)
  \/ \E k \in Turns : Serve(k) \/ Break(k)
  \/ Emit \/ EmitError \/ Restart

Spec == Init /\ [][Next]_vars

\* Pending awaits are served: by the event loop, and by an agent server that
\* runs.  Nobody has to send, reconnect, leave or abort; nothing has to fail.
Fairness ==
  /\ \A t \in Turns : WF_vars(Handing(t)) /\ WF_vars(Consume(t)) /\ WF_vars(Serve(t)) /\ WF_vars(Take(t))
  /\ \A a \in Aborts : WF_vars(AbortLocally(a) \/ AbortClosed(a))
  /\ WF_vars(Emit)

FairSpec == Spec /\ Fairness

-----------------------------------------------------------------------------
(* Properties.                                                             *)

RowStates == {"generating", "completed", "interrupted", "error"}
TurnStates == {"new", "refused", "connecting", "sending", "failed", "reading", "ended", "left", "lost"}
Alive == {"created", "waiting", "yielded", "finishing"}

\* What a consumer pushes, and what a connection carries.
Reports == [turn : Turns, kind : {"delta", "completed", "error", "fault"}, n : Nat]
Messages == [turn : Turns, kind : {"running", "idle", "delta", "completed", "error"}, n : Nat]

Registries == [gen : Nat, listed : BOOLEAN, ended : BOOLEAN, subs : SUBSET Requests, buffer : Seq(Reports),
               inbox : [Requests -> Seq(Reports \cup {End})]]
Sockets == [conn : Turns \cup {None}, up : BOOLEAN]
Links == [state : {"none", "open", "closing", "clean", "broken"}, terminal : BOOLEAN,
          server : {"none", "accepted", "held", "draining", "gone"},
          events : Seq(Messages), frames : Seq(Turns)]
Rows == [id : History \cup Turns, status : RowStates, stamped : BOOLEAN]

\* A queue of the registry holds what was pushed, and sentinels: its readers
\* are given nothing else.  A call past its first await has a client.
TypeOK ==
  /\ turn \in [Turns -> TurnStates]
  /\ gen \in [Turns -> Nat \cup {None}]
  /\ target \in [Turns -> History \cup Turns \cup {None}]
  /\ client \in [Clients -> Clients \cup {None}]
  /\ consumer \in [Turns -> Alive \cup {"none", "closing", "done"}]
  /\ source \in [Turns -> Turns \cup {None}]
  /\ reader \in [Readers -> {"new", "replaying", "reading", "ended", "left", "lost"}]
  /\ replay \in [Readers -> Seq(Reports)]
  /\ abort \in [Aborts -> {"new", "answered", "closing", "done", "lost"}]
  /\ got \in [Requests -> Seq(Reports)]
  /\ hub \in Registries
  /\ pool \in Clients \cup {None}
  /\ ws \in [Clients -> Sockets]
  /\ link \in [Turns -> Links]
  /\ rows \in Seq(Rows)
  /\ status \in {"idle", "running", "error"}
  /\ running \in [turn : Turns, via : Turns] \cup {None}
  /\ emitted \in [Turns -> Nat]
  /\ \A t \in Turns : turn[t] \in {"connecting", "sending"} \/ consumer[t] # "none" => client[t] # None
  /\ \A t \in Turns : consumer[t] \in {"waiting", "yielded"} => source[t] # None
  /\ \A a \in Aborts : abort[a] = "closing" => client[a] # None

\* A request that reads the reply it asked for either has the sentinel in its
\* queue already, or is subscribed and its consumer has still to reach its
\* finally, however the streams of several turns, their cleanups and the
\* restarted generations overlap.  (Not so who reconnects: NoReaderIsStranded.)
NobodyWaitsForNothing ==
  \A t \in Turns : turn[t] = "reading" =>
    \/ End \in ToSet(hub.inbox[t])
    \/ t \in hub.subs /\ consumer[t] \in Alive

\* The replay of the buffer followed by the live queue gives a reader no event
\* twice and none out of order.
NoRepeats ==
  \A q \in Requests : \A i, j \in DOMAIN got[q] :
    i < j /\ got[q][i].turn = got[q][j].turn /\ got[q][i].kind \notin {"fault", "error"}
      => got[q][i] # got[q][j] /\ (got[q][j].kind \in {"delta", "completed"} => got[q][i].n < got[q][j].n)

\* "Reconnecting clients get buffered events first, then live events": of a
\* reply no event is left out between the first and the last they are given.
NothingMissed ==
  \A r \in Readers : \A i \in 1..Len(got[r]) - 1 :
    got[r][i].turn = got[r][i + 1].turn /\ got[r][i + 1].kind \in {"delta", "completed"}
      => got[r][i + 1].n = got[r][i].n + 1

\* Who reconnected and waits for live events has the end before it, or there is
\* a consumer left whose events the registry gives to it.
NoReaderIsStranded ==
  \A r \in Readers : reader[r] = "reading" =>
    \/ End \in ToSet(hub.inbox[r])
    \/ r \in hub.subs /\ \E t \in Turns : consumer[t] \in Alive /\ gen[t] = hub.gen

\* regenerate_message_stream's comment: a session that generates refuses another
\* regeneration, and two of them in one process cannot both pass.
Generating(t) == turn[t] \in {"connecting", "sending"} \/ consumer[t] \in Alive
OneRegeneration ==
  \A t, u \in Turns : t # u /\ Generating(t) /\ Generating(u) => None \in {target[t], target[u]}

\* finalize_abnormal_turn's docstring: a message does not stay "generating"
\* once its turn is over (while the service keeps running).
NoMessageStuckGenerating ==
  \A i \in DOMAIN rows : rows[i].status = "generating" =>
    consumer[rows[i].id] \in Alive \/ turn[rows[i].id] = "lost"

\* abort_session closes the connection a turn is reading: whenever a consumer
\* waits on an open connection, the pool's client is the one that holds it.
AbortFindsConnection ==
  \A t \in Turns : consumer[t] = "waiting" /\ link[source[t]].state = "open" =>
     pool # None /\ ws[pool] = [conn |-> source[t], up |-> TRUE]

\* The promise of a reply, for each turn: ReplyStream.  What the consumer pushed
\* is what its request yielded and what still waits in its queue: the sentinels
\* at the end of a queue do not count.
BeforeEnd(q) == SubSeq(q, 1, Max({0} \cup {i \in DOMAIN q : q[i] # End}))
Pushed(t) == got[t] \o BeforeEnd(hub.inbox[t])
Phase(t) ==
  CASE turn[t] \in {"left", "lost"} -> "abandoned"
    [] turn[t] = "ended" -> "closed"
    [] turn[t] = "reading" -> IF End \in ToSet(hub.inbox[t]) THEN "finished" ELSE "open"
    [] OTHER -> "none"

Reply == INSTANCE ReplyStream WITH
  phase <- [t \in Turns |-> Phase(t)],
  out <- [t \in Turns |-> Pushed(t)],
  delivered <- [t \in Turns |-> Len(got[t])]

\* With one turn at a time, each request gets its own reply, the whole of it,
\* in order, and the end of the stream only after the last event.
RepliesAreWhole == Reply!Spec

\* With one turn at a time, and unless somebody aborts or leaves or a
\* connection is lost, a response never just ends: its last event is the
\* completed one, after all of the deltas, or says that the turn failed (the
\* agent server may refuse the connection while it still drains the last one).
Explained(s) ==
  s # <<>> /\ (Last(s).kind \in {"error", "fault"} \/ (Last(s).kind = "completed" /\ Len(s) = MaxEvents + 1))
EndIsExplained ==
  faults = 0 => \A t \in Turns : turn[t] = "ended" => Explained(got[t])

\* With one turn at a time, every request that reads its reply gets to its end.
ReplyEnds == \A t \in Turns : (turn[t] = "reading") ~> (turn[t] \in {"ended", "left", "lost"})
=============================================================================
