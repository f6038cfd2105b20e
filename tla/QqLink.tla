------------------------------- MODULE QqLink -------------------------------
(* The connections of the QQ adapter: QqGatewayTransport                   *)
(* (channels/adapters/qq_transport.py) with its connection task, its       *)
(* heartbeat and its close(), and the life cycle of the adapter that makes *)
(* a new one whenever the old one is dead (qq_bot.py, base.py).            *)
(*                                                                         *)
(* All of it runs on one event loop: an action is what happens between two *)
(* awaits.  A socket of our own closes at once; the platform may close or  *)
(* freeze one at any time, closes those that send no heartbeat, and keeps  *)
(* one connection of a bot: the last that was made ready.                  *)
EXTENDS Integers

CONSTANTS
  Transports,   \* bound: the transports, numbered as they are made
  MaxFaults,    \* bound: requests that fail, sockets closed or frozen
  MaxCancels,   \* bound: cancellations of whoever runs start() or stop()
  Hasty         \* a cancellation may come while close() waits for socket or task

ASSUME BoundsAssumption == Transports \in Nat /\ MaxFaults \in Nat /\ MaxCancels \in Nat /\ Hasty \in BOOLEAN

VARIABLES
  owner,        \* whoever runs start() and stop(): where it stands, and the transport
  run,          \* of each transport: the task of _run
  ws,           \* _ws is set
  sock,         \* the socket that _run has opened
  ready,        \* the event _ready
  established,  \* _established
  failed,       \* _failure is set
  beat,         \* the heartbeat task
  silent,       \* intervals since the last frame, rounded up
  closing,      \* close(): what it waits for
  faults, cancels

vars == <<owner, run, ws, sock, ready, established, failed, beat, silent, closing, faults, cancels>>

Ids == 1..Transports
Faulty == faults < MaxFaults /\ faults' = faults + 1

\* MAX_MISSED_HEARTBEATS.
Tolerance == 2

Alive(t) == ~failed[t] /\ ready[t] = "set" /\ closing[t] = "no" /\ run[t] # "done"

-----------------------------------------------------------------------------
(* The task: _run, _handshake, _await_ready, _receive_loop.                *)

At(t, pc) == run[t] = pc
Goto(t, pc) == run' = [run EXCEPT ![t] = pc]

\* _set_ready: close() may have taken the event away.
SetReady(t) == ready' = [ready EXCEPT ![t] = IF @ = "none" THEN "none" ELSE "set"]

\* The token and the address of the gateway.
Asked(t) ==
  /\ At(t, "rest") /\ Goto(t, "dial")
  /\ UNCHANGED <<owner, ws, sock, ready, established, failed, beat, silent, closing, faults, cancels>>

\* The socket is there, also for a transport that was closed meanwhile.
Dialed(t) ==
  /\ At(t, "dial") /\ Goto(t, "hello")
  /\ ws' = [ws EXCEPT ![t] = TRUE] /\ sock' = [sock EXCEPT ![t] = "open"]
  /\ UNCHANGED <<owner, ready, established, failed, beat, silent, closing, faults, cancels>>

Identified(t) ==
  /\ At(t, "hello") /\ ws[t] /\ sock[t] = "open"
  /\ Goto(t, "identify")
  /\ UNCHANGED <<owner, ws, sock, ready, established, failed, beat, silent, closing, faults, cancels>>

\* READY, also after close() has taken the socket, as long as it is open; the
\* platform drops the other connections.
Readied(t) ==
  /\ At(t, "identify") /\ sock[t] = "open"
  /\ Goto(t, "receive") /\ SetReady(t)
  /\ established' = [established EXCEPT ![t] = TRUE]
  /\ beat' = [beat EXCEPT ![t] = "on"] /\ silent' = [silent EXCEPT ![t] = 0]
  /\ sock' = [u \in Ids |-> IF u # t /\ established[u] /\ sock[u] = "open" THEN "closed" ELSE sock[u]]
  /\ UNCHANGED <<owner, ws, failed, closing, faults, cancels>>

\* An event, or the answer to a heartbeat.
Frame(t) ==
  /\ At(t, "receive") /\ ws[t] /\ sock[t] = "open"
  /\ silent' = [silent EXCEPT ![t] = 0]
  /\ UNCHANGED <<owner, run, ws, sock, ready, established, failed, beat, closing, faults, cancels>>

\* Any error ends the task, with its first cause on record; the socket stays.
Fails(t) ==
  /\ Goto(t, "done") /\ SetReady(t)
  /\ failed' = [failed EXCEPT ![t] = TRUE]
  /\ UNCHANGED <<owner, ws, sock, established, beat, silent, closing, cancels>>

\* A request fails, a frame is none or asks for a new connection.
Breaks(t) == run[t] \notin {"none", "done"} /\ Faulty /\ Fails(t)

\* The socket is closed, or one more frame comes after close() has taken it.
Gone(t) ==
  /\ run[t] \in {"hello", "identify", "receive"}
  /\ sock[t] = "closed" \/ (~ws[t] /\ sock[t] = "open")
  /\ Fails(t) /\ UNCHANGED faults

\* No READY within _connect_timeout of Identify; Hello is waited for without one.
HandshakeTimesOut(t) == At(t, "identify") /\ Fails(t) /\ UNCHANGED faults

-----------------------------------------------------------------------------
(* The heartbeat: _heartbeat_loop, _fail.                                  *)

\* After an interval: nothing was heard for Tolerance intervals - if a frame
\* came just after a beat, the next but one is still in time - or a frame is
\* sent, which only a socket that is closed or taken refuses.
Elapsed(t) == silent[t] + 1
Sendable(t) == ws[t] /\ sock[t] # "closed"
\* As if a beat that could be sent were a sign of life.
Mutant_Beats(t) ==
  /\ beat[t] = "on" /\ Sendable(t) /\ Elapsed(t) <= Tolerance
  /\ silent' = [silent EXCEPT ![t] = 0]
  /\ UNCHANGED <<owner, run, ws, sock, ready, established, failed, beat, closing, faults, cancels>>

Beats(t) ==
  /\ beat[t] = "on" /\ Sendable(t) /\ Elapsed(t) <= Tolerance
  /\ silent' = [silent EXCEPT ![t] = @ + 1]
  /\ UNCHANGED <<owner, run, ws, sock, ready, established, failed, beat, closing, faults, cancels>>

GivesUp(t) ==
  /\ beat[t] = "on" /\ Elapsed(t) >= Tolerance
  /\ failed' = [failed EXCEPT ![t] = TRUE]
  /\ sock' = [sock EXCEPT ![t] = IF ws[t] THEN "closed" ELSE @]
  /\ beat' = [beat EXCEPT ![t] = "done"]
  /\ UNCHANGED <<owner, run, ws, ready, established, silent, closing, faults, cancels>>

\* As if a frame that nobody confirms made the send fail.
Mutant_BeatFails(t) ==
  /\ beat[t] = "on" /\ (~Sendable(t) \/ sock[t] = "half") /\ Elapsed(t) <= Tolerance
  /\ beat' = [beat EXCEPT ![t] = "done"]
  /\ UNCHANGED <<owner, run, ws, sock, ready, established, failed, silent, closing, faults, cancels>>

\* The exception ends the heartbeat, and nobody looks at it.
BeatFails(t) ==
  /\ beat[t] = "on" /\ ~Sendable(t) /\ Elapsed(t) <= Tolerance
  /\ beat' = [beat EXCEPT ![t] = "done"]
  /\ UNCHANGED <<owner, run, ws, sock, ready, established, failed, silent, closing, faults, cancels>>

-----------------------------------------------------------------------------
(* The owner: start() and stop() of the adapter, connect(), close().       *)

\* The socket, if there is one by now, is taken, and its end awaited.
TakesSocket(t) ==
  /\ ws' = [ws EXCEPT ![t] = FALSE]
  /\ closing' = [closing EXCEPT ![t] = IF ws[t] THEN "socket" ELSE "wait"]

\* _stop_heartbeat, which awaits the end of a heartbeat, and then the socket.
CloseStarts(t, why) ==
  /\ owner' = [owner EXCEPT !.pc = why]
  /\ IF beat[t] = "on"
     THEN /\ beat' = [beat EXCEPT ![t] = "done"]
          /\ closing' = [closing EXCEPT ![t] = "beat"] /\ UNCHANGED ws
     ELSE TakesSocket(t) /\ UNCHANGED beat
  /\ UNCHANGED <<run, sock, ready, established, failed, silent, faults>>

BeatStopped(t) ==
  /\ closing[t] = "beat" /\ TakesSocket(t)
  /\ UNCHANGED <<owner, run, sock, ready, established, failed, beat, silent, faults, cancels>>

SocketCloses(t) ==
  /\ closing[t] = "socket"
  /\ closing' = [closing EXCEPT ![t] = "wait"] /\ sock' = [sock EXCEPT ![t] = "closed"]
  /\ UNCHANGED <<owner, run, ws, ready, established, failed, beat, silent, faults, cancels>>

Start(t) ==
  /\ owner.pc = "idle" /\ t = owner.t + 1
  /\ owner' = [pc |-> "connect", t |-> t]
  /\ Goto(t, "rest") /\ ready' = [ready EXCEPT ![t] = "unset"]
  /\ UNCHANGED <<ws, sock, established, failed, beat, silent, closing, faults, cancels>>

\* connect() returns; a link that broke since READY counts as made.
Connected ==
  /\ owner.pc = "connect" /\ ready[owner.t] = "set"
  /\ ~failed[owner.t] \/ established[owner.t]
  /\ owner' = [owner EXCEPT !.pc = "up"]
  /\ UNCHANGED <<run, ws, sock, ready, established, failed, beat, silent, closing, faults, cancels>>

ConnectFails ==
  /\ owner.pc = "connect" /\ ready[owner.t] = "set"
  /\ failed[owner.t] /\ ~established[owner.t]
  /\ CloseStarts(owner.t, "close") /\ UNCHANGED cancels

ConnectTimesOut ==
  /\ owner.pc = "connect" /\ ready[owner.t] = "unset"
  /\ CloseStarts(owner.t, "close") /\ UNCHANGED cancels

\* start() of an adapter whose link is dead begins with _disconnect.
Renews == owner.pc = "up" /\ ~Alive(owner.t) /\ CloseStarts(owner.t, "close") /\ UNCHANGED cancels

\* stop(), of an adapter that is alive.
Stop == owner.pc = "up" /\ Alive(owner.t) /\ CloseStarts(owner.t, "close") /\ UNCHANGED cancels

\* As if the task were not cancelled.
Mutant_Closed(t) ==
  /\ closing[t] = "wait"
  /\ closing' = [closing EXCEPT ![t] = "done"] /\ ready' = [ready EXCEPT ![t] = "none"]
  /\ owner' = IF owner.t = t /\ owner.pc \in {"close", "shielded"} THEN [owner EXCEPT !.pc = "idle"] ELSE owner
  /\ UNCHANGED <<run, ws, sock, established, failed, beat, silent, faults, cancels>>

\* close() shields the task and waits a second, then cancels it.
Closed(t) ==
  /\ closing[t] = "wait"
  /\ closing' = [closing EXCEPT ![t] = "done"]
  /\ Goto(t, "done") /\ ready' = [ready EXCEPT ![t] = "none"]
  /\ owner' = IF owner.t = t /\ owner.pc \in {"close", "shielded"} THEN [owner EXCEPT !.pc = "idle"] ELSE owner
  /\ UNCHANGED <<ws, sock, established, failed, beat, silent, faults, cancels>>

\* A cancellation: connect() closes under a shield, which a second one leaves
\* behind; _stop_heartbeat swallows one; elsewhere it cuts close() short, and
\* the task goes on.
Cancel ==
  /\ cancels < MaxCancels /\ cancels' = cancels + 1
  /\ \/ owner.pc = "connect" /\ CloseStarts(owner.t, "shielded")
     \/ /\ owner.pc = "shielded" /\ owner' = [owner EXCEPT !.pc = "idle"]
        /\ UNCHANGED <<run, ws, sock, ready, established, failed, beat, silent, closing, faults>>
     \/ /\ owner.pc = "close" /\ closing[owner.t] = "beat"
        /\ UNCHANGED <<owner, run, ws, sock, ready, established, failed, beat, silent, closing, faults>>
     \/ /\ Hasty /\ owner.pc = "close" /\ closing[owner.t] # "beat"
        /\ owner' = [owner EXCEPT !.pc = "idle"]
        /\ closing' = [closing EXCEPT ![owner.t] = "cut"]
        /\ UNCHANGED <<run, ws, sock, ready, established, failed, beat, silent, faults>>

-----------------------------------------------------------------------------
(* The platform and the network.                                           *)

\* A socket is closed, or nothing comes through any more.
Drops(t) ==
  /\ sock[t] = "open" /\ Faulty
  /\ \E s \in {"closed", "half"} : sock' = [sock EXCEPT ![t] = s]
  /\ UNCHANGED <<owner, run, ws, ready, established, failed, beat, silent, closing, cancels>>

\* A connection without heartbeats is closed.
Reaps(t) ==
  /\ sock[t] = "open" /\ beat[t] # "on" /\ run[t] \notin {"hello", "identify"}
  /\ sock' = [sock EXCEPT ![t] = "closed"]
  /\ UNCHANGED <<owner, run, ws, ready, established, failed, beat, silent, closing, faults, cancels>>

-----------------------------------------------------------------------------

Init ==
  /\ owner = [pc |-> "idle", t |-> 0]
  /\ run = [t \in Ids |-> "none"] /\ ws = [t \in Ids |-> FALSE] /\ sock = [t \in Ids |-> "none"]
  /\ ready = [t \in Ids |-> "none"] /\ established = [t \in Ids |-> FALSE]
  /\ failed = [t \in Ids |-> FALSE] /\ beat = [t \in Ids |-> "none"]
  /\ silent = [t \in Ids |-> 0] /\ closing = [t \in Ids |-> "no"]
  /\ faults = 0 /\ cancels = 0

RunStep(t) ==
  \/ Asked(t) \/ Dialed(t) \/ Identified(t) \/ Readied(t) \/ Gone(t) \/ HandshakeTimesOut(t)
BeatStep(t) == Beats(t) \/ GivesUp(t) \/ BeatFails(t)
CloseStep(t) == BeatStopped(t) \/ SocketCloses(t) \/ Closed(t)
OwnerStep == Connected \/ ConnectFails \/ ConnectTimesOut \/ Renews

Next ==
  \/ \E t \in Ids :
       \/ Start(t) \/ RunStep(t) \/ Frame(t) \/ Breaks(t) \/ BeatStep(t) \/ CloseStep(t)
       \/ Drops(t) \/ Reaps(t)
  \/ OwnerStep \/ Stop \/ Cancel

Spec == Init /\ [][Next]_vars

\* Timers go off, what is ready runs, the supervisor comes back to a dead
\* link, the library gives up on a socket that does not close, and the platform
\* closes what does not send heartbeats.
FairSpec ==
  /\ Spec /\ WF_vars(OwnerStep)
  /\ \A t \in Ids : WF_vars(RunStep(t)) /\ WF_vars(BeatStep(t)) /\ WF_vars(CloseStep(t)) /\ WF_vars(Reaps(t))

-----------------------------------------------------------------------------
(* Properties.                                                             *)

\* The types of the variables, and what goes with what.
TypeOK ==
  /\ owner \in [pc : {"idle", "connect", "up", "close", "shielded"}, t : 0..Transports]
  /\ run \in [Ids -> {"none", "rest", "dial", "hello", "identify", "receive", "done"}]
  /\ ws \in [Ids -> BOOLEAN] /\ sock \in [Ids -> {"none", "open", "half", "closed"}]
  /\ ready \in [Ids -> {"none", "unset", "set"}]
  /\ established \in [Ids -> BOOLEAN] /\ failed \in [Ids -> BOOLEAN]
  /\ beat \in [Ids -> {"none", "on", "done"}] /\ silent \in [Ids -> 0..Tolerance]
  /\ closing \in [Ids -> {"no", "beat", "socket", "wait", "done", "cut"}]
  /\ faults \in 0..MaxFaults /\ cancels \in 0..MaxCancels

\* Each link that counts as alive has its heartbeat, or its receive loop is
\* about to end: the heartbeat may be gone unheard, by an exception in a task
\* that nobody awaits, but never from a link that only it can find dead.
LiveLinksAreWatched == \A t \in Ids : Alive(t) /\ sock[t] # "closed" => beat[t] = "on"

\* A socket from which nothing comes is noticed, though sending on it
\* succeeds (_heartbeat_loop: silence of any frame, not of the answers).
SilenceIsNoticed == \A t \in Ids : Alive(t) /\ sock[t] = "half" ~> ~Alive(t)

\* A connection given up does not stay open, also one that was made while
\* close() waited for its task, which nothing refers to any more: it would
\* hold the place of the bot at the platform.
GivenUpCloses == \A t \in Ids : closing[t] # "no" /\ sock[t] = "open" ~> sock[t] # "open"

\* close() leaves no open socket behind.
NothingLeftOpen == \A t \in Ids : closing[t] = "done" => sock[t] # "open"

=============================================================================
