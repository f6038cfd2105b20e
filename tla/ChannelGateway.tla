--------------------------- MODULE ChannelGateway ---------------------------
(* The connection of one channel instance: the supervision loop and the    *)
(* calls of ChannelGateway (channels/gateway.py), the life cycle of its    *)
(* adapters (adapters/base.py) with the sockets of WecomBotAdapter         *)
(* (adapters/wecom_bot.py), the registration at the router and the row.    *)
(*                                                                         *)
(* All of it runs on one event loop: an action is what happens between two *)
(* awaits.  _instances, the router's _instances and the rows are keyed by  *)
(* the instance, so one stands for all.  Backoff and the health interval   *)
(* are the time the supervisor may take to wake up.                        *)
EXTENDS Naturals, FiniteSets

CONSTANTS
  Clients,      \* of the HTTP interface: each has one call at a time
  Supervisor,   \* the supervision task
  Adapters,     \* bound: 1..n, the adapter objects that exist at a time
  Sockets,      \* bound: 1..n, sockets that exist at a time
  MaxCalls,     \* bound: calls made
  MaxFaults     \* bound: connections that fail or break, acknowledgements lost

ASSUME BoundsAssumption == Adapters \subseteq Nat \ {0} /\ Sockets \subseteq Nat \ {0} /\ MaxCalls \in Nat /\ MaxFaults \in Nat
ASSUME NamesAssumption == Supervisor \notin Clients

Procs == Clients \cup {Supervisor}

VARIABLES
  row,          \* channel_instances: its status; "gone" without a row
  inst,         \* ChannelGateway._instances: the adapter supervised, 0: none
  router,       \* SessionRouter._instances: the adapter, and whether its generation is the row's
  adapter,      \* the adapter objects
  socket,       \* the sockets: whose they are, and where they stand
  proc,         \* the supervisor, and the calls of the clients
  calls,
  overlapped,   \* for the properties: some attempt or call began while another was under way
  faults

vars == <<row, inst, router, adapter, socket, proc, calls, overlapped, faults>>

Faulty == faults < MaxFaults /\ faults' = faults + 1

Unregistered == [a |-> 0, current |-> FALSE]

-----------------------------------------------------------------------------
(* Adapters and sockets.                                                   *)

\* _started; _connected; _transport; the socket that _receiver reads;
\* a _teardown_transport task that has still to run.
NewAdapter == [started |-> FALSE, connected |-> FALSE, sock |-> 0, reads |-> 0, tear |-> FALSE]
Unused == [state |-> "closed", owner |-> 0, read |-> FALSE]

Alive(a) == a # 0 /\ adapter[a].started /\ adapter[a].connected

\* Objects that nothing refers to any more stand for new ones.
Unreferenced ==
  {a \in Adapters : a \notin {inst, router.a} /\ ~adapter[a].connected /\ ~adapter[a].tear
                    /\ (\A p \in Procs : proc[p].a # a) /\ (\A s \in Sockets : socket[s].owner # a)}
InUse(s) == (\E a \in Adapters : adapter[a].sock = s) \/ (\E p \in Procs : proc[p].sock = s)
FreeSockets == {s \in Sockets : socket[s].state = "closed" /\ ~InUse(s)}

\* close() of sockets, and the end of the receive loop of others.
Close(ss, loops) ==
  socket' = [s \in Sockets |-> IF s \in ss THEN Unused
                               ELSE IF s \in loops THEN [socket[s] EXCEPT !.read = FALSE] ELSE socket[s]]

-----------------------------------------------------------------------------
(* The supervisor and the calls.                                           *)

\* From these steps on nothing is awaited: all others wait.
Held == {"connect", "start", "open", "erase"}
Free(p) == \A q \in Procs \ {p} : proc[q].pc \notin Held
LoopFree == \A q \in Procs : proc[q].pc \notin Held

Pending == \E p \in Procs : proc[p].pc \notin {"new", "asleep", "cancelled"}

At(p, pc) == Free(p) /\ proc[p].pc = pc
Goto(p, pc, a, s) == proc' = [proc EXCEPT ![p].pc = pc, ![p].a = a, ![p].sock = s]
Done(p) == IF p = Supervisor THEN "asleep" ELSE "new"
Ends(p) == Goto(p, Done(p), 0, 0)

\* _disconnect: receive loop, emits, teardown task and pending futures are
\* cancelled; whoever awaits such a future is told so by a CancelledError,
\* which kills the supervisor and aborts a call.
Disconnect(a, p, pc) ==
  /\ Close({adapter[a].sock}, {adapter[a].reads})
  /\ proc' = [q \in Procs |->
       IF q = p THEN [proc[p] EXCEPT !.pc = pc, !.a = a]
       ELSE IF proc[q].pc = "subscribing" /\ proc[q].a = a
         THEN [proc[q] EXCEPT !.pc = IF q = Supervisor THEN "cancelled" ELSE "new", !.a = 0, !.sock = 0]
         ELSE proc[q]]

Cleared(a, still) ==
  [adapter EXCEPT ![a].started = still, ![a].connected = FALSE, ![a].sock = 0, ![a].reads = 0, ![a].tear = FALSE]

-----------------------------------------------------------------------------
(* disconnect_instance, connect_instance, _sync_instances.                 *)

\* What a disconnection is for: the second half of reconnect_instance, the
\* delete of the row in the HTTP handler, or the synchronisation.
AfterDisconnect(p) ==
  CASE proc[p].kind = "reconnect" -> "connect"
    [] proc[p].kind = "delete" -> "erase"
    [] OTHER -> "asleep"

\* An adapter that is not alive is not stopped: one that is still starting is
\* forgotten, and goes on starting.
DisconnectInstance(p) ==
  /\ inst' = 0
  /\ IF Alive(inst)
       THEN /\ Disconnect(inst, p, "stopping")
            /\ adapter' = Cleared(inst, FALSE)
            /\ UNCHANGED router
       ELSE /\ Goto(p, AfterDisconnect(p), 0, 0)
            /\ router' = IF inst # 0 THEN Unregistered ELSE router
            /\ UNCHANGED <<adapter, socket>>

\* stop() returns: the routes of the instance go, whoever registered them.
Stopped(p) ==
  /\ At(p, "stopping")
  /\ router' = Unregistered
  /\ Goto(p, AfterDisconnect(p), 0, 0)
  /\ UNCHANGED <<row, inst, adapter, socket, calls, overlapped, faults>>

\* The handler checks that the row exists before anything else.
Call(p) ==
  /\ LoopFree /\ p \in Clients /\ proc[p].pc = "new" /\ row # "gone"
  /\ calls < MaxCalls /\ calls' = calls + 1
  /\ \E kind \in {"connect", "reconnect", "delete"} :
       proc' = [proc EXCEPT ![p].kind = kind, ![p].pc = IF kind = "connect" THEN "connect" ELSE "disconnect"]
  /\ overlapped' = (overlapped \/ Pending)
  /\ UNCHANGED <<row, inst, router, adapter, socket, faults>>

CallDisconnects(p) ==
  /\ At(p, "disconnect")
  /\ DisconnectInstance(p)
  /\ UNCHANGED <<row, calls, overlapped, faults>>

\* connect_instance: an adapter that is not connected is replaced by a new
\* one, even while somebody else is starting it.
Build(p) ==
  \E a \in Unreferenced :
    /\ \A b \in Unreferenced : a <= b
    /\ adapter' = [adapter EXCEPT ![a] = NewAdapter]
    /\ inst' = a
    /\ Goto(p, "start", a, 0)

ConnectInstance(p) ==
  /\ At(p, "connect")
  /\ IF row = "gone" \/ Alive(inst)
       THEN Ends(p) /\ UNCHANGED <<inst, adapter>>
       ELSE Build(p)
  /\ UNCHANGED <<row, router, socket, calls, overlapped, faults>>

Erase(p) ==
  /\ At(p, "erase")
  /\ row' = "gone"
  /\ Ends(p)
  /\ UNCHANGED <<inst, router, adapter, socket, calls, overlapped, faults>>

\* One tick of _supervise: _sync_instances, and then the attempt.
Tick ==
  /\ At(Supervisor, "asleep")
  /\ \/ /\ row = "gone" /\ inst # 0
        /\ DisconnectInstance(Supervisor)
     \/ /\ row # "gone" /\ inst = 0
        /\ Build(Supervisor)
        /\ UNCHANGED <<router, socket>>
     \/ /\ row # "gone" /\ inst # 0 /\ ~Alive(inst)
        /\ Goto(Supervisor, "start", inst, 0)
        /\ UNCHANGED <<inst, router, adapter, socket>>
  /\ overlapped' = (overlapped \/ Pending)
  /\ UNCHANGED <<row, calls, faults>>

-----------------------------------------------------------------------------
(* start() of the adapter: the loop's one attempt, or connect_instance's.  *)

\* A dead connection is put away first.
Mutant_Start(p) ==
  /\ At(p, "start")
  /\ IF adapter[proc[p].a].started
       THEN Ends(p)
       ELSE Goto(p, "open", proc[p].a, 0)
  /\ UNCHANGED <<row, inst, router, adapter, socket, calls, overlapped, faults>>

Start(p) ==
  /\ At(p, "start")
  /\ LET a == proc[p].a
     IN  IF adapter[a].started
           THEN Disconnect(a, p, "restarting") /\ adapter' = Cleared(a, TRUE)
           ELSE Goto(p, "open", a, 0) /\ UNCHANGED <<adapter, socket>>
  /\ UNCHANGED <<row, inst, router, calls, overlapped, faults>>

Restarting(p) ==
  /\ At(p, "restarting")
  /\ adapter' = [adapter EXCEPT ![proc[p].a].started = FALSE]
  /\ Goto(p, "open", proc[p].a, 0)
  /\ UNCHANGED <<row, inst, router, socket, calls, overlapped, faults>>

\* _connect: "never leave a second socket".
Open(p) ==
  /\ At(p, "open")
  /\ LET a == proc[p].a
     IN  IF adapter[a].sock # 0
           THEN /\ Disconnect(a, p, "reopening")
                /\ adapter' = Cleared(a, adapter[a].started)
           ELSE /\ \E s \in FreeSockets : (\A x \in FreeSockets : s <= x) /\ Goto(p, "opening", a, s)
                /\ UNCHANGED <<adapter, socket>>
  /\ UNCHANGED <<row, inst, router, calls, overlapped, faults>>

Reopening(p) ==
  /\ At(p, "reopening")
  /\ \E s \in FreeSockets : (\A x \in FreeSockets : s <= x) /\ Goto(p, "opening", proc[p].a, s)
  /\ UNCHANGED <<row, inst, router, adapter, socket, calls, overlapped, faults>>

\* transport.connect() returns: this socket is the transport now, whatever
\* was; the receive loop starts and the subscription is sent.
Opened(p) ==
  /\ At(p, "opening")
  /\ LET a == proc[p].a
         s == proc[p].sock
     IN  /\ adapter' = [adapter EXCEPT ![a].sock = s, ![a].reads = s]
         /\ socket' = [socket EXCEPT ![s] = [state |-> "open", owner |-> a, read |-> TRUE]]
         /\ Goto(p, "subscribing", a, s)
  /\ UNCHANGED <<row, inst, router, calls, overlapped, faults>>

\* _set_status: a failed attempt leaves the instance "degraded".
Degraded == IF row = "gone" THEN row ELSE "degraded"

OpenFails(p) ==
  /\ At(p, "opening") /\ Faulty
  /\ row' = Degraded
  /\ Ends(p)
  /\ UNCHANGED <<inst, router, adapter, socket, calls, overlapped>>

\* The error path of _connect cancels _receiver and drops _transport, which
\* may be another attempt's by now, and closes its own socket.
Mutant_Fail(p) ==
  /\ adapter' = [adapter EXCEPT ![proc[p].a].sock = 0, ![proc[p].a].reads = 0]
  /\ Close({}, {adapter[proc[p].a].reads})
  /\ row' = Degraded
  /\ Ends(p)
  /\ UNCHANGED <<inst, router, calls, overlapped>>

Fail(p) ==
  LET a == proc[p].a
  IN  /\ adapter' = [adapter EXCEPT ![a].sock = 0, ![a].reads = 0]
      /\ Close({proc[p].sock}, {adapter[a].reads})
      /\ row' = Degraded
      /\ Ends(p)
      /\ UNCHANGED <<inst, router, calls, overlapped>>

\* No answer in time: it was lost, or nobody reads the socket any more.
TimesOut(p) ==
  /\ At(p, "subscribing") /\ socket[proc[p].sock].read /\ Faulty
  /\ Fail(p)

NobodyReads(p) ==
  /\ At(p, "subscribing") /\ ~socket[proc[p].sock].read
  /\ Fail(p)
  /\ UNCHANGED faults

\* The connection was taken over while the answer was awaited.
TakenOver(p) ==
  /\ At(p, "failing")
  /\ Fail(p)
  /\ UNCHANGED faults

\* The receive loop reads the acknowledgement; the attempt goes on later.
Acknowledged(p) ==
  /\ LoopFree /\ proc[p].pc = "subscribing"
  /\ socket[proc[p].sock].read /\ socket[proc[p].sock].state \in {"live", "kicked"}
  /\ Goto(p, "acked", proc[p].a, proc[p].sock)
  /\ UNCHANGED <<row, inst, router, adapter, socket, calls, overlapped, faults>>

\* start() returns, the generation is bumped and the adapter registered, in
\* one step, whether or not the gateway still knows this adapter.
Mutant_Connected(p) ==
  /\ At(p, "acked")
  /\ LET a == proc[p].a
     IN  /\ adapter' = [adapter EXCEPT ![a].connected = TRUE, ![a].started = TRUE]
         /\ row' = IF row = "gone" THEN row ELSE "connected"
         /\ router' = [a |-> a, current |-> FALSE]
  /\ Ends(p)
  /\ UNCHANGED <<inst, socket, calls, overlapped, faults>>

Connected(p) ==
  /\ At(p, "acked")
  /\ LET a == proc[p].a
     IN  /\ adapter' = [adapter EXCEPT ![a].connected = TRUE, ![a].started = TRUE]
         /\ row' = IF row = "gone" THEN row ELSE "connected"
         /\ router' = [a |-> a, current |-> row # "gone"]
  /\ Ends(p)
  /\ UNCHANGED <<inst, socket, calls, overlapped, faults>>

-----------------------------------------------------------------------------
(* The platform, and what the receive loop and the heartbeats make of it.  *)

\* A subscription is accepted, and takes over from the older connections.
Accept(s) ==
  /\ socket[s].state = "open"
  /\ socket' = [x \in Sockets |->
       IF x = s THEN [socket[s] EXCEPT !.state = "live"]
       ELSE IF socket[x].state = "live" THEN [socket[x] EXCEPT !.state = "kicked"] ELSE socket[x]]
  /\ UNCHANGED <<row, inst, router, adapter, proc, calls, overlapped, faults>>

\* disconnected_event: every pending request of the adapter fails, also those
\* sent on a newer socket, and the current transport will be torn down.
Kicked(s) ==
  /\ LoopFree /\ socket[s].state = "kicked"
  /\ LET a == socket[s].owner
     IN  IF socket[s].read
           THEN /\ adapter' = [adapter EXCEPT ![a].connected = FALSE, ![a].tear = TRUE]
                /\ proc' = [p \in Procs |-> IF proc[p].pc = "subscribing" /\ proc[p].a = a
                                              THEN [proc[p] EXCEPT !.pc = "failing"] ELSE proc[p]]
           ELSE UNCHANGED <<adapter, proc>>
  /\ Close({s}, {})
  /\ UNCHANGED <<row, inst, router, calls, overlapped, faults>>

Teardown(a) ==
  /\ LoopFree /\ adapter[a].tear
  /\ adapter' = [adapter EXCEPT ![a].tear = FALSE, ![a].sock = 0]
  /\ Close({adapter[a].sock}, {})
  /\ UNCHANGED <<row, inst, router, proc, calls, overlapped, faults>>

\* The connection breaks: only the loop of the current transport may say so.
Breaks(s) ==
  /\ LoopFree /\ socket[s].state \in {"open", "live"} /\ Faulty
  /\ LET a == socket[s].owner
     IN  adapter' = IF socket[s].read /\ adapter[a].sock = s
                      THEN [adapter EXCEPT ![a].connected = FALSE] ELSE adapter
  /\ Close({s}, {})
  /\ UNCHANGED <<row, inst, router, proc, calls, overlapped>>

\* Heartbeats that nobody answers.
Silent(a) == adapter[a].sock \notin {s \in Sockets : socket[s].state = "live" /\ socket[s].read}

HeartbeatsMissed(a) ==
  /\ LoopFree /\ adapter[a].connected /\ Silent(a)
  /\ adapter' = [adapter EXCEPT ![a].connected = FALSE, ![a].sock = 0]
  /\ Close({adapter[a].sock}, {})
  /\ UNCHANGED <<row, inst, router, proc, calls, overlapped, faults>>

\* A message of a user: the router compares the generation of the row with
\* that of the registration, and does not know which adapter received it.
LetsIn(s) ==
  /\ socket[s].state \in {"live", "kicked"} /\ socket[s].read
  /\ router.a # 0 /\ row # "gone" /\ router.current

-----------------------------------------------------------------------------
Init ==
  /\ row = "pending"
  /\ inst = 0
  /\ router = Unregistered
  /\ adapter = [a \in Adapters |-> NewAdapter]
  /\ socket = [s \in Sockets |-> Unused]
  /\ proc = [p \in Procs |-> [kind |-> "none", pc |-> IF p = Supervisor THEN "asleep" ELSE "new", a |-> 0, sock |-> 0]]
  /\ calls = 0 /\ overlapped = FALSE
  /\ faults = 0

Go(p) ==
  \/ CallDisconnects(p) \/ Stopped(p) \/ ConnectInstance(p) \/ Erase(p)
  \/ Start(p) \/ Restarting(p) \/ Open(p) \/ Reopening(p) \/ Opened(p)
  \/ NobodyReads(p) \/ TakenOver(p) \/ Acknowledged(p) \/ Connected(p)

Next ==
  \/ Tick
  \/ \E p \in Procs : Go(p) \/ Call(p) \/ OpenFails(p) \/ TimesOut(p)
  \/ \E s \in Sockets : Accept(s) \/ Kicked(s) \/ Breaks(s)
  \/ \E a \in Adapters : Teardown(a) \/ HeartbeatsMissed(a)

Spec == Init /\ [][Next]_vars

\* The event loop serves what is ready, the platform answers a subscription,
\* and timers fire.  Nobody has to call, nothing has to break.
Fairness ==
  /\ WF_vars(Tick)
  /\ \A p \in Procs : WF_vars(Go(p))
  /\ \A s \in Sockets : WF_vars(Accept(s)) /\ WF_vars(Kicked(s))
  /\ \A a \in Adapters : WF_vars(Teardown(a)) /\ WF_vars(HeartbeatsMissed(a))

FairSpec == Spec /\ Fairness

-----------------------------------------------------------------------------
(* Properties.                                                             *)

\* The states are in their sets, and a delete that has answered left no row.
TypeOK ==
  /\ row \in {"pending", "connected", "degraded", "gone"}
  /\ inst \in Adapters \cup {0} /\ router.a \in Adapters \cup {0} /\ (router.current => router.a # 0)
  /\ \A a \in Adapters : adapter[a].sock \in Sockets \cup {0} /\ adapter[a].reads \in Sockets \cup {0}
  /\ \A s \in Sockets : socket[s].state \in {"closed", "open", "live", "kicked"} /\ socket[s].owner \in Adapters \cup {0}
  /\ calls \in 0..MaxCalls /\ faults \in 0..MaxFaults /\ overlapped \in BOOLEAN
  /\ \A p \in Clients : proc[p].kind = "delete" /\ proc[p].pc = "new" => row = "gone"

\* The supervised adapter is connected, on the one live socket that anybody
\* holds, and is the one the router answers through.
Healthy ==
  /\ Alive(inst) /\ ~Silent(inst)
  /\ router = [a |-> inst, current |-> TRUE]
  /\ \A s \in Sockets : socket[s].state # "closed" => s = adapter[inst].sock

\* Attempts may fail, connections break or be taken over, acknowledgements be
\* lost: in the end the instance is gone with all of its sockets, or it is
\* healthy.
Off == row = "gone" /\ inst = 0 /\ \A s \in Sockets : socket[s].state = "closed"
Converges == <>[](Off \/ Healthy \/ overlapped)

\* Even after calls that overlapped, the supervision ends up with an adapter
\* it can hear the platform through.
Recovers == <>[](row = "gone" \/ (Alive(inst) /\ ~Silent(inst)))

\* "One adapter never leaves a second socket", and the callbacks of another
\* adapter than the supervised one are dropped.
OneSocket == \A s, x \in Sockets : socket[s].owner # 0 /\ socket[s].owner = socket[x].owner => s = x
OldCallbacksDropped == \A s \in Sockets : LetsIn(s) => socket[s].owner = inst
OneConnection == overlapped \/ (OneSocket /\ OldCallbacksDropped)

\* The health checks go on for as long as the service does: nobody cancels a
\* future that the supervisor awaits.
SupervisorLives == proc[Supervisor].pc # "cancelled"
=============================================================================
