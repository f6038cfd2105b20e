--------------------------- MODULE ChannelRouter ---------------------------
(* One route of the chat channels (channels/router.py): the messages of a  *)
(* platform user, the queue and the worker of the route, the binding of the*)
(* route to a session, and the commands /stop and /new, which run beside   *)
(* the worker.  RouteState objects are keyed by route, so one route stands *)
(* for all.                                                                *)
(*                                                                         *)
(* Everything runs on one event loop: a step is what a task does between   *)
(* two awaits that really suspend (resolve_session suspends only when it   *)
(* has to create a session).  The platforms of today cannot edit messages, *)
(* so that every outbound text counts.                                     *)
EXTENDS Naturals, Sequences, FiniteSets

CONSTANTS
  QueueDepth,    \* messages a route may have waiting
  ReplyLimit,    \* texts the platform lets the bot send in reply to one message
  MaxMessages,   \* bound: messages the user sends
  MaxSessions,   \* bound: sessions created for the route
  MaxReconnects, \* bound: times the instance is registered anew
  Commands,      \* the commands the user sends
  None           \* no session, no message

Messages == 1..MaxMessages
Sessions == 1..MaxSessions

ASSUME DepthAssumption == QueueDepth \in Nat \ {0}
\* The caller of plan keeps reserved below the limit: a placeholder and a notice.
ASSUME LimitAssumption == ReplyLimit \in Nat /\ ReplyLimit > 2
ASSUME BoundsAssumption ==
  MaxMessages \in Nat /\ MaxSessions \in Nat /\ MaxReconnects \in Nat
ASSUME NoneAssumption == None \notin Nat

VARIABLES
  reconnects,   \* registrations of the instance so far
  registered,   \* the instance is in _instances
  queue,        \* RouteState.queue
  phase,        \* where the task of RouteState.worker stands
  turn,         \* the locals of _process: message, session, binding_version, ...
  version,      \* RouteState.binding_version
  stopped,      \* RouteState.stopped_turn_id
  active,       \* active_session_id of the route in the database
  sessions,     \* sessions created so far
  usable,       \* those that exist and have a runtime
  text,         \* whose answer the last assistant message of a session holds
  cmd,          \* where each command handler stands
  drained,      \* messages a /stop took from the queue and has yet to tell about
  stale,        \* /stop handlers whose RouteState is no longer in _states
  fate,         \* history: what became of each message
  answer,       \* history: whose answer was delivered for it
  halted,       \* history: messages whose turn a /stop named
  rotated,      \* history: messages whose turn was under way at a /new
  chosen        \* history: the session of the last /new

instance == <<reconnects, registered>>
route == <<queue, phase, turn, version, stopped>>
data == <<active, sessions, usable, text>>
handlers == <<cmd, drained, stale>>
history == <<fate, answer, halted, rotated, chosen>>
vars == <<instance, route, data, handlers, history>>

\* The worker is suspended: as a new task, in resolve_session, in the sending of
\* an error text, of the placeholder, in _consume_turn, in the await of its
\* finally, or in the sending of a segment.
Busy == {"new", "resolve", "apology", "placeholder", "consume", "closing", "deliver"}
Settled == {"refused", "answered", "failed", "silent", "cancelled", "dropped", "lost"}
Fates == {"fresh", "queued", "running", "drained"} \cup Settled

Turn == [msg : Messages \cup {None}, session : Sessions \cup {None}, version : Nat,
         sent : Nat, noticed : BOOLEAN, row : BOOLEAN, left : Nat,
         result : {"none", "final", "empty", "error", "aborted"}]

NoTurn == [msg |-> None, session |-> None, version |-> 0, sent |-> 0,
           noticed |-> FALSE, row |-> FALSE, left |-> 0, result |-> "none"]

TypeOK ==
  /\ reconnects \in 0..MaxReconnects /\ registered \in BOOLEAN
  /\ queue \in Seq(Messages) /\ Len(queue) <= QueueDepth
  /\ phase \in Busy \cup {"none"}
  /\ turn \in Turn
  /\ version \in Nat
  /\ stopped \in Messages \cup {None}
  /\ active \in Sessions \cup {None}
  /\ sessions \in 0..MaxSessions
  /\ usable \in SUBSET (1..sessions)
  /\ text \in [Sessions -> Messages \cup {None}]
  /\ cmd \in [Commands -> {"fresh", "telling", "aborting", "creating", "done"}]
  /\ drained \in [Commands -> Seq(Messages)]
  /\ stale \in SUBSET Commands
  /\ fate \in [Messages -> Fates]
  /\ answer \in [Messages -> Messages \cup {None}]
  /\ halted \in SUBSET Messages
  /\ rotated \in SUBSET Messages
  /\ chosen \in Sessions \cup {None}

\* RouteState.current: set after the placeholder, cleared when the turn is consumed.
Current == IF phase \in {"consume", "closing"} THEN turn.msg ELSE None

Mutant_DeliveryToAnySession == turn.session \in usable

\* is_still_bound and the versions, at the moment a result could be delivered.
DeliveryAllowed == version = turn.version /\ active = turn.session

Become(ms, f) == [m \in Messages |-> IF m \in ms THEN f ELSE fate[m]]
Elements(s) == {s[i] : i \in 1..Len(s)}

-----------------------------------------------------------------------------
(* The worker.                                                             *)

\* A session of the route is created, whoever asked for it.
NewSession(s) ==
  /\ sessions < MaxSessions
  /\ s = sessions + 1
  /\ sessions' = s
  /\ usable' = usable \cup {s}

\* TurnContext, and the placeholder on its way.
Submit(m, s) ==
  /\ phase' = "placeholder"
  /\ turn' = [NoTurn EXCEPT !.msg = m, !.session = s, !.version = version, !.sent = 1]

\* The next message, in the step in which the previous one ends: get_nowait, or
\* the worker returns.  The message f becomes has just been dealt with.
TakeNext(ended, f) ==
  IF queue = <<>>
  THEN /\ phase' = "none"
       /\ turn' = NoTurn
       /\ fate' = Become(ended, f)
       /\ UNCHANGED queue
  ELSE LET m == Head(queue) IN
       /\ queue' = Tail(queue)
       /\ fate' = [Become(ended, f) EXCEPT ![m] = "running"]
       /\ \/ \* no agent is bound, or it is deleted: the user is told
             /\ phase' = "apology"
             /\ turn' = [NoTurn EXCEPT !.msg = m]
          \/ active \in usable /\ Submit(m, active)
          \/ /\ active \notin usable
             /\ phase' = "resolve"
             /\ turn' = [NoTurn EXCEPT !.msg = m]

WorkerStarts ==
  /\ phase = "new"
  /\ TakeNext({}, "fresh")
  /\ UNCHANGED <<version, stopped, answer, halted, rotated, chosen, instance, data, handlers>>

\* resolve_session created a session, and it becomes the active one.
Resolved ==
  /\ phase = "resolve"
  /\ \E s \in Sessions : NewSession(s) /\ active' = s /\ Submit(turn.msg, s)
  /\ UNCHANGED <<queue, version, stopped, text, instance, handlers, history>>

\* The agent cannot run: the user is told.
ResolveFails ==
  /\ phase = "resolve"
  /\ phase' = "apology"
  /\ UNCHANGED <<queue, turn, version, stopped, instance, data, handlers, history>>

\* An exception, of a session, a send, the stream or the database: the message
\* is logged and left.  What stopped holds then names no later turn.
ProcessRaises ==
  /\ phase \in {"resolve", "apology", "placeholder", "closing"}
  /\ TakeNext({turn.msg}, "lost")
  /\ UNCHANGED <<version, stopped, answer, halted, rotated, chosen, instance, data, handlers>>

Apologised ==
  /\ phase = "apology"
  /\ TakeNext({turn.msg}, "failed")
  /\ UNCHANGED <<version, stopped, answer, halted, rotated, chosen, instance, data, handlers>>

PlaceholderSent ==
  /\ phase = "placeholder"
  /\ phase' = "consume"
  /\ UNCHANGED <<queue, turn, version, stopped, instance, data, handlers, history>>

\* The stall window passes, or the runtime asks a question: one notice per turn.
Notice ==
  /\ phase = "consume"
  /\ ~turn.noticed
  /\ turn' = [turn EXCEPT !.noticed = TRUE, !.sent = @ + 1]
  /\ UNCHANGED <<queue, phase, version, stopped, instance, data, handlers, history>>

\* The first event of the turn creates its assistant message, empty as yet.
RowCreated ==
  /\ phase = "consume"
  /\ ~turn.row
  /\ turn' = [turn EXCEPT !.row = TRUE]
  /\ text' = [text EXCEPT ![turn.session] = None]
  /\ UNCHANGED <<queue, phase, version, stopped, active, sessions, usable, instance, handlers, history>>

\* The turn ends: with the text of message.completed, without a text, with an
\* error (before or after its first event), or as an aborted one.
TurnEnds ==
  /\ phase = "consume"
  /\ phase' = "closing"
  /\ \E r \in {"final", "empty", "error", "aborted"} :
       /\ r \in {"final", "empty"} => turn.row
       /\ turn' = [turn EXCEPT !.result = r]
       /\ \E saved \in BOOLEAN :
            /\ saved => turn.row
            /\ r = "final" => saved
            /\ text' = IF saved THEN [text EXCEPT ![turn.session] = turn.msg] ELSE text
  /\ UNCHANGED <<queue, version, stopped, active, sessions, usable, instance, handlers, history>>

\* The segments of a text, cut to what is left of the limit of the platform.
Deliver(owner, f) ==
  /\ \E n \in 1..(IF ReplyLimit > turn.sent THEN ReplyLimit - turn.sent ELSE 1) :
       turn' = [turn EXCEPT !.left = n, !.sent = @ + 1]
  /\ phase' = "deliver"
  /\ answer' = [answer EXCEPT ![turn.msg] = owner]
  /\ fate' = Become({turn.msg}, f)
  /\ UNCHANGED queue

\* _process after _consume_turn, up to the first text it sends.
Conclude ==
  LET own == turn.result = "final"
      owner == IF own THEN turn.msg
               ELSE IF turn.session \in usable THEN text[turn.session] ELSE None
  IN
  /\ phase = "closing"
  /\ stopped' = IF stopped = turn.msg THEN None ELSE stopped
  /\ \/ /\ turn.result = "aborted" \/ stopped = turn.msg \/ ~DeliveryAllowed
        /\ TakeNext({turn.msg}, "silent")
        /\ UNCHANGED answer
     \/ /\ turn.result # "aborted" /\ stopped # turn.msg /\ DeliveryAllowed
        /\ Deliver(owner, IF owner = None THEN "failed" ELSE "answered")
  /\ UNCHANGED <<version, halted, rotated, chosen, instance, data, handlers>>

\* A segment has been sent; one that was not delivered, or raised, is the last.
SegmentSent ==
  /\ phase = "deliver"
  /\ turn.left > 1
  /\ turn' = [turn EXCEPT !.left = @ - 1, !.sent = @ + 1]
  /\ UNCHANGED <<queue, phase, version, stopped, instance, data, handlers, history>>

DeliveryEnds ==
  /\ phase = "deliver"
  /\ TakeNext({}, "fresh")
  /\ UNCHANGED <<version, stopped, answer, halted, rotated, chosen, instance, data, handlers>>

Step ==
  \/ WorkerStarts \/ Resolved \/ ResolveFails \/ ProcessRaises \/ Apologised
  \/ PlaceholderSent \/ Notice \/ RowCreated \/ TurnEnds \/ Conclude
  \/ SegmentSent \/ DeliveryEnds

-----------------------------------------------------------------------------
(* Inbound messages.                                                       *)

Mutant_SeenInFlight(m) == fate[m] \notin {"queued", "running", "drained"}

\* _register_event: the platform may deliver a message again.  The messages are
\* numbered in the order in which they first come.
FirstSeen(m) == fate[m] = "fresh" /\ \A n \in 1..(m - 1) : fate[n] # "fresh"

\* A message that is not admitted, not text, of a group, or one too many.
Refuse(m) ==
  /\ FirstSeen(m)
  /\ registered
  /\ fate' = Become({m}, "refused")
  /\ UNCHANGED <<answer, halted, rotated, chosen, instance, route, data, handlers>>

Mutant_InboundWakesNobody(m) ==
  /\ FirstSeen(m)
  /\ registered
  /\ Len(queue) < QueueDepth
  /\ queue' = Append(queue, m)
  /\ fate' = Become({m}, "queued")
  /\ phase' = IF phase = "none" /\ queue # <<>> THEN "new" ELSE phase
  /\ UNCHANGED <<turn, version, stopped, answer, halted, rotated, chosen, instance, data, handlers>>

Inbound(m) ==
  /\ FirstSeen(m)
  /\ registered
  /\ Len(queue) < QueueDepth
  /\ queue' = Append(queue, m)
  /\ fate' = Become({m}, "queued")
  /\ phase' = IF phase = "none" THEN "new" ELSE phase
  /\ UNCHANGED <<turn, version, stopped, answer, halted, rotated, chosen, instance, data, handlers>>

-----------------------------------------------------------------------------
(* The commands.                                                           *)

Goes(c, stage) == cmd' = [cmd EXCEPT ![c] = stage]

Mutant_AbortUnnamed(c) ==
  \/ Goes(c, "done") /\ UNCHANGED <<stopped, halted>>
  \/ /\ Current # None /\ c \notin stale
     /\ Goes(c, "aborting")
     /\ halted' = halted \cup {Current}
     /\ UNCHANGED stopped

\* /stop looks at the current turn, and names it before it aborts it.
NameCurrent(c) ==
  \/ \* there is none, or the agent was unbound
     Goes(c, "done") /\ UNCHANGED <<stopped, halted>>
  \/ /\ Current # None /\ c \notin stale
     /\ Goes(c, "aborting")
     /\ stopped' = Current
     /\ halted' = halted \cup {Current}

Mutant_StopKeepsQueue(c) ==
  /\ cmd[c] = "fresh"
  /\ registered
  /\ drained' = [drained EXCEPT ![c] = queue]
  /\ fate' = Become(Elements(queue), "drained")
  /\ IF queue = <<>>
       THEN NameCurrent(c)
       ELSE Goes(c, "telling") /\ UNCHANGED <<stopped, halted>>
  /\ UNCHANGED <<queue, phase, turn, version, stale, answer, rotated, chosen, instance, data>>

\* The queue is drained at once, then every message in it is told about.
Stop(c) ==
  /\ cmd[c] = "fresh"
  /\ registered
  /\ queue' = <<>>
  /\ drained' = [drained EXCEPT ![c] = queue]
  /\ fate' = Become(Elements(queue), "drained")
  /\ IF queue = <<>>
       THEN NameCurrent(c)
       ELSE Goes(c, "telling") /\ UNCHANGED <<stopped, halted>>
  /\ UNCHANGED <<phase, turn, version, stale, answer, rotated, chosen, instance, data>>

Tell(c) ==
  /\ cmd[c] = "telling"
  /\ drained' = [drained EXCEPT ![c] = Tail(@)]
  /\ fate' = Become({Head(drained[c])}, "cancelled")
  /\ IF Len(drained[c]) = 1
       THEN NameCurrent(c)
       ELSE UNCHANGED <<cmd, stopped, halted>>
  /\ UNCHANGED <<queue, phase, turn, version, stale, answer, rotated, chosen, instance, data>>

\* gateway.abort returned, or failed: the receipt is sent all the same.
AbortReturns(c) ==
  /\ cmd[c] = "aborting"
  /\ Goes(c, "done")
  /\ UNCHANGED <<drained, stale, instance, route, data, history>>

New(c) ==
  /\ cmd[c] = "fresh"
  /\ registered
  /\ Goes(c, "creating")
  /\ UNCHANGED <<drained, stale, instance, route, data, history>>

\* The messages of the turns that a /new finds under way.
UnderWay == IF phase \in {"placeholder", "consume", "closing"} THEN {turn.msg} ELSE {}

\* The new session is bound, the version goes up and the queue is dropped.
Rebind(c) ==
  /\ cmd[c] = "creating"
  /\ Goes(c, "done")
  /\ \E s \in Sessions : NewSession(s) /\ active' = s /\ chosen' = s
  /\ version' = version + 1
  /\ queue' = <<>>
  /\ fate' = Become(Elements(queue), "dropped")
  /\ rotated' = rotated \cup UnderWay
  /\ UNCHANGED <<phase, turn, stopped, text, drained, stale, answer, halted, instance>>

\* No session could be created: the binding stays.
NewFails(c) ==
  /\ cmd[c] = "creating"
  /\ Goes(c, "done")
  /\ UNCHANGED <<drained, stale, instance, route, data, history>>

Handler(c) == Tell(c) \/ AbortReturns(c) \/ Rebind(c) \/ NewFails(c)

-----------------------------------------------------------------------------
(* The instance and the sessions.                                          *)

\* unregister_instance: the state goes and the worker is cancelled.
Unregister ==
  /\ registered
  /\ registered' = FALSE
  /\ queue' = <<>>
  /\ phase' = "none"
  /\ turn' = NoTurn
  /\ version' = 0
  /\ stopped' = None
  /\ stale' = stale \cup {c \in Commands : cmd[c] = "telling"}
  /\ fate' = Become({m \in Messages : fate[m] \in {"queued", "running"}}, "lost")
  /\ UNCHANGED <<reconnects, data, cmd, drained, answer, halted, rotated, chosen>>

Register ==
  /\ ~registered
  /\ reconnects < MaxReconnects
  /\ registered' = TRUE
  /\ reconnects' = reconnects + 1
  /\ UNCHANGED <<route, data, handlers, history>>

\* The session is deleted at the console, with its messages.
Forget(s) ==
  /\ s \in usable
  /\ usable' = usable \ {s}
  /\ UNCHANGED <<active, sessions, text, instance, route, handlers, history>>

-----------------------------------------------------------------------------

Init ==
  /\ reconnects = 0
  /\ registered = TRUE
  /\ queue = <<>>
  /\ phase = "none"
  /\ turn = NoTurn
  /\ version = 0
  /\ stopped = None
  /\ active = None
  /\ sessions = 0
  /\ usable = {}
  /\ text = [s \in Sessions |-> None]
  /\ cmd = [c \in Commands |-> "fresh"]
  /\ drained = [c \in Commands |-> <<>>]
  /\ stale = {}
  /\ fate = [m \in Messages |-> "fresh"]
  /\ answer = [m \in Messages |-> None]
  /\ halted = {}
  /\ rotated = {}
  /\ chosen = None

Next ==
  \/ Step
  \/ \E m \in Messages : Refuse(m) \/ Inbound(m)
  \/ \E c \in Commands : Stop(c) \/ New(c) \/ Handler(c)
  \/ Unregister \/ Register
  \/ \E s \in Sessions : Forget(s)

Spec == Init /\ [][Next]_vars

\* The loop runs its tasks, sends and requests return or time out, and the
\* stream of a turn ends; nothing is asked of the user, of the console and of the
\* connection of the instance.
FairSpec == Spec /\ WF_vars(Step) /\ \A c \in Commands : WF_vars(Handler(c))

-----------------------------------------------------------------------------
(* Properties.                                                             *)

\* A message that has been settled - answered, refused, cancelled, dropped - is
\* never taken up again, whatever the platform delivers twice and however the
\* commands drain the queue beside the worker.
SettledForGood == [][\A m \in Messages : fate[m] \in Settled => fate'[m] = fate[m]]_vars

\* No message falls between the queue, the worker and a /stop that still has to
\* tell about it, and a queue that is not empty has a worker (_ensure_worker).
NothingFallsThrough ==
  /\ queue # <<>> => phase # "none"
  /\ \A m \in Messages :
       /\ fate[m] = "queued" <=> m \in Elements(queue)
       /\ fate[m] = "running" <=> m = turn.msg /\ phase # "deliver"
       /\ fate[m] = "drained" <=> \E c \in Commands : m \in Elements(drained[c])

\* A turn that /stop named never speaks to the user again, whether the abort
\* succeeds, fails or comes too late (comment of _handle_stop).
StoppedStaysSilent == \A m \in halted : fate[m] \notin {"answered", "failed"}

\* Neither does a turn that was under way when /new bound another session: the
\* binding gate.
GateHolds == \A m \in rotated : fate[m] \notin {"answered", "failed"}

\* Placeholder, notice and segments together stay within the limit of the
\* platform, whichever of the stall and the question come first.
QuotaKept == turn.sent <= ReplyLimit

\* Every message that was taken is settled in the end.
EveryMessageSettles ==
  \A m \in Messages : fate[m] \in {"queued", "running", "drained"} ~> fate[m] \in Settled

-----------------------------------------------------------------------------
(* Claims of the source that the code does not keep (violation runs).      *)

\* "Takes effect at once" (_handle_new, line 488): as long as it exists, the
\* session of the last /new is the one the route is bound to.
NewTakesEffect == chosen \in usable => active = chosen

\* last_assistant_text is "the source of truth of the final result"
\* (turn_gateway.py, line 225): what a message is answered with is its own answer.
OwnAnswer == \A m \in Messages : answer[m] \in {None, m}

=============================================================================
