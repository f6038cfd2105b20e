----------------------------- MODULE QqReplies -----------------------------
(* What the QQ adapter sends on one route: the context it keeps of the     *)
(* message it replies to (channels/adapters/qq_bot.py) and the REST client *)
(* with its cached token (qq_transport.py), against a platform that limits *)
(* the replies to a message and takes no (msg_id, msg_seq) twice.          *)
(*                                                                         *)
(* All of it runs on one event loop: an action is what happens between two *)
(* awaits.  Contexts are keyed by the route, so one stands for all.  The   *)
(* worker of the route and the commands beside it call send_text side by   *)
(* side.                                                                   *)
EXTENDS Integers, FiniteSets

CONSTANTS
  Messages,     \* bound: the messages of the route, numbered as they were sent
  Calls,        \* bound: the calls of send_text, numbered as they begin
  Epochs,       \* bound: the transports the adapter has, one after the other
  Group,        \* the route is that of a member of a group
  Limit,        \* replies the platform allows to a message: ReplyContext.limit
  Overlap,      \* calls of send_text under way at the same time
  MaxRepeats,   \* bound: messages delivered again
  MaxRevokes,   \* bound: tokens revoked
  MaxFaults     \* bound: requests whose answer is lost or useless, sends cancelled

ASSUME BoundsAssumption ==
  /\ Messages \in Nat /\ Calls \in Nat /\ Epochs \in Nat
  /\ MaxRepeats \in Nat /\ MaxRevokes \in Nat /\ MaxFaults \in Nat
ASSUME LimitAssumption == Limit \in Nat \ {0} /\ Overlap \in Nat \ {0}
ASSUME KindAssumption == Group \in BOOLEAN

VARIABLES
  ctx,          \* _contexts: the message, passive_used and next_seq
  came,         \* the newest message delivered
  age,          \* of each message: within the window, past it, past CONTEXT_RETENTION_SECONDS
  link,         \* _transport: the one that is connected, 0: None
  epoch,        \* transports so far
  token,        \* of each transport: QqApiClient._token, 0: none
  lock,         \* of each transport: the call that holds _token_lock, 0: nobody
  call,         \* the calls of send_text
  grant,        \* the platform: the token it accepts
  barred,       \* the platform refuses whatever token
  repeats, faults,
  anew          \* history: messages whose context was begun a second time while they could be replied to

vars == <<ctx, came, age, link, epoch, token, lock, call, grant, barred, repeats, faults, anew>>

Faulty == faults < MaxFaults /\ faults' = faults + 1

-----------------------------------------------------------------------------
(* Contexts and calls.                                                     *)

Numbers == 1..Messages
CallIds == 1..Calls
Links == 1..Epochs

None == [m |-> 0, used |-> 0, seq |-> 1]
Fresh(m) == [m |-> m, used |-> 0, seq |-> 1]

\* pc: where send_text stands; m, seq: the body, m = 0 for a message of our
\* own; astray: addressed to the member instead of the group; e: the transport;
\* key: the token of the request; again: it was retried; got: the platform has
\* taken the message; result: the certainty that is reported.
Unborn == [pc |-> "new", m |-> 0, seq |-> 0, astray |-> FALSE, e |-> 0, key |-> 0,
           again |-> FALSE, got |-> FALSE, result |-> "none"]

UnderWay == {k \in CallIds : call[k].pc \notin {"new", "done"}}

\* A context past its retention is dropped whenever contexts are looked at.
Kept(c) == IF c.m # 0 /\ age[c.m] = "old" THEN None ELSE c

\* passive_allowed.
Passive(c) == c.m # 0 /\ c.used < Limit /\ age[c.m] = "fresh"

\* As if a message that may have been delivered were not charged.
Mutant_Charged(k, c, result) ==
  IF result = "delivered" /\ call[k].m # 0 /\ c.m # 0 THEN [c EXCEPT !.used = @ + 1] ELSE c

\* _consume_passive: whichever message the context is about by now.
Charged(k, c, result) ==
  IF result # "rejected" /\ call[k].m # 0 /\ c.m # 0 THEN [c EXCEPT !.used = @ + 1] ELSE c

\* send_text returns.
Ends(k, result, got) ==
  /\ call' = [call EXCEPT ![k].pc = "done", ![k].e = 0, ![k].key = 0, ![k].again = FALSE,
                          ![k].result = result, ![k].got = got]
  /\ ctx' = Charged(k, ctx, result)

-----------------------------------------------------------------------------
(* Inbound: _handle_event, _remember.  A message delivered again keeps its *)
(* context only if that is still there.                                    *)

\* As if the context of a message that comes again were begun anew.
Mutant_Remembered(m) == Fresh(m)

Remembered(m) == IF Kept(ctx).m = m THEN Kept(ctx) ELSE Fresh(m)

Event(m) ==
  /\ link # 0 /\ m = came + 1
  /\ ctx' = Remembered(m) /\ came' = m
  /\ UNCHANGED <<age, link, epoch, token, lock, call, grant, barred, repeats, faults, anew>>

Repeat(m) ==
  /\ link # 0 /\ m <= came
  /\ repeats < MaxRepeats /\ repeats' = repeats + 1
  /\ ctx' = Remembered(m)
  /\ anew' = IF ctx.m = m \/ age[m] = "old" THEN anew ELSE anew \cup {m}
  /\ UNCHANGED <<came, age, link, epoch, token, lock, call, grant, barred, faults>>

\* Messages of other routes drive out the context, which is the oldest.
Evict ==
  /\ ctx.m # 0 /\ ctx' = None
  /\ UNCHANGED <<came, age, link, epoch, token, lock, call, grant, barred, repeats, faults, anew>>

\* Time passes.  In a direct conversation the window is as long as the
\* retention.
Older(a) == IF a = "fresh" /\ Group THEN "late" ELSE "old"
Ages(m) ==
  /\ m <= came /\ age[m] # "old"
  /\ \A n \in Numbers : n < m => age[n] \in {Older(age[m]), "old"}
  /\ age' = [age EXCEPT ![m] = Older(@)]
  /\ UNCHANGED <<ctx, came, link, epoch, token, lock, call, grant, barred, repeats, faults, anew>>

-----------------------------------------------------------------------------
(* The transport: _connect, _disconnect.  A new one has a client of its    *)
(* own; what is under way goes on with the old one.                        *)

Connect ==
  /\ link = 0 /\ epoch < Epochs
  /\ link' = epoch + 1 /\ epoch' = epoch + 1
  /\ UNCHANGED <<ctx, came, age, token, lock, call, grant, barred, repeats, faults, anew>>

Disconnect ==
  /\ link # 0 /\ link' = 0
  /\ UNCHANGED <<ctx, came, age, epoch, token, lock, call, grant, barred, repeats, faults, anew>>

-----------------------------------------------------------------------------
(* send_text.                                                              *)

\* _plan_delivery, _require_transport.
Planned(c, result, pc) ==
  [pc |-> pc, m |-> IF Passive(c) THEN c.m ELSE 0, seq |-> IF Passive(c) THEN c.seq ELSE 0,
   astray |-> Group /\ c.m = 0, e |-> link, key |-> 0, again |-> FALSE, got |-> FALSE, result |-> result]

\* take_seq.
Taken(c) == IF Passive(c) THEN [c EXCEPT !.seq = @ + 1] ELSE c

\* Whoever sends knows the route from a message (connectivity tests left out).
Begins(k) ==
  /\ came # 0
  /\ call[k].pc = "new" /\ \A j \in CallIds : j < k => call[j].pc # "new"
  /\ Cardinality(UnderWay) < Overlap

Send(k) ==
  /\ Begins(k) /\ link # 0
  /\ ctx' = Taken(Kept(ctx))
  /\ call' = [call EXCEPT ![k] = Planned(Kept(ctx), "none", "lock")]
  /\ UNCHANGED <<came, age, link, epoch, token, lock, grant, barred, repeats, faults, anew>>

\* Without a transport the send fails at once, and counts.
SendsNowhere(k) ==
  /\ Begins(k) /\ link = 0
  /\ call' = [call EXCEPT ![k] = Planned(Kept(ctx), "uncertain", "done")]
  /\ ctx' = IF Passive(Kept(ctx)) THEN [Taken(Kept(ctx)) EXCEPT !.used = @ + 1] ELSE Kept(ctx)
  /\ UNCHANGED <<came, age, link, epoch, token, lock, grant, barred, repeats, faults, anew>>

-----------------------------------------------------------------------------
(* The token: access_token, _invalidate_token.                             *)

At(k, pc) == call[k].pc = pc

\* The lock is free: the token in the cache, or a request for one if there is
\* none or its time is over.
Access(k) ==
  /\ At(k, "lock") /\ lock[call[k].e] = 0
  /\ \/ /\ token[call[k].e] # 0
        /\ call' = [call EXCEPT ![k].pc = "ask", ![k].key = token[call[k].e]]
        /\ UNCHANGED <<lock, token>>
     \/ /\ call' = [call EXCEPT ![k].pc = "fetch"]
        /\ lock' = [lock EXCEPT ![call[k].e] = k]
        /\ token' = [token EXCEPT ![call[k].e] = 0]
  /\ UNCHANGED <<ctx, came, age, link, epoch, grant, barred, repeats, faults, anew>>

Fetched(k) ==
  /\ At(k, "fetch")
  /\ call' = [call EXCEPT ![k].pc = "ask", ![k].key = grant]
  /\ token' = [token EXCEPT ![call[k].e] = grant]
  /\ lock' = [lock EXCEPT ![call[k].e] = 0]
  /\ UNCHANGED <<ctx, came, age, link, epoch, grant, barred, repeats, faults, anew>>

FetchFails(k) ==
  /\ At(k, "fetch") /\ Faulty
  /\ \E result \in {"rejected", "uncertain"} : Ends(k, result, FALSE)
  /\ lock' = [lock EXCEPT ![call[k].e] = 0]
  /\ UNCHANGED <<came, age, link, epoch, token, grant, barred, repeats, anew>>

\* Whatever token is in the cache by now is dropped.
Invalidate(k) ==
  /\ At(k, "void") /\ lock[call[k].e] = 0
  /\ token' = [token EXCEPT ![call[k].e] = 0]
  /\ call' = [call EXCEPT ![k].pc = "lock"]
  /\ UNCHANGED <<ctx, came, age, link, epoch, lock, grant, barred, repeats, faults, anew>>

-----------------------------------------------------------------------------
(* The request, and what the platform makes of it.                         *)

Accepts(k) == call[k].key = grant /\ ~barred

\* A reply is taken within the window, below the limit, and once per number.
GotReplies(m) == {j \in CallIds : call[j].got /\ call[j].m = m}
Acceptable(k) ==
  call[k].m # 0 =>
     /\ age[call[k].m] = "fresh"
     /\ Cardinality(GotReplies(call[k].m)) < Limit
     /\ \A j \in GotReplies(call[k].m) : call[j].seq # call[k].seq

\* 200 with a body: delivered.
Delivered(k) ==
  /\ At(k, "ask") /\ Accepts(k) /\ Acceptable(k)
  /\ Ends(k, "delivered", TRUE)
  /\ UNCHANGED <<came, age, link, epoch, token, lock, grant, barred, repeats, faults, anew>>

\* 403, 404, 429.
Refused(k) ==
  /\ At(k, "ask") /\ Accepts(k)
  /\ Ends(k, "rejected", FALSE)
  /\ UNCHANGED <<came, age, link, epoch, token, lock, grant, barred, repeats, faults, anew>>

\* Other codes, an answer that cannot be read, none at all.
Unclear(k) ==
  /\ At(k, "ask") /\ Faulty
  /\ \E got \in BOOLEAN : (got => Accepts(k) /\ Acceptable(k)) /\ Ends(k, "uncertain", got)
  /\ UNCHANGED <<came, age, link, epoch, token, lock, grant, barred, repeats, anew>>

\* 401: once more with a new token.
Unauthorised(k) ==
  /\ At(k, "ask") /\ ~Accepts(k)
  /\ IF call[k].again
       THEN Ends(k, "rejected", FALSE)
       ELSE call' = [call EXCEPT ![k].pc = "void", ![k].key = 0, ![k].again = TRUE] /\ UNCHANGED ctx
  /\ UNCHANGED <<came, age, link, epoch, token, lock, grant, barred, repeats, faults, anew>>

\* The call is cancelled, which send_text does not catch: nothing is charged,
\* though the platform may have the message.
Cut(k) ==
  /\ k \in UnderWay /\ Faulty
  /\ \E got \in BOOLEAN :
       /\ got => At(k, "ask") /\ Accepts(k) /\ Acceptable(k)
       /\ call' = [call EXCEPT ![k].pc = "done", ![k].e = 0, ![k].key = 0, ![k].again = FALSE,
                               ![k].result = "cut", ![k].got = got]
  /\ lock' = [lock EXCEPT ![call[k].e] = IF @ = k THEN 0 ELSE @]
  /\ UNCHANGED <<ctx, came, age, link, epoch, token, grant, barred, repeats, anew>>

Revoke ==
  /\ grant <= MaxRevokes /\ ~barred /\ grant' = grant + 1
  /\ UNCHANGED <<ctx, came, age, link, epoch, token, lock, call, barred, repeats, faults, anew>>

Bar ==
  /\ ~barred /\ grant <= MaxRevokes /\ barred' = TRUE
  /\ UNCHANGED <<ctx, came, age, link, epoch, token, lock, call, grant, repeats, faults, anew>>

-----------------------------------------------------------------------------

Init ==
  /\ ctx = None /\ came = 0 /\ age = [m \in Numbers |-> "fresh"]
  /\ link = 0 /\ epoch = 0
  /\ token = [e \in Links |-> 0] /\ lock = [e \in Links |-> 0]
  /\ call = [k \in CallIds |-> Unborn]
  /\ grant = 1 /\ barred = FALSE /\ repeats = 0 /\ faults = 0 /\ anew = {}

CallStep(k) ==
  \/ Access(k) \/ Fetched(k) \/ FetchFails(k) \/ Invalidate(k)
  \/ Delivered(k) \/ Refused(k) \/ Unclear(k) \/ Unauthorised(k) \/ Cut(k)

Next ==
  \/ \E m \in Numbers : Event(m) \/ Repeat(m) \/ Ages(m)
  \/ Evict \/ Connect \/ Disconnect \/ Revoke \/ Bar
  \/ \E k \in CallIds : Send(k) \/ SendsNowhere(k) \/ CallStep(k)

Spec == Init /\ [][Next]_vars

-----------------------------------------------------------------------------
(* Properties.                                                             *)

Results == {"none", "delivered", "rejected", "uncertain", "cut"}
CallRecord ==
  [pc : {"new", "lock", "fetch", "void", "ask", "done"}, m : 0..Messages, seq : Nat, astray : BOOLEAN,
   e : 0..Epochs, key : Nat, again : BOOLEAN, got : BOOLEAN, result : Results]

\* The types of the variables, and whose the lock is.
TypeOK ==
  /\ ctx \in [m : 0..Messages, used : Nat, seq : Nat \ {0}]
  /\ came \in 0..Messages /\ age \in [Numbers -> {"fresh", "late", "old"}]
  /\ epoch \in 0..Epochs /\ link \in {0, epoch}
  /\ token \in [Links -> Nat] /\ lock \in [Links -> 0..Calls]
  /\ call \in [CallIds -> CallRecord]
  /\ grant \in Nat \ {0} /\ barred \in BOOLEAN
  /\ repeats \in 0..MaxRepeats /\ faults \in 0..MaxFaults /\ anew \in SUBSET Numbers

Reused(m) ==
  \E j, k \in CallIds : j # k /\ call[j].m = m /\ call[k].m = m /\ call[j].seq = call[k].seq

\* No two sends carry the same message and number, whatever is delivered
\* again, disconnected or pruned in between: the platform would refuse the
\* second (_remember, take_seq).  Excepted are the messages whose context was
\* replaced or evicted and begun anew when they came again.
NumbersAreOwn == \A m \in Numbers \ anew : ~Reused(m)

\* The comment of _remember: counts and numbers are never reset.
NumbersAreNeverReset == \A m \in Numbers : ~Reused(m)

\* The sends that count for the platform, or may; those that were cancelled,
\* which nobody charges, come on top.
Counting(m) == {k \in CallIds : call[k].m = m /\ call[k].result \notin {"rejected", "cut"}}

\* The replies to a message exceed the limit by no more than the sends that
\* were under way together: each looks at the count before its await and adds
\* to it after (_plan_delivery, _consume_passive).  The exception is the same.
LimitKept == \A m \in Numbers \ anew : Cardinality(Counting(m)) <= Limit + Overlap - 1

\* What is reported is so: a rejected message has not reached the user, whom
\* a repetition would annoy, and a delivered one has (translate_http_status,
\* the retry of a 401).
VerdictsAreHonest ==
  \A k \in CallIds :
    /\ call[k].result = "delivered" => call[k].got
    /\ call[k].result = "rejected" => ~call[k].got

\* No more is charged to a message than was sent in reply to it
\* (_consume_passive: replies share the limit of their message).
NothingOvercharged == ctx.m # 0 => ctx.used <= Cardinality(Counting(ctx.m))

\* In a group nothing is addressed to the member who asked
\* (_handle_event: without a target, rather no reply than one to the sender).
NothingAstray == \A k \in CallIds : ~call[k].astray

=============================================================================
