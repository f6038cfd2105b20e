------------------------ MODULE SessionStreamsProofs ------------------------
(* Proofs about SessionStreams.                                            *)
EXTENDS SessionStreams, SequenceTheorems, FiniteSetTheorems, TLAPS

-----------------------------------------------------------------------------
(* Types.                                                                  *)

\* A queue of the registry, or a link, is a sequence: what is appended and
\* what is taken is of its type.
LEMMA BroadcastType ==
  ASSUME NEW h \in Registries, NEW e \in Reports \cup {End}
  PROVE  Broadcast(h, e) \in [Requests -> Seq(Reports \cup {End})]
BY AppendProperties DEF Broadcast, Registries

LEMMA EndStreamType ==
  ASSUME NEW h \in Registries
  PROVE  EndStream(h) \in Registries
<1>1. Broadcast(h, End) \in [Requests -> Seq(Reports \cup {End})]
  BY BroadcastType
<1> QED
  BY <1>1 DEF EndStream, Registries

LEMMA StartStreamType ==
  ASSUME NEW h \in Registries
  PROVE  StartStream(h) \in Registries
<1>1. EndStream(h) \in Registries
  BY EndStreamType
<1>2. <<>> \in Seq(Reports)
  OBVIOUS
<1>3. EndStream(h).gen + 1 \in Nat
  BY <1>1 DEF Registries
<1>4. \A r \in Registries : r.gen + 1 \in Nat =>
        [r EXCEPT !.gen = @ + 1, !.listed = TRUE, !.subs = {}, !.buffer = <<>>, !.ended = FALSE] \in Registries
  BY <1>2 DEF Registries
<1> QED
  BY <1>1, <1>3, <1>4 DEF StartStream

LEMMA PushEventType ==
  ASSUME NEW h \in Registries, NEW g, NEW e \in Reports
  PROVE  PushEvent(h, g, e) \in Registries
<1>1. Broadcast(h, e) \in [Requests -> Seq(Reports \cup {End})]
  BY BroadcastType
<1>2. Append(h.buffer, e) \in Seq(Reports)
  BY AppendProperties DEF Registries
<1> QED
  BY <1>1, <1>2 DEF PushEvent, Registries

LEMMA SubscribeType ==
  ASSUME NEW h \in Registries, NEW q \in Requests
  PROVE  Subscribe(h, q) \in Registries
BY DEF Subscribe, Registries

LEMMA CleanupType ==
  ASSUME NEW h \in Registries
  PROVE  Cleanup(h) \in Registries
<1>1. <<>> \in Seq(Reports)
  OBVIOUS
<1> QED
  BY <1>1 DEF Cleanup, Registries

LEMMA ToClientType ==
  ASSUME NEW l \in [Turns -> Links], NEW k \in Turns, NEW e \in Messages
  PROVE  ToClient(l, k, e) \in [Turns -> Links]
<1>1. l[k] \in Links /\ l[k].events \in Seq(Messages)
  BY DEF Links
<1>2. Append(l[k].events, e) \in Seq(Messages)
  BY <1>1, AppendProperties
<1>3. [l[k] EXCEPT !.events = Append(@, e)] \in Links
  BY <1>1, <1>2 DEF Links
<1> QED
  BY <1>3 DEF ToClient

LEMMA PopType ==
  ASSUME NEW l \in [Turns -> Links], NEW k \in Turns, l[k].events # <<>>
  PROVE  Pop(l, k) \in [Turns -> Links]
<1>1. l[k] \in Links /\ l[k].events \in Seq(Messages)
  BY DEF Links
<1>2. Tail(l[k].events) \in Seq(Messages)
  BY <1>1, HeadTailProperties
<1>3. [l[k] EXCEPT !.events = Tail(@)] \in Links
  BY <1>1, <1>2 DEF Links
<1> QED
  BY <1>3 DEF Pop

LEMMA CloseLinkType ==
  ASSUME NEW l \in [Turns -> Links], ws \in [Clients -> Sockets], NEW c \in Clients, ws[c].conn # None
  PROVE  CloseLink(l, c) \in [Turns -> Links]
<1>1. ws[c].conn \in Turns
  BY DEF Sockets
<1>2. [l[ws[c].conn] EXCEPT !.state = "closing"] \in Links
  BY <1>1 DEF Links
<1> QED
  BY <1>1, <1>2 DEF CloseLink

\* A row rewritten in place.
LEMMA RowsRewritten ==
  ASSUME NEW rs \in Seq(Rows), NEW f, f = [i \in DOMAIN rs |-> f[i]], \A i \in DOMAIN rs : f[i] \in Rows
  PROVE  f \in Seq(Rows)
<1>1. DOMAIN rs = 1..Len(rs) /\ Len(rs) \in Nat
  BY LenProperties
<1>2. f \in [1..Len(rs) -> Rows]
  BY <1>1
<1> QED
  BY <1>1, <1>2, SeqDef

LEMMA SetStatusType ==
  ASSUME NEW rs \in Seq(Rows), NEW t, NEW s \in RowStates
  PROVE  SetStatus(rs, t, s) \in Seq(Rows)
<1>1. \A i \in DOMAIN rs : rs[i] \in Rows
  BY LenProperties, ElementOfSeq
<1>2. \A r \in Rows : [r EXCEPT !.status = s] \in Rows
  BY DEF Rows
<1>3. \A i \in DOMAIN rs : SetStatus(rs, t, s)[i] \in Rows
  BY <1>1, <1>2 DEF SetStatus
<1> QED
  BY <1>3, RowsRewritten DEF SetStatus

LEMMA CompleteType ==
  ASSUME NEW rs \in Seq(Rows), NEW t
  PROVE  Complete(rs, t) \in Seq(Rows)
<1>1. \A i \in DOMAIN rs : rs[i] \in Rows
  BY LenProperties, ElementOfSeq
<1>2. \A r \in Rows : [r EXCEPT !.status = "completed"] \in Rows
  BY DEF Rows, RowStates
<1>3. \A i \in DOMAIN rs : Complete(rs, t)[i] \in Rows
  BY <1>1, <1>2 DEF Complete
<1> QED
  BY <1>3, RowsRewritten DEF Complete

\* What is left without one row: its neighbours close up.
LEMMA WithoutType ==
  ASSUME NEW rs \in Seq(Rows), NEW x
  PROVE  /\ Without(rs, x) \in Seq(Rows)
         /\ \A y : HasRow(rs, y) /\ y # x => HasRow(Without(rs, x), y)
<1>1. CASE ~HasRow(rs, x)
  BY <1>1 DEF Without
<1>2. CASE HasRow(rs, x)
  <2> DEFINE p == CHOOSE i \in DOMAIN rs : rs[i].id = x
  <2>1. DOMAIN rs = 1..Len(rs) /\ Len(rs) \in Nat /\ \A i \in 1..Len(rs) : rs[i] \in Rows
    BY LenProperties, ElementOfSeq
  <2>2. p \in 1..Len(rs) /\ rs[p].id = x
    BY <1>2, <2>1 DEF HasRow
  <2> HIDE DEF p
  <2> DEFINE a == SubSeq(rs, 1, p - 1)
             b == SubSeq(rs, p + 1, Len(rs))
  <2>3. a \in Seq(Rows) /\ Len(a) = p - 1 /\ \A i \in 1..(p - 1) : a[i] = rs[i]
    BY <2>1, <2>2, SubSeqProperties
  <2>4. b \in Seq(Rows) /\ Len(b) = Len(rs) - p /\ \A i \in 1..(Len(rs) - p) : b[i] = rs[p + i]
    <3>1. p + 1 \in Int /\ Len(rs) \in Int /\ \A i \in (p + 1)..Len(rs) : rs[i] \in Rows
      BY <2>1, <2>2
    <3>2. /\ b \in Seq(Rows) /\ Len(b) = IF p + 1 <= Len(rs) THEN Len(rs) - (p + 1) + 1 ELSE 0
          /\ \A i \in 1..(Len(rs) - (p + 1) + 1) : b[i] = rs[p + 1 + i - 1]
      BY <3>1, SubSeqProperties
    <3> HIDE DEF b
    <3>3. Len(rs) - (p + 1) + 1 = Len(rs) - p /\ \A i \in Nat : p + 1 + i - 1 = p + i
      BY <2>1, <2>2
    <3> QED
      <4>1. Len(b) = Len(rs) - p
        <5>1. \A m, n \in Int : m <= n => (IF m + 1 <= n THEN n - (m + 1) + 1 ELSE 0) = n - m
          OBVIOUS
        <5>2. p \in Int /\ Len(rs) \in Int /\ p <= Len(rs)
          BY <2>1, <2>2
        <5> QED
          BY <3>2, <5>1, <5>2
      <4>2. ASSUME NEW i \in 1..(Len(rs) - p) PROVE b[i] = rs[p + i]
        <5>1. i \in Nat /\ i \in 1..(Len(rs) - (p + 1) + 1)
          BY <3>3, <4>2
        <5> QED
          BY <3>2, <3>3, <5>1
      <4> QED
        BY <3>2, <4>1, <4>2
  <2>5. Without(rs, x) = a \o b
    BY <1>2 DEF Without, RemoveAt, p
  <2> HIDE DEF a, b
  <2>6. /\ a \o b \in Seq(Rows) /\ Len(a \o b) = Len(rs) - 1
        /\ \A i \in 1..(Len(rs) - 1) : (a \o b)[i] = IF i <= p - 1 THEN a[i] ELSE b[i - (p - 1)]
    <3>1. Len(a) + Len(b) = Len(rs) - 1
      BY <2>1, <2>2, <2>3, <2>4
    <3>2. /\ a \o b \in Seq(Rows) /\ Len(a \o b) = Len(a) + Len(b)
          /\ \A i \in 1..(Len(a) + Len(b)) : (a \o b)[i] = IF i <= Len(a) THEN a[i] ELSE b[i - Len(a)]
      BY <2>3, <2>4, ConcatProperties
    <3> QED
      BY <2>3, <3>1, <3>2
  <2>7. ASSUME NEW y, HasRow(rs, y), y # x
        PROVE  HasRow(a \o b, y)
    <3>1. PICK i \in 1..Len(rs) : rs[i].id = y
      BY <2>1, <2>7 DEF HasRow
    <3>2. DOMAIN (a \o b) = 1..(Len(rs) - 1)
      BY <2>6, LenProperties
    <3>3. CASE i < p
      <4>1. i \in 1..(Len(rs) - 1) /\ i \in 1..(p - 1) /\ i <= p - 1
        BY <2>1, <2>2, <3>1, <3>3
      <4>2. (a \o b)[i] = rs[i]
        BY <2>3, <2>6, <4>1
      <4> QED
        BY <3>1, <3>2, <4>1, <4>2 DEF HasRow
    <3>4. CASE i > p
      <4>1. /\ i - 1 \in 1..(Len(rs) - 1) /\ ~(i - 1 <= p - 1)
            /\ i - 1 - (p - 1) \in 1..(Len(rs) - p) /\ p + (i - 1 - (p - 1)) = i
        BY <2>1, <2>2, <3>1, <3>4
      <4>2. (a \o b)[i - 1] = b[i - 1 - (p - 1)]
        BY <2>6, <4>1
      <4>3. b[i - 1 - (p - 1)] = rs[i]
        BY <2>4, <4>1
      <4> QED
        BY <3>1, <3>2, <4>1, <4>2, <4>3 DEF HasRow
    <3> QED
      BY <2>2, <2>7, <3>1, <3>3, <3>4
  <2> QED
    BY <2>5, <2>6, <2>7
<1> QED
  BY <1>1, <1>2

LEMMA CreateRowType ==
  ASSUME NEW rs \in Seq(Rows), NEW t \in Turns, NEW x
  PROVE  /\ CreateRow(rs, t, x) \in Seq(Rows)
         /\ HasRow(CreateRow(rs, t, x), t)
         /\ \A y : HasRow(rs, y) /\ y # x => HasRow(CreateRow(rs, t, x), y)
<1> DEFINE ws0 == Without(rs, x)
           row == [id |-> t, status |-> "generating", stamped |-> FALSE]
<1>1. ws0 \in Seq(Rows) /\ \A y : HasRow(rs, y) /\ y # x => HasRow(ws0, y)
  BY WithoutType
<1>2. row \in Rows
  BY DEF Rows, RowStates
<1>3. CreateRow(rs, t, x) = Append(ws0, row)
  BY DEF CreateRow
<1> HIDE DEF ws0
<1>4. /\ Append(ws0, row) \in Seq(Rows) /\ Len(Append(ws0, row)) = Len(ws0) + 1
      /\ \A i \in 1..Len(ws0) : Append(ws0, row)[i] = ws0[i]
      /\ Append(ws0, row)[Len(ws0) + 1] = row
  BY <1>1, <1>2, AppendProperties
<1>5. DOMAIN ws0 = 1..Len(ws0) /\ Len(ws0) \in Nat /\ DOMAIN Append(ws0, row) = 1..(Len(ws0) + 1)
  BY <1>1, <1>4, LenProperties
<1>6. \A y : HasRow(ws0, y) => HasRow(Append(ws0, row), y)
  BY <1>4, <1>5 DEF HasRow
<1>7. HasRow(Append(ws0, row), t)
  <2>1. Len(ws0) + 1 \in DOMAIN Append(ws0, row)
    BY <1>5
  <2> QED
    BY <1>4, <2>1 DEF HasRow
<1> QED
  BY <1>1, <1>3, <1>4, <1>6, <1>7

\* None names nothing.
LEMMA NoneIsNothing ==
  None \notin Turns \cup Readers \cup Aborts \cup Clients \cup Requests \cup Nat \cup History
BY NamesAssumption DEF Clients, Requests

LEMMA EventTypes ==
  ASSUME NEW t \in Turns, NEW n \in Nat
  PROVE  /\ \A kind \in {"delta", "completed", "error", "fault"} : Event(t, kind, n) \in Reports
         /\ \A kind \in {"running", "idle", "delta", "completed", "error"} : Event(t, kind, n) \in Messages
BY DEF Event, Reports, Messages

-----------------------------------------------------------------------------
(* The requests of a turn keep the types.                                  *)

LEMMA PrepareType ==
  ASSUME TypeOK, NEW t \in Turns, NEW h \in Registries, NEW g \in Nat \cup {None}, Prepare(t, h, g)
  PROVE  /\ pool' \in Clients
         /\ client' = [client EXCEPT ![t] = pool']
         /\ turn' \in [Turns -> TurnStates]
         /\ \A u \in Turns \ {t} : turn'[u] = turn[u]
         /\ hub' \in Registries
         /\ gen' \in [Turns -> Nat \cup {None}]
         /\ link' \in [Turns -> Links]
<1> DEFINE c == IF pool = None THEN t ELSE pool
<1>1. c \in Clients
  BY DEF TypeOK, Clients
<1>2. pool' = c /\ client' = [client EXCEPT ![t] = c]
  BY DEF Prepare
<1>3. turn' \in [Turns -> TurnStates]
  BY DEF Prepare, TypeOK, TurnStates
<1>4. \A u \in Turns \ {t} : turn'[u] = turn[u]
  BY DEF Prepare, TypeOK
<1>5. hub' \in Registries
  BY EndStreamType DEF Prepare, ReleaseStream
<1>6. gen' \in [Turns -> Nat \cup {None}]
  BY DEF Prepare, TypeOK
<1> HIDE DEF c
<1>7. link' \in [Turns -> Links]
  <2>1. CASE ~CanSend(c)
    BY <2>1 DEF Prepare, TypeOK, c
  <2>2. CASE CanSend(c)
    <3> DEFINE k == ws[c].conn
    <3>1. k \in Turns
      BY <1>1, <2>2 DEF CanSend, TypeOK, Sockets
    <3>2. link' = [link EXCEPT ![k].frames = Append(@, t)]
      BY <2>2 DEF Prepare, c
    <3> HIDE DEF k
    <3>3. link[k] \in Links /\ link[k].frames \in Seq(Turns)
      BY <3>1 DEF TypeOK, Links
    <3>4. Append(link[k].frames, t) \in Seq(Turns)
      BY <3>3, AppendProperties
    <3>5. [link[k] EXCEPT !.frames = Append(@, t)] \in Links
      BY <3>3, <3>4 DEF Links
    <3> QED
      BY <3>1, <3>2, <3>5 DEF TypeOK
  <2> QED
    BY <2>1, <2>2
<1> QED
  BY <1>1, <1>2, <1>3, <1>4, <1>5, <1>6, <1>7

LEMMA SendMessageType ==
  ASSUME TypeOK, NEW t \in Turns, SendMessage(t)
  PROVE  TypeOK'
<1>1. hub \in Registries /\ Prepare(t, hub, None)
  BY DEF TypeOK, SendMessage
<1>2. /\ pool' \in Clients
      /\ client' = [client EXCEPT ![t] = pool']
      /\ turn' \in [Turns -> TurnStates]
      /\ \A u \in Turns \ {t} : turn'[u] = turn[u]
      /\ hub' \in Registries
      /\ gen' \in [Turns -> Nat \cup {None}]
      /\ link' \in [Turns -> Links]
  BY <1>1, PrepareType
<1>3. UNCHANGED <<target, consumer, source, others, got, ws, db, server, faults>>
  BY DEF SendMessage
<1>4. client' \in [Clients -> Clients \cup {None}] /\ client'[t] # None /\ t \in Clients
  BY <1>2, NoneIsNothing DEF TypeOK, Clients
<1>5. \A u \in Clients : client[u] # None => client'[u] # None
  BY <1>2, <1>4 DEF TypeOK
<1>6. Turns \subseteq Clients /\ Aborts \subseteq Clients
  BY DEF Clients
<1> QED
  BY <1>2, <1>3, <1>4, <1>5, <1>6 DEF TypeOK, others, db, server

LEMMA RegenerateType ==
  ASSUME TypeOK, NEW t \in Turns, Regenerate(t)
  PROVE  TypeOK'
<1> DEFINE h0 == StartStream(hub)
<1>1. h0 \in Registries /\ h0.gen \in Nat
  BY StartStreamType DEF TypeOK, Registries
<1>2. UNCHANGED <<consumer, source, others, got, ws, db, server, faults>> /\ turn[t] = "new"
  BY DEF Regenerate
<1>3. Turns \subseteq Clients /\ Aborts \subseteq Clients
  BY DEF Clients
<1> HIDE DEF h0
<1>4. CASE turn' = [turn EXCEPT ![t] = "refused"] /\ UNCHANGED <<client, gen, target, pool, link>> /\ hub' \in Registries
  <2>1. turn' \in [Turns -> TurnStates] /\ \A u \in Turns : turn'[u] \in {"connecting", "sending"} => turn[u] = turn'[u]
    BY <1>4 DEF TypeOK, TurnStates
  <2> QED
    BY <1>2, <1>4, <2>1 DEF TypeOK, others, db, server
<1>5. CASE rows # <<>> /\ target' = [target EXCEPT ![t] = LastRow] /\ Prepare(t, h0, h0.gen)
  <2>1. /\ pool' \in Clients
        /\ client' = [client EXCEPT ![t] = pool']
        /\ turn' \in [Turns -> TurnStates]
        /\ \A u \in Turns \ {t} : turn'[u] = turn[u]
        /\ hub' \in Registries
        /\ gen' \in [Turns -> Nat \cup {None}]
        /\ link' \in [Turns -> Links]
    BY <1>1, <1>5, PrepareType
  <2>2. LastRow \in History \cup Turns
    <3>1. Len(rows) \in 1..Len(rows)
      BY <1>5, EmptySeq DEF TypeOK
    <3>2. rows[Len(rows)] \in Rows
      BY <3>1, ElementOfSeq DEF TypeOK
    <3> QED
      BY <1>5, <3>2 DEF LastRow, Rows
  <2>3. target' \in [Turns -> History \cup Turns \cup {None}]
    BY <1>5, <2>2 DEF TypeOK
  <2>4. client' \in [Clients -> Clients \cup {None}] /\ client'[t] # None /\ t \in Clients
    BY <2>1, NoneIsNothing DEF TypeOK, Clients
  <2>5. \A u \in Clients : client[u] # None => client'[u] # None
    BY <2>1, <2>4 DEF TypeOK
  <2> QED
    BY <1>2, <1>3, <2>1, <2>3, <2>4, <2>5 DEF TypeOK, others, db, server
<1>6. hub \in Registries /\ ReleaseStream(h0, h0.gen) \in Registries
  BY <1>1, EndStreamType DEF TypeOK, ReleaseStream
<1> QED
  BY <1>4, <1>5, <1>6 DEF Regenerate, h0

\* A call that waits has the client it waits for.
LEMMA ItsClient ==
  ASSUME TypeOK
  PROVE  /\ \A t \in Turns : turn[t] \in {"connecting", "sending"} \/ consumer[t] # "none" => client[t] \in Clients
         /\ \A a \in Aborts : abort[a] = "closing" => client[a] \in Clients
BY DEF TypeOK, Clients

LEMMA ConnectedType ==
  ASSUME TypeOK, NEW t \in Turns, Connected(t)
  PROVE  TypeOK'
<1>1. client[t] \in Clients
  BY ItsClient DEF Connected
<1>2. ws' \in [Clients -> Sockets]
  BY <1>1 DEF Connected, TypeOK, Sockets
<1>3. <<t>> \in Seq(Turns)
  OBVIOUS
<1>4. [link[t] EXCEPT !.state = "open", !.server = "accepted", !.frames = <<t>>] \in Links
  <2>1. link[t] \in Links
    BY DEF TypeOK
  <2> QED
    BY <1>3, <2>1 DEF Links
<1>5. link' \in [Turns -> Links]
  BY <1>4 DEF Connected, TypeOK
<1>6. /\ turn' \in [Turns -> TurnStates]
      /\ \A u \in Turns : turn'[u] \in {"connecting", "sending"} => turn[u] \in {"connecting", "sending"}
  BY DEF Connected, TypeOK, TurnStates
<1> QED
  BY <1>2, <1>5, <1>6 DEF TypeOK, Connected, others, db, server

LEMMA CallFailsType ==
  ASSUME TypeOK, NEW t \in Turns, CallFails(t)
  PROVE  TypeOK'
<1>1. hub' \in Registries
  BY EndStreamType DEF CallFails, TypeOK, ReleaseStream
<1>2. /\ turn' \in [Turns -> TurnStates]
      /\ \A u \in Turns : turn'[u] \in {"connecting", "sending"} => turn[u] \in {"connecting", "sending"}
  BY DEF CallFails, TypeOK, TurnStates
<1> QED
  BY <1>1, <1>2 DEF TypeOK, CallFails, others, db, server

LEMMA HandOverType ==
  ASSUME TypeOK, NEW t \in Turns, HandOver(t)
  PROVE  TypeOK'
<1> DEFINE h0 == IF gen[t] = None THEN StartStream(hub) ELSE hub
<1>1. h0 \in Registries /\ h0.gen \in Nat
  BY StartStreamType DEF TypeOK, Registries
<1> HIDE DEF h0
<1>2. hub' \in Registries
  BY <1>1, SubscribeType DEF HandOver, h0, Requests
<1>3. gen' \in [Turns -> Nat \cup {None}]
  BY <1>1 DEF HandOver, h0, TypeOK
<1>4. /\ turn' \in [Turns -> TurnStates]
      /\ \A u \in Turns : turn'[u] \in {"connecting", "sending"} => turn[u] \in {"connecting", "sending"}
  BY DEF HandOver, TypeOK, TurnStates
<1>5. client[t] # None /\ UNCHANGED client
  BY DEF HandOver, TypeOK
<1>6. /\ consumer' \in [Turns -> Alive \cup {"none", "closing", "done"}]
      /\ consumer'[t] = "created"
      /\ \A u \in Turns \ {t} : consumer'[u] = consumer[u]
  BY DEF HandOver, TypeOK, Alive
<1> QED
  BY <1>2, <1>3, <1>4, <1>5, <1>6 DEF TypeOK, HandOver, others, db, server

-----------------------------------------------------------------------------
(* The consumer keeps the types.                                           *)

LEMMA FinallyType ==
  ASSUME TypeOK, NEW t \in Turns, consumer[t] # "none",
         NEW h \in Registries, NEW l \in [Turns -> Links], NEW w \in [Clients -> Sockets],
         \A c \in Clients : w[c].conn = ws[c].conn,
         Finally(t, h, l, w)
  PROVE  /\ hub' \in Registries
         /\ consumer' \in [Turns -> Alive \cup {"none", "closing", "done"}]
         /\ consumer'[t] \in {"closing", "done"}
         /\ \A u \in Turns \ {t} : consumer'[u] = consumer[u]
         /\ ws' \in [Clients -> Sockets]
         /\ link' \in [Turns -> Links]
         /\ pool' \in Clients \cup {None}
<1>1. client[t] \in Clients
  BY ItsClient
<1>2. hub' \in Registries
  BY EndStreamType, CleanupType DEF Finally
<1>3. CASE w[client[t]].conn = None
  BY <1>1, <1>2, <1>3 DEF Finally, TypeOK
<1>4. CASE w[client[t]].conn # None
  <2>1. CloseLink(l, client[t]) \in [Turns -> Links]
    BY <1>1, <1>4, CloseLinkType DEF TypeOK
  <2>2. [w EXCEPT ![client[t]].up = FALSE] \in [Clients -> Sockets]
    BY <1>1 DEF Sockets
  <2> QED
    BY <1>1, <1>2, <1>4, <2>1, <2>2 DEF Finally, TypeOK
<1> QED
  BY <1>3, <1>4

\* What a step of a consumer leaves of the types.
ConsumerTypes(t) ==
  /\ hub' \in Registries
  /\ consumer' \in [Turns -> Alive \cup {"none", "closing", "done"}]
  /\ \A u \in Turns \ {t} : consumer'[u] = consumer[u]
  /\ source' \in [Turns -> Turns \cup {None}]
  /\ \A u \in Turns : source[u] # None => source'[u] # None
  /\ consumer'[t] \in {"waiting", "yielded"} => source'[t] # None
  /\ ws' \in [Clients -> Sockets]
  /\ link' \in [Turns -> Links]
  /\ pool' \in Clients \cup {None}
  /\ rows' \in Seq(Rows)
  /\ status' \in {"idle", "running", "error"}

LEMMA ConsumerSteps ==
  ASSUME TypeOK, NEW t \in Turns, consumer[t] # "none", ConsumerTypes(t),
         UNCHANGED <<turn, gen, target, client, others, got, server, faults>>
  PROVE  TypeOK'
BY DEF TypeOK, ConsumerTypes, others, server

LEMMA FaultType ==
  ASSUME TypeOK, NEW t \in Turns, consumer[t] # "none",
         NEW w \in [Clients -> Sockets], \A c \in Clients : w[c].conn = ws[c].conn,
         Fault(t, w), UNCHANGED source
  PROVE  ConsumerTypes(t)
<1> DEFINE h == PushEvent(hub, gen[t], Event(t, "fault", 0))
<1>1. h \in Registries
  BY EventTypes, PushEventType DEF TypeOK
<1> HIDE DEF h
<1>2. link \in [Turns -> Links] /\ Finally(t, h, link, w)
  BY DEF Fault, h, TypeOK
<1>3. /\ hub' \in Registries
      /\ consumer' \in [Turns -> Alive \cup {"none", "closing", "done"}]
      /\ consumer'[t] \in {"closing", "done"}
      /\ \A u \in Turns \ {t} : consumer'[u] = consumer[u]
      /\ ws' \in [Clients -> Sockets]
      /\ link' \in [Turns -> Links]
      /\ pool' \in Clients \cup {None}
  BY <1>1, <1>2, FinallyType
<1>4. rows' \in Seq(Rows)
  BY SetStatusType DEF Fault, TypeOK, RowStates
<1>5. status' \in {"idle", "running", "error"}
  BY DEF Fault, TypeOK, IdleAgain
<1>6. UNCHANGED source /\ source \in [Turns -> Turns \cup {None}]
  BY DEF TypeOK
<1> QED
  BY <1>3, <1>4, <1>5, <1>6 DEF ConsumerTypes

LEMMA IterateType ==
  ASSUME TypeOK, NEW t \in Turns, consumer[t] # "none", NEW k \in Turns, Iterate(t, k)
  PROVE  ConsumerTypes(t)
<1>1. CASE Receiving(k)
  BY <1>1, FaultType DEF Iterate, TypeOK
<1>2. CASE ~Receiving(k)
  <2>1. UNCHANGED <<hub, rows, status, ws, link, pool>>
    BY <1>2 DEF Iterate, db
  <2>2. consumer' = [consumer EXCEPT ![t] = "waiting"] /\ source' = [source EXCEPT ![t] = k] /\ k # None
    BY <1>2, NoneIsNothing DEF Iterate
  <2> QED
    BY <2>1, <2>2 DEF TypeOK, ConsumerTypes, Alive
<1> QED
  BY <1>1, <1>2

LEMMA ListenType ==
  ASSUME TypeOK, NEW t \in Turns, Listen(t)
  PROVE  TypeOK'
<1>1. consumer[t] # "none" /\ client[t] \in Clients
  BY ItsClient DEF Listen
<1>2. ConsumerTypes(t)
  BY <1>1, IterateType, FaultType DEF Listen, TypeOK, Sockets
<1> QED
  BY <1>1, <1>2, ConsumerSteps DEF Listen

LEMMA ResumeType ==
  ASSUME TypeOK, NEW t \in Turns, Resume(t)
  PROVE  TypeOK'
<1>1. consumer[t] # "none" /\ source[t] \in Turns
  BY DEF Resume, TypeOK
<1>2. ConsumerTypes(t)
  BY <1>1, IterateType DEF Resume
<1> QED
  BY <1>1, <1>2, ConsumerSteps DEF Resume

\* The row of a turn that has none yet is created.
LEMMA WithRowType ==
  ASSUME NEW rs \in Seq(Rows), rs = rows, NEW t \in Turns
  PROVE  WithRow(t) \in Seq(Rows)
BY CreateRowType DEF WithRow

LEMMA ReceiveType ==
  ASSUME TypeOK, NEW t \in Turns, Receive(t)
  PROVE  TypeOK'
<1> DEFINE k == source[t]
           e == Head(link[k].events)
<1> HIDE DEF k, e
<1>1. /\ consumer[t] # "none" /\ k \in Turns /\ link[k].events # <<>>
      /\ UNCHANGED <<turn, gen, target, client, source, others, got, server, faults>>
      /\ UNCHANGED source /\ source \in [Turns -> Turns \cup {None}] /\ source[t] # None
  BY DEF Receive, TypeOK, k
<1>0. SUFFICES ConsumerTypes(t)
  BY <1>1, ConsumerSteps
<1>2. Pop(link, k) \in [Turns -> Links]
  BY <1>1, PopType DEF TypeOK
<1>3. e \in Messages
  BY <1>1, HeadTailProperties DEF TypeOK, Links, e
<1>4. StateEvent(t, e) \/ ErrorEvent(t, e) \/ DeltaEvent(t, e) \/ CompletedEvent(t, e)
  BY DEF Receive, e, k
<1>5. e.kind \in {"delta", "completed", "error"} => e \in Reports
  BY <1>3 DEF Reports, Messages
<1>6. CASE StateEvent(t, e)
  BY <1>1, <1>2, <1>6 DEF StateEvent, ConsumerTypes, TypeOK, k
<1>7. CASE ErrorEvent(t, e)
  <2> DEFINE h == EndStream(PushEvent(hub, gen[t], e))
             rs == IF HasRow(rows, t) THEN rows ELSE CreateRow(rows, t, None)
  <2>1. h \in Registries
    BY <1>5, <1>7, PushEventType, EndStreamType DEF ErrorEvent, TypeOK
  <2>2. rs \in Seq(Rows)
    BY CreateRowType DEF TypeOK
  <2>3. Finally(t, h, Pop(link, k), ws) /\ ws \in [Clients -> Sockets]
    BY <1>7 DEF ErrorEvent, TypeOK, k
  <2>4. rows' = SetStatus(rs, t, "error") /\ status' = "error"
    BY <1>7 DEF ErrorEvent
  <2> HIDE DEF h, rs
  <2>5. rows' \in Seq(Rows)
    BY <2>2, <2>4, SetStatusType DEF RowStates
  <2> QED
    BY <1>1, <1>2, <2>1, <2>3, <2>4, <2>5, FinallyType DEF ConsumerTypes
<1>8. CASE DeltaEvent(t, e)
  <2>1. hub' \in Registries
    BY <1>5, <1>8, PushEventType DEF DeltaEvent, TypeOK
  <2>2. rows' \in Seq(Rows)
    <3> DEFINE rs == WithRow(t)
    <3>1. rs \in Seq(Rows)
      BY WithRowType DEF TypeOK
    <3>2. PICK checkpoint \in BOOLEAN : rows' =
            [i \in DOMAIN rs |-> IF rs[i].id = t THEN [rs[i] EXCEPT !.stamped = @ \/ checkpoint] ELSE rs[i]]
      BY <1>8 DEF DeltaEvent
    <3> HIDE DEF rs
    <3>3. \A i \in DOMAIN rs : rs[i] \in Rows
      BY <3>1, LenProperties, ElementOfSeq
    <3>4. \A r \in Rows : [r EXCEPT !.stamped = @ \/ checkpoint] \in Rows
      BY DEF Rows
    <3>5. \A i \in DOMAIN rs : rows'[i] \in Rows
      BY <3>2, <3>3, <3>4
    <3> QED
      BY <3>1, <3>2, <3>5, RowsRewritten
  <2> QED
    BY <1>1, <1>2, <1>8, <2>1, <2>2 DEF DeltaEvent, ConsumerTypes, TypeOK, Alive, k
<1>9. CASE CompletedEvent(t, e)
  <2>1. hub' \in Registries
    BY <1>5, <1>9, PushEventType DEF CompletedEvent, TypeOK
  <2>2. rows' \in Seq(Rows)
    BY <1>9, WithRowType, CompleteType DEF CompletedEvent, TypeOK
  <2> QED
    BY <1>1, <1>2, <1>9, <2>1, <2>2 DEF CompletedEvent, ConsumerTypes, TypeOK, Alive, k
<1> QED
  BY <1>4, <1>6, <1>7, <1>8, <1>9

LEMMA StreamClosesType ==
  ASSUME TypeOK, NEW t \in Turns, StreamCloses(t)
  PROVE  TypeOK'
<1>1. /\ consumer[t] # "none" /\ client[t] \in Clients
      /\ UNCHANGED <<turn, gen, target, client, source, others, got, server, faults>>
      /\ UNCHANGED source /\ source \in [Turns -> Turns \cup {None}]
  BY ItsClient DEF StreamCloses, TypeOK
<1>0. SUFFICES ConsumerTypes(t)
  BY <1>1, ConsumerSteps
<1>2. CASE Finally(t, hub, link, ws) /\ UNCHANGED db
  <2>1. hub \in Registries /\ link \in [Turns -> Links] /\ ws \in [Clients -> Sockets] /\ Finally(t, hub, link, ws)
        /\ rows' \in Seq(Rows) /\ status' \in {"idle", "running", "error"}
    BY <1>2 DEF TypeOK, db
  <2> QED
    BY <1>1, <2>1, FinallyType DEF ConsumerTypes
<1>3. CASE Fault(t, [ws EXCEPT ![client[t]].up = FALSE])
  <2>1. /\ [ws EXCEPT ![client[t]].up = FALSE] \in [Clients -> Sockets]
        /\ \A c \in Clients : [ws EXCEPT ![client[t]].up = FALSE][c].conn = ws[c].conn
    <3>1. ws \in [Clients -> Sockets]
      BY DEF TypeOK
    <3> QED
      BY <1>1, <3>1 DEF Sockets
  <2> QED
    BY <1>1, <1>3, <2>1, FaultType
<1> QED
  BY <1>2, <1>3 DEF StreamCloses

LEMMA FinishType ==
  ASSUME TypeOK, NEW t \in Turns, Finish(t)
  PROVE  TypeOK'
<1>1. /\ consumer[t] # "none"
      /\ UNCHANGED <<turn, gen, target, client, source, others, got, server, faults>>
      /\ UNCHANGED source /\ source \in [Turns -> Turns \cup {None}]
  BY DEF Finish, TypeOK
<1>2. hub \in Registries /\ link \in [Turns -> Links] /\ ws \in [Clients -> Sockets] /\ Finally(t, hub, link, ws)
      /\ rows' \in Seq(Rows) /\ status' \in {"idle", "running", "error"}
  BY DEF TypeOK, db, Finish
<1>3. ConsumerTypes(t)
  BY <1>1, <1>2, FinallyType DEF ConsumerTypes
<1> QED
  BY <1>1, <1>3, ConsumerSteps

LEMMA ConsumerClosedType ==
  ASSUME TypeOK, NEW t \in Turns, ConsumerClosed(t)
  PROVE  TypeOK'
<1>1. client[t] \in Clients /\ consumer[t] # "none"
  BY ItsClient DEF ConsumerClosed
<1>2. ws' \in [Clients -> Sockets]
  BY <1>1 DEF ConsumerClosed, CloseReturns, TypeOK, Sockets
<1>3. /\ consumer' \in [Turns -> Alive \cup {"none", "closing", "done"}] /\ consumer'[t] = "done"
      /\ \A u \in Turns \ {t} : consumer'[u] = consumer[u]
  BY DEF ConsumerClosed, TypeOK
<1>4. pool' \in Clients \cup {None}
  BY DEF ConsumerClosed, CloseReturns
<1> QED
  BY <1>1, <1>2, <1>3, <1>4 DEF TypeOK, ConsumerClosed, others, db, server

-----------------------------------------------------------------------------
(* The readers, the aborts and the agent server keep the types.            *)

LEMMA TurnsAreNotReaders == \A r \in Readers : r \notin Turns
BY NamesAssumption

LEMMA SetRequestType ==
  ASSUME TypeOK, NEW q \in Requests, NEW s \in {"ended", "left"}, SetRequest(q, s)
  PROVE  /\ turn' \in [Turns -> TurnStates]
         /\ reader' \in [Readers -> {"new", "replaying", "reading", "ended", "left", "lost"}]
         /\ \A t \in Turns : turn'[t] = turn[t] \/ turn'[t] = s
<1>1. /\ turn \in [Turns -> TurnStates] /\ s \in TurnStates
      /\ reader \in [Readers -> {"new", "replaying", "reading", "ended", "left", "lost"}]
  BY DEF TypeOK, TurnStates
<1>2. CASE q \in Turns
  BY <1>1, <1>2 DEF SetRequest
<1>3. CASE q \notin Turns
  BY <1>1, <1>3 DEF SetRequest
<1> QED
  BY <1>2, <1>3

LEMMA TakeType ==
  ASSUME TypeOK, NEW q \in Requests, Take(q)
  PROVE  TypeOK'
<1>1. /\ hub \in Registries /\ hub.inbox[q] \in Seq(Reports \cup {End}) /\ hub.inbox[q] # <<>>
      /\ hub.inbox \in [Requests -> Seq(Reports \cup {End})]
  BY DEF TypeOK, Registries, Take
<1>2. Tail(hub.inbox[q]) \in Seq(Reports \cup {End}) /\ Head(hub.inbox[q]) \in Reports \cup {End}
  BY <1>1, HeadTailProperties
<1>3. [hub EXCEPT !.inbox[q] = Tail(@)] \in Registries
  BY <1>1, <1>2 DEF Registries
<1>4. /\ turn' \in [Turns -> TurnStates]
      /\ reader' \in [Readers -> {"new", "replaying", "reading", "ended", "left", "lost"}]
      /\ \A t \in Turns : turn'[t] = turn[t] \/ turn'[t] = "ended"
  BY SetRequestType DEF Take, TypeOK
<1>5. got' \in [Requests -> Seq(Reports)]
  <2>1. CASE Head(hub.inbox[q]) = End
    BY <2>1 DEF Take, TypeOK
  <2>2. CASE Head(hub.inbox[q]) # End
    <3>1. Head(hub.inbox[q]) \in Reports /\ got[q] \in Seq(Reports)
      BY <1>2, <2>2 DEF TypeOK
    <3>2. Append(got[q], Head(hub.inbox[q])) \in Seq(Reports)
      BY <3>1, AppendProperties
    <3> QED
      BY <2>2, <3>2 DEF Take, TypeOK
  <2> QED
    BY <2>1, <2>2
<1> QED
  BY <1>3, <1>4, <1>5 DEF TypeOK, Take, db, server

LEMMA LeaveType ==
  ASSUME TypeOK, NEW q \in Requests, Leave(q)
  PROVE  TypeOK'
<1>1. hub' \in Registries
  BY DEF TypeOK, Registries, Leave, Unsubscribe
<1>2. /\ turn' \in [Turns -> TurnStates]
      /\ reader' \in [Readers -> {"new", "replaying", "reading", "ended", "left", "lost"}]
      /\ \A t \in Turns : turn'[t] = turn[t] \/ turn'[t] = "left"
  BY SetRequestType DEF Leave
<1> QED
  BY <1>1, <1>2 DEF TypeOK, Leave, db, server

LEMMA YieldNextType ==
  ASSUME TypeOK, NEW r \in Readers, NEW s \in Seq(Reports), YieldNext(r, s)
  PROVE  /\ hub' \in Registries
         /\ got' \in [Requests -> Seq(Reports)]
         /\ replay' \in [Readers -> Seq(Reports)]
         /\ reader' \in [Readers -> {"new", "replaying", "reading", "ended", "left", "lost"}]
<1>1. CASE s = <<>>
  <2>1. hub' \in Registries
    BY <1>1, SubscribeType DEF YieldNext, TypeOK, Requests
  <2> QED
    BY <1>1, <2>1 DEF YieldNext, TypeOK
<1>2. CASE s # <<>>
  <2>1. Head(s) \in Reports /\ Tail(s) \in Seq(Reports) /\ r \in Requests /\ got[r] \in Seq(Reports)
    BY <1>2, HeadTailProperties DEF TypeOK, Requests
  <2>2. Append(got[r], Head(s)) \in Seq(Reports)
    BY <2>1, AppendProperties
  <2> QED
    BY <1>2, <2>1, <2>2 DEF YieldNext, TypeOK
<1> QED
  BY <1>1, <1>2

LEMMA ReconnectType ==
  ASSUME TypeOK, NEW r \in Readers, Reconnect(r) \/ Replay(r)
  PROVE  TypeOK'
<1>1. UNCHANGED <<requests, abort, pool, ws, link, db, server, faults>>
  BY DEF Reconnect, Replay
<1>2. hub.buffer \in Seq(Reports) /\ replay[r] \in Seq(Reports)
  BY DEF TypeOK, Registries
<1>3. CASE YieldNext(r, hub.buffer) \/ YieldNext(r, replay[r])
  <2>1. /\ hub' \in Registries
        /\ got' \in [Requests -> Seq(Reports)]
        /\ replay' \in [Readers -> Seq(Reports)]
        /\ reader' \in [Readers -> {"new", "replaying", "reading", "ended", "left", "lost"}]
    BY <1>2, <1>3, YieldNextType
  <2> QED
    BY <1>1, <2>1 DEF TypeOK, requests, db, server
<1>4. CASE reader' = [reader EXCEPT ![r] = "ended"] /\ UNCHANGED <<replay, got, hub>>
  BY <1>1, <1>4 DEF TypeOK, requests, db, server
<1> QED
  BY <1>3, <1>4 DEF Reconnect, Replay

LEMMA AbortType ==
  ASSUME TypeOK, NEW a \in Aborts, Aborting(a)
  PROVE  TypeOK'
<1>0. a \in Clients /\ Turns \subseteq Clients /\ Aborts \subseteq Clients
  BY DEF Clients
<1>1. CASE AbortRemote(a)
  <2>1. /\ abort' \in [Aborts -> {"new", "answered", "closing", "done", "lost"}]
        /\ \A b \in Aborts : abort'[b] = "closing" => abort[b] = "closing"
    BY <1>1 DEF AbortRemote, TypeOK
  <2>2. running' \in [turn : Turns, via : Turns] \cup {None} /\ link' \in [Turns -> Links]
    <3>1. CASE UNCHANGED <<running, link>>
      BY <3>1 DEF TypeOK
    <3>2. CASE running # None /\ running' = None /\ link' = ToClient(link, running.via, Event(running.turn, "idle", 0))
      <4>1. running.turn \in Turns /\ running.via \in Turns /\ link \in [Turns -> Links]
        BY <3>2 DEF TypeOK
      <4> QED
        BY <3>2, <4>1, ToClientType, EventTypes
    <3> QED
      BY <1>1, <3>1, <3>2 DEF AbortRemote
  <2>3. UNCHANGED <<requests, reader, replay, got, hub, pool, ws, db, emitted>>
    BY <1>1 DEF AbortRemote
  <2> QED
    BY <2>1, <2>2, <2>3 DEF TypeOK, requests, db
<1>2. CASE AbortLocally(a)
  <2> DEFINE c == IF pool = None THEN a ELSE pool
  <2>1. c \in Clients
    BY <1>0 DEF TypeOK
  <2>2. rows' \in Seq(Rows)
    BY <1>2, SetStatusType DEF AbortLocally, TypeOK, RowStates
  <2>3. UNCHANGED <<turn, gen, target, consumer, source, reader, replay, got, hub, status, server, faults>>
        /\ client' = [client EXCEPT ![a] = c]
    BY <1>2 DEF AbortLocally
  <2>4. abort' \in [Aborts -> {"new", "answered", "closing", "done", "lost"}]
        /\ \A b \in Aborts : abort'[b] = "closing" => b = a \/ abort[b] = "closing"
    BY <1>2 DEF AbortLocally, TypeOK
  <2>5. pool' \in Clients \cup {None} /\ ws' \in [Clients -> Sockets] /\ link' \in [Turns -> Links]
    <3> HIDE DEF c
    <3>1. CASE ~ws[c].up \/ ws[c].conn = None
      <4>1. pool' \in {c, None} /\ UNCHANGED <<ws, link>>
        BY <1>2, <3>1 DEF AbortLocally, c
      <4> QED
        BY <2>1, <4>1 DEF TypeOK
    <3>2. CASE ws[c].up /\ ws[c].conn # None
      <4>1. UNCHANGED pool /\ ws' = [ws EXCEPT ![c].up = FALSE] /\ link' = CloseLink(link, c)
        BY <1>2, <3>2 DEF AbortLocally, c
      <4>2. ws \in [Clients -> Sockets] /\ link \in [Turns -> Links]
        BY DEF TypeOK
      <4>3. ws' \in [Clients -> Sockets]
        BY <2>1, <4>1, <4>2 DEF Sockets
      <4>4. link' \in [Turns -> Links]
        BY <2>1, <3>2, <4>1, <4>2, CloseLinkType
      <4> QED
        BY <4>1, <4>3, <4>4 DEF TypeOK
    <3> QED
      BY <3>1, <3>2
  <2>6. client' \in [Clients -> Clients \cup {None}] /\ client'[a] # None
        /\ \A u \in Clients : client[u] # None => client'[u] # None
    BY <1>0, <2>1, <2>3, NoneIsNothing DEF TypeOK
  <2> QED
    BY <1>0, <2>2, <2>3, <2>4, <2>5, <2>6 DEF TypeOK, server
<1>3. CASE AbortClosed(a)
  <2>1. client[a] \in Clients /\ abort[a] = "closing"
    BY <1>3, ItsClient DEF AbortClosed
  <2>2. ws' \in [Clients -> Sockets] /\ pool' \in Clients \cup {None}
    BY <1>3, <2>1 DEF AbortClosed, CloseReturns, TypeOK, Sockets
  <2>3. abort' \in [Aborts -> {"new", "answered", "closing", "done", "lost"}]
        /\ \A b \in Aborts : abort'[b] = "closing" => abort[b] = "closing"
    BY <1>3 DEF AbortClosed, TypeOK
  <2>4. UNCHANGED <<requests, reader, replay, got, hub, link, db, server, faults>>
    BY <1>3 DEF AbortClosed
  <2> QED
    BY <2>2, <2>3, <2>4 DEF TypeOK, requests, db, server
<1> QED
  BY <1>1, <1>2, <1>3 DEF Aborting

\* The steps of the agent server and of the network.
LEMMA ServerSteps ==
  ASSUME TypeOK, link' \in [Turns -> Links], running' \in [turn : Turns, via : Turns] \cup {None},
         emitted' \in [Turns -> Nat], UNCHANGED <<requests, others, got, hub, pool, ws, db>>
  PROVE  TypeOK'
BY DEF TypeOK, requests, others, db

LEMMA ServeType ==
  ASSUME TypeOK, NEW k \in Turns, Serve(k) \/ Break(k)
  PROVE  TypeOK'
<1>1. link[k] \in Links /\ link \in [Turns -> Links] /\ running \in [turn : Turns, via : Turns] \cup {None} /\ emitted \in [Turns -> Nat]
  BY DEF TypeOK
<1>2. CASE Hold(k)
  <2>1. \A s \in {"clean", "broken"} : [link[k] EXCEPT !.server = "gone", !.state = s] \in Links
    BY <1>1 DEF Links
  <2>2. [link[k] EXCEPT !.server = "held"] \in Links
    BY <1>1 DEF Links
  <2>3. link' \in [Turns -> Links]
    BY <1>1, <1>2, <2>1, <2>2 DEF Hold
  <2>4. UNCHANGED <<requests, others, got, hub, pool, ws, db>> /\ UNCHANGED <<running, emitted>>
    BY <1>2 DEF Hold, server
  <2> QED
    BY <1>1, <2>3, <2>4, ServerSteps
<1>3. CASE Dispatch(k)
  <2> DEFINE t == Head(link[k].frames)
             l == [link EXCEPT ![k].frames = Tail(@)]
  <2>1. link[k].frames \in Seq(Turns) /\ link[k].frames # <<>>
    BY <1>1, <1>3 DEF Links, Dispatch
  <2>2. t \in Turns /\ Tail(link[k].frames) \in Seq(Turns)
    BY <2>1, HeadTailProperties
  <2>3. [link[k] EXCEPT !.frames = Tail(@)] \in Links
    BY <1>1, <2>2 DEF Links
  <2>4. l \in [Turns -> Links]
    BY <1>1, <2>3
  <2>5. \/ running' = [turn |-> t, via |-> k] /\ link' = l
        \/ link' = ToClient(l, k, Event(t, "error", 0)) /\ UNCHANGED running
    BY <1>3 DEF Dispatch
  <2> HIDE DEF t, l
  <2>6. link' \in [Turns -> Links] /\ running' \in [turn : Turns, via : Turns] \cup {None}
    <3>1. Event(t, "error", 0) \in Messages
      BY <2>2, EventTypes
    <3>2. ToClient(l, k, Event(t, "error", 0)) \in [Turns -> Links]
      BY <2>4, <3>1, ToClientType
    <3>3. [turn |-> t, via |-> k] \in [turn : Turns, via : Turns]
      BY <2>2
    <3> QED
      BY <1>1, <2>4, <2>5, <3>2, <3>3
  <2>7. UNCHANGED <<requests, others, got, hub, pool, ws, db>> /\ UNCHANGED emitted
    BY <1>3 DEF Dispatch
  <2> QED
    BY <1>1, <2>6, <2>7, ServerSteps
<1>4. CASE SeesClose(k)
  <2>1. \A s \in {"clean", "broken"} : [link[k] EXCEPT !.server = "draining", !.state = s] \in Links
    BY <1>1 DEF Links
  <2>2. link' \in [Turns -> Links]
    BY <1>1, <1>4, <2>1 DEF SeesClose
  <2>3. UNCHANGED <<requests, others, got, hub, pool, ws, db>> /\ UNCHANGED emitted /\ running' \in {running, None}
    BY <1>4 DEF SeesClose
  <2> QED
    BY <1>1, <2>2, <2>3, ServerSteps
<1>5. CASE Release(k)
  <2>1. [link[k] EXCEPT !.server = "gone"] \in Links
    BY <1>1 DEF Links
  <2>2. link' \in [Turns -> Links] /\ UNCHANGED <<requests, others, got, hub, pool, ws, db>> /\ UNCHANGED <<running, emitted>>
    BY <1>1, <1>5, <2>1 DEF Release, server
  <2> QED
    BY <1>1, <2>2, ServerSteps
<1>6. CASE Break(k)
  <2>1. [link[k] EXCEPT !.state = "broken"] \in Links
    BY <1>1 DEF Links
  <2>2. link' \in [Turns -> Links] /\ UNCHANGED <<requests, others, got, hub, pool, ws, db>> /\ UNCHANGED <<running, emitted>>
    BY <1>1, <1>6, <2>1 DEF Break, server
  <2> QED
    BY <1>1, <2>2, ServerSteps
<1> QED
  BY <1>2, <1>3, <1>4, <1>5, <1>6 DEF Serve

LEMMA EmitType ==
  ASSUME TypeOK, Emit \/ EmitError
  PROVE  TypeOK'
<1> DEFINE t == running.turn
           k == running.via
<1>1. /\ t \in Turns /\ k \in Turns /\ link \in [Turns -> Links] /\ emitted[t] \in Nat /\ emitted \in [Turns -> Nat]
      /\ running \in [turn : Turns, via : Turns] \cup {None}
  BY DEF TypeOK, Emit, EmitError
<1>2. UNCHANGED <<requests, others, got, hub, pool, ws, db>> /\ running' \in {running, None} /\ running # None
      /\ emitted' \in [Turns -> Nat]
  BY <1>1 DEF Emit, EmitError
<1>3. \E kind \in {"running", "delta", "completed", "error"}, n \in Nat :
        link' \in {ToClient(link, k, Event(t, kind, n)), [ToClient(link, k, Event(t, kind, n)) EXCEPT ![k].terminal = TRUE]}
  BY <1>1 DEF Emit, EmitError
<1> HIDE DEF t, k
<1>4. \A l \in [Turns -> Links] : [l EXCEPT ![k].terminal = TRUE] \in [Turns -> Links]
  BY <1>1 DEF Links
<1>5. link' \in [Turns -> Links]
  <2>1. PICK kind \in {"running", "delta", "completed", "error"}, n \in Nat :
          link' \in {ToClient(link, k, Event(t, kind, n)), [ToClient(link, k, Event(t, kind, n)) EXCEPT ![k].terminal = TRUE]}
    BY <1>3
  <2>2. Event(t, kind, n) \in Messages
    BY <1>1, <2>1, EventTypes
  <2>3. ToClient(link, k, Event(t, kind, n)) \in [Turns -> Links]
    BY <1>1, <2>2, ToClientType
  <2> QED
    BY <1>4, <2>1, <2>3
<1> QED
  BY <1>1, <1>2, <1>5, ServerSteps

LEMMA RestartType ==
  ASSUME TypeOK, Restart
  PROVE  TypeOK'
<1>1. turn' = [t \in Turns |-> Lost(turn[t])]
  BY DEF Restart
<1>2. consumer' = [t \in Turns |-> IF consumer[t] = "none" THEN "none" ELSE "done"]
  BY DEF Restart
<1>3. /\ turn' \in [Turns -> TurnStates]
      /\ \A u \in Turns : turn'[u] \in {"connecting", "sending"} => turn[u] \in {"connecting", "sending"}
  BY <1>1 DEF TypeOK, Lost, TurnStates
<1>4. /\ consumer' \in [Turns -> Alive \cup {"none", "closing", "done"}]
      /\ \A u \in Turns : consumer'[u] \in {"none", "done"} /\ (consumer'[u] # "none" => consumer[u] # "none")
  BY <1>2
<1>5. /\ reader' \in [Readers -> {"new", "replaying", "reading", "ended", "left", "lost"}]
      /\ abort' \in [Aborts -> {"new", "answered", "closing", "done", "lost"}]
      /\ \A a \in Aborts : abort'[a] # "closing"
  BY DEF Restart, TypeOK, Lost
<1>6. <<>> \in Seq(Reports) /\ <<>> \in Seq(Reports \cup {End})
  OBVIOUS
<1>7. replay' \in [Readers -> Seq(Reports)] /\ hub' \in Registries
  BY <1>6 DEF Restart, EmptyHub, Registries
<1>8. ws' \in [Clients -> Sockets] /\ pool' \in Clients \cup {None}
  BY DEF Restart, Sockets
<1>9. link' \in [Turns -> Links]
  <2>1. \A k \in Turns : [link[k] EXCEPT !.state = IF @ \in {"open", "closing"} THEN "broken" ELSE @] \in Links
    <3>1. \A l \in Links : [l EXCEPT !.state = IF @ \in {"open", "closing"} THEN "broken" ELSE @] \in Links
      BY DEF Links
    <3> QED
      BY <3>1 DEF TypeOK
  <2> QED
    BY <2>1 DEF Restart
<1>10. rows' \in Seq(Rows)
  <2>1. PICK stale : rows' = [i \in DOMAIN rows |-> IF i \in stale THEN [rows[i] EXCEPT !.status = "interrupted"] ELSE rows[i]]
    BY DEF Restart
  <2>2. \A i \in DOMAIN rows : rows[i] \in Rows
    BY LenProperties, ElementOfSeq DEF TypeOK
  <2>3. \A r \in Rows : [r EXCEPT !.status = "interrupted"] \in Rows
    BY DEF Rows, RowStates
  <2>4. \A i \in DOMAIN rows : rows'[i] \in Rows
    BY <2>1, <2>2, <2>3
  <2>5. rows' = [i \in DOMAIN rows |-> rows'[i]] /\ rows \in Seq(Rows)
    BY <2>1 DEF TypeOK
  <2> QED
    BY <2>4, <2>5, RowsRewritten
<1>11. UNCHANGED <<gen, target, client, source, got, status, server>>
  BY DEF Restart
<1> QED
  BY <1>3, <1>4, <1>5, <1>7, <1>8, <1>9, <1>10, <1>11 DEF TypeOK, server

LEMMA InitType ==
  ASSUME Init
  PROVE  TypeOK
<1>1. <<>> \in Seq(Reports) /\ <<>> \in Seq(Reports \cup {End}) /\ <<>> \in Seq(Messages) /\ <<>> \in Seq(Turns)
  OBVIOUS
<1>2. hub \in Registries
  BY <1>1 DEF Init, EmptyHub, Registries
<1>3. link \in [Turns -> Links] /\ ws \in [Clients -> Sockets]
  BY <1>1 DEF Init, Links, Sockets
<1>4. rows \in Seq(Rows)
  <2> DEFINE n == Cardinality(History)
  <2>1. rows = [i \in 1..n |-> [id |-> CHOOSE h \in History : TRUE, status |-> "completed", stamped |-> TRUE]]
    BY DEF Init
  <2>2. CASE History = {}
    <3>1. n = 0 /\ 1..n = {}
      BY <2>2, FS_EmptySet
    <3>2. rows \in [1..0 -> Rows]
      BY <2>1, <3>1
    <3> QED
      BY <3>2, SeqDef
  <2>3. CASE History # {}
    <3>1. (CHOOSE h \in History : TRUE) \in History
      BY <2>3
    <3>2. n \in Nat
      BY NamesAssumption, FS_CardinalityType
    <3>3. rows \in [1..n -> Rows]
      BY <2>1, <3>1 DEF Rows, RowStates
    <3> HIDE DEF n
    <3> QED
      BY <3>2, <3>3, SeqDef
  <2> QED
    BY <2>2, <2>3
<1> QED
  BY <1>1, <1>2, <1>3, <1>4 DEF Init, TypeOK, TurnStates

LEMMA NextType ==
  ASSUME TypeOK, [Next]_vars
  PROVE  TypeOK'
<1>1. CASE UNCHANGED vars
  BY <1>1 DEF TypeOK, vars, requests, others, db, server
<1>2. CASE Next
  BY <1>2, SendMessageType, RegenerateType, ConnectedType, HandOverType, CallFailsType, ListenType, ResumeType,
     ReceiveType, StreamClosesType, FinishType, ConsumerClosedType, TakeType, LeaveType, ReconnectType, AbortType,
     ServeType, EmitType, RestartType DEF Next, Request, Handing, Consume
<1> QED
  BY <1>1, <1>2

\* Whatever the requests, the connections and the restarts do, the queues of
\* the registry hold only what a consumer may push and sentinels, and a call
\* past its first await has the client it waits for.
THEOREM StreamsAreTyped == Spec => []TypeOK
<1>1. Init => TypeOK
  BY InitType
<1>2. TypeOK /\ [Next]_vars => TypeOK'
  BY NextType
<1> QED
  BY <1>1, <1>2, PTL DEF Spec

-----------------------------------------------------------------------------
(* Nobody waits for nothing.  What the registry does with the queues keeps *)
(* a reader subscribed or leaves it the sentinel, and a stream that gives  *)
(* up its subscribers leaves it to each of them.                           *)

Told(h, q) == End \in ToSet(h.inbox[q])

\* A subscriber may stay one, or be told.
Keeps(h, h2) ==
  \A q \in Requests : (Told(h, q) => Told(h2, q)) /\ (q \in h.subs => q \in h2.subs \/ Told(h2, q))

\* Every subscriber is told.
Closes(h, h2) == \A q \in Requests : q \in h.subs \/ Told(h, q) => Told(h2, q)

LEMMA BroadcastTells ==
  ASSUME NEW h \in Registries, NEW e \in Reports \cup {End}, NEW h2, h2.inbox = Broadcast(h, e), NEW q \in Requests
  PROVE  /\ Told(h, q) => Told(h2, q)
         /\ e = End /\ q \in h.subs => Told(h2, q)
<1> DEFINE s == h.inbox[q]
<1>1. s \in Seq(Reports \cup {End}) /\ h2.inbox[q] = IF q \in h.subs THEN Append(s, e) ELSE s
  BY DEF Broadcast, Registries
<1> HIDE DEF s
<1>2. /\ Len(Append(s, e)) = Len(s) + 1 /\ Append(s, e)[Len(s) + 1] = e
      /\ \A i \in 1..Len(s) : Append(s, e)[i] = s[i]
      /\ Append(s, e) \in Seq(Reports \cup {End})
  BY <1>1, AppendProperties
<1>3. DOMAIN s = 1..Len(s) /\ Len(s) \in Nat /\ DOMAIN Append(s, e) = 1..(Len(s) + 1)
  BY <1>1, <1>2, LenProperties
<1>4. End \in ToSet(s) => End \in ToSet(Append(s, e))
  BY <1>2, <1>3 DEF ToSet
<1>5. e \in ToSet(Append(s, e))
  <2>1. Len(s) + 1 \in DOMAIN Append(s, e)
    BY <1>3
  <2> QED
    BY <1>2, <2>1 DEF ToSet
<1> QED
  BY <1>1, <1>4, <1>5 DEF Told, s

LEMMA StreamsTell ==
  ASSUME NEW h \in Registries
  PROVE  /\ Keeps(h, EndStream(h)) /\ \A q \in Requests : q \in h.subs => Told(EndStream(h), q)
         /\ Closes(h, StartStream(h))
         /\ Closes(h, Cleanup(EndStream(h)))
         /\ \A g : Keeps(h, ReleaseStream(h, g))
         /\ \A e \in Reports : \A g : Keeps(h, PushEvent(h, g, e))
         /\ \A q \in Requests : Keeps(h, Subscribe(h, q))
<1>1. /\ EndStream(h).inbox = Broadcast(h, End) /\ EndStream(h).subs = h.subs
      /\ StartStream(h).inbox = EndStream(h).inbox
      /\ Cleanup(EndStream(h)).inbox = EndStream(h).inbox
  BY DEF EndStream, StartStream, Cleanup, Registries
<1>2. \A q \in Requests : q \in h.subs \/ Told(h, q) => Told(EndStream(h), q)
  BY <1>1, BroadcastTells
<1>3. \A q \in Requests : Told(StartStream(h), q) = Told(EndStream(h), q)
                          /\ Told(Cleanup(EndStream(h)), q) = Told(EndStream(h), q)
  BY <1>1 DEF Told
<1>4. Keeps(h, h)
  BY DEF Keeps
<1>5. ASSUME NEW g, NEW e \in Reports
      PROVE  Keeps(h, PushEvent(h, g, e))
  <2>1. CASE h.gen # g
    BY <1>4, <2>1 DEF PushEvent
  <2>2. CASE h.gen = g
    <3>1. PushEvent(h, g, e).inbox = Broadcast(h, e) /\ PushEvent(h, g, e).subs = h.subs
      BY <2>2 DEF PushEvent, Registries
    <3> QED
      BY <3>1, BroadcastTells DEF Keeps
  <2> QED
    BY <2>1, <2>2
<1>6. ASSUME NEW q \in Requests
      PROVE  Keeps(h, Subscribe(h, q))
  BY DEF Keeps, Subscribe, Told, Registries
<1>7. Keeps(h, EndStream(h))
  BY <1>1, <1>2 DEF Keeps
<1>8. \A g : Keeps(h, ReleaseStream(h, g))
  BY <1>4, <1>7 DEF ReleaseStream
<1> QED
  BY <1>2, <1>3, <1>5, <1>6, <1>7, <1>8 DEF Closes

LEMMA KeepsThenKeeps ==
  ASSUME NEW h1, NEW h2, NEW h3, Keeps(h1, h2)
  PROVE  (Keeps(h2, h3) => Keeps(h1, h3)) /\ (Closes(h2, h3) => Closes(h1, h3))
BY DEF Keeps, Closes

\* A step that lets every subscriber be or tells it, and ends no consumer, ...
LEMMA StillServed ==
  ASSUME NobodyWaitsForNothing, Keeps(hub, hub'),
         \A t \in Turns : turn'[t] = "reading" => turn[t] = "reading",
         \A t \in Turns : consumer[t] \in Alive => consumer'[t] \in Alive
  PROVE  NobodyWaitsForNothing'
<1> SUFFICES ASSUME NEW t \in Turns, turn'[t] = "reading"
             PROVE  Told(hub', t) \/ (t \in hub'.subs /\ consumer'[t] \in Alive)
  BY DEF NobodyWaitsForNothing, Told
<1> QED
  BY DEF NobodyWaitsForNothing, Told, Keeps, Requests

\* ... or one that tells them all.
LEMMA AllTold ==
  ASSUME NobodyWaitsForNothing, Closes(hub, hub'),
         \A t \in Turns : turn'[t] = "reading" => turn[t] = "reading"
  PROVE  NobodyWaitsForNothing'
<1> SUFFICES ASSUME NEW t \in Turns, turn'[t] = "reading"
             PROVE  Told(hub', t)
  BY DEF NobodyWaitsForNothing, Told
<1> QED
  BY DEF NobodyWaitsForNothing, Told, Closes, Requests

LEMMA KeepsItself == \A h : Keeps(h, h)
BY DEF Keeps

LEMMA RequestServed ==
  ASSUME TypeOK, NobodyWaitsForNothing, NEW t \in Turns, Request(t) \/ Handing(t) \/ CallFails(t)
  PROVE  NobodyWaitsForNothing'
<1>0. hub \in Registries /\ turn \in [Turns -> TurnStates] /\ consumer \in [Turns -> Alive \cup {"none", "closing", "done"}]
  BY DEF TypeOK
<1>1. CASE SendMessage(t)
  <2>1. UNCHANGED <<hub, consumer>> /\ \A u \in Turns : turn'[u] = "reading" => turn[u] = "reading"
    BY <1>0, <1>1 DEF SendMessage, Prepare
  <2> QED
    BY <2>1, KeepsItself, StillServed
<1>2. CASE Regenerate(t)
  <2>1. UNCHANGED consumer /\ \A u \in Turns : turn'[u] = "reading" => turn[u] = "reading"
    BY <1>0, <1>2 DEF Regenerate, Prepare
  <2>2. \/ UNCHANGED hub
        \/ hub' = StartStream(hub)
        \/ \E g : hub' = ReleaseStream(StartStream(hub), g)
    BY <1>2 DEF Regenerate, Prepare
  <2>3. Keeps(hub, hub') \/ Closes(hub, hub')
    <3>1. StartStream(hub) \in Registries
      BY <1>0, StartStreamType
    <3>2. \A g : Keeps(StartStream(hub), ReleaseStream(StartStream(hub), g))
      BY <3>1, StreamsTell
    <3>3. Closes(hub, StartStream(hub))
      BY <1>0, StreamsTell
    <3>4. \A g : Closes(hub, ReleaseStream(StartStream(hub), g))
      BY <3>2, <3>3 DEF Closes, Keeps
    <3> QED
      BY <2>2, <3>3, <3>4, KeepsItself
  <2> QED
    BY <2>1, <2>3, StillServed, AllTold
<1>3. CASE Connected(t)
  <2>1. UNCHANGED <<hub, consumer>> /\ \A u \in Turns : turn'[u] = "reading" => turn[u] = "reading"
    BY <1>0, <1>3 DEF Connected
  <2> QED
    BY <2>1, KeepsItself, StillServed
<1>4. CASE CallFails(t)
  <2>1. UNCHANGED consumer /\ \A u \in Turns : turn'[u] = "reading" => turn[u] = "reading"
    BY <1>0, <1>4 DEF CallFails
  <2>2. Keeps(hub, hub')
    BY <1>0, <1>4, KeepsItself, StreamsTell DEF CallFails
  <2> QED
    BY <2>1, <2>2, StillServed
<1>5. CASE HandOver(t)
  <2> DEFINE h == IF gen[t] = None THEN StartStream(hub) ELSE hub
  <2>1. h \in Registries /\ (Closes(hub, h) \/ h = hub)
    BY <1>0, StreamsTell, StartStreamType
  <2> HIDE DEF h
  <2>2. hub' = Subscribe(h, t) /\ turn' = [turn EXCEPT ![t] = "reading"] /\ consumer' = [consumer EXCEPT ![t] = "created"]
    BY <1>5 DEF HandOver, h
  <2>3. Keeps(h, hub') /\ t \in hub'.subs
    <3>1. t \in Requests
      BY DEF Requests
    <3> QED
      BY <2>1, <2>2, <3>1, StreamsTell DEF Subscribe, Registries
  <2>4. SUFFICES ASSUME NEW u \in Turns, u # t, turn'[u] = "reading"
                 PROVE  Told(hub', u) \/ (u \in hub'.subs /\ consumer'[u] \in Alive)
    BY <1>0, <2>2, <2>3 DEF NobodyWaitsForNothing, Told, Alive
  <2>5. turn[u] = "reading" /\ consumer'[u] = consumer[u] /\ u \in Requests
    BY <1>0, <2>2, <2>4 DEF Requests
  <2>6. Told(hub, u) \/ (u \in hub.subs /\ consumer[u] \in Alive)
    BY <2>5 DEF NobodyWaitsForNothing, Told
  <2>7. CASE Closes(hub, h)
    BY <2>3, <2>5, <2>6, <2>7 DEF Closes, Keeps
  <2>8. CASE h = hub
    BY <2>3, <2>5, <2>6, <2>8 DEF Keeps
  <2> QED
    BY <2>1, <2>7, <2>8
<1> QED
  BY <1>1, <1>2, <1>3, <1>4, <1>5 DEF Request, Handing

\* A consumer that ends tells every subscriber first, a push tells nobody less.
LEMMA ConsumerServed ==
  ASSUME TypeOK, NobodyWaitsForNothing, NEW t \in Turns, Consume(t)
  PROVE  NobodyWaitsForNothing'
<1>0. hub \in Registries /\ consumer \in [Turns -> Alive \cup {"none", "closing", "done"}]
      /\ UNCHANGED turn
  BY DEF TypeOK, Consume, Listen, Resume, Receive, StreamCloses, Finish, ConsumerClosed
<1>1. ASSUME NEW h \in Registries, NEW l, NEW w, Finally(t, h, l, w), Keeps(hub, h)
      PROVE  NobodyWaitsForNothing'
  <2>1. hub' = Cleanup(EndStream(h))
    BY <1>1 DEF Finally
  <2>2. Closes(hub, hub')
    BY <1>1, <2>1, StreamsTell, KeepsThenKeeps
  <2> QED
    BY <1>0, <2>2, AllTold
<1>2. ASSUME NEW w, Fault(t, w)
      PROVE  NobodyWaitsForNothing'
  <2> DEFINE h == PushEvent(hub, gen[t], Event(t, "fault", 0))
  <2>1. Event(t, "fault", 0) \in Reports
    BY EventTypes
  <2>2. h \in Registries /\ Keeps(hub, h)
    BY <1>0, <2>1, PushEventType, StreamsTell
  <2>3. Finally(t, h, link, w)
    BY <1>2 DEF Fault
  <2> QED
    BY <1>1, <2>2, <2>3
<1>3. ASSUME Keeps(hub, hub'), consumer' = [consumer EXCEPT ![t] = "waiting"] \/ consumer' = [consumer EXCEPT ![t] = "yielded"]
                               \/ consumer' = [consumer EXCEPT ![t] = "finishing"] \/ UNCHANGED consumer
      PROVE  NobodyWaitsForNothing'
  BY <1>0, <1>3, StillServed DEF Alive
<1>4. ASSUME NEW k, Iterate(t, k)
      PROVE  NobodyWaitsForNothing'
  BY <1>2, <1>3, <1>4, KeepsItself DEF Iterate
<1>5. CASE Listen(t) \/ Resume(t)
  BY <1>2, <1>4, <1>5 DEF Listen, Resume
<1>6. CASE Receive(t)
  <2> DEFINE e == Head(link[source[t]].events)
  <2>1. e \in Messages
    <3>1. source[t] \in Turns /\ link[source[t]].events # <<>>
      BY <1>6 DEF Receive, TypeOK
    <3>2. link[source[t]].events \in Seq(Messages)
      BY <3>1 DEF TypeOK, Links
    <3> QED
      BY <3>1, <3>2, HeadTailProperties
  <2>2. StateEvent(t, e) \/ ErrorEvent(t, e) \/ DeltaEvent(t, e) \/ CompletedEvent(t, e)
    BY <1>6 DEF Receive
  <2> HIDE DEF e
  <2>3. CASE StateEvent(t, e)
    BY <1>3, <2>3, KeepsItself DEF StateEvent
  <2>4. ASSUME e.kind \in {"delta", "completed", "error"}
        PROVE  e \in Reports /\ PushEvent(hub, gen[t], e) \in Registries /\ Keeps(hub, PushEvent(hub, gen[t], e))
    <3>1. e \in Reports
      BY <2>1, <2>4 DEF Messages, Reports
    <3> QED
      BY <1>0, <3>1, PushEventType, StreamsTell
  <2>5. CASE ErrorEvent(t, e)
    <3> DEFINE h == PushEvent(hub, gen[t], e)
    <3>1. h \in Registries /\ Keeps(hub, h) /\ \E l : Finally(t, EndStream(h), l, ws)
      BY <2>4, <2>5 DEF ErrorEvent
    <3> HIDE DEF h
    <3>2. EndStream(h) \in Registries /\ Keeps(h, EndStream(h))
      BY <3>1, EndStreamType, StreamsTell
    <3>3. Keeps(hub, EndStream(h))
      BY <3>1, <3>2, KeepsThenKeeps
    <3> QED
      BY <1>1, <3>1, <3>2, <3>3
  <2>6. CASE DeltaEvent(t, e)
    BY <1>3, <2>4, <2>6 DEF DeltaEvent
  <2>7. CASE CompletedEvent(t, e)
    BY <1>3, <2>4, <2>7 DEF CompletedEvent
  <2> QED
    BY <2>2, <2>3, <2>5, <2>6, <2>7
<1>7. CASE StreamCloses(t) \/ Finish(t)
  BY <1>0, <1>1, <1>2, <1>7, KeepsItself DEF StreamCloses, Finish
<1>8. CASE ConsumerClosed(t)
  <2>1. UNCHANGED hub /\ \A u \in Turns : consumer[u] \in Alive => consumer'[u] \in Alive
    BY <1>0, <1>8 DEF ConsumerClosed, Alive
  <2> QED
    BY <1>0, <2>1, KeepsItself, StillServed
<1> QED
  BY <1>5, <1>6, <1>7, <1>8 DEF Consume

\* A request that takes an event leaves the sentinel behind it.
LEMMA ReadersServed ==
  ASSUME TypeOK, NobodyWaitsForNothing, NEW q \in Requests, Take(q) \/ Leave(q) \/ (q \in Readers /\ (Reconnect(q) \/ Replay(q)))
  PROVE  NobodyWaitsForNothing'
<1>0. hub \in Registries /\ turn \in [Turns -> TurnStates] /\ hub.inbox \in [Requests -> Seq(Reports \cup {End})]
  BY DEF TypeOK, Registries
<1>1. CASE Take(q)
  <2>1. /\ UNCHANGED consumer /\ hub.inbox[q] # <<>>
        /\ hub' = [hub EXCEPT !.inbox[q] = Tail(@)] /\ Reading(q)
        /\ IF Head(hub.inbox[q]) = End THEN SetRequest(q, "ended") ELSE UNCHANGED turn
    BY <1>1 DEF Take
  <2>2. hub'.subs = hub.subs /\ hub'.inbox[q] = Tail(hub.inbox[q]) /\ \A p \in Requests \ {q} : hub'.inbox[p] = hub.inbox[p]
    BY <1>0, <2>1 DEF Registries
  <2> SUFFICES ASSUME NEW t \in Turns, turn'[t] = "reading"
               PROVE  Told(hub', t) \/ (t \in hub'.subs /\ consumer'[t] \in Alive)
    BY DEF NobodyWaitsForNothing, Told
  <2>3. turn[t] = "reading" /\ t \in Requests
    BY <1>0, <2>1 DEF SetRequest, Requests
  <2>4. Told(hub, t) \/ (t \in hub.subs /\ consumer[t] \in Alive)
    BY <2>3 DEF NobodyWaitsForNothing, Told
  <2>5. CASE t # q
    BY <2>1, <2>2, <2>3, <2>4, <2>5 DEF Told
  <2>6. CASE t = q
    <3>1. Head(hub.inbox[q]) # End
      BY <1>0, <2>1, <2>6 DEF SetRequest
    <3> DEFINE s == hub.inbox[q]
    <3>2. s \in Seq(Reports \cup {End}) /\ s # <<>>
      BY <1>0, <2>1
    <3> HIDE DEF s
    <3>3. Head(s) = s[1] /\ Tail(s) \in Seq(Reports \cup {End}) /\ Len(Tail(s)) = Len(s) - 1
          /\ \A i \in 1..Len(Tail(s)) : Tail(s)[i] = s[i + 1]
      BY <3>2, HeadTailProperties
    <3>4. DOMAIN s = 1..Len(s) /\ Len(s) \in Nat /\ DOMAIN Tail(s) = 1..(Len(s) - 1)
      BY <3>2, <3>3, LenProperties
    <3>5. ASSUME End \in ToSet(s), s[1] # End
          PROVE  End \in ToSet(Tail(s))
      <4>1. PICK i \in 1..Len(s) : s[i] = End
        BY <3>4, <3>5 DEF ToSet
      <4>2. i - 1 \in 1..(Len(s) - 1) /\ (i - 1) + 1 = i
        BY <3>4, <3>5, <4>1
      <4>3. Tail(s)[i - 1] = End
        BY <3>3, <4>1, <4>2
      <4> QED
        BY <3>4, <4>2, <4>3 DEF ToSet
    <3>6. Told(hub, q) => Told(hub', q)
      BY <2>2, <3>1, <3>3, <3>5 DEF Told, s
    <3> QED
      BY <2>1, <2>2, <2>4, <2>6, <3>6
  <2> QED
    BY <2>5, <2>6
<1>2. CASE Leave(q)
  <2>1. /\ hub' = [hub EXCEPT !.subs = @ \ {q}] /\ UNCHANGED consumer /\ Reading(q)
        /\ (q \in Turns => turn' = [turn EXCEPT ![q] = "left"]) /\ (q \notin Turns => UNCHANGED turn)
    BY <1>2 DEF Leave, Unsubscribe, SetRequest
  <2> SUFFICES ASSUME NEW t \in Turns, turn'[t] = "reading"
               PROVE  Told(hub', t) \/ (t \in hub'.subs /\ consumer'[t] \in Alive)
    BY DEF NobodyWaitsForNothing, Told
  <2>2. turn[t] = "reading" /\ t # q
    BY <1>0, <2>1
  <2> QED
    BY <1>0, <2>1, <2>2 DEF NobodyWaitsForNothing, Told, Registries
<1>3. CASE q \in Readers /\ (Reconnect(q) \/ Replay(q))
  <2>1. UNCHANGED <<turn, consumer>> /\ (UNCHANGED hub \/ hub' = Subscribe(hub, q))
    BY <1>3 DEF Reconnect, Replay, requests, YieldNext
  <2>2. Keeps(hub, hub')
    BY <1>0, <2>1, KeepsItself, StreamsTell
  <2> QED
    BY <2>1, <2>2, StillServed
<1> QED
  BY <1>1, <1>2, <1>3

LEMMA NextServed ==
  ASSUME TypeOK, NobodyWaitsForNothing, [Next]_vars
  PROVE  NobodyWaitsForNothing'
<1>1. CASE UNCHANGED <<turn, consumer, hub>>
  BY <1>1 DEF NobodyWaitsForNothing
<1>2. CASE Restart
  BY <1>2 DEF Restart, Lost, NobodyWaitsForNothing
<1>3. ASSUME NEW a \in Aborts, Aborting(a)
      PROVE  UNCHANGED <<turn, consumer, hub>>
  BY <1>3 DEF Aborting, AbortRemote, AbortLocally, AbortClosed, requests
<1>4. ASSUME NEW k \in Turns, Serve(k) \/ Break(k)
      PROVE  UNCHANGED <<turn, consumer, hub>>
  BY <1>4 DEF Serve, Hold, Dispatch, SeesClose, Release, Break, requests
<1>5. Emit \/ EmitError => UNCHANGED <<turn, consumer, hub>>
  BY DEF Emit, EmitError, requests
<1>6. UNCHANGED vars => UNCHANGED <<turn, consumer, hub>>
  BY DEF vars, requests
<1>7. Readers \subseteq Requests
  BY DEF Requests
<1> QED
  BY <1>1, <1>2, <1>3, <1>4, <1>5, <1>6, <1>7, RequestServed, ConsumerServed, ReadersServed DEF Next

\* A request that waits for its reply has the sentinel in its queue, or its
\* consumer has still to reach its finally: however many turns, reconnections,
\* aborts and restarts there are, and in whatever order.
THEOREM NobodyIsStranded == Spec => []NobodyWaitsForNothing
<1>1. Init => TypeOK /\ NobodyWaitsForNothing
  BY InitType DEF Init, NobodyWaitsForNothing
<1>2. TypeOK /\ NobodyWaitsForNothing /\ [Next]_vars => (TypeOK /\ NobodyWaitsForNothing)'
  BY NextType, NextServed
<1> QED
  BY <1>1, <1>2, PTL DEF Spec

-----------------------------------------------------------------------------
(* No event is repeated.  A turn asks once: its frame is on one link at    *)
(* most, and until the agent server has taken it no event of it exists.    *)

Unasked == {t \in Turns : emitted[t] = 0 /\ (running # None => running.turn # t)}

AskedOnce ==
  /\ \A t \in Turns : turn[t] \in {"new", "connecting"} => t \in Unasked
  /\ \A k \in Turns : \A i \in DOMAIN link[k].frames :
       link[k].frames[i] \in Unasked /\ turn[link[k].frames[i]] \notin {"new", "connecting"}
  /\ \A k, l \in Turns : \A i \in DOMAIN link[k].frames, j \in DOMAIN link[l].frames :
       link[k].frames[i] = link[l].frames[j] => k = l /\ i = j

\* A step that puts no request on a link.
LEMMA NoFrameAdded ==
  ASSUME AskedOnce,
         \A k \in Turns : link'[k].frames = link[k].frames,
         \A t \in Turns : turn'[t] \in {"new", "connecting"} => turn[t] \in {"new", "connecting"},
         \A k \in Turns : \A i \in DOMAIN link[k].frames : link[k].frames[i] \in Turns,
         Unasked \subseteq Unasked'
  PROVE  AskedOnce'
<1>1. \A k \in Turns : \A i \in DOMAIN link'[k].frames :
        link[k].frames[i] \in Unasked' /\ turn'[link[k].frames[i]] \notin {"new", "connecting"}
  BY DEF AskedOnce
<1>2. \A k \in Turns : \A i \in DOMAIN link'[k].frames : link'[k].frames[i] = link[k].frames[i]
  OBVIOUS
<1>3. \A k \in Turns : \A i \in DOMAIN link'[k].frames :
        link'[k].frames[i] \in Unasked' /\ turn'[link'[k].frames[i]] \notin {"new", "connecting"}
  BY <1>1, <1>2
<1> QED
  BY <1>3 DEF AskedOnce

\* A turn that has not asked puts its request on one link.
LEMMA FrameAdded ==
  ASSUME TypeOK, AskedOnce, NEW t \in Turns, NEW k \in Turns,
         turn[t] \in {"new", "connecting"}, turn' = [turn EXCEPT ![t] = "sending"],
         link'[k].frames \in {<<t>>, Append(link[k].frames, t)},
         \A l \in Turns \ {k} : link'[l].frames = link[l].frames,
         UNCHANGED <<emitted, running>>
  PROVE  AskedOnce'
<1>1. \A l \in Turns : link[l].frames \in Seq(Turns) /\ DOMAIN link[l].frames = 1..Len(link[l].frames)
        /\ Len(link[l].frames) \in Nat /\ \A i \in DOMAIN link[l].frames : link[l].frames[i] \in Turns
  BY LenProperties, ElementOfSeq DEF TypeOK, Links
<1>2. t \in Unasked /\ Unasked' = Unasked
  BY DEF AskedOnce, Unasked
<1>3. turn'[t] = "sending" /\ \A u \in Turns \ {t} : turn'[u] = turn[u]
  BY DEF TypeOK
<1>4. \A l \in Turns : \A i \in DOMAIN link[l].frames : link[l].frames[i] # t
  BY DEF AskedOnce
<1> DEFINE s == link'[k].frames
<1>5. \E m \in Nat : /\ DOMAIN s = 1..m /\ m > 0 /\ s[m] = t
                     /\ \A i \in 1..(m - 1) : i \in DOMAIN link[k].frames /\ s[i] = link[k].frames[i]
  <2>1. CASE s = <<t>>
    <3>1. DOMAIN s = 1..1 /\ s[1] = t
      BY <2>1
    <3> QED
      BY <3>1
  <2>2. CASE s = Append(link[k].frames, t)
    <3> DEFINE f == link[k].frames
    <3>1. /\ s \in Seq(Turns) /\ Len(s) = Len(f) + 1 /\ s[Len(f) + 1] = t
          /\ \A i \in 1..Len(f) : s[i] = f[i]
      BY <1>1, <2>2, AppendProperties
    <3>2. DOMAIN s = 1..(Len(f) + 1) /\ Len(f) + 1 \in Nat /\ Len(f) + 1 > 0 /\ (Len(f) + 1) - 1 = Len(f) /\ DOMAIN f = 1..Len(f)
      BY <1>1, <3>1, LenProperties
    <3> HIDE DEF f, s
    <3> QED
      BY <3>1, <3>2 DEF f
  <2> QED
    BY <2>1, <2>2
<1> HIDE DEF s
<1>6. PICK m \in Nat : /\ DOMAIN s = 1..m /\ m > 0 /\ s[m] = t
                      /\ \A i \in 1..(m - 1) : i \in DOMAIN link[k].frames /\ s[i] = link[k].frames[i]
  BY <1>5
<1>7. \A i \in DOMAIN s : i = m \/ (i \in DOMAIN link[k].frames /\ s[i] = link[k].frames[i])
  BY <1>6
<1>8. \A l \in Turns : \A i \in DOMAIN link'[l].frames :
        (l = k /\ i = m /\ link'[l].frames[i] = t) \/ (i \in DOMAIN link[l].frames /\ link'[l].frames[i] = link[l].frames[i])
  BY <1>6, <1>7 DEF s
<1>9. \A l \in Turns : \A i \in DOMAIN link'[l].frames :
        link'[l].frames[i] \in Unasked' /\ turn'[link'[l].frames[i]] \notin {"new", "connecting"}
  <2> TAKE l \in Turns
  <2> TAKE i \in DOMAIN link'[l].frames
  <2>1. CASE link'[l].frames[i] = t
    BY <1>2, <1>3, <2>1
  <2>2. CASE link'[l].frames[i] # t
    <3> DEFINE u == link[l].frames[i]
    <3>1. i \in DOMAIN link[l].frames /\ link'[l].frames[i] = u
      BY <1>8, <2>2
    <3>2. u \in Turns /\ u # t /\ u \in Unasked /\ turn[u] \notin {"new", "connecting"}
      BY <1>1, <1>4, <3>1 DEF AskedOnce
    <3> HIDE DEF u
    <3>3. turn'[u] = turn[u] /\ u \in Unasked'
      BY <1>2, <1>3, <3>2
    <3> QED
      BY <3>1, <3>2, <3>3
  <2> QED
    BY <2>1, <2>2
<1>10. \A x, l \in Turns : \A i \in DOMAIN link'[x].frames, j \in DOMAIN link'[l].frames :
         link'[x].frames[i] = link'[l].frames[j] => x = l /\ i = j
  BY <1>4, <1>8 DEF AskedOnce
<1>11. \A u \in Turns : turn'[u] \in {"new", "connecting"} => u \in Unasked'
  BY <1>2, <1>3 DEF AskedOnce
<1> QED
  BY <1>9, <1>10, <1>11 DEF AskedOnce

\* What happens on a link besides a request leaves the requests alone.
LEMMA LinkFrames ==
  ASSUME NEW l \in [Turns -> Links], NEW j \in Turns
  PROVE  /\ \A k \in Turns : \A e : ToClient(l, k, e)[j].frames = l[j].frames
         /\ \A k \in Turns : Pop(l, k)[j].frames = l[j].frames
         /\ \A c : CloseLink(l, c)[j].frames = l[j].frames
         /\ \A c : CloseLink(l, c)[j].events = l[j].events
<1>1. \A x \in Links : /\ \A e : [x EXCEPT !.events = e].frames = x.frames
                       /\ \A e : [x EXCEPT !.state = e].frames = x.frames /\ [x EXCEPT !.state = e].events = x.events
  BY DEF Links
<1> QED
  BY <1>1 DEF ToClient, Pop, CloseLink

LEMMA FramesOfTurns ==
  ASSUME TypeOK
  PROVE  \A k \in Turns : \A i \in DOMAIN link[k].frames : link[k].frames[i] \in Turns
<1>1. \A k \in Turns : link[k].frames \in Seq(Turns)
  BY DEF TypeOK, Links
<1> QED
  BY <1>1, LenProperties, ElementOfSeq

LEMMA PrepareAsksOnce ==
  ASSUME TypeOK, AskedOnce, NEW t \in Turns, turn[t] = "new", NEW h, NEW g, Prepare(t, h, g),
         UNCHANGED <<emitted, running>>
  PROVE  AskedOnce'
<1> DEFINE c == IF pool = None THEN t ELSE pool
<1>1. c \in Clients
  BY DEF TypeOK, Clients
<1>2. CASE CanSend(c)
  <2> DEFINE k == ws[c].conn
  <2>1. ws[c].conn \in Turns /\ ws[c].up
    BY <1>1, <1>2 DEF CanSend, TypeOK, Sockets
  <2>2. turn' = [turn EXCEPT ![t] = "sending"] /\ link' = [link EXCEPT ![k].frames = Append(@, t)]
    BY <1>2, <2>1 DEF Prepare
  <2> HIDE DEF c, k
  <2>3. link \in [Turns -> Links] /\ k \in Turns
    BY <2>1 DEF TypeOK, k
  <2>4. link'[k].frames = Append(link[k].frames, t) /\ \A l \in Turns \ {k} : link'[l].frames = link[l].frames
    BY <2>2, <2>3 DEF Links
  <2> QED
    BY <2>2, <2>3, <2>4, FrameAdded
<1>3. CASE ~CanSend(c)
  <2>1. UNCHANGED link /\ \A u \in Turns : turn'[u] \in {"new", "connecting"} => turn[u] \in {"new", "connecting"}
    BY <1>3 DEF Prepare, TypeOK
  <2>2. Unasked \subseteq Unasked'
    BY DEF Unasked
  <2> QED
    BY <2>1, <2>2, FramesOfTurns, NoFrameAdded
<1> QED
  BY <1>2, <1>3

\* The steps of the service: only connect and send put a request on a link.
LEMMA ServiceAsksOnce ==
  ASSUME TypeOK, AskedOnce, NEW t \in Turns, Request(t) \/ Handing(t) \/ CallFails(t) \/ Consume(t)
  PROVE  AskedOnce'
<1>0. turn \in [Turns -> TurnStates] /\ link \in [Turns -> Links] /\ ws \in [Clients -> Sockets]
  BY DEF TypeOK
<1>1. CASE SendMessage(t)
  BY <1>1, PrepareAsksOnce DEF SendMessage, server
<1>2. ASSUME UNCHANGED <<running, emitted>>, \A k \in Turns : link'[k].frames = link[k].frames,
             \A u \in Turns : turn'[u] \in {"new", "connecting"} => turn[u] \in {"new", "connecting"}
      PROVE  AskedOnce'
  <2>1. Unasked \subseteq Unasked'
    BY <1>2 DEF Unasked
  <2> QED
    BY <1>2, <2>1, FramesOfTurns, NoFrameAdded
<1>3. CASE Regenerate(t)
  <2>1. CASE turn' = [turn EXCEPT ![t] = "refused"] /\ UNCHANGED link
    BY <1>0, <1>2, <1>3, <2>1 DEF Regenerate, server
  <2>2. CASE \E h, g : Prepare(t, h, g)
    BY <1>3, <2>2, PrepareAsksOnce DEF Regenerate, server
  <2> QED
    BY <1>3, <2>1, <2>2 DEF Regenerate
<1>4. CASE Connected(t)
  <2>1. turn' = [turn EXCEPT ![t] = "sending"] /\ turn[t] = "connecting" /\ UNCHANGED <<emitted, running>>
        /\ link' = [link EXCEPT ![t] = [@ EXCEPT !.state = "open", !.server = "accepted", !.frames = <<t>>]]
    BY <1>4 DEF Connected, server
  <2>2. link[t] \in Links
    BY <1>0
  <2>3. [link[t] EXCEPT !.state = "open", !.server = "accepted", !.frames = <<t>>].frames = <<t>>
    BY <2>2 DEF Links
  <2>4. link'[t].frames = <<t>> /\ \A l \in Turns \ {t} : link'[l].frames = link[l].frames
    BY <1>0, <2>1, <2>3
  <2> QED
    BY <2>1, <2>4, FrameAdded
<1>5. CASE HandOver(t) \/ CallFails(t)
  <2>1. UNCHANGED <<link, running, emitted>>
        /\ \A u \in Turns : turn'[u] \in {"new", "connecting"} => turn[u] \in {"new", "connecting"}
    BY <1>0, <1>5 DEF HandOver, CallFails, server
  <2> QED
    BY <1>2, <2>1
<1>6. CASE Consume(t)
  <2>1. UNCHANGED <<turn, running, emitted>>
    BY <1>6 DEF Consume, Listen, Resume, Receive, StreamCloses, Finish, ConsumerClosed, server
  <2>2. ASSUME NEW h, NEW l, NEW w, Finally(t, h, l, w), l \in [Turns -> Links], \A k \in Turns : l[k].frames = link[k].frames
        PROVE  AskedOnce'
    <3>1. \A k \in Turns : link'[k].frames = l[k].frames
      BY <2>2, LinkFrames DEF Finally
    <3> QED
      BY <1>2, <2>1, <2>2, <3>1
  <2>3. ASSUME NEW w, Fault(t, w)
        PROVE  AskedOnce'
    BY <1>0, <2>2, <2>3 DEF Fault
  <2>4. ASSUME UNCHANGED link
        PROVE  AskedOnce'
    BY <1>2, <2>1, <2>4
  <2>5. CASE Listen(t) \/ Resume(t) \/ ConsumerClosed(t)
    BY <2>3, <2>4, <2>5 DEF Listen, Resume, ConsumerClosed, Iterate
  <2>6. CASE StreamCloses(t) \/ Finish(t)
    BY <1>0, <2>2, <2>3, <2>6 DEF StreamCloses, Finish
  <2>7. CASE Receive(t)
    <3> DEFINE e == Head(link[source[t]].events)
    <3>1. StateEvent(t, e) \/ ErrorEvent(t, e) \/ DeltaEvent(t, e) \/ CompletedEvent(t, e)
      BY <2>7 DEF Receive
    <3>2. source[t] \in Turns /\ link[source[t]].events # <<>>
      BY <2>7 DEF Receive, TypeOK
    <3>3. Pop(link, source[t]) \in [Turns -> Links] /\ \A k \in Turns : Pop(link, source[t])[k].frames = link[k].frames
      BY <1>0, <3>2, PopType, LinkFrames
    <3> HIDE DEF e
    <3>4. CASE ErrorEvent(t, e)
      BY <2>2, <3>3, <3>4 DEF ErrorEvent
    <3>5. CASE link' = Pop(link, source[t])
      BY <1>2, <2>1, <3>3, <3>5
    <3> QED
      BY <3>1, <3>4, <3>5 DEF StateEvent, DeltaEvent, CompletedEvent
  <2> QED
    BY <1>6, <2>5, <2>6, <2>7 DEF Consume
<1> QED
  BY <1>1, <1>3, <1>4, <1>5, <1>6 DEF Request, Handing

\* The steps of the agent server: it takes each request once.
LEMMA DispatchAsksOnce ==
  ASSUME TypeOK, AskedOnce, NEW k \in Turns, Dispatch(k)
  PROVE  AskedOnce'
<1> DEFINE f == link[k].frames
           t == Head(f)
           l == [link EXCEPT ![k].frames = Tail(@)]
<1>1. f # <<>> /\ UNCHANGED <<turn, emitted>> /\ link \in [Turns -> Links]
      /\ \/ running = None /\ running' = [turn |-> t, via |-> k] /\ link' = l
         \/ link' = ToClient(l, k, Event(t, "error", 0)) /\ UNCHANGED running
  BY DEF Dispatch, requests, TypeOK
<1>2. f \in Seq(Turns)
  BY <1>1 DEF Links
<1>3. t \in Turns /\ t = f[1] /\ Tail(f) \in Seq(Turns) /\ Len(Tail(f)) = Len(f) - 1
      /\ \A i \in 1..Len(Tail(f)) : Tail(f)[i] = f[i + 1]
  BY <1>1, <1>2, HeadTailProperties
<1>4. DOMAIN f = 1..Len(f) /\ Len(f) \in Nat /\ Len(f) >= 1 /\ DOMAIN Tail(f) = 1..(Len(f) - 1)
  BY <1>1, <1>2, <1>3, LenProperties, EmptySeq
<1>5. l \in [Turns -> Links] /\ l[k].frames = Tail(f) /\ \A j \in Turns \ {k} : l[j].frames = link[j].frames
  <2>1. [link[k] EXCEPT !.frames = Tail(@)] \in Links /\ [link[k] EXCEPT !.frames = Tail(@)].frames = Tail(f)
    BY <1>1, <1>3 DEF Links
  <2> QED
    BY <1>1, <2>1
<1> HIDE DEF l, t
<1>6. link'[k].frames = Tail(f) /\ \A j \in Turns \ {k} : link'[j].frames = link[j].frames
  BY <1>1, <1>5, LinkFrames
<1> HIDE DEF f
<1>7. \A i \in DOMAIN Tail(f) : i + 1 \in DOMAIN f /\ Tail(f)[i] = f[i + 1] /\ i + 1 # 1
  BY <1>3, <1>4
<1>8. \A x \in Turns : \A i \in DOMAIN link'[x].frames :
        \E m \in DOMAIN link[x].frames : link'[x].frames[i] = link[x].frames[m] /\
            ((x = k /\ m = i + 1) \/ (x # k /\ m = i))
  BY <1>6, <1>7 DEF f
<1>9. 1 \in DOMAIN f
  BY <1>4
<1>17. \A x, y \in Turns : \A i \in DOMAIN link[x].frames, j \in DOMAIN link[y].frames :
         link[x].frames[i] = link[y].frames[j] => x = y /\ i = j
  BY DEF AskedOnce
<1>10. \A i \in DOMAIN Tail(f) : i \in Nat
  BY <1>4
<1>11. \A x \in Turns : \A i \in DOMAIN link'[x].frames : link'[x].frames[i] # t
  <2> TAKE x \in Turns
  <2> TAKE i \in DOMAIN link'[x].frames
  <2>1. PICK m \in DOMAIN link[x].frames : link'[x].frames[i] = link[x].frames[m] /\
            ((x = k /\ m = i + 1) \/ (x # k /\ m = i))
    BY <1>8
  <2>2. 1 \in DOMAIN link[k].frames /\ link[k].frames[1] = t
    BY <1>3, <1>9 DEF f
  <2>3. SUFFICES ASSUME link[x].frames[m] = link[k].frames[1]
                 PROVE  FALSE
    BY <2>1, <2>2
  <2>4. x = k /\ m = 1
    BY <1>17, <2>1, <2>2, <2>3
  <2>5. i \in DOMAIN Tail(f)
    BY <1>6, <2>4
  <2> QED
    BY <1>7, <2>1, <2>4, <2>5
<1>12. \A u \in Turns : u # t => (u \in Unasked => u \in Unasked')
  BY <1>1 DEF Unasked
<1>13. turn[t] \notin {"new", "connecting"}
  BY <1>3, <1>9 DEF AskedOnce, f
<1>14. \A x \in Turns : \A i \in DOMAIN link'[x].frames :
        link'[x].frames[i] \in Unasked' /\ turn'[link'[x].frames[i]] \notin {"new", "connecting"}
  <2> TAKE x \in Turns
  <2> TAKE i \in DOMAIN link'[x].frames
  <2> DEFINE u == link'[x].frames[i]
  <2>1. u \in Unasked /\ turn[u] \notin {"new", "connecting"}
    <3>1. PICK m \in DOMAIN link[x].frames : link'[x].frames[i] = link[x].frames[m]
      BY <1>8
    <3> QED
      BY <3>1 DEF AskedOnce
  <2>2. u # t /\ u \in Turns
    BY <1>11, <2>1 DEF Unasked
  <2> HIDE DEF u
  <2>3. u \in Unasked' /\ turn'[u] \notin {"new", "connecting"}
    BY <1>1, <1>12, <2>1, <2>2
  <2> QED
    BY <2>3 DEF u
<1>15. \A x, y \in Turns : \A i \in DOMAIN link'[x].frames, j \in DOMAIN link'[y].frames :
        link'[x].frames[i] = link'[y].frames[j] => x = y /\ i = j
  <2> TAKE x, y \in Turns
  <2> TAKE i \in DOMAIN link'[x].frames, j \in DOMAIN link'[y].frames
  <2> HAVE link'[x].frames[i] = link'[y].frames[j]
  <2>1. PICK m \in DOMAIN link[x].frames : link'[x].frames[i] = link[x].frames[m] /\
            ((x = k /\ m = i + 1) \/ (x # k /\ m = i))
    BY <1>8
  <2>2. PICK n \in DOMAIN link[y].frames : link'[y].frames[j] = link[y].frames[n] /\
            ((y = k /\ n = j + 1) \/ (y # k /\ n = j))
    BY <1>8
  <2>3. x = y /\ m = n
    <3>1. link[x].frames[m] = link[y].frames[n]
      BY <2>1, <2>2
    <3> QED
      BY <1>17, <3>1
  <2>4. CASE x = k
    <3>1. i \in Nat /\ j \in Nat
      BY <1>6, <1>10, <2>3, <2>4
    <3>2. i + 1 = j + 1
      BY <2>1, <2>2, <2>3, <2>4
    <3> QED
      BY <2>3, <3>1, <3>2
  <2> QED
    BY <2>1, <2>2, <2>3, <2>4
<1>16. \A u \in Turns : turn'[u] \in {"new", "connecting"} => u \in Unasked'
  BY <1>1, <1>12, <1>13 DEF AskedOnce
<1> QED
  BY <1>14, <1>15, <1>16 DEF AskedOnce

LEMMA NextAsksOnce ==
  ASSUME TypeOK, AskedOnce, [Next]_vars
  PROVE  AskedOnce'
<1>0. turn \in [Turns -> TurnStates] /\ link \in [Turns -> Links] /\ ws \in [Clients -> Sockets] /\ running \in [turn : Turns, via : Turns] \cup {None}
  BY DEF TypeOK
<1>1. ASSUME Unasked \subseteq Unasked', \A k \in Turns : link'[k].frames = link[k].frames,
             \A u \in Turns : turn'[u] \in {"new", "connecting"} => turn[u] \in {"new", "connecting"}
      PROVE  AskedOnce'
  BY <1>1, FramesOfTurns, NoFrameAdded
<1>2. UNCHANGED <<running, emitted>> => Unasked \subseteq Unasked'
  BY DEF Unasked
<1>3. CASE UNCHANGED vars
  <2>1. UNCHANGED <<turn, link, running, emitted>>
    BY <1>3 DEF vars, requests, server
  <2> QED
    BY <1>1, <1>2, <2>1
<1>4. ASSUME NEW q \in Requests, Take(q) \/ Leave(q)
      PROVE  AskedOnce'
  <2>1. UNCHANGED <<link, running, emitted>> /\ \A u \in Turns : turn'[u] \in {"new", "connecting"} => turn[u] \in {"new", "connecting"}
    BY <1>0, <1>4 DEF Take, Leave, SetRequest, server
  <2> QED
    BY <1>1, <1>2, <2>1
<1>5. ASSUME NEW r \in Readers, Reconnect(r) \/ Replay(r)
      PROVE  AskedOnce'
  <2>1. UNCHANGED <<turn, link, running, emitted>>
    BY <1>5 DEF Reconnect, Replay, requests, server
  <2> QED
    BY <1>1, <1>2, <2>1
<1>6. ASSUME NEW a \in Aborts, Aborting(a)
      PROVE  AskedOnce'
  <2>1. CASE AbortRemote(a)
    <3>1. UNCHANGED <<turn, emitted>> /\ running' \in {running, None}
      BY <2>1 DEF AbortRemote, requests
    <3>2. Unasked \subseteq Unasked'
      BY <3>1 DEF Unasked
    <3>3. link' = link \/ (running # None /\ link' = ToClient(link, running.via, Event(running.turn, "idle", 0)))
      BY <2>1 DEF AbortRemote
    <3>4. \A k \in Turns : link'[k].frames = link[k].frames
      BY <1>0, <3>3, LinkFrames
    <3> QED
      BY <1>1, <3>1, <3>2, <3>4
  <2>2. CASE AbortLocally(a) \/ AbortClosed(a)
    <3>1. UNCHANGED <<turn, running, emitted>> /\ (UNCHANGED link \/ \E c : link' = CloseLink(link, c))
      BY <2>2 DEF AbortLocally, AbortClosed, requests, server
    <3>2. \A k \in Turns : link'[k].frames = link[k].frames
      BY <1>0, <3>1, LinkFrames
    <3> QED
      BY <1>1, <1>2, <3>1, <3>2
  <2> QED
    BY <1>6, <2>1, <2>2 DEF Aborting
<1>7. ASSUME NEW k \in Turns, Hold(k) \/ SeesClose(k) \/ Release(k) \/ Break(k)
      PROVE  AskedOnce'
  <2>1. UNCHANGED <<turn, emitted>> /\ running' \in {running, None}
    BY <1>7 DEF Hold, SeesClose, Release, Break, requests, server
  <2>2. Unasked \subseteq Unasked'
    BY <2>1 DEF Unasked
  <2>3. \A x \in Links : \A v, z : /\ [x EXCEPT !.server = v, !.state = z].frames = x.frames
                                /\ [x EXCEPT !.server = v].frames = x.frames
                                /\ [x EXCEPT !.state = v].frames = x.frames
    BY DEF Links
  <2>4. \A j \in Turns : link'[j].frames = link[j].frames
    <3>1. \E v, z : link' \in {[link EXCEPT ![k] = [@ EXCEPT !.server = v, !.state = z]], [link EXCEPT ![k].server = v],
                            [link EXCEPT ![k].state = v]}
      <4>1. CASE Hold(k)
        <5>1. \/ link' = [link EXCEPT ![k].server = "gone", ![k].state = IF @ = "closing" THEN "clean" ELSE "broken"]
              \/ link' = [link EXCEPT ![k].server = "held"]
          BY <4>1 DEF Hold
        <5> DEFINE z == IF link[k].state = "closing" THEN "clean" ELSE "broken"
        <5>2. [link EXCEPT ![k].server = "gone", ![k].state = IF @ = "closing" THEN "clean" ELSE "broken"] =
              [link EXCEPT ![k] = [@ EXCEPT !.server = "gone", !.state = z]]
          BY <1>0 DEF Links
        <5> HIDE DEF z
        <5>3. \/ link' = [link EXCEPT ![k] = [@ EXCEPT !.server = "gone", !.state = z]]
              \/ link' = [link EXCEPT ![k].server = "held"]
          BY <5>1, <5>2
        <5> QED
          BY <5>3
      <4>2. CASE SeesClose(k)
        <5>1. link' = [link EXCEPT ![k].server = "draining", ![k].state = IF @ = "broken" THEN @ ELSE "clean"]
          BY <4>2 DEF SeesClose
        <5> DEFINE z == IF link[k].state = "broken" THEN link[k].state ELSE "clean"
        <5>2. [link EXCEPT ![k].server = "draining", ![k].state = IF @ = "broken" THEN @ ELSE "clean"] =
              [link EXCEPT ![k] = [@ EXCEPT !.server = "draining", !.state = z]]
          BY <1>0 DEF Links
        <5> HIDE DEF z
        <5>3. link' = [link EXCEPT ![k] = [@ EXCEPT !.server = "draining", !.state = z]]
          BY <5>1, <5>2
        <5> QED
          BY <5>3
      <4> QED
        BY <1>7, <4>1, <4>2 DEF Release, Break
    <3>2. ASSUME NEW v, NEW z
          PROVE  /\ \A j \in Turns : [link EXCEPT ![k] = [@ EXCEPT !.server = v, !.state = z]][j].frames = link[j].frames
                 /\ \A j \in Turns : [link EXCEPT ![k].server = v][j].frames = link[j].frames
                 /\ \A j \in Turns : [link EXCEPT ![k].state = v][j].frames = link[j].frames
      BY <1>0, <2>3
    <3>3. PICK v, z : link' \in {[link EXCEPT ![k] = [@ EXCEPT !.server = v, !.state = z]], [link EXCEPT ![k].server = v],
                                [link EXCEPT ![k].state = v]}
      BY <3>1
    <3>4. /\ \A j \in Turns : [link EXCEPT ![k] = [@ EXCEPT !.server = v, !.state = z]][j].frames = link[j].frames
          /\ \A j \in Turns : [link EXCEPT ![k].server = v][j].frames = link[j].frames
          /\ \A j \in Turns : [link EXCEPT ![k].state = v][j].frames = link[j].frames
      BY <3>2
    <3> QED
      BY <3>3, <3>4, Zenon
  <2> QED
    BY <1>1, <2>1, <2>2, <2>4
<1>8. CASE Emit \/ EmitError
  <2>1. UNCHANGED turn /\ running # None /\ running' \in {running, None}
        /\ \A u \in Turns : u # running.turn => emitted'[u] = emitted[u]
    BY <1>8 DEF Emit, EmitError, requests, TypeOK
  <2>2. Unasked \subseteq Unasked'
    BY <2>1 DEF Unasked
  <2>3. \E e : link' \in {ToClient(link, running.via, e), [ToClient(link, running.via, e) EXCEPT ![running.via].terminal = TRUE]}
    BY <1>8 DEF Emit, EmitError
  <2>4. ASSUME NEW e
        PROVE  \A j \in Turns : [ToClient(link, running.via, e) EXCEPT ![running.via].terminal = TRUE][j].frames = link[j].frames
    <3>1. \A j \in Turns : ToClient(link, running.via, e)[j].frames = link[j].frames
      BY <1>0, <2>1, LinkFrames
    <3>2. DOMAIN ToClient(link, running.via, e) = Turns
      BY <1>0 DEF ToClient
    <3> QED
      BY <3>1, <3>2
  <2>5. \A j \in Turns : link'[j].frames = link[j].frames
    <3>1. PICK e : link' \in {ToClient(link, running.via, e), [ToClient(link, running.via, e) EXCEPT ![running.via].terminal = TRUE]}
      BY <2>3
    <3>2. running.via \in Turns
      BY <1>0, <2>1
    <3>3. \A j \in Turns : ToClient(link, running.via, e)[j].frames = link[j].frames
      BY <1>0, <3>2, LinkFrames
    <3>4. CASE link' = ToClient(link, running.via, e)
      BY <3>3, <3>4
    <3>5. CASE link' = [ToClient(link, running.via, e) EXCEPT ![running.via].terminal = TRUE]
      BY ONLY <2>4, <3>5
    <3> QED
      BY <3>1, <3>4, <3>5
  <2> QED
    BY <1>1, <2>1, <2>2, <2>5
<1>9. CASE Restart
  <2>1. UNCHANGED <<running, emitted>>
    BY <1>9 DEF Restart, server
  <2>2. \A u \in Turns : turn'[u] \in {"new", "connecting"} => turn[u] \in {"new", "connecting"}
    BY <1>9 DEF Restart, Lost
  <2>3. \A x \in Links : \A z : [x EXCEPT !.state = z].frames = x.frames
    BY DEF Links
  <2>4. \A j \in Turns : link'[j].frames = link[j].frames
    BY <1>0, <1>9, <2>3 DEF Restart
  <2> QED
    BY <1>1, <1>2, <2>1, <2>2, <2>4
<1> QED
  BY <1>3, <1>4, <1>5, <1>6, <1>7, <1>8, <1>9, ServiceAsksOnce, DispatchAsksOnce DEF Next, Serve

(* The copies of an event are in the caller's hands, in the queues and in  *)
(* the buffer of the registry, and, before that, on one link.              *)

Items == Reports \cup Messages \cup {End}

Progress(e) == e.kind \in {"delta", "completed"}

\* Of two events of one turn, the first tells of an earlier part of the reply.
Precedes(d, e) == Progress(d) /\ Progress(e) /\ d.turn = e.turn => d.n < e.n

Ascending(s) == \A i, j \in DOMAIN s : i < j => Precedes(s[i], s[j])

Before(s, z) == \A i \in DOMAIN s, j \in DOMAIN z : Precedes(s[i], z[j])

Produced(s, m) == \A i \in DOMAIN s : Progress(s[i]) => s[i].n < m[s[i].turn]

\* A copy is in order, and precedes what the links l carry and m counts.
Copy(s, l, m) == Ascending(s) /\ Produced(s, m) /\ \A k \in Turns : Before(s, l[k].events)

\* The events of a turn are on the link of its request.
OneLink ==
  /\ \A k, l \in Turns : \A i \in DOMAIN link[k].events, j \in DOMAIN link[l].events :
       Progress(link[k].events[i]) /\ Progress(link[l].events[j]) /\ link[k].events[i].turn = link[l].events[j].turn => k = l
  /\ running # None => \A k \in Turns : \A i \in DOMAIN link[k].events :
       Progress(link[k].events[i]) /\ link[k].events[i].turn = running.turn => k = running.via

\* A reader that has still events to replay has subscribed to nothing yet.
Reconnecting ==
  \A r \in Readers :
    /\ reader[r] \in {"new", "replaying"} => r \notin hub.subs /\ hub.inbox[r] = <<>>
    /\ reader[r] = "new" => got[r] = <<>>
    /\ reader[r] # "replaying" => replay[r] = <<>>

Carried == \A k \in Turns : Ascending(link[k].events) /\ Produced(link[k].events, emitted)

InOrder ==
  /\ \A q \in Requests : Copy(got[q], link, emitted) /\ Copy(hub.inbox[q], link, emitted) /\ Before(got[q], hub.inbox[q])
  /\ \A r \in Readers : Copy(replay[r], link, emitted) /\ Before(got[r], replay[r])
  /\ Copy(hub.buffer, link, emitted)
  /\ Carried
  /\ OneLink

\* s2 is what is left of s and, at most once and right after s, e; what is no
\* progress does not count.
Adds(s, s2, e) ==
  \A i \in DOMAIN s2 : \/ i \in DOMAIN s /\ s2[i] = s[i]
                       \/ ~Progress(s2[i])
                       \/ s2[i] = e /\ i = Len(s) + 1

LEMMA AppendAdds ==
  ASSUME NEW S, NEW s \in Seq(S), NEW e \in S
  PROVE  Adds(s, Append(s, e), e) /\ DOMAIN Append(s, e) = 1..(Len(s) + 1)
         /\ DOMAIN s = 1..Len(s) /\ Len(s) \in Nat
<1>1. /\ Append(s, e) \in Seq(S) /\ Len(Append(s, e)) = Len(s) + 1
      /\ \A i \in 1..Len(s) : Append(s, e)[i] = s[i]
      /\ Append(s, e)[Len(s) + 1] = e
  BY AppendProperties
<1>2. DOMAIN Append(s, e) = 1..(Len(s) + 1) /\ DOMAIN s = 1..Len(s) /\ Len(s) \in Nat
  BY <1>1, LenProperties
<1> QED
  BY <1>1, <1>2 DEF Adds

\* An event that follows a sequence may be added to it.
LEMMA AddedInOrder ==
  ASSUME NEW S, NEW s \in Seq(S), NEW s2 \in Seq(S), NEW e, Adds(s, s2, e)
  PROVE  /\ Ascending(s) /\ Before(s, <<e>>) => Ascending(s2)
         /\ \A z : Before(s, z) /\ Before(<<e>>, z) => Before(s2, z)
         /\ \A z : Before(z, s) /\ Before(z, <<e>>) => Before(z, s2)
         /\ \A m : Produced(s, m) /\ Produced(<<e>>, m) => Produced(s2, m)
<1>1. DOMAIN s = 1..Len(s) /\ DOMAIN s2 = 1..Len(s2) /\ Len(s) \in Nat /\ Len(s2) \in Nat
  BY LenProperties
<1>2. DOMAIN <<e>> = {1} /\ <<e>>[1] = e
  OBVIOUS
<1>3. ASSUME Ascending(s), Before(s, <<e>>), NEW i \in DOMAIN s2, NEW j \in DOMAIN s2, i < j
      PROVE  Precedes(s2[i], s2[j])
  <2>1. CASE ~Progress(s2[i]) \/ ~Progress(s2[j])
    BY <2>1 DEF Precedes
  <2>2. CASE i \in DOMAIN s /\ s2[i] = s[i] /\ j \in DOMAIN s /\ s2[j] = s[j]
    BY <1>3, <2>2 DEF Ascending
  <2>3. CASE i \in DOMAIN s /\ s2[i] = s[i] /\ s2[j] = e
    BY <1>2, <1>3, <2>3 DEF Before
  <2>4. CASE i = Len(s) + 1 /\ j \in DOMAIN s
    BY <1>1, <1>3, <2>4
  <2>5. CASE i = Len(s) + 1 /\ j = Len(s) + 1
    BY <1>1, <1>3, <2>5
  <2> QED
    BY <2>1, <2>2, <2>3, <2>4, <2>5 DEF Adds
<1>4. ASSUME NEW z, Before(s, z), Before(<<e>>, z)
      PROVE  Before(s2, z)
  BY <1>2, <1>4 DEF Before, Adds, Precedes
<1>5. ASSUME NEW z, Before(z, s), Before(z, <<e>>)
      PROVE  Before(z, s2)
  BY <1>2, <1>5 DEF Before, Adds, Precedes
<1>6. ASSUME NEW m, Produced(s, m), Produced(<<e>>, m)
      PROVE  Produced(s2, m)
  BY <1>2, <1>6 DEF Produced, Adds
<1> QED
  BY <1>3, <1>4, <1>5, <1>6 DEF Ascending

\* What is taken from the front of a sequence preceded the rest.
LEMMA TakenInOrder ==
  ASSUME NEW S, NEW s \in Seq(S), s # <<>>
  PROVE  /\ Ascending(s) => Ascending(Tail(s)) /\ Before(<<Head(s)>>, Tail(s))
         /\ \A z : Before(z, s) => Before(z, Tail(s)) /\ Before(z, <<Head(s)>>)
         /\ \A z : Before(s, z) => Before(Tail(s), z) /\ Before(<<Head(s)>>, z)
         /\ \A m : Produced(s, m) => Produced(Tail(s), m) /\ Produced(<<Head(s)>>, m)
<1>1. /\ Head(s) = s[1] /\ Tail(s) \in Seq(S) /\ Len(Tail(s)) = Len(s) - 1
      /\ \A i \in 1..Len(Tail(s)) : Tail(s)[i] = s[i + 1]
  BY HeadTailProperties
<1>2. DOMAIN s = 1..Len(s) /\ Len(s) \in Nat /\ Len(s) >= 1 /\ DOMAIN Tail(s) = 1..(Len(s) - 1)
  BY <1>1, LenProperties, EmptySeq
<1>3. DOMAIN <<Head(s)>> = {1} /\ <<Head(s)>>[1] = s[1] /\ 1 \in DOMAIN s
  BY <1>1, <1>2
<1>4. \A i \in DOMAIN Tail(s) : i + 1 \in DOMAIN s /\ Tail(s)[i] = s[i + 1] /\ 1 < i + 1
  BY <1>1, <1>2
<1>5. \A i, j \in DOMAIN Tail(s) : i < j => i + 1 < j + 1
  BY <1>2
<1> HIDE <1>1, <1>2
<1>6. ASSUME Ascending(s)
      PROVE  Ascending(Tail(s)) /\ Before(<<Head(s)>>, Tail(s))
  BY <1>3, <1>4, <1>5, <1>6 DEF Ascending, Before
<1>7. ASSUME NEW z, Before(z, s)
      PROVE  Before(z, Tail(s)) /\ Before(z, <<Head(s)>>)
  BY <1>3, <1>4, <1>7 DEF Before
<1>8. ASSUME NEW z, Before(s, z)
      PROVE  Before(Tail(s), z) /\ Before(<<Head(s)>>, z)
  BY <1>3, <1>4, <1>8 DEF Before
<1>9. ASSUME NEW m, Produced(s, m)
      PROVE  Produced(Tail(s), m) /\ Produced(<<Head(s)>>, m)
  BY <1>3, <1>4, <1>9 DEF Produced
<1> QED
  BY <1>6, <1>7, <1>8, <1>9

\* An event handed on, from the front of one sequence to the end of another.
LEMMA HandedOn ==
  ASSUME NEW S, NEW s \in Seq(S), NEW z \in Seq(S), z # <<>>, NEW l, NEW m,
         Copy(s, l, m), Copy(z, l, m), Before(s, z)
  PROVE  /\ Copy(Append(s, Head(z)), l, m) /\ Copy(Tail(z), l, m)
         /\ Before(Append(s, Head(z)), Tail(z))
<1> DEFINE e == Head(z)
<1>1. e \in S /\ Tail(z) \in Seq(S)
  BY HeadTailProperties
<1>2. Append(s, e) \in Seq(S) /\ Adds(s, Append(s, e), e)
  BY <1>1, AppendProperties, AppendAdds
<1>3. Before(s, <<e>>) /\ Before(s, Tail(z)) /\ Before(<<e>>, Tail(z)) /\ Produced(<<e>>, m)
      /\ \A k \in Turns : Before(<<e>>, l[k].events)
  BY TakenInOrder DEF Copy
<1>4. Copy(Tail(z), l, m)
  BY TakenInOrder DEF Copy
<1> HIDE DEF e
<1>5. Copy(Append(s, e), l, m) /\ Before(Append(s, e), Tail(z))
  <2> DEFINE a == Append(s, e)
  <2>1. a \in Seq(S) /\ Adds(s, a, e)
    BY <1>2
  <2> HIDE DEF a
  <2>2. /\ Ascending(s) /\ Before(s, <<e>>) => Ascending(a)
        /\ \A x : Before(s, x) /\ Before(<<e>>, x) => Before(a, x)
        /\ Produced(s, m) /\ Produced(<<e>>, m) => Produced(a, m)
    BY <2>1, AddedInOrder
  <2>3. Ascending(s) /\ Produced(s, m) /\ \A k \in Turns : Before(s, l[k].events)
    BY DEF Copy
  <2>4. Copy(a, l, m) /\ Before(a, Tail(z))
    BY <1>3, <2>2, <2>3 DEF Copy
  <2> QED
    BY <2>4 DEF a
<1> QED
  BY <1>4, <1>5 DEF e

\* What a step of the service does with the registry: to each queue and to the
\* buffer it adds one event, or what is no progress, or it clears them.
HubAdds(h, h2, e) ==
  (\A q \in Requests : Adds(h.inbox[q], h2.inbox[q], e)) /\ Adds(h.buffer, h2.buffer, e)

LEMMA HubSteps ==
  ASSUME NEW h \in Registries
  PROVE  /\ \A e : HubAdds(h, h, e)
         /\ HubAdds(h, EndStream(h), End)
         /\ HubAdds(h, StartStream(h), End)
         /\ \A g : HubAdds(h, ReleaseStream(h, g), End)
         /\ \A q \in Requests : HubAdds(h, Subscribe(h, q), End)
         /\ \A q : HubAdds(h, Unsubscribe(h, q), End)
         /\ HubAdds(h, Cleanup(h), End)
         /\ \A e \in Reports : \A g : HubAdds(h, PushEvent(h, g, e), e)
<1>0. h.inbox \in [Requests -> Seq(Reports \cup {End})] /\ h.buffer \in Seq(Reports)
  BY DEF Registries
<1>1. \A s, e : Adds(s, s, e) /\ Adds(s, <<>>, e)
  BY DEF Adds
<1>2. ASSUME NEW e \in Reports \cup {End}, NEW q \in Requests
      PROVE  Adds(h.inbox[q], Broadcast(h, e)[q], e)
  <2>1. h.inbox[q] \in Seq(Reports \cup {End})
    BY <1>0
  <2>2. Adds(h.inbox[q], Append(h.inbox[q], e), e)
    BY <2>1, AppendAdds
  <2> QED
    BY <1>1, <2>2 DEF Broadcast
<1>3. EndStream(h).inbox = Broadcast(h, End) /\ EndStream(h).buffer = h.buffer
  BY DEF EndStream, Registries
<1>4. HubAdds(h, EndStream(h), End)
  BY <1>1, <1>2, <1>3 DEF HubAdds
<1>5. StartStream(h).inbox = EndStream(h).inbox /\ StartStream(h).buffer = <<>>
  BY DEF EndStream, StartStream, Registries
<1>6. HubAdds(h, StartStream(h), End)
  BY <1>1, <1>2, <1>3, <1>5 DEF HubAdds
<1>7. \A e : HubAdds(h, h, e)
  BY <1>1 DEF HubAdds
<1>8. \A q : /\ Subscribe(h, q).inbox = h.inbox /\ Subscribe(h, q).buffer = h.buffer
             /\ Unsubscribe(h, q).inbox = h.inbox /\ Unsubscribe(h, q).buffer = h.buffer
  BY DEF Subscribe, Unsubscribe, Registries
<1>9. Cleanup(h).inbox = h.inbox /\ Cleanup(h).buffer = <<>>
  BY DEF Cleanup, Registries
<1>10. ASSUME NEW e \in Reports, NEW g
       PROVE  HubAdds(h, PushEvent(h, g, e), e)
  <2>1. CASE h.gen # g
    BY <1>7, <2>1 DEF PushEvent
  <2>2. CASE h.gen = g
    <3>1. PushEvent(h, g, e).inbox = Broadcast(h, e) /\ PushEvent(h, g, e).buffer = Append(h.buffer, e)
      BY <2>2 DEF PushEvent, Registries
    <3>2. Adds(h.buffer, Append(h.buffer, e), e)
      BY <1>0, AppendAdds
    <3> QED
      BY <1>2, <3>1, <3>2 DEF HubAdds
  <2> QED
    BY <2>1, <2>2
<1> QED
  BY <1>1, <1>4, <1>6, <1>7, <1>8, <1>9, <1>10 DEF HubAdds, ReleaseStream

\* What is added after the event is no progress.
LEMMA HubStepsThen ==
  ASSUME NEW h1, NEW h2, NEW h3, NEW e, HubAdds(h1, h2, e), HubAdds(h2, h3, End)
  PROVE  HubAdds(h1, h3, e)
<1>1. ~Progress(End)
  BY DEF Progress, End, Event
<1>2. ASSUME NEW s1, NEW s2, NEW s3, Adds(s1, s2, e), Adds(s2, s3, End)
      PROVE  Adds(s1, s3, e)
  BY <1>1, <1>2 DEF Adds
<1> QED
  BY <1>2 DEF HubAdds

LEMMA TypesOfQueues ==
  ASSUME TypeOK
  PROVE  /\ \A q \in Requests : got[q] \in Seq(Items) /\ hub.inbox[q] \in Seq(Items)
         /\ \A r \in Readers : replay[r] \in Seq(Items)
         /\ hub.buffer \in Seq(Items)
         /\ \A k \in Turns : link[k].events \in Seq(Items) /\ link[k].events \in Seq(Messages)
<1>1. Reports \subseteq Items /\ Messages \subseteq Items /\ Reports \cup {End} \subseteq Items
  BY DEF Items
<1>2. \A q \in Requests : got[q] \in Seq(Reports) /\ hub.inbox[q] \in Seq(Reports \cup {End})
  BY DEF TypeOK, Registries
<1>3. \A r \in Readers : replay[r] \in Seq(Reports)
  BY DEF TypeOK
<1>4. hub.buffer \in Seq(Reports) /\ \A k \in Turns : link[k].events \in Seq(Messages)
  BY DEF TypeOK, Registries, Links
<1> QED
  BY <1>1, <1>2, <1>3, <1>4, SeqMonotonic

\* A step of the service hands on one event of a link, or none.
LEMMA ServiceInOrder ==
  ASSUME TypeOK, TypeOK', InOrder, NEW e,
         HubAdds(hub, hub', e), UNCHANGED <<got, emitted>>, running' \in {running, None},
         \A r \in Readers : replay'[r] \in {replay[r], <<>>},
         \/ ~Progress(e) /\ \A k \in Turns : link'[k].events = link[k].events
         \/ \E k \in Turns : /\ link[k].events # <<>> /\ e = Head(link[k].events)
                            /\ link'[k].events = Tail(link[k].events)
                            /\ \A l \in Turns \ {k} : link'[l].events = link[l].events
  PROVE  InOrder'
<1>1. DOMAIN <<e>> = {1} /\ <<e>>[1] = e
  OBVIOUS
<1>2. \A k \in Turns : link[k].events \in Seq(Items)
  BY TypesOfQueues
\* What the links carry: the same, or less.
<1>3. \A k \in Turns :
        /\ \A z : Before(z, link[k].events) => Before(z, link'[k].events)
        /\ Ascending(link[k].events) => Ascending(link'[k].events)
        /\ Produced(link[k].events, emitted) => Produced(link'[k].events, emitted)
        /\ \A i \in DOMAIN link'[k].events : \E j \in DOMAIN link[k].events : link'[k].events[i] = link[k].events[j]
  <2> TAKE k \in Turns
  <2>1. CASE link'[k].events = link[k].events
    BY <2>1
  <2>2. CASE link[k].events # <<>> /\ link'[k].events = Tail(link[k].events)
    <3> DEFINE s == link[k].events
    <3>1. s \in Seq(Items) /\ s # <<>>
      BY <1>2, <2>2
    <3>2. link'[k].events = Tail(s) /\ link[k].events = s
      BY <2>2
    <3> HIDE DEF s
    <3>3. Len(Tail(s)) = Len(s) - 1 /\ Tail(s) \in Seq(Items) /\ \A i \in 1..Len(Tail(s)) : Tail(s)[i] = s[i + 1]
      BY <3>1, HeadTailProperties
    <3>4. DOMAIN s = 1..Len(s) /\ DOMAIN Tail(s) = 1..Len(Tail(s)) /\ Len(s) \in Nat
      BY <3>1, <3>3, LenProperties
    <3>5. \A i \in DOMAIN Tail(s) : i + 1 \in DOMAIN s /\ Tail(s)[i] = s[i + 1]
      BY <3>3, <3>4
    <3>6. \A i \in DOMAIN Tail(s) : \E j \in DOMAIN s : Tail(s)[i] = s[j]
      BY <3>5
    <3>7. /\ Ascending(s) => Ascending(Tail(s))
          /\ \A z : Before(z, s) => Before(z, Tail(s))
          /\ Produced(s, emitted) => Produced(Tail(s), emitted)
      BY <3>1, TakenInOrder
    <3>8. /\ \A z : Before(z, s) => Before(z, link'[k].events)
          /\ Ascending(s) => Ascending(link'[k].events)
          /\ Produced(s, emitted) => Produced(link'[k].events, emitted)
          /\ \A i \in DOMAIN link'[k].events : \E j \in DOMAIN s : link'[k].events[i] = s[j]
      BY <3>2, <3>6, <3>7
    <3> QED
      BY <3>8 DEF s
  <2> QED
    BY <2>1, <2>2
\* The event handed on follows every copy and precedes what is left.
<1>4. /\ \A s : Copy(s, link, emitted) => Before(s, <<e>>)
      /\ \A k \in Turns : Before(<<e>>, link'[k].events)
      /\ Produced(<<e>>, emitted)
  <2>1. CASE ~Progress(e)
    BY <1>1, <2>1 DEF Before, Precedes, Produced
  <2>2. CASE Progress(e)
    <3>1. PICK k \in Turns : /\ link[k].events # <<>> /\ e = Head(link[k].events)
                            /\ link'[k].events = Tail(link[k].events)
                            /\ \A l \in Turns \ {k} : link'[l].events = link[l].events
      BY <2>2
    <3> DEFINE s == link[k].events
    <3>2. s \in Seq(Items) /\ s # <<>> /\ Ascending(s) /\ Produced(s, emitted)
      BY <1>2, <3>1 DEF InOrder, Carried
    <3>3. \A z : Copy(z, link, emitted) => Before(z, <<e>>)
      BY <3>1, <3>2, TakenInOrder DEF Copy
    <3>4. Produced(<<e>>, emitted) /\ Before(<<e>>, link'[k].events)
      BY <3>1, <3>2, TakenInOrder
    <3>5. 1 \in DOMAIN s /\ s[1] = e
      BY <3>1, <3>2, HeadTailProperties, LenProperties, EmptySeq
    <3>6. \A l \in Turns \ {k} : \A j \in DOMAIN link[l].events : ~(Progress(link[l].events[j]) /\ link[l].events[j].turn = e.turn)
      BY <2>2, <3>5 DEF InOrder, OneLink
    <3>7. \A l \in Turns \ {k} : Before(<<e>>, link'[l].events)
      BY <1>1, <3>1, <3>6 DEF Before, Precedes
    <3> QED
      BY <3>3, <3>4, <3>7
  <2> QED
    BY <2>1, <2>2
<1>5. \A s : Copy(s, link, emitted) => Copy(s, link', emitted)
  BY <1>3 DEF Copy
<1>6. ASSUME NEW s \in Seq(Items), NEW s2 \in Seq(Items), Adds(s, s2, e), Copy(s, link, emitted)
      PROVE  Copy(s2, link', emitted)
  <2>1. Ascending(s) /\ Produced(s, emitted) /\ Before(s, <<e>>) /\ \A k \in Turns : Before(s, link'[k].events)
    BY <1>4, <1>5, <1>6 DEF Copy
  <2> QED
    BY <1>4, <1>6, <2>1, AddedInOrder DEF Copy
<1>7. /\ \A q \in Requests : hub.inbox[q] \in Seq(Items) /\ hub'.inbox[q] \in Seq(Items)
      /\ hub.buffer \in Seq(Items) /\ hub'.buffer \in Seq(Items)
  <2>1. hub \in Registries /\ hub' \in Registries
    BY DEF TypeOK
  <2>2. Reports \subseteq Items /\ Reports \cup {End} \subseteq Items
    BY DEF Items
  <2>3. \A h \in Registries : h.buffer \in Seq(Items) /\ \A q \in Requests : h.inbox[q] \in Seq(Items)
    BY <2>2, SeqMonotonic DEF Registries
  <2> QED
    BY <2>1, <2>3
<1>8. \A q \in Requests : Copy(got[q], link', emitted) /\ Copy(hub'.inbox[q], link', emitted) /\ Before(got[q], hub'.inbox[q])
  <2> TAKE q \in Requests
  <2>1. Copy(got[q], link, emitted) /\ Copy(hub.inbox[q], link, emitted) /\ Before(got[q], hub.inbox[q])
    BY DEF InOrder
  <2>2. Adds(hub.inbox[q], hub'.inbox[q], e)
    BY DEF HubAdds
  <2>3. Before(got[q], hub'.inbox[q])
    BY <1>4, <1>7, <2>1, <2>2, AddedInOrder
  <2> QED
    BY <1>5, <1>6, <1>7, <2>1, <2>2, <2>3
<1>9. \A r \in Readers : Copy(replay'[r], link', emitted) /\ Before(got[r], replay'[r])
  <2>1. Copy(<<>>, link', emitted) /\ \A z : Before(z, <<>>)
    BY DEF Copy, Before, Ascending, Produced
  <2> QED
    BY <1>5, <2>1 DEF InOrder
<1>10. Copy(hub'.buffer, link', emitted)
  BY <1>6, <1>7 DEF InOrder, HubAdds
<1>11. \A k \in Turns : Ascending(link'[k].events) /\ Produced(link'[k].events, emitted)
  BY <1>3 DEF InOrder, Carried
<1>12. OneLink'
  <2>1. \A k, l \in Turns : \A i \in DOMAIN link'[k].events, j \in DOMAIN link'[l].events :
         Progress(link'[k].events[i]) /\ Progress(link'[l].events[j]) /\ link'[k].events[i].turn = link'[l].events[j].turn => k = l
    BY <1>3 DEF InOrder, OneLink
  <2>2. running # None => \A k \in Turns : \A i \in DOMAIN link'[k].events :
         Progress(link'[k].events[i]) /\ link'[k].events[i].turn = running.turn => k = running.via
    BY <1>3 DEF InOrder, OneLink
  <2> QED
    BY <2>1, <2>2 DEF OneLink
<1> QED
  BY <1>8, <1>9, <1>10, <1>11, <1>12 DEF InOrder, Carried

\* The links and the registry after a step that receives nothing.
LEMMA QuietInOrder ==
  ASSUME TypeOK, TypeOK', InOrder, HubAdds(hub, hub', End), UNCHANGED <<got, emitted>>,
         running' \in {running, None}, \A r \in Readers : replay'[r] \in {replay[r], <<>>},
         \A k \in Turns : link'[k].events = link[k].events
  PROVE  InOrder'
<1>1. ~Progress(End)
  BY DEF Progress, End, Event
<1> QED
  BY <1>1, ServiceInOrder

LEMMA HubOfType ==
  ASSUME TypeOK
  PROVE  /\ hub \in Registries /\ link \in [Turns -> Links] /\ ws \in [Clients -> Sockets]
         /\ HubAdds(hub, hub, End)
         /\ replay \in [Readers -> Seq(Reports)]
<1>1. hub \in Registries /\ link \in [Turns -> Links] /\ ws \in [Clients -> Sockets] /\ replay \in [Readers -> Seq(Reports)]
  BY DEF TypeOK
<1> QED
  BY <1>1, HubSteps

LEMMA PrepareInOrder ==
  ASSUME TypeOK, TypeOK', InOrder, NEW t \in Turns, NEW h \in Registries, NEW g, HubAdds(hub, h, End),
         Prepare(t, h, g), UNCHANGED <<got, server, replay>>
  PROVE  InOrder'
<1>1. HubAdds(hub, hub', End)
  <2>1. HubAdds(h, h, End) /\ HubAdds(h, ReleaseStream(h, g), End)
    BY HubSteps
  <2>2. hub' = h \/ hub' = ReleaseStream(h, g)
    BY DEF Prepare
  <2>3. HubAdds(hub, ReleaseStream(h, g), End)
    BY <2>1, HubStepsThen
  <2> QED
    BY <2>2, <2>3
<1>2. \A k \in Turns : link'[k].events = link[k].events
  <2>1. link' = link \/ \E k, e : link' = [link EXCEPT ![k].frames = e]
    BY DEF Prepare
  <2>2. \A x \in Links : \A e : [x EXCEPT !.frames = e].events = x.events
    BY DEF Links
  <2>3. ASSUME NEW k, NEW e, link' = [link EXCEPT ![k].frames = e], NEW j \in Turns
        PROVE  link'[j].events = link[j].events
    <3>1. link[j] \in Links /\ link'[j] = IF j = k THEN [link[j] EXCEPT !.frames = e] ELSE link[j]
      BY <2>3, HubOfType
    <3> QED
      BY <2>2, <3>1
  <2> QED
    BY <2>1, <2>3
<1>3. UNCHANGED <<got, emitted, running, replay>>
  BY DEF server
<1> QED
  BY <1>1, <1>2, <1>3, QuietInOrder

\* The steps of a turn's request.
LEMMA RequestInOrder ==
  ASSUME TypeOK, TypeOK', InOrder, NEW t \in Turns, Request(t) \/ Handing(t) \/ CallFails(t)
  PROVE  InOrder'
<1>0. hub \in Registries /\ link \in [Turns -> Links] /\ HubAdds(hub, hub, End)
  BY HubOfType
<1>1. CASE SendMessage(t)
  BY <1>0, <1>1, PrepareInOrder DEF SendMessage, others
<1>2. StartStream(hub) \in Registries /\ HubAdds(hub, StartStream(hub), End)
  BY <1>0, StartStreamType, HubSteps
<1>3. CASE Regenerate(t)
  <2>1. UNCHANGED <<got, server, replay>>
    BY <1>3 DEF Regenerate, others
  <2>2. CASE Prepare(t, StartStream(hub), StartStream(hub).gen)
    BY <1>2, <2>1, <2>2, PrepareInOrder
  <2>3. CASE UNCHANGED <<hub, link>>
    BY <1>0, <2>1, <2>3, QuietInOrder DEF server
  <2>4. CASE hub' = ReleaseStream(StartStream(hub), StartStream(hub).gen) /\ UNCHANGED link
    <3>1. HubAdds(StartStream(hub), hub', End)
      BY <1>2, <2>4, HubSteps
    <3>2. HubAdds(hub, hub', End)
      BY <1>2, <3>1, HubStepsThen
    <3> QED
      BY <2>1, <2>4, <3>2, QuietInOrder DEF server
  <2> QED
    BY <1>3, <2>2, <2>3, <2>4 DEF Regenerate
<1>4. CASE Connected(t)
  <2>1. UNCHANGED <<hub, got, emitted, running, replay>>
    BY <1>4 DEF Connected, others, server
  <2>2. \A x \in Links : \A a, b, c : [x EXCEPT !.state = a, !.server = b, !.frames = c].events = x.events
    BY DEF Links
  <2>3. link' = [link EXCEPT ![t] = [@ EXCEPT !.state = "open", !.server = "accepted", !.frames = <<t>>]]
    BY <1>4 DEF Connected
  <2>4. \A k \in Turns : link'[k].events = link[k].events
    BY <1>0, <2>2, <2>3
  <2> QED
    BY <1>0, <2>1, <2>4, QuietInOrder
<1>5. CASE HandOver(t) \/ CallFails(t)
  <2>1. UNCHANGED <<link, got, emitted, running, replay>>
    BY <1>5 DEF HandOver, CallFails, others, server
  <2>2. HubAdds(hub, hub', End)
    <3>1. CASE CallFails(t)
      BY <1>0, <3>1, HubSteps DEF CallFails
    <3>2. CASE HandOver(t)
      <4>1. t \in Requests
        BY DEF Requests
      <4>2. hub' = Subscribe(hub, t) \/ hub' = Subscribe(StartStream(hub), t)
        BY <3>2 DEF HandOver
      <4>3. HubAdds(hub, Subscribe(hub, t), End) /\ HubAdds(StartStream(hub), Subscribe(StartStream(hub), t), End)
        BY <1>0, <1>2, <4>1, HubSteps
      <4>4. HubAdds(hub, Subscribe(StartStream(hub), t), End)
        BY <1>2, <4>3, HubStepsThen
      <4> QED
        BY <4>2, <4>3, <4>4
    <3> QED
      BY <1>5, <3>1, <3>2
  <2> QED
    BY <2>1, <2>2, QuietInOrder
<1> QED
  BY <1>1, <1>3, <1>4, <1>5 DEF Request, Handing

\* The finally block adds sentinels, and takes nothing from a link.
LEMMA FinallyAdds ==
  ASSUME NEW t, NEW h \in Registries, NEW l \in [Turns -> Links], NEW w, NEW e, Finally(t, h, l, w), HubAdds(hub, h, e)
  PROVE  HubAdds(hub, hub', e) /\ \A k \in Turns : link'[k].events = l[k].events
<1>1. HubAdds(h, EndStream(h), End) /\ EndStream(h) \in Registries
  BY HubSteps, EndStreamType
<1>2. HubAdds(EndStream(h), Cleanup(EndStream(h)), End)
  BY <1>1, HubSteps
<1>3. HubAdds(hub, EndStream(h), e)
  BY <1>1, HubStepsThen
<1>4. HubAdds(hub, Cleanup(EndStream(h)), e)
  BY <1>2, <1>3, HubStepsThen
<1> QED
  BY <1>4, LinkFrames DEF Finally


LEMMA FaultInOrder ==
  ASSUME TypeOK, TypeOK', InOrder, NEW t \in Turns, NEW w, Fault(t, w), UNCHANGED <<got, server, replay>>
  PROVE  InOrder'
<1> DEFINE e == Event(t, "fault", 0)
           h == PushEvent(hub, gen[t], e)
<1>1. e \in Reports /\ ~Progress(e)
  BY EventTypes DEF Event, Progress, Reports
<1>2. hub \in Registries /\ link \in [Turns -> Links]
  BY HubOfType
<1>3. h \in Registries /\ HubAdds(hub, h, e)
  BY <1>1, <1>2, PushEventType, HubSteps
<1>4. Finally(t, h, link, w)
  BY DEF Fault
<1> HIDE DEF e, h
<1>5. HubAdds(hub, hub', e) /\ \A k \in Turns : link'[k].events = link[k].events
  BY <1>2, <1>3, <1>4, FinallyAdds
<1> QED
  BY <1>1, <1>5, ServiceInOrder DEF server

LEMMA PopEvents ==
  ASSUME NEW l \in [Turns -> Links], NEW k \in Turns
  PROVE  Pop(l, k)[k].events = Tail(l[k].events) /\ \A j \in Turns \ {k} : Pop(l, k)[j].events = l[j].events
<1>1. \A x \in Links : \A v : [x EXCEPT !.events = v].events = v
  BY DEF Links
<1> QED
  BY <1>1 DEF Pop

\* A consumer pushes the event it received, if it is a delta or the last one.
LEMMA ReceiveInOrder ==
  ASSUME TypeOK, TypeOK', InOrder, NEW t \in Turns, Receive(t)
  PROVE  InOrder'
<1> DEFINE k == source[t]
           e == Head(link[k].events)
           h == PushEvent(hub, gen[t], e)
           l == Pop(link, k)
<1>1. k \in Turns /\ link[k].events # <<>> /\ UNCHANGED <<got, emitted, running, replay>>
  BY DEF Receive, TypeOK, others, server
<1>2. hub \in Registries /\ link \in [Turns -> Links] /\ HubAdds(hub, hub, End)
  BY HubOfType
<1>3. link[k].events \in Seq(Messages)
  BY <1>1, TypesOfQueues
<1>4. e \in Messages
  BY <1>1, <1>3, HeadTailProperties
<1>5. e.kind \in {"delta", "completed", "error"} => e \in Reports
  BY <1>4 DEF Messages, Reports
<1>6. l \in [Turns -> Links] /\ l[k].events = Tail(link[k].events) /\ \A j \in Turns \ {k} : l[j].events = link[j].events
  BY <1>1, <1>2, PopType, PopEvents
<1>7. e = Head(link[k].events)
  OBVIOUS
<1>8. e \in Reports => h \in Registries /\ HubAdds(hub, h, e)
  BY <1>2, PushEventType, HubSteps
<1>9. HubAdds(hub, hub, e)
  BY <1>2, HubSteps
<1>10. \/ e.kind \in {"running", "idle"} /\ link' = l /\ hub' = hub
       \/ e.kind = "error" /\ Finally(t, EndStream(h), l, ws)
       \/ e.kind \in {"delta", "completed"} /\ link' = l /\ hub' = h
  BY DEF Receive, StateEvent, ErrorEvent, DeltaEvent, CompletedEvent
<1>11. h \in Registries => HubAdds(h, EndStream(h), End) /\ EndStream(h) \in Registries
  BY HubSteps, EndStreamType
<1> HIDE DEF h, l, e, k
<1>12. HubAdds(hub, hub', e) /\ \A j \in Turns : link'[j].events = l[j].events
  <2>1. CASE e.kind = "error" /\ Finally(t, EndStream(h), l, ws)
    <3>1. HubAdds(hub, EndStream(h), e) /\ EndStream(h) \in Registries
      BY <1>5, <1>8, <1>11, <2>1, HubStepsThen
    <3> QED
      BY <1>6, <2>1, <3>1, FinallyAdds
  <2> QED
    BY <1>5, <1>8, <1>9, <1>10, <2>1
<1>13. link'[k].events = Tail(link[k].events) /\ \A j \in Turns \ {k} : link'[j].events = link[j].events
  BY <1>1, <1>6, <1>12
<1> QED
  BY <1>1, <1>7, <1>12, <1>13, ServiceInOrder

\* The steps of a turn's consumer.
LEMMA ConsumeInOrder ==
  ASSUME TypeOK, TypeOK', InOrder, NEW t \in Turns, Consume(t)
  PROVE  InOrder'
<1>0. hub \in Registries /\ link \in [Turns -> Links] /\ HubAdds(hub, hub, End)
  BY HubOfType
<1>1. UNCHANGED <<got, emitted, running, replay>>
  BY DEF Consume, Listen, Resume, Receive, StreamCloses, Finish, ConsumerClosed, others, server
<1>2. ASSUME NEW w, Fault(t, w)
      PROVE  InOrder'
  BY <1>1, <1>2, FaultInOrder DEF server
<1>3. ASSUME UNCHANGED <<hub, link>>
      PROVE  InOrder'
  BY <1>0, <1>1, <1>3, QuietInOrder
<1>4. CASE Listen(t) \/ Resume(t) \/ ConsumerClosed(t)
  BY <1>2, <1>3, <1>4 DEF Listen, Resume, ConsumerClosed, Iterate
<1>5. ASSUME Finally(t, hub, link, ws)
      PROVE  InOrder'
  <2>1. HubAdds(hub, hub', End) /\ \A k \in Turns : link'[k].events = link[k].events
    BY <1>0, <1>5, FinallyAdds
  <2> QED
    BY <1>1, <2>1, QuietInOrder
<1>6. CASE StreamCloses(t) \/ Finish(t)
  BY <1>2, <1>5, <1>6 DEF StreamCloses, Finish
<1> QED
  BY <1>4, <1>6, ReceiveInOrder DEF Consume

\* The steps of an abort, and of the ends of a link that produce nothing.
LEMMA EndsInOrder ==
  ASSUME TypeOK, TypeOK', InOrder,
         \/ \E a \in Aborts : AbortLocally(a) \/ AbortClosed(a)
         \/ \E k \in Turns : Hold(k) \/ SeesClose(k) \/ Release(k) \/ Break(k)
  PROVE  InOrder'
<1>0. hub \in Registries /\ link \in [Turns -> Links] /\ HubAdds(hub, hub, End)
  BY HubOfType
<1>1. ASSUME NEW a \in Aborts, AbortLocally(a) \/ AbortClosed(a)
      PROVE  InOrder'
  <2>1. UNCHANGED <<hub, got, emitted, running, replay>>
    BY <1>1 DEF AbortLocally, AbortClosed, server
  <2>2. UNCHANGED link \/ \E c : link' = CloseLink(link, c)
    BY <1>1 DEF AbortLocally, AbortClosed
  <2>3. \A k \in Turns : link'[k].events = link[k].events
    BY <1>0, <2>2, LinkFrames
  <2> QED
    BY <1>0, <2>1, <2>3, QuietInOrder
<1>2. ASSUME NEW k \in Turns, Hold(k) \/ SeesClose(k) \/ Release(k) \/ Break(k)
      PROVE  InOrder'
  <2>1. UNCHANGED <<hub, got, emitted, replay>> /\ running' \in {running, None}
    BY <1>2 DEF Hold, SeesClose, Release, Break, requests, others, server
  <2>2. \A x \in Links : \A v, z : /\ [x EXCEPT !.server = v, !.state = z].events = x.events
                                /\ [x EXCEPT !.server = v].events = x.events
                                /\ [x EXCEPT !.state = v].events = x.events
    BY DEF Links
  <2>3. \A j \in Turns : j # k => link'[j] = link[j]
    BY <1>0, <1>2 DEF Hold, SeesClose, Release, Break
  <2>4. link[k] \in Links
    BY <1>0
  <2>5. \E v, z : link'[k] \in {[link[k] EXCEPT !.server = v, !.state = z], [link[k] EXCEPT !.server = v], [link[k] EXCEPT !.state = v]}
    <3>1. CASE Hold(k)
      <4> DEFINE z == IF link[k].state = "closing" THEN "clean" ELSE "broken"
      <4>1. \/ link'[k] = [link[k] EXCEPT !.server = "gone", !.state = z]
            \/ link'[k] = [link[k] EXCEPT !.server = "held"]
        BY <1>0, <2>4, <3>1 DEF Hold, Links
      <4> HIDE DEF z
      <4> QED
        BY <4>1
    <3>2. CASE SeesClose(k)
      <4> DEFINE z == IF link[k].state = "broken" THEN link[k].state ELSE "clean"
      <4>1. link'[k] = [link[k] EXCEPT !.server = "draining", !.state = z]
        BY <1>0, <2>4, <3>2 DEF SeesClose, Links
      <4> HIDE DEF z
      <4> QED
        BY <4>1
    <3>3. CASE Release(k)
      <4>1. link'[k] = [link[k] EXCEPT !.server = "gone"]
        BY <1>0, <3>3 DEF Release
      <4> QED
        BY <4>1
    <3>4. CASE Break(k)
      <4>1. link'[k] = [link[k] EXCEPT !.state = "broken"]
        BY <1>0, <3>4 DEF Break
      <4> QED
        BY <4>1
    <3> QED
      BY <1>2, <3>1, <3>2, <3>3, <3>4
  <2>6. link'[k].events = link[k].events
    <3>1. PICK v, z : link'[k] \in {[link[k] EXCEPT !.server = v, !.state = z], [link[k] EXCEPT !.server = v], [link[k] EXCEPT !.state = v]}
      BY <2>5
    <3>2. /\ [link[k] EXCEPT !.server = v, !.state = z].events = link[k].events
          /\ [link[k] EXCEPT !.server = v].events = link[k].events
          /\ [link[k] EXCEPT !.state = v].events = link[k].events
      BY <2>2, <2>4
    <3> QED
      BY <3>1, <3>2, Zenon
  <2>7. \A j \in Turns : link'[j].events = link[j].events
    BY <2>3, <2>6
  <2> QED
    BY <1>0, <2>1, <2>7, QuietInOrder
<1> QED
  BY <1>1, <1>2


LEMMA ProgressOfTurns ==
  \A e \in Items : Progress(e) => e.turn \in Turns /\ e.n \in Nat
BY DEF Items, Reports, Messages, Progress, End, Event

\* A step of the agent server puts an event on one link: what is progress is
\* the next part of the running turn's reply, and on the link of its request.
LEMMA EmittedInOrder ==
  ASSUME TypeOK, TypeOK', InOrder, NEW k \in Turns, NEW e \in Messages,
         UNCHANGED <<hub, got, replay>>, running' \in {running, None},
         link'[k].events \in {link[k].events, Append(link[k].events, e)},
         \A j \in Turns \ {k} : link'[j].events = link[j].events,
         \A u \in Turns : emitted[u] <= emitted'[u],
         Progress(e) => /\ running # None /\ e.turn = running.turn /\ k = running.via
                        /\ e.n = emitted[e.turn] /\ e.n < emitted'[e.turn]
  PROVE  InOrder'
<1>1. DOMAIN <<e>> = {1} /\ <<e>>[1] = e
  OBVIOUS
<1>2. \A j \in Turns : link[j].events \in Seq(Items) /\ link[j].events \in Seq(Messages)
  BY TypesOfQueues
<1>3. /\ \A q \in Requests : got[q] \in Seq(Items) /\ hub.inbox[q] \in Seq(Items)
      /\ \A r \in Readers : replay[r] \in Seq(Items)
      /\ hub.buffer \in Seq(Items)
  BY TypesOfQueues
<1>4. emitted \in [Turns -> Nat] /\ emitted' \in [Turns -> Nat]
  BY DEF TypeOK
<1>5. \A s \in Seq(Items) : \A i \in DOMAIN s : s[i] \in Items
  BY LenProperties, ElementOfSeq
<1>6. ASSUME NEW s \in Seq(Items), Produced(s, emitted)
      PROVE  Produced(s, emitted') /\ Before(s, <<e>>)
  <2>1. \A i \in DOMAIN s : Progress(s[i]) => s[i].turn \in Turns /\ s[i].n \in Nat
    BY <1>5, ProgressOfTurns
  <2>2. Produced(s, emitted')
    <3> SUFFICES ASSUME NEW i \in DOMAIN s, Progress(s[i])
                 PROVE  s[i].n < emitted'[s[i].turn]
      BY DEF Produced
    <3>1. s[i].turn \in Turns /\ s[i].n \in Nat /\ s[i].n < emitted[s[i].turn]
      BY <1>6, <2>1 DEF Produced
    <3>2. emitted[s[i].turn] \in Nat /\ emitted'[s[i].turn] \in Nat /\ emitted[s[i].turn] <= emitted'[s[i].turn]
      BY <1>4, <3>1
    <3> QED
      BY <3>1, <3>2
  <2>3. \A i \in DOMAIN s : Precedes(s[i], e)
    BY <1>6 DEF Precedes, Produced
  <2> QED
    BY <1>1, <2>2, <2>3 DEF Before
\* What the link carries besides.
<1> DEFINE z == link[k].events
           y == link'[k].events
<1>7. z \in Seq(Messages) /\ y \in Seq(Messages) /\ Adds(z, y, e)
      /\ \A i \in DOMAIN y : y[i] = e \/ (i \in DOMAIN z /\ y[i] = z[i])
  <2>1. z \in Seq(Messages)
    BY <1>2
  <2>2. Append(z, e) \in Seq(Messages) /\ Adds(z, Append(z, e), e)
    BY <2>1, AppendProperties, AppendAdds
  <2>3. Adds(z, z, e)
    BY DEF Adds
  <2>4. y = z \/ y = Append(z, e)
    OBVIOUS
  <2>5. \A i \in DOMAIN Append(z, e) : Append(z, e)[i] = e \/ (i \in DOMAIN z /\ Append(z, e)[i] = z[i])
    <3>1. /\ Append(z, e) \in Seq(Messages) /\ Len(Append(z, e)) = Len(z) + 1
          /\ \A i \in 1..Len(z) : Append(z, e)[i] = z[i]
          /\ Append(z, e)[Len(z) + 1] = e
      BY <2>1, AppendProperties
    <3>2. DOMAIN Append(z, e) = 1..(Len(z) + 1) /\ DOMAIN z = 1..Len(z) /\ Len(z) \in Nat
      BY <2>1, <3>1, LenProperties
    <3> HIDE DEF z
    <3> QED
      BY <3>1, <3>2
  <2> HIDE DEF y, z
  <2> QED
    BY <2>1, <2>2, <2>3, <2>4, <2>5
<1>8. z \in Seq(Items) /\ y \in Seq(Items)
  BY <1>7, SeqMonotonic DEF Items
<1>9. Ascending(z) /\ Produced(z, emitted) /\ \A j \in Turns : Ascending(link[j].events) /\ Produced(link[j].events, emitted)
  BY DEF InOrder, Carried
<1>10. Produced(<<e>>, emitted')
  BY <1>1 DEF Produced
<1>11. \A s \in Seq(Items) : Copy(s, link, emitted) => Copy(s, link', emitted')
  <2> SUFFICES ASSUME NEW s \in Seq(Items), Copy(s, link, emitted)
               PROVE  Copy(s, link', emitted')
    OBVIOUS
  <2>1. Ascending(s) /\ Produced(s, emitted) /\ \A j \in Turns : Before(s, link[j].events)
    BY DEF Copy
  <2>2. Produced(s, emitted') /\ Before(s, <<e>>)
    BY <1>6, <2>1
  <2>3. Before(s, z)
    BY <2>1
  <2> HIDE DEF y, z
  <2>4. Before(s, y)
    BY <1>7, <2>2, <2>3, AddedInOrder
  <2>5. \A j \in Turns : Before(s, link'[j].events)
    BY <2>1, <2>4 DEF y
  <2> QED
    BY <2>1, <2>2, <2>5 DEF Copy
<1>12. \A j \in Turns : Ascending(link'[j].events) /\ Produced(link'[j].events, emitted')
  <2>1. Ascending(y) /\ Produced(y, emitted')
    <3>1. Before(z, <<e>>) /\ Produced(z, emitted')
      BY <1>6, <1>8, <1>9
    <3> HIDE DEF y, z
    <3> QED
      BY <1>7, <1>9, <1>10, <3>1, AddedInOrder
  <2>2. \A j \in Turns \ {k} : Ascending(link'[j].events) /\ Produced(link'[j].events, emitted')
    BY <1>2, <1>6, <1>9
  <2> QED
    BY <2>1, <2>2
<1>13. OneLink'
  <2>1. \A j, l \in Turns : \A i \in DOMAIN link[j].events, m \in DOMAIN link[l].events :
       Progress(link[j].events[i]) /\ Progress(link[l].events[m]) /\ link[j].events[i].turn = link[l].events[m].turn => j = l
    BY DEF InOrder, OneLink
  <2>2. running # None => \A j \in Turns : \A i \in DOMAIN link[j].events :
       Progress(link[j].events[i]) /\ link[j].events[i].turn = running.turn => j = running.via
    BY DEF InOrder, OneLink
  <2>3. \A j \in Turns : \A i \in DOMAIN link'[j].events :
          (j = k /\ link'[j].events[i] = e) \/ (i \in DOMAIN link[j].events /\ link'[j].events[i] = link[j].events[i])
    BY <1>7
  <2> HIDE DEF y, z
  <2>4. \A j, l \in Turns : \A i \in DOMAIN link'[j].events, m \in DOMAIN link'[l].events :
       Progress(link'[j].events[i]) /\ Progress(link'[l].events[m]) /\ link'[j].events[i].turn = link'[l].events[m].turn => j = l
    BY <2>1, <2>2, <2>3
  <2>5. running # None => \A j \in Turns : \A i \in DOMAIN link'[j].events :
       Progress(link'[j].events[i]) /\ link'[j].events[i].turn = running.turn => j = running.via
    BY <2>2, <2>3
  <2> QED
    BY <2>4, <2>5 DEF OneLink
<1>14. \A q \in Requests : Copy(got'[q], link', emitted') /\ Copy(hub'.inbox[q], link', emitted') /\ Before(got'[q], hub'.inbox[q])
  BY <1>3, <1>11 DEF InOrder
<1>15. \A r \in Readers : Copy(replay'[r], link', emitted') /\ Before(got'[r], replay'[r])
  BY <1>3, <1>11 DEF InOrder
<1>16. Copy(hub'.buffer, link', emitted')
  BY <1>3, <1>11 DEF InOrder
<1> QED
  BY <1>12, <1>13, <1>14, <1>15, <1>16 DEF InOrder, Carried


LEMMA ToClientEvents ==
  ASSUME NEW l \in [Turns -> Links], NEW k \in Turns, NEW e \in Messages, NEW l2,
         l2 = ToClient(l, k, e) \/ l2 = [ToClient(l, k, e) EXCEPT ![k].terminal = TRUE]
  PROVE  /\ l2[k].events \in {l[k].events, Append(l[k].events, e)}
         /\ \A j \in Turns \ {k} : l2[j].events = l[j].events
<1>1. \A f \in [Turns -> Links] : /\ [f EXCEPT ![k].terminal = TRUE][k].events = f[k].events
                                  /\ \A j \in Turns \ {k} : [f EXCEPT ![k].terminal = TRUE][j].events = f[j].events
  BY DEF Links
<1>2. \A x \in Links : \A v : [x EXCEPT !.events = v].events = v
  BY DEF Links
<1> DEFINE f == ToClient(l, k, e)
<1>3. f \in [Turns -> Links]
  BY ToClientType
<1>4. /\ f[k].events \in {l[k].events, Append(l[k].events, e)}
      /\ \A j \in Turns \ {k} : f[j].events = l[j].events
  BY <1>2 DEF ToClient
<1>5. l2 = f \/ l2 = [f EXCEPT ![k].terminal = TRUE]
  OBVIOUS
<1> HIDE DEF f
<1>6. CASE l2 = f
  BY <1>4, <1>6
<1>7. CASE l2 = [f EXCEPT ![k].terminal = TRUE]
  <2>1. l2[k].events = f[k].events /\ \A j \in Turns \ {k} : l2[j].events = f[j].events
    BY <1>1, <1>3, <1>7
  <2> QED
    BY <1>4, <2>1
<1> QED
  BY <1>5, <1>6, <1>7

\* The agent server starts a turn that has produced nothing yet.
LEMMA DispatchInOrder ==
  ASSUME TypeOK, TypeOK', AskedOnce, InOrder, NEW k \in Turns, Dispatch(k)
  PROVE  InOrder'
<1> DEFINE t == Head(link[k].frames)
           l == [link EXCEPT ![k].frames = Tail(@)]
           e == Event(t, "error", 0)
<1>1. /\ link \in [Turns -> Links] /\ link[k].frames # <<>> /\ link[k].frames \in Seq(Turns)
      /\ UNCHANGED <<hub, got, replay, emitted>> /\ emitted \in [Turns -> Nat]
  BY DEF Dispatch, others, TypeOK, Links
<1>2. t \in Turns /\ t \in Unasked
  <2>1. 1 \in DOMAIN link[k].frames /\ t = link[k].frames[1] /\ t \in Turns
    BY <1>1, HeadTailProperties, LenProperties, EmptySeq
  <2> QED
    BY <2>1 DEF AskedOnce
<1>3. l \in [Turns -> Links] /\ \A j \in Turns : l[j].events = link[j].events
  <2>1. Tail(link[k].frames) \in Seq(Turns)
    BY <1>1, HeadTailProperties
  <2>2. [link[k] EXCEPT !.frames = Tail(link[k].frames)] \in Links
        /\ [link[k] EXCEPT !.frames = Tail(link[k].frames)].events = link[k].events
    BY <1>1, <2>1 DEF Links
  <2>3. \A j \in Turns : l[j] = IF j = k THEN [link[k] EXCEPT !.frames = Tail(link[k].frames)] ELSE link[j]
    BY <1>1
  <2>4. DOMAIN l = Turns /\ l = [j \in Turns |-> l[j]]
    BY <1>1
  <2> HIDE DEF l
  <2> QED
    BY <1>1, <2>2, <2>3, <2>4
<1>4. e \in Messages /\ ~Progress(e)
  BY <1>2, EventTypes DEF Event, Progress
<1>5. \/ running = None /\ running' = [turn |-> t, via |-> k] /\ link' = l
      \/ link' = ToClient(l, k, e) /\ UNCHANGED running
  BY DEF Dispatch
<1> HIDE DEF t, l, e
<1>6. CASE link' = ToClient(l, k, e) /\ UNCHANGED running
  <2>3. /\ link'[k].events \in {l[k].events, Append(l[k].events, e)}
        /\ \A j \in Turns \ {k} : link'[j].events = l[j].events
    BY <1>3, <1>4, <1>6, ToClientEvents
  <2>1. /\ link'[k].events \in {link[k].events, Append(link[k].events, e)}
        /\ \A j \in Turns \ {k} : link'[j].events = link[j].events
    BY <1>3, <2>3
  <2>2. \A u \in Turns : emitted[u] <= emitted'[u]
    BY <1>1
  <2> QED
    BY <1>1, <1>4, <1>6, <2>1, <2>2, EmittedInOrder
<1>7. CASE running = None /\ running' = [turn |-> t, via |-> k] /\ link' = l
  <2>1. \A j \in Turns : link'[j].events = link[j].events
    BY <1>3, <1>7
  <2>2. \A j \in Turns : \A i \in DOMAIN link[j].events : Progress(link[j].events[i]) => link[j].events[i].turn # t
    <3> SUFFICES ASSUME NEW j \in Turns, NEW i \in DOMAIN link[j].events,
                        Progress(link[j].events[i]), link[j].events[i].turn = t
                 PROVE  FALSE
      OBVIOUS
    <3>1. link[j].events[i] \in Items
      BY TypesOfQueues, LenProperties, ElementOfSeq
    <3>2. link[j].events[i].n \in Nat /\ link[j].events[i].n < emitted[t] /\ emitted[t] = 0
      BY <1>2, <3>1, ProgressOfTurns DEF InOrder, Carried, Produced, Unasked
    <3> QED
      BY <3>2
  <2>3. OneLink'
    <3>1. running'.turn = t
      BY <1>7
    <3> QED
      BY <2>1, <2>2, <3>1 DEF InOrder, OneLink
  <2>4. \A s : Copy(s, link, emitted) => Copy(s, link', emitted')
    BY <1>1, <2>1 DEF Copy
  <2>5. Carried'
    BY <1>1, <2>1 DEF InOrder, Carried
  <2> QED
    BY <1>1, <2>3, <2>4, <2>5 DEF InOrder
<1> QED
  BY <1>5, <1>6, <1>7

LEMMA EmitInOrder ==
  ASSUME TypeOK, TypeOK', InOrder, Emit \/ EmitError \/ \E a \in Aborts : AbortRemote(a)
  PROVE  InOrder'
<1>0. link \in [Turns -> Links] /\ emitted \in [Turns -> Nat] /\ running \in [turn : Turns, via : Turns] \cup {None}
  BY DEF TypeOK
<1>1. UNCHANGED <<hub, got, replay>> /\ running' \in {running, None}
  BY DEF Emit, EmitError, AbortRemote, others
<1>2. ASSUME NEW e \in Messages, running # None,
             link' \in {ToClient(link, running.via, e), [ToClient(link, running.via, e) EXCEPT ![running.via].terminal = TRUE]},
             \A u \in Turns : emitted[u] <= emitted'[u],
             Progress(e) => e.turn = running.turn /\ e.n = emitted[e.turn] /\ e.n < emitted'[e.turn]
      PROVE  InOrder'
  <2> DEFINE k == running.via
  <2>1. k \in Turns /\ k = running.via
    BY <1>0, <1>2
  <2>2. link' \in {ToClient(link, k, e), [ToClient(link, k, e) EXCEPT ![k].terminal = TRUE]}
    BY <1>2
  <2> HIDE DEF k
  <2>3. link' = ToClient(link, k, e) \/ link' = [ToClient(link, k, e) EXCEPT ![k].terminal = TRUE]
    BY <2>2
  <2>4. /\ link'[k].events \in {link[k].events, Append(link[k].events, e)}
        /\ \A j \in Turns \ {k} : link'[j].events = link[j].events
    <3>1. link \in [Turns -> Links] /\ k \in Turns /\ e \in Messages
      BY <1>0, <1>2, <2>1
    <3> QED
      BY ONLY <2>3, <3>1, ToClientEvents
  <2> QED
    BY <1>1, <1>2, <2>1, <2>4, EmittedInOrder
<1>3. CASE Emit
  <2> DEFINE t == running.turn
             n == emitted[t]
             kind == IF n = 0 THEN "running" ELSE IF n <= MaxEvents THEN "delta" ELSE "completed"
             e == Event(t, kind, n)
  <2>1. running # None /\ t \in Turns /\ n \in Nat /\ emitted' = [emitted EXCEPT ![t] = n + 1] /\ n + 1 > n
    BY <1>0, <1>3 DEF Emit
  <2>2. MaxEvents \in Nat
    BY BoundsAssumption
  <2>3. link' \in {ToClient(link, running.via, e), [ToClient(link, running.via, e) EXCEPT ![running.via].terminal = TRUE]}
    <3>1. CASE n <= MaxEvents
      BY <1>3, <3>1 DEF Emit
    <3>2. CASE ~(n <= MaxEvents)
      <4>1. n # 0
        BY <2>1, <2>2, <3>2
      <4>2. kind = "completed"
        BY <3>2, <4>1
      <4> QED
        BY <1>3, <3>2, <4>2 DEF Emit
    <3> QED
      BY <3>1, <3>2
  <2>4. kind \in {"running", "delta", "completed"}
    OBVIOUS
  <2> HIDE DEF kind, n, t
  <2>5. e \in Messages /\ e.turn = t /\ e.n = n
    BY <2>1, <2>4 DEF Event, Messages
  <2>6. emitted'[t] = n + 1 /\ emitted[t] = n /\ \A u \in Turns \ {t} : emitted'[u] = emitted[u]
    BY <1>0, <2>1 DEF n
  <2> HIDE DEF e
  <2>7. \A u \in Turns : emitted[u] <= emitted'[u]
    <3> TAKE u \in Turns
    <3>1. CASE u = t
      BY <2>1, <2>6, <3>1
    <3>2. CASE u # t
      BY <1>0, <2>6, <3>2
    <3> QED
      BY <3>1, <3>2
  <2>8. e.turn = running.turn /\ e.n = emitted[e.turn] /\ e.n < emitted'[e.turn]
    BY <2>1, <2>5, <2>6 DEF t
  <2> QED
    BY <1>2, <2>1, <2>3, <2>5, <2>7, <2>8
<1>4. ASSUME UNCHANGED emitted, running # None, NEW e \in Messages, ~Progress(e),
             link' \in {ToClient(link, running.via, e), [ToClient(link, running.via, e) EXCEPT ![running.via].terminal = TRUE]}
      PROVE  InOrder'
  <2>1. \A u \in Turns : emitted[u] <= emitted'[u]
    BY <1>0, <1>4
  <2> QED
    BY <1>2, <1>4, <2>1
<1>5. CASE EmitError
  <2>1. running # None /\ UNCHANGED emitted
        /\ link' = [ToClient(link, running.via, Event(running.turn, "error", 0)) EXCEPT ![running.via].terminal = TRUE]
    BY <1>5 DEF EmitError
  <2>2. Event(running.turn, "error", 0) \in Messages /\ ~Progress(Event(running.turn, "error", 0))
    BY <1>0, <2>1 DEF Event, Messages, Progress
  <2> QED
    BY <1>4, <2>1, <2>2
<1>6. CASE \E a \in Aborts : AbortRemote(a)
  <2>1. CASE running # None /\ link' = ToClient(link, running.via, Event(running.turn, "idle", 0))
    <3>1. UNCHANGED emitted
      BY <1>6 DEF AbortRemote
    <3>2. Event(running.turn, "idle", 0) \in Messages /\ ~Progress(Event(running.turn, "idle", 0))
      BY <1>0, <2>1 DEF Event, Messages, Progress
    <3> QED
      BY <1>4, <2>1, <3>1, <3>2
  <2>2. CASE UNCHANGED link
    BY <1>1, <1>6, <2>2, HubOfType, QuietInOrder DEF AbortRemote
  <2> QED
    BY <1>6, <2>1, <2>2 DEF AbortRemote
<1> QED
  BY <1>3, <1>5, <1>6


\* The queue of a request that has not subscribed is left alone, or forgotten.
Untouched(h, h2) ==
  \A r \in Readers : r \notin h.subs => r \notin h2.subs /\ h2.inbox[r] \in {h.inbox[r], <<>>}

LEMMA StreamsTouch ==
  ASSUME NEW h \in Registries
  PROVE  /\ Untouched(h, h)
         /\ Untouched(h, EndStream(h))
         /\ Untouched(h, StartStream(h))
         /\ \A g : Untouched(h, ReleaseStream(h, g))
         /\ \A g, e : Untouched(h, PushEvent(h, g, e))
         /\ \A t \in Turns : Untouched(h, Subscribe(h, t))
         /\ \A q : Untouched(h, Unsubscribe(h, q))
         /\ Untouched(h, Cleanup(h))
<1>0. Readers \subseteq Requests
  BY DEF Requests
<1>1. \A e : \A r \in Readers : r \notin h.subs => Broadcast(h, e)[r] = h.inbox[r]
  BY <1>0 DEF Broadcast
<1>2. /\ EndStream(h).inbox = Broadcast(h, End) /\ EndStream(h).subs = h.subs
      /\ StartStream(h).inbox = EndStream(h).inbox /\ StartStream(h).subs = {}
      /\ Cleanup(h).inbox = h.inbox /\ Cleanup(h).subs = {}
  BY DEF EndStream, StartStream, Cleanup, Registries
<1>3. \A g, e : PushEvent(h, g, e) = h \/ (PushEvent(h, g, e).inbox = Broadcast(h, e) /\ PushEvent(h, g, e).subs = h.subs)
  BY DEF PushEvent, Registries
<1>4. \A q : /\ Subscribe(h, q).inbox = h.inbox /\ Subscribe(h, q).subs = h.subs \cup {q}
             /\ Unsubscribe(h, q).inbox = h.inbox /\ Unsubscribe(h, q).subs = h.subs \ {q}
  BY DEF Subscribe, Unsubscribe, Registries
<1>5. Untouched(h, h) /\ Untouched(h, EndStream(h)) /\ Untouched(h, StartStream(h)) /\ Untouched(h, Cleanup(h))
  BY <1>1, <1>2 DEF Untouched
<1>6. \A g, e : Untouched(h, PushEvent(h, g, e))
  BY <1>1, <1>3 DEF Untouched
<1>7. \A t \in Turns : Untouched(h, Subscribe(h, t))
  BY <1>4, TurnsAreNotReaders DEF Untouched
<1>8. \A q : Untouched(h, Unsubscribe(h, q))
  BY <1>4 DEF Untouched
<1> QED
  BY <1>5, <1>6, <1>7, <1>8 DEF ReleaseStream

LEMMA TouchesAdd ==
  ASSUME NEW h1, NEW h2, NEW h3, Untouched(h1, h2), Untouched(h2, h3)
  PROVE  Untouched(h1, h3)
BY DEF Untouched

LEMMA StillReconnecting ==
  ASSUME Reconnecting, Untouched(hub, hub'), UNCHANGED <<reader, replay, got>>
  PROVE  Reconnecting'
BY DEF Reconnecting, Untouched

LEMMA RequestReconnecting ==
  ASSUME TypeOK, Reconnecting, NEW t \in Turns, Request(t) \/ Handing(t) \/ CallFails(t)
  PROVE  Reconnecting'
<1>0. hub \in Registries /\ Untouched(hub, hub)
  BY StreamsTouch DEF TypeOK
<1>1. UNCHANGED <<reader, replay, got>>
  BY DEF Request, SendMessage, Regenerate, Handing, Connected, HandOver, CallFails, others
<1>2. \/ UNCHANGED hub
      \/ \E g : hub' = ReleaseStream(hub, g)
      \/ hub' = StartStream(hub)
      \/ \E g : hub' = ReleaseStream(StartStream(hub), g)
      \/ hub' = Subscribe(hub, t)
      \/ hub' = Subscribe(StartStream(hub), t)
  BY DEF Request, SendMessage, Regenerate, Prepare, Handing, Connected, HandOver, CallFails
<1>3. StartStream(hub) \in Registries
  BY <1>0, StartStreamType
<1>4. /\ Untouched(hub, StartStream(hub))
      /\ \A g : Untouched(hub, ReleaseStream(hub, g)) /\ Untouched(StartStream(hub), ReleaseStream(StartStream(hub), g))
      /\ Untouched(hub, Subscribe(hub, t)) /\ Untouched(StartStream(hub), Subscribe(StartStream(hub), t))
  BY <1>0, <1>3, StreamsTouch
<1>5. Untouched(hub, hub')
  BY <1>0, <1>2, <1>4, TouchesAdd
<1> QED
  BY <1>1, <1>5, StillReconnecting

LEMMA ConsumeReconnecting ==
  ASSUME TypeOK, Reconnecting, NEW t \in Turns, Consume(t)
  PROVE  Reconnecting'
<1>0. hub \in Registries /\ Untouched(hub, hub)
  BY StreamsTouch DEF TypeOK
<1>1. UNCHANGED <<reader, replay, got>>
  BY DEF Consume, Listen, Resume, Receive, StreamCloses, Finish, ConsumerClosed, others
<1>2. ASSUME Untouched(hub, hub')
      PROVE  Reconnecting'
  BY <1>1, <1>2, StillReconnecting
<1>3. ASSUME NEW h \in Registries, Untouched(hub, h), NEW l, NEW w, Finally(t, h, l, w)
      PROVE  Reconnecting'
  <2>1. EndStream(h) \in Registries /\ Untouched(h, EndStream(h))
    BY EndStreamType, StreamsTouch
  <2>2. Untouched(EndStream(h), Cleanup(EndStream(h)))
    BY <2>1, StreamsTouch
  <2>3. Untouched(hub, Cleanup(EndStream(h)))
    BY <1>3, <2>1, <2>2, TouchesAdd
  <2> QED
    BY <1>2, <1>3, <2>3 DEF Finally
<1>4. ASSUME NEW w, Fault(t, w)
      PROVE  Reconnecting'
  <2> DEFINE h == PushEvent(hub, gen[t], Event(t, "fault", 0))
  <2>1. h \in Registries /\ Untouched(hub, h)
    <3>1. Event(t, "fault", 0) \in Reports
      BY EventTypes
    <3> QED
      BY <1>0, <3>1, PushEventType, StreamsTouch
  <2>2. Finally(t, h, link, w)
    BY <1>4 DEF Fault
  <2> HIDE DEF h
  <2> QED
    BY <1>3, <2>1, <2>2
<1>5. ASSUME UNCHANGED hub
      PROVE  Reconnecting'
  BY <1>0, <1>2, <1>5
<1>6. CASE Listen(t) \/ Resume(t) \/ ConsumerClosed(t)
  BY <1>4, <1>5, <1>6 DEF Listen, Resume, ConsumerClosed, Iterate
<1>7. CASE StreamCloses(t) \/ Finish(t)
  BY <1>0, <1>3, <1>4, <1>7 DEF StreamCloses, Finish
<1>8. CASE Receive(t)
  <2> DEFINE e == Head(link[source[t]].events)
             h == PushEvent(hub, gen[t], e)
  <2>1. e \in Messages
    <3>1. source[t] \in Turns /\ link[source[t]].events # <<>>
      BY <1>8 DEF Receive, TypeOK
    <3>2. link[source[t]].events \in Seq(Messages)
      BY <3>1, TypesOfQueues
    <3> QED
      BY <3>1, <3>2, HeadTailProperties
  <2>2. \/ hub' = hub
        \/ hub' = h
        \/ e.kind = "error" /\ Finally(t, EndStream(h), Pop(link, source[t]), ws)
    BY <1>8 DEF Receive, StateEvent, ErrorEvent, DeltaEvent, CompletedEvent
  <2>3. Untouched(hub, h)
    BY <1>0, StreamsTouch
  <2>4. e.kind = "error" => e \in Reports
    BY <2>1 DEF Messages, Reports
  <2> HIDE DEF e
  <2>5. e.kind = "error" => h \in Registries
    BY <1>0, <2>4, PushEventType
  <2> HIDE DEF h
  <2>6. CASE e.kind = "error" /\ Finally(t, EndStream(h), Pop(link, source[t]), ws)
    <3>1. EndStream(h) \in Registries /\ Untouched(h, EndStream(h))
      BY <2>5, <2>6, EndStreamType, StreamsTouch
    <3>2. Untouched(hub, EndStream(h))
      BY <2>3, <3>1, TouchesAdd
    <3> QED
      BY <1>3, <2>6, <3>1, <3>2
  <2> QED
    BY <1>2, <1>5, <2>2, <2>3, <2>6
<1> QED
  BY <1>6, <1>7, <1>8 DEF Consume


\* A reader takes the next event of its queue.
LEMMA TakeInOrder ==
  ASSUME TypeOK, Reconnecting, InOrder, NEW q \in Requests, Take(q)
  PROVE  Reconnecting' /\ InOrder'
<1> DEFINE s == got[q]
           z == hub.inbox[q]
<1>1. s \in Seq(Items) /\ z \in Seq(Items) /\ z # <<>>
  BY TypesOfQueues DEF Take
<1>2. Copy(s, link, emitted) /\ Copy(z, link, emitted) /\ Before(s, z)
  BY DEF InOrder
<1>3. /\ UNCHANGED <<link, emitted, running, replay>>
      /\ hub \in Registries /\ got \in [Requests -> Seq(Reports)]
      /\ reader \in [Readers -> {"new", "replaying", "reading", "ended", "left", "lost"}]
  BY DEF Take, server, TypeOK
<1>4. hub'.inbox[q] = Tail(z) /\ hub'.buffer = hub.buffer /\ hub'.subs = hub.subs
      /\ \A p \in Requests \ {q} : hub'.inbox[p] = hub.inbox[p]
  BY <1>3 DEF Take, Registries
<1>5. /\ got'[q] \in {s, Append(s, Head(z))}
      /\ \A p \in Requests \ {q} : got'[p] = got[p]
  BY <1>3 DEF Take
<1>6. q \in Readers => q \notin Turns /\ reader[q] = "reading" /\ reader'[q] \in {"reading", "ended"}
  <2> SUFFICES ASSUME q \in Readers
               PROVE  q \notin Turns /\ reader[q] = "reading" /\ reader'[q] \in {"reading", "ended"}
    OBVIOUS
  <2>1. q \notin Turns /\ reader[q] = "reading"
    BY TurnsAreNotReaders DEF Take, Reading
  <2>2. reader' = reader \/ reader' = [reader EXCEPT ![q] = "ended"]
    BY <2>1 DEF Take, SetRequest
  <2> QED
    BY <1>3, <2>1, <2>2
<1>7. \A r \in Readers \ {q} : reader'[r] = reader[r]
  BY <1>3 DEF Take, SetRequest
<1> HIDE DEF s, z
<1>8. Copy(got'[q], link, emitted) /\ Copy(hub'.inbox[q], link, emitted) /\ Before(got'[q], hub'.inbox[q])
  <2>1. CASE got'[q] = Append(s, Head(z))
    <3>1. /\ Copy(Append(s, Head(z)), link, emitted) /\ Copy(Tail(z), link, emitted)
          /\ Before(Append(s, Head(z)), Tail(z))
      BY <1>1, <1>2, HandedOn
    <3> QED
      BY <1>4, <2>1, <3>1
  <2>2. CASE got'[q] = s
    <3>1. Copy(Tail(z), link, emitted) /\ Before(s, Tail(z))
      BY <1>1, <1>2, TakenInOrder DEF Copy
    <3> QED
      BY <1>2, <1>4, <2>2, <3>1
  <2> QED
    BY <1>5, <2>1, <2>2
<1>9. \A p \in Requests : Copy(got'[p], link, emitted) /\ Copy(hub'.inbox[p], link, emitted) /\ Before(got'[p], hub'.inbox[p])
  BY <1>4, <1>5, <1>8 DEF InOrder
<1>10. \A r \in Readers : Copy(replay[r], link, emitted) /\ Before(got'[r], replay[r])
  <2> TAKE r \in Readers
  <2>1. CASE r = q
    <3>1. replay[r] = <<>>
      BY <1>6, <2>1 DEF Reconnecting
    <3> QED
      BY <3>1 DEF InOrder, Before
  <2>2. CASE r # q
    BY <1>5, <2>2 DEF InOrder, Requests
  <2> QED
    BY <2>1, <2>2
<1>11. InOrder'
  BY <1>3, <1>4, <1>9, <1>10 DEF InOrder, Carried, OneLink
<1>12. Reconnecting'
  <2> SUFFICES ASSUME NEW r \in Readers
               PROVE  /\ reader'[r] \in {"new", "replaying"} => r \notin hub'.subs /\ hub'.inbox[r] = <<>>
                      /\ reader'[r] = "new" => got'[r] = <<>>
                      /\ reader'[r] # "replaying" => replay'[r] = <<>>
    BY DEF Reconnecting
  <2>1. CASE r = q
    BY <1>3, <1>6, <2>1 DEF Reconnecting
  <2>2. CASE r # q
    BY <1>3, <1>4, <1>5, <1>7, <2>2 DEF Reconnecting, Requests
  <2> QED
    BY <2>1, <2>2
<1> QED
  BY <1>11, <1>12

\* A reconnecting request is given the next buffered event, or subscribes.
LEMMA YieldInOrder ==
  ASSUME TypeOK, Reconnecting, InOrder, NEW r \in Readers, reader[r] \in {"new", "replaying"},
         NEW z \in Seq(Items), Copy(z, link, emitted), Before(got[r], z), YieldNext(r, z),
         z = <<>> => replay[r] = <<>>, UNCHANGED <<link, server>>
  PROVE  Reconnecting' /\ InOrder'
<1> DEFINE s == got[r]
<1>1. /\ s \in Seq(Items) /\ r \in Requests /\ hub \in Registries /\ got \in [Requests -> Seq(Reports)]
      /\ reader \in [Readers -> {"new", "replaying", "reading", "ended", "left", "lost"}]
      /\ replay \in [Readers -> Seq(Reports)]
  BY TypesOfQueues DEF Requests, TypeOK
<1>2. hub.inbox[r] = <<>> /\ r \notin hub.subs
  BY DEF Reconnecting
<1>3. CASE z = <<>>
  <2>1. hub' = Subscribe(hub, r) /\ reader' = [reader EXCEPT ![r] = "reading"] /\ UNCHANGED <<replay, got>>
    BY <1>3 DEF YieldNext
  <2>2. hub'.inbox = hub.inbox /\ hub'.buffer = hub.buffer /\ hub'.subs = hub.subs \cup {r}
    BY <1>1, <2>1 DEF Subscribe, Registries
  <2>3. InOrder'
    BY <2>1, <2>2 DEF InOrder, Carried, OneLink, server
  <2>4. Reconnecting'
    BY <1>1, <1>3, <2>1, <2>2 DEF Reconnecting
  <2> QED
    BY <2>3, <2>4
<1>4. CASE z # <<>>
  <2>1. /\ got'[r] = Append(s, Head(z)) /\ replay'[r] = Tail(z) /\ reader'[r] = "replaying" /\ hub' = hub
        /\ \A q \in Requests \ {r} : got'[q] = got[q]
        /\ \A q \in Readers \ {r} : replay'[q] = replay[q] /\ reader'[q] = reader[q]
    BY <1>1, <1>4 DEF YieldNext
  <2>2. Copy(s, link, emitted)
    BY <1>1 DEF InOrder
  <2>3. Before(s, z)
    OBVIOUS
  <2> HIDE DEF s
  <2>4. /\ Copy(Append(s, Head(z)), link, emitted) /\ Copy(Tail(z), link, emitted)
        /\ Before(Append(s, Head(z)), Tail(z))
    BY <1>1, <1>4, <2>2, <2>3, HandedOn
  <2>5. \A q \in Requests : Copy(got'[q], link, emitted) /\ Copy(hub.inbox[q], link, emitted) /\ Before(got'[q], hub.inbox[q])
    <3> TAKE q \in Requests
    <3>1. CASE q = r
      <4>1. \A y : Before(y, <<>>)
        BY DEF Before
      <4>2. Copy(hub.inbox[q], link, emitted)
        BY DEF InOrder
      <4> QED
        BY <1>2, <2>1, <2>4, <3>1, <4>1, <4>2
    <3>2. CASE q # r
      BY <2>1, <3>2 DEF InOrder
    <3> QED
      BY <3>1, <3>2
  <2>6. \A q \in Readers : Copy(replay'[q], link, emitted) /\ Before(got'[q], replay'[q])
    <3> TAKE q \in Readers
    <3>1. CASE q = r
      BY <2>1, <2>4, <3>1
    <3>2. CASE q # r
      BY <2>1, <3>2 DEF InOrder, Requests
    <3> QED
      BY <3>1, <3>2
  <2>7. InOrder'
    BY <2>1, <2>5, <2>6 DEF InOrder, Carried, OneLink, server
  <2>8. Reconnecting'
    BY <1>2, <2>1 DEF Reconnecting, Requests
  <2> QED
    BY <2>7, <2>8
<1> QED
  BY <1>3, <1>4

LEMMA ReconnectInOrder ==
  ASSUME TypeOK, Reconnecting, InOrder, NEW r \in Readers, Reconnect(r) \/ Replay(r)
  PROVE  Reconnecting' /\ InOrder'
<1>1. hub.buffer \in Seq(Items) /\ replay[r] \in Seq(Items)
  BY TypesOfQueues
<1>2. UNCHANGED <<link, server>>
  BY DEF Reconnect, Replay, requests
<1>3. CASE Replay(r)
  <2>1. reader[r] = "replaying" /\ YieldNext(r, replay[r]) /\ Copy(replay[r], link, emitted) /\ Before(got[r], replay[r])
    BY <1>3 DEF Replay, InOrder
  <2> QED
    BY <1>1, <1>2, <2>1, YieldInOrder
<1>4. CASE Reconnect(r)
  <2>1. reader[r] = "new" /\ got[r] = <<>> /\ replay[r] = <<>>
    BY <1>4 DEF Reconnect, Reconnecting
  <2>2. Copy(hub.buffer, link, emitted) /\ Before(got[r], hub.buffer)
    BY <2>1 DEF InOrder, Before
  <2>3. CASE YieldNext(r, hub.buffer)
    BY <1>1, <1>2, <2>1, <2>2, <2>3, YieldInOrder
  <2>4. CASE reader' = [reader EXCEPT ![r] = "ended"] /\ UNCHANGED <<replay, got, hub>>
    <3>1. reader \in [Readers -> {"new", "replaying", "reading", "ended", "left", "lost"}]
      BY DEF TypeOK
    <3>2. Reconnecting'
      BY <2>1, <2>4, <3>1 DEF Reconnecting
    <3>3. InOrder'
      BY <1>2, <2>4 DEF InOrder, Carried, OneLink, server
    <3> QED
      BY <3>2, <3>3
  <2> QED
    BY <1>4, <2>3, <2>4 DEF Reconnect
<1> QED
  BY <1>3, <1>4


\* A reader that leaves, and a restart, only lose copies.
LEMMA LeaveInOrder ==
  ASSUME TypeOK, TypeOK', Reconnecting, InOrder, NEW q \in Requests, Leave(q)
  PROVE  Reconnecting' /\ InOrder'
<1>1. /\ UNCHANGED <<got, link, emitted, running, replay>> /\ hub' = Unsubscribe(hub, q)
      /\ hub \in Registries /\ reader \in [Readers -> {"new", "replaying", "reading", "ended", "left", "lost"}]
  BY DEF Leave, server, TypeOK
<1>2. HubAdds(hub, hub', End) /\ Untouched(hub, hub')
  BY <1>1, HubSteps, StreamsTouch
<1>3. InOrder'
  BY <1>1, <1>2, QuietInOrder
<1>4. \A r \in Readers : reader'[r] = reader[r] \/ (reader[r] = "reading" /\ reader'[r] = "left")
  BY <1>1, TurnsAreNotReaders DEF Leave, SetRequest, Reading
<1>5. Reconnecting'
  <2> SUFFICES ASSUME NEW r \in Readers
               PROVE  /\ reader'[r] \in {"new", "replaying"} => r \notin hub'.subs /\ hub'.inbox[r] = <<>>
                      /\ reader'[r] = "new" => got'[r] = <<>>
                      /\ reader'[r] # "replaying" => replay'[r] = <<>>
    BY DEF Reconnecting
  <2> QED
    BY <1>1, <1>2, <1>4 DEF Reconnecting, Untouched
<1> QED
  BY <1>3, <1>5

LEMMA RestartInOrder ==
  ASSUME TypeOK, TypeOK', Reconnecting, InOrder, Restart
  PROVE  Reconnecting' /\ InOrder'
<1>1. /\ UNCHANGED <<got, emitted, running>> /\ hub' = EmptyHub /\ replay' = [r \in Readers |-> <<>>]
      /\ link \in [Turns -> Links]
  BY DEF Restart, server, TypeOK
<1>2. HubAdds(hub, hub', End)
  BY <1>1 DEF HubAdds, EmptyHub, Adds
<1>3. \A k \in Turns : link'[k].events = link[k].events
  <2>1. \A x \in Links : \A z : [x EXCEPT !.state = z].events = x.events
    BY DEF Links
  <2> QED
    BY <1>1, <2>1 DEF Restart
<1>4. InOrder'
  BY <1>1, <1>2, <1>3, QuietInOrder
<1>5. \A r \in Readers : reader'[r] = Lost(reader[r])
  BY DEF Restart
<1>6. Reconnecting'
  <2> SUFFICES ASSUME NEW r \in Readers
               PROVE  /\ reader'[r] \in {"new", "replaying"} => r \notin hub'.subs /\ hub'.inbox[r] = <<>>
                      /\ reader'[r] = "new" => got'[r] = <<>>
                      /\ reader'[r] # "replaying" => replay'[r] = <<>>
    BY DEF Reconnecting
  <2>1. r \notin hub'.subs /\ hub'.inbox[r] = <<>> /\ replay'[r] = <<>>
    BY <1>1 DEF EmptyHub, Requests
  <2>2. reader'[r] = "new" => got'[r] = <<>>
    BY <1>1, <1>5 DEF Lost, Reconnecting
  <2> QED
    BY <2>1, <2>2
<1> QED
  BY <1>4, <1>6

LEMMA NextInOrder ==
  ASSUME TypeOK, TypeOK', AskedOnce, Reconnecting, InOrder, [Next]_vars
  PROVE  Reconnecting' /\ InOrder'
<1>1. CASE UNCHANGED vars
  <2>1. UNCHANGED <<hub, link, got, emitted, running, replay, reader>>
    BY <1>1 DEF vars, server, others
  <2> QED
    BY <2>1 DEF InOrder, Reconnecting, Carried, OneLink
<1>2. ASSUME NEW t \in Turns, Request(t) \/ Handing(t) \/ CallFails(t) \/ Consume(t)
      PROVE  Reconnecting' /\ InOrder'
  BY <1>2, RequestInOrder, RequestReconnecting, ConsumeInOrder, ConsumeReconnecting
<1>3. ASSUME UNCHANGED <<hub, reader, replay, got>>
      PROVE  Reconnecting'
  <2>1. Untouched(hub, hub')
    BY <1>3 DEF Untouched
  <2> QED
    BY <1>3, <2>1, StillReconnecting
<1>4. ASSUME NEW a \in Aborts, Aborting(a)
      PROVE  Reconnecting' /\ InOrder'
  <2>1. UNCHANGED <<hub, reader, replay, got>>
    BY <1>4 DEF Aborting, AbortRemote, AbortLocally, AbortClosed
  <2>2. InOrder'
    BY <1>4, EndsInOrder, EmitInOrder DEF Aborting
  <2> QED
    BY <1>3, <2>1, <2>2
<1>5. ASSUME NEW k \in Turns, Serve(k) \/ Break(k)
      PROVE  Reconnecting' /\ InOrder'
  <2>1. UNCHANGED <<hub, reader, replay, got>>
    BY <1>5 DEF Serve, Hold, Dispatch, SeesClose, Release, Break, others
  <2>2. InOrder'
    BY <1>5, EndsInOrder, DispatchInOrder DEF Serve
  <2> QED
    BY <1>3, <2>1, <2>2
<1>6. CASE Emit \/ EmitError
  <2>1. UNCHANGED <<hub, reader, replay, got>>
    BY <1>6 DEF Emit, EmitError, others
  <2> QED
    BY <1>3, <1>6, <2>1, EmitInOrder
<1> QED
  BY <1>1, <1>2, <1>4, <1>5, <1>6, TakeInOrder, LeaveInOrder, ReconnectInOrder, RestartInOrder DEF Next

LEMMA InitInOrder ==
  ASSUME Init
  PROVE  AskedOnce /\ Reconnecting /\ InOrder
<1>1. /\ \A t \in Turns : emitted[t] = 0 /\ running = None
      /\ \A k \in Turns : link[k].events = <<>> /\ link[k].frames = <<>>
      /\ \A q \in Requests : got[q] = <<>> /\ hub.inbox[q] = <<>>
      /\ \A r \in Readers : replay[r] = <<>> /\ r \in Requests
      /\ hub.buffer = <<>> /\ hub.subs = {}
  BY DEF Init, EmptyHub, Requests
<1>2. DOMAIN <<>> = {}
  OBVIOUS
<1>3. AskedOnce /\ Reconnecting
  BY <1>1, <1>2 DEF AskedOnce, Unasked, Reconnecting
<1>4. \A s : Before(<<>>, s) /\ Before(s, <<>>) /\ Ascending(<<>>) /\ \A m : Produced(<<>>, m)
  BY <1>2 DEF Before, Ascending, Produced
<1>5. Copy(<<>>, link, emitted)
  BY <1>4 DEF Copy
<1>6. OneLink
  BY <1>1, <1>2 DEF OneLink
<1>7. Carried
  BY <1>1, <1>4 DEF Carried
<1> QED
  BY <1>1, <1>3, <1>4, <1>5, <1>6, <1>7 DEF InOrder

LEMMA OrderGivesNoRepeats ==
  ASSUME TypeOK, InOrder
  PROVE  NoRepeats
<1> SUFFICES ASSUME NEW q \in Requests, NEW i \in DOMAIN got[q], NEW j \in DOMAIN got[q], i < j,
                    got[q][i].turn = got[q][j].turn, got[q][i].kind \notin {"fault", "error"}
             PROVE  got[q][i] # got[q][j] /\ (got[q][j].kind \in {"delta", "completed"} => got[q][i].n < got[q][j].n)
  BY DEF NoRepeats
<1>1. got[q] \in Seq(Reports)
  BY DEF TypeOK
<1>2. got[q][i] \in Reports /\ got[q][j] \in Reports
  BY <1>1, LenProperties, ElementOfSeq
<1>3. Progress(got[q][i])
  BY <1>2 DEF Progress, Reports
<1>4. Precedes(got[q][i], got[q][j])
  BY DEF InOrder, Copy, Ascending
<1>5. Progress(got[q][j]) => got[q][i].n < got[q][j].n
  BY <1>3, <1>4 DEF Precedes
<1>6. got[q][i].n \in Nat /\ got[q][j].n \in Nat
  BY <1>2 DEF Reports
<1>7. got[q][i] # got[q][j]
  BY <1>3, <1>5, <1>6
<1> QED
  BY <1>5, <1>7 DEF Progress

\* No request is given an event of a reply twice, nor an earlier part of it
\* after a later one: not by a queue, not by the buffer replayed to a request
\* that reconnects, whatever turns overlap and whatever fails in between.
THEOREM NothingIsRepeated == Spec => []NoRepeats
<1>1. Init => TypeOK /\ AskedOnce /\ Reconnecting /\ InOrder
  BY InitType, InitInOrder
<1>2. TypeOK /\ AskedOnce /\ Reconnecting /\ InOrder /\ [Next]_vars => (TypeOK /\ AskedOnce /\ Reconnecting /\ InOrder)'
  BY NextType, NextAsksOnce, NextInOrder
<1>3. TypeOK /\ InOrder => NoRepeats
  BY OrderGivesNoRepeats
<1> QED
  BY <1>1, <1>2, <1>3, PTL DEF Spec

-----------------------------------------------------------------------------
(* One turn after the other: each reply is whole.                          *)

\* A turn that still uses the client, a connection or the registry.
Active(t) == turn[t] \in {"connecting", "sending"} \/ consumer[t] \notin {"none", "done"}
OneAtATime == \A t, u \in Turns : Active(t) /\ Active(u) => t = u

\* A queue: events, and then nothing but sentinels.
Cut(q, n) ==
  /\ n \in 0..Len(q)
  /\ \A i \in 1..n : q[i] # End
  /\ \A i \in (n + 1)..Len(q) : q[i] = End

Unread == {"new", "refused", "connecting", "sending", "failed"}

\* Who reads has subscribed for as long as its consumer lives, and only then.
OwnQueue ==
  \A t \in Turns :
    /\ turn[t] \in Unread => consumer[t] = "none" /\ got[t] = <<>> /\ hub.inbox[t] = <<>>
    /\ turn[t] \in {"reading", "ended", "left"} => consumer[t] # "none"
    /\ t \in hub.subs => turn[t] = "reading" /\ consumer[t] \in Alive
    /\ turn[t] = "reading" /\ consumer[t] \in Alive => t \in hub.subs /\ Cut(hub.inbox[t], Len(hub.inbox[t]))
    /\ turn[t] = "ended" => consumer[t] \notin Alive /\ Cut(hub.inbox[t], 0)
    /\ \E n \in 0..Len(hub.inbox[t]) : Cut(hub.inbox[t], n)

\* The stream of the session is the one the turn reserved or started.
OwnStream ==
  \A t \in Turns :
    (turn[t] \in {"connecting", "sending"} /\ gen[t] # None) \/ consumer[t] \in Alive => gen[t] = hub.gen

\* The connection of a turn carries its request, and its events.
Runs(t) == running # None /\ running.turn = t
OwnLink ==
  /\ running # None => running.via = running.turn /\ emitted[running.turn] <= MaxEvents + 1
  /\ \A t \in Turns :
       /\ turn[t] = "sending" \/ consumer[t] \notin {"none", "done"} => ws[client[t]].conn \in {t, None}
       /\ consumer[t] \in {"waiting", "yielded"} => source[t] = t
       /\ link[t].frames \in {<<>>, <<t>>}
       /\ turn[t] \in {"new", "connecting"} => link[t].frames = <<>>
       /\ turn[t] \in {"new", "connecting"} \/ link[t].frames # <<>> =>
            link[t].events = <<>> /\ emitted[t] = 0 /\ ~Runs(t)
       /\ \A i \in DOMAIN link[t].events : link[t].events[i].turn = t

\* What is on the way, from a number on: the last event may be of any kind.
Chain(s, from) ==
  \A i \in DOMAIN s :
    /\ i < Len(s) => s[i].kind \in {"running", "delta"}
    /\ s[i].kind \in {"running", "delta", "completed"} =>
         /\ s[i].n = from + i - 1 /\ (s[i].kind = "running" <=> s[i].n = 0)
         /\ s[i].kind = "completed" => s[i].n = MaxEvents + 1

Listening(t) == turn[t] = "sending" \/ (turn[t] = "reading" /\ consumer[t] \in {"created", "waiting", "yielded"})

\* What was produced, what is on the way and what is still to come make up
\* the reply.
Reported(t) == Len(got[t]) + Len(hub.inbox[t])
OnTheWay(t, from) ==
  /\ from = 0 => Reported(t) = 0
  /\ Chain(link[t].events, from)
  /\ Runs(t) /\ link[t].state \in {"open", "closing"} =>
       /\ emitted[t] = from + Len(link[t].events)
       /\ \A i \in DOMAIN link[t].events : link[t].events[i].kind \in {"running", "delta"}
WholeSoFar ==
  \A t \in Turns : Listening(t) =>
    /\ \A i \in DOMAIN (got[t] \o hub.inbox[t]) : (got[t] \o hub.inbox[t])[i] = Event(t, "delta", i)
    /\ link[t].frames # <<>> => Reported(t) = 0
    /\ \E from \in {0, Reported(t) + 1} : OnTheWay(t, from)

\* As long as nothing has failed, nobody but its consumer closes a connection,
\* and no consumer stops but after an event that says why.
Undisturbed ==
  faults = 0 =>
    /\ \A a \in Aborts : abort[a] = "new"
    /\ \A k \in Turns : link[k].state \in {"closing", "clean"} => consumer[k] \in {"closing", "done"}
    /\ \A t \in Turns : turn[t] \in {"reading", "ended"} /\ ~Listening(t) => Explained(Pushed(t))

SerialInv == faults \in Nat /\ OneAtATime /\ OwnQueue /\ OwnStream /\ OwnLink /\ WholeSoFar /\ Undisturbed

\* Queues and their sentinels.
LEMMA BeforeEndCuts ==
  ASSUME NEW S, NEW q \in Seq(S), NEW n, Cut(q, n)
  PROVE  BeforeEnd(q) = SubSeq(q, 1, n)
<1>1. DOMAIN q = 1..Len(q) /\ Len(q) \in Nat /\ n \in 0..Len(q)
  BY LenProperties DEF Cut
<1> DEFINE M == {0} \cup {i \in DOMAIN q : q[i] # End}
<1>2. n \in M /\ \A m \in M : m \in Nat /\ n >= m
  BY <1>1 DEF Cut
<1>3. Max(M) \in M /\ \A m \in M : Max(M) >= m
  BY <1>2 DEF Max
<1>4. Max(M) = n
  <2>1. Max(M) \in Nat /\ n \in Nat /\ Max(M) >= n /\ n >= Max(M)
    BY <1>2, <1>3
  <2> QED
    BY <2>1
<1> QED
  BY <1>4 DEF BeforeEnd

LEMMA NoEnd ==
  ASSUME NEW S, NEW q \in Seq(S), Cut(q, Len(q))
  PROVE  BeforeEnd(q) = q
<1>1. BeforeEnd(q) = SubSeq(q, 1, Len(q))
  BY BeforeEndCuts
<1>2. Len(q) \in Nat /\ \A i \in 1..Len(q) : q[i] \in S
  BY LenProperties, ElementOfSeq
<1>3. SubSeq(q, 1, Len(q)) \in Seq(S) /\ Len(SubSeq(q, 1, Len(q))) = Len(q)
      /\ \A i \in 1..Len(q) : SubSeq(q, 1, Len(q))[i] = q[i]
  BY <1>2, SubSeqProperties
<1> QED
  BY <1>1, <1>3, SeqEqual

LEMMA EmptyCut == Cut(<<>>, 0)
BY DEF Cut

LEMMA CutUnique ==
  ASSUME NEW q, Len(q) \in Nat, NEW m, NEW n, Cut(q, m), Cut(q, n)
  PROVE  m = n
<1>1. m \in Nat /\ n \in Nat /\ m <= Len(q) /\ n <= Len(q)
  BY DEF Cut
<1>2. ~(m < n) /\ ~(n < m)
  BY <1>1 DEF Cut
<1> QED
  BY <1>1, <1>2

\* An event comes before any sentinel, and a sentinel changes nothing.
LEMMA CutAppend ==
  ASSUME NEW S, NEW q \in Seq(S), NEW e \in S
  PROVE  /\ e # End /\ Cut(q, Len(q)) => Cut(Append(q, e), Len(Append(q, e)))
         /\ \A n : Cut(q, n) => Cut(Append(q, End), n)
<1> DEFINE a == Append(q, e)
           z == Append(q, End)
<1>1. Len(q) \in Nat
  BY LenProperties
<1>2. Len(a) = Len(q) + 1 /\ (\A i \in 1..Len(q) : a[i] = q[i]) /\ a[Len(q) + 1] = e
  BY AppendProperties
<1>3. q \in Seq(S \cup {End})
  BY SeqMonotonic
<1>4. Len(z) = Len(q) + 1 /\ (\A i \in 1..Len(q) : z[i] = q[i]) /\ z[Len(q) + 1] = End
  BY <1>3, AppendProperties
<1> HIDE DEF a, z
<1>5. e # End /\ Cut(q, Len(q)) => Cut(a, Len(a))
  BY <1>1, <1>2 DEF Cut
<1>6. ASSUME NEW n, Cut(q, n)
      PROVE  Cut(z, n)
  BY <1>1, <1>4, <1>6 DEF Cut
<1> QED
  BY <1>5, <1>6 DEF a, z

LEMMA EndChangesNothing ==
  ASSUME NEW S, NEW q \in Seq(S), NEW n, Cut(q, n)
  PROVE  Cut(Append(q, End), n) /\ BeforeEnd(Append(q, End)) = BeforeEnd(q)
<1>0. q \in Seq(S \cup {End}) /\ End \in S \cup {End}
  BY SeqMonotonic
<1>1. Append(q, End) \in Seq(S \cup {End}) /\ Len(Append(q, End)) = Len(q) + 1 /\ \A i \in 1..Len(q) : Append(q, End)[i] = q[i]
  BY <1>0, AppendProperties
<1>2. Cut(Append(q, End), n)
  BY <1>0, CutAppend
<1>3. Len(q) \in Nat /\ n \in 0..Len(q) /\ \A i \in 1..Len(q) : q[i] \in S
  BY LenProperties, ElementOfSeq DEF Cut
<1> DEFINE z == Append(q, End)
<1>4. SubSeq(q, 1, n) \in Seq(S \cup {End}) /\ Len(SubSeq(q, 1, n)) = n /\ \A i \in 1..n : SubSeq(q, 1, n)[i] = q[i]
  <2>1. \A i \in 1..n : q[i] \in S \cup {End}
    BY <1>3
  <2> QED
    BY <1>3, <2>1, SubSeqProperties
<1>5. \A i \in 1..n : z[i] = q[i] /\ z[i] \in S \cup {End}
  BY <1>1, <1>3
<1> HIDE DEF z
<1>6. SubSeq(z, 1, n) \in Seq(S \cup {End}) /\ Len(SubSeq(z, 1, n)) = n /\ \A i \in 1..n : SubSeq(z, 1, n)[i] = z[i]
  BY <1>3, <1>5, SubSeqProperties
<1>7. SubSeq(z, 1, n) = SubSeq(q, 1, n)
  BY <1>4, <1>5, <1>6, SeqEqual
<1> QED
  BY <1>0, <1>1, <1>2, <1>7, BeforeEndCuts DEF z

LEMMA CutTail ==
  ASSUME NEW S, NEW q \in Seq(S), q # <<>>, NEW n, Cut(q, n)
  PROVE  /\ Head(q) = End => n = 0 /\ Cut(Tail(q), 0)
         /\ Head(q) # End => n \in Nat \ {0} /\ Cut(Tail(q), n - 1)
<1> DEFINE z == Tail(q)
<1>1. Len(q) \in Nat \ {0} /\ Len(z) = Len(q) - 1 /\ Head(q) = q[1] /\ \A i \in 1..(Len(q) - 1) : z[i] = q[i + 1]
  <2>1. Len(q) \in Nat /\ Len(q) # 0
    BY LenProperties, EmptySeq
  <2>2. z \in Seq(S) /\ Len(z) = Len(q) - 1 /\ \A i \in 1..Len(z) : z[i] = q[i + 1]
    BY HeadTailProperties
  <2> QED
    BY <2>1, <2>2
<1> HIDE DEF z
<1>2. n \in 0..Len(q)
  BY DEF Cut
<1>3. Head(q) = End => n = 0 /\ Cut(z, 0)
  BY <1>1, <1>2 DEF Cut
<1>4. Head(q) # End => n \in Nat \ {0} /\ Cut(z, n - 1)
  <2> SUFFICES ASSUME Head(q) # End
               PROVE  n \in Nat \ {0} /\ Cut(z, n - 1)
    OBVIOUS
  <2>1. n # 0
    BY <1>1 DEF Cut
  <2>2. n - 1 \in 0..Len(z)
    BY <1>1, <1>2, <2>1
  <2>3. ASSUME NEW i \in 1..(n - 1)
        PROVE  z[i] # End
    <3>1. i \in 1..(Len(q) - 1) /\ i + 1 \in 1..n
      BY <1>1, <1>2
    <3> QED
      BY <1>1, <3>1 DEF Cut
  <2>4. ASSUME NEW i \in ((n - 1) + 1)..Len(z)
        PROVE  z[i] = End
    <3>1. i \in 1..(Len(q) - 1) /\ i + 1 \in (n + 1)..Len(q)
      BY <1>1, <1>2, <2>1
    <3> QED
      BY <1>1, <3>1 DEF Cut
  <2> QED
    BY <1>2, <2>1, <2>2, <2>3, <2>4 DEF Cut
<1> QED
  BY <1>3, <1>4 DEF z

\* What a caller takes from its queue moves over.
LEMMA HeadMoves ==
  ASSUME NEW S, NEW g \in Seq(S), NEW s \in Seq(S), s # <<>>
  PROVE  Append(g, Head(s)) \o Tail(s) = g \o s
<1> DEFINE a == Append(g, Head(s))
           z == Tail(s)
<1>1. Len(s) \in Nat \ {0} /\ Len(g) \in Nat
  <2>1. Len(s) \in Nat /\ Len(s) # 0 /\ Len(g) \in Nat
    BY LenProperties, EmptySeq
  <2> QED
    BY <2>1
<1>2. Head(s) \in S /\ Head(s) = s[1] /\ z \in Seq(S) /\ Len(z) = Len(s) - 1 /\ \A i \in 1..Len(z) : z[i] = s[i + 1]
  BY HeadTailProperties
<1>3. a \in Seq(S) /\ Len(a) = Len(g) + 1 /\ (\A i \in 1..Len(g) : a[i] = g[i]) /\ a[Len(g) + 1] = Head(s)
  BY <1>2, AppendProperties
<1> HIDE DEF a, z
<1>4. a \o z \in Seq(S) /\ Len(a \o z) = Len(a) + Len(z)
      /\ \A i \in 1..(Len(a) + Len(z)) : (a \o z)[i] = IF i <= Len(a) THEN a[i] ELSE z[i - Len(a)]
  BY <1>2, <1>3, ConcatProperties
<1>5. g \o s \in Seq(S) /\ Len(g \o s) = Len(g) + Len(s)
      /\ \A i \in 1..(Len(g) + Len(s)) : (g \o s)[i] = IF i <= Len(g) THEN g[i] ELSE s[i - Len(g)]
  BY ConcatProperties
<1>6. Len(a \o z) = Len(g \o s) /\ Len(a) + Len(z) = Len(g) + Len(s)
  BY <1>1, <1>2, <1>3, <1>4, <1>5
<1>7. ASSUME NEW i \in 1..(Len(g) + Len(s))
      PROVE  (a \o z)[i] = (g \o s)[i]
  <2>1. CASE i <= Len(g)
    BY <1>1, <1>3, <1>4, <1>5, <1>6, <2>1
  <2>2. CASE i = Len(g) + 1
    <3>1. (a \o z)[i] = s[1]
      BY <1>1, <1>2, <1>3, <1>4, <1>6, <2>2
    <3>2. i - Len(g) = 1 /\ ~(i <= Len(g))
      BY <1>1, <2>2
    <3> QED
      BY <1>5, <3>1, <3>2
  <2>3. CASE i > Len(g) + 1
    <3>1. ~(i <= Len(a)) /\ ~(i <= Len(g)) /\ i - Len(a) \in 1..Len(z) /\ (i - Len(a)) + 1 = i - Len(g)
      BY <1>1, <1>2, <1>3, <2>3
    <3>2. (a \o z)[i] = z[i - Len(a)]
      BY <1>4, <1>6, <3>1
    <3>3. z[i - Len(a)] = s[i - Len(g)]
      BY <1>2, <3>1
    <3> QED
      BY <1>5, <3>1, <3>2, <3>3
  <2>4. i <= Len(g) \/ i = Len(g) + 1 \/ i > Len(g) + 1
    BY <1>1
  <2> QED
    BY <2>1, <2>2, <2>3, <2>4
<1>8. a \o z = g \o s
  BY <1>4, <1>5, <1>6, <1>7, SeqEqual
<1> QED
  BY <1>8 DEF a, z

LEMMA TakenMoves ==
  ASSUME NEW S, NEW g \in Seq(S), NEW q \in Seq(S \cup {End}), q # <<>>, Head(q) # End, NEW n, Cut(q, n)
  PROVE  Append(g, Head(q)) \o BeforeEnd(Tail(q)) = g \o BeforeEnd(q)
<1> DEFINE S1 == S \cup {End}
<1>1. n \in Nat \ {0} /\ Cut(Tail(q), n - 1) /\ g \in Seq(S1)
  BY CutTail, SeqMonotonic
<1>2. Tail(q) \in Seq(S1) /\ Len(Tail(q)) = Len(q) - 1 /\ Head(q) = q[1] /\ \A i \in 1..Len(Tail(q)) : Tail(q)[i] = q[i + 1]
  BY HeadTailProperties
<1>3. BeforeEnd(q) = SubSeq(q, 1, n) /\ BeforeEnd(Tail(q)) = SubSeq(Tail(q), 1, n - 1)
  BY <1>1, <1>2, BeforeEndCuts
<1>4. Len(q) \in Nat /\ n <= Len(q) /\ \A i \in 1..Len(q) : q[i] \in S1
  BY LenProperties, ElementOfSeq DEF Cut
<1> DEFINE s == SubSeq(q, 1, n)
           z == SubSeq(Tail(q), 1, n - 1)
<1>5. s \in Seq(S1) /\ Len(s) = n /\ \A i \in 1..n : s[i] = q[i]
  BY <1>1, <1>4, SubSeqProperties
<1>6. z \in Seq(S1) /\ Len(z) = n - 1 /\ \A i \in 1..(n - 1) : z[i] = Tail(q)[i]
  <2>1. \A i \in 1..(n - 1) : i \in 1..Len(Tail(q)) /\ Tail(q)[i] \in S1
    BY <1>1, <1>2, <1>4
  <2> QED
    BY <1>1, <2>1, SubSeqProperties
<1> HIDE DEF s, z, S1
<1>7. s # <<>>
  BY <1>1, <1>5
<1>8. Head(s) = s[1] /\ Tail(s) \in Seq(S1) /\ Len(Tail(s)) = Len(s) - 1 /\ \A i \in 1..Len(Tail(s)) : Tail(s)[i] = s[i + 1]
  BY <1>5, <1>7, HeadTailProperties
<1>9. Head(s) = Head(q)
  BY <1>1, <1>2, <1>5, <1>8
<1>10. Tail(s) = z
  <2>1. Len(z) = Len(Tail(s))
    BY <1>1, <1>5, <1>6, <1>8
  <2>2. ASSUME NEW i \in 1..Len(z)
        PROVE  z[i] = Tail(s)[i]
    <3>1. i \in 1..(n - 1) /\ i \in 1..Len(Tail(q)) /\ i \in 1..Len(Tail(s)) /\ i + 1 \in 1..n
      BY <1>1, <1>2, <1>4, <1>5, <1>6, <1>8
    <3> QED
      BY <1>2, <1>5, <1>6, <1>8, <3>1
  <2> QED
    BY <1>6, <1>8, <2>1, <2>2, SeqEqual
<1>11. Append(g, Head(s)) \o Tail(s) = g \o s
  BY <1>1, <1>5, <1>7, HeadMoves
<1> QED
  BY <1>3, <1>9, <1>10, <1>11 DEF s, z

\* What the registry's operations mean to one queue.
LEMMA HubEffects ==
  ASSUME NEW h \in Registries, NEW q \in Requests
  PROVE  /\ \A e : Broadcast(h, e)[q] = IF q \in h.subs THEN Append(h.inbox[q], e) ELSE h.inbox[q]
         /\ EndStream(h).gen = h.gen /\ EndStream(h).subs = h.subs /\ EndStream(h).inbox[q] = Broadcast(h, End)[q]
         /\ StartStream(h).gen = h.gen + 1 /\ StartStream(h).subs = {} /\ StartStream(h).inbox[q] = Broadcast(h, End)[q]
         /\ \A r \in Requests : /\ Subscribe(h, r).gen = h.gen /\ Subscribe(h, r).subs = h.subs \cup {r}
                                /\ Subscribe(h, r).inbox[q] = h.inbox[q]
         /\ \A r \in Requests : /\ Unsubscribe(h, r).gen = h.gen /\ Unsubscribe(h, r).subs = h.subs \ {r}
                                /\ Unsubscribe(h, r).inbox[q] = h.inbox[q]
         /\ Cleanup(h).gen = 0 /\ Cleanup(h).subs = {} /\ Cleanup(h).inbox[q] = h.inbox[q]
         /\ \A g : /\ ReleaseStream(h, g).gen = h.gen /\ ReleaseStream(h, g).subs = h.subs
                   /\ ReleaseStream(h, g).inbox[q] \in {h.inbox[q], Broadcast(h, End)[q]}
         /\ \A g, e : /\ PushEvent(h, g, e).gen = h.gen /\ PushEvent(h, g, e).subs = h.subs
                      /\ PushEvent(h, g, e).inbox[q] = IF h.gen = g THEN Broadcast(h, e)[q] ELSE h.inbox[q]
<1>1. EndStream(h) \in Registries
  BY EndStreamType
<1>2. EndStream(h).gen = h.gen /\ EndStream(h).subs = h.subs /\ EndStream(h).inbox[q] = Broadcast(h, End)[q]
  BY DEF EndStream, Registries
<1>3. StartStream(h).gen = h.gen + 1 /\ StartStream(h).subs = {} /\ StartStream(h).inbox[q] = Broadcast(h, End)[q]
  BY <1>1, <1>2 DEF StartStream, Registries
<1>4. \A e : Broadcast(h, e)[q] = IF q \in h.subs THEN Append(h.inbox[q], e) ELSE h.inbox[q]
  BY DEF Broadcast
<1>5. \A g : /\ ReleaseStream(h, g).gen = h.gen /\ ReleaseStream(h, g).subs = h.subs
             /\ ReleaseStream(h, g).inbox[q] \in {h.inbox[q], Broadcast(h, End)[q]}
  BY <1>2 DEF ReleaseStream
<1>6. \A g, e : /\ PushEvent(h, g, e).gen = h.gen /\ PushEvent(h, g, e).subs = h.subs
                /\ PushEvent(h, g, e).inbox[q] = IF h.gen = g THEN Broadcast(h, e)[q] ELSE h.inbox[q]
  BY DEF PushEvent, Registries
<1>7. /\ \A r \in Requests : /\ Subscribe(h, r).gen = h.gen /\ Subscribe(h, r).subs = h.subs \cup {r}
                             /\ Subscribe(h, r).inbox[q] = h.inbox[q]
      /\ \A r \in Requests : /\ Unsubscribe(h, r).gen = h.gen /\ Unsubscribe(h, r).subs = h.subs \ {r}
                             /\ Unsubscribe(h, r).inbox[q] = h.inbox[q]
      /\ Cleanup(h).gen = 0 /\ Cleanup(h).subs = {} /\ Cleanup(h).inbox[q] = h.inbox[q]
  BY DEF Subscribe, Unsubscribe, Cleanup, Registries
<1> QED
  BY <1>2, <1>3, <1>4, <1>5, <1>6, <1>7

\* Steps about which the replies need to know only this: no turn and no
\* consumer moves, connections are closed and nothing is put on them.
LEMMA QuietStep ==
  ASSUME TypeOK, SerialInv,
         UNCHANGED <<turn, consumer, source, gen, emitted>>,
         \A t \in Turns : client'[t] = client[t],
         \A t \in Turns : got'[t] = got[t] /\ hub'.inbox[t] = hub.inbox[t] /\ (t \in hub'.subs <=> t \in hub.subs),
         hub'.gen = hub.gen,
         \A c \in Clients : ws'[c].conn \in {ws[c].conn, None},
         \A k \in Turns : link'[k].events = link[k].events /\ link'[k].frames = link[k].frames,
         \A k \in Turns : link'[k].state \in {"open", "closing"} => link[k].state \in {"open", "closing"},
         running' \in {running, None},
         \/ faults' = faults + 1
         \/ faults' = faults /\ faults # 0
         \/ /\ faults' = faults /\ UNCHANGED abort
            /\ \A k \in Turns : link'[k].state \in {"closing", "clean"} => link[k].state \in {"closing", "clean"}
  PROVE  SerialInv'
<1>1. OneAtATime'
  BY DEF SerialInv, OneAtATime, Active
<1>2. OwnQueue'
  BY DEF SerialInv, OwnQueue
<1>3. OwnStream'
  BY DEF SerialInv, OwnStream
<1>4. \A t \in Turns : Runs(t)' => Runs(t)
  BY DEF Runs
<1>5. OwnLink'
  <2>1. \A t \in Turns : turn[t] = "sending" \/ consumer[t] \notin {"none", "done"} => client[t] \in Clients
    BY DEF TypeOK, Clients
  <2> QED
    BY <1>4, <2>1 DEF SerialInv, OwnLink
<1>6. WholeSoFar'
  <2> SUFFICES ASSUME NEW t \in Turns, Listening(t)'
               PROVE  /\ \A i \in DOMAIN (got'[t] \o hub'.inbox[t]) : (got'[t] \o hub'.inbox[t])[i] = Event(t, "delta", i)
                      /\ link'[t].frames # <<>> => Reported(t)' = 0
                      /\ \E from \in {0, Reported(t)' + 1} : OnTheWay(t, from)'
    BY DEF WholeSoFar
  <2>1. Listening(t) /\ Reported(t)' = Reported(t)
    BY DEF Listening, Reported
  <2>2. PICK from \in {0, Reported(t) + 1} : OnTheWay(t, from)
    BY <2>1 DEF SerialInv, WholeSoFar
  <2>3. OnTheWay(t, from)'
    BY <1>4, <2>1, <2>2 DEF OnTheWay
  <2>4. \A i \in DOMAIN (got[t] \o hub.inbox[t]) : (got[t] \o hub.inbox[t])[i] = Event(t, "delta", i)
    BY <2>1 DEF SerialInv, WholeSoFar
  <2>5. got'[t] \o hub'.inbox[t] = got[t] \o hub.inbox[t]
    OBVIOUS
  <2>6. link'[t].frames # <<>> => Reported(t) = 0
    BY <2>1 DEF SerialInv, WholeSoFar
  <2> QED
    BY <2>1, <2>3, <2>4, <2>5, <2>6
<1>7. Undisturbed'
  <2> SUFFICES ASSUME faults' = 0
               PROVE  Undisturbed'
    BY DEF Undisturbed
  <2>1. faults = 0 /\ UNCHANGED abort
        /\ \A k \in Turns : link'[k].state \in {"closing", "clean"} => link[k].state \in {"closing", "clean"}
    BY DEF SerialInv
  <2>2. \A t \in Turns : Pushed(t)' = Pushed(t) /\ (Listening(t)' <=> Listening(t))
    BY DEF Pushed, Listening
  <2> QED
    BY <2>1, <2>2 DEF SerialInv, Undisturbed
<1> QED
  BY <1>1, <1>2, <1>3, <1>5, <1>6, <1>7 DEF SerialInv

\* When nothing is left of the other turns, no turn has subscribed.
LEMMA NobodyActive ==
  ASSUME SerialInv, Quiet
  PROVE  \A t \in Turns : ~Active(t) /\ t \notin hub.subs
BY DEF SerialInv, OwnQueue, Quiet, Active, Alive

\* A turn begins, or is refused.
LEMMA Begins ==
  ASSUME TypeOK, SerialInv, NEW t \in Turns, turn[t] = "new", Quiet,
         NEW s \in {"connecting", "refused"}, turn' = [turn EXCEPT ![t] = s],
         UNCHANGED <<consumer, source, got, ws, link, emitted, running, faults, abort>>,
         \A u \in Turns : hub'.inbox[u] = hub.inbox[u] /\ u \notin hub'.subs,
         s = "connecting" => gen'[t] \in {None, hub'.gen}
  PROVE  SerialInv'
<1>0. \A u \in Turns : ~Active(u) /\ u \notin hub.subs
  BY NobodyActive
<1>1. turn'[t] = s /\ \A u \in Turns \ {t} : turn'[u] = turn[u]
  BY DEF TypeOK
<1>2. \A u \in Turns : turn[u] \notin {"connecting", "sending"} /\ consumer[u] \in {"none", "done"}
  BY <1>0 DEF Active
<1>3. OneAtATime'
  BY <1>1, <1>2 DEF OneAtATime, Active
<1>4. OwnQueue'
  <2> SUFFICES ASSUME NEW u \in Turns
               PROVE  /\ turn'[u] \in Unread => consumer[u] = "none" /\ got[u] = <<>> /\ hub.inbox[u] = <<>>
                      /\ turn'[u] \in {"reading", "ended", "left"} => consumer[u] # "none"
                      /\ consumer[u] \notin Alive
                      /\ turn'[u] = "ended" => Cut(hub.inbox[u], 0)
                      /\ \E n \in 0..Len(hub.inbox[u]) : Cut(hub.inbox[u], n)
    BY <1>1 DEF OwnQueue
  <2>1. consumer[u] \notin Alive
    BY <1>2 DEF Alive
  <2>2. CASE u = t
    BY <1>1, <2>1, <2>2 DEF SerialInv, OwnQueue, Unread
  <2>3. CASE u # t
    BY <1>1, <2>1, <2>3 DEF SerialInv, OwnQueue
  <2> QED
    BY <2>2, <2>3
<1>5. OwnStream'
  BY <1>1, <1>2 DEF OwnStream, Alive
<1>6. OwnLink'
  <2>1. \A u \in Turns : turn'[u] \in {"new", "connecting"} => turn[u] \in {"new", "connecting"}
    BY <1>1
  <2>2. \A u \in Turns : turn'[u] # "sending"
    BY <1>1, <1>2
  <2>3. \A u \in Turns : Runs(u)' <=> Runs(u)
    BY DEF Runs
  <2> QED
    BY <1>2, <2>1, <2>2, <2>3 DEF SerialInv, OwnLink
<1>7. WholeSoFar'
  <2>1. \A u \in Turns : ~Listening(u)'
    BY <1>1, <1>2 DEF Listening
  <2> QED
    BY <2>1 DEF WholeSoFar
<1>8. Undisturbed'
  <2>1. \A u \in Turns : Pushed(u)' = Pushed(u)
    BY DEF Pushed
  <2>2. \A u \in Turns : turn'[u] \in {"reading", "ended"} => turn[u] = turn'[u] /\ ~Listening(u)
    BY <1>1, <1>2 DEF Listening
  <2> QED
    BY <2>1, <2>2 DEF SerialInv, Undisturbed
<1> QED
  BY <1>3, <1>4, <1>5, <1>6, <1>7, <1>8 DEF SerialInv

LEMMA QuietPrepares ==
  ASSUME TypeOK, NEW t \in Turns, NEW h, NEW g, Quiet, Prepare(t, h, g)
  PROVE  /\ turn' = [turn EXCEPT ![t] = "connecting"] /\ hub' = h /\ gen'[t] = g /\ link' = link
<1> DEFINE c == IF pool = None THEN t ELSE pool
<1>1. c \in Clients
  BY DEF TypeOK, Clients
<1>2. ~ws[c].up /\ ~CanSend(c)
  BY <1>1 DEF Quiet, CanSend
<1>3. t \in DOMAIN gen
  BY DEF TypeOK
<1> QED
  BY <1>2, <1>3 DEF Prepare

\* What a request finds when nothing of the others is left, and leaves.
LEMMA RequestBegins ==
  ASSUME Serial, TypeOK, SerialInv, NEW t \in Turns, Request(t)
  PROVE  /\ turn[t] = "new" /\ Quiet
         /\ \E s \in {"connecting", "refused"} : turn' = [turn EXCEPT ![t] = s] /\ (s = "connecting" => gen'[t] \in {None, hub'.gen})
         /\ UNCHANGED <<consumer, source, got, ws, link, emitted, running, faults, abort>>
         /\ \A u \in Turns : hub'.inbox[u] = hub.inbox[u] /\ u \notin hub'.subs
<1>1. turn[t] = "new" /\ Quiet /\ UNCHANGED <<consumer, source, got, ws, emitted, running, faults, abort>>
  BY DEF Request, SendMessage, Regenerate, others, server
<1>2. \A u \in Turns : u \notin hub.subs /\ u \in Requests
  BY <1>1, NobodyActive DEF Requests
<1>3. hub \in Registries
  BY DEF TypeOK
<1> DEFINE h == StartStream(hub)
<1>4. h \in Registries /\ \A u \in Turns : h.inbox[u] = hub.inbox[u] /\ u \notin h.subs
  BY <1>2, <1>3, StartStreamType, HubEffects
<1>5. CASE SendMessage(t)
  BY <1>1, <1>2, <1>5, QuietPrepares DEF SendMessage
<1>6. CASE Regenerate(t)
  <2>1. CASE turn' = [turn EXCEPT ![t] = "refused"] /\ UNCHANGED <<hub, link>>
    BY <1>1, <1>2, <2>1
  <2>2. CASE turn' = [turn EXCEPT ![t] = "refused"] /\ hub' = ReleaseStream(h, h.gen) /\ UNCHANGED link
    <3>1. \A u \in Turns : hub'.inbox[u] = hub.inbox[u] /\ u \notin hub'.subs
      <4> HIDE DEF h
      <4> QED
        BY <1>2, <1>4, <2>2, HubEffects
    <3> QED
      BY <1>1, <2>2, <3>1
  <2>3. CASE Prepare(t, h, h.gen)
    <3>1. turn' = [turn EXCEPT ![t] = "connecting"] /\ hub' = h /\ gen'[t] = h.gen /\ link' = link
      BY <1>1, <2>3, QuietPrepares
    <3> HIDE DEF h
    <3> QED
      BY <1>1, <1>4, <3>1
  <2> QED
    BY <1>6, <2>1, <2>2, <2>3 DEF Regenerate
<1> QED
  BY <1>5, <1>6 DEF Request

LEMMA RequestSerial ==
  ASSUME Serial, TypeOK, SerialInv, NEW t \in Turns, Request(t)
  PROVE  SerialInv'
<1>1. PICK s \in {"connecting", "refused"} : turn' = [turn EXCEPT ![t] = s] /\ (s = "connecting" => gen'[t] \in {None, hub'.gen})
  BY RequestBegins
<1>2. /\ turn[t] = "new" /\ Quiet
      /\ UNCHANGED <<consumer, source, got, ws, link, emitted, running, faults, abort>>
      /\ \A u \in Turns : hub'.inbox[u] = hub.inbox[u] /\ u \notin hub'.subs
  BY RequestBegins
<1> QED
  BY <1>1, <1>2, Begins

\* The only turn that is active.
LEMMA OnlyOne ==
  ASSUME SerialInv, NEW t \in Turns, Active(t)
  PROVE  \A u \in Turns \ {t} : /\ turn[u] \notin {"connecting", "sending"} /\ consumer[u] \in {"none", "done"}
                                /\ ~Listening(u) /\ u \notin hub.subs
<1>1. \A u \in Turns \ {t} : ~Active(u)
  BY DEF SerialInv, OneAtATime
<1> QED
  BY <1>1 DEF SerialInv, Active, Listening, OwnQueue, Alive

LEMMA ConnectedSerial ==
  ASSUME TypeOK, SerialInv, NEW t \in Turns, Connected(t)
  PROVE  SerialInv'
<1>1. /\ turn[t] = "connecting" /\ turn' = [turn EXCEPT ![t] = "sending"]
      /\ ws' = [ws EXCEPT ![client[t]] = [conn |-> t, up |-> TRUE]]
      /\ link' = [link EXCEPT ![t] = [@ EXCEPT !.state = "open", !.server = "accepted", !.frames = <<t>>]]
      /\ UNCHANGED <<gen, client, consumer, source, got, hub, running, emitted, faults, abort>>
  BY DEF Connected, others, server
<1>2. turn'[t] = "sending" /\ \A u \in Turns \ {t} : turn'[u] = turn[u]
  BY <1>1 DEF TypeOK
<1>3. Active(t) /\ \A u \in Turns \ {t} : turn[u] \notin {"connecting", "sending"} /\ consumer[u] \in {"none", "done"}
  BY <1>1, OnlyOne DEF Active
<1>4. /\ consumer[t] = "none" /\ got[t] = <<>> /\ hub.inbox[t] = <<>>
      /\ link[t].events = <<>> /\ emitted[t] = 0 /\ ~Runs(t)
  BY <1>1 DEF SerialInv, OwnQueue, OwnLink, Unread
<1>5. link[t] \in Links /\ link \in [Turns -> Links]
  BY DEF TypeOK
<1>6. /\ link'[t].state = "open" /\ link'[t].frames = <<t>> /\ link'[t].events = <<>>
      /\ \A u \in Turns \ {t} : link'[u] = link[u]
  <2>1. link'[t] = [link[t] EXCEPT !.state = "open", !.server = "accepted", !.frames = <<t>>]
    BY <1>1, <1>5
  <2>2. \A x \in Links : LET y == [x EXCEPT !.state = "open", !.server = "accepted", !.frames = <<t>>] IN
          y.state = "open" /\ y.frames = <<t>> /\ y.events = x.events
    BY DEF Links
  <2> QED
    BY <1>1, <1>4, <1>5, <2>1, <2>2
<1>7. OneAtATime'
  BY <1>1, <1>2, <1>3 DEF OneAtATime, Active
<1>8. OwnQueue'
  <2>1. \A u \in Turns \ {t} : turn'[u] = turn[u] /\ consumer'[u] = consumer[u] /\ got'[u] = got[u]
    BY <1>1, <1>2
  <2>2. turn'[t] = "sending" /\ t \notin hub.subs /\ \E n \in 0..Len(hub.inbox[t]) : Cut(hub.inbox[t], n)
    BY <1>1, <1>2 DEF SerialInv, OwnQueue
  <2> QED
    BY <1>1, <1>4, <2>1, <2>2 DEF SerialInv, OwnQueue
<1>9. OwnStream'
  BY <1>1, <1>2 DEF SerialInv, OwnStream
<1>10. OwnLink'
  <2>1. client[t] \in Clients /\ ws'[client[t]].conn = t
    BY <1>1 DEF TypeOK, Clients
  <2>2. DOMAIN <<>> = {} /\ <<t>> # <<>>
    OBVIOUS
  <2>3. \A u \in Turns : Runs(u)' <=> Runs(u)
    BY <1>1 DEF Runs
  <2>4. running' # None => running'.via = running'.turn /\ emitted'[running'.turn] <= MaxEvents + 1
    BY <1>1 DEF SerialInv, OwnLink
  <2>5. ASSUME NEW u \in Turns \ {t}
        PROVE  /\ turn'[u] = turn[u] /\ turn[u] # "sending" /\ turn[u] # "connecting" /\ link'[u] = link[u]
               /\ consumer'[u] \in {"none", "done"} /\ source'[u] = source[u]
    BY <1>1, <1>2, <1>3, <1>6
  <2>6. \A u \in Turns \ {t} : /\ link[u].frames \in {<<>>, <<u>>} /\ (turn[u] = "new" => link[u].frames = <<>>)
           /\ (turn[u] = "new" \/ link[u].frames # <<>> => link[u].events = <<>> /\ emitted[u] = 0 /\ ~Runs(u))
           /\ \A i \in DOMAIN link[u].events : link[u].events[i].turn = u
    BY DEF SerialInv, OwnLink
  <2>7. ASSUME NEW u \in Turns
        PROVE  /\ turn'[u] = "sending" \/ consumer'[u] \notin {"none", "done"} => ws'[client'[u]].conn \in {u, None}
               /\ consumer'[u] \in {"waiting", "yielded"} => source'[u] = u
               /\ link'[u].frames \in {<<>>, <<u>>}
               /\ turn'[u] \in {"new", "connecting"} => link'[u].frames = <<>>
               /\ turn'[u] \in {"new", "connecting"} \/ link'[u].frames # <<>> =>
                    link'[u].events = <<>> /\ emitted'[u] = 0 /\ ~Runs(u)'
               /\ \A i \in DOMAIN link'[u].events : link'[u].events[i].turn = u
    <3>1. CASE u = t
      BY <1>1, <1>2, <1>4, <1>6, <2>1, <2>2, <2>3, <3>1
    <3>2. CASE u # t
      BY <1>1, <2>3, <2>5, <2>6, <3>2
    <3> QED
      BY <3>1, <3>2
  <2> QED
    BY <2>4, <2>7 DEF OwnLink
<1>11. WholeSoFar'
  <2>1. \A u \in Turns \ {t} : ~Listening(u)'
    BY <1>1, <1>2, <1>3 DEF Listening
  <2>2. got'[t] \o hub'.inbox[t] = <<>> /\ Reported(t)' = 0
    BY <1>1, <1>4 DEF Reported
  <2>3. OnTheWay(t, 0)'
    <3>1. Chain(<<>>, 0)
      BY DEF Chain
    <3> QED
      BY <1>1, <1>4, <1>6, <2>2, <3>1 DEF OnTheWay, Runs
  <2>4. DOMAIN <<>> = {}
    OBVIOUS
  <2> QED
    BY <2>1, <2>2, <2>3, <2>4 DEF WholeSoFar
<1>12. Undisturbed'
  <2>1. \A u \in Turns : Pushed(u)' = Pushed(u)
    BY <1>1 DEF Pushed
  <2>2. \A u \in Turns : turn'[u] \in {"reading", "ended"} => turn[u] = turn'[u] /\ (Listening(u)' <=> Listening(u))
    BY <1>1, <1>2 DEF Listening
  <2>3. \A u \in Turns : link'[u].state \in {"closing", "clean"} => link'[u].state = link[u].state
    BY <1>6
  <2> QED
    BY <1>1, <2>1, <2>2, <2>3 DEF SerialInv, Undisturbed
<1> QED
  BY <1>1, <1>7, <1>8, <1>9, <1>10, <1>11, <1>12 DEF SerialInv

LEMMA CallFailsSerial ==
  ASSUME TypeOK, SerialInv, NEW t \in Turns, CallFails(t)
  PROVE  SerialInv'
<1>1. /\ turn[t] \in {"connecting", "sending"} /\ turn' = [turn EXCEPT ![t] = "failed"] /\ faults' = faults + 1
      /\ hub' = (IF gen[t] = None THEN hub ELSE ReleaseStream(hub, gen[t]))
      /\ UNCHANGED <<gen, client, consumer, source, got, ws, link, running, emitted>>
  BY DEF CallFails, Faulty, server
<1>2. turn'[t] = "failed" /\ \A u \in Turns \ {t} : turn'[u] = turn[u]
  BY <1>1 DEF TypeOK
<1>3. Active(t) /\ consumer[t] = "none" /\ t \notin hub.subs
  BY <1>1 DEF SerialInv, OwnQueue, Active, Unread
<1>4. \A u \in Turns \ {t} : turn[u] \notin {"connecting", "sending"} /\ consumer[u] \in {"none", "done"} /\ u \notin hub.subs
  BY <1>3, OnlyOne
<1>5. \A u \in Turns : hub'.inbox[u] = hub.inbox[u] /\ u \notin hub'.subs
  <2>1. \A u \in Turns : u \in Requests /\ u \notin hub.subs
    BY <1>3, <1>4 DEF Requests
  <2>2. hub \in Registries
    BY DEF TypeOK
  <2> QED
    BY <1>1, <2>1, <2>2, HubEffects
<1>6. OneAtATime'
  BY <1>1, <1>2, <1>3, <1>4 DEF OneAtATime, Active
<1>7. OwnQueue'
  <2> SUFFICES ASSUME NEW u \in Turns
               PROVE  /\ turn'[u] \in Unread => consumer[u] = "none" /\ got[u] = <<>> /\ hub.inbox[u] = <<>>
                      /\ turn'[u] \in {"reading", "ended", "left"} => consumer[u] # "none"
                      /\ consumer[u] \notin Alive
                      /\ turn'[u] = "ended" => Cut(hub.inbox[u], 0)
                      /\ \E n \in 0..Len(hub.inbox[u]) : Cut(hub.inbox[u], n)
    BY <1>1, <1>5 DEF OwnQueue
  <2>1. consumer[u] \notin Alive
    BY <1>3, <1>4 DEF Alive
  <2>2. CASE u = t
    BY <1>1, <1>2, <2>1, <2>2 DEF SerialInv, OwnQueue, Unread
  <2>3. CASE u # t
    BY <1>2, <2>1, <2>3 DEF SerialInv, OwnQueue
  <2> QED
    BY <2>2, <2>3
<1>8. OwnStream'
  BY <1>1, <1>2, <1>3, <1>4 DEF OwnStream, Alive
<1>9. OwnLink'
  <2>1. \A u \in Turns : (turn'[u] \in {"new", "connecting"} => turn[u] \in {"new", "connecting"}) /\ turn'[u] # "sending"
    BY <1>2, <1>4
  <2>2. \A u \in Turns : Runs(u)' <=> Runs(u)
    BY <1>1 DEF Runs
  <2> QED
    BY <1>1, <2>1, <2>2 DEF SerialInv, OwnLink
<1>10. WholeSoFar'
  <2>1. \A u \in Turns : ~Listening(u)'
    BY <1>1, <1>2, <1>3, <1>4 DEF Listening
  <2> QED
    BY <2>1 DEF WholeSoFar
<1>11. faults' \in Nat /\ Undisturbed'
  BY <1>1 DEF SerialInv, Undisturbed
<1> QED
  BY <1>6, <1>7, <1>8, <1>9, <1>10, <1>11 DEF SerialInv

LEMMA HandOverSerial ==
  ASSUME TypeOK, SerialInv, NEW t \in Turns, HandOver(t)
  PROVE  SerialInv'
<1> DEFINE h == IF gen[t] = None THEN StartStream(hub) ELSE hub
<1>1. /\ turn[t] = "sending" /\ turn' = [turn EXCEPT ![t] = "reading"] /\ consumer' = [consumer EXCEPT ![t] = "created"]
      /\ hub' = Subscribe(h, t) /\ gen' = [gen EXCEPT ![t] = IF @ = None THEN h.gen ELSE @]
      /\ UNCHANGED <<client, source, got, ws, link, running, emitted, faults, abort>>
  BY DEF HandOver, others, server
<1>2. /\ turn'[t] = "reading" /\ consumer'[t] = "created"
      /\ \A u \in Turns \ {t} : turn'[u] = turn[u] /\ consumer'[u] = consumer[u] /\ gen'[u] = gen[u]
  BY <1>1 DEF TypeOK
<1>3. Active(t) /\ consumer[t] = "none" /\ got[t] = <<>> /\ hub.inbox[t] = <<>> /\ t \notin hub.subs
  BY <1>1 DEF SerialInv, OwnQueue, Active, Unread
<1>4. \A u \in Turns \ {t} : turn[u] \notin {"connecting", "sending"} /\ consumer[u] \in {"none", "done"} /\ u \notin hub.subs
  BY <1>3, OnlyOne
<1>5. /\ \A u \in Turns : hub'.inbox[u] = hub.inbox[u] /\ (u \in hub'.subs <=> u = t)
      /\ hub'.gen = h.gen
  <2>1. \A u \in Turns : u \in Requests /\ u \notin hub.subs
    BY <1>3, <1>4 DEF Requests
  <2>2. hub \in Registries
    BY DEF TypeOK
  <2>3. h \in Registries /\ \A u \in Turns : h.inbox[u] = hub.inbox[u] /\ u \notin h.subs
    BY <2>1, <2>2, StartStreamType, HubEffects
  <2> HIDE DEF h
  <2> QED
    BY <1>1, <2>1, <2>3, HubEffects
<1>6. gen'[t] = hub'.gen
  <2>1. gen[t] # None => gen[t] = hub.gen
    BY <1>1 DEF SerialInv, OwnStream
  <2>2. gen'[t] = IF gen[t] = None THEN h.gen ELSE gen[t]
    BY <1>1 DEF TypeOK
  <2> QED
    BY <1>5, <2>1, <2>2
<1> HIDE DEF h
<1>7. OneAtATime'
  BY <1>1, <1>2, <1>4 DEF OneAtATime, Active
<1>8. OwnQueue'
  <2> SUFFICES ASSUME NEW u \in Turns
               PROVE  /\ turn'[u] \in Unread => consumer'[u] = "none" /\ got[u] = <<>> /\ hub.inbox[u] = <<>>
                      /\ turn'[u] \in {"reading", "ended", "left"} => consumer'[u] # "none"
                      /\ u = t => turn'[u] = "reading" /\ consumer'[u] \in Alive
                      /\ turn'[u] = "reading" /\ consumer'[u] \in Alive => u = t /\ Cut(hub.inbox[u], Len(hub.inbox[u]))
                      /\ turn'[u] = "ended" => consumer'[u] \notin Alive /\ Cut(hub.inbox[u], 0)
                      /\ \E n \in 0..Len(hub.inbox[u]) : Cut(hub.inbox[u], n)
    BY <1>1, <1>5 DEF OwnQueue
  <2>1. CASE u = t
    <3>1. Len(<<>>) = 0 /\ 0 \in 0..0
      OBVIOUS
    <3> QED
      BY <1>2, <1>3, <2>1, <3>1, EmptyCut DEF Unread, Alive
  <2>2. CASE u # t
    <3>1. turn'[u] = turn[u] /\ consumer'[u] = consumer[u] /\ consumer[u] \notin Alive
      BY <1>2, <1>4, <2>2 DEF Alive
    <3> QED
      BY <2>2, <3>1 DEF SerialInv, OwnQueue
  <2> QED
    BY <2>1, <2>2
<1>9. OwnStream'
  BY <1>2, <1>4, <1>6 DEF OwnStream, Alive
<1>10. OwnLink'
  <2>1. \A u \in Turns : /\ turn'[u] \in {"new", "connecting"} => turn[u] \in {"new", "connecting"}
                         /\ turn'[u] = "sending" \/ consumer'[u] \notin {"none", "done"} => u = t
                         /\ consumer'[u] \notin {"waiting", "yielded"}
    BY <1>2, <1>4
  <2>2. \A u \in Turns : Runs(u)' <=> Runs(u)
    BY <1>1 DEF Runs
  <2> QED
    BY <1>1, <2>1, <2>2 DEF SerialInv, OwnLink
<1>11. WholeSoFar'
  <2>1. \A u \in Turns \ {t} : ~Listening(u)'
    BY <1>2, <1>4 DEF Listening
  <2>2. Listening(t) /\ got'[t] \o hub'.inbox[t] = got[t] \o hub.inbox[t] /\ Reported(t)' = Reported(t)
    BY <1>1, <1>5 DEF Listening, Reported
  <2>3. PICK from \in {0, Reported(t) + 1} : OnTheWay(t, from)
    BY <2>2 DEF SerialInv, WholeSoFar
  <2>4. OnTheWay(t, from)'
    BY <1>1, <2>2, <2>3 DEF OnTheWay, Runs
  <2>5. \A i \in DOMAIN (got[t] \o hub.inbox[t]) : (got[t] \o hub.inbox[t])[i] = Event(t, "delta", i)
    BY <2>2 DEF SerialInv, WholeSoFar
  <2>6. link[t].frames # <<>> => Reported(t) = 0
    BY <2>2 DEF SerialInv, WholeSoFar
  <2> QED
    BY <1>1, <2>1, <2>2, <2>4, <2>5, <2>6 DEF WholeSoFar
<1>12. Undisturbed'
  <2>1. \A u \in Turns : Pushed(u)' = Pushed(u)
    BY <1>1, <1>5 DEF Pushed
  <2>2. Listening(t)' /\ \A u \in Turns \ {t} : turn'[u] = turn[u] /\ (Listening(u)' <=> Listening(u))
    BY <1>2 DEF Listening
  <2>3. \A k \in Turns \ {t} : consumer'[k] = consumer[k]
    BY <1>2
  <2> QED
    BY <1>1, <1>3, <2>1, <2>2, <2>3 DEF SerialInv, Undisturbed
<1> QED
  BY <1>1, <1>7, <1>8, <1>9, <1>10, <1>11, <1>12 DEF SerialInv

\* The finally block of a consumer tells the subscribers the end, and forgets
\* them.
LEMMA FinallyTells ==
  ASSUME NEW t \in Turns, NEW h \in Registries, NEW l, NEW w, Finally(t, h, l, w), NEW u \in Turns
  PROVE  /\ hub'.subs = {}
         /\ hub'.inbox[u] = IF u \in h.subs THEN Append(h.inbox[u], End) ELSE h.inbox[u]
<1>1. hub' = Cleanup(EndStream(h)) /\ EndStream(h) \in Registries /\ u \in Requests
  BY EndStreamType DEF Finally, Requests
<1> QED
  BY <1>1, HubEffects

LEMMA FinallySerial ==
  ASSUME TypeOK, SerialInv, NEW t \in Turns, consumer[t] \in Alive,
         NEW h \in Registries, h.subs = hub.subs,
         \A u \in Turns \ {t} : h.inbox[u] = hub.inbox[u],
         \E n \in 0..Len(h.inbox[t]) : Cut(h.inbox[t], n),
         faults = 0 /\ turn[t] = "reading" => Explained(got[t] \o BeforeEnd(h.inbox[t])),
         NEW l \in [Turns -> Links],
         \A u \in Turns : l[u].frames = link[u].frames /\ l[u].state = link[u].state,
         \A u \in Turns \ {t} : l[u].events = link[u].events,
         \A i \in DOMAIN l[t].events : l[t].events[i].turn = t,
         link[t].events = <<>> => l[t].events = <<>>,
         NEW w \in [Clients -> Sockets], \A c \in Clients : w[c].conn = ws[c].conn,
         Finally(t, h, l, w), UNCHANGED <<turn, source, client, got, running, emitted, faults, abort>>
  PROVE  SerialInv'
<1> DEFINE c == client[t]
<1>1. Active(t) /\ c \in Clients /\ turn[t] \notin Unread /\ consumer[t] \notin {"none", "done"}
  BY DEF Active, Alive, TypeOK, SerialInv, OwnQueue, Clients
<1>2. \A u \in Turns \ {t} : turn[u] \notin {"connecting", "sending"} /\ consumer[u] \in {"none", "done"} /\ u \notin hub.subs
  BY <1>1, OnlyOne
<1>3. turn[t] \notin {"new", "connecting", "sending"}
  BY <1>1 DEF Unread
<1>4. w[c].conn \in {t, None} /\ ws[c].conn \in {t, None}
  BY <1>1 DEF SerialInv, OwnLink
<1>5. consumer'[t] \in {"closing", "done"} /\ \A u \in Turns \ {t} : consumer'[u] = consumer[u]
  BY DEF Finally, TypeOK
<1>6. hub'.subs = {} /\ \A u \in Turns \ {t} : hub'.inbox[u] = hub.inbox[u]
  BY <1>2, FinallyTells
<1>7. /\ \E n \in 0..Len(hub'.inbox[t]) : Cut(hub'.inbox[t], n)
      /\ BeforeEnd(hub'.inbox[t]) = BeforeEnd(h.inbox[t])
  <2>1. hub'.inbox[t] \in {h.inbox[t], Append(h.inbox[t], End)}
    BY FinallyTells
  <2>2. h.inbox[t] \in Seq(Reports \cup {End})
    BY DEF Registries, Requests
  <2>3. PICK n \in 0..Len(h.inbox[t]) : Cut(h.inbox[t], n)
    OBVIOUS
  <2>4. Cut(Append(h.inbox[t], End), n) /\ BeforeEnd(Append(h.inbox[t], End)) = BeforeEnd(h.inbox[t])
    BY <2>2, <2>3, EndChangesNothing
  <2>5. n \in 0..Len(Append(h.inbox[t], End))
    BY <2>4 DEF Cut
  <2> QED
    BY <2>1, <2>3, <2>4, <2>5
<1>8. \A u \in Turns : /\ link'[u].frames = link[u].frames /\ link'[u].events = l[u].events
                       /\ (u # t => link'[u].state = link[u].state)
  <2>1. link' \in {l, CloseLink(l, c)}
    BY DEF Finally
  <2>2. \A u \in Turns : CloseLink(l, c)[u].frames = l[u].frames /\ CloseLink(l, c)[u].events = l[u].events
    BY LinkFrames
  <2>3. link' = CloseLink(l, c) => ws[c].conn = t \/ link' = l
    <3>1. link' = CloseLink(l, c) /\ w[c].conn = None => link' = l
      BY DEF Finally
    <3>2. w[c].conn = ws[c].conn
      BY <1>1
    <3> QED
      BY <1>4, <3>1, <3>2
  <2>4. \A u \in Turns \ {t} : ws[c].conn = t => CloseLink(l, c)[u] = l[u]
    BY DEF CloseLink
  <2> HIDE DEF c
  <2> QED
    BY <2>1, <2>2, <2>3, <2>4
<1>9. OneAtATime'
  BY <1>2, <1>5 DEF OneAtATime, Active
<1>10. OwnQueue'
  <2> SUFFICES ASSUME NEW u \in Turns
               PROVE  /\ turn[u] \in Unread => consumer'[u] = "none" /\ got[u] = <<>> /\ hub'.inbox[u] = <<>>
                      /\ turn[u] \in {"reading", "ended", "left"} => consumer'[u] # "none"
                      /\ consumer'[u] \notin Alive
                      /\ turn[u] = "ended" => Cut(hub'.inbox[u], 0)
                      /\ \E n \in 0..Len(hub'.inbox[u]) : Cut(hub'.inbox[u], n)
    BY <1>6 DEF OwnQueue
  <2>1. CASE u = t
    <3>1. turn[t] # "ended"
      BY DEF SerialInv, OwnQueue
    <3> QED
      BY <1>1, <1>5, <1>7, <2>1, <3>1 DEF Alive
  <2>2. CASE u # t
    BY <1>2, <1>5, <1>6, <2>2 DEF SerialInv, OwnQueue, Alive
  <2> QED
    BY <2>1, <2>2
<1>11. OwnStream'
  BY <1>2, <1>3, <1>5 DEF OwnStream, Alive
<1>12. OwnLink'
  <2>1. \A u \in Turns : Runs(u)' <=> Runs(u)
    BY DEF Runs
  <2>2. ASSUME consumer'[t] = "closing"
        PROVE  ws'[client'[t]].conn \in {t, None}
    <3>1. ws' = [w EXCEPT ![c].up = FALSE] \/ ws' = w
      BY DEF Finally
    <3>2. ws'[c].conn = w[c].conn
      BY <1>1, <3>1 DEF Sockets
    <3> QED
      BY <1>4, <3>2
  <2>3. \A u \in Turns : turn[u] = "sending" \/ consumer'[u] \notin {"none", "done"} => u = t
    BY <1>2, <1>3, <1>5
  <2>4. \A u \in Turns : consumer'[u] \notin {"waiting", "yielded"}
    BY <1>2, <1>5
  <2>5. \A u \in Turns : turn[u] \in {"new", "connecting"} \/ link[u].frames # <<>> => link'[u].events = <<>>
    BY <1>8 DEF SerialInv, OwnLink
  <2>6. \A u \in Turns : \A i \in DOMAIN link'[u].events : link'[u].events[i].turn = u
    BY <1>8 DEF SerialInv, OwnLink
  <2> QED
    BY <1>3, <1>5, <1>8, <2>1, <2>2, <2>3, <2>4, <2>5, <2>6 DEF SerialInv, OwnLink
<1>13. WholeSoFar'
  <2>1. \A u \in Turns : ~Listening(u)'
    BY <1>2, <1>3, <1>5 DEF Listening
  <2> QED
    BY <2>1 DEF WholeSoFar
<1>14. Undisturbed'
  <2>1. \A u \in Turns \ {t} : Pushed(u)' = Pushed(u) /\ ~Listening(u)
    BY <1>2, <1>6 DEF Pushed, Listening
  <2>2. Pushed(t)' = got[t] \o BeforeEnd(h.inbox[t])
    BY <1>7 DEF Pushed
  <2>3. turn[t] # "ended"
    BY DEF SerialInv, OwnQueue
  <2>4. \A k \in Turns : faults = 0 /\ link'[k].state \in {"closing", "clean"} => consumer'[k] \in {"closing", "done"}
    BY <1>5, <1>8 DEF SerialInv, Undisturbed
  <2>5. \A u \in Turns : faults = 0 /\ turn'[u] \in {"reading", "ended"} /\ ~Listening(u)' => Explained(Pushed(u)')
    BY <2>1, <2>2, <2>3 DEF SerialInv, Undisturbed
  <2>6. (faults' = 0 <=> faults = 0) /\ (faults = 0 => \A a \in Aborts : abort'[a] = "new")
    BY DEF SerialInv, Undisturbed
  <2>7. \A u \in Turns : Explained(Pushed(u)') <=> Explained(Pushed(u))'
    BY DEF Explained
  <2> HIDE DEF c
  <2> QED
    BY <2>4, <2>5, <2>6, <2>7 DEF Undisturbed
<1> QED
  BY <1>9, <1>10, <1>11, <1>12, <1>13, <1>14 DEF SerialInv

\* An event that is appended is the last one.
LEMMA ConcatAppend ==
  ASSUME NEW S, NEW g \in Seq(S), NEW q \in Seq(S), NEW e \in S
  PROVE  /\ g \o Append(q, e) = Append(g \o q, e)
         /\ g \o q \in Seq(S) /\ Len(g \o q) = Len(g) + Len(q) /\ Len(g) \in Nat /\ Len(q) \in Nat
         /\ Append(g \o q, e) \in Seq(S) /\ Len(Append(g \o q, e)) = Len(g) + Len(q) + 1
         /\ \A i \in 1..(Len(g) + Len(q)) : Append(g \o q, e)[i] = (g \o q)[i]
         /\ Append(g \o q, e) # <<>> /\ Last(Append(g \o q, e)) = e
<1> DEFINE a == Append(q, e)
           s == g \o q
           z == Append(s, e)
<1>1. Len(g) \in Nat /\ Len(q) \in Nat
  BY LenProperties
<1>2. a \in Seq(S) /\ Len(a) = Len(q) + 1 /\ (\A i \in 1..Len(q) : a[i] = q[i]) /\ a[Len(q) + 1] = e
  BY AppendProperties
<1>3. /\ s \in Seq(S) /\ Len(s) = Len(g) + Len(q)
      /\ \A i \in 1..(Len(g) + Len(q)) : s[i] = IF i <= Len(g) THEN g[i] ELSE q[i - Len(g)]
  BY ConcatProperties
<1> HIDE DEF a, s
<1>4. z \in Seq(S) /\ Len(z) = Len(s) + 1 /\ (\A i \in 1..Len(s) : z[i] = s[i]) /\ z[Len(s) + 1] = e
  <2>1. s \in Seq(S) /\ e \in S
    BY <1>3
  <2> QED
    BY ONLY <2>1, AppendProperties
<1>5. /\ g \o a \in Seq(S) /\ Len(g \o a) = Len(g) + Len(a)
      /\ \A i \in 1..(Len(g) + Len(a)) : (g \o a)[i] = IF i <= Len(g) THEN g[i] ELSE a[i - Len(g)]
  BY <1>2, ConcatProperties
<1> HIDE DEF z
<1>6. Len(g \o a) = Len(z) /\ Len(z) = Len(g) + Len(q) + 1
  BY <1>1, <1>2, <1>3, <1>4, <1>5
<1>7. ASSUME NEW i \in 1..Len(z)
      PROVE  (g \o a)[i] = z[i]
  <2>1. CASE i <= Len(g)
    BY <1>1, <1>2, <1>3, <1>4, <1>5, <2>1
  <2>2. CASE i > Len(g) /\ i <= Len(g) + Len(q)
    <3>1. i - Len(g) \in 1..Len(q) /\ ~(i <= Len(g)) /\ i \in 1..(Len(g) + Len(q)) /\ i \in 1..(Len(g) + Len(a))
      BY <1>1, <1>2, <2>2
    <3>2. (g \o a)[i] = a[i - Len(g)] /\ z[i] = q[i - Len(g)]
      BY <1>3, <1>4, <1>5, <3>1
    <3> QED
      BY <1>2, <3>1, <3>2
  <2>3. CASE i = Len(g) + Len(q) + 1
    <3>1. ~(i <= Len(g)) /\ i - Len(g) = Len(q) + 1 /\ i \in 1..(Len(g) + Len(a)) /\ i = Len(s) + 1
      BY <1>1, <1>2, <1>3, <2>3
    <3> QED
      BY <1>2, <1>4, <1>5, <3>1
  <2>4. i <= Len(g) \/ (i > Len(g) /\ i <= Len(g) + Len(q)) \/ i = Len(g) + Len(q) + 1
    BY <1>1, <1>6
  <2> QED
    BY <2>1, <2>2, <2>3, <2>4
<1>8. g \o a = z
  BY <1>4, <1>5, <1>6, <1>7, SeqEqual
<1>9. z # <<>> /\ Last(z) = e
  <2>1. Len(z) # 0 /\ Len(z) = Len(s) + 1
    BY <1>1, <1>3, <1>6
  <2>2. z # <<>>
    BY <1>4, <2>1, EmptySeq
  <2> QED
    BY <1>4, <2>1, <2>2 DEF Last
<1> QED
  BY <1>1, <1>3, <1>4, <1>6, <1>8, <1>9 DEF a, s, z

\* What a living consumer pushes reaches the caller's queue, if there still
\* is a caller, and no other turn's.
LEMMA PushReaches ==
  ASSUME TypeOK, SerialInv, NEW t \in Turns, consumer[t] \in Alive, NEW e \in Reports
  PROVE  LET h == PushEvent(hub, gen[t], e) IN
         /\ h \in Registries /\ h.subs = hub.subs /\ h.gen = hub.gen
         /\ \A u \in Turns \ {t} : h.inbox[u] = hub.inbox[u]
         /\ turn[t] # "reading" => h.inbox[t] = hub.inbox[t]
         /\ turn[t] = "reading" => /\ t \in hub.subs
                                   /\ Pushed(t) = got[t] \o hub.inbox[t]
                                   /\ h.inbox[t] = Append(hub.inbox[t], e)
                                   /\ Cut(h.inbox[t], Len(h.inbox[t]))
                                   /\ got[t] \o BeforeEnd(h.inbox[t]) = Append(Pushed(t), e)
                                   /\ Append(Pushed(t), e) # <<>> /\ Last(Append(Pushed(t), e)) = e
                                   /\ Len(Append(Pushed(t), e)) = Reported(t) + 1
         /\ \E n \in 0..Len(h.inbox[t]) : Cut(h.inbox[t], n)
<1> DEFINE h == PushEvent(hub, gen[t], e)
           S == Reports \cup {End}
<1>1. hub \in Registries /\ got[t] \in Seq(Reports) /\ t \in Requests
  BY DEF TypeOK, Requests
<1>2. hub.inbox[t] \in Seq(S) /\ got[t] \in Seq(S) /\ e \in S
  <2>1. got[t] \in Seq(S)
    BY <1>1, SeqMonotonic
  <2> QED
    BY <1>1, <2>1 DEF Registries
<1>3. e # End
  BY NoneIsNothing DEF Reports, End, Event
<1>4. h \in Registries
  BY <1>1, PushEventType
<1>5. Active(t)
  BY DEF Active, Alive
<1>6. gen[t] = hub.gen
  BY DEF SerialInv, OwnStream
<1>7. h.subs = hub.subs /\ h.gen = hub.gen /\ \A u \in Turns : h.inbox[u] = IF u \in hub.subs THEN Append(hub.inbox[u], e) ELSE hub.inbox[u]
  <2>1. \A u \in Turns : u \in Requests
    BY DEF Requests
  <2> QED
    BY <1>1, <1>6, <2>1, HubEffects
<1> HIDE DEF h
<1>8. \A u \in Turns \ {t} : h.inbox[u] = hub.inbox[u]
  BY <1>5, <1>7, OnlyOne
<1>9. turn[t] # "reading" => t \notin hub.subs
  BY DEF SerialInv, OwnQueue
<1>10. ASSUME turn[t] = "reading"
       PROVE  /\ t \in hub.subs
              /\ Pushed(t) = got[t] \o hub.inbox[t]
              /\ h.inbox[t] = Append(hub.inbox[t], e)
              /\ Cut(h.inbox[t], Len(h.inbox[t]))
              /\ got[t] \o BeforeEnd(h.inbox[t]) = Append(Pushed(t), e)
              /\ Append(Pushed(t), e) # <<>> /\ Last(Append(Pushed(t), e)) = e
              /\ Len(Append(Pushed(t), e)) = Reported(t) + 1
  <2>1. t \in hub.subs /\ Cut(hub.inbox[t], Len(hub.inbox[t]))
    BY <1>10 DEF SerialInv, OwnQueue
  <2>2. Pushed(t) = got[t] \o hub.inbox[t]
    BY <1>2, <2>1, NoEnd DEF Pushed
  <2>3. h.inbox[t] = Append(hub.inbox[t], e)
    BY <1>7, <2>1
  <2>4. Cut(h.inbox[t], Len(h.inbox[t]))
    BY <1>2, <1>3, <2>1, <2>3, CutAppend
  <2>5. h.inbox[t] \in Seq(S)
    BY <1>2, <2>3, AppendProperties
  <2>6. BeforeEnd(h.inbox[t]) = Append(hub.inbox[t], e)
    BY <2>3, <2>4, <2>5, NoEnd
  <2> DEFINE g == got[t]
             q == hub.inbox[t]
  <2>7. g \in Seq(S) /\ q \in Seq(S) /\ e \in S
    BY <1>2
  <2> HIDE DEF g, q, S
  <2>8. /\ g \o Append(q, e) = Append(g \o q, e)
        /\ Append(g \o q, e) # <<>> /\ Last(Append(g \o q, e)) = e
        /\ Len(Append(g \o q, e)) = Len(g) + Len(q) + 1
    BY ONLY <2>7, ConcatAppend
  <2> QED
    BY <2>1, <2>2, <2>3, <2>4, <2>6, <2>8 DEF Reported, g, q
<1>11. \E n \in 0..Len(h.inbox[t]) : Cut(h.inbox[t], n)
  <2>1. CASE turn[t] = "reading"
    BY <1>10, <2>1 DEF Cut
  <2>2. CASE turn[t] # "reading"
    BY <1>7, <1>9, <2>2 DEF SerialInv, OwnQueue
  <2> QED
    BY <2>1, <2>2
<1> QED
  BY <1>4, <1>7, <1>8, <1>9, <1>10, <1>11 DEF h

\* A consumer that stops without having received anything.
LEMMA StopsSerial ==
  ASSUME TypeOK, SerialInv, NEW t \in Turns, consumer[t] \in Alive,
         UNCHANGED <<turn, source, client, got, running, emitted, faults, abort>>,
         NEW w \in [Clients -> Sockets], \A c \in Clients : w[c].conn = ws[c].conn,
         \/ Fault(t, w)
         \/ Finally(t, hub, link, w) /\ (faults = 0 /\ turn[t] = "reading" => Explained(Pushed(t)))
  PROVE  SerialInv'
<1>1. hub \in Registries /\ link \in [Turns -> Links]
  BY DEF TypeOK
<1>2. \A i \in DOMAIN link[t].events : link[t].events[i].turn = t
  BY DEF SerialInv, OwnLink
<1>3. CASE Fault(t, w)
  <2> DEFINE e == Event(t, "fault", 0)
             h == PushEvent(hub, gen[t], e)
  <2>1. e \in Reports /\ e.kind = "fault"
    BY EventTypes DEF Event
  <2>2. Finally(t, h, link, w)
    BY <1>3 DEF Fault
  <2>3. /\ h \in Registries /\ h.subs = hub.subs /\ \A u \in Turns \ {t} : h.inbox[u] = hub.inbox[u]
        /\ turn[t] = "reading" => /\ got[t] \o BeforeEnd(h.inbox[t]) = Append(Pushed(t), e)
                                  /\ Append(Pushed(t), e) # <<>> /\ Last(Append(Pushed(t), e)) = e
        /\ \E n \in 0..Len(h.inbox[t]) : Cut(h.inbox[t], n)
    BY <2>1, PushReaches
  <2> HIDE DEF e, h
  <2>4. turn[t] = "reading" => Explained(got[t] \o BeforeEnd(h.inbox[t]))
    BY <2>1, <2>3 DEF Explained
  <2> QED
    BY <1>1, <1>2, <2>2, <2>3, <2>4, FinallySerial
<1>4. CASE Finally(t, hub, link, w) /\ (faults = 0 /\ turn[t] = "reading" => Explained(Pushed(t)))
  <2>1. \E n \in 0..Len(hub.inbox[t]) : Cut(hub.inbox[t], n)
    BY DEF SerialInv, OwnQueue
  <2>2. faults = 0 /\ turn[t] = "reading" => Explained(got[t] \o BeforeEnd(hub.inbox[t]))
    BY <1>4 DEF Pushed
  <2> QED
    BY <1>1, <1>2, <1>4, <2>1, <2>2, FinallySerial
<1> QED
  BY <1>3, <1>4

\* A consumer that goes on listening to its connection.
LEMMA GoesOnSerial ==
  ASSUME TypeOK, SerialInv, NEW t \in Turns, consumer[t] \in {"created", "waiting", "yielded"},
         NEW s \in {"waiting", "yielded"}, consumer' = [consumer EXCEPT ![t] = s],
         source'[t] = t, \A u \in Turns \ {t} : source'[u] = source[u],
         UNCHANGED <<turn, gen, client, got, ws, running, emitted, faults, abort>>,
         hub'.gen = hub.gen, hub'.subs = hub.subs,
         \A u \in Turns \ {t} : hub'.inbox[u] = hub.inbox[u],
         \E n \in 0..Len(hub'.inbox[t]) : Cut(hub'.inbox[t], n),
         \A u \in Turns : link'[u].frames = link[u].frames /\ link'[u].state = link[u].state,
         \A u \in Turns \ {t} : link'[u].events = link[u].events,
         \A i \in DOMAIN link'[t].events : link'[t].events[i].turn = t,
         link[t].frames # <<>> => link'[t].events = <<>>,
         turn[t] = "reading" =>
           /\ Cut(hub'.inbox[t], Len(hub'.inbox[t]))
           /\ \A i \in DOMAIN (got[t] \o hub'.inbox[t]) : (got[t] \o hub'.inbox[t])[i] = Event(t, "delta", i)
           /\ link[t].frames # <<>> => Reported(t)' = 0
           /\ \E from \in {0, Reported(t)' + 1} : OnTheWay(t, from)'
  PROVE  SerialInv'
<1>1. Active(t) /\ turn[t] \notin Unread /\ consumer[t] \in Alive /\ consumer[t] \notin {"none", "done"}
  BY DEF Active, Alive, SerialInv, OwnQueue
<1>2. \A u \in Turns \ {t} : turn[u] \notin {"connecting", "sending"} /\ consumer[u] \in {"none", "done"} /\ u \notin hub.subs
  BY <1>1, OnlyOne
<1>3. turn[t] \notin {"new", "connecting", "sending"} /\ turn[t] # "ended"
  BY <1>1 DEF Unread, SerialInv, OwnQueue
<1>4. consumer'[t] = s /\ \A u \in Turns \ {t} : consumer'[u] = consumer[u]
  BY DEF TypeOK
<1>5. s \in Alive
  BY DEF Alive
<1>6. OneAtATime'
  BY <1>2, <1>4 DEF OneAtATime, Active
<1>7. OwnQueue'
  <2> SUFFICES ASSUME NEW u \in Turns
               PROVE  /\ turn[u] \in Unread => consumer'[u] = "none" /\ got[u] = <<>> /\ hub'.inbox[u] = <<>>
                      /\ turn[u] \in {"reading", "ended", "left"} => consumer'[u] # "none"
                      /\ u \in hub.subs => turn[u] = "reading" /\ consumer'[u] \in Alive
                      /\ turn[u] = "reading" /\ consumer'[u] \in Alive => u \in hub.subs /\ Cut(hub'.inbox[u], Len(hub'.inbox[u]))
                      /\ turn[u] = "ended" => consumer'[u] \notin Alive /\ Cut(hub'.inbox[u], 0)
                      /\ \E n \in 0..Len(hub'.inbox[u]) : Cut(hub'.inbox[u], n)
    BY DEF OwnQueue
  <2>1. CASE u = t
    <3>1. t \in hub.subs <=> turn[t] = "reading"
      BY <1>1 DEF SerialInv, OwnQueue
    <3> QED
      BY <1>1, <1>3, <1>4, <1>5, <2>1, <3>1
  <2>2. CASE u # t
    BY <1>2, <1>4, <2>2 DEF SerialInv, OwnQueue
  <2> QED
    BY <2>1, <2>2
<1>8. OwnStream'
  <2>1. gen[t] = hub.gen
    BY <1>1 DEF SerialInv, OwnStream
  <2> QED
    BY <1>2, <1>3, <1>4, <2>1 DEF OwnStream, Alive
<1>9. OwnLink'
  <2>1. \A u \in Turns : Runs(u)' <=> Runs(u)
    BY DEF Runs
  <2>2. ws[client[t]].conn \in {t, None}
    BY <1>1 DEF SerialInv, OwnLink
  <2>3. \A u \in Turns : turn[u] = "sending" \/ consumer'[u] \notin {"none", "done"} => u = t
    BY <1>2, <1>3, <1>4
  <2>4. \A u \in Turns : turn[u] \in {"new", "connecting"} \/ link[u].frames # <<>> => link'[u].events = <<>>
    BY <1>3 DEF SerialInv, OwnLink
  <2>5. \A u \in Turns : \A i \in DOMAIN link'[u].events : link'[u].events[i].turn = u
    BY DEF SerialInv, OwnLink
  <2>6. \A u \in Turns : consumer'[u] \in {"waiting", "yielded"} => source'[u] = u
    BY <1>2, <1>4
  <2> QED
    BY <2>1, <2>2, <2>3, <2>4, <2>5, <2>6 DEF SerialInv, OwnLink
<1>10. WholeSoFar'
  <2>1. \A u \in Turns : Listening(u)' => u = t /\ turn[t] = "reading"
    BY <1>2, <1>3, <1>4 DEF Listening
  <2> QED
    BY <2>1 DEF WholeSoFar
<1>11. Undisturbed'
  <2>1. \A u \in Turns \ {t} : Pushed(u)' = Pushed(u) /\ ~Listening(u)
    BY <1>2 DEF Pushed, Listening
  <2>2. turn[t] = "reading" => Listening(t)'
    BY <1>4 DEF Listening
  <2>3. \A k \in Turns : faults = 0 /\ link'[k].state \in {"closing", "clean"} => consumer'[k] \in {"closing", "done"}
    BY <1>4 DEF SerialInv, Undisturbed
  <2>4. \A u \in Turns : faults = 0 /\ turn'[u] \in {"reading", "ended"} /\ ~Listening(u)' => Explained(Pushed(u)')
    BY <1>3, <2>1, <2>2 DEF SerialInv, Undisturbed
  <2>5. (faults' = 0 <=> faults = 0) /\ (faults = 0 => \A a \in Aborts : abort'[a] = "new")
    BY DEF SerialInv, Undisturbed
  <2>6. \A u \in Turns : Explained(Pushed(u)') <=> Explained(Pushed(u))'
    BY DEF Explained
  <2> QED
    BY <2>3, <2>4, <2>5, <2>6 DEF Undisturbed
<1> QED
  BY <1>6, <1>7, <1>8, <1>9, <1>10, <1>11 DEF SerialInv

\* The first step of a consumer, and the one after an event it pushed.
LEMMA IterateSerial ==
  ASSUME TypeOK, SerialInv, NEW t \in Turns, Listen(t) \/ Resume(t)
  PROVE  SerialInv'
<1>1. /\ consumer[t] \in {"created", "yielded"} /\ consumer[t] \in Alive
      /\ UNCHANGED <<turn, gen, client, got, running, emitted, faults, abort>>
  BY DEF Listen, Resume, Alive, others, server
<1>2. ws \in [Clients -> Sockets]
  BY DEF TypeOK
<1>3. CASE Fault(t, ws) /\ UNCHANGED source
  BY <1>1, <1>2, <1>3, StopsSerial
<1>4. ASSUME NEW k, ~Receiving(k), Iterate(t, k), k = t
      PROVE  SerialInv'
  <2>1. /\ consumer' = [consumer EXCEPT ![t] = "waiting"] /\ source' = [source EXCEPT ![t] = t]
        /\ UNCHANGED <<hub, ws, link>>
    BY <1>4 DEF Iterate
  <2>2. source'[t] = t /\ \A u \in Turns \ {t} : source'[u] = source[u]
    BY <2>1 DEF TypeOK
  <2>3. /\ \E n \in 0..Len(hub.inbox[t]) : Cut(hub.inbox[t], n)
        /\ \A i \in DOMAIN link[t].events : link[t].events[i].turn = t
        /\ link[t].frames # <<>> => link[t].events = <<>>
    BY DEF SerialInv, OwnQueue, OwnLink
  <2>4. ASSUME turn[t] = "reading"
        PROVE  /\ Cut(hub.inbox[t], Len(hub.inbox[t]))
               /\ \A i \in DOMAIN (got[t] \o hub.inbox[t]) : (got[t] \o hub.inbox[t])[i] = Event(t, "delta", i)
               /\ link[t].frames # <<>> => Reported(t)' = 0
               /\ \E from \in {0, Reported(t)' + 1} : OnTheWay(t, from)'
    <3>1. Listening(t) /\ Reported(t)' = Reported(t)
      BY <1>1, <2>1, <2>4 DEF Listening, Reported
    <3>2. PICK from \in {0, Reported(t) + 1} : OnTheWay(t, from)
      BY <3>1 DEF SerialInv, WholeSoFar
    <3>3. OnTheWay(t, from)'
      BY <1>1, <2>1, <3>1, <3>2 DEF OnTheWay, Runs
    <3>4. Cut(hub.inbox[t], Len(hub.inbox[t]))
      BY <1>1, <2>4 DEF SerialInv, OwnQueue
    <3>5. \A i \in DOMAIN (got[t] \o hub.inbox[t]) : (got[t] \o hub.inbox[t])[i] = Event(t, "delta", i)
      BY <3>1 DEF SerialInv, WholeSoFar
    <3>6. link[t].frames # <<>> => Reported(t) = 0
      BY <3>1 DEF SerialInv, WholeSoFar
    <3> QED
      BY <3>1, <3>2, <3>3, <3>4, <3>5, <3>6
  <2> QED
    BY <1>1, <2>1, <2>2, <2>3, <2>4, GoesOnSerial
<1>5. CASE Listen(t)
  <2>1. ws[client[t]].conn \in {t, None}
    BY <1>1 DEF SerialInv, OwnLink
  <2> QED
    BY <1>3, <1>4, <1>5, <2>1 DEF Listen, Iterate
<1>6. CASE Resume(t)
  <2>1. source[t] = t
    BY <1>6 DEF SerialInv, OwnLink, Resume
  <2> QED
    BY <1>3, <1>4, <1>6, <2>1 DEF Resume, Iterate
<1> QED
  BY <1>5, <1>6

LEMMA ConsumerClosedSerial ==
  ASSUME TypeOK, SerialInv, NEW t \in Turns, ConsumerClosed(t)
  PROVE  SerialInv'
<1>1. /\ consumer[t] = "closing" /\ consumer' = [consumer EXCEPT ![t] = "done"]
      /\ ws' = [ws EXCEPT ![client[t]].conn = None]
      /\ UNCHANGED <<turn, gen, client, source, got, hub, link, running, emitted, faults, abort>>
  BY DEF ConsumerClosed, CloseReturns, others, server
<1>2. consumer'[t] = "done" /\ \A u \in Turns \ {t} : consumer'[u] = consumer[u]
  BY <1>1 DEF TypeOK
<1>3. Active(t) /\ turn[t] \notin Unread
  BY <1>1 DEF Active, SerialInv, OwnQueue
<1>4. \A u \in Turns \ {t} : turn[u] \notin {"connecting", "sending"} /\ consumer[u] \in {"none", "done"}
  BY <1>3, OnlyOne
<1>5. turn[t] \notin {"new", "connecting", "sending"}
  BY <1>3 DEF Unread
<1>6. OneAtATime'
  BY <1>1, <1>2, <1>4, <1>5 DEF OneAtATime, Active
<1>7. OwnQueue'
  <2> SUFFICES ASSUME NEW u \in Turns
               PROVE  /\ turn[u] \in Unread => consumer'[u] = "none" /\ got[u] = <<>> /\ hub.inbox[u] = <<>>
                      /\ turn[u] \in {"reading", "ended", "left"} => consumer'[u] # "none"
                      /\ u \in hub.subs => turn[u] = "reading" /\ consumer'[u] \in Alive
                      /\ turn[u] = "reading" /\ consumer'[u] \in Alive => u \in hub.subs /\ Cut(hub.inbox[u], Len(hub.inbox[u]))
                      /\ turn[u] = "ended" => consumer'[u] \notin Alive /\ Cut(hub.inbox[u], 0)
                      /\ \E n \in 0..Len(hub.inbox[u]) : Cut(hub.inbox[u], n)
    BY <1>1 DEF OwnQueue
  <2>1. consumer'[u] \notin {"none"} <=> consumer[u] \notin {"none"}
    BY <1>1, <1>2
  <2>2. consumer'[u] \in Alive <=> consumer[u] \in Alive
    BY <1>1, <1>2 DEF Alive
  <2> QED
    BY <2>1, <2>2 DEF SerialInv, OwnQueue
<1>8. OwnStream'
  BY <1>1, <1>2, <1>4, <1>5 DEF OwnStream, Alive
<1>9. OwnLink'
  <2>1. \A u \in Turns : Runs(u)' <=> Runs(u)
    BY <1>1 DEF Runs
  <2>2. \A u \in Turns : ~(turn[u] = "sending" \/ consumer'[u] \notin {"none", "done"}) /\ consumer'[u] \notin {"waiting", "yielded"}
    BY <1>2, <1>4, <1>5
  <2> QED
    BY <1>1, <2>1, <2>2 DEF SerialInv, OwnLink
<1>10. WholeSoFar'
  <2>1. \A u \in Turns : ~Listening(u)'
    BY <1>1, <1>2, <1>4, <1>5 DEF Listening
  <2> QED
    BY <2>1 DEF WholeSoFar
<1>11. Undisturbed'
  <2>1. \A u \in Turns : Pushed(u)' = Pushed(u)
    BY <1>1 DEF Pushed
  <2>2. \A u \in Turns : ~Listening(u)
    BY <1>1, <1>4, <1>5 DEF Listening
  <2>3. \A k \in Turns : consumer[k] \in {"closing", "done"} => consumer'[k] \in {"closing", "done"}
    BY <1>2
  <2> QED
    BY <1>1, <2>1, <2>2, <2>3 DEF SerialInv, Undisturbed
<1> QED
  BY <1>1, <1>6, <1>7, <1>8, <1>9, <1>10, <1>11 DEF SerialInv

\* The event a consumer receives is the first one on its turn's own link.
LEMMA ReceivesOwn ==
  ASSUME TypeOK, SerialInv, NEW t \in Turns, Receive(t)
  PROVE  LET s == link[t].events
             l == Pop(link, t) IN
         /\ source[t] = t /\ consumer[t] = "waiting" /\ turn[t] \notin {"new", "connecting", "sending"}
         /\ s \in Seq(Messages) /\ Len(s) \in Nat \ {0} /\ Head(s) = s[1] /\ Head(s) \in Messages
         /\ link[t].frames = <<>> /\ Head(s).turn = t
         /\ l \in [Turns -> Links]
         /\ \A u \in Turns : l[u].frames = link[u].frames /\ l[u].state = link[u].state
         /\ \A u \in Turns \ {t} : l[u].events = link[u].events
         /\ l[t].events = Tail(s) /\ Len(Tail(s)) = Len(s) - 1 /\ \A i \in 1..(Len(s) - 1) : Tail(s)[i] = s[i + 1]
         /\ \A i \in DOMAIN Tail(s) : Tail(s)[i].turn = t
         /\ StateEvent(t, Head(s)) \/ ErrorEvent(t, Head(s)) \/ DeltaEvent(t, Head(s)) \/ CompletedEvent(t, Head(s))
         /\ UNCHANGED <<turn, gen, client, source, got, running, emitted, faults, abort>>
<1> DEFINE s == link[t].events
           l == Pop(link, t)
<1>1. consumer[t] = "waiting" /\ source[t] = t /\ turn[t] \notin {"new", "connecting", "sending"}
  BY DEF SerialInv, OwnLink, OwnQueue, Receive, Unread
<1>2. s # <<>> /\ link \in [Turns -> Links] /\ s \in Seq(Messages)
  BY <1>1 DEF Receive, TypeOK, Links
<1>3. Len(s) \in Nat \ {0}
  <2>1. Len(s) \in Nat /\ Len(s) # 0
    BY <1>2, LenProperties, EmptySeq
  <2> QED
    BY <2>1
<1>4. Head(s) = s[1] /\ Head(s) \in Messages /\ Tail(s) \in Seq(Messages)
      /\ Len(Tail(s)) = Len(s) - 1 /\ \A i \in 1..Len(Tail(s)) : Tail(s)[i] = s[i + 1]
  BY <1>2, HeadTailProperties
<1>5. l \in [Turns -> Links] /\ l[t].events = Tail(s) /\ \A u \in Turns \ {t} : l[u].events = link[u].events
  BY <1>2, PopType, PopEvents
<1>6. \A u \in Turns : l[u].frames = link[u].frames /\ l[u].state = link[u].state
  <2>1. \A x \in Links : \A v : [x EXCEPT !.events = v].state = x.state
    BY DEF Links
  <2>2. \A u \in Turns : l[u].state = link[u].state
    BY <1>2, <2>1 DEF Pop
  <2> QED
    BY <1>2, <2>2, LinkFrames
<1>7. link[t].frames = <<>> /\ \A i \in DOMAIN s : s[i].turn = t
  BY <1>2 DEF SerialInv, OwnLink
<1>8. \A i \in DOMAIN Tail(s) : i + 1 \in DOMAIN s /\ Tail(s)[i] = s[i + 1]
  <2>1. DOMAIN s = 1..Len(s) /\ DOMAIN Tail(s) = 1..Len(Tail(s))
    BY <1>2, <1>4, LenProperties
  <2> QED
    BY <1>3, <1>4, <2>1
<1>9. 1 \in DOMAIN s
  BY <1>2, <1>3, LenProperties
<1>10. UNCHANGED <<turn, gen, client, source, got, running, emitted, faults, abort>>
  BY DEF Receive, others, server
<1>11. StateEvent(t, Head(s)) \/ ErrorEvent(t, Head(s)) \/ DeltaEvent(t, Head(s)) \/ CompletedEvent(t, Head(s))
  BY <1>1 DEF Receive
<1> HIDE DEF s, l
<1>12. \A i \in DOMAIN Tail(s) : Tail(s)[i].turn = t
  BY <1>7, <1>8
<1>13. \A i \in 1..(Len(s) - 1) : Tail(s)[i] = s[i + 1]
  BY <1>4
<1> QED
  BY <1>1, <1>2, <1>3, <1>4, <1>5, <1>6, <1>7, <1>9, <1>10, <1>11, <1>12, <1>13 DEF s, l

\* What is left on the way once its first event was received.
LEMMA RestOnTheWay ==
  ASSUME NEW s, Len(s) \in Nat \ {0}, DOMAIN s = 1..Len(s), NEW z, Len(z) = Len(s) - 1, DOMAIN z = 1..Len(z),
         \A i \in 1..(Len(s) - 1) : z[i] = s[i + 1], NEW from \in Nat, Chain(s, from)
  PROVE  Chain(z, from + 1)
<1> SUFFICES ASSUME NEW i \in DOMAIN z
             PROVE  /\ i < Len(z) => z[i].kind \in {"running", "delta"}
                    /\ z[i].kind \in {"running", "delta", "completed"} =>
                         /\ z[i].n = (from + 1) + i - 1 /\ (z[i].kind = "running" <=> z[i].n = 0)
                         /\ z[i].kind = "completed" => z[i].n = MaxEvents + 1
  BY DEF Chain
<1>1. i + 1 \in DOMAIN s /\ z[i] = s[i + 1] /\ (i < Len(z) => i + 1 < Len(s)) /\ (from + 1) + i - 1 = from + (i + 1) - 1
  OBVIOUS
<1> QED
  BY <1>1 DEF Chain

\* A state event, or a delta that is pushed: the rest of the reply goes on
\* from the next number.
LEMMA NextOnTheWay ==
  ASSUME TypeOK, NEW t \in Turns, NEW from \in {0, Reported(t) + 1}, OnTheWay(t, from),
         link[t].events # <<>>, link'[t].events = Tail(link[t].events), link'[t].state = link[t].state,
         UNCHANGED <<running, emitted>>,
         Reported(t)' \in Nat, Reported(t) \in Nat,
         LET e == Head(link[t].events) IN
           \/ e.kind \in {"running", "idle"} /\ Reported(t)' = Reported(t)
           \/ e.kind = "delta" /\ Reported(t)' = Reported(t) + 1
  PROVE  \E next \in {0, Reported(t)' + 1} : OnTheWay(t, next)'
<1> DEFINE s == link[t].events
           z == Tail(s)
<1>1. s \in Seq(Messages) /\ Len(s) \in Nat /\ Len(s) # 0 /\ DOMAIN s = 1..Len(s)
  <2>1. s \in Seq(Messages)
    BY DEF TypeOK, Links
  <2> QED
    BY <2>1, LenProperties, EmptySeq
<1>2. /\ Head(s) = s[1] /\ Head(s) \in Messages /\ z \in Seq(Messages) /\ Len(z) = Len(s) - 1
      /\ \A i \in 1..Len(z) : z[i] = s[i + 1]
  BY <1>1, HeadTailProperties
<1>3. DOMAIN z = 1..Len(z)
  BY <1>2, LenProperties
<1>4. Chain(s, from) /\ (from = 0 => Reported(t) = 0) /\ (Runs(t) /\ link[t].state \in {"open", "closing"} =>
        emitted[t] = from + Len(s) /\ \A i \in DOMAIN s : s[i].kind \in {"running", "delta"})
  BY DEF OnTheWay
<1>5. from \in Nat /\ (Runs(t)' <=> Runs(t))
  BY DEF Runs
<1> DEFINE e == Head(s)
<1>6. (e.kind \in {"running", "delta"} => e.n = from /\ (e.kind = "running" <=> e.n = 0)) /\ (Len(s) > 1 => e.kind \in {"running", "delta"})
  BY <1>1, <1>2, <1>4, <1>5 DEF Chain
<1>7. link'[t].events = z
  OBVIOUS
<1> HIDE DEF z, s, e
<1>8. CASE e.kind \in {"running", "delta"}
  <2>1. from + 1 = Reported(t)' + 1 /\ from + 1 # 0
    <3>1. CASE from = 0
      BY <1>4, <1>6, <1>8, <3>1 DEF e, s
    <3>2. CASE from = Reported(t) + 1
      BY <1>6, <1>8, <3>2 DEF e, s
    <3> QED
      BY <3>1, <3>2
  <2>2. Chain(z, from + 1)
    BY <1>1, <1>2, <1>3, <1>4, <1>5, RestOnTheWay
  <2>3. \A i \in DOMAIN z : i + 1 \in DOMAIN s /\ z[i] = s[i + 1]
    BY <1>1, <1>2, <1>3
  <2>4. Runs(t) /\ link[t].state \in {"open", "closing"} =>
          emitted[t] = (from + 1) + Len(z) /\ \A i \in DOMAIN z : z[i].kind \in {"running", "delta"}
    BY <1>1, <1>2, <1>4, <1>5, <2>3
  <2>5. OnTheWay(t, from + 1)'
    BY <1>5, <1>7, <2>1, <2>2, <2>4 DEF OnTheWay
  <2> QED
    BY <2>1, <2>5
<1>9. CASE e.kind = "idle"
  <2>1. Len(s) = 1 /\ Len(z) = 0 /\ 1 \in DOMAIN s
    BY <1>1, <1>2, <1>6, <1>9
  <2>2. Chain(z, Reported(t)' + 1)
    BY <1>3, <2>1 DEF Chain
  <2>3. ~(Runs(t) /\ link[t].state \in {"open", "closing"})
    <3>1. s[1].kind = "idle"
      BY <1>2, <1>9 DEF e
    <3> QED
      BY <1>4, <2>1, <3>1
  <2>4. PICK m : m = Reported(t)' + 1
    OBVIOUS
  <2>5. Chain(z, m) /\ m # 0
    BY <2>2, <2>4
  <2>6. OnTheWay(t, m)'
    BY <1>5, <1>7, <2>3, <2>5 DEF OnTheWay
  <2> QED
    BY <2>4, <2>6
<1>10. e.kind \in {"running", "delta"} \/ e.kind = "idle"
  BY DEF e, s
<1> QED
  BY <1>8, <1>9, <1>10

\* The first event on the way is the next one of the reply, or says that the
\* turn is over.
LEMMA FirstOnTheWay ==
  ASSUME TypeOK, SerialInv, NEW t \in Turns, Receive(t), turn[t] = "reading"
  PROVE  LET e == Head(link[t].events) IN
         /\ Listening(t) /\ Reported(t) \in Nat
         /\ \A i \in DOMAIN (got[t] \o hub.inbox[t]) : (got[t] \o hub.inbox[t])[i] = Event(t, "delta", i)
         /\ e.kind \in {"delta", "completed"} => e.n = Reported(t) + 1
         /\ e.kind = "completed" => e.n = MaxEvents + 1
<1> DEFINE s == link[t].events
           e == Head(s)
<1>1. Listening(t) /\ Reported(t) \in Nat
  <2>1. Len(got[t]) \in Nat /\ Len(hub.inbox[t]) \in Nat
    <3>1. got[t] \in Seq(Reports) /\ hub.inbox[t] \in Seq(Reports \cup {End})
      BY DEF TypeOK, Registries, Requests
    <3> QED
      BY <3>1, LenProperties
  <2>2. Listening(t)
    BY DEF Receive, Listening
  <2>3. \A m, n \in Nat : m + n \in Nat
    OBVIOUS
  <2>4. Reported(t) \in Nat
    BY <2>1, <2>3, Zenon DEF Reported
  <2> QED
    BY <2>2, <2>4
<1>2. \A i \in DOMAIN (got[t] \o hub.inbox[t]) : (got[t] \o hub.inbox[t])[i] = Event(t, "delta", i)
  BY <1>1 DEF SerialInv, WholeSoFar
<1>3. PICK from \in {0, Reported(t) + 1} : OnTheWay(t, from)
  BY <1>1 DEF SerialInv, WholeSoFar
<1>4. e = s[1] /\ 1 \in DOMAIN s
  <2>1. s \in Seq(Messages) /\ Len(s) \in Nat \ {0} /\ Head(s) = s[1]
    BY ReceivesOwn
  <2>2. DOMAIN s = 1..Len(s)
    BY <2>1, LenProperties
  <2> QED
    BY <2>1, <2>2
<1>5. Chain(s, from)
  BY <1>3 DEF OnTheWay
<1> HIDE DEF s
<1>6. /\ e.kind \in {"delta", "completed"} => e.n = from + 1 - 1 /\ e.n # 0
      /\ e.kind = "completed" => e.n = MaxEvents + 1
  <2>1. MaxEvents + 1 # 0
    BY BoundsAssumption
  <2> QED
    BY <1>4, <1>5, <2>1 DEF Chain
<1>7. from + 1 - 1 = from
  BY <1>1
<1>8. e.kind \in {"delta", "completed"} => e.n = Reported(t) + 1
  BY <1>6, <1>7
<1> QED
  BY <1>1, <1>2, <1>6, <1>8 DEF s

LEMMA StateEventSerial ==
  ASSUME TypeOK, SerialInv, NEW t \in Turns, Receive(t), StateEvent(t, Head(link[t].events))
  PROVE  SerialInv'
<1> DEFINE e == Head(link[t].events)
           l == Pop(link, t)
<1>1. /\ source[t] = t /\ consumer[t] = "waiting"
      /\ link' = l /\ UNCHANGED <<hub, consumer, ws>> /\ e.kind \in {"running", "idle"}
  BY ReceivesOwn DEF StateEvent
<1>2. /\ \A u \in Turns : l[u].frames = link[u].frames /\ l[u].state = link[u].state
      /\ \A u \in Turns \ {t} : l[u].events = link[u].events
      /\ l[t].events = Tail(link[t].events) /\ link[t].frames = <<>>
      /\ \A i \in DOMAIN Tail(link[t].events) : Tail(link[t].events)[i].turn = t
      /\ link[t].events # <<>>
      /\ UNCHANGED <<turn, gen, client, source, got, running, emitted, faults, abort>>
  <2>1. Receive(t) /\ source[t] = t
    BY <1>1
  <2> QED
    BY <2>1, ReceivesOwn DEF Receive
<1>3. consumer' = [consumer EXCEPT ![t] = "waiting"]
  BY <1>1 DEF TypeOK
<1>4. \E n \in 0..Len(hub.inbox[t]) : Cut(hub.inbox[t], n)
  BY DEF SerialInv, OwnQueue
<1> HIDE DEF l
<1>5. ASSUME turn[t] = "reading"
      PROVE  /\ Cut(hub.inbox[t], Len(hub.inbox[t]))
             /\ \A i \in DOMAIN (got[t] \o hub.inbox[t]) : (got[t] \o hub.inbox[t])[i] = Event(t, "delta", i)
             /\ \E from \in {0, Reported(t)' + 1} : OnTheWay(t, from)'
  <2>1. Listening(t) /\ Reported(t) \in Nat
        /\ \A i \in DOMAIN (got[t] \o hub.inbox[t]) : (got[t] \o hub.inbox[t])[i] = Event(t, "delta", i)
    BY <1>5, FirstOnTheWay
  <2>2. Reported(t)' = Reported(t)
    BY <1>1, <1>2 DEF Reported
  <2>3. PICK from \in {0, Reported(t) + 1} : OnTheWay(t, from)
    BY <2>1 DEF SerialInv, WholeSoFar
  <2>4. \E from2 \in {0, Reported(t)' + 1} : OnTheWay(t, from2)'
    BY <1>1, <1>2, <2>1, <2>2, <2>3, NextOnTheWay
  <2>5. Cut(hub.inbox[t], Len(hub.inbox[t]))
    BY <1>1, <1>5 DEF SerialInv, OwnQueue, Alive
  <2> QED
    BY <2>1, <2>4, <2>5
<1>6. /\ consumer[t] \in {"created", "waiting", "yielded"} /\ source'[t] = t
      /\ \A u \in Turns \ {t} : source'[u] = source[u] /\ link'[u].events = link[u].events
      /\ \A i \in DOMAIN link'[t].events : link'[t].events[i].turn = t
      /\ \A u \in Turns : link'[u].frames = link[u].frames /\ link'[u].state = link[u].state
      /\ got'[t] = got[t]
  BY <1>1, <1>2
<1>7. /\ UNCHANGED <<turn, gen, client, got, ws, running, emitted, faults, abort>> /\ UNCHANGED hub
      /\ link[t].frames # <<>> => link'[t].events = <<>> /\ Reported(t)' = 0
  BY <1>1, <1>2
<1>8. /\ \E n \in 0..Len(hub'.inbox[t]) : Cut(hub'.inbox[t], n)
      /\ turn[t] = "reading" =>
           /\ Cut(hub'.inbox[t], Len(hub'.inbox[t]))
           /\ \A i \in DOMAIN (got[t] \o hub'.inbox[t]) : (got[t] \o hub'.inbox[t])[i] = Event(t, "delta", i)
           /\ \E from \in {0, Reported(t)' + 1} : OnTheWay(t, from)'
  BY <1>4, <1>5, <1>7
<1> QED
  BY <1>3, <1>6, <1>7, <1>8, GoesOnSerial

LEMMA DeltaEventSerial ==
  ASSUME TypeOK, SerialInv, NEW t \in Turns, Receive(t), DeltaEvent(t, Head(link[t].events))
  PROVE  SerialInv'
<1> DEFINE e == Head(link[t].events)
           l == Pop(link, t)
           h == PushEvent(hub, gen[t], e)
<1>1. /\ source[t] = t /\ consumer[t] = "waiting" /\ consumer[t] \in Alive
      /\ link' = l /\ hub' = h /\ consumer' = [consumer EXCEPT ![t] = "yielded"] /\ UNCHANGED ws /\ e.kind = "delta"
  BY ReceivesOwn DEF DeltaEvent, Alive
<1>2. /\ \A u \in Turns : l[u].frames = link[u].frames /\ l[u].state = link[u].state
      /\ \A u \in Turns \ {t} : l[u].events = link[u].events
      /\ l[t].events = Tail(link[t].events) /\ link[t].frames = <<>>
      /\ \A i \in DOMAIN Tail(link[t].events) : Tail(link[t].events)[i].turn = t
      /\ link[t].events # <<>> /\ e.turn = t /\ e \in Messages
      /\ UNCHANGED <<turn, gen, client, source, got, running, emitted, faults, abort>>
  <2>1. Receive(t) /\ source[t] = t
    BY <1>1
  <2> QED
    BY <2>1, ReceivesOwn DEF Receive
<1>3. e \in Reports
  BY <1>1, <1>2 DEF Messages, Reports
<1>4. /\ h.subs = hub.subs /\ h.gen = hub.gen
      /\ \A u \in Turns \ {t} : h.inbox[u] = hub.inbox[u]
      /\ turn[t] = "reading" => h.inbox[t] = Append(hub.inbox[t], e) /\ Cut(h.inbox[t], Len(h.inbox[t]))
      /\ \E n \in 0..Len(h.inbox[t]) : Cut(h.inbox[t], n)
  BY <1>1, <1>3, PushReaches
<1> HIDE DEF l, h
<1>5. ASSUME turn[t] = "reading"
      PROVE  /\ \A i \in DOMAIN (got[t] \o h.inbox[t]) : (got[t] \o h.inbox[t])[i] = Event(t, "delta", i)
             /\ \E from \in {0, Reported(t)' + 1} : OnTheWay(t, from)'
  <2>1. /\ Listening(t) /\ Reported(t) \in Nat /\ e.n = Reported(t) + 1
        /\ \A i \in DOMAIN (got[t] \o hub.inbox[t]) : (got[t] \o hub.inbox[t])[i] = Event(t, "delta", i)
    BY <1>1, <1>5, FirstOnTheWay
  <2> DEFINE g == got[t]
             q == hub.inbox[t]
             S == Reports \cup {End}
             z == Append(g \o q, e)
  <2>2. g \in Seq(S) /\ q \in Seq(S) /\ e \in S /\ h.inbox[t] = Append(q, e)
    <3>1. g \in Seq(S)
      <4>1. g \in Seq(Reports)
        BY DEF TypeOK, Requests
      <4> QED
        BY <4>1, SeqMonotonic
    <3>2. q \in Seq(S)
      BY DEF TypeOK, Registries, Requests
    <3> QED
      BY <1>3, <1>4, <1>5, <3>1, <3>2
  <2>3. Reported(t) = Len(g) + Len(q)
    BY DEF Reported
  <2>4. \A i \in DOMAIN (g \o q) : (g \o q)[i] = Event(t, "delta", i)
    BY <2>1
  <2>5. got'[t] = g
    BY <1>2
  <2> HIDE DEF g, q, S
  <2>6. /\ g \o Append(q, e) = z /\ g \o q \in Seq(S) /\ Len(g \o q) = Len(g) + Len(q) /\ Len(g) \in Nat /\ Len(q) \in Nat
        /\ z \in Seq(S) /\ Len(z) = Len(g) + Len(q) + 1
        /\ \A i \in 1..(Len(g) + Len(q)) : z[i] = (g \o q)[i]
        /\ z # <<>> /\ Last(z) = e
    BY ONLY <2>2, ConcatAppend
  <2>7. Reported(t)' = Reported(t) + 1
    <3>1. q \in Seq(S) /\ e \in S
      BY <2>2
    <3>2. Len(Append(q, e)) = Len(q) + 1
      BY ONLY <3>1, AppendProperties
    <3>3. Reported(t)' = Len(g) + Len(Append(q, e))
      BY <1>1, <2>2, <2>5 DEF Reported
    <3> QED
      BY <2>3, <2>6, <3>2, <3>3
  <2>8. DOMAIN (g \o q) = 1..(Len(g) + Len(q)) /\ DOMAIN z = 1..(Len(g) + Len(q) + 1)
    BY <2>6, LenProperties
  <2>9. z[Len(g) + Len(q) + 1] = e
    BY <2>6 DEF Last
  <2>10. e = Event(t, "delta", Reported(t) + 1)
    BY <1>1, <1>2, <2>1 DEF Messages, Event
  <2>11. \A i \in DOMAIN z : z[i] = Event(t, "delta", i)
    <3> SUFFICES ASSUME NEW i \in DOMAIN z
                 PROVE  z[i] = Event(t, "delta", i)
      OBVIOUS
    <3>1. CASE i = Len(g) + Len(q) + 1
      BY <2>3, <2>9, <2>10, <3>1
    <3>2. CASE i # Len(g) + Len(q) + 1
      <4>1. i \in 1..(Len(g) + Len(q))
        BY <2>6, <2>8, <3>2
      <4> QED
        BY <2>4, <2>6, <2>8, <4>1
    <3> QED
      BY <3>1, <3>2
  <2>12. PICK from \in {0, Reported(t) + 1} : OnTheWay(t, from)
    BY <2>1 DEF SerialInv, WholeSoFar
  <2>13. \E next \in {0, Reported(t)' + 1} : OnTheWay(t, next)'
    <3>1. Reported(t)' \in Nat /\ link'[t].events = Tail(link[t].events) /\ link'[t].state = link[t].state
          /\ link[t].events # <<>> /\ UNCHANGED <<running, emitted>>
          /\ Head(link[t].events).kind = "delta"
      BY <1>1, <1>2, <2>1, <2>7
    <3> QED
      BY <2>1, <2>7, <2>12, <3>1, NextOnTheWay
  <2> QED
    BY <2>2, <2>6, <2>11, <2>13 DEF g
<1>6. /\ consumer[t] \in {"created", "waiting", "yielded"} /\ source'[t] = t
      /\ \A u \in Turns \ {t} : source'[u] = source[u]
      /\ \A i \in DOMAIN link'[t].events : link'[t].events[i].turn = t
      /\ got'[t] = got[t]
  BY <1>1, <1>2
<1> QED
  BY <1>1, <1>2, <1>4, <1>5, <1>6, GoesOnSerial

\* The completed event is the last of all, and its consumer leaves the loop.
LEMMA CompletedSerial ==
  ASSUME TypeOK, SerialInv, NEW t \in Turns, Receive(t), CompletedEvent(t, Head(link[t].events))
  PROVE  SerialInv'
<1> DEFINE e == Head(link[t].events)
           l == Pop(link, t)
           h == PushEvent(hub, gen[t], e)
<1>1. /\ source[t] = t /\ consumer[t] = "waiting" /\ consumer[t] \in Alive /\ turn[t] \notin {"new", "connecting", "sending"}
      /\ link' = l /\ hub' = h /\ consumer' = [consumer EXCEPT ![t] = "finishing"] /\ UNCHANGED ws /\ e.kind = "completed"
  BY ReceivesOwn DEF CompletedEvent, Alive
<1>2. /\ \A u \in Turns : l[u].frames = link[u].frames /\ l[u].state = link[u].state
      /\ \A u \in Turns \ {t} : l[u].events = link[u].events
      /\ l[t].events = Tail(link[t].events) /\ link[t].frames = <<>>
      /\ \A i \in DOMAIN Tail(link[t].events) : Tail(link[t].events)[i].turn = t
      /\ e.turn = t /\ e \in Messages
      /\ UNCHANGED <<turn, gen, client, source, got, running, emitted, faults, abort>>
  <2>1. Receive(t) /\ source[t] = t
    BY <1>1
  <2> QED
    BY <2>1, ReceivesOwn DEF Receive
<1>3. e \in Reports
  BY <1>1, <1>2 DEF Messages, Reports
<1>4. /\ h.subs = hub.subs /\ h.gen = hub.gen
      /\ \A u \in Turns \ {t} : h.inbox[u] = hub.inbox[u]
      /\ turn[t] = "reading" => /\ t \in hub.subs /\ Cut(h.inbox[t], Len(h.inbox[t]))
                                /\ got[t] \o BeforeEnd(h.inbox[t]) = Append(Pushed(t), e)
                                /\ Append(Pushed(t), e) # <<>> /\ Last(Append(Pushed(t), e)) = e
                                /\ Len(Append(Pushed(t), e)) = Reported(t) + 1
      /\ \E n \in 0..Len(h.inbox[t]) : Cut(h.inbox[t], n)
  BY <1>1, <1>3, PushReaches
<1>5. turn[t] = "reading" => e.n = Reported(t) + 1 /\ e.n = MaxEvents + 1
  BY <1>1, FirstOnTheWay
<1> HIDE DEF l, h, e
<1>6. \A u \in Turns \ {t} : turn[u] \notin {"connecting", "sending"} /\ consumer[u] \in {"none", "done"} /\ u \notin hub.subs
  <2>1. Active(t)
    BY <1>1 DEF Active
  <2> QED
    BY <2>1, OnlyOne
<1>7. consumer'[t] = "finishing" /\ \A u \in Turns \ {t} : consumer'[u] = consumer[u]
  BY <1>1 DEF TypeOK
<1>8. turn[t] \notin Unread /\ turn[t] # "ended"
  BY <1>1 DEF SerialInv, OwnQueue
<1>9. OneAtATime'
  BY <1>2, <1>6, <1>7 DEF OneAtATime, Active
<1>10. OwnQueue'
  <2> SUFFICES ASSUME NEW u \in Turns
               PROVE  /\ turn[u] \in Unread => consumer'[u] = "none" /\ got[u] = <<>> /\ h.inbox[u] = <<>>
                      /\ turn[u] \in {"reading", "ended", "left"} => consumer'[u] # "none"
                      /\ u \in hub.subs => turn[u] = "reading" /\ consumer'[u] \in Alive
                      /\ turn[u] = "reading" /\ consumer'[u] \in Alive => u \in hub.subs /\ Cut(h.inbox[u], Len(h.inbox[u]))
                      /\ turn[u] = "ended" => consumer'[u] \notin Alive /\ Cut(h.inbox[u], 0)
                      /\ \E n \in 0..Len(h.inbox[u]) : Cut(h.inbox[u], n)
    BY <1>1, <1>2, <1>4 DEF OwnQueue
  <2>1. CASE u = t
    <3>1. t \in hub.subs => turn[t] = "reading"
      BY DEF SerialInv, OwnQueue
    <3> QED
      BY <1>4, <1>7, <1>8, <2>1, <3>1 DEF Alive
  <2>2. CASE u # t
    BY <1>4, <1>6, <1>7, <2>2 DEF SerialInv, OwnQueue
  <2> QED
    BY <2>1, <2>2
<1>11. OwnStream'
  <2>1. gen[t] = hub.gen
    BY <1>1 DEF SerialInv, OwnStream
  <2> QED
    BY <1>1, <1>2, <1>4, <1>6, <1>7, <2>1 DEF OwnStream, Alive
<1>12. OwnLink'
  <2>1. \A u \in Turns : Runs(u)' <=> Runs(u)
    BY <1>2 DEF Runs
  <2>2. ws[client[t]].conn \in {t, None}
    BY <1>1 DEF SerialInv, OwnLink
  <2>3. \A u \in Turns : turn[u] = "sending" \/ consumer'[u] \notin {"none", "done"} => u = t
    BY <1>1, <1>6, <1>7
  <2>4. \A u \in Turns : turn[u] \in {"new", "connecting"} \/ link[u].frames # <<>> => link'[u].events = <<>>
    BY <1>1, <1>2 DEF SerialInv, OwnLink
  <2>5. ASSUME NEW u \in Turns
        PROVE  \A i \in DOMAIN link'[u].events : link'[u].events[i].turn = u
    <3>1. \A i \in DOMAIN link[u].events : link[u].events[i].turn = u
      BY DEF SerialInv, OwnLink
    <3>2. u # t => link'[u].events = link[u].events
      BY <1>1, <1>2
    <3>3. link'[t].events = Tail(link[t].events)
      BY <1>1, <1>2
    <3> QED
      BY <1>2, <3>1, <3>2, <3>3
  <2>6. \A u \in Turns : consumer'[u] \notin {"waiting", "yielded"} /\ link'[u].frames = link[u].frames
    BY <1>1, <1>2, <1>6, <1>7
  <2>7. UNCHANGED <<turn, client, ws, running, emitted>>
    BY <1>1, <1>2
  <2> QED
    BY <2>1, <2>2, <2>3, <2>4, <2>5, <2>6, <2>7 DEF SerialInv, OwnLink
<1>13. \A u \in Turns : ~Listening(u)'
  BY <1>1, <1>2, <1>6, <1>7 DEF Listening
<1>14. WholeSoFar'
  BY <1>13 DEF WholeSoFar
<1>15. Undisturbed'
  <2>1. \A u \in Turns \ {t} : Pushed(u)' = Pushed(u) /\ ~Listening(u)
    BY <1>1, <1>2, <1>4, <1>6 DEF Pushed, Listening
  <2>2. turn[t] = "reading" => Explained(Pushed(t)')
    <3>1. Pushed(t)' = got[t] \o BeforeEnd(h.inbox[t])
      BY <1>1, <1>2 DEF Pushed
    <3> QED
      BY <1>1, <1>4, <1>5, <3>1 DEF Explained
  <2>3. \A k \in Turns : faults = 0 /\ link'[k].state \in {"closing", "clean"} => consumer'[k] \in {"closing", "done"}
    BY <1>1, <1>2, <1>7 DEF SerialInv, Undisturbed
  <2>4. \A u \in Turns : faults = 0 /\ turn'[u] \in {"reading", "ended"} => Explained(Pushed(u)')
    BY <1>2, <1>8, <2>1, <2>2 DEF SerialInv, Undisturbed
  <2>5. (faults' = 0 <=> faults = 0) /\ (faults = 0 => \A a \in Aborts : abort'[a] = "new")
    BY <1>2 DEF SerialInv, Undisturbed
  <2>6. \A u \in Turns : Explained(Pushed(u)') <=> Explained(Pushed(u))'
    BY DEF Explained
  <2> QED
    BY <2>3, <2>4, <2>5, <2>6 DEF Undisturbed
<1>16. faults' \in Nat
  BY <1>2 DEF SerialInv
<1> QED
  BY <1>9, <1>10, <1>11, <1>12, <1>14, <1>15, <1>16 DEF SerialInv

\* An error of the agent server is pushed, and the stream ends with it.
LEMMA ErrorEventSerial ==
  ASSUME TypeOK, SerialInv, NEW t \in Turns, Receive(t), ErrorEvent(t, Head(link[t].events))
  PROVE  SerialInv'
<1> DEFINE e == Head(link[t].events)
           l == Pop(link, t)
           h == PushEvent(hub, gen[t], e)
           z == EndStream(h)
<1>1. /\ source[t] = t /\ consumer[t] \in Alive /\ Finally(t, z, l, ws) /\ e.kind = "error"
  <2>1. source[t] = t /\ consumer[t] \in Alive
    BY ReceivesOwn DEF Alive
  <2> QED
    BY <2>1 DEF ErrorEvent
<1>2. /\ l \in [Turns -> Links]
      /\ \A u \in Turns : l[u].frames = link[u].frames /\ l[u].state = link[u].state
      /\ \A u \in Turns \ {t} : l[u].events = link[u].events
      /\ l[t].events = Tail(link[t].events)
      /\ \A i \in DOMAIN Tail(link[t].events) : Tail(link[t].events)[i].turn = t
      /\ link[t].events # <<>> /\ e \in Messages
      /\ UNCHANGED <<turn, gen, client, source, got, running, emitted, faults, abort>>
  <2>1. Receive(t) /\ source[t] = t
    BY <1>1
  <2> QED
    BY <2>1, ReceivesOwn DEF Receive
<1>3. e \in Reports
  BY <1>1, <1>2 DEF Messages, Reports
<1>4. /\ h \in Registries /\ h.subs = hub.subs /\ \A u \in Turns \ {t} : h.inbox[u] = hub.inbox[u]
      /\ turn[t] = "reading" => /\ got[t] \o BeforeEnd(h.inbox[t]) = Append(Pushed(t), e)
                                /\ Append(Pushed(t), e) # <<>> /\ Last(Append(Pushed(t), e)) = e
      /\ \E n \in 0..Len(h.inbox[t]) : Cut(h.inbox[t], n)
  BY <1>1, <1>3, PushReaches
<1>5. \A u \in Turns \ {t} : u \notin hub.subs
  <2>1. Active(t)
    BY <1>1 DEF Active, Alive
  <2> QED
    BY <2>1, OnlyOne
<1> HIDE DEF e, l, h
<1>6. z \in Registries /\ z.subs = hub.subs /\ \A u \in Turns : z.inbox[u] = IF u \in h.subs THEN Append(h.inbox[u], End) ELSE h.inbox[u]
  <2>1. \A u \in Turns : u \in Requests
    BY DEF Requests
  <2> QED
    BY <1>4, <2>1, EndStreamType, HubEffects
<1> HIDE DEF z
<1>7. \A u \in Turns \ {t} : z.inbox[u] = hub.inbox[u]
  BY <1>4, <1>5, <1>6
<1>8. BeforeEnd(z.inbox[t]) = BeforeEnd(h.inbox[t]) /\ \E n \in 0..Len(z.inbox[t]) : Cut(z.inbox[t], n)
  <2>1. z.inbox[t] \in {h.inbox[t], Append(h.inbox[t], End)}
    BY <1>6
  <2>2. h.inbox[t] \in Seq(Reports \cup {End})
    BY <1>4 DEF Registries, Requests
  <2>3. PICK n \in 0..Len(h.inbox[t]) : Cut(h.inbox[t], n)
    BY <1>4
  <2>4. Cut(Append(h.inbox[t], End), n) /\ BeforeEnd(Append(h.inbox[t], End)) = BeforeEnd(h.inbox[t])
    BY <2>2, <2>3, EndChangesNothing
  <2>5. n \in 0..Len(Append(h.inbox[t], End))
    BY <2>4 DEF Cut
  <2> QED
    BY <2>1, <2>3, <2>4, <2>5
<1>9. turn[t] = "reading" => Explained(got[t] \o BeforeEnd(z.inbox[t]))
  BY <1>1, <1>4, <1>8 DEF Explained
<1>10. /\ ws \in [Clients -> Sockets] /\ \A i \in DOMAIN l[t].events : l[t].events[i].turn = t
       /\ UNCHANGED <<turn, source, client, got, running, emitted, faults, abort>>
       /\ link[t].events = <<>> => l[t].events = <<>>
  BY <1>2 DEF TypeOK
<1> QED
  BY <1>1, <1>2, <1>6, <1>7, <1>8, <1>9, <1>10, FinallySerial

LEMMA ReceiveSerial ==
  ASSUME TypeOK, SerialInv, NEW t \in Turns, Receive(t)
  PROVE  SerialInv'
<1> DEFINE e == Head(link[t].events)
<1>1. StateEvent(t, e) \/ ErrorEvent(t, e) \/ DeltaEvent(t, e) \/ CompletedEvent(t, e)
  BY ReceivesOwn
<1> QED
  BY <1>1, StateEventSerial, ErrorEventSerial, DeltaEventSerial, CompletedSerial

\* A connection that was closed, and the end of the loop.
LEMMA StopSerial ==
  ASSUME TypeOK, SerialInv, NEW t \in Turns, StreamCloses(t) \/ Finish(t)
  PROVE  SerialInv'
<1>1. /\ consumer[t] \in {"waiting", "finishing"} /\ consumer[t] \in Alive /\ ws \in [Clients -> Sockets]
      /\ UNCHANGED <<turn, source, client, got, running, emitted, faults, abort>>
  BY DEF StreamCloses, Finish, Alive, others, server, TypeOK
<1>2. CASE StreamCloses(t)
  <2>1. source[t] = t /\ consumer[t] = "waiting"
    BY <1>2 DEF SerialInv, OwnLink, StreamCloses
  <2>2. CASE link[t].state = "clean" /\ Finally(t, hub, link, ws)
    <3>1. faults # 0
      BY <2>1, <2>2 DEF SerialInv, Undisturbed
    <3> QED
      BY <1>1, <2>2, <3>1, StopsSerial
  <2>3. CASE Fault(t, [ws EXCEPT ![client[t]].up = FALSE])
    <3> DEFINE w == [ws EXCEPT ![client[t]].up = FALSE]
    <3>1. w \in [Clients -> Sockets] /\ \A c \in Clients : w[c].conn = ws[c].conn
      <4>1. \A x \in Sockets : [x EXCEPT !.up = FALSE] \in Sockets /\ [x EXCEPT !.up = FALSE].conn = x.conn
        BY DEF Sockets
      <4> QED
        BY <1>1, <4>1
    <3>2. Fault(t, w)
      BY <2>3
    <3> HIDE DEF w
    <3> QED
      BY <1>1, <3>1, <3>2, StopsSerial
  <2> QED
    BY <1>2, <2>1, <2>2, <2>3 DEF StreamCloses
<1>3. CASE Finish(t)
  <2>1. Finally(t, hub, link, ws) /\ consumer[t] = "finishing"
    BY <1>3 DEF Finish
  <2>2. turn[t] = "reading" => ~Listening(t)
    BY <2>1 DEF Listening
  <2>3. faults = 0 /\ turn[t] = "reading" => Explained(Pushed(t))
    BY <2>2 DEF SerialInv, Undisturbed
  <2> QED
    BY <1>1, <2>1, <2>3, StopsSerial
<1> QED
  BY <1>2, <1>3

LEMMA ConsumeSerial ==
  ASSUME TypeOK, SerialInv, NEW t \in Turns, Consume(t)
  PROVE  SerialInv'
BY IterateSerial, ReceiveSerial, StopSerial, ConsumerClosedSerial DEF Consume

\* What becomes of a connection besides its traffic.
LEMMA LinkRecords ==
  ASSUME NEW x \in Links
  PROVE  /\ \A v : [x EXCEPT !.server = v].events = x.events /\ [x EXCEPT !.server = v].frames = x.frames
                   /\ [x EXCEPT !.server = v].state = x.state
         /\ \A v : [x EXCEPT !.state = v].events = x.events /\ [x EXCEPT !.state = v].frames = x.frames
                   /\ [x EXCEPT !.state = v].state = v
         /\ \A v, w : [x EXCEPT !.server = v, !.state = w].events = x.events
                      /\ [x EXCEPT !.server = v, !.state = w].frames = x.frames
                      /\ [x EXCEPT !.server = v, !.state = w].state = w
BY DEF Links

\* The server holds, closes or forgets a connection, or the network loses it.
LEMMA ConnectionSerial ==
  ASSUME TypeOK, SerialInv, NEW k \in Turns, Hold(k) \/ SeesClose(k) \/ Release(k) \/ Break(k)
  PROVE  SerialInv'
<1>1. UNCHANGED <<turn, consumer, source, gen, emitted, client, got, hub, ws, abort>> /\ running' \in {running, None}
  BY DEF Hold, SeesClose, Release, Break, requests, others, server
<1>2. link[k] \in Links /\ link \in [Turns -> Links]
  BY DEF TypeOK
<1>3. \/ Hold(k) /\ link'[k] \in {[link[k] EXCEPT !.server = "gone", !.state = "broken"],
                                   [link[k] EXCEPT !.server = "held"]}
      \/ Hold(k) /\ link[k].state = "closing" /\ link'[k] = [link[k] EXCEPT !.server = "gone", !.state = "clean"]
      \/ SeesClose(k) /\ link[k].state \in {"closing", "clean"} /\ link'[k] = [link[k] EXCEPT !.server = "draining", !.state = "clean"]
      \/ SeesClose(k) /\ link'[k] = [link[k] EXCEPT !.server = "draining", !.state = "broken"]
      \/ Release(k) /\ link'[k] = [link[k] EXCEPT !.server = "gone"]
      \/ Break(k) /\ link'[k] = [link[k] EXCEPT !.state = "broken"]
  <2>1. CASE Hold(k)
    BY <1>2, <2>1 DEF Hold
  <2>2. CASE SeesClose(k)
    BY <1>2, <2>2 DEF SeesClose
  <2>3. CASE Release(k)
    BY <1>2, <2>3 DEF Release
  <2>4. CASE Break(k)
    BY <1>2, <2>4 DEF Break
  <2> QED
    BY <2>1, <2>2, <2>3, <2>4
<1>4. \A j \in Turns \ {k} : link'[j] = link[j]
  BY <1>2 DEF Hold, SeesClose, Release, Break
<1>5. /\ link'[k].events = link[k].events /\ link'[k].frames = link[k].frames
      /\ link'[k].state \in {"broken", link[k].state} \/ (link'[k].state = "clean" /\ link[k].state \in {"closing", "clean"})
  BY <1>2, <1>3 DEF Links
<1>6. \A j \in Turns : /\ link'[j].events = link[j].events /\ link'[j].frames = link[j].frames
                       /\ link'[j].state \in {"open", "closing"} => link[j].state \in {"open", "closing"}
                       /\ link'[j].state \in {"closing", "clean"} => link[j].state \in {"closing", "clean"}
  <2> SUFFICES ASSUME NEW j \in Turns
               PROVE  /\ link'[j].events = link[j].events /\ link'[j].frames = link[j].frames
                      /\ link'[j].state \in {"open", "closing"} => link[j].state \in {"open", "closing"}
                      /\ link'[j].state \in {"closing", "clean"} => link[j].state \in {"closing", "clean"}
    OBVIOUS
  <2>1. CASE j = k
    BY <1>5, <2>1
  <2>2. CASE j # k
    BY <1>4, <2>2
  <2> QED
    BY <2>1, <2>2
<1>7. faults' = faults + 1 \/ faults' = faults
  BY DEF Hold, SeesClose, Release, Break, Faulty
<1>8. \A c \in Clients : ws'[c].conn \in {ws[c].conn, None}
  BY <1>1
<1> QED
  BY <1>1, <1>6, <1>7, <1>8, QuietStep

\* abort_session, but for what the agent server answers it.
LEMMA AbortSerial ==
  ASSUME TypeOK, SerialInv, NEW a \in Aborts, AbortLocally(a) \/ AbortClosed(a) \/ (AbortRemote(a) /\ UNCHANGED <<running, link>>)
  PROVE  SerialInv'
<1>1. UNCHANGED <<turn, consumer, source, gen, emitted, got, hub, running>>
  BY DEF AbortLocally, AbortClosed, AbortRemote, requests, others, server
<1>2. link \in [Turns -> Links] /\ ws \in [Clients -> Sockets] /\ pool \in Clients \cup {None} /\ client \in [Clients -> Clients \cup {None}]
  BY DEF TypeOK
<1>3. \A t \in Turns : client'[t] = client[t]
  <2>1. \A t \in Turns : t # a
    BY NamesAssumption
  <2>2. UNCHANGED client \/ \E c : client' = [client EXCEPT ![a] = c]
    BY DEF AbortLocally, AbortClosed, AbortRemote, requests
  <2>3. ASSUME NEW c, client' = [client EXCEPT ![a] = c]
        PROVE  \A t \in Turns : client'[t] = client[t]
    <3>1. \A t \in Turns : t \in Clients
      BY DEF Clients
    <3> QED
      BY <1>2, <2>1, <2>3, <3>1
  <2> QED
    BY <2>2, <2>3
<1>4. faults' = faults + 1 \/ (faults' = faults /\ faults # 0)
  <2>1. abort[a] # "new" => faults # 0
    BY DEF SerialInv, Undisturbed
  <2> QED
    BY <2>1 DEF AbortLocally, AbortClosed, AbortRemote, Faulty
<1>5. \A c \in Clients : ws'[c].conn \in {ws[c].conn, None}
  <2>1. \A x \in Sockets : [x EXCEPT !.up = FALSE].conn = x.conn /\ [x EXCEPT !.conn = None].conn = None
    BY DEF Sockets
  <2>2. \/ UNCHANGED ws
        \/ \E c \in Clients : ws' = [ws EXCEPT ![c].up = FALSE]
        \/ \E c : ws' = [ws EXCEPT ![c].conn = None]
    <3>1. a \in Clients
      BY DEF Clients
    <3>2. CASE AbortLocally(a)
      BY <1>2, <3>1, <3>2 DEF AbortLocally
    <3>3. CASE AbortClosed(a)
      BY <3>3 DEF AbortClosed, CloseReturns
    <3>4. CASE AbortRemote(a)
      BY <3>4 DEF AbortRemote
    <3> QED
      BY <3>2, <3>3, <3>4
  <2>3. ASSUME NEW c \in Clients, ws' = [ws EXCEPT ![c].up = FALSE]
        PROVE  \A b \in Clients : ws'[b].conn = ws[b].conn
    BY <1>2, <2>1, <2>3
  <2>4. ASSUME NEW c, ws' = [ws EXCEPT ![c].conn = None]
        PROVE  \A b \in Clients : ws'[b].conn \in {ws[b].conn, None}
    BY <1>2, <2>1, <2>4
  <2> QED
    BY <2>2, <2>3, <2>4
<1>6. \A k \in Turns : /\ link'[k].events = link[k].events /\ link'[k].frames = link[k].frames
                       /\ link'[k].state \in {"open", "closing"} => link[k].state \in {"open", "closing"}
  <2>1. link' = link \/ \E c : link' = CloseLink(link, c)
    BY DEF AbortLocally, AbortClosed, AbortRemote
  <2>2. \A c : \A k \in Turns : CloseLink(link, c)[k].state \in {"open", "closing"} => link[k].state \in {"open", "closing"}
    BY <1>2, LinkRecords DEF CloseLink
  <2>3. \A c : \A k \in Turns : CloseLink(link, c)[k].events = link[k].events /\ CloseLink(link, c)[k].frames = link[k].frames
    BY <1>2, LinkFrames
  <2> QED
    BY <2>1, <2>2, <2>3
<1>7. /\ \A t \in Turns : got'[t] = got[t] /\ hub'.inbox[t] = hub.inbox[t] /\ (t \in hub'.subs <=> t \in hub.subs)
      /\ hub'.gen = hub.gen /\ running' \in {running, None}
  BY <1>1
<1> QED
  BY <1>1, <1>3, <1>4, <1>5, <1>6, <1>7, QuietStep

\* The requests that reconnect touch no turn's own queue.
LEMMA ReadersAside ==
  ASSUME TypeOK, NEW r \in Readers, Reconnect(r) \/ Replay(r) \/ Take(r) \/ Leave(r)
  PROVE  /\ UNCHANGED <<turn, consumer, source, gen, emitted, client, ws, link, running, abort>>
         /\ hub'.gen = hub.gen
         /\ \A t \in Turns : got'[t] = got[t] /\ hub'.inbox[t] = hub.inbox[t] /\ (t \in hub'.subs <=> t \in hub.subs)
<1>1. r \notin Turns /\ r \in Requests /\ hub \in Registries /\ got \in [Requests -> Seq(Reports)] /\ \A t \in Turns : t \in Requests /\ t # r
  BY TurnsAreNotReaders DEF Requests, TypeOK
<1>2. UNCHANGED <<turn, consumer, source, gen, emitted, client, ws, link, running, abort>>
  BY <1>1 DEF Reconnect, Replay, Take, Leave, SetRequest, requests, server
<1>3. \/ UNCHANGED hub
      \/ hub' = Subscribe(hub, r)
      \/ hub' = Unsubscribe(hub, r)
      \/ hub' = [hub EXCEPT !.inbox[r] = Tail(@)]
  BY DEF Reconnect, Replay, Take, Leave, YieldNext
<1>4. hub'.gen = hub.gen /\ \A t \in Turns : hub'.inbox[t] = hub.inbox[t] /\ (t \in hub'.subs <=> t \in hub.subs)
  <2>1. CASE hub' = Subscribe(hub, r) \/ hub' = Unsubscribe(hub, r)
    BY <1>1, <2>1, HubEffects
  <2>2. CASE hub' = [hub EXCEPT !.inbox[r] = Tail(@)]
    <3>1. hub'.gen = hub.gen /\ hub'.subs = hub.subs /\ hub'.inbox = [hub.inbox EXCEPT ![r] = Tail(@)]
      BY <1>1, <2>2 DEF Registries
    <3> QED
      BY <1>1, <3>1 DEF Registries
  <2> QED
    BY <1>3, <2>1, <2>2
<1>5. \A t \in Turns : got'[t] = got[t]
  <2>1. UNCHANGED got \/ \E e : got' = [got EXCEPT ![r] = e]
    BY DEF Reconnect, Replay, Take, Leave, YieldNext
  <2> QED
    BY <1>1, <2>1
<1> QED
  BY <1>2, <1>4, <1>5

LEMMA ReadersSerial ==
  ASSUME TypeOK, SerialInv, NEW r \in Readers, Reconnect(r) \/ Replay(r) \/ Take(r) \/ Leave(r)
  PROVE  SerialInv'
<1>1. /\ UNCHANGED <<turn, consumer, source, gen, emitted, client, ws, link, running, abort>>
      /\ hub'.gen = hub.gen
      /\ \A t \in Turns : got'[t] = got[t] /\ hub'.inbox[t] = hub.inbox[t] /\ (t \in hub'.subs <=> t \in hub.subs)
  BY ReadersAside
<1>2. faults' = faults + 1 \/ faults' = faults
  BY DEF Reconnect, Replay, Take, Leave, Faulty
<1>3. /\ \A t \in Turns : client'[t] = client[t]
      /\ \A c \in Clients : ws'[c].conn \in {ws[c].conn, None}
      /\ \A k \in Turns : link'[k] = link[k]
      /\ running' \in {running, None}
  BY <1>1
<1> QED
  BY <1>1, <1>2, <1>3, QuietStep

\* A frame of the agent server, on a connection that is not yet closed.
LEMMA ToClientEffects ==
  ASSUME NEW l \in [Turns -> Links], NEW k \in Turns, NEW e \in Messages, NEW l2,
         l2 = ToClient(l, k, e) \/ l2 = [ToClient(l, k, e) EXCEPT ![k].terminal = TRUE]
  PROVE  /\ l2[k].events = IF l[k].state \in {"open", "closing"} THEN Append(l[k].events, e) ELSE l[k].events
         /\ l2[k].frames = l[k].frames /\ l2[k].state = l[k].state
         /\ \A j \in Turns \ {k} : l2[j] = l[j]
<1> DEFINE f == ToClient(l, k, e)
<1>1. \A x \in Links : /\ \A v : [x EXCEPT !.events = v].events = v /\ [x EXCEPT !.events = v].frames = x.frames
                                 /\ [x EXCEPT !.events = v].state = x.state
                       /\ [x EXCEPT !.terminal = TRUE].events = x.events /\ [x EXCEPT !.terminal = TRUE].frames = x.frames
                       /\ [x EXCEPT !.terminal = TRUE].state = x.state
  BY DEF Links
<1>2. f \in [Turns -> Links]
  BY ToClientType
<1>3. /\ f[k].events = IF l[k].state \in {"open", "closing"} THEN Append(l[k].events, e) ELSE l[k].events
      /\ f[k].frames = l[k].frames /\ f[k].state = l[k].state
      /\ \A j \in Turns \ {k} : f[j] = l[j]
  BY <1>1 DEF ToClient
<1> HIDE DEF f
<1>4. CASE l2 = f
  BY <1>3, <1>4
<1>5. CASE l2 = [f EXCEPT ![k].terminal = TRUE]
  <2>1. f[k] \in Links /\ l2[k] = [f[k] EXCEPT !.terminal = TRUE] /\ \A j \in Turns \ {k} : l2[j] = f[j]
    BY <1>2, <1>5
  <2>2. l2[k].events = f[k].events /\ l2[k].frames = f[k].frames /\ l2[k].state = f[k].state
    BY <1>1, <2>1
  <2> QED
    BY <1>3, <2>1, <2>2
<1> QED
  BY <1>4, <1>5 DEF f

\* The next event of a reply, or one that ends it, goes behind the others.
LEMMA ChainGrows ==
  ASSUME NEW s \in Seq(Messages), NEW from \in Nat, Chain(s, from),
         \A i \in DOMAIN s : s[i].kind \in {"running", "delta"},
         NEW e \in Messages,
         e.kind \in {"running", "delta", "completed"} =>
           /\ e.n = from + Len(s) /\ (e.kind = "running" <=> e.n = 0)
           /\ e.kind = "completed" => e.n = MaxEvents + 1
  PROVE  Chain(Append(s, e), from)
<1> DEFINE z == Append(s, e)
<1>1. Len(s) \in Nat /\ DOMAIN s = 1..Len(s) /\ DOMAIN z = 1..Len(z) /\ Len(z) = Len(s) + 1
      /\ (\A i \in 1..Len(s) : z[i] = s[i]) /\ z[Len(s) + 1] = e
  BY AppendProperties, LenProperties
<1> HIDE DEF z
<1>2. ASSUME NEW i \in DOMAIN z
      PROVE  /\ i < Len(z) => z[i].kind \in {"running", "delta"}
             /\ z[i].kind \in {"running", "delta", "completed"} =>
                  /\ z[i].n = from + i - 1 /\ (z[i].kind = "running" <=> z[i].n = 0)
                  /\ z[i].kind = "completed" => z[i].n = MaxEvents + 1
  <2>1. CASE i = Len(s) + 1
    <3>1. ~(i < Len(z)) /\ z[i] = e /\ from + i - 1 = from + Len(s)
      BY <1>1, <2>1
    <3> QED
      BY <3>1
  <2>2. CASE i # Len(s) + 1
    <3>1. i \in DOMAIN s /\ z[i] = s[i]
      BY <1>1, <2>2
    <3> QED
      BY <3>1 DEF Chain
  <2> QED
    BY <2>1, <2>2
<1>3. Chain(z, from)
  BY <1>2 DEF Chain
<1> QED
  BY <1>3 DEF z

\* A step of the agent server concerns one turn and its connection.
LEMMA ServerSerial ==
  ASSUME TypeOK, SerialInv, NEW k \in Turns,
         UNCHANGED <<turn, consumer, source, gen, client, got, hub, ws>>,
         faults' = faults + 1 \/ (faults' = faults /\ UNCHANGED abort),
         \A j \in Turns \ {k} : link'[j] = link[j] /\ emitted'[j] = emitted[j] /\ (Runs(j)' => Runs(j)),
         running' # None => running'.via = running'.turn /\ emitted'[running'.turn] <= MaxEvents + 1,
         turn[k] \notin {"new", "connecting"},
         link'[k].state = link[k].state, link'[k].frames = <<>>,
         \A i \in DOMAIN link'[k].events : link'[k].events[i].turn = k,
         Listening(k) => \E from \in {0, Reported(k) + 1} : OnTheWay(k, from)'
  PROVE  SerialInv'
<1>1. OneAtATime'
  BY DEF SerialInv, OneAtATime, Active
<1>2. OwnQueue'
  BY DEF SerialInv, OwnQueue
<1>3. OwnStream'
  BY DEF SerialInv, OwnStream
<1>4. OwnLink'
  <2>1. ASSUME NEW u \in Turns
        PROVE  /\ turn[u] = "sending" \/ consumer[u] \notin {"none", "done"} => ws[client[u]].conn \in {u, None}
               /\ consumer[u] \in {"waiting", "yielded"} => source[u] = u
               /\ link'[u].frames \in {<<>>, <<u>>}
               /\ turn[u] \in {"new", "connecting"} => link'[u].frames = <<>>
               /\ turn[u] \in {"new", "connecting"} \/ link'[u].frames # <<>> =>
                    link'[u].events = <<>> /\ emitted'[u] = 0 /\ ~Runs(u)'
               /\ \A i \in DOMAIN link'[u].events : link'[u].events[i].turn = u
    <3>1. CASE u = k
      BY <3>1 DEF SerialInv, OwnLink
    <3>2. CASE u # k
      <4>1. link'[u] = link[u] /\ emitted'[u] = emitted[u] /\ (Runs(u)' => Runs(u))
        BY <3>2
      <4> QED
        BY <4>1 DEF SerialInv, OwnLink
    <3> QED
      BY <3>1, <3>2
  <2> QED
    BY <2>1 DEF OwnLink
<1>5. WholeSoFar'
  <2> SUFFICES ASSUME NEW u \in Turns, Listening(u)
               PROVE  /\ \A i \in DOMAIN (got[u] \o hub.inbox[u]) : (got[u] \o hub.inbox[u])[i] = Event(u, "delta", i)
                      /\ link'[u].frames # <<>> => Reported(u) = 0
                      /\ \E from \in {0, Reported(u) + 1} : OnTheWay(u, from)'
    BY DEF WholeSoFar, Listening, Reported
  <2>1. /\ \A i \in DOMAIN (got[u] \o hub.inbox[u]) : (got[u] \o hub.inbox[u])[i] = Event(u, "delta", i)
        /\ link[u].frames # <<>> => Reported(u) = 0
    BY DEF SerialInv, WholeSoFar
  <2>2. PICK from \in {0, Reported(u) + 1} : OnTheWay(u, from)
    BY DEF SerialInv, WholeSoFar
  <2>3. CASE u = k
    BY <2>1, <2>3
  <2>4. CASE u # k
    <3>1. link'[u] = link[u] /\ emitted'[u] = emitted[u] /\ (Runs(u)' => Runs(u)) /\ Reported(u)' = Reported(u)
      BY <2>4 DEF Reported
    <3>2. OnTheWay(u, from)'
      BY <2>2, <3>1 DEF OnTheWay
    <3> QED
      BY <2>1, <3>1, <3>2
  <2> QED
    BY <2>3, <2>4
<1>6. Undisturbed'
  <2>1. \A u \in Turns : (Explained(Pushed(u))' <=> Explained(Pushed(u))) /\ (Listening(u)' <=> Listening(u))
    BY DEF Explained, Pushed, Listening
  <2>2. \A u \in Turns : link'[u].state = link[u].state
    OBVIOUS
  <2>3. faults' = 0 => faults = 0 /\ UNCHANGED abort
    BY DEF SerialInv
  <2> QED
    BY <2>1, <2>2, <2>3 DEF SerialInv, Undisturbed
<1>7. faults' \in Nat
  BY DEF SerialInv
<1> QED
  BY <1>1, <1>2, <1>3, <1>4, <1>5, <1>6, <1>7 DEF SerialInv

\* Events of a turn on its own connection, one more or none.
LEMMA StillOwn ==
  ASSUME NEW k \in Turns, NEW s \in Seq(Messages), \A i \in DOMAIN s : s[i].turn = k, NEW e \in Messages, e.turn = k,
         NEW z \in {s, Append(s, e)}
  PROVE  \A i \in DOMAIN z : z[i].turn = k
<1> DEFINE a == Append(s, e)
<1>1. Len(s) \in Nat /\ DOMAIN s = 1..Len(s) /\ DOMAIN a = 1..Len(a) /\ Len(a) = Len(s) + 1
      /\ (\A i \in 1..Len(s) : a[i] = s[i]) /\ a[Len(s) + 1] = e
  BY AppendProperties, LenProperties
<1> HIDE DEF a
<1>2. ASSUME NEW i \in DOMAIN a
      PROVE  a[i].turn = k
  <2>1. i \in DOMAIN s \/ i = Len(s) + 1
    BY <1>1
  <2> QED
    BY <1>1, <2>1
<1> QED
  BY <1>2 DEF a

\* The turn in flight has been asked for, on its own connection.
LEMMA InFlight ==
  ASSUME TypeOK, SerialInv, running # None
  PROVE  /\ running.turn \in Turns /\ running.via = running.turn /\ Runs(running.turn)
         /\ turn[running.turn] \notin {"new", "connecting"} /\ link[running.turn].frames = <<>>
         /\ link[running.turn].events \in Seq(Messages) /\ link \in [Turns -> Links]
         /\ \A i \in DOMAIN link[running.turn].events : link[running.turn].events[i].turn = running.turn
         /\ emitted[running.turn] \in Nat /\ emitted[running.turn] <= MaxEvents + 1
         /\ \A j \in Turns \ {running.turn} : ~Runs(j)
<1>1. running.turn \in Turns /\ Runs(running.turn) /\ \A j \in Turns \ {running.turn} : ~Runs(j)
  BY DEF TypeOK, Runs
<1>2. link[running.turn].events \in Seq(Messages) /\ link \in [Turns -> Links] /\ emitted[running.turn] \in Nat
  BY <1>1 DEF TypeOK, Links
<1>3. /\ running.via = running.turn /\ turn[running.turn] \notin {"new", "connecting"} /\ link[running.turn].frames = <<>>
      /\ \A i \in DOMAIN link[running.turn].events : link[running.turn].events[i].turn = running.turn
      /\ emitted[running.turn] <= MaxEvents + 1
  BY <1>1 DEF SerialInv, OwnLink
<1> QED
  BY <1>1, <1>2, <1>3

LEMMA DispatchSerial ==
  ASSUME TypeOK, SerialInv, NEW k \in Turns, Dispatch(k)
  PROVE  SerialInv'
<1> DEFINE l == [link EXCEPT ![k].frames = Tail(@)]
           e == Event(k, "error", 0)
<1>1. /\ link[k].frames = <<k>> /\ link[k].events = <<>> /\ emitted[k] = 0 /\ ~Runs(k) /\ turn[k] \notin {"new", "connecting"}
  BY DEF SerialInv, OwnLink, Dispatch
<1>2. Head(link[k].frames) = k /\ Tail(link[k].frames) = <<>> /\ link \in [Turns -> Links] /\ link[k] \in Links
  BY <1>1 DEF TypeOK
<1>3. /\ l \in [Turns -> Links] /\ l[k].frames = <<>> /\ l[k].events = <<>> /\ l[k].state = link[k].state
      /\ \A j \in Turns \ {k} : l[j] = link[j]
  <2>1. \A x \in Links : LET y == [x EXCEPT !.frames = <<>>] IN
          y \in Links /\ y.frames = <<>> /\ y.events = x.events /\ y.state = x.state
    <3>1. <<>> \in Seq(Turns)
      OBVIOUS
    <3> QED
      BY <3>1 DEF Links
  <2>2. l = [link EXCEPT ![k] = [link[k] EXCEPT !.frames = <<>>]]
    BY <1>2
  <2> HIDE DEF l
  <2> QED
    BY <1>1, <1>2, <2>1, <2>2
<1>4. e \in Messages /\ e.turn = k /\ e.kind = "error"
  BY EventTypes DEF Event
<1>5. /\ \/ running = None /\ running' = [turn |-> k, via |-> k] /\ link' = l
         \/ link' = ToClient(l, k, e) /\ UNCHANGED running
      /\ UNCHANGED <<turn, consumer, source, gen, client, got, hub, ws, emitted, faults, abort>>
  BY <1>2 DEF Dispatch, requests, others
<1> HIDE DEF l, e
<1>6. /\ link'[k].frames = <<>> /\ link'[k].state = link[k].state
      /\ link'[k].events \in {<<>>, Append(<<>>, e)}
      /\ \A j \in Turns \ {k} : link'[j] = link[j]
  <2>1. CASE link' = l
    BY <1>3, <2>1
  <2>2. CASE link' = ToClient(l, k, e)
    <3>1. /\ link'[k].events = IF l[k].state \in {"open", "closing"} THEN Append(l[k].events, e) ELSE l[k].events
          /\ link'[k].frames = l[k].frames /\ link'[k].state = l[k].state
          /\ \A j \in Turns \ {k} : link'[j] = l[j]
      <4>1. k \in Turns /\ l \in [Turns -> Links] /\ e \in Messages
            /\ (link' = ToClient(l, k, e) \/ link' = [ToClient(l, k, e) EXCEPT ![k].terminal = TRUE])
        BY <1>3, <1>4, <2>2
      <4> QED
        BY ONLY <4>1, ToClientEffects
    <3> QED
      BY <1>3, <3>1
  <2> QED
    BY <1>5, <2>1, <2>2
<1>7. Runs(k)' => running' = [turn |-> k, via |-> k] /\ link'[k].events = <<>>
  BY <1>1, <1>3, <1>5 DEF Runs
<1>8. \A i \in DOMAIN link'[k].events : link'[k].events[i].turn = k
  <2>1. <<>> \in Seq(Messages) /\ DOMAIN <<>> = {}
    OBVIOUS
  <2> QED
    BY <1>4, <1>6, <2>1, StillOwn
<1>9. Listening(k) => OnTheWay(k, 0)'
  <2> SUFFICES ASSUME Listening(k)
               PROVE  OnTheWay(k, 0)'
    OBVIOUS
  <2>1. Reported(k)' = 0
    <3>1. Reported(k)' = Reported(k)
      BY <1>5 DEF Reported
    <3>2. link[k].frames # <<>>
      BY <1>1
    <3> QED
      BY <3>1, <3>2 DEF SerialInv, WholeSoFar
  <2>2. Chain(<<>>, 0)
    BY DEF Chain
  <2>3. Chain(link'[k].events, 0)
    <3>1. <<>> \in Seq(Messages) /\ DOMAIN <<>> = {}
      OBVIOUS
    <3>2. Chain(Append(<<>>, e), 0)
      BY <1>4, <2>2, <3>1, ChainGrows
    <3> QED
      BY <1>6, <2>2, <3>2
  <2>4. Len(<<>>) = 0 /\ DOMAIN <<>> = {} /\ emitted'[k] = 0
    BY <1>1, <1>5
  <2> QED
    BY <1>7, <2>1, <2>3, <2>4 DEF OnTheWay
<1>10. \A j \in Turns \ {k} : Runs(j)' => Runs(j)
  BY <1>5 DEF Runs
<1>11. running' # None => running'.via = running'.turn /\ emitted'[running'.turn] <= MaxEvents + 1
  <2>1. running' = [turn |-> k, via |-> k] \/ running' = running
    BY <1>5
  <2>2. 0 <= MaxEvents + 1
    BY BoundsAssumption
  <2> QED
    BY <1>1, <1>5, <2>1, <2>2 DEF SerialInv, OwnLink
<1> QED
  BY <1>1, <1>5, <1>6, <1>8, <1>9, <1>10, <1>11, ServerSerial

\* The next event of the reply, or its end.
LEMMA EmitSerial ==
  ASSUME TypeOK, SerialInv, Emit
  PROVE  SerialInv'
<1> SUFFICES ASSUME NEW k, k = running.turn, NEW n, n = emitted[k]
             PROVE  SerialInv'
  OBVIOUS
<1> DEFINE kind == IF n <= MaxEvents THEN IF n = 0 THEN "running" ELSE "delta" ELSE "completed"
           e == Event(k, kind, n)
<1>1. /\ k \in Turns /\ running.via = k /\ Runs(k) /\ turn[k] \notin {"new", "connecting"} /\ link[k].frames = <<>>
      /\ link[k].events \in Seq(Messages) /\ link \in [Turns -> Links] /\ \A i \in DOMAIN link[k].events : link[k].events[i].turn = k
      /\ n \in Nat /\ n <= MaxEvents + 1 /\ \A j \in Turns \ {k} : ~Runs(j)
  BY InFlight DEF Emit
<1>2. /\ UNCHANGED <<turn, consumer, source, gen, client, got, hub, ws, faults, abort>>
      /\ emitted' = [emitted EXCEPT ![k] = n + 1]
      /\ n <= MaxEvents => link' = ToClient(link, k, e) /\ UNCHANGED running
      /\ ~(n <= MaxEvents) => link' = [ToClient(link, k, e) EXCEPT ![k].terminal = TRUE] /\ running' = None
  BY <1>1 DEF Emit, requests, others
<1>3. emitted'[k] = n + 1 /\ \A j \in Turns \ {k} : emitted'[j] = emitted[j]
  BY <1>1, <1>2 DEF TypeOK
<1>4. /\ e \in Messages /\ e.turn = k /\ e.kind = kind /\ e.n = n /\ (kind = "running" <=> n = 0)
      /\ kind = "completed" => n = MaxEvents + 1
      /\ kind \in {"running", "delta", "completed"} /\ (n <= MaxEvents => kind \in {"running", "delta"})
  <2>1. kind \in {"running", "delta", "completed"} /\ (kind = "running" <=> n = 0) /\ (kind = "completed" => n = MaxEvents + 1)
        /\ (n <= MaxEvents => kind \in {"running", "delta"})
    BY <1>1, BoundsAssumption
  <2>2. Event(k, kind, n) \in Messages
    BY <1>1, <2>1, EventTypes
  <2> QED
    BY <2>1, <2>2 DEF Event
<1> HIDE DEF e, kind
<1>5. /\ link'[k].events = IF link[k].state \in {"open", "closing"} THEN Append(link[k].events, e) ELSE link[k].events
      /\ link'[k].frames = <<>> /\ link'[k].state = link[k].state
      /\ \A j \in Turns \ {k} : link'[j] = link[j]
  <2>1. link' = ToClient(link, k, e) \/ link' = [ToClient(link, k, e) EXCEPT ![k].terminal = TRUE]
    BY <1>2
  <2> QED
    BY <1>1, <1>4, <2>1, ToClientEffects
<1>6. \A i \in DOMAIN link'[k].events : link'[k].events[i].turn = k
  BY <1>1, <1>4, <1>5, StillOwn
<1>7. ASSUME Listening(k)
      PROVE  \E from \in {0, Reported(k) + 1} : OnTheWay(k, from)'
  <2>1. PICK from \in {0, Reported(k) + 1} : OnTheWay(k, from)
    BY <1>1, <1>7 DEF SerialInv, WholeSoFar
  <2>2. from \in Nat /\ (from = 0 => Reported(k) = 0) /\ Chain(link[k].events, from)
    <3>1. Reported(k) \in Nat
      <4>1. got[k] \in Seq(Reports) /\ hub.inbox[k] \in Seq(Reports \cup {End})
        BY <1>1 DEF TypeOK, Registries, Requests
      <4>2. Len(got[k]) \in Nat /\ Len(hub.inbox[k]) \in Nat
        BY <4>1, LenProperties
      <4>3. \A a, b \in Nat : a + b \in Nat
        OBVIOUS
      <4> QED
        BY <4>2, <4>3, Zenon DEF Reported
    <3> QED
      BY <2>1, <3>1 DEF OnTheWay
  <2>3. Reported(k)' = Reported(k)
    BY <1>2 DEF Reported
  <2>4. CASE link[k].state \in {"open", "closing"}
    <3>1. n = from + Len(link[k].events) /\ \A i \in DOMAIN link[k].events : link[k].events[i].kind \in {"running", "delta"}
      BY <1>1, <2>1, <2>4 DEF OnTheWay
    <3>2. Chain(Append(link[k].events, e), from)
      BY <1>1, <1>4, <2>2, <3>1, ChainGrows
    <3>3. /\ link'[k].events = Append(link[k].events, e)
          /\ Len(Append(link[k].events, e)) = Len(link[k].events) + 1
          /\ Len(link[k].events) \in Nat
      BY <1>1, <1>4, <1>5, <2>4, AppendProperties, LenProperties
    <3>4. Runs(k)' => n <= MaxEvents
      BY <1>2 DEF Runs
    <3>5. n <= MaxEvents => \A i \in DOMAIN link'[k].events : link'[k].events[i].kind \in {"running", "delta"}
      <4> DEFINE s == link[k].events
                 z == Append(s, e)
      <4>1. DOMAIN s = 1..Len(s) /\ DOMAIN z = 1..Len(z) /\ Len(z) = Len(s) + 1 /\ Len(s) \in Nat
            /\ (\A i \in 1..Len(s) : z[i] = s[i]) /\ z[Len(s) + 1] = e
        BY <1>1, <1>4, AppendProperties, LenProperties
      <4> HIDE DEF s, z
      <4>2. \A i \in DOMAIN z : i \in DOMAIN s \/ i = Len(s) + 1
        BY <4>1
      <4>3. \A i \in DOMAIN s : s[i].kind \in {"running", "delta"}
        BY <3>1 DEF s
      <4>4. link'[k].events = z
        BY <3>3 DEF z, s
      <4> QED
        BY <1>4, <4>1, <4>2, <4>3, <4>4
    <3>6. emitted'[k] = from + Len(link'[k].events)
      <4>1. PICK m : m = Len(link[k].events) /\ m \in Nat
        BY <3>3
      <4>2. Len(link'[k].events) = m + 1 /\ emitted'[k] = (from + m) + 1
        BY <1>3, <3>1, <3>3, <4>1
      <4> QED
        BY <2>2, <4>1, <4>2
    <3>7. OnTheWay(k, from)'
      BY <2>2, <2>3, <3>2, <3>3, <3>4, <3>5, <3>6 DEF OnTheWay
    <3> QED
      BY <2>1, <3>7
  <2>5. CASE link[k].state \notin {"open", "closing"}
    <3>1. OnTheWay(k, from)'
      BY <1>5, <2>2, <2>3, <2>5 DEF OnTheWay
    <3> QED
      BY <2>1, <3>1
  <2> QED
    BY <2>4, <2>5
<1>8. running' # None => running'.via = running'.turn /\ emitted'[running'.turn] <= MaxEvents + 1
  <2> SUFFICES ASSUME running' # None
               PROVE  running'.via = running'.turn /\ emitted'[running'.turn] <= MaxEvents + 1
    OBVIOUS
  <2>1. n <= MaxEvents /\ running' = running
    BY <1>2
  <2>2. running'.via = k /\ running'.turn = k
    BY <1>1, <2>1
  <2>3. n + 1 <= MaxEvents + 1
    BY <1>1, <2>1, BoundsAssumption
  <2> QED
    BY <1>3, <2>2, <2>3
<1>9. \A j \in Turns \ {k} : link'[j] = link[j] /\ emitted'[j] = emitted[j] /\ (Runs(j)' => Runs(j))
  BY <1>2, <1>3, <1>5 DEF Runs
<1>10. faults' = faults /\ UNCHANGED abort /\ UNCHANGED <<turn, consumer, source, gen, client, got, hub, ws>>
  BY <1>2
<1> QED
  BY <1>1, <1>5, <1>6, <1>7, <1>8, <1>9, <1>10, ServerSerial

\* The turn in flight ends otherwise: an error, or the answer to an abort.
LEMMA ServerEndsSerial ==
  ASSUME TypeOK, SerialInv, running # None, running' = None, NEW k, k = running.turn,
         NEW e \in Messages, e.turn = k, e.kind \in {"error", "idle"},
         link' = ToClient(link, k, e) \/ link' = [ToClient(link, k, e) EXCEPT ![k].terminal = TRUE],
         UNCHANGED <<turn, consumer, source, gen, client, got, hub, ws, emitted>>, faults' = faults + 1
  PROVE  SerialInv'
<1>1. /\ k \in Turns /\ running.via = k /\ Runs(k) /\ turn[k] \notin {"new", "connecting"} /\ link[k].frames = <<>>
      /\ link[k].events \in Seq(Messages) /\ link \in [Turns -> Links] /\ \A i \in DOMAIN link[k].events : link[k].events[i].turn = k
  BY InFlight
<1>2. /\ link'[k].events = IF link[k].state \in {"open", "closing"} THEN Append(link[k].events, e) ELSE link[k].events
      /\ link'[k].frames = <<>> /\ link'[k].state = link[k].state
      /\ \A j \in Turns \ {k} : link'[j] = link[j]
  BY <1>1, ToClientEffects
<1>3. \A i \in DOMAIN link'[k].events : link'[k].events[i].turn = k
  BY <1>1, <1>2, StillOwn
<1>4. \A j \in Turns : ~Runs(j)'
  BY DEF Runs
<1>5. ASSUME Listening(k)
      PROVE  \E from \in {0, Reported(k) + 1} : OnTheWay(k, from)'
  <2>1. PICK from \in {0, Reported(k) + 1} : OnTheWay(k, from)
    BY <1>1, <1>5 DEF SerialInv, WholeSoFar
  <2>2. from \in Nat
    <3>1. got[k] \in Seq(Reports) /\ hub.inbox[k] \in Seq(Reports \cup {End})
      BY <1>1 DEF TypeOK, Registries, Requests
    <3>2. Len(got[k]) \in Nat /\ Len(hub.inbox[k]) \in Nat
      BY <3>1, LenProperties
    <3>3. \A a, b \in Nat : a + b \in Nat
      OBVIOUS
    <3>4. Reported(k) \in Nat
      BY <3>2, <3>3, Zenon DEF Reported
    <3> QED
      BY <2>1, <3>4
  <2>3. Chain(link'[k].events, from)
    <3>1. Chain(link[k].events, from)
          /\ (link[k].state \in {"open", "closing"} => \A i \in DOMAIN link[k].events : link[k].events[i].kind \in {"running", "delta"})
      BY <1>1, <2>1 DEF OnTheWay
    <3>2. link[k].state \in {"open", "closing"} => Chain(Append(link[k].events, e), from)
      BY <1>1, <2>2, <3>1, ChainGrows
    <3> QED
      BY <1>2, <3>1, <3>2
  <2>4. Reported(k)' = Reported(k)
    BY DEF Reported
  <2>5. OnTheWay(k, from)'
    BY <1>1, <1>4, <2>1, <2>3, <2>4 DEF OnTheWay
  <2> QED
    BY <2>1, <2>5
<1>6. \A j \in Turns \ {k} : link'[j] = link[j] /\ emitted'[j] = emitted[j] /\ (Runs(j)' => Runs(j))
  BY <1>2, <1>4
<1> QED
  BY <1>1, <1>2, <1>3, <1>5, <1>6, ServerSerial

LEMMA EmitErrorSerial ==
  ASSUME TypeOK, SerialInv, EmitError
  PROVE  SerialInv'
<1> SUFFICES ASSUME NEW k, k = running.turn
             PROVE  SerialInv'
  OBVIOUS
<1>1. k \in Turns /\ running.via = k /\ running # None
  BY InFlight DEF EmitError
<1> DEFINE e == Event(k, "error", 0)
<1>2. e \in Messages /\ e.turn = k /\ e.kind = "error"
  BY <1>1, EventTypes DEF Event
<1>3. /\ link' = [ToClient(link, k, e) EXCEPT ![k].terminal = TRUE] /\ running' = None
      /\ UNCHANGED <<turn, consumer, source, gen, client, got, hub, ws, emitted>> /\ faults' = faults + 1
  BY <1>1 DEF EmitError, Faulty, requests
<1> HIDE DEF e
<1> QED
  BY <1>1, <1>2, <1>3, ServerEndsSerial

LEMMA AbortedSerial ==
  ASSUME TypeOK, SerialInv, NEW a \in Aborts, Aborting(a)
  PROVE  SerialInv'
<1>1. CASE AbortRemote(a) /\ running # None /\ running' = None /\ link' = ToClient(link, running.via, Event(running.turn, "idle", 0))
  <2> SUFFICES ASSUME NEW k, k = running.turn
               PROVE  SerialInv'
    OBVIOUS
  <2>1. k \in Turns /\ running.via = k /\ running # None
    BY <1>1, InFlight
  <2> DEFINE e == Event(k, "idle", 0)
  <2>2. e \in Messages /\ e.turn = k /\ e.kind = "idle"
    BY <2>1, EventTypes DEF Event
  <2>3. /\ link' = ToClient(link, k, e)
        /\ UNCHANGED <<turn, consumer, source, gen, client, got, hub, ws, emitted>> /\ faults' = faults + 1
    BY <1>1, <2>1 DEF AbortRemote, Faulty, requests
  <2> HIDE DEF e
  <2> QED
    BY <1>1, <2>1, <2>2, <2>3, ServerEndsSerial
<1>2. CASE AbortRemote(a) /\ UNCHANGED <<running, link>>
  BY <1>2, AbortSerial
<1>3. CASE AbortLocally(a) \/ AbortClosed(a)
  BY <1>3, AbortSerial
<1>4. AbortRemote(a) => \/ UNCHANGED <<running, link>>
                        \/ running # None /\ running' = None /\ link' = ToClient(link, running.via, Event(running.turn, "idle", 0))
  BY DEF AbortRemote
<1> QED
  BY <1>1, <1>2, <1>3, <1>4 DEF Aborting

\* What a caller reads moves from its queue; the sentinel is the end.
LEMMA Taken ==
  ASSUME TypeOK, SerialInv, NEW t \in Turns, Take(t)
  PROVE  /\ turn[t] = "reading" /\ hub.inbox[t] # <<>>
         /\ got[t] \in Seq(Reports) /\ hub.inbox[t] \in Seq(Reports \cup {End})
         /\ hub'.gen = hub.gen /\ hub'.subs = hub.subs
         /\ hub'.inbox[t] = Tail(hub.inbox[t]) /\ \A u \in Turns \ {t} : hub'.inbox[u] = hub.inbox[u]
         /\ \/ /\ Head(hub.inbox[t]) = End
               /\ turn' = [turn EXCEPT ![t] = "ended"] /\ UNCHANGED got
            \/ /\ Head(hub.inbox[t]) # End /\ UNCHANGED turn
               /\ got'[t] = Append(got[t], Head(hub.inbox[t])) /\ \A u \in Turns \ {t} : got'[u] = got[u]
         /\ UNCHANGED <<gen, client, consumer, source, ws, link, running, emitted, faults, abort>>
<1>1. turn[t] = "reading" /\ hub.inbox[t] # <<>> /\ hub' = [hub EXCEPT !.inbox[t] = Tail(@)]
      /\ UNCHANGED <<gen, client, consumer, source, ws, link, running, emitted, faults, abort>>
  BY DEF Take, Reading, server
<1>2. hub \in Registries /\ t \in Requests /\ got \in [Requests -> Seq(Reports)] /\ \A u \in Turns : u \in Requests
  BY DEF TypeOK, Requests
<1>3. hub'.gen = hub.gen /\ hub'.subs = hub.subs /\ hub'.inbox = [hub.inbox EXCEPT ![t] = Tail(@)]
  BY <1>1, <1>2 DEF Registries
<1>4. hub'.inbox[t] = Tail(hub.inbox[t]) /\ \A u \in Turns \ {t} : hub'.inbox[u] = hub.inbox[u]
  BY <1>2, <1>3 DEF Registries
<1>5. got[t] \in Seq(Reports) /\ hub.inbox[t] \in Seq(Reports \cup {End})
  BY <1>2 DEF Registries
<1>6. CASE Head(hub.inbox[t]) = End
  BY <1>1, <1>3, <1>4, <1>5, <1>6 DEF Take, SetRequest
<1>7. CASE Head(hub.inbox[t]) # End
  <2>1. got' = [got EXCEPT ![t] = Append(@, Head(hub.inbox[t]))] /\ UNCHANGED turn
    BY <1>7 DEF Take
  <2>2. got'[t] = Append(got[t], Head(hub.inbox[t])) /\ \A u \in Turns \ {t} : got'[u] = got[u]
    BY <1>2, <2>1
  <2> QED
    BY <1>1, <1>3, <1>4, <1>5, <1>7, <2>1, <2>2
<1> QED
  BY <1>6, <1>7

LEMMA TakeSerial ==
  ASSUME TypeOK, SerialInv, NEW t \in Turns, Take(t)
  PROVE  SerialInv'
<1> DEFINE q == hub.inbox[t]
           S == Reports \cup {End}
<1>1. /\ turn[t] = "reading" /\ q # <<>> /\ got[t] \in Seq(Reports) /\ q \in Seq(S)
      /\ hub'.gen = hub.gen /\ hub'.subs = hub.subs
      /\ hub'.inbox[t] = Tail(q) /\ \A u \in Turns \ {t} : hub'.inbox[u] = hub.inbox[u]
      /\ UNCHANGED <<gen, client, consumer, source, ws, link, running, emitted, faults, abort>>
  BY Taken
<1>2. PICK n \in 0..Len(q) : Cut(q, n)
  BY DEF SerialInv, OwnQueue
<1>3. Len(q) \in Nat \ {0} /\ Len(Tail(q)) = Len(q) - 1 /\ Len(got[t]) \in Nat
  <2>1. Len(q) \in Nat /\ Len(q) # 0 /\ Len(Tail(q)) = Len(q) - 1 /\ Len(got[t]) \in Nat
    BY <1>1, LenProperties, EmptySeq, HeadTailProperties
  <2> QED
    BY <2>1
<1>4. /\ Head(q) = End => n = 0 /\ Cut(Tail(q), 0)
      /\ Head(q) # End => n \in Nat \ {0} /\ Cut(Tail(q), n - 1)
  BY <1>1, <1>2, CutTail
<1>5. /\ consumer[t] # "none" /\ (consumer[t] \in Alive => t \in hub.subs /\ n = Len(q))
      /\ (t \in hub.subs => consumer[t] \in Alive)
  <2>1. consumer[t] # "none" /\ (consumer[t] \in Alive => t \in hub.subs /\ Cut(q, Len(q))) /\ (t \in hub.subs => consumer[t] \in Alive)
    BY <1>1 DEF SerialInv, OwnQueue
  <2> QED
    BY <1>2, <1>3, <2>1, CutUnique
<1>6. \A u \in Turns \ {t} : (Explained(Pushed(u))' <=> Explained(Pushed(u))) /\ Reported(u)' = Reported(u)
  <2>1. \A u \in Turns \ {t} : got'[u] = got[u] /\ hub'.inbox[u] = hub.inbox[u]
    BY Taken
  <2> QED
    BY <2>1 DEF Explained, Pushed, Reported
<1>7. \A u \in Turns : Runs(u)' <=> Runs(u)
  BY <1>1 DEF Runs
<1> HIDE DEF q
<1>8. CASE Head(q) = End
  <2>1. turn' = [turn EXCEPT ![t] = "ended"] /\ UNCHANGED got
    BY <1>8, Taken DEF q
  <2>2. turn'[t] = "ended" /\ \A u \in Turns \ {t} : turn'[u] = turn[u]
    BY <2>1 DEF TypeOK
  <2>3. consumer[t] \notin Alive /\ t \notin hub.subs
    BY <1>3, <1>4, <1>5, <1>8
  <2>4. OneAtATime'
    BY <1>1, <2>2 DEF SerialInv, OneAtATime, Active
  <2>5. OwnQueue'
    <3> SUFFICES ASSUME NEW u \in Turns
                 PROVE  /\ turn'[u] \in Unread => consumer[u] = "none" /\ got[u] = <<>> /\ hub'.inbox[u] = <<>>
                        /\ turn'[u] \in {"reading", "ended", "left"} => consumer[u] # "none"
                        /\ u \in hub.subs => turn'[u] = "reading" /\ consumer[u] \in Alive
                        /\ turn'[u] = "reading" /\ consumer[u] \in Alive => u \in hub.subs /\ Cut(hub'.inbox[u], Len(hub'.inbox[u]))
                        /\ turn'[u] = "ended" => consumer[u] \notin Alive /\ Cut(hub'.inbox[u], 0)
                        /\ \E m \in 0..Len(hub'.inbox[u]) : Cut(hub'.inbox[u], m)
      BY <1>1, <2>1 DEF OwnQueue
    <3>1. CASE u = t
      <4>1. 0 \in 0..Len(Tail(q))
        BY <1>3
      <4> QED
        BY <1>1, <1>4, <1>5, <1>8, <2>2, <2>3, <3>1, <4>1 DEF Unread
    <3>2. CASE u # t
      BY <1>1, <2>2, <3>2 DEF SerialInv, OwnQueue
    <3> QED
      BY <3>1, <3>2
  <2>6. OwnStream'
    BY <1>1, <2>2 DEF SerialInv, OwnStream
  <2>7. OwnLink'
    <3>1. \A u \in Turns : (turn'[u] = "sending" => turn[u] = "sending") /\ (turn'[u] \in {"new", "connecting"} => turn[u] \in {"new", "connecting"})
      BY <2>2
    <3> QED
      BY <1>1, <1>7, <3>1 DEF SerialInv, OwnLink
  <2>8. \A u \in Turns : Listening(u)' => u # t /\ Listening(u)
    BY <1>1, <2>2 DEF Listening
  <2>9. WholeSoFar'
    <3> SUFFICES ASSUME NEW u \in Turns, Listening(u)'
                 PROVE  /\ \A i \in DOMAIN (got'[u] \o hub'.inbox[u]) : (got'[u] \o hub'.inbox[u])[i] = Event(u, "delta", i)
                        /\ link'[u].frames # <<>> => Reported(u)' = 0
                        /\ \E from \in {0, Reported(u)' + 1} : OnTheWay(u, from)'
      BY DEF WholeSoFar
    <3>1. u # t /\ Listening(u) /\ Reported(u)' = Reported(u) /\ got'[u] = got[u] /\ hub'.inbox[u] = hub.inbox[u] /\ link'[u] = link[u]
      BY <1>1, <1>6, <2>1, <2>8
    <3>2. /\ \A i \in DOMAIN (got[u] \o hub.inbox[u]) : (got[u] \o hub.inbox[u])[i] = Event(u, "delta", i)
          /\ link[u].frames # <<>> => Reported(u) = 0
      BY <3>1 DEF SerialInv, WholeSoFar
    <3>3. PICK from \in {0, Reported(u) + 1} : OnTheWay(u, from)
      BY <3>1 DEF SerialInv, WholeSoFar
    <3>4. OnTheWay(u, from)'
      BY <1>1, <1>7, <3>1, <3>3 DEF OnTheWay
    <3> QED
      BY <3>1, <3>2, <3>3, <3>4
  <2>10. Undisturbed'
    <3>1. ~Listening(t)
      BY <1>1, <2>3 DEF Listening, Alive
    <3>2. Explained(Pushed(t))' <=> Explained(Pushed(t))
      <4>1. BeforeEnd(q) = SubSeq(q, 1, 0) /\ BeforeEnd(Tail(q)) = SubSeq(Tail(q), 1, 0)
        <5>1. Tail(q) \in Seq(S)
          BY <1>1, HeadTailProperties
        <5> QED
          BY <1>1, <1>2, <1>4, <1>8, <5>1, BeforeEndCuts
      <4>2. SubSeq(q, 1, 0) = <<>> /\ SubSeq(Tail(q), 1, 0) = <<>>
        BY SubSeqEmpty
      <4>3. Pushed(t)' = Pushed(t)
        BY <1>1, <2>1, <4>1, <4>2 DEF Pushed, q
      <4> QED
        BY <4>3 DEF Explained
    <3>3. \A u \in Turns \ {t} : Listening(u)' <=> Listening(u)
      BY <1>1, <2>2 DEF Listening
    <3> QED
      BY <1>1, <1>6, <2>2, <3>1, <3>2, <3>3 DEF SerialInv, Undisturbed
  <2>11. faults' \in Nat
    BY <1>1 DEF SerialInv
  <2> QED
    BY <2>4, <2>5, <2>6, <2>7, <2>9, <2>10, <2>11 DEF SerialInv
<1>9. CASE Head(q) # End
  <2>1. UNCHANGED turn /\ got'[t] = Append(got[t], Head(q)) /\ \A u \in Turns \ {t} : got'[u] = got[u]
    BY <1>9, Taken DEF q
  <2>2. n \in Nat \ {0} /\ Cut(Tail(q), n - 1) /\ n <= Len(q)
    BY <1>2, <1>4, <1>9
  <2>3. OneAtATime'
    BY <1>1, <2>1 DEF SerialInv, OneAtATime, Active
  <2>4. OwnQueue'
    <3> SUFFICES ASSUME NEW u \in Turns
                 PROVE  /\ turn[u] \in Unread => consumer[u] = "none" /\ got'[u] = <<>> /\ hub'.inbox[u] = <<>>
                        /\ turn[u] \in {"reading", "ended", "left"} => consumer[u] # "none"
                        /\ u \in hub.subs => turn[u] = "reading" /\ consumer[u] \in Alive
                        /\ turn[u] = "reading" /\ consumer[u] \in Alive => u \in hub.subs /\ Cut(hub'.inbox[u], Len(hub'.inbox[u]))
                        /\ turn[u] = "ended" => consumer[u] \notin Alive /\ Cut(hub'.inbox[u], 0)
                        /\ \E m \in 0..Len(hub'.inbox[u]) : Cut(hub'.inbox[u], m)
      BY <1>1, <2>1 DEF OwnQueue
    <3>1. CASE u = t
      <4>1. n - 1 \in 0..Len(Tail(q)) /\ (n = Len(q) => n - 1 = Len(Tail(q)))
        <5>1. PICK a : a = Len(q) /\ a \in Nat /\ Len(Tail(q)) = a - 1
          BY <1>3
        <5>2. n - 1 \in 0..(a - 1) /\ (n = a => n - 1 = a - 1)
          BY <2>2, <5>1
        <5> QED
          BY <5>1, <5>2
      <4>2. consumer[t] \in Alive => Cut(Tail(q), Len(Tail(q)))
        BY <1>5, <2>2, <4>1
      <4> QED
        BY <1>1, <1>5, <2>2, <3>1, <4>1, <4>2 DEF Unread
    <3>2. CASE u # t
      BY <1>1, <2>1, <3>2 DEF SerialInv, OwnQueue
    <3> QED
      BY <3>1, <3>2
  <2>5. OwnStream'
    BY <1>1, <2>1 DEF SerialInv, OwnStream
  <2>6. OwnLink'
    BY <1>1, <1>7, <2>1 DEF SerialInv, OwnLink
  <2>7. \A u \in Turns : Listening(u)' <=> Listening(u)
    BY <1>1, <2>1 DEF Listening
  <2>8. Reported(t)' = Reported(t)
    <3>1. Len(Append(got[t], Head(q))) = Len(got[t]) + 1
      BY <1>1
    <3>2. PICK a, b \in Nat : a = Len(got[t]) /\ b = Len(q)
      BY <1>3
    <3>3. a + b = (a + 1) + (b - 1)
      OBVIOUS
    <3>4. Reported(t)' = (a + 1) + (b - 1)
      BY <1>1, <1>3, <2>1, <3>1, <3>2 DEF Reported
    <3> QED
      BY <3>2, <3>3, <3>4 DEF Reported, q
  <2>9. WholeSoFar'
    <3> SUFFICES ASSUME NEW u \in Turns, Listening(u)'
                 PROVE  /\ \A i \in DOMAIN (got'[u] \o hub'.inbox[u]) : (got'[u] \o hub'.inbox[u])[i] = Event(u, "delta", i)
                        /\ link'[u].frames # <<>> => Reported(u)' = 0
                        /\ \E from \in {0, Reported(u)' + 1} : OnTheWay(u, from)'
      BY DEF WholeSoFar
    <3>1. Listening(u) /\ Reported(u)' = Reported(u) /\ link'[u] = link[u]
      BY <1>1, <1>6, <2>7, <2>8
    <3>2. /\ \A i \in DOMAIN (got[u] \o hub.inbox[u]) : (got[u] \o hub.inbox[u])[i] = Event(u, "delta", i)
          /\ link[u].frames # <<>> => Reported(u) = 0
      BY <3>1 DEF SerialInv, WholeSoFar
    <3>3. PICK from \in {0, Reported(u) + 1} : OnTheWay(u, from)
      BY <3>1 DEF SerialInv, WholeSoFar
    <3>4. OnTheWay(u, from)'
      BY <1>1, <1>7, <3>1, <3>3 DEF OnTheWay
    <3>5. got'[u] \o hub'.inbox[u] = got[u] \o hub.inbox[u]
      <4>1. CASE u = t
        <5>1. got[t] \in Seq(S)
          BY <1>1, SeqMonotonic
        <5>2. Append(got[t], Head(q)) \o Tail(q) = got[t] \o q
          BY <1>1, <5>1, HeadMoves
        <5> QED
          BY <1>1, <2>1, <4>1, <5>2 DEF q
      <4>2. CASE u # t
        BY <1>1, <2>1, <4>2
      <4> QED
        BY <4>1, <4>2
    <3> QED
      BY <3>1, <3>2, <3>3, <3>4, <3>5
  <2>10. Undisturbed'
    <3>1. Explained(Pushed(t))' <=> Explained(Pushed(t))
      <4>1. Append(got[t], Head(q)) \o BeforeEnd(Tail(q)) = got[t] \o BeforeEnd(q)
        BY <1>1, <1>2, <1>9, TakenMoves
      <4>2. Pushed(t)' = Pushed(t)
        BY <1>1, <2>1, <4>1 DEF Pushed, q
      <4> QED
        BY <4>2 DEF Explained
    <3> QED
      BY <1>1, <1>6, <2>1, <2>7, <3>1 DEF SerialInv, Undisturbed
  <2>11. faults' \in Nat
    BY <1>1 DEF SerialInv
  <2> QED
    BY <2>3, <2>4, <2>5, <2>6, <2>9, <2>10, <2>11 DEF SerialInv
<1> QED
  BY <1>8, <1>9

\* A caller that goes away, and a service that stops.
LEMMA LeaveSerial ==
  ASSUME TypeOK, SerialInv, NEW t \in Turns, Leave(t)
  PROVE  SerialInv'
<1>1. /\ turn[t] = "reading" /\ turn' = [turn EXCEPT ![t] = "left"] /\ faults' = faults + 1 /\ hub' = Unsubscribe(hub, t)
      /\ UNCHANGED <<gen, client, consumer, source, got, ws, link, running, emitted>>
  BY DEF Leave, Reading, SetRequest, Faulty, server
<1>2. turn'[t] = "left" /\ \A u \in Turns \ {t} : turn'[u] = turn[u]
  BY <1>1 DEF TypeOK
<1>3. hub'.gen = hub.gen /\ hub'.subs = hub.subs \ {t} /\ \A u \in Turns : hub'.inbox[u] = hub.inbox[u]
  <2>1. hub \in Registries /\ \A u \in Turns : u \in Requests
    BY DEF TypeOK, Requests
  <2> QED
    BY <1>1, <2>1, HubEffects
<1>4. OneAtATime'
  BY <1>1, <1>2 DEF SerialInv, OneAtATime, Active
<1>5. OwnQueue'
  <2> SUFFICES ASSUME NEW u \in Turns
               PROVE  /\ turn'[u] \in Unread => consumer[u] = "none" /\ got[u] = <<>> /\ hub.inbox[u] = <<>>
                      /\ turn'[u] \in {"reading", "ended", "left"} => consumer[u] # "none"
                      /\ u \in hub.subs \ {t} => turn'[u] = "reading" /\ consumer[u] \in Alive
                      /\ turn'[u] = "reading" /\ consumer[u] \in Alive => u \in hub.subs \ {t} /\ Cut(hub.inbox[u], Len(hub.inbox[u]))
                      /\ turn'[u] = "ended" => consumer[u] \notin Alive /\ Cut(hub.inbox[u], 0)
                      /\ \E n \in 0..Len(hub.inbox[u]) : Cut(hub.inbox[u], n)
    BY <1>1, <1>3 DEF OwnQueue
  <2>1. CASE u = t
    BY <1>1, <1>2, <2>1 DEF SerialInv, OwnQueue, Unread
  <2>2. CASE u # t
    BY <1>2, <2>2 DEF SerialInv, OwnQueue
  <2> QED
    BY <2>1, <2>2
<1>6. OwnStream'
  BY <1>1, <1>2, <1>3 DEF SerialInv, OwnStream
<1>7. \A u \in Turns : Runs(u)' <=> Runs(u)
  BY <1>1 DEF Runs
<1>8. OwnLink'
  <2>1. \A u \in Turns : (turn'[u] = "sending" => turn[u] = "sending") /\ (turn'[u] \in {"new", "connecting"} => turn[u] \in {"new", "connecting"})
    BY <1>2
  <2> QED
    BY <1>1, <1>7, <2>1 DEF SerialInv, OwnLink
<1>9. WholeSoFar'
  <2> SUFFICES ASSUME NEW u \in Turns, Listening(u)'
               PROVE  /\ \A i \in DOMAIN (got'[u] \o hub'.inbox[u]) : (got'[u] \o hub'.inbox[u])[i] = Event(u, "delta", i)
                      /\ link'[u].frames # <<>> => Reported(u)' = 0
                      /\ \E from \in {0, Reported(u)' + 1} : OnTheWay(u, from)'
    BY DEF WholeSoFar
  <2>1. Listening(u) /\ Reported(u)' = Reported(u) /\ got'[u] = got[u] /\ hub'.inbox[u] = hub.inbox[u]
    BY <1>1, <1>2, <1>3 DEF Listening, Reported
  <2>2. /\ \A i \in DOMAIN (got[u] \o hub.inbox[u]) : (got[u] \o hub.inbox[u])[i] = Event(u, "delta", i)
        /\ link[u].frames # <<>> => Reported(u) = 0
    BY <2>1 DEF SerialInv, WholeSoFar
  <2>3. PICK from \in {0, Reported(u) + 1} : OnTheWay(u, from)
    BY <2>1 DEF SerialInv, WholeSoFar
  <2>4. OnTheWay(u, from)'
    BY <1>1, <1>7, <2>1, <2>3 DEF OnTheWay
  <2> QED
    BY <1>1, <2>1, <2>2, <2>3, <2>4
<1>10. faults' \in Nat /\ faults' # 0
  BY <1>1 DEF SerialInv
<1> QED
  BY <1>4, <1>5, <1>6, <1>8, <1>9, <1>10 DEF SerialInv, Undisturbed

LEMMA RestartSerial ==
  ASSUME TypeOK, SerialInv, Restart
  PROVE  SerialInv'
<1>1. /\ turn' = [t \in Turns |-> Lost(turn[t])] /\ hub' = EmptyHub /\ faults' = faults + 1
      /\ consumer' = [t \in Turns |-> IF consumer[t] = "none" THEN "none" ELSE "done"]
      /\ ws' = [c \in Clients |-> [conn |-> None, up |-> FALSE]]
      /\ link' = [k \in Turns |-> [link[k] EXCEPT !.state = IF @ \in {"open", "closing"} THEN "broken" ELSE @]]
      /\ UNCHANGED <<gen, client, source, got, running, emitted>>
  BY DEF Restart, Faulty, server
<1>2. \A t \in Turns : turn'[t] \in {"new", "lost"} /\ (turn'[t] = "new" => turn[t] = "new")
  BY <1>1 DEF Lost
<1>3. \A t \in Turns : consumer'[t] \in {"none", "done"} /\ (consumer[t] = "none" => consumer'[t] = "none")
  BY <1>1
<1>4. hub'.subs = {} /\ \A t \in Turns : hub'.inbox[t] = <<>>
  BY <1>1 DEF EmptyHub, Requests
<1>5. \A t \in Turns : link'[t].events = link[t].events /\ link'[t].frames = link[t].frames
  <2>1. \A x \in Links : /\ [x EXCEPT !.state = IF @ \in {"open", "closing"} THEN "broken" ELSE @].events = x.events
                         /\ [x EXCEPT !.state = IF @ \in {"open", "closing"} THEN "broken" ELSE @].frames = x.frames
    BY DEF Links
  <2> QED
    BY <1>1, <2>1 DEF TypeOK
<1>6. OneAtATime'
  BY <1>2, <1>3 DEF OneAtATime, Active
<1>7. OwnQueue'
  <2>1. \E n \in 0..Len(<<>>) : Cut(<<>>, n)
    BY EmptyCut DEF Cut
  <2>2. \A t \in Turns : turn'[t] \in Unread => consumer'[t] = "none" /\ got'[t] = <<>>
    <3>1. \A t \in Turns : turn[t] = "new" => consumer[t] = "none" /\ got[t] = <<>>
      BY DEF SerialInv, OwnQueue, Unread
    <3>2. \A t \in Turns : turn'[t] \in Unread => turn[t] = "new"
      BY <1>2 DEF Unread
    <3> QED
      BY <1>1, <1>3, <3>1, <3>2
  <2>3. \A t \in Turns : turn'[t] \notin {"reading", "ended", "left"}
    BY <1>2
  <2> QED
    BY <1>4, <2>1, <2>2, <2>3 DEF OwnQueue
<1>8. OwnStream'
  BY <1>2, <1>3 DEF OwnStream, Alive
<1>9. OwnLink'
  <2>1. \A t \in Turns : Runs(t)' <=> Runs(t)
    BY <1>1 DEF Runs
  <2>2. \A t \in Turns : /\ ~(turn'[t] = "sending" \/ consumer'[t] \notin {"none", "done"}) /\ consumer'[t] \notin {"waiting", "yielded"}
                         /\ turn'[t] \in {"new", "connecting"} => turn[t] = "new"
    BY <1>2, <1>3
  <2>3. /\ running # None => running.via = running.turn /\ emitted[running.turn] <= MaxEvents + 1
        /\ \A t \in Turns :
             /\ link[t].frames \in {<<>>, <<t>>}
             /\ turn[t] = "new" => link[t].frames = <<>>
             /\ turn[t] = "new" \/ link[t].frames # <<>> => link[t].events = <<>> /\ emitted[t] = 0 /\ ~Runs(t)
             /\ \A i \in DOMAIN link[t].events : link[t].events[i].turn = t
    BY DEF SerialInv, OwnLink
  <2> QED
    BY <1>1, <1>5, <2>1, <2>2, <2>3 DEF OwnLink
<1>10. WholeSoFar'
  BY <1>2, <1>3 DEF WholeSoFar, Listening
<1>11. faults' \in Nat /\ faults' # 0
  BY <1>1 DEF SerialInv
<1> QED
  BY <1>6, <1>7, <1>8, <1>9, <1>10, <1>11 DEF SerialInv, Undisturbed

LEMMA InitSerial == Init => SerialInv
<1> SUFFICES ASSUME Init
             PROVE  SerialInv
  OBVIOUS
<1>1. \A t \in Turns : turn[t] = "new" /\ consumer[t] = "none" /\ got[t] = <<>> /\ hub.inbox[t] = <<>> /\ emitted[t] = 0
  BY DEF Init, EmptyHub, Requests
<1>2. hub.subs = {} /\ running = None /\ faults = 0 /\ \A a \in Aborts : abort[a] = "new"
  BY DEF Init, EmptyHub
<1>3. \A k \in Turns : link[k].state = "none" /\ link[k].events = <<>> /\ link[k].frames = <<>>
  BY DEF Init
<1>4. OneAtATime
  BY <1>1 DEF OneAtATime, Active
<1>5. OwnQueue
  <2>1. \E n \in 0..Len(<<>>) : Cut(<<>>, n)
    BY EmptyCut DEF Cut
  <2> QED
    BY <1>1, <1>2, <2>1 DEF OwnQueue
<1>6. OwnStream
  BY <1>1 DEF OwnStream, Alive
<1>7. OwnLink
  <2>1. DOMAIN <<>> = {}
    OBVIOUS
  <2> QED
    BY <1>1, <1>2, <1>3, <2>1 DEF OwnLink, Runs
<1>8. WholeSoFar /\ Undisturbed
  BY <1>1, <1>2, <1>3 DEF WholeSoFar, Undisturbed, Listening
<1> QED
  BY <1>2, <1>4, <1>5, <1>6, <1>7, <1>8 DEF SerialInv

LEMMA StutterSerial ==
  ASSUME TypeOK, SerialInv, UNCHANGED vars
  PROVE  SerialInv'
<1>1. UNCHANGED <<turn, consumer, source, gen, emitted, client, got, hub, ws, link, running, faults, abort>>
  BY DEF vars, requests, others, server
<1> QED
  BY <1>1, QuietStep

LEMMA NextSerial ==
  ASSUME Serial, TypeOK, SerialInv, [Next]_vars
  PROVE  SerialInv'
<1>1. ASSUME NEW t \in Turns, Request(t) \/ Handing(t) \/ CallFails(t) \/ Consume(t)
      PROVE  SerialInv'
  BY <1>1, RequestSerial, ConnectedSerial, HandOverSerial, CallFailsSerial, ConsumeSerial DEF Handing
<1>2. ASSUME NEW q \in Requests, Take(q) \/ Leave(q)
      PROVE  SerialInv'
  BY <1>2, TakeSerial, LeaveSerial, ReadersSerial DEF Requests
<1>3. ASSUME NEW r \in Readers, Reconnect(r) \/ Replay(r)
      PROVE  SerialInv'
  BY <1>3, ReadersSerial
<1>4. ASSUME NEW k \in Turns, Serve(k) \/ Break(k)
      PROVE  SerialInv'
  BY <1>4, ConnectionSerial, DispatchSerial DEF Serve
<1> QED
  BY <1>1, <1>2, <1>3, <1>4, AbortedSerial, EmitSerial, EmitErrorSerial, RestartSerial, StutterSerial DEF Next

LEMMA SerialIsInvariant ==
  ASSUME Serial
  PROVE  Spec => [](TypeOK /\ SerialInv)
<1>1. TypeOK /\ SerialInv /\ [Next]_vars => SerialInv'
  BY NextSerial
<1> QED
  BY <1>1, InitSerial, StreamsAreTyped, PTL DEF Spec

\* How much of its reply a turn's caller has, and where the turn stands.
Kept(t) == Phase(t)' = Phase(t) /\ Pushed(t)' = Pushed(t) /\ Len(got'[t]) = Len(got[t])

LEMMA RepliesKept ==
  ASSUME \A t \in Turns : Kept(t)
  PROVE  UNCHANGED Reply!vars
BY DEF Kept, Reply!vars

LEMMA ReplyOpens ==
  ASSUME NEW t \in Turns, \A u \in Turns \ {t} : Kept(u),
         Phase(t) = "none", Phase(t)' = "open", Pushed(t)' = Pushed(t), Len(got'[t]) = Len(got[t])
  PROVE  Reply!Next
<1>1. Reply!Open(t)
  BY DEF Kept, Reply!Open
<1> QED
  BY <1>1 DEF Reply!Next

LEMMA ReplyFinishes ==
  ASSUME NEW t \in Turns, \A u \in Turns \ {t} : Kept(u),
         Phase(t) = "open", Phase(t)' = "finished", Pushed(t)' = Pushed(t), Len(got'[t]) = Len(got[t])
  PROVE  Reply!Next
<1>1. Reply!Finish(t)
  BY DEF Kept, Reply!Finish
<1> QED
  BY <1>1 DEF Reply!Next

LEMMA ReplyDelivers ==
  ASSUME NEW t \in Turns, \A u \in Turns \ {t} : Kept(u),
         Phase(t) \in {"open", "finished"}, Phase(t)' = Phase(t), Pushed(t)' = Pushed(t),
         Len(got[t]) < Len(Pushed(t)), Len(got'[t]) = Len(got[t]) + 1
  PROVE  Reply!Next
<1>1. Reply!Deliver(t)
  BY DEF Kept, Reply!Deliver
<1> QED
  BY <1>1 DEF Reply!Next

LEMMA ReplyCloses ==
  ASSUME NEW t \in Turns, \A u \in Turns \ {t} : Kept(u),
         Phase(t) = "finished", Phase(t)' = "closed", Pushed(t)' = Pushed(t),
         Len(got[t]) = Len(Pushed(t)), Len(got'[t]) = Len(got[t])
  PROVE  Reply!Next
<1>1. Reply!Close(t)
  BY DEF Kept, Reply!Close
<1> QED
  BY <1>1 DEF Reply!Next

LEMMA ReplyGrows ==
  ASSUME NEW t \in Turns, \A u \in Turns \ {t} : Kept(u),
         Phase(t) = "open", Phase(t)' \in {"open", "finished"}, Len(got'[t]) = Len(got[t]),
         NEW S, Pushed(t) \in Seq(S), NEW e \in S, Pushed(t)' = Append(Pushed(t), e),
         e.turn = t, \A i \in DOMAIN Pushed(t) : Pushed(t)[i].kind = "delta",
         e.kind \in {"delta", "completed"} => e.n = Len(Pushed(t)) + 1
  PROVE  Reply!Next
<1>1. Reply!Produce(t)
  <2>1. Len(Pushed(t)') = Len(Pushed(t)) + 1 /\ Pushed(t)'[Len(Pushed(t)) + 1] = e
    BY AppendProperties
  <2> QED
    BY <2>1 DEF Kept, Reply!Produce, Reply!Follows, Reply!Terminal
<1> QED
  BY <1>1 DEF Reply!Next

LEMMA RepliesAbandoned ==
  ASSUME \A t \in Turns : \/ Kept(t)
                          \/ Phase(t)' = "abandoned" /\ Len(got'[t]) = Len(got[t])
  PROVE  [Reply!Next]_Reply!vars
<1> DEFINE S == {t \in Turns : Phase(t) # "abandoned" /\ Phase(t)' = "abandoned"}
<1>1. S \in SUBSET {t \in Turns : Phase(t) # "abandoned"}
  OBVIOUS
<1>2. \A t \in Turns : Phase(t)' = IF t \in S THEN "abandoned" ELSE Phase(t)
  BY DEF Kept
<1>3. \A t \in Turns : Phase(t)' # "abandoned" => Pushed(t)' = Pushed(t)
  BY DEF Kept
<1>4. \A t \in Turns : Len(got'[t]) = Len(got[t])
  BY DEF Kept
<1> HIDE DEF S
<1>5. \A t \in Turns : [u \in Turns |-> Phase(u)][t] = Phase(t)
  OBVIOUS
<1>6. S \in SUBSET {t \in Turns : [u \in Turns |-> Phase(u)][t] # "abandoned"}
  BY <1>1, <1>5
<1>7. [t \in Turns |-> Phase(t)]' = [t \in Turns |-> IF t \in S THEN "abandoned" ELSE [u \in Turns |-> Phase(u)][t]]
  BY <1>2
<1>8. Reply!Abandon
  BY <1>3, <1>4, <1>6, <1>7 DEF Reply!Abandon
<1> QED
  BY <1>8 DEF Reply!Next

\* A turn whose caller and queue a step leaves alone.
LEMMA QuietKeeps ==
  ASSUME NEW t \in Turns, turn'[t] = turn[t] \/ (turn[t] \in Unread /\ turn'[t] \in Unread),
         got'[t] = got[t], hub'.inbox[t] = hub.inbox[t]
  PROVE  Kept(t)
<1>1. Phase(t)' = Phase(t)
  <2>1. CASE turn'[t] = turn[t]
    BY <2>1 DEF Phase
  <2>2. CASE turn[t] \in Unread /\ turn'[t] \in Unread
    BY <2>2 DEF Phase, Unread
  <2> QED
    BY <2>1, <2>2
<1> QED
  BY <1>1 DEF Kept, Pushed

\* What a living consumer has pushed so far.
LEMMA SoFar ==
  ASSUME TypeOK, SerialInv, NEW t \in Turns, consumer[t] \in Alive, turn[t] = "reading"
  PROVE  /\ Phase(t) = "open" /\ t \in hub.subs
         /\ Pushed(t) \in Seq(Reports \cup {End}) /\ Len(Pushed(t)) = Reported(t)
         /\ Listening(t) => \A i \in DOMAIN Pushed(t) : Pushed(t)[i].kind = "delta"
<1> DEFINE S == Reports \cup {End}
           q == hub.inbox[t]
           g == got[t]
<1>1. t \in hub.subs /\ Cut(q, Len(q))
  BY DEF SerialInv, OwnQueue
<1>2. q \in Seq(S) /\ g \in Seq(S)
  <2>1. q \in Seq(S) /\ g \in Seq(Reports)
    BY DEF TypeOK, Registries, Requests
  <2> QED
    BY <2>1, SeqMonotonic
<1>3. Pushed(t) = g \o q
  BY <1>1, <1>2, NoEnd DEF Pushed
<1>4. \A i \in DOMAIN q : q[i] # End
  <2>1. DOMAIN q = 1..Len(q)
    BY <1>2, LenProperties
  <2> QED
    BY <1>1, <2>1 DEF Cut
<1>5. Phase(t) = "open"
  BY <1>4 DEF Phase, ToSet
<1>6. Listening(t) => \A i \in DOMAIN (g \o q) : (g \o q)[i].kind = "delta"
  <2>1. Listening(t) => \A i \in DOMAIN (g \o q) : (g \o q)[i] = Event(t, "delta", i)
    BY DEF SerialInv, WholeSoFar
  <2>2. \A i : Event(t, "delta", i).kind = "delta"
    BY DEF Event
  <2> HIDE DEF q, g
  <2> QED
    BY <2>1, <2>2
<1>7. Reported(t) = Len(g) + Len(q)
  BY DEF Reported
<1> HIDE DEF S, q, g
<1>8. g \o q \in Seq(S) /\ Len(g \o q) = Len(g) + Len(q)
  BY <1>2, ConcatProperties
<1> QED
  BY <1>1, <1>3, <1>5, <1>6, <1>7, <1>8 DEF S

\* A consumer pushes an event, with or without the end of the stream.
LEMMA ReplyGoesOn ==
  ASSUME TypeOK, SerialInv, NEW t \in Turns, consumer[t] \in {"created", "waiting", "yielded"},
         NEW e \in Reports, e.turn = t,
         turn[t] = "reading" /\ e.kind \in {"delta", "completed"} => e.n = Reported(t) + 1,
         NEW h, h = PushEvent(hub, gen[t], e), UNCHANGED <<turn, got>>,
         \/ hub' = h
         \/ \E l, w : Finally(t, h, l, w)
         \/ \E l, w : Finally(t, EndStream(h), l, w)
  PROVE  [Reply!Next]_Reply!vars
<1>1. consumer[t] \in Alive
  BY DEF Alive
<1>2. /\ h \in Registries /\ h.subs = hub.subs
      /\ \A u \in Turns \ {t} : h.inbox[u] = hub.inbox[u]
      /\ turn[t] # "reading" => h.inbox[t] = hub.inbox[t]
      /\ turn[t] = "reading" => /\ Cut(h.inbox[t], Len(h.inbox[t]))
                                /\ got[t] \o BeforeEnd(h.inbox[t]) = Append(Pushed(t), e)
  BY <1>1, PushReaches
<1>3. \A u \in Turns \ {t} : u \notin hub.subs
  <2>1. Active(t)
    BY <1>1 DEF Active, Alive
  <2> QED
    BY <2>1, OnlyOne
<1> DEFINE z == EndStream(h)
<1>4. z \in Registries /\ z.subs = h.subs
      /\ \A u \in Turns : z.inbox[u] = IF u \in h.subs THEN Append(h.inbox[u], End) ELSE h.inbox[u]
  <2>1. \A u \in Turns : u \in Requests
    BY DEF Requests
  <2> QED
    BY <1>2, <2>1, EndStreamType, HubEffects
<1> HIDE DEF z
<1>5. \A u \in Turns : \/ hub'.inbox[u] = h.inbox[u]
                       \/ /\ u \in hub.subs
                          /\ hub'.inbox[u] \in {Append(h.inbox[u], End), Append(Append(h.inbox[u], End), End)}
  <2>1. CASE hub' = h
    BY <2>1
  <2>2. ASSUME NEW l, NEW w, Finally(t, h, l, w)
        PROVE  \A u \in Turns : hub'.inbox[u] = IF u \in h.subs THEN Append(h.inbox[u], End) ELSE h.inbox[u]
    BY <1>2, <2>2, FinallyTells
  <2>3. ASSUME NEW l, NEW w, Finally(t, z, l, w)
        PROVE  \A u \in Turns : hub'.inbox[u] = IF u \in z.subs THEN Append(z.inbox[u], End) ELSE z.inbox[u]
    BY <1>4, <2>3, FinallyTells
  <2>4. hub' = h \/ (\E l, w : Finally(t, h, l, w)) \/ (\E l, w : Finally(t, z, l, w))
    BY DEF z
  <2> QED
    BY <1>2, <1>4, <2>1, <2>2, <2>3, <2>4
<1>6. \A u \in Turns \ {t} : Kept(u)
  BY <1>2, <1>3, <1>5, QuietKeeps
<1>7. CASE turn[t] # "reading"
  <2>1. t \notin hub.subs
    BY <1>7 DEF SerialInv, OwnQueue
  <2>2. Kept(t)
    BY <1>2, <1>5, <1>7, <2>1, QuietKeeps
  <2> QED
    BY <1>6, <2>2, RepliesKept
<1>8. CASE turn[t] = "reading"
  <2>1. BeforeEnd(hub'.inbox[t]) = BeforeEnd(h.inbox[t])
    <3> DEFINE q == h.inbox[t]
               S == Reports \cup {End}
    <3>1. q \in Seq(S) /\ Cut(q, Len(q))
      BY <1>2, <1>8 DEF Registries, Requests
    <3> HIDE DEF q, S
    <3>2. Cut(Append(q, End), Len(q)) /\ BeforeEnd(Append(q, End)) = BeforeEnd(q)
      BY <3>1, EndChangesNothing
    <3>3. Append(q, End) \in Seq(S)
      BY <3>1, AppendProperties DEF S
    <3>4. BeforeEnd(Append(Append(q, End), End)) = BeforeEnd(Append(q, End))
      BY <3>2, <3>3, EndChangesNothing
    <3> QED
      BY <1>5, <3>2, <3>4 DEF q
  <2>2. Pushed(t)' = Append(Pushed(t), e)
    BY <1>2, <1>8, <2>1 DEF Pushed
  <2>3. Phase(t)' \in {"open", "finished"}
    BY <1>8 DEF Phase
  <2>4. Listening(t)
    BY <1>8 DEF Listening
  <2>5. /\ Phase(t) = "open" /\ Pushed(t) \in Seq(Reports \cup {End}) /\ Len(Pushed(t)) = Reported(t)
        /\ \A i \in DOMAIN Pushed(t) : Pushed(t)[i].kind = "delta"
    BY <1>1, <1>8, <2>4, SoFar
  <2>6. e \in Reports \cup {End} /\ Len(got'[t]) = Len(got[t])
        /\ (e.kind \in {"delta", "completed"} => e.n = Len(Pushed(t)) + 1)
    BY <1>8, <2>5
  <2>7. Reply!Next
    BY <1>6, <2>2, <2>3, <2>5, <2>6, ReplyGrows
  <2> QED
    BY <2>7
<1> QED
  BY <1>7, <1>8

\* A consumer stops without another event.
LEMMA ReplyStops ==
  ASSUME TypeOK, SerialInv, NEW t \in Turns, consumer[t] \in Alive,
         NEW l, NEW w, Finally(t, hub, l, w), UNCHANGED <<turn, got>>
  PROVE  [Reply!Next]_Reply!vars
<1>1. hub \in Registries
  BY DEF TypeOK
<1>2. \A u \in Turns : hub'.inbox[u] = IF u \in hub.subs THEN Append(hub.inbox[u], End) ELSE hub.inbox[u]
  BY <1>1, FinallyTells
<1>3. \A u \in Turns \ {t} : u \notin hub.subs
  <2>1. Active(t)
    BY DEF Active, Alive
  <2> QED
    BY <2>1, OnlyOne
<1>4. \A u \in Turns \ {t} : Kept(u)
  BY <1>2, <1>3, QuietKeeps
<1>5. CASE turn[t] # "reading"
  <2>1. t \notin hub.subs
    BY <1>5 DEF SerialInv, OwnQueue
  <2>2. Kept(t)
    BY <1>2, <2>1, QuietKeeps
  <2> QED
    BY <1>4, <2>2, RepliesKept
<1>6. CASE turn[t] = "reading"
  <2>1. Phase(t) = "open" /\ t \in hub.subs
    BY <1>6, SoFar
  <2> DEFINE q == hub.inbox[t]
             S == Reports \cup {End}
  <2>2. q \in Seq(S) /\ Cut(q, Len(q))
    BY <1>1, <1>6 DEF Registries, Requests, SerialInv, OwnQueue
  <2>3. hub'.inbox[t] = Append(q, End)
    BY <1>2, <2>1
  <2> HIDE DEF q, S
  <2>4. BeforeEnd(Append(q, End)) = BeforeEnd(q)
    BY <2>2, EndChangesNothing
  <2>5. Pushed(t)' = Pushed(t)
    BY <2>3, <2>4 DEF Pushed, q
  <2>6. Phase(t)' = "finished"
    <3>1. Len(Append(q, End)) = Len(q) + 1 /\ Append(q, End)[Len(q) + 1] = End /\ Len(q) \in Nat /\ Append(q, End) \in Seq(S)
      BY <2>2, AppendProperties, LenProperties DEF S
    <3>2. Len(q) + 1 \in DOMAIN Append(q, End)
      BY <3>1, LenProperties
    <3>3. End \in ToSet(hub'.inbox[t])
      BY <2>3, <3>1, <3>2 DEF ToSet
    <3> QED
      BY <1>6, <3>3 DEF Phase
  <2>7. Reply!Next
    BY <1>4, <2>1, <2>5, <2>6, ReplyFinishes
  <2> QED
    BY <2>7
<1> QED
  BY <1>5, <1>6

\* The service's steps before and after the consumer's life.
LEMMA RequestReplies ==
  ASSUME Serial, TypeOK, SerialInv, NEW t \in Turns, Request(t) \/ Handing(t) \/ CallFails(t)
  PROVE  [Reply!Next]_Reply!vars
<1>1. CASE Request(t)
  <2>1. PICK s \in {"connecting", "refused"} : turn' = [turn EXCEPT ![t] = s]
    BY <1>1, RequestBegins
  <2>2. turn[t] = "new" /\ UNCHANGED got /\ \A u \in Turns : hub'.inbox[u] = hub.inbox[u]
    BY <1>1, RequestBegins
  <2>3. \A u \in Turns : turn'[u] = turn[u] \/ (turn[u] \in Unread /\ turn'[u] \in Unread)
    BY <2>1, <2>2 DEF TypeOK, Unread
  <2>4. \A u \in Turns : Kept(u)
    BY <2>2, <2>3, QuietKeeps
  <2> QED
    BY <2>4, RepliesKept
<1>2. CASE Connected(t)
  <2>1. turn[t] = "connecting" /\ turn' = [turn EXCEPT ![t] = "sending"] /\ UNCHANGED <<got, hub>>
    BY <1>2 DEF Connected
  <2>2. \A u \in Turns : turn'[u] = turn[u] \/ (turn[u] \in Unread /\ turn'[u] \in Unread)
    BY <2>1 DEF TypeOK, Unread
  <2>3. \A u \in Turns : Kept(u)
    BY <2>1, <2>2, QuietKeeps
  <2> QED
    BY <2>3, RepliesKept
<1>3. \A u \in Turns : u \in Requests /\ (turn[t] \in {"connecting", "sending"} => u \notin hub.subs)
  <2>1. turn[t] \in {"connecting", "sending"} => Active(t) /\ t \notin hub.subs
    BY DEF Active, SerialInv, OwnQueue
  <2> QED
    BY <2>1, OnlyOne DEF Requests
<1>4. hub \in Registries
  BY DEF TypeOK
<1>5. CASE CallFails(t)
  <2>1. /\ turn[t] \in {"connecting", "sending"} /\ turn' = [turn EXCEPT ![t] = "failed"] /\ UNCHANGED got
        /\ hub' = IF gen[t] = None THEN hub ELSE ReleaseStream(hub, gen[t])
    BY <1>5 DEF CallFails
  <2>2. \A u \in Turns : hub'.inbox[u] = hub.inbox[u]
    BY <1>3, <1>4, <2>1, HubEffects
  <2>3. \A u \in Turns : turn'[u] = turn[u] \/ (turn[u] \in Unread /\ turn'[u] \in Unread)
    BY <2>1 DEF TypeOK, Unread
  <2>4. \A u \in Turns : Kept(u)
    BY <2>1, <2>2, <2>3, QuietKeeps
  <2> QED
    BY <2>4, RepliesKept
<1>6. CASE HandOver(t)
  <2> DEFINE h == IF gen[t] = None THEN StartStream(hub) ELSE hub
  <2>1. /\ turn[t] = "sending" /\ turn' = [turn EXCEPT ![t] = "reading"] /\ UNCHANGED got /\ hub' = Subscribe(h, t)
    BY <1>6 DEF HandOver
  <2>2. h \in Registries /\ \A u \in Turns : h.inbox[u] = hub.inbox[u]
    BY <1>3, <1>4, <2>1, StartStreamType, HubEffects
  <2> HIDE DEF h
  <2>3. \A u \in Turns : hub'.inbox[u] = hub.inbox[u]
    BY <1>3, <2>1, <2>2, HubEffects
  <2>4. turn'[t] = "reading" /\ \A u \in Turns \ {t} : turn'[u] = turn[u]
    BY <2>1 DEF TypeOK
  <2>5. \A u \in Turns \ {t} : Kept(u)
    BY <2>1, <2>3, <2>4, QuietKeeps
  <2>6. hub.inbox[t] = <<>>
    BY <2>1 DEF SerialInv, OwnQueue, Unread
  <2>7. Phase(t) = "none" /\ Phase(t)' = "open"
    <3>1. DOMAIN <<>> = {}
      OBVIOUS
    <3>2. End \notin ToSet(hub'.inbox[t])
      BY <2>3, <2>6, <3>1 DEF ToSet
    <3> QED
      BY <2>1, <2>4, <3>2 DEF Phase
  <2>8. Pushed(t)' = Pushed(t) /\ Len(got'[t]) = Len(got[t])
    BY <2>1, <2>3 DEF Pushed
  <2>9. Reply!Next
    BY <2>5, <2>7, <2>8, ReplyOpens
  <2> QED
    BY <2>9
<1> QED
  BY <1>1, <1>2, <1>5, <1>6 DEF Handing

\* The failures the service reports itself.
LEMMA FaultReplies ==
  ASSUME TypeOK, SerialInv, NEW t \in Turns, consumer[t] \in {"created", "waiting", "yielded"},
         NEW w, Fault(t, w), UNCHANGED <<turn, got>>
  PROVE  [Reply!Next]_Reply!vars
<1> DEFINE e == Event(t, "fault", 0)
<1>1. e \in Reports /\ e.turn = t /\ e.kind = "fault"
  BY EventTypes DEF Event
<1>2. Finally(t, PushEvent(hub, gen[t], e), link, w)
  BY DEF Fault
<1> HIDE DEF e
<1> QED
  BY <1>1, <1>2, ReplyGoesOn

LEMMA QueuesKept ==
  ASSUME UNCHANGED <<turn, got, hub>>
  PROVE  [Reply!Next]_Reply!vars
<1>1. \A t \in Turns : Kept(t)
  BY QuietKeeps
<1> QED
  BY <1>1, RepliesKept

LEMMA ConsumeReplies ==
  ASSUME TypeOK, SerialInv, NEW t \in Turns, Consume(t)
  PROVE  [Reply!Next]_Reply!vars
<1>1. UNCHANGED <<turn, got>>
  BY DEF Consume, Listen, Resume, Receive, StreamCloses, Finish, ConsumerClosed
<1>2. ASSUME Listen(t) \/ Resume(t)
      PROVE  [Reply!Next]_Reply!vars
  <2>1. consumer[t] \in {"created", "waiting", "yielded"}
    BY <1>2 DEF Listen, Resume
  <2>2. Fault(t, ws) \/ UNCHANGED hub
    BY <1>2 DEF Listen, Resume, Iterate
  <2> QED
    BY <1>1, <2>1, <2>2, FaultReplies, QueuesKept
<1>3. ASSUME Receive(t)
      PROVE  [Reply!Next]_Reply!vars
  <2> DEFINE e == Head(link[t].events)
             h == PushEvent(hub, gen[t], e)
  <2>1. e \in Messages /\ e.turn = t /\ consumer[t] \in {"created", "waiting", "yielded"}
        /\ (StateEvent(t, e) \/ ErrorEvent(t, e) \/ DeltaEvent(t, e) \/ CompletedEvent(t, e))
    BY <1>3, ReceivesOwn
  <2>2. \/ UNCHANGED hub
        \/ e.kind \in {"delta", "completed", "error"} /\ (hub' = h \/ \E l, w : Finally(t, EndStream(h), l, w))
    BY <2>1 DEF StateEvent, ErrorEvent, DeltaEvent, CompletedEvent
  <2>3. e.kind \in {"delta", "completed", "error"} => e \in Reports
    BY <2>1 DEF Messages, Reports
  <2>4. turn[t] = "reading" /\ e.kind \in {"delta", "completed"} => e.n = Reported(t) + 1
    BY <1>3, FirstOnTheWay
  <2> HIDE DEF e
  <2> QED
    BY <1>1, <2>1, <2>2, <2>3, <2>4, ReplyGoesOn, QueuesKept
<1>4. ASSUME StreamCloses(t) \/ Finish(t)
      PROVE  [Reply!Next]_Reply!vars
  <2>1. \/ consumer[t] \in Alive /\ Finally(t, hub, link, ws)
        \/ consumer[t] = "waiting" /\ \E w : Fault(t, w)
    BY <1>4 DEF StreamCloses, Finish, Alive
  <2> QED
    BY <1>1, <2>1, FaultReplies, ReplyStops
<1>5. ConsumerClosed(t) => UNCHANGED hub
  BY DEF ConsumerClosed
<1> QED
  BY <1>1, <1>2, <1>3, <1>4, <1>5, QueuesKept DEF Consume

\* What the caller has of its reply.
LEMMA TakeReplies ==
  ASSUME TypeOK, SerialInv, NEW t \in Turns, Take(t)
  PROVE  Reply!Next
<1> DEFINE q == hub.inbox[t]
           S == Reports \cup {End}
<1>1. /\ turn[t] = "reading" /\ q # <<>> /\ got[t] \in Seq(Reports) /\ q \in Seq(S)
      /\ hub'.inbox[t] = Tail(q) /\ \A u \in Turns \ {t} : hub'.inbox[u] = hub.inbox[u]
  BY Taken
<1>2. PICK n \in 0..Len(q) : Cut(q, n)
  BY DEF SerialInv, OwnQueue
<1>3. /\ Head(q) = End => n = 0 /\ Cut(Tail(q), 0)
      /\ Head(q) # End => n \in Nat \ {0} /\ Cut(Tail(q), n - 1)
  BY <1>1, <1>2, CutTail
<1>4. Tail(q) \in Seq(S) /\ Len(Tail(q)) = Len(q) - 1 /\ Head(q) = q[1] /\ (\A i \in 1..Len(Tail(q)) : Tail(q)[i] = q[i + 1])
      /\ got[t] \in Seq(S) /\ Len(q) \in Nat /\ Len(q) # 0 /\ Head(q) \in S
  BY <1>1, HeadTailProperties, LenProperties, EmptySeq, SeqMonotonic
<1>5. DOMAIN q = 1..Len(q) /\ DOMAIN Tail(q) = 1..Len(Tail(q))
  BY <1>1, <1>4, LenProperties
<1> HIDE DEF q, S
<1>6. CASE Head(q) = End
  <2>1. turn' = [turn EXCEPT ![t] = "ended"] /\ UNCHANGED got
    BY <1>6, Taken DEF q
  <2>2. turn'[t] = "ended" /\ \A u \in Turns \ {t} : turn'[u] = turn[u]
    BY <2>1 DEF TypeOK
  <2>3. BeforeEnd(q) = <<>> /\ BeforeEnd(Tail(q)) = <<>>
    <3>1. BeforeEnd(q) = SubSeq(q, 1, 0) /\ BeforeEnd(Tail(q)) = SubSeq(Tail(q), 1, 0)
      BY <1>1, <1>2, <1>3, <1>4, <1>6, BeforeEndCuts
    <3> QED
      BY <3>1, SubSeqEmpty
  <2>4. Pushed(t) = got[t] /\ Pushed(t)' = Pushed(t)
    <3>1. got[t] \o <<>> = got[t]
      BY <1>1, ConcatEmptySeq
    <3> QED
      BY <1>1, <2>1, <2>3, <3>1 DEF Pushed, q
  <2>5. Phase(t) = "finished" /\ Phase(t)' = "closed"
    <3>1. 1 \in DOMAIN q /\ q[1] = End
      BY <1>4, <1>5, <1>6
    <3>2. End \in ToSet(hub.inbox[t])
      BY <3>1 DEF ToSet, q
    <3> QED
      BY <1>1, <2>2, <3>2 DEF Phase
  <2>6. \A u \in Turns \ {t} : Kept(u)
    BY <1>1, <2>1, <2>2, QuietKeeps
  <2> QED
    BY <2>1, <2>4, <2>5, <2>6, ReplyCloses
<1>7. CASE Head(q) # End
  <2>1. UNCHANGED turn /\ got'[t] = Append(got[t], Head(q)) /\ \A u \in Turns \ {t} : got'[u] = got[u]
    BY <1>7, Taken DEF q
  <2>2. Append(got[t], Head(q)) \o BeforeEnd(Tail(q)) = got[t] \o BeforeEnd(q)
    BY <1>1, <1>2, <1>7, TakenMoves DEF S
  <2>3. Pushed(t)' = Pushed(t)
    BY <1>1, <2>1, <2>2 DEF Pushed, q
  <2>4. Len(got'[t]) = Len(got[t]) + 1 /\ Len(got[t]) \in Nat
    <3>1. Len(Append(got[t], Head(q))) = Len(got[t]) + 1 /\ Len(got[t]) \in Nat
      BY <1>4, AppendProperties, LenProperties
    <3> QED
      BY <2>1, <3>1
  <2>5. Len(got[t]) < Len(Pushed(t))
    <3>1. BeforeEnd(q) = SubSeq(q, 1, n) /\ n \in Nat \ {0} /\ n <= Len(q)
      BY <1>1, <1>2, <1>3, <1>7, BeforeEndCuts
    <3>2. \A i \in 1..n : q[i] \in S
      BY <1>1, <1>4, <3>1, ElementOfSeq
    <3>3. BeforeEnd(q) \in Seq(S) /\ Len(BeforeEnd(q)) = n
      BY <3>1, <3>2, SubSeqProperties
    <3>4. Len(got[t] \o BeforeEnd(q)) = Len(got[t]) + n
      BY <1>4, <3>3, ConcatProperties
    <3>5. PICK a \in Nat : a = Len(got[t])
      BY <2>4
    <3>6. a < a + n
      BY <3>1
    <3>7. Pushed(t) = got[t] \o BeforeEnd(q)
      BY DEF Pushed, q
    <3> QED
      BY <3>4, <3>5, <3>6, <3>7
  <2>6. Phase(t) \in {"open", "finished"} /\ Phase(t)' = Phase(t)
    <3>1. End \in ToSet(q) <=> End \in ToSet(Tail(q))
      <4>1. ASSUME NEW i \in DOMAIN q, q[i] = End
            PROVE  \E j \in DOMAIN Tail(q) : Tail(q)[j] = End
        <5>1. i # 1
          BY <1>4, <1>7, <4>1
        <5>2. i - 1 \in 1..Len(Tail(q)) /\ (i - 1) + 1 = i
          BY <1>4, <1>5, <5>1
        <5> QED
          BY <1>4, <1>5, <4>1, <5>2
      <4>2. ASSUME NEW j \in DOMAIN Tail(q), Tail(q)[j] = End
            PROVE  \E i \in DOMAIN q : q[i] = End
        <5>1. j + 1 \in DOMAIN q /\ q[j + 1] = End
          BY <1>4, <1>5, <4>2
        <5> QED
          BY <5>1
      <4> QED
        BY <4>1, <4>2 DEF ToSet
    <3>2. End \in ToSet(hub.inbox[t]) <=> End \in ToSet(hub'.inbox[t])
      BY <1>1, <3>1 DEF q
    <3> QED
      BY <1>1, <2>1, <3>2 DEF Phase
  <2>7. \A u \in Turns \ {t} : Kept(u)
    BY <1>1, <2>1, QuietKeeps
  <2> QED
    BY <2>3, <2>4, <2>5, <2>6, <2>7, ReplyDelivers
<1> QED
  BY <1>6, <1>7

\* The callers that leave, and the turns that a restart ends.
LEMMA LeaveReplies ==
  ASSUME TypeOK, SerialInv, NEW t \in Turns, Leave(t)
  PROVE  [Reply!Next]_Reply!vars
<1>1. turn[t] = "reading" /\ turn' = [turn EXCEPT ![t] = "left"] /\ UNCHANGED got /\ hub' = Unsubscribe(hub, t)
  BY DEF Leave, Reading, SetRequest
<1>2. turn'[t] = "left" /\ \A u \in Turns \ {t} : turn'[u] = turn[u]
  BY <1>1 DEF TypeOK
<1>3. \A u \in Turns : hub'.inbox[u] = hub.inbox[u]
  <2>1. hub \in Registries /\ \A u \in Turns : u \in Requests
    BY DEF TypeOK, Requests
  <2> QED
    BY <1>1, <2>1, HubEffects
<1>4. \A u \in Turns \ {t} : Kept(u)
  BY <1>1, <1>2, <1>3, QuietKeeps
<1>5. Phase(t)' = "abandoned" /\ Len(got'[t]) = Len(got[t])
  BY <1>1, <1>2 DEF Phase
<1> QED
  BY <1>4, <1>5, RepliesAbandoned

LEMMA RestartReplies ==
  ASSUME TypeOK, SerialInv, Restart
  PROVE  [Reply!Next]_Reply!vars
<1>1. turn' = [t \in Turns |-> Lost(turn[t])] /\ hub' = EmptyHub /\ UNCHANGED got
  BY DEF Restart
<1>2. ASSUME NEW t \in Turns
      PROVE  \/ Kept(t)
             \/ Phase(t)' = "abandoned" /\ Len(got'[t]) = Len(got[t])
  <2>1. hub'.inbox[t] = <<>>
    BY <1>1 DEF EmptyHub, Requests
  <2>2. CASE turn[t] = "new"
    <3>1. hub.inbox[t] = <<>> /\ turn'[t] = turn[t]
      BY <1>1, <2>2 DEF SerialInv, OwnQueue, Unread, Lost
    <3> QED
      BY <1>1, <2>1, <3>1, QuietKeeps
  <2>3. CASE turn[t] # "new"
    <3>1. turn'[t] = "lost" /\ Phase(t)' = "abandoned"
      BY <1>1, <2>3 DEF Lost, Phase
    <3> QED
      BY <1>1, <3>1
  <2> QED
    BY <2>2, <2>3
<1> QED
  BY <1>2, RepliesAbandoned

\* A request that reconnects takes nothing from the reply of any turn.
LEMMA ReadersReplies ==
  ASSUME TypeOK, NEW r \in Readers, Reconnect(r) \/ Replay(r) \/ Take(r) \/ Leave(r)
  PROVE  [Reply!Next]_Reply!vars
<1>1. UNCHANGED turn /\ \A t \in Turns : got'[t] = got[t] /\ hub'.inbox[t] = hub.inbox[t]
  BY ReadersAside
<1>2. \A t \in Turns : Kept(t)
  BY <1>1, QuietKeeps
<1> QED
  BY <1>2, RepliesKept

\* The initial states of the service are those of its promise.
LEMMA InitReplies == Init => Reply!Init
<1> SUFFICES ASSUME Init
             PROVE  Reply!Init
  OBVIOUS
<1>1. \A t \in Turns : turn[t] = "new" /\ got[t] = <<>> /\ hub.inbox[t] = <<>>
  BY DEF Init, EmptyHub, Requests
<1>2. \A t \in Turns : Phase(t) = "none"
  BY <1>1 DEF Phase
<1>3. BeforeEnd(<<>>) = <<>>
  <2>1. Cut(<<>>, Len(<<>>)) /\ <<>> \in Seq(Reports)
    BY EmptyCut
  <2> QED
    BY <2>1, NoEnd
<1>4. \A t \in Turns : Pushed(t) = <<>>
  BY <1>1, <1>3 DEF Pushed
<1>5. \A t \in Turns : Len(got[t]) = 0
  BY <1>1
<1> QED
  BY <1>2, <1>4, <1>5 DEF Reply!Init

\* Every step of the service is a step of its promise, or none.
LEMMA NextReplies ==
  ASSUME Serial, TypeOK, SerialInv, [Next]_vars
  PROVE  [Reply!Next]_Reply!vars
<1>1. ASSUME NEW t \in Turns, Request(t) \/ Handing(t) \/ CallFails(t) \/ Consume(t)
      PROVE  [Reply!Next]_Reply!vars
  BY <1>1, RequestReplies, ConsumeReplies
<1>2. ASSUME NEW q \in Requests, Take(q) \/ Leave(q)
      PROVE  [Reply!Next]_Reply!vars
  BY <1>2, TakeReplies, LeaveReplies, ReadersReplies DEF Requests
<1>3. ASSUME NEW r \in Readers, Reconnect(r) \/ Replay(r)
      PROVE  [Reply!Next]_Reply!vars
  BY <1>3, ReadersReplies
<1>4. ASSUME NEW a \in Aborts, Aborting(a)
      PROVE  UNCHANGED <<turn, got, hub>>
  BY <1>4 DEF Aborting, AbortRemote, AbortLocally, AbortClosed, requests
<1>5. ASSUME NEW k \in Turns, Serve(k) \/ Break(k)
      PROVE  UNCHANGED <<turn, got, hub>>
  BY <1>5 DEF Serve, Hold, Dispatch, SeesClose, Release, Break, requests
<1>6. Emit \/ EmitError \/ UNCHANGED vars => UNCHANGED <<turn, got, hub>>
  BY DEF Emit, EmitError, vars, requests
<1> QED
  BY <1>1, <1>2, <1>3, <1>4, <1>5, <1>6, RestartReplies, QueuesKept DEF Next

\* The stream service, where a turn begins only when nothing of the others is
\* left, implements its promise: send_message_stream and
\* regenerate_message_stream (session_manager.py) yield the events of their own
\* turn, each once and in order, at most one terminal event and that the last,
\* and return only after everything that _consume_events pushed was yielded.
THEOREM EveryReplyIsWhole ==
  ASSUME Serial
  PROVE  Spec => RepliesAreWhole
<1>1. Init => Reply!Init
  BY InitReplies
<1>2. TypeOK /\ SerialInv /\ [Next]_vars => [Reply!Next]_Reply!vars
  BY NextReplies
<1> QED
  BY <1>1, <1>2, SerialIsInvariant, PTL DEF Spec, RepliesAreWhole, Reply!Spec

\* Where nothing failed, the response to a turn never ends without saying why:
\* the caller of _iter_with_cleanup (session_manager.py) has a terminal event
\* of its turn before StopAsyncIteration.
THEOREM EveryEndIsExplained ==
  ASSUME Serial
  PROVE  Spec => []EndIsExplained
<1>1. TypeOK /\ SerialInv => EndIsExplained
  <2> SUFFICES ASSUME TypeOK, SerialInv, faults = 0, NEW t \in Turns, turn[t] = "ended"
               PROVE  Explained(got[t])
    BY DEF EndIsExplained
  <2>1. Explained(Pushed(t))
    BY DEF SerialInv, Undisturbed, Listening
  <2>2. hub.inbox[t] \in Seq(Reports \cup {End}) /\ got[t] \in Seq(Reports)
    BY DEF TypeOK, Registries, Requests
  <2>3. BeforeEnd(hub.inbox[t]) = <<>>
    <3>1. Cut(hub.inbox[t], 0)
      BY DEF SerialInv, OwnQueue
    <3>2. BeforeEnd(hub.inbox[t]) = SubSeq(hub.inbox[t], 1, 0)
      BY <2>2, <3>1, BeforeEndCuts
    <3> QED
      BY <3>2, SubSeqEmpty
  <2>4. Pushed(t) = got[t]
    BY <2>2, <2>3, ConcatEmptySeq DEF Pushed
  <2> QED
    BY <2>1, <2>4
<1> QED
  BY <1>1, SerialIsInvariant, PTL
=============================================================================
