------------------------- MODULE SessionTurnsProofs -------------------------
(* Proofs about SessionTurns, for every number of connections, turns and   *)
(* events.                                                                 *)
EXTENDS SessionTurns, TLAPS

\* The registry holds one connection at a time, closing ones included.
OneRegistered ==
  \A c, d \in Conns : conn[c] \in Registered /\ conn[d] \in Registered => c = d

\* A turn was submitted over some connection.
OwnerKnown == \A t \in Turns : turn[t] # "none" => owner[t] \in Conns

IInv ==
  /\ TypeOK /\ OwnerKnown /\ OneRegistered /\ BindingIsOpen
  /\ QuietMeansFree /\ AbortHitsOngoing /\ SerialUntilEarlyRelease

LEMMA InitEstablishes == Init => IInv
<1> SUFFICES ASSUME Init PROVE IInv
  OBVIOUS
<1>1. TypeOK
  <2>1. <<>> \in Seq(Items) /\ 0 \in 0..MaxEvents
    BY BoundsAssumption
  <2>2. queue \in [Turns -> Seq(Items)] /\ yielded \in [Turns -> 0..MaxEvents]
    BY <2>1 DEF Init
  <2> QED
    BY <2>2 DEF Init, TypeOK
<1>2. OwnerKnown /\ OneRegistered /\ BindingIsOpen
  BY NamesAssumption DEF Init, OwnerKnown, OneRegistered, BindingIsOpen, Registered
<1>3. QuietMeansFree /\ AbortHitsOngoing /\ SerialUntilEarlyRelease
  BY DEF Init, QuietMeansFree, AbortHitsOngoing, SerialUntilEarlyRelease, Live, Ongoing
<1> QED
  BY <1>1, <1>2, <1>3 DEF IInv

\* What the connections and the abort leave alone.
LEMMA ConnectionPreserves ==
  ASSUME IInv, NEW c \in Conns, Connect(c) \/ Abort(c) \/ Disconnect(c) \/ Closed(c)
  PROVE  IInv'
<1> USE NamesAssumption DEF Registered
<1>1. /\ UNCHANGED <<turn, owner, inflight, cancelSlot, early, threads>>
      /\ UNCHANGED <<terminal, told>>
      /\ cancelled' \in SUBSET Turns /\ loop' \in {"free", "aborting"}
      /\ conn' \in [Conns -> {"new", "closed"} \cup Registered]
      /\ bound' \in Conns \cup {NoConn}
  BY DEF Connect, Abort, Disconnect, Closed, AbortBegins, pool, link, IInv, TypeOK
<1>2. TypeOK'
  BY <1>1 DEF IInv, TypeOK, threads
<1>3. OneRegistered' /\ BindingIsOpen'
  <2>1. conn \in [Conns -> {"new", "closed"} \cup Registered] /\ OneRegistered /\ BindingIsOpen
    BY DEF IInv, TypeOK
  <2>2. CASE Connect(c)
    BY <2>1, <2>2 DEF Connect, OneRegistered, BindingIsOpen
  <2>3. CASE Abort(c)
    BY <2>1, <2>3 DEF Abort, link, OneRegistered, BindingIsOpen
  <2>4. CASE Disconnect(c)
    BY <2>1, <2>4 DEF Disconnect, OneRegistered, BindingIsOpen
  <2>5. CASE Closed(c)
    BY <2>1, <2>5 DEF Closed, OneRegistered, BindingIsOpen
  <2> QED
    BY <2>2, <2>3, <2>4, <2>5
<1>4. QuietMeansFree' /\ AbortHitsOngoing' /\ SerialUntilEarlyRelease'
  BY <1>1 DEF IInv, QuietMeansFree, AbortHitsOngoing, SerialUntilEarlyRelease, Live
<1>5. OwnerKnown'
  BY <1>1 DEF IInv, OwnerKnown
<1> QED
  BY <1>2, <1>3, <1>4, <1>5 DEF IInv

\* A turn is submitted when no other holds the session.
LEMMA SubmitPreserves ==
  ASSUME IInv, NEW c \in Conns, NEW t \in Turns, Submit(c, t)
  PROVE  IInv'
<1>1. /\ UNCHANGED <<conn, bound, terminal, told, cancelSlot, cancelled, loop, early,
                     producer, failed, yielded, hand, queue, state>>
      /\ ~inflight /\ inflight' = TRUE /\ turn[t] = "none"
      /\ turn' = [turn EXCEPT ![t] = "created"]
      /\ owner' = [owner EXCEPT ![t] = c]
  BY DEF Submit, link, threads
<1>2. TypeOK' /\ OneRegistered' /\ BindingIsOpen'
  BY <1>1 DEF IInv, TypeOK, OneRegistered, BindingIsOpen, Ongoing
<1>o. OwnerKnown'
  BY <1>1 DEF IInv, TypeOK, OwnerKnown
<1>3. Live(t)' /\ \A u \in Turns \ {t} : Live(u)' <=> Live(u)
  BY <1>1 DEF IInv, TypeOK, Live, Ongoing
<1>4. QuietMeansFree' /\ AbortHitsOngoing' /\ SerialUntilEarlyRelease'
  BY <1>1, <1>3, NamesAssumption
     DEF IInv, TypeOK, QuietMeansFree, AbortHitsOngoing, SerialUntilEarlyRelease
<1> QED
  BY <1>2, <1>o, <1>4 DEF IInv

LEMMA TurnStartsPreserves ==
  ASSUME IInv, NEW t \in Turns, TurnStarts(t)
  PROVE  IInv'
<1>1. /\ UNCHANGED <<conn, bound, terminal, told, owner, inflight, cancelled, loop, early,
                     failed, yielded, hand, queue, state>>
      /\ turn[t] = "created" /\ turn' = [turn EXCEPT ![t] = "consuming"]
      /\ cancelSlot' = t /\ producer' = [producer EXCEPT ![t] = "queued"]
  BY DEF TurnStarts, link
<1>2. TypeOK' /\ OneRegistered' /\ BindingIsOpen'
  BY <1>1 DEF IInv, TypeOK, OneRegistered, BindingIsOpen, Ongoing
<1>o. OwnerKnown'
  BY <1>1 DEF IInv, TypeOK, OwnerKnown
<1>3. \A u \in Turns : Live(u)' <=> Live(u)
  BY <1>1 DEF IInv, TypeOK, Live, Ongoing
<1>4. QuietMeansFree' /\ AbortHitsOngoing' /\ SerialUntilEarlyRelease'
  BY <1>1, <1>3 DEF IInv, TypeOK, QuietMeansFree, AbortHitsOngoing, SerialUntilEarlyRelease
<1> QED
  BY <1>2, <1>o, <1>4 DEF IInv

\* The consumer: an event leaves the turn ongoing, the end of the stream ends
\* it and frees the session with it.
LEMMA ConsumePreserves ==
  ASSUME IInv, NEW t \in Turns, Consume(t)
  PROVE  IInv'
<1> DEFINE head == Head(queue[t])
<1>1. /\ UNCHANGED <<conn, bound, owner, cancelled, loop, producer, failed, yielded, hand, state>>
      /\ turn[t] = "consuming" /\ queue[t] \in Seq(Items) /\ queue[t] # <<>>
      /\ queue' = [queue EXCEPT ![t] = Tail(@)]
  BY DEF Consume, IInv, TypeOK
<1>2. head \in Items /\ queue' \in [Turns -> Seq(Items)]
  BY <1>1 DEF IInv, TypeOK
<1> HIDE DEF head
<1>3. Live(t)
  BY <1>1 DEF Live, Ongoing
<1>4. CASE TakeEnd(t)
  <2>1. /\ turn' = [turn EXCEPT ![t] = "done"] /\ inflight' = FALSE /\ cancelSlot' = NoTurn
        /\ UNCHANGED <<early, terminal, told>>
    BY <1>4 DEF TakeEnd
  <2>2. TypeOK' /\ OneRegistered' /\ BindingIsOpen'
    BY <1>1, <1>2, <2>1 DEF IInv, TypeOK, OneRegistered, BindingIsOpen
  <2>o. OwnerKnown'
    BY <1>1, <2>1 DEF IInv, TypeOK, OwnerKnown
  <2>3. ~Live(t)' /\ \A u \in Turns \ {t} : Live(u)' <=> Live(u)
    BY <2>1 DEF IInv, TypeOK, Live, Ongoing
  <2>4. QuietMeansFree' /\ AbortHitsOngoing' /\ SerialUntilEarlyRelease'
    BY <1>3, <2>1, <2>3 DEF IInv, QuietMeansFree, AbortHitsOngoing, SerialUntilEarlyRelease
  <2> QED
    BY <2>2, <2>o, <2>4 DEF IInv
<1>5. CASE TakeItem(t, head)
  <2>1. /\ terminal' \in SUBSET (terminal \cup {owner[t]})
        /\ told' = told \/ \E s \in States : told' = [told EXCEPT ![owner[t]] = s]
        /\ \/ inflight' = FALSE /\ early' = early \cup {t}
           \/ UNCHANGED <<inflight, early>>
        /\ UNCHANGED <<turn, cancelSlot>>
    BY <1>5 DEF TakeItem, Forward
  <2>2. owner[t] \in Conns
    BY <1>1 DEF IInv, OwnerKnown
  <2>3. TypeOK'
    <3>1. told' \in [Conns -> States \cup {"none"}]
      BY <2>1, <2>2 DEF IInv, TypeOK
    <3>2. terminal' \in SUBSET Conns /\ early' \in SUBSET Turns /\ inflight' \in BOOLEAN
      BY <2>1, <2>2 DEF IInv, TypeOK
    <3> QED
      BY <1>1, <1>2, <2>1, <3>1, <3>2 DEF IInv, TypeOK
  <2>c. OneRegistered' /\ BindingIsOpen' /\ OwnerKnown'
    BY <1>1, <2>1 DEF IInv, OneRegistered, BindingIsOpen, OwnerKnown
  <2>4. QuietMeansFree' /\ AbortHitsOngoing' /\ SerialUntilEarlyRelease'
    BY <1>3, <2>1 DEF IInv, QuietMeansFree, AbortHitsOngoing, SerialUntilEarlyRelease, Live
  <2> QED
    BY <2>3, <2>c, <2>4 DEF IInv
<1> QED
  BY <1>4, <1>5 DEF Consume, head

\* Where a producer can be.
Places == {"none", "queued", "opened", "turn", "ending", "settled", "last", "done"}

\* The threads touch neither the pool nor the connections.
LEMMA ProducePreserves ==
  ASSUME IInv, NEW t \in Turns, Produce(t)
  PROVE  IInv'
<1>1. UNCHANGED <<conn, bound, terminal, told, turn, owner, inflight, cancelSlot,
                  cancelled, loop, early>>
  BY DEF Produce, Puts, Opens, Opened, RuntimeYields, Settles, Settled, OfThreads, link
<1>t. /\ queue \in [Turns -> Seq(Items)] /\ producer \in [Turns -> Places]
      /\ hand \in [Turns -> States \cup Events \cup {"none"}]
      /\ state \in States \cup {"none"} /\ failed \in SUBSET Turns /\ yielded \in [Turns -> 0..MaxEvents]
  BY DEF IInv, TypeOK, Places
<1>2. ASSUME NEW items \in Seq(Items), Put(t, items) PROVE queue' \in [Turns -> Seq(Items)]
  <2>1. queue[t] \o items \in Seq(Items)
    BY <1>t
  <2> QED
    BY <1>2, <1>t, <2>1 DEF Put
<1>3. ASSUME NEW pc \in Places, At(t, pc) PROVE producer' \in [Turns -> Places]
  BY <1>3, <1>t DEF At
<1>4. \A hasFailed \in BOOLEAN : Target(hasFailed) \in States
  BY DEF Target, States
<1>5. /\ <<"END">> \in Seq(Items) /\ <<"fail", "END">> \in Seq(Items)
      /\ \A item \in Events \cup States : <<item>> \in Seq(Items) /\ <<item, "END">> \in Seq(Items)
  BY DEF Items, Events, States
<1>6. ASSUME NEW item \in Events \cup States, NEW next \in Places, Test(t, item, next)
      PROVE  /\ queue' \in [Turns -> Seq(Items)] /\ producer' \in [Turns -> Places]
             /\ hand' \in [Turns -> States \cup Events \cup {"none"}]
  <2>1. CASE t \in cancelled
    <3>1. At(t, "done") /\ Put(t, <<"END">>) /\ UNCHANGED hand
      BY <1>6, <2>1 DEF Test
    <3>2. "done" \in Places
      BY DEF Places
    <3> QED
      BY <3>1, <3>2, <1>t, <1>2, <1>3, <1>5
  <2>2. CASE t \notin cancelled
    BY <1>6, <2>2, <1>t, <1>3 DEF Test
  <2> QED
    BY <2>1, <2>2
<1>7. /\ queue' \in [Turns -> Seq(Items)] /\ state' \in States \cup {"none"}
      /\ producer' \in [Turns -> Places]
      /\ hand' \in [Turns -> States \cup Events \cup {"none"}]
      /\ failed' \in SUBSET Turns /\ yielded' \in [Turns -> 0..MaxEvents]
  <2>0. CASE Puts(t)
    <3>1. /\ hand[t] \in Events \cup States /\ hand' = [hand EXCEPT ![t] = "none"]
          /\ UNCHANGED <<failed, yielded, state>>
      BY <2>0, <1>t DEF Puts
    <3>2. \/ Put(t, <<hand[t], "END">>) /\ At(t, "done")
          \/ Put(t, <<hand[t]>>) /\ UNCHANGED producer
      BY <2>0 DEF Puts
    <3>3. <<hand[t], "END">> \in Seq(Items) /\ <<hand[t]>> \in Seq(Items) /\ "done" \in Places
      BY <3>1, <1>5 DEF Places
    <3>4. queue' \in [Turns -> Seq(Items)] /\ producer' \in [Turns -> Places]
      BY <3>2, <3>3, <1>2, <1>3, <1>t
    <3> QED
      BY <3>1, <3>4, <1>t
  <2>1. CASE Opens(t)
    BY <2>1, <1>t, <1>2, <1>3, <1>5 DEF Opens, States, Places
  <2>2. CASE Opened(t)
    BY <2>2, <1>t, <1>6 DEF Opened, States, Places
  <2>3. CASE RuntimeYields(t)
    <3>1. failed' \in SUBSET Turns /\ yielded' \in [Turns -> 0..MaxEvents]
      <4>2. \/ yielded' = yielded
            \/ yielded[t] < MaxEvents /\ yielded' = [yielded EXCEPT ![t] = yielded[t] + 1]
        BY <2>3 DEF RuntimeYields
      <4>3. failed' = failed \/ failed' = failed \cup {t}
        BY <2>3 DEF RuntimeYields
      <4>4. yielded[t] < MaxEvents => yielded[t] + 1 \in 0..MaxEvents
        BY <1>t, BoundsAssumption
      <4> QED
        BY <1>t, <4>2, <4>3, <4>4
    <3>2. PICK item \in Events, next \in {"turn", "ending"}, f \in BOOLEAN : Yield(t, item, next, f)
      <4>1. (t \in failed') \in BOOLEAN /\ "fail" \in Events
        BY DEF Events
      <4> QED
        BY <2>3, <4>1 DEF RuntimeYields
    <3>3. state' \in States \cup {"none"}
      BY <3>2, <1>t, <1>4 DEF Yield
    <3>4. next \in Places /\ Test(t, item, next)
      BY <3>2 DEF Yield, Places
    <3> QED
      BY <3>1, <3>3, <3>4, <1>6
  <2>4. CASE Settles(t)
    <3>1. Target(t \in failed) \in States
      BY DEF Target, States
    <3> QED
      BY <2>4, <1>t, <1>2, <1>3, <1>5, <3>1 DEF Settles, Places
  <2>5. CASE Settled(t)
    <3>1. Target(t \in failed) \in States /\ "last" \in Places
      BY DEF Target, States, Places
    <3>2. Test(t, Target(t \in failed), "last") /\ UNCHANGED <<failed, yielded, state>>
      BY <2>5 DEF Settled
    <3> QED
      BY <3>1, <3>2, <1>t, <1>6
  <2> QED
    BY <2>0, <2>1, <2>2, <2>3, <2>4, <2>5 DEF Produce
<1>8. TypeOK'
  BY <1>1, <1>7 DEF IInv, TypeOK, Places
<1>9. OneRegistered' /\ BindingIsOpen' /\ OwnerKnown'
  BY <1>1 DEF IInv, OneRegistered, BindingIsOpen, OwnerKnown
<1>10. QuietMeansFree' /\ AbortHitsOngoing' /\ SerialUntilEarlyRelease'
  BY <1>1 DEF IInv, QuietMeansFree, AbortHitsOngoing, SerialUntilEarlyRelease, Live
<1> QED
  BY <1>8, <1>9, <1>10 DEF IInv

LEMMA AbortEndsPreserves ==
  ASSUME IInv, AbortEnds
  PROVE  IInv'
<1>1. /\ UNCHANGED <<conn, bound, terminal, turn, owner, inflight, cancelSlot, cancelled,
                     early, producer, failed, yielded, hand, queue>>
      /\ loop' = "free" /\ state' \in States /\ told' \in [Conns -> States \cup {"none"}]
  BY DEF AbortEnds, States, IInv, TypeOK
<1>2. TypeOK'
  BY <1>1 DEF IInv, TypeOK
<1>3. OneRegistered' /\ BindingIsOpen' /\ OwnerKnown'
  BY <1>1 DEF IInv, OneRegistered, BindingIsOpen, OwnerKnown
<1>4. QuietMeansFree' /\ AbortHitsOngoing' /\ SerialUntilEarlyRelease'
  BY <1>1 DEF IInv, QuietMeansFree, AbortHitsOngoing, SerialUntilEarlyRelease, Live
<1> QED
  BY <1>2, <1>3, <1>4 DEF IInv

\* Every reachable state satisfies the inductive invariant.
THEOREM Invariance == Spec => []IInv
<1>1. ASSUME IInv, [Next]_vars PROVE IInv'
  <2>1. CASE UNCHANGED vars
    BY <1>1, <2>1 DEF vars, link, pool, threads, IInv, TypeOK, OwnerKnown, OneRegistered,
       BindingIsOpen, QuietMeansFree, AbortHitsOngoing, SerialUntilEarlyRelease, Live
  <2>2. CASE Next
    BY <1>1, <2>2, ConnectionPreserves, SubmitPreserves, TurnStartsPreserves,
       ConsumePreserves, ProducePreserves, AbortEndsPreserves DEF Next
  <2> QED
    BY <1>1, <2>1, <2>2
<1> QED
  BY <1>1, InitEstablishes, PTL DEF Spec

\* Every variable keeps its type.
THEOREM TypeCorrect == Spec => []TypeOK
<1>1. IInv => TypeOK
  BY DEF IInv
<1> QED
  BY <1>1, Invariance, PTL

\* _inflight_sessions never keeps a session that has no ongoing turn.
THEOREM SessionIsFreed == Spec => []QuietMeansFree
<1>1. IInv => QuietMeansFree
  BY DEF IInv
<1> QED
  BY <1>1, Invariance, PTL

\* An abort never sets the cancel event of a turn that has ended.
THEOREM AbortIsTimely == Spec => []AbortHitsOngoing
<1>1. IInv => AbortHitsOngoing
  BY DEF IInv
<1> QED
  BY <1>1, Invariance, PTL

\* Turns are serial until one of them releases its session before it ends.
THEOREM SerialTurns == Spec => []SerialUntilEarlyRelease
<1>1. IInv => SerialUntilEarlyRelease
  BY DEF IInv
<1> QED
  BY <1>1, Invariance, PTL

\* State events go to the open connection, through any number of reconnections.
THEOREM BindingSound == Spec => []BindingIsOpen
<1>1. IInv => BindingIsOpen
  BY DEF IInv
<1> QED
  BY <1>1, Invariance, PTL

-----------------------------------------------------------------------------
(* What a cancelled turn still puts on its queue.                          *)

\* Of turn u: what its queue has gained.
Gains(u) ==
  \A i \in 1..Len(queue'[u]) : Len(queue'[u]) > Len(queue[u]) /\ i > Len(queue[u]) => PutAfterAbort(u, queue'[u][i])

\* Of turn u: it gains what an abort lets through, and its thread passes no test.
Cut(u) == hand'[u] \in {hand[u], "none"} /\ Gains(u)

\* A queue that loses items or keeps them gains none.
LEMMA ShorterGainsNothing ==
  ASSUME NEW u \in Turns, queue[u] \in Seq(Items), queue'[u] = queue[u] \/ (queue[u] # <<>> /\ queue'[u] = Tail(queue[u]))
  PROVE  Gains(u)
<1>1. CASE queue'[u] = queue[u]
  BY <1>1 DEF Gains
<1>2. CASE queue[u] # <<>> /\ queue'[u] = Tail(queue[u])
  <2>1. Len(queue[u]) \in Nat /\ Len(queue[u]) # 0 /\ Len(queue'[u]) = Len(queue[u]) - 1
    BY <1>2
  <2> QED
    BY <2>1 DEF Gains
<1> QED
  BY <1>1, <1>2

\* What the producer puts is all that the queue of its turn gains.
LEMMA PutGains ==
  ASSUME queue \in [Turns -> Seq(Items)], NEW t \in Turns, NEW u \in Turns,
         NEW items \in Seq(Items), Put(t, items), u = t => \A i \in 1..Len(items) : PutAfterAbort(u, items[i])
  PROVE  Gains(u)
<1>1. CASE u # t
  <2>1. queue'[u] = queue[u]
    BY <1>1 DEF Put
  <2> QED
    BY <2>1, ShorterGainsNothing
<1>2. CASE u = t
  <2>1. queue'[u] = queue[u] \o items /\ queue[u] \in Seq(Items)
    BY <1>2 DEF Put
  <2>2. /\ Len(queue'[u]) = Len(queue[u]) + Len(items) /\ Len(queue[u]) \in Nat /\ Len(items) \in Nat
        /\ \A i \in 1..Len(queue'[u]) : i > Len(queue[u]) =>
             queue'[u][i] = items[i - Len(queue[u])] /\ i - Len(queue[u]) \in 1..Len(items)
    BY <2>1
  <2> QED
    BY <1>2, <2>2 DEF Gains
<1> QED
  BY <1>1, <1>2

\* Of a turn that was cancelled the producer puts the end, or what it holds already.
LEMMA ProducerGains ==
  ASSUME IInv, NEW t \in Turns, NEW u \in cancelled, u \in Turns, Produce(t)
  PROVE  Cut(u)
<1>1. /\ queue \in [Turns -> Seq(Items)] /\ u \in Turns
      /\ hand \in [Turns -> States \cup Events \cup {"none"}]
  BY DEF IInv, TypeOK
<1>2. ASSUME UNCHANGED queue PROVE Gains(u)
  BY <1>1, <1>2, ShorterGainsNothing
<1>3. <<"END">> \in Seq(Items) /\ <<"fail", "END">> \in Seq(Items)
  BY DEF Items, States, Events
<1>4. Put(t, <<"END">>) => Gains(u)
  <2>1. \A i \in 1..Len(<<"END">>) : PutAfterAbort(u, <<"END">>[i])
    BY DEF PutAfterAbort
  <2> QED
    BY <1>1, <1>3, <2>1, PutGains
<1>5. ASSUME NEW item, NEW next, Test(t, item, next) PROVE Cut(u)
  <2>1. CASE t \in cancelled
    <3>1. Put(t, <<"END">>) /\ UNCHANGED hand
      BY <1>5, <2>1 DEF Test
    <3> QED
      BY <1>4, <3>1 DEF Cut
  <2>2. CASE t \notin cancelled
    <3>1. u # t /\ hand' = [hand EXCEPT ![t] = item] /\ UNCHANGED queue
      BY <1>5, <2>2 DEF Test
    <3> QED
      BY <1>1, <1>2, <3>1 DEF Cut
  <2> QED
    BY <2>1, <2>2
<1>6. CASE Puts(t)
  <2>1. /\ hand[t] # "none" /\ hand' = [hand EXCEPT ![t] = "none"]
        /\ Put(t, <<hand[t], "END">>) \/ Put(t, <<hand[t]>>)
    BY <1>6 DEF Puts
  <2>2. hand'[t] = "none" /\ hand'[u] \in {hand[u], "none"}
    BY <1>1, <2>1
  <2>3. <<hand[t], "END">> \in Seq(Items) /\ <<hand[t]>> \in Seq(Items)
    BY <1>1, <2>1 DEF Items
  <2>4. u = t => /\ \A i \in 1..Len(<<hand[t], "END">>) : PutAfterAbort(u, <<hand[t], "END">>[i])
                 /\ \A i \in 1..Len(<<hand[t]>>) : PutAfterAbort(u, <<hand[t]>>[i])
    BY <2>2 DEF PutAfterAbort
  <2>5. Put(t, <<hand[t], "END">>) => Gains(u)
    BY <1>1, <2>3, <2>4, PutGains
  <2>6. Put(t, <<hand[t]>>) => Gains(u)
    BY <1>1, <2>3, <2>4, PutGains
  <2> QED
    BY <2>1, <2>2, <2>5, <2>6 DEF Cut
<1>7. CASE Opens(t)
  <2>1. producer[t] = "queued" /\ UNCHANGED hand /\ (Put(t, <<"fail", "END">>) \/ UNCHANGED queue)
    BY <1>7 DEF Opens
  <2>2. u = t => \A i \in 1..Len(<<"fail", "END">>) : PutAfterAbort(u, <<"fail", "END">>[i])
    BY <2>1 DEF PutAfterAbort
  <2>3. Put(t, <<"fail", "END">>) => Gains(u)
    BY <1>1, <1>3, <2>2, PutGains
  <2> QED
    BY <2>1, <2>3, <1>2 DEF Cut
<1>8. CASE Opened(t)
  BY <1>5, <1>8 DEF Opened
<1>9. CASE RuntimeYields(t)
  BY <1>5, <1>9 DEF RuntimeYields, Yield
<1>10. CASE Settles(t)
  <2>1. UNCHANGED hand /\ (Put(t, <<"END">>) \/ UNCHANGED queue)
    BY <1>10 DEF Settles
  <2> QED
    BY <2>1, <1>2, <1>4 DEF Cut
<1>11. CASE Settled(t)
  BY <1>5, <1>11 DEF Settled
<1> QED
  BY <1>6, <1>7, <1>8, <1>9, <1>10, <1>11 DEF Produce

\* Wherever the thread of a turn stands when the turn is cancelled: after that it puts the one
\* event it has already tested, if there is one, and the end; nothing of the runtime that
\* comes later, and no state, is put on its queue.
THEOREM CancelledTurnsAreCut == Spec => AbortCutsStream
<1>1. ASSUME IInv, [Next]_vars, NEW u \in cancelled PROVE Cut(u)
  <2>1. u \in Turns /\ queue[u] \in Seq(Items) /\ queue \in [Turns -> Seq(Items)]
    BY <1>1 DEF IInv, TypeOK
  <2>2. ASSUME UNCHANGED <<queue, hand>> PROVE Cut(u)
    BY <2>1, <2>2, ShorterGainsNothing DEF Cut
  <2>3. CASE UNCHANGED vars
    BY <2>2, <2>3 DEF vars, threads
  <2>4. ASSUME NEW c \in Conns, Connect(c) \/ Abort(c) \/ Disconnect(c) \/ Closed(c) PROVE Cut(u)
    BY <2>2, <2>4 DEF Connect, Abort, Disconnect, Closed, threads
  <2>5. ASSUME NEW c \in Conns, NEW t \in Turns, Submit(c, t) PROVE Cut(u)
    BY <2>2, <2>5 DEF Submit, threads
  <2>6. ASSUME NEW t \in Turns, TurnStarts(t) PROVE Cut(u)
    BY <2>2, <2>6 DEF TurnStarts
  <2>7. ASSUME NEW t \in Turns, Consume(t) PROVE Cut(u)
    <3>1. queue[t] # <<>> /\ queue' = [queue EXCEPT ![t] = Tail(@)] /\ UNCHANGED hand
      BY <2>7 DEF Consume
    <3> QED
      BY <2>1, <3>1, ShorterGainsNothing DEF Cut
  <2>8. ASSUME NEW t \in Turns, Produce(t) PROVE Cut(u)
    BY <1>1, <2>1, <2>8, ProducerGains
  <2>9. CASE AbortEnds
    BY <2>2, <2>9 DEF AbortEnds
  <2> QED
    BY <1>1, <2>3, <2>4, <2>5, <2>6, <2>7, <2>8, <2>9 DEF Next
<1>2. IInv /\ [Next]_vars =>
        [\A t \in cancelled :
           /\ hand'[t] \in {hand[t], "none"}
           /\ \A i \in 1..Len(queue'[t]) :
                Len(queue'[t]) > Len(queue[t]) /\ i > Len(queue[t]) => PutAfterAbort(t, queue'[t][i])]_vars
  BY <1>1 DEF Cut, Gains
<1> QED
  BY <1>2, Invariance, PTL DEF Spec, AbortCutsStream
=============================================================================
