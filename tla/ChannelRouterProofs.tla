------------------------ MODULE ChannelRouterProofs ------------------------
(* Proofs about ChannelRouter, for every depth of the queue, every limit of*)
(* the platform and every number of messages, sessions and commands.       *)
(* At the end, proofs about ChannelGateway, which registers adapters there. *)
EXTENDS ChannelRouter, SequenceTheorems, TLAPS

Distinct(s) == \A i, j \in 1..Len(s) : s[i] = s[j] => i = j

\* The turn that is submitted and not yet concluded.
Submitted == {"placeholder", "consume", "closing"}

\* No message is in two lists or twice in one, and a /stop is telling as long
\* as it has messages to tell about.
Lists ==
  /\ Distinct(queue)
  /\ \A c \in Commands : Distinct(drained[c]) /\ (cmd[c] = "telling" <=> drained[c] # <<>>)
  /\ \A c, d \in Commands :
       c # d => Elements(drained[c]) \cap Elements(drained[d]) = {}

\* The worker has a turn from the message it takes to the end of its delivery.
WorkerHasTurn == phase \in {"none", "new"} <=> turn.msg = None

\* What a turn has sent, phase by phase: its placeholder, its one notice, and
\* then never more than the segments that are left allow.
SentSoFar ==
  /\ phase \in {"none", "new", "resolve", "apology"} => turn.sent = 0
  /\ phase \in Submitted =>
       turn.sent <= (IF turn.noticed THEN 2 ELSE 1) /\ turn.version <= version
  /\ phase = "deliver" => turn.left >= 1 /\ turn.sent + turn.left <= ReplyLimit + 1

\* A halted message is silenced, or its turn is running and named; a rotated
\* one is silenced, or its turn is running under an older version.
Halted(m) ==
  \/ fate[m] \in {"silent", "lost"}
  \/ fate[m] = "running" /\ m = Current /\ stopped = m
Rotated(m) ==
  \/ fate[m] \in {"silent", "lost"}
  \/ fate[m] = "running" /\ phase \in Submitted /\ m = turn.msg /\ turn.version < version

Gates == (\A m \in halted : Halted(m)) /\ (\A m \in rotated : Rotated(m))

IInv ==
  TypeOK /\ NothingFallsThrough /\ Lists /\ WorkerHasTurn /\ SentSoFar /\ Gates

-----------------------------------------------------------------------------
(* The lists.                                                              *)

\* The empty list.
LEMMA EmptyList == Elements(<<>>) = {} /\ Distinct(<<>>) /\ <<>> \in Seq(Messages)
BY DEF Elements, Distinct

\* Every element of a list of messages is a message; only <<>> has none.
LEMMA ListElements ==
  ASSUME NEW s \in Seq(Messages)
  PROVE  Elements(s) \in SUBSET Messages /\ (Elements(s) = {} <=> s = <<>>)
<1>1. Elements(s) \in SUBSET Messages
  BY DEF Elements
<1>2. ASSUME s # <<>> PROVE Elements(s) # {}
  <2>1. 1 \in 1..Len(s)
    BY <1>2, EmptySeq
  <2> QED
    BY <2>1 DEF Elements
<1> QED
  BY <1>1, <1>2, EmptyList

\* A new message at the end of a list.
LEMMA AppendList ==
  ASSUME NEW s \in Seq(Messages), NEW m \in Messages
  PROVE  /\ Append(s, m) \in Seq(Messages)
         /\ Len(Append(s, m)) = Len(s) + 1
         /\ Append(s, m) # <<>>
         /\ Elements(Append(s, m)) = Elements(s) \cup {m}
         /\ Distinct(s) /\ m \notin Elements(s) => Distinct(Append(s, m))
<1>1. /\ Append(s, m) \in Seq(Messages) /\ Len(Append(s, m)) = Len(s) + 1
      /\ Len(s) \in Nat /\ Append(s, m) # <<>>
      /\ \A i \in 1..Len(s) : Append(s, m)[i] = s[i]
      /\ Append(s, m)[Len(s) + 1] = m
  BY AppendProperties, LenProperties
<1>2. 1..(Len(s) + 1) = (1..Len(s)) \cup {Len(s) + 1}
  BY <1>1
<1>3. Elements(Append(s, m)) = Elements(s) \cup {m}
  BY <1>1, <1>2 DEF Elements
<1>4. ASSUME Distinct(s), m \notin Elements(s) PROVE Distinct(Append(s, m))
  BY <1>1, <1>2, <1>4 DEF Distinct, Elements
<1> QED
  BY <1>1, <1>3, <1>4

\* A list without its first message.
LEMMA TailList ==
  ASSUME NEW s \in Seq(Messages), s # <<>>, Distinct(s)
  PROVE  /\ Head(s) \in Elements(s)
         /\ Tail(s) \in Seq(Messages)
         /\ Len(Tail(s)) = Len(s) - 1
         /\ Elements(Tail(s)) = Elements(s) \ {Head(s)}
         /\ Distinct(Tail(s))
         /\ Len(s) = 1 <=> Tail(s) = <<>>
<1>1. /\ Tail(s) \in Seq(Messages) /\ Len(Tail(s)) = Len(s) - 1
      /\ Len(s) \in Nat \ {0} /\ Head(s) = s[1]
      /\ \A i \in 1..(Len(s) - 1) : Tail(s)[i] = s[i + 1]
  BY HeadTailProperties, EmptySeq
<1>2. Elements(Tail(s)) = Elements(s) \ {Head(s)}
  <2>1. \A i \in 1..(Len(s) - 1) : i + 1 \in 1..Len(s) /\ i + 1 # 1
    BY <1>1
  <2>2. Elements(Tail(s)) \subseteq Elements(s) \ {Head(s)}
    BY <1>1, <2>1 DEF Elements, Distinct
  <2>3. \A i \in 1..Len(s) : i # 1 => i - 1 \in 1..(Len(s) - 1) /\ (i - 1) + 1 = i
    BY <1>1
  <2>4. Elements(s) \ {Head(s)} \subseteq Elements(Tail(s))
    BY <1>1, <2>3 DEF Elements
  <2> QED
    BY <2>2, <2>4
<1>3. Distinct(Tail(s))
  BY <1>1 DEF Distinct
<1>4. Head(s) \in Elements(s)
  BY <1>1 DEF Elements
<1>5. Len(s) = 1 <=> Tail(s) = <<>>
  <2>1. Tail(s) = <<>> => Len(Tail(s)) = 0
    BY EmptySeq
  <2>2. Tail(s) # <<>> => Len(Tail(s)) # 0
    BY <1>1, EmptySeq
  <2> QED
    BY <1>1, <2>1, <2>2
<1> QED
  BY <1>1, <1>2, <1>3, <1>4, <1>5

-----------------------------------------------------------------------------
(* The steps.                                                              *)

\* What has been settled stays as it is.
Kept == \A m \in Messages : fate[m] \in Settled => fate'[m] = fate[m]

LEMMA NoneIsNoMessage == None \notin Messages /\ None \notin Sessions
BY NoneAssumption DEF Messages, Sessions

LEMMA InitEstablishes == Init => IInv
<1> SUFFICES ASSUME Init PROVE IInv
  OBVIOUS
<1> USE DEF Init
<1>1. TypeOK
  <2>1. NoTurn \in Turn
    BY DEF NoTurn, Turn
  <2>2. drained \in [Commands -> Seq(Messages)] /\ Len(queue) <= QueueDepth
    BY EmptyList, EmptySeq, DepthAssumption
  <2>3. 0 \in 0..MaxReconnects /\ 0 \in 0..MaxSessions
    BY BoundsAssumption
  <2>4. /\ text \in [Sessions -> Messages \cup {None}]
        /\ cmd \in [Commands -> {"fresh", "telling", "aborting", "creating", "done"}]
        /\ fate \in [Messages -> Fates] /\ answer \in [Messages -> Messages \cup {None}]
    BY DEF Fates
  <2> QED
    BY <2>1, <2>2, <2>3, <2>4, EmptyList DEF TypeOK
<1>2. NothingFallsThrough
  BY EmptyList, NoneIsNoMessage DEF NothingFallsThrough, NoTurn
<1>3. Lists
  BY EmptyList DEF Lists
<1>4. WorkerHasTurn /\ SentSoFar /\ Gates
  BY DEF WorkerHasTurn, SentSoFar, Gates, NoTurn, Submitted
<1> QED
  BY <1>1, <1>2, <1>3, <1>4 DEF IInv

\* The worker ends a turn and takes the next message, or returns.
LEMMA TakeNextPreserves ==
  ASSUME IInv, NEW ended, NEW f \in Settled \cup {"fresh"}, TakeNext(ended, f),
         ended = {m \in Messages : fate[m] = "running"},
         \A m \in ended :
           f \in Settled /\ (m \in halted \cup rotated => f \in {"silent", "lost"}),
         stopped' \in Messages \cup {None},
         UNCHANGED <<version, answer, halted, rotated, chosen, instance, data, handlers>>
  PROVE  IInv' /\ Kept
<1> USE NoneIsNoMessage
<1> DEFINE middle == Become(ended, f)
<1>1. /\ middle \in [Messages -> Fates]
      /\ \A m \in Messages : middle[m] = IF m \in ended THEN f ELSE fate[m]
  BY DEF middle, Become, IInv, TypeOK, Fates
<1>2. \A m \in Messages :
        /\ middle[m] # "running"
        /\ fate[m] \in Settled => middle[m] = fate[m]
        /\ middle[m] = "queued" <=> m \in Elements(queue)
        /\ middle[m] = "drained" <=> \E c \in Commands : m \in Elements(drained[c])
  BY <1>1 DEF IInv, NothingFallsThrough, Settled
<1>3. \A m \in halted \cup rotated : middle[m] \in {"silent", "lost"}
  BY <1>1 DEF IInv, TypeOK, Gates, Halted, Rotated
<1>4. UNCHANGED <<version, answer, halted, rotated, chosen, reconnects, registered,
                  active, sessions, usable, text, cmd, drained, stale>>
  BY DEF instance, data, handlers
<1>5. CASE queue = <<>>
  <2>1. phase' = "none" /\ turn' = NoTurn /\ fate' = middle /\ queue' = queue
    BY <1>5 DEF TakeNext, middle
  <2> HIDE DEF middle
  <2>2. TypeOK'
    BY <1>1, <1>4, <2>1 DEF IInv, TypeOK, NoTurn, Turn
  <2>3. NothingFallsThrough'
    BY <1>2, <1>4, <1>5, <2>1 DEF NothingFallsThrough, NoTurn
  <2>4. Lists'
    BY <1>4, <2>1 DEF IInv, Lists
  <2>5. WorkerHasTurn' /\ SentSoFar'
    BY <2>1 DEF WorkerHasTurn, SentSoFar, NoTurn, Submitted
  <2>6. Gates'
    BY <1>3, <1>4, <2>1 DEF Gates, Halted, Rotated
  <2>7. Kept
    BY <1>2, <2>1 DEF Kept
  <2> QED
    BY <2>2, <2>3, <2>4, <2>5, <2>6, <2>7 DEF IInv
<1>6. CASE queue # <<>>
  <2> DEFINE m == Head(queue)
  <2>1. /\ queue' = Tail(queue)
        /\ fate' = [middle EXCEPT ![m] = "running"]
        /\ phase' \in {"apology", "resolve", "placeholder"}
    BY <1>6 DEF TakeNext, Submit, middle
  <2>2. /\ turn' \in Turn /\ turn'.msg = m
        /\ phase' \in {"apology", "resolve"} => turn'.sent = 0
        /\ phase' = "placeholder" => turn'.sent = 1 /\ turn'.version = version
    <3>1. m \in Messages /\ version \in Nat
      BY <1>6, TailList, ListElements DEF IInv, TypeOK, Lists
    <3>2. CASE phase' = "apology" /\ turn' = [NoTurn EXCEPT !.msg = m]
      BY <3>1, <3>2 DEF NoTurn, Turn
    <3>3. CASE phase' = "resolve" /\ turn' = [NoTurn EXCEPT !.msg = m]
      BY <3>1, <3>3 DEF NoTurn, Turn
    <3>4. CASE active \in usable /\ Submit(m, active)
      <4>1. active \in Sessions
        BY <3>4, BoundsAssumption DEF IInv, TypeOK, Sessions
      <4> QED
        BY <3>1, <3>4, <4>1 DEF Submit, NoTurn, Turn
    <3> QED
      BY <1>6, <3>2, <3>3, <3>4 DEF TakeNext
  <2>3. /\ m \in Messages /\ m \in Elements(queue)
        /\ queue' \in Seq(Messages) /\ Len(queue') <= QueueDepth
        /\ Elements(queue') = Elements(queue) \ {m} /\ Distinct(queue')
    <3>1. queue \in Seq(Messages) /\ Distinct(queue) /\ Len(queue) <= QueueDepth
      BY DEF IInv, TypeOK, Lists
    <3>2. Len(Tail(queue)) <= QueueDepth
      BY <1>6, <3>1, TailList, LenProperties, DepthAssumption
    <3>3. m \in Elements(queue) /\ Elements(queue) \in SUBSET Messages
      BY <1>6, <3>1, TailList, ListElements
    <3> QED
      BY <1>6, <2>1, <3>1, <3>2, <3>3, TailList
  <2> HIDE DEF middle, m
  <2>4. middle[m] = "queued"
    BY <1>2, <2>3
  <2>5. \A n \in Messages : fate'[n] = IF n = m THEN "running" ELSE middle[n]
    BY <1>1, <2>1
  <2>6. TypeOK'
    BY <1>1, <1>4, <2>1, <2>2, <2>3 DEF IInv, TypeOK, Busy, Fates
  <2>7. NothingFallsThrough'
    BY <1>2, <1>4, <2>1, <2>2, <2>3, <2>4, <2>5 DEF NothingFallsThrough
  <2>8. Lists'
    BY <1>4, <2>3 DEF IInv, Lists
  <2>9. WorkerHasTurn' /\ SentSoFar'
    BY <1>4, <2>1, <2>2, <2>3 DEF IInv, TypeOK, WorkerHasTurn, SentSoFar, Submitted
  <2>10. Gates'
    <3>1. m \notin halted \cup rotated
      BY <1>3, <2>4
    <3> QED
      BY <1>3, <1>4, <2>5, <3>1 DEF IInv, TypeOK, Gates, Halted, Rotated
  <2>11. Kept
    BY <1>2, <2>4, <2>5 DEF Kept, Settled
  <2> QED
    BY <2>6, <2>7, <2>8, <2>9, <2>10, <2>11 DEF IInv
<1> QED
  BY <1>5, <1>6

\* The steps within a turn: the lists, the fates and the gates are left alone.
LEMMA WithinTurnPreserves ==
  ASSUME IInv, TypeOK', SentSoFar', turn'.msg = turn.msg,
         phase \in Busy \ {"new"}, phase' \in Busy \ {"new"},
         phase = "deliver" <=> phase' = "deliver",
         phase \in Submitted => phase' \in Submitted /\ turn'.version = turn.version,
         phase \in {"consume", "closing"} => phase' \in {"consume", "closing"},
         UNCHANGED <<queue, version, stopped, handlers, history>>
  PROVE  IInv' /\ Kept
<1>1. UNCHANGED <<queue, version, stopped, cmd, drained, fate, halted, rotated>>
  BY DEF handlers, history
<1>2. NothingFallsThrough' /\ Lists'
  BY <1>1 DEF IInv, NothingFallsThrough, Lists, Busy
<1>3. WorkerHasTurn'
  BY DEF IInv, WorkerHasTurn, Busy
<1>4. Gates'
  <2>1. halted \in SUBSET Messages /\ Gates /\ turn'.msg = turn.msg
    BY DEF IInv, TypeOK
  <2>2. ASSUME NEW m \in halted PROVE Halted(m)'
    BY <1>1, <2>1, <2>2, NoneIsNoMessage DEF Gates, Halted, Current
  <2>3. ASSUME NEW m \in rotated PROVE Rotated(m)'
    BY <1>1, <2>1, <2>3 DEF Gates, Rotated
  <2> QED
    BY <1>1, <2>2, <2>3 DEF Gates
<1>5. Kept
  BY <1>1 DEF Kept
<1> QED
  BY <1>2, <1>3, <1>4, <1>5 DEF IInv

LEMMA TurnStepsPreserve ==
  ASSUME IInv, Resolved \/ ResolveFails \/ PlaceholderSent \/ Notice \/ RowCreated
               \/ TurnEnds \/ SegmentSent
  PROVE  IInv' /\ Kept
<1> USE NoneIsNoMessage, LimitAssumption DEF Busy, Submitted
<1>t. TypeOK /\ SentSoFar /\ WorkerHasTurn
  BY DEF IInv
<1>u. /\ turn \in Turn /\ version \in Nat
      /\ turn.sent \in Nat /\ turn.left \in Nat /\ turn.version \in Nat
      /\ turn.msg \in Messages \cup {None} /\ turn.session \in Sessions \cup {None}
  BY <1>t DEF TypeOK, Turn
<1>1. CASE Resolved
  <2>1. PICK s \in Sessions : NewSession(s) /\ active' = s /\ Submit(turn.msg, s)
    BY <1>1 DEF Resolved
  <2>2. /\ turn' \in Turn /\ turn'.msg = turn.msg /\ turn'.sent = 1
        /\ turn'.version = version /\ phase = "resolve" /\ phase' = "placeholder"
    BY <1>1, <1>u, <2>1 DEF Resolved, Submit, NoTurn, Turn
  <2>3. sessions' \in 0..MaxSessions /\ usable' \in SUBSET (1..sessions')
    BY <1>t, <2>1, BoundsAssumption DEF TypeOK, NewSession, Sessions
  <2>4. UNCHANGED <<queue, version, stopped, text, instance, handlers, history>>
    BY <1>1 DEF Resolved
  <2>5. TypeOK'
    BY <1>t, <2>1, <2>2, <2>3, <2>4 DEF TypeOK, instance, handlers, history
  <2>6. SentSoFar'
    BY <1>u, <2>2, <2>4 DEF SentSoFar
  <2> QED
    BY <2>2, <2>4, <2>5, <2>6, WithinTurnPreserves
<1>2. CASE ResolveFails
  <2>1. /\ UNCHANGED <<queue, turn, version, stopped, instance, data, handlers, history>>
        /\ phase = "resolve" /\ phase' = "apology"
    BY <1>2 DEF ResolveFails
  <2>2. TypeOK' /\ SentSoFar'
    BY <1>t, <2>1 DEF TypeOK, SentSoFar, instance, data, handlers, history
  <2> QED
    BY <2>1, <2>2, WithinTurnPreserves
<1>3. CASE PlaceholderSent
  <2>1. /\ UNCHANGED <<queue, turn, version, stopped, instance, data, handlers, history>>
        /\ phase = "placeholder" /\ phase' = "consume"
    BY <1>3 DEF PlaceholderSent
  <2>2. TypeOK' /\ SentSoFar'
    BY <1>t, <2>1 DEF TypeOK, SentSoFar, instance, data, handlers, history
  <2> QED
    BY <2>1, <2>2, WithinTurnPreserves
<1>4. CASE Notice
  <2>1. /\ UNCHANGED <<queue, phase, version, stopped, instance, data, handlers, history>>
        /\ phase = "consume" /\ ~turn.noticed
    BY <1>4 DEF Notice
  <2>2. /\ turn' \in Turn /\ turn'.msg = turn.msg /\ turn'.version = turn.version
        /\ turn'.noticed /\ turn'.sent = turn.sent + 1
    <3>1. turn' = [turn EXCEPT !.noticed = TRUE, !.sent = turn.sent + 1]
      BY <1>4 DEF Notice
    <3>2. turn.sent + 1 \in Nat
      BY <1>u
    <3> QED
      BY <1>u, <3>1, <3>2, Zenon DEF Turn
  <2>3. TypeOK' /\ SentSoFar'
    BY <1>t, <1>u, <2>1, <2>2 DEF TypeOK, SentSoFar, instance, data, handlers, history
  <2> QED
    BY <2>1, <2>2, <2>3, WithinTurnPreserves
<1>5. CASE RowCreated
  <2>1. /\ UNCHANGED <<queue, phase, version, stopped, active, sessions, usable>>
        /\ UNCHANGED <<instance, handlers, history>> /\ phase = "consume"
        /\ text' = [text EXCEPT ![turn.session] = None]
    BY <1>5 DEF RowCreated
  <2>2. /\ turn' \in Turn /\ turn'.msg = turn.msg /\ turn'.version = turn.version
        /\ turn'.noticed = turn.noticed /\ turn'.sent = turn.sent
    BY <1>5, <1>u DEF RowCreated, Turn
  <2>3. TypeOK' /\ SentSoFar'
    BY <1>t, <1>u, <2>1, <2>2 DEF TypeOK, SentSoFar, instance, handlers, history
  <2> QED
    BY <2>1, <2>2, <2>3, WithinTurnPreserves
<1>6. CASE TurnEnds
  <2>1. PICK r \in {"final", "empty", "error", "aborted"}, saved \in BOOLEAN :
          /\ turn' = [turn EXCEPT !.result = r]
          /\ text' = IF saved THEN [text EXCEPT ![turn.session] = turn.msg] ELSE text
    BY <1>6 DEF TurnEnds
  <2>2. /\ UNCHANGED <<queue, version, stopped, active, sessions, usable>>
        /\ UNCHANGED <<instance, handlers, history>>
        /\ phase = "consume" /\ phase' = "closing"
    BY <1>6 DEF TurnEnds
  <2>3. /\ turn' \in Turn /\ turn'.msg = turn.msg /\ turn'.version = turn.version
        /\ turn'.noticed = turn.noticed /\ turn'.sent = turn.sent
    BY <1>u, <2>1 DEF Turn
  <2>4. text' \in [Sessions -> Messages \cup {None}]
    BY <1>t, <1>u, <2>1 DEF TypeOK
  <2>5. TypeOK' /\ SentSoFar'
    BY <1>t, <1>u, <2>2, <2>3, <2>4 DEF TypeOK, SentSoFar, instance, handlers, history
  <2> QED
    BY <2>2, <2>3, <2>5, WithinTurnPreserves
<1>7. CASE SegmentSent
  <2>1. /\ UNCHANGED <<queue, phase, version, stopped, instance, data, handlers, history>>
        /\ phase = "deliver" /\ turn.left > 1
    BY <1>7 DEF SegmentSent
  <2>2. /\ turn' \in Turn /\ turn'.msg = turn.msg
        /\ turn'.left = turn.left - 1 /\ turn'.sent = turn.sent + 1
    <3>1. turn' = [turn EXCEPT !.left = turn.left - 1, !.sent = turn.sent + 1]
      BY <1>7 DEF SegmentSent
    <3>2. turn.left - 1 \in Nat /\ turn.sent + 1 \in Nat
      BY <1>u, <2>1
    <3> QED
      BY <1>u, <3>1, <3>2 DEF Turn
  <2>3. TypeOK'
    BY <1>t, <2>1, <2>2 DEF TypeOK, instance, data, handlers, history
  <2>4. turn'.left >= 1 /\ turn'.sent + turn'.left <= ReplyLimit + 1
    <3>1. turn.sent + turn.left <= ReplyLimit + 1
      BY <2>1 DEF IInv, SentSoFar
    <3>2. PICK l, n \in Nat : l = turn.left /\ n = turn.sent
      BY <1>u
    <3>3. l > 1 /\ n + l <= ReplyLimit + 1 /\ turn'.left = l - 1 /\ turn'.sent = n + 1 /\ ReplyLimit \in Nat
      BY <2>1, <2>2, <3>1, <3>2, LimitAssumption
    <3> QED
      BY ONLY <3>3, l \in Nat, n \in Nat
  <2>5. SentSoFar'
    BY <2>1, <2>4 DEF SentSoFar, Submitted
  <2> QED
    BY <2>1, <2>2, <2>3, <2>5, WithinTurnPreserves
<1> QED
  BY <1>1, <1>2, <1>3, <1>4, <1>5, <1>6, <1>7

\* The message of the worker is the one that is running, until it is delivered.
LEMMA RunningIsCurrent ==
  ASSUME IInv
  PROVE  /\ phase \in {"new", "deliver"} => {m \in Messages : fate[m] = "running"} = {}
         /\ phase \in Busy \ {"new", "deliver"} =>
              {m \in Messages : fate[m] = "running"} = {turn.msg} /\ turn.msg \in Messages
<1>1. turn.msg \in Messages \cup {None}
  BY DEF IInv, TypeOK, Turn
<1> QED
  BY <1>1, NoneIsNoMessage DEF IInv, NothingFallsThrough, WorkerHasTurn, Busy

LEMMA EndingStepsPreserve ==
  ASSUME IInv, WorkerStarts \/ ProcessRaises \/ Apologised \/ DeliveryEnds
  PROVE  IInv' /\ Kept
<1> USE NoneIsNoMessage, RunningIsCurrent DEF Busy
<1>1. /\ UNCHANGED <<version, stopped, answer, halted, rotated, chosen>>
      /\ UNCHANGED <<instance, data, handlers>>
  BY DEF WorkerStarts, ProcessRaises, Apologised, DeliveryEnds
<1>2. stopped' \in Messages \cup {None}
  BY <1>1 DEF IInv, TypeOK
<1>3. CASE WorkerStarts \/ DeliveryEnds
  <2>1. TakeNext({}, "fresh") /\ {} = {m \in Messages : fate[m] = "running"}
    BY <1>3 DEF WorkerStarts, DeliveryEnds
  <2> QED
    BY <1>1, <1>2, <2>1, TakeNextPreserves
<1>4. CASE ProcessRaises
  <2>1. TakeNext({turn.msg}, "lost") /\ {turn.msg} = {m \in Messages : fate[m] = "running"}
    BY <1>4 DEF ProcessRaises
  <2>2. "lost" \in Settled
    BY DEF Settled
  <2> QED
    BY <1>1, <1>2, <2>1, <2>2, TakeNextPreserves
<1>5. CASE Apologised
  <2>1. /\ TakeNext({turn.msg}, "failed") /\ phase = "apology"
        /\ {turn.msg} = {m \in Messages : fate[m] = "running"} /\ turn.msg \in Messages
    BY <1>5 DEF Apologised
  <2>2. "failed" \in Settled
    BY DEF Settled
  <2>3. turn.msg \notin halted \cup rotated
    BY <2>1 DEF IInv, Gates, Halted, Rotated, Current, Submitted
  <2> QED
    BY <1>1, <1>2, <2>1, <2>2, <2>3, TakeNextPreserves
<1> QED
  BY <1>3, <1>4, <1>5

\* A turn is concluded: in silence, or with the delivery the gates allow.
LEMMA ConcludePreserves ==
  ASSUME IInv, Conclude
  PROVE  IInv' /\ Kept
<1> USE NoneIsNoMessage
<1>1. /\ phase = "closing"
      /\ stopped' = IF stopped = turn.msg THEN None ELSE stopped
      /\ UNCHANGED <<version, halted, rotated, chosen, instance, data, handlers>>
  BY DEF Conclude
<1>2. turn.msg \in Messages /\ {turn.msg} = {m \in Messages : fate[m] = "running"}
  BY <1>1, RunningIsCurrent DEF Busy
<1>3. stopped' \in Messages \cup {None}
  BY <1>1 DEF IInv, TypeOK
<1>4. CASE TakeNext({turn.msg}, "silent") /\ UNCHANGED answer
  <2>1. "silent" \in Settled
    BY DEF Settled
  <2> QED
    BY <1>1, <1>2, <1>3, <1>4, <2>1, TakeNextPreserves
<1>5. ASSUME NEW owner \in Messages \cup {None}, NEW f \in {"failed", "answered"},
             Deliver(owner, f), stopped # turn.msg, version = turn.version
      PROVE  IInv' /\ Kept
  <2>1. /\ phase' = "deliver" /\ answer' = [answer EXCEPT ![turn.msg] = owner]
        /\ fate' = Become({turn.msg}, f) /\ UNCHANGED queue
    BY <1>5 DEF Deliver
  <2>2. \A m \in Messages : fate'[m] = IF m = turn.msg THEN f ELSE fate[m]
    BY <2>1 DEF Become
  <2>3. /\ turn.sent \in Nat /\ turn.sent <= 2 /\ version \in Nat
        /\ turn \in Turn /\ ReplyLimit \in Nat /\ ReplyLimit > turn.sent
    BY <1>1, LimitAssumption DEF IInv, TypeOK, Turn, SentSoFar, Submitted
  <2>4. PICK n \in 1..(ReplyLimit - turn.sent) :
          turn' = [turn EXCEPT !.left = n, !.sent = turn.sent + 1]
    BY <1>5, <2>3 DEF Deliver
  <2>5. n \in Nat /\ turn.sent + 1 \in Nat
    BY <2>3, <2>4
  <2>6. /\ turn' \in Turn /\ turn'.msg = turn.msg
        /\ turn'.left = n /\ turn'.sent = turn.sent + 1
    BY <2>3, <2>4, <2>5 DEF Turn
  <2>7. UNCHANGED <<version, halted, rotated, chosen, reconnects, registered,
                    active, sessions, usable, text, cmd, drained, stale, queue>>
    BY <1>1, <2>1 DEF instance, data, handlers
  <2>8. fate' \in [Messages -> Fates] /\ answer' \in [Messages -> Messages \cup {None}]
    BY <1>5, <2>1 DEF IInv, TypeOK, Become, Fates, Settled
  <2>9. TypeOK'
    BY <1>3, <2>1, <2>6, <2>7, <2>8 DEF IInv, TypeOK, Busy
  <2>10. NothingFallsThrough'
    BY <1>2, <1>5, <2>1, <2>2, <2>6, <2>7 DEF IInv, NothingFallsThrough
  <2>11. Lists' /\ WorkerHasTurn'
    BY <1>2, <2>1, <2>6, <2>7 DEF IInv, Lists, WorkerHasTurn
  <2>12. SentSoFar'
    BY <2>1, <2>3, <2>4, <2>5, <2>6 DEF SentSoFar, Submitted
  <2>13. Gates'
    <3>1. turn.msg \notin halted \cup rotated
      BY <1>2, <1>5, <2>3 DEF IInv, Gates, Halted, Rotated
    <3>2. \A m \in halted \cup rotated : m \in Messages /\ fate[m] \in {"silent", "lost"}
      BY <1>2, <3>1 DEF IInv, TypeOK, Gates, Halted, Rotated
    <3> QED
      BY <2>2, <2>7, <3>1, <3>2 DEF Gates, Halted, Rotated
  <2>14. Kept
    BY <1>2, <2>2 DEF Kept, Settled
  <2> QED
    BY <2>9, <2>10, <2>11, <2>12, <2>13, <2>14 DEF IInv
<1>6. CASE \E owner \in Messages \cup {None}, f \in {"failed", "answered"} :
             Deliver(owner, f) /\ stopped # turn.msg /\ version = turn.version
  BY <1>5, <1>6
<1>7. (IF turn.result = "final" THEN turn.msg
       ELSE IF turn.session \in usable THEN text[turn.session] ELSE None)
         \in Messages \cup {None}
  <2>1. turn.session \in usable => turn.session \in Sessions
    <3>1. usable \in SUBSET (1..sessions) /\ sessions \in 0..MaxSessions
      BY DEF IInv, TypeOK
    <3>2. 1..sessions \subseteq 1..MaxSessions
      BY <3>1, BoundsAssumption
    <3> QED
      BY <3>1, <3>2 DEF Sessions
  <2> QED
    BY <1>2, <2>1 DEF IInv, TypeOK
<1> QED
  BY <1>4, <1>6, <1>7 DEF Conclude, DeliveryAllowed

-----------------------------------------------------------------------------
(* Messages and commands.                                                  *)

LEMMA InboundPreserves ==
  ASSUME IInv, NEW m \in Messages, Refuse(m) \/ Inbound(m)
  PROVE  IInv' /\ Kept
<1> USE NoneIsNoMessage
<1>1. fate[m] = "fresh"
  BY DEF Refuse, Inbound, FirstSeen
<1>2. m \notin halted \cup rotated /\ m \notin Elements(queue)
  BY <1>1 DEF IInv, Gates, Halted, Rotated, NothingFallsThrough
<1>3. CASE Refuse(m)
  <2>1. /\ fate' = Become({m}, "refused")
        /\ UNCHANGED <<answer, halted, rotated, chosen, instance, route, data, handlers>>
    BY <1>3 DEF Refuse
  <2>2. /\ \A n \in Messages : fate'[n] = IF n = m THEN "refused" ELSE fate[n]
        /\ fate' \in [Messages -> Fates]
    BY <2>1 DEF Become, IInv, TypeOK, Fates, Settled
  <2>3. UNCHANGED <<answer, halted, rotated, chosen, reconnects, registered, queue, phase,
                    turn, version, stopped, active, sessions, usable, text, cmd, drained,
                    stale>>
    BY <2>1 DEF instance, route, data, handlers
  <2>4. TypeOK'
    BY <2>2, <2>3 DEF IInv, TypeOK
  <2>5. NothingFallsThrough'
    BY <1>1, <2>2, <2>3 DEF IInv, NothingFallsThrough
  <2>6. Lists' /\ WorkerHasTurn' /\ SentSoFar'
    BY <2>3 DEF IInv, Lists, WorkerHasTurn, SentSoFar
  <2>7. Gates'
    BY <1>2, <2>2, <2>3 DEF IInv, TypeOK, Gates, Halted, Rotated, Current
  <2>8. Kept
    BY <1>1, <2>2 DEF Kept, Settled
  <2> QED
    BY <2>4, <2>5, <2>6, <2>7, <2>8 DEF IInv
<1>4. CASE Inbound(m)
  <2>1. /\ queue' = Append(queue, m) /\ Len(queue) < QueueDepth
        /\ fate' = Become({m}, "queued")
        /\ phase' = IF phase = "none" THEN "new" ELSE phase
        /\ UNCHANGED <<turn, version, stopped, answer, halted, rotated, chosen>>
        /\ UNCHANGED <<instance, data, handlers>>
    BY <1>4 DEF Inbound
  <2>2. /\ \A n \in Messages : fate'[n] = IF n = m THEN "queued" ELSE fate[n]
        /\ fate' \in [Messages -> Fates]
    BY <2>1 DEF Become, IInv, TypeOK, Fates
  <2>3. UNCHANGED <<reconnects, registered, active, sessions, usable, text, cmd, drained,
                    stale>>
    BY <2>1 DEF instance, data, handlers
  <2>4. queue \in Seq(Messages) /\ Distinct(queue) /\ Len(queue) \in Nat
    BY LenProperties DEF IInv, TypeOK, Lists
  <2>5. /\ queue' \in Seq(Messages) /\ Len(queue') <= QueueDepth /\ queue' # <<>>
        /\ Elements(queue') = Elements(queue) \cup {m} /\ Distinct(queue')
    BY <1>2, <2>1, <2>4, AppendList, DepthAssumption
  <2>6. TypeOK'
    BY <2>1, <2>2, <2>3, <2>5 DEF IInv, TypeOK, Busy
  <2>7. NothingFallsThrough'
    <3>1. phase' # "none"
      BY <2>1
    <3>2. turn.msg # m \/ phase = "deliver"
      BY <1>1 DEF IInv, NothingFallsThrough
    <3> QED
      BY <1>1, <2>1, <2>2, <2>3, <2>5, <3>1, <3>2 DEF IInv, NothingFallsThrough
  <2>8. Lists'
    BY <2>3, <2>5 DEF IInv, Lists
  <2>9. WorkerHasTurn' /\ SentSoFar'
    BY <2>1 DEF IInv, WorkerHasTurn, SentSoFar, Submitted
  <2>10. Gates'
    BY <1>2, <2>1, <2>2 DEF IInv, TypeOK, Gates, Halted, Rotated, Current, Submitted
  <2>11. Kept
    BY <1>1, <2>2 DEF Kept, Settled
  <2> QED
    BY <2>6, <2>7, <2>8, <2>9, <2>10, <2>11 DEF IInv
<1> QED
  BY <1>3, <1>4

\* What naming the current turn does to the gates, if no message of it is settled
\* in the same step.
LEMMA NamingKeepsGates ==
  ASSUME IInv, NEW c \in Commands, NameCurrent(c) \/ UNCHANGED <<stopped, halted>>,
         UNCHANGED <<phase, turn, version, rotated>>,
         \A m \in Messages :
           fate[m] \in {"running", "silent", "lost"} => fate'[m] = fate[m]
  PROVE  Gates' /\ stopped' \in Messages \cup {None} /\ halted' \in SUBSET Messages
<1> USE NoneIsNoMessage
<1>1. /\ halted \in SUBSET Messages /\ rotated \in SUBSET Messages
      /\ stopped \in Messages \cup {None} /\ Gates
  BY DEF IInv, TypeOK
<1>2. Current # None => Current \in Messages /\ fate[Current] = "running"
  <2>1. phase \in {"consume", "closing"} => turn.msg \in Messages /\ fate[turn.msg] = "running"
    BY RunningIsCurrent DEF Busy
  <2> QED
    BY <2>1 DEF Current
<1>3. Current' = Current
  BY DEF Current
<1>4. ASSUME NEW m \in rotated PROVE Rotated(m)'
  BY <1>1 DEF Gates, Rotated
<1>5. CASE UNCHANGED <<stopped, halted>>
  BY <1>1, <1>3, <1>4, <1>5 DEF Gates, Halted
<1>6. CASE /\ Current # None
           /\ stopped' = Current
           /\ halted' = halted \cup {Current}
  <2>1. ASSUME NEW m \in halted' PROVE Halted(m)'
    BY <1>1, <1>2, <1>3, <1>6 DEF Gates, Halted
  <2> QED
    BY <1>1, <1>2, <1>4, <1>6, <2>1 DEF Gates
<1> QED
  BY <1>5, <1>6 DEF NameCurrent

\* How naming the turn moves the handler of the command.
LEMMA NamingMovesOn ==
  ASSUME IInv, NEW c \in Commands, NameCurrent(c)
  PROVE  \E stage \in {"done", "aborting"} : cmd' = [cmd EXCEPT ![c] = stage]
BY DEF NameCurrent, Goes

\* /stop drains the queue into its own list.
LEMMA StopPreserves ==
  ASSUME IInv, NEW c \in Commands, Stop(c)
  PROVE  IInv' /\ Kept
<1> USE NoneIsNoMessage
<1>1. /\ cmd[c] = "fresh" /\ queue' = <<>> /\ drained' = [drained EXCEPT ![c] = queue]
      /\ fate' = Become(Elements(queue), "drained")
      /\ UNCHANGED <<phase, turn, version, stale, answer, rotated, chosen, instance, data>>
  BY DEF Stop
<1>2. UNCHANGED <<reconnects, registered, active, sessions, usable, text>>
  BY <1>1 DEF instance, data
<1>3. /\ queue \in Seq(Messages) /\ Distinct(queue) /\ Elements(queue) \in SUBSET Messages
      /\ drained \in [Commands -> Seq(Messages)] /\ drained[c] = <<>>
      /\ cmd \in [Commands -> {"fresh", "telling", "aborting", "creating", "done"}]
  BY <1>1, ListElements DEF IInv, TypeOK, Lists
<1>4. PICK stage \in {"telling", "done", "aborting"} :
        /\ cmd' = [cmd EXCEPT ![c] = stage]
        /\ stage = "telling" <=> queue # <<>>
  <2>1. CASE queue = <<>>
    BY <2>1, NamingMovesOn DEF Stop
  <2>2. CASE queue # <<>>
    BY <2>2 DEF Stop, Goes
  <2> QED
    BY <2>1, <2>2
<1>5. /\ \A m \in Messages : fate'[m] = IF m \in Elements(queue) THEN "drained" ELSE fate[m]
      /\ fate' \in [Messages -> Fates]
  BY <1>1 DEF Become, IInv, TypeOK, Fates
<1>6. \A m \in Elements(queue) : fate[m] = "queued"
  BY <1>3 DEF IInv, NothingFallsThrough
<1>7. Gates' /\ stopped' \in Messages \cup {None} /\ halted' \in SUBSET Messages
  <2>1. NameCurrent(c) \/ UNCHANGED <<stopped, halted>>
    BY DEF Stop
  <2>2. \A m \in Messages :
          fate[m] \in {"running", "silent", "lost"} => fate'[m] = fate[m]
    BY <1>5, <1>6
  <2> QED
    BY <1>1, <2>1, <2>2, NamingKeepsGates
<1>8. TypeOK'
  <2>1. Len(queue') <= QueueDepth /\ queue' \in Seq(Messages)
    BY <1>1, EmptyList, EmptySeq, DepthAssumption
  <2> QED
    BY <1>1, <1>2, <1>3, <1>4, <1>5, <1>7, <2>1 DEF IInv, TypeOK
<1>9. NothingFallsThrough'
  <2>1. Elements(queue') = {}
    BY <1>1, EmptyList
  <2>2. ASSUME NEW m \in Messages
        PROVE  fate'[m] = "drained" <=> \E d \in Commands : m \in Elements(drained'[d])
    <3>1. \A d \in Commands : drained'[d] = IF d = c THEN queue ELSE drained[d]
      BY <1>1, <1>3
    <3>2. m \notin Elements(drained[c])
      BY <1>3, EmptyList
    <3> QED
      BY <1>5, <3>1, <3>2 DEF IInv, NothingFallsThrough
  <2> QED
    BY <1>1, <1>5, <1>6, <2>1, <2>2 DEF IInv, NothingFallsThrough
<1>10. Lists'
  <2>1. \A d \in Commands : drained'[d] = IF d = c THEN queue ELSE drained[d]
    BY <1>1, <1>3
  <2>2. \A d \in Commands : Elements(queue) \cap Elements(drained[d]) = {}
    BY <1>3, <1>6 DEF IInv, NothingFallsThrough
  <2>3. \A d, e \in Commands :
          d # e => Elements(drained'[d]) \cap Elements(drained'[e]) = {}
    BY <2>1, <2>2 DEF IInv, Lists
  <2>4. \A d \in Commands : cmd'[d] = "telling" <=> drained'[d] # <<>>
    BY <1>3, <1>4, <2>1 DEF IInv, Lists
  <2> QED
    BY <1>1, <1>3, <2>1, <2>3, <2>4, EmptyList DEF IInv, Lists
<1>11. WorkerHasTurn' /\ SentSoFar'
  BY <1>1 DEF IInv, WorkerHasTurn, SentSoFar
<1>12. Kept
  BY <1>5, <1>6 DEF Kept, Settled
<1> QED
  BY <1>7, <1>8, <1>9, <1>10, <1>11, <1>12 DEF IInv

\* /stop tells about one message of its list.
LEMMA TellPreserves ==
  ASSUME IInv, NEW c \in Commands, Tell(c)
  PROVE  IInv' /\ Kept
<1> USE NoneIsNoMessage
<1> DEFINE h == Head(drained[c])
<1>1. /\ cmd[c] = "telling" /\ drained' = [drained EXCEPT ![c] = Tail(drained[c])]
      /\ fate' = Become({h}, "cancelled")
      /\ UNCHANGED <<queue, phase, turn, version, stale, answer, rotated, chosen>>
      /\ UNCHANGED <<instance, data>>
  BY DEF Tell
<1>2. UNCHANGED <<reconnects, registered, active, sessions, usable, text>>
  BY <1>1 DEF instance, data
<1>3. /\ drained \in [Commands -> Seq(Messages)] /\ drained[c] # <<>> /\ Distinct(drained[c])
      /\ cmd \in [Commands -> {"fresh", "telling", "aborting", "creating", "done"}]
  BY <1>1 DEF IInv, TypeOK, Lists
<1>4. /\ Tail(drained[c]) \in Seq(Messages) /\ Distinct(Tail(drained[c]))
      /\ Elements(Tail(drained[c])) = Elements(drained[c]) \ {h}
      /\ h \in Elements(drained[c]) /\ h \in Messages
      /\ Len(drained[c]) = 1 <=> Tail(drained[c]) = <<>>
  BY <1>3, TailList, ListElements
<1>5. PICK stage \in {"telling", "done", "aborting"} :
        /\ cmd' = [cmd EXCEPT ![c] = stage]
        /\ stage = "telling" <=> Tail(drained[c]) # <<>>
  <2>1. CASE Len(drained[c]) = 1
    BY <1>4, <2>1, NamingMovesOn DEF Tell
  <2>2. CASE Len(drained[c]) # 1
    BY <1>1, <1>3, <1>4, <2>2 DEF Tell
  <2> QED
    BY <2>1, <2>2
<1> HIDE DEF h
<1>6. /\ \A m \in Messages : fate'[m] = IF m = h THEN "cancelled" ELSE fate[m]
      /\ fate' \in [Messages -> Fates]
  BY <1>1 DEF Become, IInv, TypeOK, Fates, Settled
<1>7. fate[h] = "drained"
  BY <1>4 DEF IInv, NothingFallsThrough
<1>8. Gates' /\ stopped' \in Messages \cup {None} /\ halted' \in SUBSET Messages
  <2>1. NameCurrent(c) \/ UNCHANGED <<stopped, halted>>
    BY DEF Tell
  <2>2. \A m \in Messages :
          fate[m] \in {"running", "silent", "lost"} => fate'[m] = fate[m]
    BY <1>6, <1>7
  <2> QED
    BY <1>1, <2>1, <2>2, NamingKeepsGates
<1>9. TypeOK'
  BY <1>1, <1>2, <1>3, <1>4, <1>5, <1>6, <1>8 DEF IInv, TypeOK
<1>a. \A d \in Commands : drained'[d] = IF d = c THEN Tail(drained[c]) ELSE drained[d]
  BY <1>1, <1>3
<1>10. NothingFallsThrough'
  <2>1. ASSUME NEW m \in Messages
        PROVE  fate'[m] = "drained" <=> \E d \in Commands : m \in Elements(drained'[d])
    <3>1. \A d \in Commands : d # c => h \notin Elements(drained[d])
      BY <1>4 DEF IInv, Lists
    <3> QED
      BY <1>4, <1>6, <1>a, <3>1 DEF IInv, NothingFallsThrough
  <2>2. \A m \in Messages : /\ fate'[m] = "queued" <=> fate[m] = "queued"
                            /\ fate'[m] = "running" <=> fate[m] = "running"
    BY <1>6, <1>7
  <2> QED
    BY <1>1, <2>1, <2>2 DEF IInv, NothingFallsThrough
<1>11. Lists'
  <2>1. \A d, e \in Commands :
          d # e => Elements(drained'[d]) \cap Elements(drained'[e]) = {}
    BY <1>4, <1>a DEF IInv, Lists
  <2>2. \A d \in Commands : cmd'[d] = "telling" <=> drained'[d] # <<>>
    BY <1>3, <1>5, <1>a DEF IInv, Lists
  <2> QED
    BY <1>1, <1>4, <1>a, <2>1, <2>2 DEF IInv, Lists
<1>12. WorkerHasTurn' /\ SentSoFar'
  BY <1>1 DEF IInv, WorkerHasTurn, SentSoFar
<1>13. Kept
  BY <1>6, <1>7 DEF Kept, Settled
<1> QED
  BY <1>8, <1>9, <1>10, <1>11, <1>12, <1>13 DEF IInv

\* The steps of a command that only move its handler on.
LEMMA HandlerMovesPreserve ==
  ASSUME IInv, NEW c \in Commands, AbortReturns(c) \/ New(c) \/ NewFails(c)
  PROVE  IInv' /\ Kept
<1>1. PICK stage \in {"creating", "done"} : cmd' = [cmd EXCEPT ![c] = stage]
  BY DEF AbortReturns, New, NewFails, Goes
<1>2. cmd[c] # "telling" /\ UNCHANGED <<drained, stale, instance, route, data, history>>
  BY DEF AbortReturns, New, NewFails
<1>3. UNCHANGED <<drained, stale, reconnects, registered, queue, phase, turn, version, stopped,
                  active, sessions, usable, text, fate, answer, halted, rotated, chosen>>
  BY <1>2 DEF instance, route, data, history
<1>4. TypeOK'
  BY <1>1, <1>3 DEF IInv, TypeOK
<1>5. Lists'
  BY <1>1, <1>2, <1>3 DEF IInv, TypeOK, Lists
<1>6. NothingFallsThrough' /\ WorkerHasTurn' /\ SentSoFar' /\ Gates'
  BY <1>3 DEF IInv, NothingFallsThrough, WorkerHasTurn, SentSoFar, Gates, Halted, Rotated,
              Current
<1>7. Kept
  BY <1>3 DEF Kept
<1> QED
  BY <1>4, <1>5, <1>6, <1>7 DEF IInv

\* /new binds its session, raises the version and drops the queue.
LEMMA RebindPreserves ==
  ASSUME IInv, NEW c \in Commands, Rebind(c)
  PROVE  IInv' /\ Kept
<1> USE NoneIsNoMessage
<1>1. /\ cmd[c] = "creating" /\ cmd' = [cmd EXCEPT ![c] = "done"]
      /\ version' = version + 1 /\ queue' = <<>>
      /\ fate' = Become(Elements(queue), "dropped")
      /\ rotated' = rotated \cup UnderWay
      /\ UNCHANGED <<phase, turn, stopped, text, drained, stale, answer, halted>>
      /\ UNCHANGED <<reconnects, registered>>
  BY DEF Rebind, Goes, instance
<1>2. PICK s \in Sessions : NewSession(s) /\ active' = s /\ chosen' = s
  BY DEF Rebind
<1>3. /\ \A m \in Messages : fate'[m] = IF m \in Elements(queue) THEN "dropped" ELSE fate[m]
      /\ fate' \in [Messages -> Fates]
  BY <1>1 DEF Become, IInv, TypeOK, Fates, Settled
<1>4. \A m \in Messages : m \in Elements(queue) <=> fate[m] = "queued"
  BY DEF IInv, NothingFallsThrough
<1>5. /\ version \in Nat /\ turn.version \in Nat /\ turn.msg \in Messages \cup {None}
      /\ halted \in SUBSET Messages /\ rotated \in SUBSET Messages
  BY DEF IInv, TypeOK, Turn
<1>6. /\ \A m \in UnderWay : m = turn.msg /\ phase \in Submitted
      /\ \A m \in UnderWay : m \in Messages /\ fate[m] = "running"
      /\ phase \in Submitted => turn.version <= version
  BY RunningIsCurrent DEF UnderWay, Submitted, Busy, IInv, SentSoFar
<1>7. TypeOK'
  <2>1. sessions' \in 0..MaxSessions /\ usable' \in SUBSET (1..sessions')
    BY <1>2, BoundsAssumption DEF IInv, TypeOK, NewSession, Sessions
  <2>2. Len(queue') <= QueueDepth /\ queue' \in Seq(Messages)
    BY <1>1, EmptyList, EmptySeq, DepthAssumption
  <2>3. version' \in Nat /\ rotated' \in SUBSET Messages
    BY <1>1, <1>5, <1>6
  <2> QED
    BY <1>1, <1>2, <1>3, <2>1, <2>2, <2>3 DEF IInv, TypeOK
<1>8. NothingFallsThrough'
  <2>1. Elements(queue') = {}
    BY <1>1, EmptyList
  <2> QED
    BY <1>1, <1>3, <1>4, <2>1 DEF IInv, NothingFallsThrough
<1>9. Lists'
  BY <1>1, EmptyList DEF IInv, TypeOK, Lists
<1>10. WorkerHasTurn' /\ SentSoFar'
  BY <1>1, <1>5 DEF IInv, WorkerHasTurn, SentSoFar, Submitted
<1>11. Gates'
  <2>1. \A m \in halted : Halted(m)'
    BY <1>1, <1>3, <1>4, <1>5 DEF IInv, Gates, Halted, Current
  <2>2. ASSUME NEW m \in rotated PROVE Rotated(m)'
    BY <1>1, <1>3, <1>4, <1>5, <2>2 DEF IInv, Gates, Rotated
  <2>3. ASSUME NEW m \in UnderWay PROVE Rotated(m)'
    BY <1>1, <1>3, <1>4, <1>5, <1>6, <2>3 DEF Rotated
  <2> QED
    BY <1>1, <2>1, <2>2, <2>3 DEF Gates
<1>12. Kept
  BY <1>3, <1>4 DEF Kept, Settled
<1> QED
  BY <1>7, <1>8, <1>9, <1>10, <1>11, <1>12 DEF IInv

-----------------------------------------------------------------------------
(* The instance and the sessions.                                          *)

\* The worker is cancelled: what was queued or running is lost.
LEMMA UnregisterPreserves ==
  ASSUME IInv, Unregister
  PROVE  IInv' /\ Kept
<1> USE NoneIsNoMessage
<1> DEFINE gone == {m \in Messages : fate[m] \in {"queued", "running"}}
<1>1. /\ registered' = FALSE /\ queue' = <<>> /\ phase' = "none" /\ turn' = NoTurn
      /\ version' = 0 /\ stopped' = None
      /\ stale' = stale \cup {c \in Commands : cmd[c] = "telling"}
      /\ fate' = Become(gone, "lost")
      /\ UNCHANGED <<reconnects, active, sessions, usable, text, cmd, drained>>
      /\ UNCHANGED <<answer, halted, rotated, chosen>>
  BY DEF Unregister, data
<1>2. /\ \A m \in Messages : fate'[m] = IF m \in gone THEN "lost" ELSE fate[m]
      /\ fate' \in [Messages -> Fates]
  BY <1>1 DEF Become, IInv, TypeOK, Fates, Settled
<1>3. TypeOK'
  <2>1. Len(queue') <= QueueDepth /\ queue' \in Seq(Messages) /\ turn' \in Turn
    BY <1>1, EmptyList, EmptySeq, DepthAssumption DEF NoTurn, Turn
  <2> HIDE DEF gone
  <2> QED
    BY <1>1, <1>2, <2>1 DEF IInv, TypeOK
<1>4. NothingFallsThrough'
  <2>1. Elements(queue') = {} /\ turn'.msg = None
    BY <1>1, EmptyList DEF NoTurn
  <2> QED
    BY <1>1, <1>2, <2>1 DEF IInv, NothingFallsThrough
<1>5. Lists'
  BY <1>1, EmptyList DEF IInv, Lists
<1>6. WorkerHasTurn' /\ SentSoFar'
  BY <1>1 DEF WorkerHasTurn, SentSoFar, NoTurn, Submitted
<1>7. Gates'
  BY <1>1, <1>2 DEF IInv, TypeOK, Gates, Halted, Rotated
<1>8. Kept
  BY <1>2 DEF Kept, Settled
<1> QED
  BY <1>3, <1>4, <1>5, <1>6, <1>7, <1>8 DEF IInv

LEMMA OutsidePreserves ==
  ASSUME IInv, Register \/ (\E s \in Sessions : Forget(s)) \/ UNCHANGED vars
  PROVE  IInv' /\ Kept
<1>1. UNCHANGED <<route, handlers, history>>
  BY DEF Register, Forget, vars
<1>2. /\ UNCHANGED <<active, sessions, text>>
      /\ reconnects' \in 0..MaxReconnects /\ registered' \in BOOLEAN
      /\ usable' \subseteq usable
  <2>1. reconnects \in 0..MaxReconnects /\ registered \in BOOLEAN
    BY DEF IInv, TypeOK
  <2>2. CASE Register
    BY <2>1, <2>2, BoundsAssumption DEF Register, data
  <2>3. CASE (\E s \in Sessions : Forget(s)) \/ UNCHANGED vars
    BY <2>1, <2>3 DEF Forget, vars, instance, data
  <2> QED
    BY <2>2, <2>3
<1>3. TypeOK'
  BY <1>1, <1>2 DEF IInv, TypeOK, route, handlers, history
<1>4. NothingFallsThrough' /\ Lists' /\ WorkerHasTurn' /\ SentSoFar'
  BY <1>1 DEF IInv, NothingFallsThrough, Lists, WorkerHasTurn, SentSoFar, route, handlers, history
<1>5. Gates' /\ Kept
  BY <1>1 DEF IInv, Gates, Halted, Rotated, Current, Kept, route, history
<1> QED
  BY <1>3, <1>4, <1>5 DEF IInv

-----------------------------------------------------------------------------
(* The theorems.                                                           *)

LEMMA NextPreserves == IInv /\ [Next]_vars => IInv' /\ Kept
<1> SUFFICES ASSUME IInv, [Next]_vars PROVE IInv' /\ Kept
  OBVIOUS
<1>1. CASE Step
  BY <1>1, TurnStepsPreserve, EndingStepsPreserve, ConcludePreserves DEF Step
<1>2. ASSUME NEW m \in Messages, Refuse(m) \/ Inbound(m) PROVE IInv' /\ Kept
  BY <1>2, InboundPreserves
<1>3. ASSUME NEW c \in Commands, Stop(c) \/ New(c) \/ Handler(c) PROVE IInv' /\ Kept
  <2>1. CASE Stop(c)
    BY <2>1, StopPreserves
  <2>2. CASE Tell(c)
    BY <2>2, TellPreserves
  <2>3. CASE AbortReturns(c) \/ New(c) \/ NewFails(c)
    BY <2>3, HandlerMovesPreserve
  <2>4. CASE Rebind(c)
    BY <2>4, RebindPreserves
  <2> QED
    BY <1>3, <2>1, <2>2, <2>3, <2>4 DEF Handler
<1>4. CASE Unregister
  BY <1>4, UnregisterPreserves
<1>5. CASE Register \/ (\E s \in Sessions : Forget(s)) \/ UNCHANGED vars
  BY <1>5, OutsidePreserves
<1> QED
  BY <1>1, <1>2, <1>3, <1>4, <1>5 DEF Next

\* The inductive invariant: the lists, the worker and the fates agree, and the
\* gates stand between a halted or rotated turn and the user.
THEOREM Inductive == Spec => []IInv
<1>1. IInv /\ [Next]_vars => IInv'
  BY NextPreserves
<1> QED
  BY InitEstablishes, <1>1, PTL DEF Spec

\* The state has the types that are claimed for it.
THEOREM TypesHold == Spec => []TypeOK
<1>1. IInv => TypeOK
  BY DEF IInv
<1> QED
  BY Inductive, <1>1, PTL

\* No message is lost from sight between the queue, the worker and a /stop, and
\* a message that waits has a worker.
THEOREM NothingIsForgotten == Spec => []NothingFallsThrough
<1>1. IInv => NothingFallsThrough
  BY DEF IInv
<1> QED
  BY Inductive, <1>1, PTL

\* A turn that /stop named stays silent.
THEOREM StopSilences == Spec => []StoppedStaysSilent
<1>1. IInv => StoppedStaysSilent
  BY DEF IInv, Gates, Halted, StoppedStaysSilent
<1> QED
  BY Inductive, <1>1, PTL

\* A turn that was under way at a /new stays silent.
THEOREM NewSilences == Spec => []GateHolds
<1>1. IInv => GateHolds
  BY DEF IInv, Gates, Rotated, GateHolds
<1> QED
  BY Inductive, <1>1, PTL

\* A turn never sends more texts than the platform lets it.
THEOREM QuotaIsKept == Spec => []QuotaKept
<1>1. IInv => QuotaKept
  <2> SUFFICES ASSUME IInv PROVE turn.sent <= ReplyLimit
    BY DEF QuotaKept
  <2>1. turn.sent \in Nat /\ turn.left \in Nat /\ phase \in Busy \cup {"none"} /\ SentSoFar
    BY DEF IInv, TypeOK, Turn
  <2>2. phase \in {"none", "new", "resolve", "apology"} \cup Submitted \cup {"deliver"}
    BY <2>1 DEF Busy, Submitted
  <2> QED
    BY <2>1, <2>2, LimitAssumption DEF SentSoFar
<1> QED
  BY Inductive, <1>1, PTL

\* What has been settled is never taken up again.
THEOREM SettledStays == Spec => SettledForGood
<1>1. IInv /\ [Next]_vars =>
        [\A m \in Messages : fate[m] \in Settled => fate'[m] = fate[m]]_vars
  BY NextPreserves DEF Kept
<1> QED
  BY Inductive, <1>1, PTL DEF Spec, SettledForGood

-----------------------------------------------------------------------------
(* The gateway, which registers at the router the adapters it connects:    *)
(* one connection per instance.                                            *)

CONSTANTS Clients, Supervisor, Adapters, Sockets, MaxCalls, MaxFaults
VARIABLES row, inst, router, adapter, socket, proc, calls, overlapped, faults

Gateway == INSTANCE ChannelGateway

\* What ChannelGateway assumes of its constants.
GatewayBounds ==
  /\ Adapters \subseteq Nat \ {0} /\ Sockets \subseteq Nat \ {0} /\ MaxCalls \in Nat /\ MaxFaults \in Nat
  /\ Supervisor \notin Clients

\* Where a task rests, and what an attempt to connect goes through.
Idle == {"new", "asleep", "cancelled"}
Attempt == {"start", "restarting", "open", "reopening", "opening", "subscribing", "acked"}
Subscribed == {"subscribing", "acked"}
InProgress(p) == proc[p].pc \notin Idle

\* Adapter objects, sockets and tasks.
Objects == [started : BOOLEAN, connected : BOOLEAN, sock : Sockets \cup {0}, reads : Sockets \cup {0}, tear : BOOLEAN]
Ports == [state : {"closed", "open", "live", "kicked"}, owner : Adapters \cup {0}, read : BOOLEAN]
Tasks == [kind : {"none", "connect", "reconnect", "delete"}, a : Adapters \cup {0}, sock : Sockets \cup {0},
          pc : Idle \cup Attempt \cup {"failing", "connect", "disconnect", "stopping", "erase"}]
GatewayTypes ==
  /\ row \in {"pending", "connected", "degraded", "gone"}
  /\ inst \in Adapters \cup {0}
  /\ router \in [a : Adapters \cup {0}, current : BOOLEAN] /\ (router.current => router.a # 0)
  /\ adapter \in [Adapters -> Objects] /\ socket \in [Sockets -> Ports] /\ proc \in [Gateway!Procs -> Tasks]
  /\ calls \in 0..MaxCalls /\ faults \in 0..MaxFaults /\ overlapped \in BOOLEAN

\* What a task holds; a socket that is closed belongs to nobody.
GatewayLocals ==
  /\ \A p \in Gateway!Procs : proc[p].pc \in Attempt \cup {"failing"} => proc[p].a \in Adapters
  /\ \A p \in Gateway!Procs : proc[p].pc \in Subscribed \cup {"failing", "opening"} => proc[p].sock \in Sockets
  /\ \A p \in Gateway!Procs : proc[p].kind = "delete" => p \in Clients /\ proc[p].pc \in {"new", "disconnect", "stopping", "erase"}
                        /\ (proc[p].pc = "new" => row = "gone")
  /\ \A s \in Sockets : socket[s].state = "closed" => socket[s].owner = 0

\* One task at a time is under way, and it attempts to connect the adapter
\* that is supervised, which is not alive.
OneAttempt ==
  /\ \A p, q \in Gateway!Procs : InProgress(p) /\ InProgress(q) => p = q
  /\ \A p \in Gateway!Procs : proc[p].pc # "failing" /\ (proc[p].pc \in Attempt => proc[p].a = inst /\ ~Gateway!Alive(inst))

\* A socket that is not closed is the one of the supervised adapter, which is
\* alive, or that the attempt has opened.
OneOpen ==
  \A s \in Sockets : socket[s].state # "closed" =>
    /\ inst \in Adapters /\ socket[s].owner = inst /\ adapter[inst].sock = s /\ socket[s].state \in {"open", "live"}
    /\ Gateway!Alive(inst) \/ \E p \in Gateway!Procs : proc[p].pc \in Subscribed /\ proc[p].sock = s
Sequential == ~overlapped => OneAttempt /\ OneOpen

GatewayInv == GatewayBounds /\ GatewayTypes /\ GatewayLocals /\ Sequential

LEMMA Zero ==
  ASSUME GatewayBounds
  PROVE  0 \notin Adapters /\ 0 \notin Sockets /\ Supervisor \in Gateway!Procs /\ Clients \subseteq Gateway!Procs /\ Supervisor \notin Clients
BY DEF GatewayBounds, Gateway!Procs

\* Ways in which steps change the adapters, the sockets and the calls.
LEMMA ClearedType ==
  ASSUME GatewayTypes, NEW a \in Adapters, NEW b \in BOOLEAN
  PROVE  Gateway!Cleared(a, b) \in [Adapters -> Objects]
<1>1. \A x \in Objects :
        [x EXCEPT !.started = b, !.connected = FALSE, !.sock = 0, !.reads = 0, !.tear = FALSE] \in Objects
  BY DEF Objects
<1>2. adapter \in [Adapters -> Objects]
  BY DEF GatewayTypes
<1>3. Gateway!Cleared(a, b) = [adapter EXCEPT ![a] =
        [adapter[a] EXCEPT !.started = b, !.connected = FALSE, !.sock = 0, !.reads = 0, !.tear = FALSE]]
  BY <1>2 DEF Gateway!Cleared, Objects
<1> QED
  BY <1>1, <1>2, <1>3

LEMMA CloseType ==
  ASSUME GatewayTypes, NEW ss, NEW loops, Gateway!Close(ss, loops)
  PROVE  socket' \in [Sockets -> Ports]
<1>1. \A x \in Ports : [x EXCEPT !.read = FALSE] \in Ports
  BY DEF Ports
<1>2. Gateway!Unused \in Ports
  BY DEF Gateway!Unused, Ports
<1> QED
  BY <1>1, <1>2 DEF GatewayTypes, Gateway!Close

LEMMA GotoType ==
  ASSUME GatewayTypes, NEW p \in Gateway!Procs, NEW pc, NEW a \in Adapters \cup {0}, NEW s \in Sockets \cup {0},
         pc \in Idle \cup Attempt \cup {"failing", "connect", "disconnect", "stopping", "erase"}, Gateway!Goto(p, pc, a, s)
  PROVE  /\ proc' \in [Gateway!Procs -> Tasks]
         /\ proc'[p].pc = pc /\ proc'[p].a = a /\ proc'[p].sock = s /\ proc'[p].kind = proc[p].kind
         /\ \A q \in Gateway!Procs \ {p} : proc'[q] = proc[q]
<1>1. \A x \in Tasks : /\ [x EXCEPT !.pc = pc, !.a = a, !.sock = s] \in Tasks
                       /\ [x EXCEPT !.pc = pc, !.a = a, !.sock = s].pc = pc
                       /\ [x EXCEPT !.pc = pc, !.a = a, !.sock = s].a = a
                       /\ [x EXCEPT !.pc = pc, !.a = a, !.sock = s].sock = s
                       /\ [x EXCEPT !.pc = pc, !.a = a, !.sock = s].kind = x.kind
  BY DEF Tasks
<1>2. proc' = [proc EXCEPT ![p] = [proc[p] EXCEPT !.pc = pc, !.a = a, !.sock = s]]
  BY DEF Gateway!Goto, GatewayTypes, Tasks
<1>3. proc \in [Gateway!Procs -> Tasks] /\ proc[p] \in Tasks
  BY DEF GatewayTypes
<1> QED
  BY <1>1, <1>2, <1>3

LEMMA DisconnectType ==
  ASSUME GatewayTypes, NEW p \in Gateway!Procs, NEW a \in Adapters, NEW pc,
         pc \in Idle \cup Attempt \cup {"failing", "connect", "disconnect", "stopping", "erase"}, Gateway!Disconnect(a, p, pc)
  PROVE  /\ proc' \in [Gateway!Procs -> Tasks] /\ socket' \in [Sockets -> Ports]
         /\ proc'[p].pc = pc /\ proc'[p].a = a /\ proc'[p].sock = proc[p].sock /\ proc'[p].kind = proc[p].kind
         /\ \A q \in Gateway!Procs \ {p} : \/ proc'[q] = proc[q]
                                   \/ /\ proc[q].pc = "subscribing" /\ proc'[q].pc \in {"cancelled", "new"}
                                      /\ proc'[q].kind = proc[q].kind
<1>1. socket' \in [Sockets -> Ports]
  BY CloseType DEF Gateway!Disconnect
<1>2. \A x \in Tasks : /\ [x EXCEPT !.pc = pc, !.a = a] \in Tasks
                       /\ [x EXCEPT !.pc = pc, !.a = a].pc = pc
                       /\ [x EXCEPT !.pc = pc, !.a = a].a = a
                       /\ [x EXCEPT !.pc = pc, !.a = a].sock = x.sock
                       /\ [x EXCEPT !.pc = pc, !.a = a].kind = x.kind
  BY DEF Tasks
<1>4. \A q \in Gateway!Procs : (IF q = Supervisor THEN "cancelled" ELSE "new") \in {"cancelled", "new"}
  OBVIOUS
<1>5. proc \in [Gateway!Procs -> Tasks]
  BY DEF GatewayTypes
<1>6. proc'[p] = [proc[p] EXCEPT !.pc = pc, !.a = a]
  BY DEF Gateway!Disconnect
<1>7. ASSUME NEW q \in Gateway!Procs \ {p}
      PROVE  /\ proc'[q] \in Tasks
             /\ \/ proc'[q] = proc[q]
                \/ /\ proc[q].pc = "subscribing" /\ proc'[q].pc \in {"cancelled", "new"}
                   /\ proc'[q].kind = proc[q].kind
  <2>1. PICK c \in {"cancelled", "new"} : c = IF q = Supervisor THEN "cancelled" ELSE "new"
    BY <1>4
  <2>2. proc'[q] = IF proc[q].pc = "subscribing" /\ proc[q].a = a THEN [proc[q] EXCEPT !.pc = c, !.a = 0, !.sock = 0] ELSE proc[q]
    BY <2>1 DEF Gateway!Disconnect
  <2>3. proc[q] \in Tasks
    BY <1>5
  <2>4. CASE proc[q].pc = "subscribing" /\ proc[q].a = a
    <3>1. proc'[q] = [proc[q] EXCEPT !.pc = c, !.a = 0, !.sock = 0]
      BY <2>2, <2>4
    <3>2. proc'[q] \in Tasks /\ proc'[q].pc = c /\ proc'[q].kind = proc[q].kind
      BY <2>3, <3>1 DEF Tasks, Idle
    <3> QED
      BY <2>4, <3>2
  <2>5. CASE ~(proc[q].pc = "subscribing" /\ proc[q].a = a)
    BY <2>2, <2>3, <2>5
  <2> QED
    BY <2>4, <2>5
<1>8. proc' \in [Gateway!Procs -> Tasks]
  <2>1. \A q \in Gateway!Procs : proc'[q] \in Tasks
    <3>1. proc'[p] \in Tasks
      BY <1>2, <1>5, <1>6
    <3>2. \A q \in Gateway!Procs \ {p} : proc'[q] \in Tasks
      BY <1>7
    <3> QED
      BY <3>1, <3>2
  <2>2. proc' = [q \in Gateway!Procs |-> proc'[q]]
    BY DEF Gateway!Disconnect
  <2> QED
    BY <2>1, <2>2
<1> QED
  BY <1>1, <1>2, <1>5, <1>6, <1>7, <1>8

\* What close() makes of each socket.
LEMMA CloseEffects ==
  ASSUME GatewayTypes, NEW ss, NEW loops, Gateway!Close(ss, loops), NEW s \in Sockets
  PROVE  /\ s \in ss => socket'[s] = Gateway!Unused
         /\ s \notin ss => socket'[s].state = socket[s].state /\ socket'[s].owner = socket[s].owner
         /\ socket'[s].state # "closed" => s \notin ss
         /\ GatewayLocals /\ socket'[s].state = "closed" => socket'[s].owner = 0
<1>1. \A x \in Ports : [x EXCEPT !.read = FALSE].state = x.state /\ [x EXCEPT !.read = FALSE].owner = x.owner
  BY DEF Ports
<1>2. socket[s] \in Ports
  BY DEF GatewayTypes
<1>3. socket'[s] = IF s \in ss THEN Gateway!Unused ELSE IF s \in loops THEN [socket[s] EXCEPT !.read = FALSE] ELSE socket[s]
  BY DEF Gateway!Close
<1>4. Gateway!Unused.state = "closed" /\ Gateway!Unused.owner = 0
  BY DEF Gateway!Unused
<1> QED
  BY <1>1, <1>2, <1>3, <1>4 DEF GatewayLocals

\* A step of one task: what it may do to the others.
Spares(p) ==
  \A q \in Gateway!Procs \ {p} : \/ proc'[q] = proc[q]
                         \/ /\ proc[q].pc = "subscribing" /\ proc'[q].pc \in {"cancelled", "new"}
                            /\ proc'[q].kind = proc[q].kind

\* What a task holds when it is at a step.
Fits(p) ==
  /\ proc[p].pc \in Attempt \cup {"failing"} => proc[p].a \in Adapters
  /\ proc[p].pc \in Subscribed \cup {"failing", "opening"} => proc[p].sock \in Sockets
  /\ proc[p].kind = "delete" => p \in Clients /\ proc[p].pc \in {"new", "disconnect", "stopping", "erase"}
                                 /\ (proc[p].pc = "new" => row = "gone")

LEMMA TaskGoesOn ==
  ASSUME GatewayInv, GatewayTypes', NEW p \in Gateway!Procs, Spares(p), row = "gone" => row' = "gone", Fits(p)',
         \A s \in Sockets : socket'[s].state = "closed" => socket'[s].owner = 0,
         ~overlapped' => /\ \A q \in Gateway!Procs \ {p} : proc[q].pc \in Idle
                         /\ proc'[p].pc # "failing"
                         /\ proc'[p].pc \in Attempt => proc'[p].a = inst' /\ ~Gateway!Alive(inst)'
                         /\ OneOpen'
  PROVE  GatewayInv'
<1>1. \A q \in Gateway!Procs \ {p} : Fits(q)'
  <2>1. \A q \in Gateway!Procs : Fits(q)
    BY DEF GatewayInv, GatewayLocals, Fits
  <2> QED
    BY <2>1 DEF Spares, Fits, Attempt, Subscribed
<1>2. GatewayLocals'
  BY <1>1 DEF GatewayLocals, Fits
<1>3. Sequential'
  <2> SUFFICES ASSUME ~overlapped'
               PROVE  OneAttempt' /\ OneOpen'
    BY DEF Sequential
  <2>1. \A q \in Gateway!Procs \ {p} : proc'[q].pc \in Idle
    BY DEF Spares, Idle
  <2>2. \A q \in Gateway!Procs \ {p} : proc'[q].pc \notin Attempt \cup {"failing"}
    BY <2>1 DEF Idle, Attempt
  <2> QED
    BY <2>1, <2>2 DEF OneAttempt, InProgress
<1> QED
  BY <1>2, <1>3 DEF GatewayInv, GatewayBounds

\* An attempt or a call that is under way alone.
LEMMA Sole ==
  ASSUME GatewayInv, ~overlapped, NEW p \in Gateway!Procs, proc[p].pc \notin Idle
  PROVE  /\ \A q \in Gateway!Procs \ {p} : proc[q].pc \in Idle
         /\ proc[p].pc # "failing" /\ (proc[p].pc \in Attempt => proc[p].a = inst /\ ~Gateway!Alive(inst))
         /\ \A s \in Sockets : socket[s].state # "closed" =>
              /\ inst \in Adapters /\ socket[s].owner = inst /\ adapter[inst].sock = s /\ socket[s].state \in {"open", "live"}
              /\ Gateway!Alive(inst) \/ (proc[p].pc \in Subscribed /\ proc[p].sock = s)
<1>1. OneAttempt /\ OneOpen
  BY DEF GatewayInv, Sequential
<1>2. \A q \in Gateway!Procs \ {p} : proc[q].pc \in Idle
  BY <1>1 DEF OneAttempt, InProgress
<1>3. \A q \in Gateway!Procs : proc[q].pc \in Subscribed => q = p
  BY <1>2 DEF Idle, Subscribed
<1> QED
  BY <1>1, <1>2, <1>3 DEF OneAttempt, OneOpen

\* Nothing is under way.
LEMMA AtRest ==
  ASSUME GatewayInv, ~overlapped, \A q \in Gateway!Procs : proc[q].pc \in Idle
  PROVE  \A s \in Sockets : socket[s].state # "closed" =>
              /\ inst \in Adapters /\ socket[s].owner = inst /\ adapter[inst].sock = s /\ socket[s].state \in {"open", "live"}
              /\ Gateway!Alive(inst)
<1>1. OneOpen
  BY DEF GatewayInv, Sequential
<1>2. \A q \in Gateway!Procs : proc[q].pc \notin Subscribed
  BY DEF Idle, Subscribed
<1> QED
  BY <1>1, <1>2 DEF OneOpen

LEMMA AllShut ==
  ASSUME \A s \in Sockets : socket'[s].state = "closed"
  PROVE  OneOpen'
BY DEF OneOpen

LEMMA TypesParts ==
  ASSUME GatewayTypes
  PROVE  /\ inst \in Adapters \cup {0} /\ adapter \in [Adapters -> Objects] /\ socket \in [Sockets -> Ports]
         /\ proc \in [Gateway!Procs -> Tasks] /\ overlapped \in BOOLEAN
BY DEF GatewayTypes

\* A step that only moves a task on.
LEMMA Moves ==
  ASSUME GatewayInv, NEW p \in Gateway!Procs, NEW pc, NEW a \in Adapters \cup {0}, NEW s \in Sockets \cup {0}, Gateway!Goto(p, pc, a, s),
         pc \in Idle \cup Attempt \cup {"connect", "disconnect", "stopping", "erase"},
         row' \in {"pending", "connected", "degraded", "gone"}, row = "gone" => row' = "gone",
         router' \in [a : Adapters \cup {0}, current : BOOLEAN], router'.current => router'.a # 0,
         faults' \in 0..MaxFaults, UNCHANGED <<inst, adapter, socket, calls, overlapped>>,
         pc \in Attempt => a \in Adapters, pc \in Subscribed \cup {"opening"} => s \in Sockets,
         proc[p].kind = "delete" => pc \in {"new", "disconnect", "stopping", "erase"} /\ (pc = "new" => row' = "gone"),
         proc[p].pc \notin Idle,
         ~overlapped /\ pc \in Attempt => a = inst /\ ~Gateway!Alive(inst),
         proc[p].pc \in Subscribed => pc \in Subscribed /\ s = proc[p].sock
  PROVE  GatewayInv'
<1>1. GatewayTypes /\ GatewayLocals
  BY DEF GatewayInv
<1>2. /\ proc' \in [Gateway!Procs -> Tasks] /\ Spares(p)
      /\ proc'[p].pc = pc /\ proc'[p].a = a /\ proc'[p].sock = s /\ proc'[p].kind = proc[p].kind
  BY <1>1, GotoType DEF Spares
<1>3. GatewayTypes'
  BY <1>1, <1>2 DEF GatewayTypes
<1>4. Fits(p)'
  <2>1. proc[p].kind = "delete" => p \in Clients
    BY <1>1 DEF GatewayLocals
  <2>2. pc # "failing"
    BY DEF Idle, Attempt
  <2> QED
    BY <1>2, <2>1, <2>2 DEF Fits
<1>5. \A x \in Sockets : socket'[x].state = "closed" => socket'[x].owner = 0
  BY <1>1 DEF GatewayLocals
<1>6. ASSUME ~overlapped'
      PROVE  /\ \A q \in Gateway!Procs \ {p} : proc[q].pc \in Idle
             /\ proc'[p].pc # "failing"
             /\ proc'[p].pc \in Attempt => proc'[p].a = inst' /\ ~Gateway!Alive(inst)'
             /\ OneOpen'
  <2>1. ~overlapped
    BY <1>6
  <2>2. /\ \A q \in Gateway!Procs \ {p} : proc[q].pc \in Idle
        /\ \A x \in Sockets : socket[x].state # "closed" =>
              /\ inst \in Adapters /\ socket[x].owner = inst /\ adapter[inst].sock = x /\ socket[x].state \in {"open", "live"}
              /\ Gateway!Alive(inst) \/ (proc[p].pc \in Subscribed /\ proc[p].sock = x)
    BY <2>1, Sole
  <2>3. Gateway!Alive(inst)' <=> Gateway!Alive(inst)
    BY DEF Gateway!Alive
  <2>4. OneOpen'
    BY <1>2, <2>2, <2>3 DEF OneOpen
  <2>5. pc # "failing"
    BY DEF Idle, Attempt
  <2> QED
    BY <1>2, <2>1, <2>2, <2>3, <2>4, <2>5
<1> QED
  BY <1>2, <1>3, <1>4, <1>5, <1>6, TaskGoesOn

\* Who is at a step: Free(p) leaves it alone with the event loop.
LEMMA TaskKinds ==
  ASSUME GatewayInv, NEW p \in Gateway!Procs
  PROVE  /\ Gateway!AfterDisconnect(p) \in {"connect", "erase", "asleep"} /\ (proc[p].kind = "delete" => Gateway!AfterDisconnect(p) = "erase")
         /\ Gateway!Done(p) \in {"asleep", "new"} /\ (proc[p].kind = "delete" => Gateway!Done(p) = "new")
         /\ proc[p].kind = "delete" => p # Supervisor /\ proc[p].pc \in {"new", "disconnect", "stopping", "erase"}
         /\ proc[p].pc \in Attempt \cup {"failing"} => proc[p].a \in Adapters
         /\ proc[p].pc \in Subscribed \cup {"failing", "opening"} => proc[p].sock \in Sockets
<1>1. proc[p].kind = "delete" => p \in Clients /\ p # Supervisor /\ proc[p].pc \in {"new", "disconnect", "stopping", "erase"}
  BY Zero DEF GatewayInv, GatewayLocals
<1> QED
  BY <1>1 DEF Gateway!AfterDisconnect, Gateway!Done, GatewayInv, GatewayLocals

LEMMA PlainTypes ==
  ASSUME GatewayInv
  PROVE  /\ row \in {"pending", "connected", "degraded", "gone"}
         /\ router \in [a : Adapters \cup {0}, current : BOOLEAN] /\ (router.current => router.a # 0)
         /\ calls \in 0..MaxCalls /\ faults \in 0..MaxFaults /\ overlapped \in BOOLEAN
         /\ inst \in Adapters \cup {0} /\ adapter \in [Adapters -> Objects] /\ socket \in [Sockets -> Ports]
         /\ proc \in [Gateway!Procs -> Tasks]
BY DEF GatewayInv, GatewayTypes

LEMMA FaultyTypes == ASSUME GatewayInv, Gateway!Faulty PROVE faults' \in 0..MaxFaults
<1>1. faults \in 0..MaxFaults /\ MaxFaults \in Nat
  BY DEF GatewayInv, GatewayTypes, GatewayBounds
<1> QED
  BY <1>1 DEF Gateway!Faulty

\* The steps of tasks, one after the other.
LEMMA StoppedKept == ASSUME GatewayInv, NEW p \in Gateway!Procs, Gateway!Stopped(p) PROVE GatewayInv'
<1>1. /\ proc[p].pc = "stopping" /\ router' = Gateway!Unregistered /\ Gateway!Goto(p, Gateway!AfterDisconnect(p), 0, 0)
      /\ UNCHANGED <<row, inst, adapter, socket, calls, overlapped, faults>>
  BY DEF Gateway!Stopped, Gateway!At
<1> DEFINE c == Gateway!AfterDisconnect(p)
<1>2. c \in {"connect", "erase", "asleep"} /\ (proc[p].kind = "delete" => c = "erase")
  BY TaskKinds
<1>3. c \in Idle \cup Attempt \cup {"connect", "disconnect", "stopping", "erase"}
      /\ c \notin Attempt /\ c \notin Subscribed \cup {"opening"} /\ proc[p].pc \notin Idle /\ proc[p].pc \notin Subscribed
  BY <1>1, <1>2 DEF Idle, Attempt, Subscribed
<1>4. Gateway!Unregistered \in [a : Adapters \cup {0}, current : BOOLEAN] /\ ~Gateway!Unregistered.current
  BY DEF Gateway!Unregistered
<1>5. Gateway!Goto(p, c, 0, 0)
  BY <1>1
<1> HIDE DEF c
<1> QED
  BY <1>1, <1>2, <1>3, <1>4, <1>5, Moves, PlainTypes

\* An attempt or a call is over.
LEMMA EndsKept ==
  ASSUME GatewayInv, NEW p \in Gateway!Procs, Gateway!Ends(p), proc[p].pc \notin Idle, proc[p].pc \notin Subscribed,
         row' \in {"pending", "connected", "degraded", "gone"}, row = "gone" => row' = "gone",
         proc[p].kind = "delete" => row' = "gone",
         faults' \in 0..MaxFaults, UNCHANGED <<inst, router, adapter, socket, calls, overlapped>>
  PROVE  GatewayInv'
<1> DEFINE c == Gateway!Done(p)
<1>1. Gateway!Goto(p, c, 0, 0)
  BY DEF Gateway!Ends
<1>2. c \in {"new", "asleep"} /\ (proc[p].kind = "delete" => c = "new")
  BY TaskKinds
<1> HIDE DEF c
<1>3. c \in Idle \cup Attempt \cup {"connect", "disconnect", "stopping", "erase"}
      /\ c \notin Attempt /\ c \notin Subscribed \cup {"opening"}
  BY <1>2 DEF Idle, Attempt, Subscribed
<1> QED
  BY <1>1, <1>2, <1>3, Moves, PlainTypes

LEMMA EraseKept == ASSUME GatewayInv, NEW p \in Gateway!Procs, Gateway!Erase(p) PROVE GatewayInv'
<1>1. /\ proc[p].pc = "erase" /\ row' = "gone" /\ Gateway!Ends(p)
      /\ UNCHANGED <<inst, router, adapter, socket, calls, overlapped, faults>>
  BY DEF Gateway!Erase, Gateway!At
<1>2. proc[p].pc \notin Idle /\ proc[p].pc \notin Subscribed
  BY <1>1 DEF Idle, Subscribed
<1> QED
  BY <1>1, <1>2, EndsKept, PlainTypes

LEMMA OpenFailsKept == ASSUME GatewayInv, NEW p \in Gateway!Procs, Gateway!OpenFails(p) PROVE GatewayInv'
<1>1. /\ proc[p].pc = "opening" /\ row' = Gateway!Degraded /\ Gateway!Ends(p) /\ Gateway!Faulty
      /\ UNCHANGED <<inst, router, adapter, socket, calls, overlapped>>
  BY DEF Gateway!OpenFails, Gateway!At
<1>2. proc[p].pc \notin Idle /\ proc[p].pc \notin Subscribed /\ proc[p].kind # "delete"
  BY <1>1, TaskKinds DEF Idle, Subscribed
<1>3. row' \in {"degraded", "gone"} /\ (row = "gone" => row' = "gone")
  BY <1>1 DEF Gateway!Degraded
<1> QED
  BY <1>1, <1>2, <1>3, EndsKept, PlainTypes, FaultyTypes

LEMMA AcknowledgedKept == ASSUME GatewayInv, NEW p \in Gateway!Procs, Gateway!Acknowledged(p) PROVE GatewayInv'
<1>1. /\ proc[p].pc = "subscribing" /\ Gateway!Goto(p, "acked", proc[p].a, proc[p].sock)
      /\ UNCHANGED <<row, inst, router, adapter, socket, calls, overlapped, faults>>
  BY DEF Gateway!Acknowledged
<1> DEFINE a == proc[p].a
           s == proc[p].sock
<1>2. proc[p].pc \notin Idle /\ "acked" \in Attempt /\ "acked" \in Subscribed /\ proc[p].pc \in Attempt \cap Subscribed
      /\ "acked" # "opening" /\ a \in Adapters /\ s \in Sockets /\ proc[p].kind # "delete"
  BY <1>1, TaskKinds DEF Idle, Subscribed, Attempt
<1>3. ~overlapped => a = inst /\ ~Gateway!Alive(inst)
  BY <1>2, Sole
<1>4. Gateway!Goto(p, "acked", a, s)
  BY <1>1
<1> HIDE DEF a
<1> QED
  BY <1>1, <1>2, <1>3, <1>4, Moves, PlainTypes

\* The steps from one phase of an attempt to the next.
LEMMA AttemptMoves ==
  ASSUME GatewayInv, NEW p \in Gateway!Procs, proc[p].pc \in Attempt \ Subscribed, NEW pc \in Attempt \ Subscribed, NEW s \in Sockets \cup {0},
         Gateway!Goto(p, pc, proc[p].a, s), pc = "opening" => s \in Sockets,
         UNCHANGED <<row, inst, router, adapter, socket, calls, overlapped, faults>>
  PROVE  GatewayInv'
<1> DEFINE a == proc[p].a
<1>1. proc[p].pc \notin Idle /\ a \in Adapters /\ proc[p].kind # "delete" /\ proc[p].pc \notin Subscribed
      /\ pc \in Attempt /\ (pc \in Subscribed \cup {"opening"} => s \in Sockets)
  BY TaskKinds DEF Idle, Attempt
<1>2. ~overlapped => a = inst /\ ~Gateway!Alive(inst)
  BY <1>1, Sole
<1>3. Gateway!Goto(p, pc, a, s)
  OBVIOUS
<1> HIDE DEF a
<1> QED
  BY <1>1, <1>2, <1>3, Moves, PlainTypes

LEMMA ReopeningKept == ASSUME GatewayInv, NEW p \in Gateway!Procs, Gateway!Reopening(p) PROVE GatewayInv'
<1>1. PICK s \in Gateway!FreeSockets : Gateway!Goto(p, "opening", proc[p].a, s)
  BY DEF Gateway!Reopening
<1>2. s \in Sockets
  BY DEF Gateway!FreeSockets
<1>3. proc[p].pc = "reopening" /\ UNCHANGED <<row, inst, router, adapter, socket, calls, overlapped, faults>>
  BY DEF Gateway!Reopening, Gateway!At
<1>4. proc[p].pc \in Attempt \ Subscribed /\ "opening" \in Attempt \ Subscribed
  BY <1>3 DEF Attempt, Subscribed
<1> QED
  BY <1>1, <1>2, <1>3, <1>4, AttemptMoves

\* A new adapter replaces one that is not alive.
LEMMA BuildKept ==
  ASSUME GatewayInv, NEW p \in Gateway!Procs, Gateway!Build(p), UNCHANGED <<row, router, socket, calls, faults>>, overlapped' \in BOOLEAN,
         ~Gateway!Alive(inst), proc[p].kind # "delete", proc[p].pc \notin Subscribed,
         ~overlapped' => ~overlapped /\ \A q \in Gateway!Procs \ {p} : proc[q].pc \in Idle
  PROVE  GatewayInv'
<1>1. PICK a \in Adapters : adapter' = [adapter EXCEPT ![a] = Gateway!NewAdapter] /\ inst' = a /\ Gateway!Goto(p, "start", a, 0)
  BY DEF Gateway!Build, Gateway!Unreferenced
<1>2. GatewayTypes
  BY DEF GatewayInv
<1>3. "start" \in Attempt /\ "start" \notin Subscribed \cup {"opening", "failing"}
  BY DEF Attempt, Subscribed
<1>4. /\ proc' \in [Gateway!Procs -> Tasks] /\ Spares(p)
      /\ proc'[p].pc = "start" /\ proc'[p].a = a /\ proc'[p].kind = proc[p].kind
  <2>1. Gateway!Goto(p, "start", a, 0) /\ a \in Adapters \cup {0} /\ 0 \in Sockets \cup {0}
        /\ "start" \in Idle \cup Attempt \cup {"failing", "connect", "disconnect", "stopping", "erase"}
    BY <1>1, <1>3
  <2> QED
    BY ONLY <1>2, <2>1, GotoType, p \in Gateway!Procs DEF Spares
<1>5. adapter' \in [Adapters -> Objects] /\ ~adapter'[a].connected
  <2>1. Gateway!NewAdapter \in Objects /\ ~Gateway!NewAdapter.connected
    BY DEF Gateway!NewAdapter, Objects
  <2> QED
    BY <1>1, <2>1, PlainTypes
<1>6. GatewayTypes'
  BY <1>1, <1>4, <1>5, PlainTypes DEF GatewayTypes
<1>7. Fits(p)'
  BY <1>3, <1>4 DEF Fits
<1>8. \A x \in Sockets : socket'[x].state = "closed" => socket'[x].owner = 0
  BY DEF GatewayInv, GatewayLocals
<1>9. ~Gateway!Alive(inst)'
  BY <1>1, <1>5 DEF Gateway!Alive
<1>10. ASSUME ~overlapped'
       PROVE  OneOpen'
  <2>1. OneOpen /\ \A q \in Gateway!Procs : proc[q].pc \notin Subscribed
    BY <1>10 DEF GatewayInv, Sequential, Idle, Subscribed
  <2>2. \A x \in Sockets : socket[x].state = "closed"
    BY <2>1 DEF OneOpen
  <2> QED
    BY <2>2, AllShut
<1> QED
  BY <1>1, <1>3, <1>4, <1>6, <1>7, <1>8, <1>9, <1>10, TaskGoesOn

LEMMA ConnectKept == ASSUME GatewayInv, NEW p \in Gateway!Procs, Gateway!ConnectInstance(p) PROVE GatewayInv'
<1>1. proc[p].pc = "connect" /\ UNCHANGED <<row, router, socket, calls, overlapped, faults>>
  BY DEF Gateway!ConnectInstance, Gateway!At
<1>2. proc[p].pc \notin Idle \cup Subscribed /\ proc[p].kind # "delete"
  BY <1>1, TaskKinds DEF Idle, Subscribed
<1>3. CASE row = "gone" \/ Gateway!Alive(inst)
  <2>1. Gateway!Ends(p) /\ UNCHANGED <<inst, adapter>>
    BY <1>3 DEF Gateway!ConnectInstance
  <2> QED
    BY <1>1, <1>2, <2>1, EndsKept, PlainTypes
<1>4. CASE ~(row = "gone" \/ Gateway!Alive(inst))
  <2>1. Gateway!Build(p)
    BY <1>4 DEF Gateway!ConnectInstance
  <2>2. ~overlapped' => ~overlapped /\ \A q \in Gateway!Procs \ {p} : proc[q].pc \in Idle
    BY <1>1, <1>2, Sole
  <2> QED
    BY <1>1, <1>2, <1>4, <2>1, <2>2, BuildKept, PlainTypes
<1> QED
  BY <1>3, <1>4

\* _disconnect, called by start() or by _connect.
LEMMA CutKept ==
  ASSUME GatewayInv, NEW p \in Gateway!Procs, proc[p].pc \in {"start", "open"}, NEW pc \in {"restarting", "reopening"}, NEW still \in BOOLEAN,
         Gateway!Disconnect(proc[p].a, p, pc), adapter' = Gateway!Cleared(proc[p].a, still),
         UNCHANGED <<row, inst, router, calls, overlapped, faults>>
  PROVE  GatewayInv'
<1>1. PICK a \in Adapters : a = proc[p].a
  BY TaskKinds DEF Attempt
<1>2. GatewayTypes /\ pc \in Attempt /\ pc \notin Subscribed \cup {"opening", "failing"}
      /\ proc[p].pc \in Attempt \ Subscribed /\ proc[p].pc \notin Idle /\ proc[p].kind # "delete"
  BY TaskKinds DEF Attempt, Subscribed, Idle, GatewayInv
<1>3. /\ proc' \in [Gateway!Procs -> Tasks] /\ socket' \in [Sockets -> Ports] /\ Spares(p)
      /\ proc'[p].pc = pc /\ proc'[p].a = a /\ proc'[p].kind = proc[p].kind
  BY <1>1, <1>2, DisconnectType DEF Spares
<1>4. adapter' \in [Adapters -> Objects]
  BY <1>1, <1>2, ClearedType
<1>5. GatewayTypes'
  BY <1>3, <1>4, PlainTypes DEF GatewayTypes
<1>6. Fits(p)'
  BY <1>2, <1>3 DEF Fits
<1>7. Gateway!Close({adapter[a].sock}, {adapter[a].reads}) /\ GatewayLocals
  BY <1>1 DEF Gateway!Disconnect, GatewayInv
<1>8. \A x \in Sockets : socket'[x].state = "closed" => socket'[x].owner = 0
  BY <1>2, <1>7, CloseEffects
<1>9. ~adapter'[a].connected
  BY <1>1, PlainTypes DEF Gateway!Cleared, Objects
<1>10. ASSUME ~overlapped'
       PROVE  /\ \A q \in Gateway!Procs \ {p} : proc[q].pc \in Idle
              /\ a = inst' /\ ~Gateway!Alive(inst)' /\ OneOpen'
  <2>1. /\ \A q \in Gateway!Procs \ {p} : proc[q].pc \in Idle
        /\ a = inst /\ ~Gateway!Alive(inst)
        /\ \A x \in Sockets : socket[x].state = "closed"
    BY <1>1, <1>2, <1>10, Sole
  <2>2. \A x \in Sockets : socket'[x].state = "closed"
    BY <1>2, <1>7, <2>1, CloseEffects DEF Gateway!Unused
  <2>3. ~Gateway!Alive(inst)'
    BY <1>9, <2>1 DEF Gateway!Alive
  <2> QED
    BY <2>1, <2>2, <2>3, AllShut
<1> QED
  BY <1>2, <1>3, <1>5, <1>6, <1>8, <1>10, TaskGoesOn

LEMMA StartKept == ASSUME GatewayInv, NEW p \in Gateway!Procs, Gateway!Start(p) PROVE GatewayInv'
<1>1. proc[p].pc = "start" /\ UNCHANGED <<row, inst, router, calls, overlapped, faults>>
  BY DEF Gateway!Start, Gateway!At
<1>2. CASE adapter[proc[p].a].started
  BY <1>1, <1>2, CutKept DEF Gateway!Start
<1>3. CASE ~adapter[proc[p].a].started
  <2>1. Gateway!Goto(p, "open", proc[p].a, 0) /\ UNCHANGED <<adapter, socket>>
    BY <1>3 DEF Gateway!Start
  <2>2. {"start", "open"} \subseteq Attempt \ Subscribed
    BY DEF Attempt, Subscribed
  <2> QED
    BY <1>1, <2>1, <2>2, AttemptMoves
<1> QED
  BY <1>2, <1>3

LEMMA OpenKept == ASSUME GatewayInv, NEW p \in Gateway!Procs, Gateway!Open(p) PROVE GatewayInv'
<1>1. proc[p].pc = "open" /\ UNCHANGED <<row, inst, router, calls, overlapped, faults>>
  BY DEF Gateway!Open, Gateway!At
<1>2. CASE adapter[proc[p].a].sock # 0
  <2>1. proc[p].a \in Adapters
    BY <1>1, TaskKinds DEF Attempt
  <2>2. adapter[proc[p].a].started \in BOOLEAN
    BY <2>1, PlainTypes DEF Objects
  <2>3. Gateway!Disconnect(proc[p].a, p, "reopening") /\ adapter' = Gateway!Cleared(proc[p].a, adapter[proc[p].a].started)
    BY <1>2 DEF Gateway!Open
  <2> QED
    BY <1>1, <2>2, <2>3, CutKept
<1>3. CASE adapter[proc[p].a].sock = 0
  <2>1. PICK s \in Gateway!FreeSockets : Gateway!Goto(p, "opening", proc[p].a, s)
    BY <1>3 DEF Gateway!Open
  <2>2. UNCHANGED <<adapter, socket>> /\ s \in Sockets
    BY <1>3 DEF Gateway!Open, Gateway!FreeSockets
  <2>3. {"open", "opening"} \subseteq Attempt \ Subscribed
    BY DEF Attempt, Subscribed
  <2> QED
    BY <1>1, <2>1, <2>2, <2>3, AttemptMoves
<1> QED
  BY <1>2, <1>3

LEMMA RestartingKept == ASSUME GatewayInv, NEW p \in Gateway!Procs, Gateway!Restarting(p) PROVE GatewayInv'
<1>1. /\ proc[p].pc = "restarting" /\ adapter' = [adapter EXCEPT ![proc[p].a].started = FALSE] /\ Gateway!Goto(p, "open", proc[p].a, 0)
      /\ UNCHANGED <<row, inst, router, socket, calls, overlapped, faults>>
  BY DEF Gateway!Restarting, Gateway!At
<1>2. PICK a \in Adapters : a = proc[p].a
  BY <1>1, TaskKinds DEF Attempt
<1>3. GatewayTypes /\ "open" \in Attempt /\ "open" \notin Subscribed \cup {"opening", "failing"}
      /\ proc[p].pc \in Attempt \ Subscribed /\ proc[p].pc \notin Idle /\ proc[p].kind # "delete"
  BY <1>1, TaskKinds DEF Attempt, Subscribed, Idle, GatewayInv
<1>4. /\ proc' \in [Gateway!Procs -> Tasks] /\ Spares(p)
      /\ proc'[p].pc = "open" /\ proc'[p].a = a /\ proc'[p].kind = proc[p].kind
  BY <1>1, <1>2, <1>3, GotoType DEF Spares
<1>5. adapter' \in [Adapters -> Objects] /\ ~adapter'[a].started
  BY <1>1, <1>2, PlainTypes DEF Objects
<1>6. GatewayTypes'
  BY <1>1, <1>4, <1>5, PlainTypes DEF GatewayTypes
<1>7. Fits(p)'
  BY <1>3, <1>4 DEF Fits
<1>8. \A x \in Sockets : socket'[x].state = "closed" => socket'[x].owner = 0
  BY <1>1 DEF GatewayInv, GatewayLocals
<1>9. ASSUME ~overlapped'
      PROVE  /\ \A q \in Gateway!Procs \ {p} : proc[q].pc \in Idle
             /\ a = inst' /\ ~Gateway!Alive(inst)' /\ OneOpen'
  <2>1. /\ \A q \in Gateway!Procs \ {p} : proc[q].pc \in Idle
        /\ a = inst /\ \A x \in Sockets : socket[x].state = "closed"
    BY <1>1, <1>2, <1>3, <1>9, Sole
  <2> QED
    BY <1>1, <1>5, <2>1, AllShut DEF Gateway!Alive
<1> QED
  BY <1>1, <1>3, <1>4, <1>6, <1>7, <1>8, <1>9, TaskGoesOn

\* disconnect_instance, by a call or by the supervisor.
LEMMA DisconnectKept ==
  ASSUME GatewayInv, NEW p \in Gateway!Procs, Gateway!DisconnectInstance(p), UNCHANGED <<row, calls, faults>>, overlapped' \in BOOLEAN,
         proc[p].pc \notin Subscribed,
         ~overlapped' => ~overlapped /\ \A q \in Gateway!Procs \ {p} : proc[q].pc \in Idle
  PROVE  GatewayInv'
<1> DEFINE c == Gateway!AfterDisconnect(p)
<1>1. GatewayTypes /\ GatewayLocals /\ inst' = 0 /\ 0 \notin Adapters
  BY Zero DEF Gateway!DisconnectInstance, GatewayInv
<1>2. c \in {"connect", "erase", "asleep"} /\ (proc[p].kind = "delete" => c = "erase")
  BY TaskKinds
<1>3. Gateway!Alive(inst) => inst \in Adapters
  BY PlainTypes DEF Gateway!Alive
<1>4. CASE Gateway!Alive(inst)
  <2>1. Gateway!Disconnect(inst, p, "stopping") /\ adapter' = Gateway!Cleared(inst, FALSE) /\ UNCHANGED router /\ inst \in Adapters
    BY <1>3, <1>4 DEF Gateway!DisconnectInstance
  <2>2. /\ proc' \in [Gateway!Procs -> Tasks] /\ socket' \in [Sockets -> Ports] /\ Spares(p)
        /\ proc'[p].pc = "stopping" /\ proc'[p].kind = proc[p].kind
    BY <1>1, <2>1, DisconnectType DEF Spares
  <2>3. adapter' \in [Adapters -> Objects]
    BY <1>1, <2>1, ClearedType
  <2>4. GatewayTypes'
    BY <1>1, <2>1, <2>2, <2>3, PlainTypes DEF GatewayTypes
  <2>5. "stopping" \notin Attempt \cup Subscribed
    BY DEF Attempt, Subscribed
  <2>6. Fits(p)'
    <3>1. proc[p].kind = "delete" => p \in Clients
      BY <1>1 DEF GatewayLocals
    <3> QED
      BY <2>2, <2>5, <3>1 DEF Fits
  <2>7. Gateway!Close({adapter[inst].sock}, {adapter[inst].reads})
    BY <2>1 DEF Gateway!Disconnect
  <2>8. \A x \in Sockets : socket'[x].state = "closed" => socket'[x].owner = 0
    BY <1>1, <2>7, CloseEffects
  <2>9. ASSUME ~overlapped'
        PROVE  OneOpen'
    <3>1. OneOpen
      BY <2>9 DEF GatewayInv, Sequential
    <3>2. \A x \in Sockets : socket'[x].state = "closed"
      BY <1>1, <2>7, <3>1, CloseEffects DEF OneOpen, Gateway!Unused
    <3> QED
      BY <3>2, AllShut
  <2> QED
    BY <2>2, <2>4, <2>5, <2>6, <2>8, <2>9, TaskGoesOn
<1>5. CASE ~Gateway!Alive(inst)
  <2>1. Gateway!Goto(p, c, 0, 0) /\ UNCHANGED <<adapter, socket>> /\ router' \in {router, Gateway!Unregistered}
    BY <1>5 DEF Gateway!DisconnectInstance
  <2>2. c \notin Attempt \cup Subscribed \cup {"opening", "failing"}
        /\ c \in Idle \cup Attempt \cup {"failing", "connect", "disconnect", "stopping", "erase"}
    BY <1>2 DEF Attempt, Subscribed, Idle
  <2> HIDE DEF c
  <2>3. /\ proc' \in [Gateway!Procs -> Tasks] /\ Spares(p)
        /\ proc'[p].pc = c /\ proc'[p].kind = proc[p].kind
    BY <1>1, <2>1, <2>2, GotoType DEF Spares
  <2>4. GatewayTypes'
    <3>1. router' \in [a : Adapters \cup {0}, current : BOOLEAN] /\ (router'.current => router'.a # 0)
      <4>1. Gateway!Unregistered \in [a : Adapters \cup {0}, current : BOOLEAN] /\ ~Gateway!Unregistered.current
        BY DEF Gateway!Unregistered
      <4> QED
        BY <2>1, <4>1, PlainTypes
    <3> QED
      BY <1>1, <2>1, <2>3, <3>1, PlainTypes DEF GatewayTypes
  <2>5. Fits(p)'
    <3>1. proc[p].kind = "delete" => p \in Clients
      BY <1>1 DEF GatewayLocals
    <3> QED
      BY <1>2, <2>2, <2>3, <3>1 DEF Fits
  <2>6. \A x \in Sockets : socket'[x].state = "closed" => socket'[x].owner = 0
    BY <1>1, <2>1 DEF GatewayLocals
  <2>7. ASSUME ~overlapped'
        PROVE  OneOpen'
    <3>1. OneOpen /\ \A q \in Gateway!Procs : proc[q].pc \notin Subscribed
      BY <2>7 DEF GatewayInv, Sequential, Idle, Subscribed
    <3>2. \A x \in Sockets : socket'[x].state = "closed"
      BY <1>5, <2>1, <3>1 DEF OneOpen
    <3> QED
      BY <3>2, AllShut
  <2> QED
    BY <2>1, <2>2, <2>3, <2>4, <2>5, <2>6, <2>7, TaskGoesOn
<1> QED
  BY <1>4, <1>5

LEMMA CallDisconnectsKept == ASSUME GatewayInv, NEW p \in Gateway!Procs, Gateway!CallDisconnects(p) PROVE GatewayInv'
<1>1. proc[p].pc = "disconnect" /\ Gateway!DisconnectInstance(p) /\ UNCHANGED <<row, calls, overlapped, faults>>
  BY DEF Gateway!CallDisconnects, Gateway!At
<1>2. proc[p].pc \notin Idle \cup Subscribed
  BY <1>1 DEF Idle, Subscribed
<1>3. ~overlapped' => ~overlapped /\ \A q \in Gateway!Procs \ {p} : proc[q].pc \in Idle
  BY <1>1, <1>2, Sole
<1> QED
  BY <1>1, <1>2, <1>3, DisconnectKept, PlainTypes

\* What begins while something else is under way overlaps it.
LEMMA BeginsAlone ==
  ASSUME GatewayInv, overlapped' = (overlapped \/ Gateway!Pending)
  PROVE  overlapped' \in BOOLEAN /\ (~overlapped' => ~overlapped /\ \A q \in Gateway!Procs : proc[q].pc \in Idle)
BY PlainTypes DEF Gateway!Pending, Idle

LEMMA TickKept == ASSUME GatewayInv, Gateway!Tick PROVE GatewayInv'
<1> DEFINE p == Supervisor
<1>1. p \in Gateway!Procs /\ proc[p].pc = "asleep" /\ UNCHANGED <<row, calls, faults>> /\ overlapped' = (overlapped \/ Gateway!Pending)
  BY Zero DEF Gateway!Tick, Gateway!At, GatewayInv
<1>2. overlapped' \in BOOLEAN /\ (~overlapped' => ~overlapped /\ \A q \in Gateway!Procs : proc[q].pc \in Idle)
  BY <1>1, BeginsAlone
<1>3. proc[p].pc \notin Subscribed /\ proc[p].kind # "delete"
  BY <1>1, TaskKinds DEF Subscribed
<1>4. CASE Gateway!DisconnectInstance(p)
  BY <1>1, <1>2, <1>3, <1>4, DisconnectKept
<1>5. CASE Gateway!Build(p) /\ inst = 0 /\ UNCHANGED <<router, socket>>
  <2>1. ~Gateway!Alive(inst)
    BY <1>5 DEF Gateway!Alive
  <2> QED
    BY <1>1, <1>2, <1>3, <1>5, <2>1, BuildKept
<1>6. CASE inst # 0 /\ ~Gateway!Alive(inst) /\ Gateway!Goto(p, "start", inst, 0) /\ UNCHANGED <<inst, router, adapter, socket>>
  <2>1. GatewayTypes /\ GatewayLocals /\ inst \in Adapters /\ "start" \in Attempt /\ "start" \notin Subscribed \cup {"opening", "failing"}
    BY <1>6, PlainTypes DEF GatewayInv, Attempt, Subscribed
  <2>2. /\ proc' \in [Gateway!Procs -> Tasks] /\ Spares(p)
        /\ proc'[p].pc = "start" /\ proc'[p].a = inst /\ proc'[p].kind = proc[p].kind
    <3>1. Gateway!Goto(p, "start", inst, 0) /\ inst \in Adapters \cup {0} /\ 0 \in Sockets \cup {0}
          /\ "start" \in Idle \cup Attempt \cup {"failing", "connect", "disconnect", "stopping", "erase"}
      BY <1>6, <2>1
    <3> HIDE DEF p
    <3> QED
      BY ONLY <1>1, <2>1, <3>1, GotoType DEF Spares
  <2>3. GatewayTypes'
    BY <1>1, <1>2, <1>6, <2>2, PlainTypes DEF GatewayTypes
  <2>4. Fits(p)'
    BY <1>3, <2>1, <2>2 DEF Fits
  <2>5. \A x \in Sockets : socket'[x].state = "closed" => socket'[x].owner = 0
    BY <1>6, <2>1 DEF GatewayLocals
  <2>6. ~Gateway!Alive(inst)'
    BY <1>6 DEF Gateway!Alive
  <2>7. ASSUME ~overlapped'
        PROVE  OneOpen'
    <3>1. \A x \in Sockets : socket'[x].state = "closed"
      BY <1>2, <1>6, <2>7, AtRest
    <3> QED
      BY <3>1, AllShut
  <2> HIDE DEF p
  <2> QED
    BY <1>1, <1>2, <1>6, <2>1, <2>2, <2>3, <2>4, <2>5, <2>6, <2>7, TaskGoesOn
<1> QED
  BY <1>4, <1>5, <1>6 DEF Gateway!Tick

\* A call begins: if something is under way, they overlap from now on.
LEMMA CallKept == ASSUME GatewayInv, NEW p \in Gateway!Procs, Gateway!Call(p) PROVE GatewayInv'
<1>1. /\ p \in Clients /\ proc[p].pc = "new" /\ row # "gone" /\ calls' = calls + 1 /\ calls < MaxCalls
      /\ overlapped' = (overlapped \/ Gateway!Pending) /\ UNCHANGED <<row, inst, router, adapter, socket, faults>>
  BY DEF Gateway!Call
<1>2. PICK kind \in {"connect", "reconnect", "delete"} :
        proc' = [proc EXCEPT ![p].kind = kind, ![p].pc = IF kind = "connect" THEN "connect" ELSE "disconnect"]
  BY DEF Gateway!Call
<1>3. PICK c \in {"connect", "disconnect"} : c = (IF kind = "connect" THEN "connect" ELSE "disconnect")
  OBVIOUS
<1>4. overlapped' \in BOOLEAN /\ (~overlapped' => ~overlapped /\ \A q \in Gateway!Procs : proc[q].pc \in Idle)
  BY <1>1, BeginsAlone
<1>5. /\ proc' \in [Gateway!Procs -> Tasks] /\ proc'[p].pc = c /\ proc'[p].kind = kind
      /\ \A q \in Gateway!Procs \ {p} : proc'[q] = proc[q]
  <2>1. \A x \in Tasks : /\ [x EXCEPT !.kind = kind, !.pc = c] \in Tasks
                         /\ [x EXCEPT !.kind = kind, !.pc = c].pc = c /\ [x EXCEPT !.kind = kind, !.pc = c].kind = kind
    BY DEF Tasks
  <2>2. proc' = [proc EXCEPT ![p] = [proc[p] EXCEPT !.kind = kind, !.pc = c]]
    BY <1>2, <1>3, PlainTypes DEF Tasks
  <2> QED
    BY <2>1, <2>2, PlainTypes
<1>6. calls' \in 0..MaxCalls
  BY <1>1, PlainTypes DEF GatewayInv, GatewayBounds
<1>7. GatewayTypes'
  BY <1>1, <1>4, <1>5, <1>6, PlainTypes DEF GatewayTypes
<1>8. c \notin Attempt \cup Subscribed \cup {"opening", "failing"} /\ (kind = "delete" => c = "disconnect")
  BY <1>3 DEF Attempt, Subscribed
<1>9. Fits(p)' /\ Spares(p)
  BY <1>1, <1>5, <1>8 DEF Fits, Spares
<1>10. \A x \in Sockets : socket'[x].state = "closed" => socket'[x].owner = 0
  BY <1>1 DEF GatewayInv, GatewayLocals
<1>11. ASSUME ~overlapped'
       PROVE  OneOpen'
  <2>1. \A x \in Sockets : socket[x].state # "closed" =>
              /\ inst \in Adapters /\ socket[x].owner = inst /\ adapter[inst].sock = x /\ socket[x].state \in {"open", "live"}
              /\ Gateway!Alive(inst)
    BY <1>4, <1>11, AtRest
  <2>2. Gateway!Alive(inst)' <=> Gateway!Alive(inst)
    BY <1>1 DEF Gateway!Alive
  <2> QED
    BY <1>1, <2>1, <2>2 DEF OneOpen
<1> QED
  BY <1>1, <1>4, <1>5, <1>7, <1>8, <1>9, <1>10, <1>11, TaskGoesOn

\* The socket that transport.connect() returns is the only open one.
LEMMA OpenedKept == ASSUME GatewayInv, NEW p \in Gateway!Procs, Gateway!Opened(p) PROVE GatewayInv'
<1>1. PICK a \in Adapters, s \in Sockets : a = proc[p].a /\ s = proc[p].sock
  BY TaskKinds DEF Gateway!Opened, Gateway!At, Attempt
<1>2. /\ proc[p].pc = "opening" /\ adapter' = [adapter EXCEPT ![a].sock = s, ![a].reads = s]
      /\ socket' = [socket EXCEPT ![s] = [state |-> "open", owner |-> a, read |-> TRUE]] /\ Gateway!Goto(p, "subscribing", a, s)
      /\ UNCHANGED <<row, inst, router, calls, overlapped, faults>>
  BY <1>1 DEF Gateway!Opened, Gateway!At
<1>3. GatewayTypes /\ "subscribing" \in Attempt /\ "subscribing" \in Subscribed /\ "subscribing" # "failing"
      /\ proc[p].pc \in Attempt \ Subscribed /\ proc[p].pc \notin Idle /\ proc[p].kind # "delete"
  BY <1>2, TaskKinds DEF Attempt, Subscribed, Idle, GatewayInv
<1>4. /\ proc' \in [Gateway!Procs -> Tasks] /\ Spares(p)
      /\ proc'[p].pc = "subscribing" /\ proc'[p].a = a /\ proc'[p].sock = s /\ proc'[p].kind = proc[p].kind
  <2>1. a \in Adapters \cup {0} /\ s \in Sockets \cup {0} /\ Gateway!Goto(p, "subscribing", a, s)
        /\ "subscribing" \in Idle \cup Attempt \cup {"failing", "connect", "disconnect", "stopping", "erase"}
    BY <1>2, <1>3
  <2>2. /\ proc' \in [Gateway!Procs -> Tasks]
        /\ proc'[p].pc = "subscribing" /\ proc'[p].a = a /\ proc'[p].sock = s /\ proc'[p].kind = proc[p].kind
        /\ \A q \in Gateway!Procs \ {p} : proc'[q] = proc[q]
    <3> DEFINE c == "subscribing"
    <3>1. GatewayTypes /\ Gateway!Goto(p, c, a, s) /\ c \in Idle \cup Attempt \cup {"failing", "connect", "disconnect", "stopping", "erase"}
      BY <1>3, <2>1
    <3>2. c = "subscribing"
      OBVIOUS
    <3> HIDE DEF c
    <3>3. /\ proc' \in [Gateway!Procs -> Tasks]
          /\ proc'[p].pc = c /\ proc'[p].a = a /\ proc'[p].sock = s /\ proc'[p].kind = proc[p].kind
          /\ \A q \in Gateway!Procs \ {p} : proc'[q] = proc[q]
      BY <2>1, <3>1, GotoType
    <3> QED
      BY <3>2, <3>3
  <2> QED
    BY <2>2 DEF Spares
<1>5. /\ adapter' \in [Adapters -> Objects] /\ adapter'[a].sock = s
      /\ adapter'[a].started = adapter[a].started /\ adapter'[a].connected = adapter[a].connected
  <2>1. \A x \in Objects : /\ [x EXCEPT !.sock = s, !.reads = s] \in Objects
                           /\ [x EXCEPT !.sock = s, !.reads = s].sock = s
                           /\ [x EXCEPT !.sock = s, !.reads = s].started = x.started
                           /\ [x EXCEPT !.sock = s, !.reads = s].connected = x.connected
    BY DEF Objects
  <2>2. adapter' = [adapter EXCEPT ![a] = [adapter[a] EXCEPT !.sock = s, !.reads = s]]
    BY <1>2, PlainTypes DEF Objects
  <2> QED
    BY <2>1, <2>2, PlainTypes
<1>6. /\ socket' \in [Sockets -> Ports] /\ socket'[s].state = "open" /\ socket'[s].owner = a
      /\ \A x \in Sockets \ {s} : socket'[x] = socket[x]
  BY <1>2, PlainTypes DEF Ports
<1>7. GatewayTypes'
  BY <1>2, <1>4, <1>5, <1>6, PlainTypes DEF GatewayTypes
<1>8. Fits(p)'
  BY <1>3, <1>4 DEF Fits
<1>9. \A x \in Sockets : socket'[x].state = "closed" => socket'[x].owner = 0
  BY <1>6 DEF GatewayInv, GatewayLocals
<1>10. ASSUME ~overlapped'
       PROVE  /\ \A q \in Gateway!Procs \ {p} : proc[q].pc \in Idle
              /\ a = inst' /\ ~Gateway!Alive(inst)' /\ OneOpen'
  <2>1. /\ \A q \in Gateway!Procs \ {p} : proc[q].pc \in Idle
        /\ a = inst /\ ~Gateway!Alive(inst) /\ \A x \in Sockets : socket[x].state = "closed"
    BY <1>1, <1>2, <1>3, <1>10, Sole
  <2>2. ~Gateway!Alive(inst)'
    BY <1>2, <1>5, <2>1 DEF Gateway!Alive
  <2>3. \A x \in Sockets : socket'[x].state # "closed" => x = s
    BY <1>6, <2>1
  <2>4. OneOpen'
    BY <1>2, <1>3, <1>4, <1>5, <1>6, <2>1, <2>3 DEF OneOpen
  <2> QED
    BY <1>2, <2>1, <2>2, <2>4
<1> QED
  BY <1>2, <1>3, <1>4, <1>7, <1>8, <1>9, <1>10, TaskGoesOn

\* The error path of _connect.
LEMMA FailKept ==
  ASSUME GatewayInv, NEW p \in Gateway!Procs, Gateway!Fail(p), proc[p].pc \in {"subscribing", "failing"}, faults' \in 0..MaxFaults
  PROVE  GatewayInv'
<1>1. PICK a \in Adapters, s \in Sockets : a = proc[p].a /\ s = proc[p].sock
  BY TaskKinds DEF Attempt, Subscribed
<1>2. /\ adapter' = [adapter EXCEPT ![a].sock = 0, ![a].reads = 0] /\ Gateway!Close({s}, {adapter[a].reads})
      /\ row' = Gateway!Degraded /\ Gateway!Ends(p) /\ UNCHANGED <<inst, router, calls, overlapped>>
  BY <1>1 DEF Gateway!Fail
<1> DEFINE c == Gateway!Done(p)
<1>3. GatewayTypes /\ GatewayLocals /\ proc[p].pc \notin Idle /\ proc[p].kind # "delete" /\ c \in {"asleep", "new"}
  BY TaskKinds DEF Idle, GatewayInv
<1>4. Gateway!Goto(p, c, 0, 0) /\ c \in Idle /\ c \notin Attempt \cup Subscribed \cup {"opening", "failing"}
  BY <1>2, <1>3 DEF Gateway!Ends, Idle, Attempt, Subscribed
<1> HIDE DEF c
<1>5. /\ proc' \in [Gateway!Procs -> Tasks] /\ Spares(p)
      /\ proc'[p].pc = c /\ proc'[p].kind = proc[p].kind
  BY <1>3, <1>4, GotoType DEF Spares
<1>6. adapter' \in [Adapters -> Objects] /\ socket' \in [Sockets -> Ports]
  <2>1. \A x \in Objects : [x EXCEPT !.sock = 0, !.reads = 0] \in Objects
    BY DEF Objects
  <2>2. adapter' = [adapter EXCEPT ![a] = [adapter[a] EXCEPT !.sock = 0, !.reads = 0]]
    BY <1>2, PlainTypes DEF Objects
  <2>3. adapter' \in [Adapters -> Objects]
    BY <2>1, <2>2, PlainTypes
  <2>4. GatewayTypes /\ Gateway!Close({s}, {adapter[a].reads})
    BY <1>2, <1>3
  <2>5. socket' \in [Sockets -> Ports]
    BY ONLY <2>4, CloseType
  <2> QED
    BY <2>3, <2>5
<1>7. row' \in {"degraded", "gone"} /\ (row = "gone" => row' = "gone")
  BY <1>2 DEF Gateway!Degraded
<1>8. GatewayTypes'
  BY <1>2, <1>5, <1>6, <1>7, PlainTypes DEF GatewayTypes
<1>9. Fits(p)'
  BY <1>3, <1>4, <1>5 DEF Fits
<1>10. \A x \in Sockets : socket'[x].state = "closed" => socket'[x].owner = 0
  BY <1>2, <1>3, CloseEffects
<1>11. ASSUME ~overlapped'
       PROVE  (\A q \in Gateway!Procs \ {p} : proc[q].pc \in Idle) /\ OneOpen'
  <2>1. /\ \A q \in Gateway!Procs \ {p} : proc[q].pc \in Idle
        /\ proc[p].pc # "failing" /\ (proc[p].pc \in Attempt => ~Gateway!Alive(inst))
        /\ \A x \in Sockets : socket[x].state # "closed" => Gateway!Alive(inst) \/ proc[p].sock = x
    BY <1>2, <1>3, <1>11, Sole
  <2>2. \A x \in Sockets : socket[x].state # "closed" => x = s
    BY <1>1, <2>1 DEF Attempt
  <2>3. \A x \in Sockets : socket'[x].state = "closed"
    BY <1>2, <1>3, <2>2, CloseEffects DEF Gateway!Unused
  <2> QED
    BY <2>1, <2>3, AllShut
<1> QED
  BY <1>4, <1>5, <1>7, <1>8, <1>9, <1>10, <1>11, TaskGoesOn

LEMMA FailsKept ==
  ASSUME GatewayInv, NEW p \in Gateway!Procs, Gateway!TimesOut(p) \/ Gateway!NobodyReads(p) \/ Gateway!TakenOver(p)
  PROVE  GatewayInv'
<1>1. Gateway!Fail(p) /\ proc[p].pc \in {"subscribing", "failing"} /\ (UNCHANGED faults \/ Gateway!Faulty)
  BY DEF Gateway!TimesOut, Gateway!NobodyReads, Gateway!TakenOver, Gateway!At
<1> QED
  BY <1>1, FailKept, FaultyTypes, PlainTypes

\* The attempt succeeds: its adapter is alive, on the socket it opened.
LEMMA ConnectedKept == ASSUME GatewayInv, NEW p \in Gateway!Procs, Gateway!Connected(p) PROVE GatewayInv'
<1>1. PICK a \in Adapters, s \in Sockets : a = proc[p].a /\ s = proc[p].sock
  BY TaskKinds DEF Attempt, Subscribed, Gateway!Connected, Gateway!At
<1>2. /\ proc[p].pc = "acked" /\ adapter' = [adapter EXCEPT ![a].connected = TRUE, ![a].started = TRUE]
      /\ row' \in {row, "connected"} /\ (row = "gone" => row' = "gone") /\ router' = [a |-> a, current |-> row # "gone"]
      /\ Gateway!Ends(p) /\ UNCHANGED <<inst, socket, calls, overlapped, faults>>
  BY <1>1 DEF Gateway!Connected, Gateway!At
<1> DEFINE c == Gateway!Done(p)
<1>3. GatewayTypes /\ GatewayLocals /\ proc[p].pc \notin Idle /\ proc[p].pc \in Attempt /\ proc[p].kind # "delete" /\ c \in {"asleep", "new"}
      /\ a # 0
  BY <1>2, TaskKinds, Zero DEF Idle, GatewayInv, Attempt
<1>4. Gateway!Goto(p, c, 0, 0) /\ c \in Idle /\ c \notin Attempt \cup Subscribed \cup {"opening", "failing"}
  BY <1>2, <1>3 DEF Gateway!Ends, Idle, Attempt, Subscribed
<1> HIDE DEF c
<1>5. /\ proc' \in [Gateway!Procs -> Tasks] /\ Spares(p)
      /\ proc'[p].pc = c /\ proc'[p].kind = proc[p].kind
  BY <1>3, <1>4, GotoType DEF Spares
<1>6. /\ adapter' \in [Adapters -> Objects] /\ adapter'[a].sock = adapter[a].sock
      /\ adapter'[a].started /\ adapter'[a].connected
  <2>1. \A x \in Objects : /\ [x EXCEPT !.connected = TRUE, !.started = TRUE] \in Objects
                           /\ [x EXCEPT !.connected = TRUE, !.started = TRUE].sock = x.sock
                           /\ [x EXCEPT !.connected = TRUE, !.started = TRUE].started
                           /\ [x EXCEPT !.connected = TRUE, !.started = TRUE].connected
    BY DEF Objects
  <2>2. adapter' = [adapter EXCEPT ![a] = [adapter[a] EXCEPT !.connected = TRUE, !.started = TRUE]]
    BY <1>2, PlainTypes DEF Objects
  <2> QED
    BY <2>1, <2>2, PlainTypes
<1>7. router' \in [a : Adapters \cup {0}, current : BOOLEAN] /\ router'.a # 0
  BY <1>2, <1>3
<1>8. row' \in {"pending", "connected", "degraded", "gone"}
  BY <1>2, PlainTypes
<1>9. GatewayTypes'
  BY <1>2, <1>5, <1>6, <1>7, <1>8, PlainTypes DEF GatewayTypes
<1>10. Fits(p)'
  BY <1>3, <1>4, <1>5 DEF Fits
<1>11. \A x \in Sockets : socket'[x].state = "closed" => socket'[x].owner = 0
  BY <1>2, <1>3 DEF GatewayLocals
<1>12. ASSUME ~overlapped'
       PROVE  (\A q \in Gateway!Procs \ {p} : proc[q].pc \in Idle) /\ OneOpen'
  <2>1. /\ \A q \in Gateway!Procs \ {p} : proc[q].pc \in Idle
        /\ a = inst
        /\ \A x \in Sockets : socket[x].state # "closed" =>
              socket[x].owner = inst /\ adapter[inst].sock = x /\ socket[x].state \in {"open", "live"}
    BY <1>1, <1>2, <1>3, <1>12, Sole
  <2>2. Gateway!Alive(inst)'
    BY <1>2, <1>3, <1>6, <2>1 DEF Gateway!Alive
  <2> QED
    BY <1>2, <1>6, <2>1, <2>2 DEF OneOpen
<1> QED
  BY <1>2, <1>4, <1>5, <1>9, <1>10, <1>11, <1>12, TaskGoesOn

\* The steps of the platform, of receive loops and of heartbeats: no task
\* moves on, and no socket opens.
LEMMA OutsideKept ==
  ASSUME GatewayInv, UNCHANGED <<row, inst, router, proc, calls, overlapped>>, faults' \in 0..MaxFaults,
         adapter' \in [Adapters -> Objects], socket' \in [Sockets -> Ports],
         \A s \in Sockets : socket'[s].state = "closed" => socket'[s].owner = 0,
         \A a \in Adapters : adapter'[a].started /\ adapter'[a].connected => adapter[a].started /\ adapter[a].connected,
         ~overlapped => \A s \in Sockets : socket'[s].state # "closed" =>
            /\ socket[s].state # "closed" /\ socket'[s].owner = socket[s].owner /\ socket'[s].state \in {"open", "live"}
            /\ \A a \in Adapters : adapter[a].sock = s =>
                 adapter'[a].sock = s /\ (adapter[a].started /\ adapter[a].connected => adapter'[a].started /\ adapter'[a].connected)
  PROVE  GatewayInv'
<1>1. GatewayTypes'
  BY PlainTypes DEF GatewayTypes
<1>2. GatewayLocals'
  BY DEF GatewayInv, GatewayLocals
<1>3. Sequential'
  <2> SUFFICES ASSUME ~overlapped
               PROVE  OneAttempt' /\ OneOpen'
    BY DEF Sequential
  <2>1. OneAttempt /\ OneOpen
    BY DEF GatewayInv, Sequential
  <2>2. Gateway!Alive(inst)' => Gateway!Alive(inst)
    BY PlainTypes DEF Gateway!Alive
  <2>3. OneAttempt'
    BY <2>1, <2>2 DEF OneAttempt, InProgress
  <2>4. ASSUME NEW s \in Sockets, socket'[s].state # "closed"
        PROVE  /\ inst' \in Adapters /\ socket'[s].owner = inst' /\ adapter'[inst'].sock = s /\ socket'[s].state \in {"open", "live"}
               /\ Gateway!Alive(inst)' \/ \E p \in Gateway!Procs : proc'[p].pc \in Subscribed /\ proc'[p].sock = s
    <3>1. /\ inst \in Adapters /\ socket[s].owner = inst /\ adapter[inst].sock = s
          /\ Gateway!Alive(inst) \/ \E p \in Gateway!Procs : proc[p].pc \in Subscribed /\ proc[p].sock = s
      BY <2>1, <2>4 DEF OneOpen
    <3>2. Gateway!Alive(inst) => Gateway!Alive(inst)'
      BY <2>4, <3>1 DEF Gateway!Alive
    <3> QED
      BY <2>4, <3>1, <3>2
  <2> QED
    BY <2>3, <2>4 DEF OneOpen
<1> QED
  BY <1>1, <1>2, <1>3 DEF GatewayInv, GatewayBounds

\* With nothing overlapping, one socket at most is not closed.
LEMMA OnlyOpen ==
  ASSUME GatewayInv, ~overlapped, NEW s \in Sockets, NEW x \in Sockets, socket[s].state # "closed", socket[x].state # "closed"
  PROVE  s = x /\ socket[s].state \in {"open", "live"}
BY DEF GatewayInv, Sequential, OneOpen

\* A subscription that is accepted takes over from no other connection.
LEMMA AcceptKept == ASSUME GatewayInv, NEW s \in Sockets, Gateway!Accept(s) PROVE GatewayInv'
<1>1. socket[s].state = "open" /\ UNCHANGED <<row, inst, router, adapter, proc, calls, overlapped, faults>>
  BY DEF Gateway!Accept
<1>2. ASSUME NEW x \in Sockets
      PROVE  /\ socket'[x] \in Ports /\ socket'[x].owner = socket[x].owner
             /\ socket'[x].state = "closed" <=> socket[x].state = "closed"
             /\ socket'[x].state \in {"live", "kicked", socket[x].state}
             /\ socket'[x].state = "kicked" => socket[x].state \in {"live", "kicked"} /\ x # s
  <2>1. \A y \in Ports, v \in {"live", "kicked"} :
          [y EXCEPT !.state = v] \in Ports /\ [y EXCEPT !.state = v].owner = y.owner /\ [y EXCEPT !.state = v].state = v
    BY DEF Ports
  <2>2. socket[x] \in Ports
    BY PlainTypes
  <2>3. socket'[x] = IF x = s THEN [socket[s] EXCEPT !.state = "live"]
                     ELSE IF socket[x].state = "live" THEN [socket[x] EXCEPT !.state = "kicked"] ELSE socket[x]
    BY DEF Gateway!Accept
  <2>4. CASE x = s
    BY <1>1, <2>1, <2>2, <2>3, <2>4
  <2>5. CASE x # s /\ socket[x].state = "live"
    BY <2>1, <2>2, <2>3, <2>5
  <2>6. CASE x # s /\ socket[x].state # "live"
    BY <2>2, <2>3, <2>6
  <2> QED
    BY <2>4, <2>5, <2>6
<1>3. socket' \in [Sockets -> Ports]
  <2>1. socket' = [x \in Sockets |-> socket'[x]]
    BY DEF Gateway!Accept
  <2> QED
    BY <1>2, <2>1
<1>4. \A x \in Sockets : socket'[x].state = "closed" => socket'[x].owner = 0
  BY <1>2 DEF GatewayInv, GatewayLocals
<1>5. ASSUME ~overlapped, NEW x \in Sockets, socket'[x].state # "closed"
      PROVE  socket[x].state # "closed" /\ socket'[x].owner = socket[x].owner /\ socket'[x].state \in {"open", "live"}
  <2>1. socket[x].state # "closed" /\ x = s
    BY <1>1, <1>2, <1>5, OnlyOpen
  <2> QED
    BY <1>1, <1>2, <2>1
<1> QED
  BY <1>1, <1>3, <1>4, <1>5, OutsideKept, PlainTypes

\* Sockets that close, with what their adapter makes of it.
LEMMA ClosesKept ==
  ASSUME GatewayInv, UNCHANGED <<row, inst, router, proc, calls, overlapped>>, faults' \in 0..MaxFaults,
         adapter' \in [Adapters -> Objects], NEW s, Gateway!Close({s}, {}),
         \A a \in Adapters : adapter'[a].started /\ adapter'[a].connected => adapter[a].started /\ adapter[a].connected,
         \A a \in Adapters : adapter'[a] = adapter[a] \/ adapter[a].sock = s
  PROVE  GatewayInv'
<1>1. GatewayTypes /\ GatewayLocals
  BY DEF GatewayInv
<1>2. socket' \in [Sockets -> Ports]
  BY <1>1, CloseType
<1>3. \A x \in Sockets : /\ socket'[x].state = "closed" => socket'[x].owner = 0
                         /\ socket'[x].state # "closed" => x # s
                         /\ x # s => socket'[x].state = socket[x].state /\ socket'[x].owner = socket[x].owner
  BY <1>1, CloseEffects
<1>4. ASSUME ~overlapped, NEW x \in Sockets, socket'[x].state # "closed"
      PROVE  /\ socket[x].state # "closed" /\ socket'[x].owner = socket[x].owner /\ socket'[x].state \in {"open", "live"}
             /\ \A a \in Adapters : adapter[a].sock = x => adapter'[a] = adapter[a]
  BY <1>3, <1>4, OnlyOpen
<1> QED
  BY <1>2, <1>3, <1>4, OutsideKept

LEMMA TeardownKept == ASSUME GatewayInv, NEW a \in Adapters, Gateway!Teardown(a) PROVE GatewayInv'
<1>1. /\ adapter' = [adapter EXCEPT ![a] = [adapter[a] EXCEPT !.tear = FALSE, !.sock = 0]]
      /\ Gateway!Close({adapter[a].sock}, {}) /\ UNCHANGED <<row, inst, router, proc, calls, overlapped, faults>>
  BY PlainTypes DEF Gateway!Teardown, Objects
<1>2. \A x \in Objects : /\ [x EXCEPT !.tear = FALSE, !.sock = 0] \in Objects
                         /\ [x EXCEPT !.tear = FALSE, !.sock = 0].started = x.started
                         /\ [x EXCEPT !.tear = FALSE, !.sock = 0].connected = x.connected
  BY DEF Objects
<1>3. /\ adapter' \in [Adapters -> Objects]
      /\ \A b \in Adapters : adapter'[b].started = adapter[b].started /\ adapter'[b].connected = adapter[b].connected
      /\ \A b \in Adapters : b # a => adapter'[b] = adapter[b]
  BY <1>1, <1>2, PlainTypes
<1> DEFINE s == adapter[a].sock
<1>4. /\ \A b \in Adapters : adapter'[b].started /\ adapter'[b].connected => adapter[b].started /\ adapter[b].connected
      /\ \A b \in Adapters : adapter'[b] = adapter[b] \/ adapter[b].sock = s
  BY <1>3
<1>5. Gateway!Close({s}, {})
  BY <1>1
<1> HIDE DEF s
<1> QED
  BY <1>1, <1>3, <1>4, <1>5, ClosesKept, PlainTypes

LEMMA HeartbeatsKept == ASSUME GatewayInv, NEW a \in Adapters, Gateway!HeartbeatsMissed(a) PROVE GatewayInv'
<1>1. /\ adapter' = [adapter EXCEPT ![a] = [adapter[a] EXCEPT !.connected = FALSE, !.sock = 0]]
      /\ Gateway!Close({adapter[a].sock}, {}) /\ UNCHANGED <<row, inst, router, proc, calls, overlapped, faults>>
  BY PlainTypes DEF Gateway!HeartbeatsMissed, Objects
<1>2. \A x \in Objects : /\ [x EXCEPT !.connected = FALSE, !.sock = 0] \in Objects
                         /\ ~[x EXCEPT !.connected = FALSE, !.sock = 0].connected
  BY DEF Objects
<1>3. adapter' \in [Adapters -> Objects] /\ ~adapter'[a].connected /\ \A b \in Adapters : b # a => adapter'[b] = adapter[b]
  BY <1>1, <1>2, PlainTypes
<1> DEFINE s == adapter[a].sock
<1>4. /\ \A b \in Adapters : adapter'[b].started /\ adapter'[b].connected => adapter[b].started /\ adapter[b].connected
      /\ \A b \in Adapters : adapter'[b] = adapter[b] \/ adapter[b].sock = s
  BY <1>3
<1>5. Gateway!Close({s}, {})
  BY <1>1
<1> HIDE DEF s
<1> QED
  BY <1>1, <1>3, <1>4, <1>5, ClosesKept, PlainTypes

LEMMA BreaksKept == ASSUME GatewayInv, NEW s \in Sockets, Gateway!Breaks(s) PROVE GatewayInv'
<1> DEFINE a == socket[s].owner
<1>1. /\ adapter' = adapter \/ (adapter[a].sock = s /\ adapter' = [adapter EXCEPT ![a].connected = FALSE])
      /\ Gateway!Close({s}, {}) /\ UNCHANGED <<row, inst, router, proc, calls, overlapped>> /\ Gateway!Faulty
  BY DEF Gateway!Breaks
<1> HIDE DEF a
<1>2. /\ adapter' \in [Adapters -> Objects]
      /\ \A b \in Adapters : adapter'[b] = adapter[b] \/ (adapter[b].sock = s /\ ~adapter'[b].connected)
  <2>1. \A x \in Objects : [x EXCEPT !.connected = FALSE] \in Objects /\ ~[x EXCEPT !.connected = FALSE].connected
    BY DEF Objects
  <2>2. adapter \in [Adapters -> Objects]
    BY PlainTypes
  <2>3. ASSUME adapter[a].sock = s, adapter' = [adapter EXCEPT ![a].connected = FALSE]
        PROVE  adapter' \in [Adapters -> Objects] /\ \A b \in Adapters : adapter'[b] = adapter[b] \/ (b = a /\ ~adapter'[b].connected)
    BY <2>1, <2>2, <2>3
  <2> QED
    BY <1>1, <2>2, <2>3
<1> QED
  BY <1>1, <1>2, ClosesKept, FaultyTypes

\* disconnected_event comes only when attempts overlapped.
LEMMA KickedKept == ASSUME GatewayInv, NEW s \in Sockets, Gateway!Kicked(s) PROVE GatewayInv'
<1>1. GatewayTypes /\ GatewayLocals /\ socket[s].state = "kicked"
  BY DEF Gateway!Kicked, GatewayInv
<1>2. overlapped /\ overlapped'
  <2>1. overlapped
    BY <1>1, OnlyOpen, PlainTypes
  <2> QED
    BY <2>1 DEF Gateway!Kicked
<1> DEFINE a == socket[s].owner
<1>3. Gateway!Close({s}, {}) /\ UNCHANGED <<row, inst, router, calls, overlapped, faults>>
  BY DEF Gateway!Kicked
<1>4. adapter' = adapter \/ adapter' = [adapter EXCEPT ![a].connected = FALSE, ![a].tear = TRUE]
  BY DEF Gateway!Kicked
<1>5. \A p \in Gateway!Procs : proc'[p] = proc[p] \/ (proc[p].pc = "subscribing" /\ proc'[p] = [proc[p] EXCEPT !.pc = "failing"])
  BY DEF Gateway!Kicked
<1>6. proc' = [p \in Gateway!Procs |-> proc'[p]]
  BY PlainTypes, <1>1 DEF Gateway!Kicked
<1> HIDE DEF a
<1>7. adapter' \in [Adapters -> Objects]
  <2>1. \A x \in Objects : [x EXCEPT !.connected = FALSE, !.tear = TRUE] \in Objects
    BY DEF Objects
  <2>2. CASE adapter' = [adapter EXCEPT ![a].connected = FALSE, ![a].tear = TRUE] /\ a \in Adapters
    <3>1. adapter' = [adapter EXCEPT ![a] = [adapter[a] EXCEPT !.connected = FALSE, !.tear = TRUE]]
      BY <2>2, PlainTypes DEF Objects
    <3>2. adapter \in [Adapters -> Objects] /\ adapter[a] \in Objects
      BY <2>2, PlainTypes
    <3>3. [adapter[a] EXCEPT !.connected = FALSE, !.tear = TRUE] \in Objects
      BY <2>1, <3>2
    <3> QED
      BY <3>1, <3>2, <3>3
  <2>3. CASE adapter' = [adapter EXCEPT ![a].connected = FALSE, ![a].tear = TRUE] /\ a \notin Adapters
    BY <2>3, PlainTypes
  <2> QED
    BY <1>4, <2>2, <2>3, PlainTypes
<1>8. ASSUME NEW p \in Gateway!Procs
      PROVE  /\ proc'[p] \in Tasks
             /\ proc'[p] = proc[p]
                \/ (proc[p].pc = "subscribing" /\ proc'[p].pc = "failing" /\ proc'[p].kind = proc[p].kind
                    /\ proc'[p].a = proc[p].a /\ proc'[p].sock = proc[p].sock)
  <2>1. \A x \in Tasks : /\ [x EXCEPT !.pc = "failing"] \in Tasks /\ [x EXCEPT !.pc = "failing"].pc = "failing"
                         /\ [x EXCEPT !.pc = "failing"].kind = x.kind /\ [x EXCEPT !.pc = "failing"].a = x.a
                         /\ [x EXCEPT !.pc = "failing"].sock = x.sock
    BY DEF Tasks
  <2>2. proc[p] \in Tasks
    BY PlainTypes
  <2>3. CASE proc[p].pc = "subscribing" /\ proc'[p] = [proc[p] EXCEPT !.pc = "failing"]
    BY <2>1, <2>2, <2>3
  <2> QED
    BY <1>5, <2>2, <2>3
<1>9. proc' \in [Gateway!Procs -> Tasks] /\ socket' \in [Sockets -> Ports]
  BY <1>1, <1>3, <1>6, <1>8, CloseType
<1>10. GatewayTypes'
  BY <1>3, <1>7, <1>9, PlainTypes DEF GatewayTypes
<1>11. \A x \in Sockets : socket'[x].state = "closed" => socket'[x].owner = 0
  BY <1>1, <1>3, CloseEffects
<1>12. GatewayLocals'
  BY <1>1, <1>3, <1>8, <1>11 DEF GatewayLocals, Attempt, Subscribed
<1> QED
  BY <1>2, <1>10, <1>12 DEF GatewayInv, Sequential, GatewayBounds

LEMMA GatewayInit == GatewayBounds /\ Gateway!Init => GatewayInv
<1> SUFFICES ASSUME GatewayBounds, Gateway!Init
             PROVE  GatewayInv
  OBVIOUS
<1>1. /\ row = "pending" /\ inst = 0 /\ router = Gateway!Unregistered /\ calls = 0 /\ faults = 0 /\ overlapped = FALSE
      /\ adapter = [a \in Adapters |-> Gateway!NewAdapter] /\ socket = [s \in Sockets |-> Gateway!Unused]
      /\ proc = [p \in Gateway!Procs |-> [kind |-> "none", pc |-> IF p = Supervisor THEN "asleep" ELSE "new", a |-> 0, sock |-> 0]]
  BY DEF Gateway!Init
<1>2. Gateway!NewAdapter \in Objects /\ Gateway!Unused \in Ports /\ Gateway!Unused.state = "closed" /\ Gateway!Unused.owner = 0
      /\ Gateway!Unregistered \in [a : Adapters \cup {0}, current : BOOLEAN] /\ ~Gateway!Unregistered.current
  BY DEF Gateway!NewAdapter, Objects, Gateway!Unused, Ports, Gateway!Unregistered
<1>3. \A p \in Gateway!Procs : proc[p] \in Tasks /\ proc[p].kind = "none" /\ proc[p].pc \in {"asleep", "new"}
  BY <1>1 DEF Tasks, Idle
<1>4. GatewayTypes
  <2>1. proc \in [Gateway!Procs -> Tasks]
    BY <1>1, <1>3
  <2>2. 0 \in 0..MaxCalls /\ 0 \in 0..MaxFaults
    BY DEF GatewayBounds
  <2> QED
    BY <1>1, <1>2, <2>1, <2>2 DEF GatewayTypes
<1>5. GatewayLocals
  BY <1>1, <1>2, <1>3 DEF GatewayLocals, Attempt, Subscribed
<1>6. OneAttempt /\ OneOpen
  BY <1>1, <1>2, <1>3 DEF OneAttempt, OneOpen, InProgress, Idle, Attempt
<1> QED
  BY <1>4, <1>5, <1>6 DEF GatewayInv, Sequential

LEMMA GatewayNext == GatewayInv /\ [Gateway!Next]_Gateway!vars => GatewayInv'
<1> SUFFICES ASSUME GatewayInv, [Gateway!Next]_Gateway!vars
             PROVE  GatewayInv'
  OBVIOUS
<1>1. ASSUME NEW p \in Gateway!Procs, Gateway!Go(p) \/ Gateway!Call(p) \/ Gateway!OpenFails(p) \/ Gateway!TimesOut(p)
      PROVE  GatewayInv'
  BY <1>1, CallDisconnectsKept, StoppedKept, ConnectKept, EraseKept, StartKept, RestartingKept, OpenKept, ReopeningKept,
     OpenedKept, FailsKept, AcknowledgedKept, ConnectedKept, CallKept, OpenFailsKept DEF Gateway!Go
<1>2. ASSUME NEW s \in Sockets, Gateway!Accept(s) \/ Gateway!Kicked(s) \/ Gateway!Breaks(s)
      PROVE  GatewayInv'
  BY <1>2, AcceptKept, KickedKept, BreaksKept
<1>3. ASSUME NEW a \in Adapters, Gateway!Teardown(a) \/ Gateway!HeartbeatsMissed(a)
      PROVE  GatewayInv'
  BY <1>3, TeardownKept, HeartbeatsKept
<1>4. CASE UNCHANGED Gateway!vars
  <2>1. UNCHANGED <<row, inst, router, adapter, socket, proc, calls, overlapped, faults>>
    BY <1>4 DEF Gateway!vars
  <2>2. GatewayTypes'
    BY <2>1 DEF GatewayInv, GatewayTypes
  <2>3. GatewayLocals'
    BY <2>1 DEF GatewayInv, GatewayLocals
  <2>4. Sequential'
    BY <2>1 DEF GatewayInv, Sequential, OneAttempt, OneOpen, InProgress, Gateway!Alive
  <2> QED
    BY <2>2, <2>3, <2>4 DEF GatewayInv, GatewayBounds
<1> QED
  BY <1>1, <1>2, <1>3, <1>4, TickKept DEF Gateway!Next

\* The instance of the gateway keeps to its types, and once a delete has
\* answered there is no row (disconnect_instance, the HTTP handler's delete).
THEOREM GatewayIsTyped ==
  ASSUME GatewayBounds
  PROVE  Gateway!Spec => []Gateway!TypeOK
<1>1. GatewayInv => Gateway!TypeOK
  <2> SUFFICES ASSUME GatewayInv
               PROVE  Gateway!TypeOK
    OBVIOUS
  <2>1. \A a \in Adapters : adapter[a].sock \in Sockets \cup {0} /\ adapter[a].reads \in Sockets \cup {0}
    BY PlainTypes DEF Objects
  <2>2. \A s \in Sockets : socket[s].state \in {"closed", "open", "live", "kicked"} /\ socket[s].owner \in Adapters \cup {0}
    BY PlainTypes DEF Ports
  <2>3. \A p \in Clients : proc[p].kind = "delete" /\ proc[p].pc = "new" => row = "gone"
    BY DEF GatewayInv, GatewayLocals, Gateway!Procs
  <2> QED
    BY PlainTypes, <2>1, <2>2, <2>3 DEF Gateway!TypeOK
<1> QED
  BY <1>1, GatewayInit, GatewayNext, PTL DEF Gateway!Spec

\* As long as attempts and calls do not overlap, an adapter never leaves a
\* second socket (_connect of wecom_bot.py), and only the supervised adapter's
\* callbacks reach the router (connect_instance, _supervise of gateway.py).
THEOREM InstanceHasOneConnection ==
  ASSUME GatewayBounds
  PROVE  Gateway!Spec => []Gateway!OneConnection
<1>1. GatewayInv => Gateway!OneConnection
  <2> SUFFICES ASSUME GatewayInv, ~overlapped
               PROVE  Gateway!OneSocket /\ Gateway!OldCallbacksDropped
    BY DEF Gateway!OneConnection
  <2>1. OneOpen /\ \A s \in Sockets : socket[s].state = "closed" => socket[s].owner = 0
    BY DEF GatewayInv, Sequential, GatewayLocals
  <2>2. Gateway!OneSocket
    BY <2>1 DEF Gateway!OneSocket, OneOpen
  <2>3. Gateway!OldCallbacksDropped
    BY <2>1 DEF Gateway!OldCallbacksDropped, OneOpen, Gateway!LetsIn
  <2> QED
    BY <2>2, <2>3
<1> QED
  BY <1>1, GatewayInit, GatewayNext, PTL DEF Gateway!Spec

=============================================================================
