-------------------------- MODULE QqRepliesProofs --------------------------
(* Theorems about QqReplies, for every number of messages, calls and       *)
(* transports, every limit and every overlap, whatever the platform        *)
(* delivers again.                                                         *)
EXTENDS QqReplies, FiniteSetTheorems, TLAPS

USE BoundsAssumption, LimitAssumption, KindAssumption

-----------------------------------------------------------------------------
(* The invariant.                                                          *)

Flying == {"lock", "fetch", "void", "ask"}

\* What becomes of a call.
Lives ==
  \A k \in CallIds :
    /\ call[k].pc = "new" => call[k] = Unborn
    /\ call[k].pc \in Flying => call[k].result = "none" /\ ~call[k].got /\ call[k].e # 0
    /\ call[k].pc = "done" => call[k].result # "none"
    /\ call[k].m # 0 => call[k].m <= came

\* The context is that of a message that has come.
Known == ctx.m <= came

\* The context of a message that may be replied to, and the first it has.
Open == ctx.m # 0 /\ age[ctx.m] # "old" /\ ctx.m \notin anew

\* next_seq is above all numbers given out.
Numbered == Open => \A k \in CallIds : call[k].m = ctx.m => call[k].seq < ctx.seq

\* The sends that are over and count.
Over(m) == Counting(m) \ UnderWay

\* passive_used accounts for them.
Accounted == Open => Cardinality(Over(ctx.m)) <= ctx.used
Few == Cardinality(UnderWay) <= Overlap

IInv ==
  /\ TypeOK /\ Lives /\ Known /\ Numbered /\ NumbersAreOwn /\ VerdictsAreHonest
  /\ Accounted /\ Few /\ LimitKept

-----------------------------------------------------------------------------
(* Sets of calls.                                                          *)

LEMMA CallsAreFinite ==
  /\ IsFiniteSet(CallIds)
  /\ \A S \in SUBSET CallIds : IsFiniteSet(S) /\ Cardinality(S) \in Nat
<1>1. IsFiniteSet(CallIds)
  BY FS_Interval DEF CallIds
<1> QED
  BY <1>1, FS_Subset, FS_CardinalityType

LEMMA Bigger ==
  ASSUME NEW S \in SUBSET CallIds, NEW T \in SUBSET S
  PROVE  Cardinality(T) <= Cardinality(S)
BY CallsAreFinite, FS_Subset

LEMMA OneMore ==
  ASSUME NEW S \in SUBSET CallIds, NEW k \in CallIds
  PROVE  Cardinality(S \cup {k}) <= Cardinality(S) + 1
BY CallsAreFinite, FS_AddElement

LEMMA OneMoreExactly ==
  ASSUME NEW S \in SUBSET CallIds, NEW k \in CallIds \ S
  PROVE  Cardinality(S \cup {k}) = Cardinality(S) + 1
BY CallsAreFinite, FS_AddElement

LEMMA OneLess ==
  ASSUME NEW S \in SUBSET CallIds, NEW k \in S
  PROVE  Cardinality(S \ {k}) = Cardinality(S) - 1
BY CallsAreFinite, FS_RemoveElement

\* What counts is over or under way.
LEMMA CountingIsOverOrUnderWay ==
  ASSUME NEW m \in Numbers
  PROVE  /\ Counting(m) \in SUBSET CallIds /\ Over(m) \in SUBSET CallIds /\ UnderWay \in SUBSET CallIds
         /\ Cardinality(Counting(m)) <= Cardinality(Over(m)) + Cardinality(UnderWay)
<1>1. Counting(m) \in SUBSET CallIds /\ Over(m) \in SUBSET CallIds /\ UnderWay \in SUBSET CallIds
  BY DEF Counting, Over, UnderWay
<1>2. Counting(m) \in SUBSET (Over(m) \cup UnderWay)
  BY DEF Over
<1>3. Cardinality(Over(m) \cup UnderWay) <= Cardinality(Over(m)) + Cardinality(UnderWay)
  <2>1. Cardinality(Over(m) \cup UnderWay)
        = Cardinality(Over(m)) + Cardinality(UnderWay) - Cardinality(Over(m) \cap UnderWay)
    BY <1>1, CallsAreFinite, FS_Union
  <2>2. Over(m) \cap UnderWay \in SUBSET CallIds
    BY <1>1
  <2> QED
    BY <1>1, <2>1, <2>2, CallsAreFinite
<1>4. Cardinality(Counting(m)) <= Cardinality(Over(m) \cup UnderWay)
  BY <1>1, <1>2, Bigger
<1>5. Over(m) \cup UnderWay \in SUBSET CallIds
  BY <1>1
<1> QED
  BY <1>1, <1>3, <1>4, <1>5, CallsAreFinite

-----------------------------------------------------------------------------
(* Steps that concern no call.                                             *)

\* What IInv says of calls alone stays when they do.
LEMMA CallsStay ==
  ASSUME IInv, call' = call, came' \in came..Messages, anew \in SUBSET anew'
  PROVE  /\ Lives' /\ NumbersAreOwn' /\ VerdictsAreHonest' /\ Few' /\ LimitKept'
         /\ \A m \in Numbers : Over(m)' = Over(m)
<1>1. came \in 0..Messages
  BY DEF IInv, TypeOK
<1>2. UnderWay' = UnderWay /\ \A m \in Numbers : Counting(m)' = Counting(m)
  BY DEF UnderWay, Counting
<1>3. Lives'
  BY <1>1 DEF IInv, Lives, TypeOK, CallRecord
<1>4. NumbersAreOwn' /\ VerdictsAreHonest'
  BY DEF IInv, NumbersAreOwn, Reused, VerdictsAreHonest
<1>5. Few' /\ LimitKept'
  BY <1>2 DEF IInv, Few, LimitKept
<1>6. \A m \in Numbers : Over(m)' = Over(m)
  BY <1>2 DEF Over
<1> QED
  BY <1>3, <1>4, <1>5, <1>6

LEMMA InitKeeps ==
  ASSUME Init
  PROVE  IInv
<1>1. TypeOK
  <2>1. Unborn \in CallRecord
    BY DEF Unborn, CallRecord, Results
  <2>2. call \in [CallIds -> CallRecord] /\ age \in [Numbers -> {"fresh", "late", "old"}]
        /\ token \in [Links -> Nat] /\ lock \in [Links -> 0..Calls]
    BY <2>1 DEF Init
  <2>3. ctx \in [m : 0..Messages, used : Nat, seq : Nat \ {0}]
    BY DEF Init, None
  <2>4. came \in 0..Messages /\ epoch \in 0..Epochs /\ link \in {0, epoch}
        /\ repeats \in 0..MaxRepeats /\ faults \in 0..MaxFaults /\ anew \in SUBSET Numbers
    BY DEF Init
  <2>5. grant \in Nat \ {0}
    BY DEF Init
  <2>6. barred \in BOOLEAN
    BY Zenon DEF Init
  <2> QED
    BY <2>2, <2>3, <2>4, <2>5, <2>6 DEF TypeOK
<1>2. UnderWay = {} /\ \A m \in Numbers : Counting(m) = {}
  BY DEF Init, UnderWay, Counting, Unborn, Numbers
<1>3. Few /\ LimitKept
  BY <1>2, FS_EmptySet DEF Few, LimitKept
<1>4. Lives /\ NumbersAreOwn /\ VerdictsAreHonest
  BY DEF Init, Lives, NumbersAreOwn, Reused, VerdictsAreHonest, Unborn, Flying, Numbers
<1>5. Known /\ Numbered /\ Accounted
  BY DEF Init, Known, Numbered, Accounted, Open, None, Numbers
<1> QED
  BY <1>1, <1>3, <1>4, <1>5 DEF IInv

\* A message comes, for the first time or again.
LEMMA EventKeeps ==
  ASSUME IInv, NEW m \in Numbers, Event(m)
  PROVE  IInv'
<1>1. call' = call /\ age' = age /\ came' = m /\ m = came + 1 /\ came \in 0..Messages /\ anew' = anew
  BY DEF Event, IInv, TypeOK
<1>2. ctx' = Fresh(m)
  <2>1. Kept(ctx).m <= came
    BY <1>1 DEF IInv, Known, Kept, None
  <2> QED
    BY <1>1, <2>1 DEF Event, Remembered
<1>3. TypeOK'
  BY <1>1, <1>2 DEF IInv, TypeOK, Event, Fresh, Numbers
<1>4. \A k \in CallIds : call[k].m # m
  BY <1>1 DEF IInv, Lives, TypeOK, CallRecord
<1>5. Known'
  BY <1>1, <1>2 DEF Known, Fresh
<1>6. Numbered' /\ Accounted'
  <2>1. Counting(m) = {}
    BY <1>4 DEF Counting
  <2>2. Over(m)' = {}
    BY <1>1, <2>1 DEF Over, Counting, UnderWay
  <2>3. ctx'.m = m /\ ctx'.used = 0 /\ ctx'.seq = 1
    BY <1>2 DEF Fresh
  <2>4. Numbered'
    BY <1>1, <1>4, <2>3 DEF Numbered
  <2>5. Cardinality({}) = 0
    BY FS_EmptySet
  <2> QED
    BY <2>2, <2>3, <2>4, <2>5 DEF Accounted
<1>7. Lives' /\ NumbersAreOwn' /\ VerdictsAreHonest' /\ Few' /\ LimitKept'
  BY <1>1, CallsStay DEF Numbers
<1> QED
  BY <1>3, <1>5, <1>6, <1>7 DEF IInv

LEMMA RepeatKeeps ==
  ASSUME IInv, NEW m \in Numbers, Repeat(m)
  PROVE  IInv'
<1>1. call' = call /\ age' = age /\ came' = came /\ m <= came /\ came \in 0..Messages /\ m # 0
      /\ anew \in SUBSET anew' /\ anew' \in SUBSET Numbers
  BY DEF Repeat, IInv, TypeOK, Numbers
<1>2. \/ ctx' = ctx /\ anew' = anew
      \/ ctx' = Fresh(m) /\ (age[m] = "old" \/ m \in anew')
  BY <1>1 DEF Repeat, Remembered, Kept, None
<1>3. TypeOK'
  BY <1>1, <1>2 DEF IInv, TypeOK, Repeat, Fresh, Numbers
<1>4. Known'
  BY <1>1, <1>2 DEF Known, Fresh, IInv
<1>5. Lives' /\ NumbersAreOwn' /\ VerdictsAreHonest' /\ Few' /\ LimitKept'
      /\ \A n \in Numbers : Over(n)' = Over(n)
  BY <1>1, CallsStay
<1>6. CASE ctx' = ctx /\ anew' = anew
  <2>1. Open => ctx.m \in Numbers
    BY DEF IInv, TypeOK, Open, Numbers
  <2>2. Open' = Open
    BY <1>1, <1>6 DEF Open
  <2>3. Numbered'
    BY <1>1, <1>6, <2>2 DEF IInv, Numbered
  <2>4. Accounted'
    BY <1>5, <1>6, <2>1, <2>2 DEF IInv, Accounted
  <2> QED
    BY <1>3, <1>4, <1>5, <2>3, <2>4 DEF IInv
<1>7. CASE ctx' = Fresh(m) /\ (age[m] = "old" \/ m \in anew')
  <2>1. ~Open'
    BY <1>1, <1>7 DEF Open, Fresh
  <2> QED
    BY <1>3, <1>4, <1>5, <2>1 DEF IInv, Numbered, Accounted
<1> QED
  BY <1>2, <1>6, <1>7

\* Other routes drive the context out.
LEMMA EvictKeeps ==
  ASSUME IInv, Evict
  PROVE  IInv'
<1>1. call' = call /\ age' = age /\ came' = came /\ came \in 0..Messages /\ anew' = anew /\ ctx' = None
  BY DEF Evict, IInv, TypeOK
<1>2. TypeOK'
  BY <1>1 DEF IInv, TypeOK, Evict, None
<1>3. Lives' /\ NumbersAreOwn' /\ VerdictsAreHonest' /\ Few' /\ LimitKept'
  BY <1>1, CallsStay
<1>4. Known' /\ ~Open'
  BY <1>1 DEF Known, Open, None
<1> QED
  BY <1>2, <1>3, <1>4 DEF IInv, Numbered, Accounted

\* Time passes: an open context can only close.
LEMMA AgesKeeps ==
  ASSUME IInv, NEW m \in Numbers, Ages(m)
  PROVE  IInv'
<1>1. call' = call /\ ctx' = ctx /\ came' = came /\ anew' = anew
  BY DEF Ages
<1>2. /\ age \in [Numbers -> {"fresh", "late", "old"}]
      /\ age' = [age EXCEPT ![m] = Older(age[m])]
      /\ Older(age[m]) \in {"late", "old"}
  BY DEF Ages, IInv, TypeOK, Older
<1>3. \A n \in Numbers : age[n] = "old" => age'[n] = "old"
  BY <1>2 DEF Ages
<1>4. TypeOK'
  BY <1>1, <1>2 DEF IInv, TypeOK, Ages
<1>5. ctx.m \in 0..Messages /\ came \in 0..Messages
  BY DEF IInv, TypeOK
<1>6. Known'
  BY <1>1, <1>3, <1>5 DEF IInv, Known, Numbers
<1>7. Open' => Open /\ ctx.m \in Numbers
  BY <1>1, <1>3, <1>5 DEF Open, Numbers
<1>8. Lives' /\ NumbersAreOwn' /\ VerdictsAreHonest' /\ Few' /\ LimitKept'
      /\ \A n \in Numbers : Over(n)' = Over(n)
  BY <1>1, <1>5, CallsStay
<1>9. Numbered'
  BY <1>1, <1>7 DEF IInv, Numbered
<1>10. Accounted'
  BY <1>1, <1>7, <1>8 DEF IInv, Accounted
<1> QED
  BY <1>4, <1>6, <1>8, <1>9, <1>10 DEF IInv

\* The transport, the tokens of the platform, and stuttering.
LEMMA ElsewhereKeeps ==
  ASSUME IInv, TypeOK', UNCHANGED <<ctx, came, age, call, anew>>
  PROVE  IInv'
<1>1. Lives' /\ NumbersAreOwn' /\ VerdictsAreHonest' /\ Few' /\ LimitKept'
      /\ \A n \in Numbers : Over(n)' = Over(n)
  BY CallsStay DEF IInv, TypeOK
<1>2. Open' = Open /\ (Open => ctx.m \in Numbers)
  BY DEF Open, IInv, TypeOK, Numbers
<1>3. Known' /\ Numbered'
  BY <1>2 DEF IInv, Known, Numbered
<1>4. Accounted'
  BY <1>1, <1>2 DEF IInv, Accounted
<1> QED
  BY <1>1, <1>3, <1>4 DEF IInv

-----------------------------------------------------------------------------
(* The beginning of a call.                                                *)

\* Both ways to begin: the call is planned with the context as it is kept,
\* which is charged at once if there is no transport.
Begun(k, result, pc, more) ==
  /\ Begins(k) /\ call' = [call EXCEPT ![k] = Planned(Kept(ctx), result, pc)]
  /\ pc = "lock" => link # 0
  /\ \/ Passive(Kept(ctx)) /\ ctx' = [m |-> ctx.m, used |-> ctx.used + more, seq |-> ctx.seq + 1]
     \/ ~Passive(Kept(ctx)) /\ ctx' = Kept(ctx)
  /\ UNCHANGED <<came, age, link, epoch, token, lock, grant, barred, repeats, faults, anew>>

LEMMA SendBegins ==
  ASSUME IInv, NEW k \in CallIds
  PROVE  /\ Send(k) => Begun(k, "none", "lock", 0)
         /\ SendsNowhere(k) => Begun(k, "uncertain", "done", 1)
<1>1. ctx \in [m : 0..Messages, used : Nat, seq : Nat \ {0}]
  BY DEF IInv, TypeOK
<1>2. Passive(Kept(ctx)) => Kept(ctx) = ctx
  BY DEF Passive, Kept, None
<1>3. \A c \in [m : 0..Messages, used : Nat, seq : Nat \ {0}] :
        /\ [c EXCEPT !.seq = @ + 1] = [m |-> c.m, used |-> c.used, seq |-> c.seq + 1]
        /\ [c EXCEPT !.used = @ + 1] = [m |-> c.m, used |-> c.used + 1, seq |-> c.seq]
  OBVIOUS
<1>7. [ctx EXCEPT !.seq = @ + 1] \in [m : 0..Messages, used : Nat, seq : Nat \ {0}]
  BY <1>1
<1>8. [[ctx EXCEPT !.seq = @ + 1] EXCEPT !.used = @ + 1]
           = [m |-> ctx.m, used |-> ctx.used + 1, seq |-> ctx.seq + 1]
  BY <1>1, <1>3, <1>7
<1>4. ctx.used + 0 = ctx.used
  BY <1>1
<1>5. Send(k) => Begun(k, "none", "lock", 0)
  BY <1>1, <1>2, <1>3, <1>4 DEF Send, Begun, Taken
<1>6. SendsNowhere(k) => Begun(k, "uncertain", "done", 1)
  BY <1>2, <1>8 DEF SendsNowhere, Begun, Taken
<1> QED
  BY <1>5, <1>6

\* What a call is when it begins.
LEMMA NewCall ==
  ASSUME IInv, NEW k \in CallIds, NEW result \in Results, NEW pc \in {"lock", "done"}, NEW more \in {0, 1},
         Begun(k, result, pc, more)
  PROVE  /\ pc = "lock" => call'[k].e # 0
         /\ call'[k] \in CallRecord /\ call'[k].pc = pc /\ call'[k].result = result /\ ~call'[k].got
         /\ call'[k].m = IF Passive(Kept(ctx)) THEN ctx.m ELSE 0
         /\ call'[k].seq = IF Passive(Kept(ctx)) THEN ctx.seq ELSE 0
         /\ \A j \in CallIds : j # k => call'[j] = call[j]
         /\ call[k].pc = "new" /\ call[k].m = 0
         /\ Passive(Kept(ctx)) => /\ ctx.m \notin anew => Open
                                  /\ ctx.m <= came /\ ctx.m \in Numbers /\ ctx.used < Limit
<1>1. call \in [CallIds -> CallRecord] /\ ctx \in [m : 0..Messages, used : Nat, seq : Nat \ {0}]
      /\ link \in 0..Epochs
  BY DEF IInv, TypeOK
<1>2. call[k].pc = "new" /\ call[k].m = 0
  BY DEF Begun, Begins, IInv, Lives, Unborn
<1>3. Passive(Kept(ctx)) => /\ Kept(ctx) = ctx /\ (ctx.m \notin anew => Open)
                            /\ ctx.m <= came /\ ctx.m \in Numbers /\ ctx.used < Limit
  BY <1>1 DEF Passive, Kept, None, Open, IInv, Known, Numbers
<1>4. DEFINE c == Kept(ctx)
<1>5. c \in [m : 0..Messages, used : Nat, seq : Nat \ {0}]
  BY <1>1 DEF Kept, None
<1>6. HIDE DEF c
<1>7. call'[k] = Planned(c, result, pc)
  BY <1>1 DEF Begun, c
<1>8. pc = "lock" => call'[k].e # 0
  BY <1>7 DEF Planned, Begun
<1>9. call'[k].pc = pc /\ call'[k].result = result /\ ~call'[k].got
      /\ call'[k].m = (IF Passive(c) THEN c.m ELSE 0) /\ call'[k].seq = (IF Passive(c) THEN c.seq ELSE 0)
  BY <1>7 DEF Planned
<1>10. call'[k] \in CallRecord
  <2>1. (Group /\ c.m = 0) \in BOOLEAN
    OBVIOUS
  <2> QED
    BY <1>1, <1>5, <1>7, <2>1 DEF CallRecord, Planned
<1>11. \A j \in CallIds : j # k => call'[j] = call[j]
  BY <1>1 DEF Begun
<1> QED
  BY <1>2, <1>3, <1>8, <1>9, <1>10, <1>11 DEF c

LEMMA BegunKeeps ==
  ASSUME IInv, NEW k \in CallIds, NEW result \in Results, NEW pc \in {"lock", "done"}, NEW more \in {0, 1},
         \/ result = "none" /\ pc = "lock" /\ more = 0
         \/ result = "uncertain" /\ pc = "done" /\ more = 1,
         Begun(k, result, pc, more)
  PROVE  IInv'
<1>1. /\ call \in [CallIds -> CallRecord] /\ ctx \in [m : 0..Messages, used : Nat, seq : Nat \ {0}]
      /\ came \in 0..Messages /\ age \in [Numbers -> {"fresh", "late", "old"}]
  BY DEF IInv, TypeOK
<1>2. came' = came /\ age' = age /\ anew' = anew
  BY DEF Begun
<1>3. TypeOK'
  <2>1. call' \in [CallIds -> CallRecord]
    BY <1>1, NewCall DEF Begun
  <2>2. ctx' \in [m : 0..Messages, used : Nat, seq : Nat \ {0}]
    BY <1>1 DEF Begun, Kept, None
  <2> QED
    BY <2>1, <2>2 DEF Begun, IInv, TypeOK
<1>4. Lives'
  <2> SUFFICES ASSUME NEW j \in CallIds
               PROVE  /\ call'[j].pc = "new" => call'[j] = Unborn
                      /\ call'[j].pc \in Flying => call'[j].result = "none" /\ ~call'[j].got /\ call'[j].e # 0
                      /\ call'[j].pc = "done" => call'[j].result # "none"
                      /\ call'[j].m # 0 => call'[j].m <= came
    BY <1>2 DEF Lives
  <2>1. CASE j = k
    BY <1>1, <2>1, NewCall DEF Flying
  <2>2. CASE j # k
    BY <2>2, NewCall DEF IInv, Lives
  <2> QED
    BY <2>1, <2>2
<1>5. ctx'.m = ctx.m \/ (ctx'.m = 0 /\ ctx.m # 0 /\ age[ctx.m] = "old")
  BY DEF Begun, Kept, None
<1>6. Known'
  BY <1>1, <1>2, <1>5 DEF IInv, Known
<1>7. Open' => Open /\ ctx'.m = ctx.m /\ ctx.m \in Numbers
  BY <1>1, <1>2, <1>5 DEF Open, Numbers
<1>8. ctx'.m = ctx.m /\ ctx.m # 0 => ctx'.used \in {ctx.used, ctx.used + more} /\ ctx'.seq >= ctx.seq
  BY <1>1 DEF Begun, Kept, None
<1>9. Numbered'
  <2> SUFFICES ASSUME Open', NEW j \in CallIds, call'[j].m = ctx'.m
               PROVE  call'[j].seq < ctx'.seq
    BY DEF Numbered
  <2>1. CASE j = k
    <3>1. Passive(Kept(ctx))
      BY <1>7, <2>1, NewCall DEF Numbers
    <3>2. call'[j].seq = ctx.seq
      BY <2>1, <3>1, NewCall
    <3>3. ctx'.seq = ctx.seq + 1
      BY <3>1 DEF Begun
    <3> QED
      BY <1>1, <3>2, <3>3
  <2>2. CASE j # k
    <3>1. call[j].m = ctx.m /\ call[j].seq \in Nat
      BY <1>1, <1>7, <2>2, NewCall DEF CallRecord
    <3>2. call[j].seq < ctx.seq
      BY <1>7, <3>1 DEF IInv, Numbered
    <3>3. ctx'.seq \in Nat /\ ctx'.seq >= ctx.seq
      BY <1>3, <1>7, <1>8 DEF TypeOK, Numbers
    <3> QED
      BY <1>1, <2>2, <3>1, <3>2, <3>3, NewCall
  <2> QED
    BY <2>1, <2>2
<1>10. NumbersAreOwn'
  <2> SUFFICES ASSUME NEW m \in Numbers, m \notin anew, NEW i \in CallIds, NEW j \in CallIds, i # j,
                      call'[i].m = m, call'[j].m = m
               PROVE  call'[i].seq # call'[j].seq
    BY <1>2 DEF NumbersAreOwn, Reused
  <2>1. ASSUME NEW h \in CallIds, h # k, Passive(Kept(ctx)), call[h].m = ctx.m, ctx.m = m
        PROVE  call[h].seq # ctx.seq
    <3>1. call[h].seq < ctx.seq
      BY <2>1, NewCall DEF IInv, Numbered
    <3> QED
      BY <1>1, <3>1 DEF CallRecord
  <2>2. CASE i = k
    BY <2>1, <2>2, NewCall DEF Numbers
  <2>3. CASE j = k
    BY <2>1, <2>3, NewCall DEF Numbers
  <2>4. CASE i # k /\ j # k
    BY <2>4, NewCall DEF IInv, NumbersAreOwn, Reused
  <2> QED
    BY <2>2, <2>3, <2>4
<1>11. VerdictsAreHonest'
  <2> SUFFICES ASSUME NEW j \in CallIds
               PROVE  /\ call'[j].result = "delivered" => call'[j].got
                      /\ call'[j].result = "rejected" => ~call'[j].got
    BY DEF VerdictsAreHonest
  <2>1. CASE j = k
    BY <2>1, NewCall
  <2>2. CASE j # k
    BY <2>2, NewCall DEF IInv, VerdictsAreHonest
  <2> QED
    BY <2>1, <2>2
<1>12. /\ k \notin UnderWay /\ Cardinality(UnderWay) < Overlap
       /\ UnderWay' = IF pc = "lock" THEN UnderWay \cup {k} ELSE UnderWay
       /\ UnderWay \in SUBSET CallIds
  <2>1. \A j \in CallIds : j \in UnderWay' <=> (IF j = k THEN pc = "lock" ELSE j \in UnderWay)
    BY NewCall DEF UnderWay
  <2> QED
    BY <2>1, NewCall DEF UnderWay, Begun, Begins
<1>13. Few'
  <2>1. Cardinality(UnderWay \cup {k}) <= Cardinality(UnderWay) + 1
    BY <1>12, OneMore
  <2>2. UnderWay \cup {k} \in SUBSET CallIds
    BY <1>12
  <2> QED
    BY <1>12, <2>1, <2>2, CallsAreFinite DEF Few
<1>14. ASSUME NEW m \in Numbers
       PROVE  /\ Counting(m)' = IF Passive(Kept(ctx)) /\ m = ctx.m THEN Counting(m) \cup {k} ELSE Counting(m)
              /\ Over(m)' = IF Passive(Kept(ctx)) /\ m = ctx.m /\ pc = "done" THEN Over(m) \cup {k} ELSE Over(m)
              /\ k \notin Over(m) /\ Over(m) \in SUBSET CallIds /\ Counting(m) \in SUBSET CallIds
  <2>1. \A j \in CallIds : j \in Counting(m)' <=>
           (IF j = k THEN Passive(Kept(ctx)) /\ m = ctx.m ELSE j \in Counting(m))
    BY NewCall DEF Counting, Numbers
  <2>2. k \notin Counting(m) /\ Counting(m) \in SUBSET CallIds /\ Counting(m)' \in SUBSET CallIds
    BY NewCall DEF Counting, Numbers
  <2>3. Counting(m)' = IF Passive(Kept(ctx)) /\ m = ctx.m THEN Counting(m) \cup {k} ELSE Counting(m)
    BY <2>1, <2>2
  <2> QED
    BY <1>12, <2>2, <2>3 DEF Over
<1>15. LimitKept'
  <2> SUFFICES ASSUME NEW m \in Numbers \ anew
               PROVE  Cardinality(Counting(m)') <= Limit + Overlap - 1
    BY <1>2 DEF LimitKept
  <2>1. CASE ~(Passive(Kept(ctx)) /\ m = ctx.m)
    BY <1>14, <2>1 DEF IInv, LimitKept
  <2>2. CASE Passive(Kept(ctx)) /\ m = ctx.m
    <3>1. Cardinality(Over(m)) <= ctx.used /\ ctx.used < Limit
      BY <2>2, NewCall DEF IInv, Accounted
    <3>2. Cardinality(Counting(m)) <= Cardinality(Over(m)) + Cardinality(UnderWay)
      BY CountingIsOverOrUnderWay
    <3>3. Cardinality(Counting(m) \cup {k}) <= Cardinality(Counting(m)) + 1
      BY <1>14, OneMore
    <3>4. Counting(m) \cup {k} \in SUBSET CallIds
      BY <1>14
    <3>5. /\ Cardinality(Counting(m)) \in Nat /\ Cardinality(Over(m)) \in Nat /\ Cardinality(UnderWay) \in Nat
          /\ Cardinality(Counting(m) \cup {k}) \in Nat
      BY <1>12, <1>14, <3>4, CallsAreFinite
    <3>6. Cardinality(UnderWay) < Overlap /\ ctx.used \in Nat
      BY <1>1, <1>12
    <3>7. Cardinality(Counting(m) \cup {k}) <= Limit + Overlap - 1
      BY <3>1, <3>2, <3>3, <3>5, <3>6
    <3> QED
      BY <1>14, <2>2, <3>7
  <2> QED
    BY <2>1, <2>2
<1>16. Accounted'
  <2> SUFFICES ASSUME Open'
               PROVE  Cardinality(Over(ctx.m)') <= ctx'.used
    BY <1>7 DEF Accounted
  <2>1. ctx.m \in Numbers /\ Cardinality(Over(ctx.m)) <= ctx.used /\ ctx'.m = ctx.m /\ ctx.m # 0
    BY <1>7 DEF IInv, Accounted, Open
  <2>2. Cardinality(Over(ctx.m)) \in Nat /\ ctx.used \in Nat
    BY <1>1, <1>14, <2>1, CallsAreFinite
  <2>3. CASE Passive(Kept(ctx)) /\ pc = "done"
    <3>1. Over(ctx.m)' = Over(ctx.m) \cup {k}
      BY <1>14, <2>1, <2>3
    <3>2. Cardinality(Over(ctx.m) \cup {k}) <= Cardinality(Over(ctx.m)) + 1
      BY <1>14, <2>1, OneMore
    <3>3. Over(ctx.m) \cup {k} \in SUBSET CallIds
      BY <1>14, <2>1
    <3>4. Cardinality(Over(ctx.m) \cup {k}) \in Nat
      BY <3>3, CallsAreFinite
    <3>5. ctx'.used = ctx.used + 1
      BY <1>1, <2>3 DEF Begun
    <3> QED
      BY <2>1, <2>2, <3>1, <3>2, <3>4, <3>5
  <2>4. CASE ~(Passive(Kept(ctx)) /\ pc = "done")
    <3>1. Over(ctx.m)' = Over(ctx.m)
      BY <1>14, <2>1, <2>4
    <3> QED
      BY <1>8, <2>1, <2>2, <3>1
  <2> QED
    BY <2>3, <2>4
<1> QED
  BY <1>3, <1>4, <1>6, <1>9, <1>10, <1>11, <1>13, <1>15, <1>16 DEF IInv

-----------------------------------------------------------------------------
(* A call under way.                                                       *)

\* It goes on: only where it stands, its token and its retry change.
Moves(k) ==
  /\ call[k].pc \in Flying /\ call' \in [CallIds -> CallRecord]
  /\ \A j \in CallIds : j # k => call'[j] = call[j]
  /\ call'[k].pc \in Flying
  /\ call'[k].m = call[k].m /\ call'[k].seq = call[k].seq
  /\ call'[k].got = call[k].got /\ call'[k].result = call[k].result /\ call'[k].e = call[k].e
  /\ UNCHANGED <<ctx, came, age, anew>>

LEMMA MovesKeeps ==
  ASSUME IInv, TypeOK', NEW k \in CallIds, Moves(k)
  PROVE  IInv'
<1>1. call \in [CallIds -> CallRecord] /\ UNCHANGED <<ctx, came, age, anew>>
  BY DEF IInv, TypeOK, Moves
<1>2. \A j \in CallIds : call'[j].m = call[j].m /\ call'[j].seq = call[j].seq
                         /\ (call'[j].got <=> call[j].got) /\ call'[j].result = call[j].result
                         /\ (j \in UnderWay' <=> j \in UnderWay)
  BY DEF Moves, UnderWay, Flying
<1>3. UnderWay' = UnderWay
  BY <1>2 DEF UnderWay
<1>4. \A m \in Numbers : Counting(m)' = Counting(m)
  BY <1>2 DEF Counting
<1>5. Lives'
  <2> SUFFICES ASSUME NEW j \in CallIds
               PROVE  /\ call'[j].pc = "new" => call'[j] = Unborn
                      /\ call'[j].pc \in Flying => call'[j].result = "none" /\ ~call'[j].got /\ call'[j].e # 0
                      /\ call'[j].pc = "done" => call'[j].result # "none"
                      /\ call'[j].m # 0 => call'[j].m <= came
    BY <1>1 DEF Lives
  <2>1. CASE j = k
    BY <1>2, <2>1 DEF IInv, Lives, Moves, Flying
  <2>2. CASE j # k
    BY <2>2 DEF IInv, Lives, Moves
  <2> QED
    BY <2>1, <2>2
<1>6. NumbersAreOwn' /\ VerdictsAreHonest'
  BY <1>1, <1>2 DEF IInv, NumbersAreOwn, Reused, VerdictsAreHonest
<1>7. Few' /\ LimitKept'
  BY <1>1, <1>3, <1>4 DEF IInv, Few, LimitKept
<1>8. Open' = Open /\ (Open => ctx.m \in Numbers)
  BY <1>1 DEF Open, IInv, TypeOK, Numbers
<1>9. Known' /\ Numbered'
  BY <1>1, <1>2, <1>8 DEF IInv, Known, Numbered
<1>10. Accounted'
  <2>1. \A m \in Numbers : Over(m)' = Over(m)
    BY <1>3, <1>4 DEF Over
  <2> QED
    BY <1>1, <1>8, <2>1 DEF IInv, Accounted
<1> QED
  BY <1>5, <1>6, <1>7, <1>9, <1>10 DEF IInv

\* It is over: what may have been delivered is charged, unless it was cut.
Finishes(k, result, got) ==
  /\ call' = [call EXCEPT ![k].pc = "done", ![k].e = 0, ![k].key = 0, ![k].again = FALSE,
                          ![k].result = result, ![k].got = got]
  /\ ctx' = IF result = "cut" THEN ctx ELSE Charged(k, ctx, result)

LEMMA EndsKeeps ==
  ASSUME IInv, TypeOK', NEW k \in CallIds, call[k].pc \in Flying,
         NEW result \in Results \ {"none"}, NEW got \in BOOLEAN,
         result = "delivered" => got, result = "rejected" => ~got,
         Finishes(k, result, got), UNCHANGED <<came, age, anew>>
  PROVE  IInv'
<1> DEFINE Counts == result \notin {"rejected", "cut"}
<1>1. /\ call \in [CallIds -> CallRecord] /\ ctx \in [m : 0..Messages, used : Nat, seq : Nat \ {0}]
      /\ came \in 0..Messages
  BY DEF IInv, TypeOK
<1>2. /\ call'[k].pc = "done" /\ call'[k].result = result /\ (call'[k].got <=> got)
      /\ call'[k].m = call[k].m /\ call'[k].seq = call[k].seq
      /\ \A j \in CallIds : j # k => call'[j] = call[j]
  BY <1>1 DEF Finishes, CallRecord
<1>3. k \in UnderWay /\ UnderWay' = UnderWay \ {k} /\ UnderWay \in SUBSET CallIds
  <2>1. \A j \in CallIds : j \in UnderWay' <=> j \in UnderWay /\ j # k
    BY <1>2 DEF UnderWay
  <2> QED
    BY <2>1 DEF UnderWay, Flying
<1>4. call[k].result = "none" /\ ~call[k].got
  BY DEF IInv, Lives
<1>5. ASSUME NEW m \in Numbers
      PROVE  /\ Counting(m)' \in SUBSET Counting(m)
             /\ Over(m)' = IF Counts /\ m = call[k].m THEN Over(m) \cup {k} ELSE Over(m)
             /\ Over(m) \in SUBSET CallIds /\ Counting(m) \in SUBSET CallIds
  <2>1. \A j \in CallIds : j \in Counting(m)' <=>
           (j \in Counting(m) /\ (j = k => Counts))
    BY <1>2, <1>4 DEF Counting
  <2>2. Counting(m) \in SUBSET CallIds /\ Counting(m)' \in SUBSET CallIds
    BY DEF Counting
  <2>3. k \in Counting(m) <=> m = call[k].m
    BY <1>4 DEF Counting
  <2> QED
    BY <1>3, <2>1, <2>2, <2>3 DEF Over
<1>6. Lives'
  <2> SUFFICES ASSUME NEW j \in CallIds
               PROVE  /\ call'[j].pc = "new" => call'[j] = Unborn
                      /\ call'[j].pc \in Flying => call'[j].result = "none" /\ ~call'[j].got /\ call'[j].e # 0
                      /\ call'[j].pc = "done" => call'[j].result # "none"
                      /\ call'[j].m # 0 => call'[j].m <= came
    BY DEF Lives
  <2>1. CASE j = k
    BY <1>2, <2>1 DEF IInv, Lives, Flying
  <2>2. CASE j # k
    BY <1>2, <2>2 DEF IInv, Lives
  <2> QED
    BY <2>1, <2>2
<1>7. NumbersAreOwn'
  <2>1. \A j \in CallIds : call'[j].m = call[j].m /\ call'[j].seq = call[j].seq
    BY <1>2
  <2> QED
    BY <2>1 DEF IInv, NumbersAreOwn, Reused
<1>8. VerdictsAreHonest'
  <2> SUFFICES ASSUME NEW j \in CallIds
               PROVE  /\ call'[j].result = "delivered" => call'[j].got
                      /\ call'[j].result = "rejected" => ~call'[j].got
    BY DEF VerdictsAreHonest
  <2>1. CASE j = k
    BY <1>2, <2>1
  <2>2. CASE j # k
    BY <1>2, <2>2 DEF IInv, VerdictsAreHonest
  <2> QED
    BY <2>1, <2>2
<1>9. Few'
  <2>1. UnderWay' \in SUBSET UnderWay
    BY <1>3
  <2>2. Cardinality(UnderWay') <= Cardinality(UnderWay)
    BY <1>3, <2>1, Bigger
  <2>3. UnderWay' \in SUBSET CallIds
    BY <1>3, <2>1
  <2> QED
    BY <1>3, <2>2, <2>3, CallsAreFinite DEF IInv, Few
<1>10. LimitKept'
  <2> SUFFICES ASSUME NEW m \in Numbers \ anew
               PROVE  Cardinality(Counting(m)') <= Limit + Overlap - 1
    BY Zenon DEF LimitKept
  <2>1. Cardinality(Counting(m)') <= Cardinality(Counting(m)) /\ Counting(m)' \in SUBSET CallIds
    BY <1>5, Bigger
  <2>2. Cardinality(Counting(m)) <= Limit + Overlap - 1
    BY DEF IInv, LimitKept
  <2> QED
    BY <1>5, <2>1, <2>2, CallsAreFinite
<1>11. /\ ctx'.m = ctx.m /\ ctx'.seq = ctx.seq
       /\ ctx'.used = IF Counts /\ call[k].m # 0 /\ ctx.m # 0 THEN ctx.used + 1 ELSE ctx.used
  BY <1>1 DEF Finishes, Charged, Results
<1>12. Open' = Open /\ (Open => ctx.m \in Numbers /\ ctx.m # 0)
  BY <1>1, <1>11 DEF Open, Numbers
<1>13. Known' /\ Numbered'
  BY <1>2, <1>11, <1>12 DEF IInv, Known, Numbered
<1>14. Accounted'
  <2> SUFFICES ASSUME Open'
               PROVE  Cardinality(Over(ctx.m)') <= ctx'.used
    BY <1>11 DEF Accounted
  <2>1. ctx.m \in Numbers /\ ctx.m # 0 /\ Cardinality(Over(ctx.m)) <= ctx.used
    BY <1>12 DEF IInv, Accounted
  <2>2. Cardinality(Over(ctx.m)) \in Nat /\ ctx.used \in Nat
    BY <1>1, <1>5, <2>1, CallsAreFinite
  <2>3. CASE Counts /\ ctx.m = call[k].m
    <3>1. Over(ctx.m)' = Over(ctx.m) \cup {k}
      BY <1>5, <1>11, <2>1, <2>3
    <3>2. Cardinality(Over(ctx.m) \cup {k}) <= Cardinality(Over(ctx.m)) + 1
      BY <1>5, <2>1, OneMore
    <3>3. Over(ctx.m) \cup {k} \in SUBSET CallIds
      BY <1>5, <2>1
    <3>4. Cardinality(Over(ctx.m) \cup {k}) \in Nat
      BY <3>3, CallsAreFinite
    <3>5. ctx'.used = ctx.used + 1
      BY <1>11, <2>1, <2>3
    <3> QED
      BY <2>1, <2>2, <3>1, <3>2, <3>4, <3>5
  <2>4. CASE ~(Counts /\ ctx.m = call[k].m)
    <3>1. Over(ctx.m)' = Over(ctx.m)
      BY <1>5, <1>11, <2>1, <2>4
    <3>2. ctx'.used \in {ctx.used, ctx.used + 1}
      BY <1>11
    <3> QED
      BY <2>1, <2>2, <3>1, <3>2
  <2> QED
    BY <2>3, <2>4
<1> QED
  BY <1>6, <1>7, <1>8, <1>9, <1>10, <1>13, <1>14 DEF IInv

-----------------------------------------------------------------------------
(* Types.                                                                  *)

\* A call that ends leaves the types as they are.
LEMMA EndsTypes ==
  ASSUME IInv, NEW k \in CallIds, NEW result \in Results \ {"none"}, NEW got \in BOOLEAN,
         Finishes(k, result, got)
  PROVE  /\ call' \in [CallIds -> CallRecord]
         /\ ctx' \in [m : 0..Messages, used : Nat, seq : Nat \ {0}]
<1>1. call \in [CallIds -> CallRecord] /\ ctx \in [m : 0..Messages, used : Nat, seq : Nat \ {0}]
  BY DEF IInv, TypeOK
<1>2. call' \in [CallIds -> CallRecord]
  <2>1. call[k] \in CallRecord /\ 0 \in 0..Epochs /\ 0 \in Nat /\ result \in Results
    BY <1>1 DEF Results
  <2>2. [call[k] EXCEPT !.pc = "done", !.e = 0, !.key = 0, !.again = FALSE, !.result = result, !.got = got]
        \in CallRecord
    BY <2>1 DEF CallRecord
  <2>3. call' = [call EXCEPT ![k] = [call[k] EXCEPT !.pc = "done", !.e = 0, !.key = 0, !.again = FALSE,
                                                    !.result = result, !.got = got]]
    BY <1>1 DEF Finishes
  <2> QED
    BY <1>1, <2>2, <2>3
<1>3. ctx' \in [m : 0..Messages, used : Nat, seq : Nat \ {0}]
  BY <1>1 DEF Finishes, Charged
<1> QED
  BY <1>2, <1>3

\* A step of a call under way is a move or an end.
LEMMA CallStepKeeps ==
  ASSUME IInv, NEW k \in CallIds, CallStep(k)
  PROVE  IInv'
<1>1. /\ call \in [CallIds -> CallRecord] /\ token \in [Links -> Nat] /\ lock \in [Links -> 0..Calls]
      /\ call[k] \in CallRecord /\ grant \in Nat \ {0} /\ faults \in 0..MaxFaults
  BY DEF IInv, TypeOK
<1>2. ASSUME NEW c \in CallRecord, call' = [call EXCEPT ![k] = c], c.pc \in Flying, call[k].pc \in Flying,
             c.m = call[k].m, c.seq = call[k].seq, c.got = call[k].got, c.result = call[k].result, c.e = call[k].e,
             token' \in [Links -> Nat], lock' \in [Links -> 0..Calls],
             UNCHANGED <<ctx, came, age, link, epoch, grant, barred, repeats, faults, anew>>
      PROVE  IInv'
  <2>1. TypeOK'
    BY <1>1, <1>2 DEF IInv, TypeOK
  <2>2. Moves(k)
    BY <1>1, <1>2 DEF Moves
  <2> QED
    BY <2>1, <2>2, MovesKeeps
<1>3. ASSUME NEW result \in Results \ {"none"}, NEW got \in BOOLEAN,
             result = "delivered" => got, result = "rejected" => ~got, Finishes(k, result, got),
             call[k].pc \in Flying, lock' \in [Links -> 0..Calls], faults' \in 0..MaxFaults,
             UNCHANGED <<came, age, link, epoch, token, grant, barred, repeats, anew>>
      PROVE  IInv'
  <2>1. TypeOK'
    BY <1>1, <1>3, EndsTypes DEF IInv, TypeOK
  <2> QED
    BY <1>3, <2>1, EndsKeeps
<1>4. Faulty => faults' \in 0..MaxFaults
  BY <1>1 DEF Faulty
<1>5. lock' = [lock EXCEPT ![call[k].e] = 0] \/ lock' = [lock EXCEPT ![call[k].e] = k] \/ lock' = lock
      => lock' \in [Links -> 0..Calls]
  BY <1>1 DEF CallIds
<1>6. call[k].pc \in Flying => call[k].e \in Links
  <2>1. call[k].pc \in Flying => call[k].e # 0
    BY DEF IInv, Lives
  <2>2. call[k].e \in 0..Epochs
    BY <1>1 DEF CallRecord
  <2> QED
    BY <2>1, <2>2 DEF Links
<1>ends. ASSUME NEW result \in {"delivered", "rejected", "uncertain"}, NEW got \in BOOLEAN, Ends(k, result, got)
       PROVE  Finishes(k, result, got) /\ result \in Results \ {"none"}
  BY <1>ends DEF Ends, Finishes, Results
\* The calls that go on.
<1>7. ASSUME NEW pc \in Flying, NEW key \in Nat, NEW again \in BOOLEAN, call[k].pc \in Flying,
             call' = [call EXCEPT ![k] = [call[k] EXCEPT !.pc = pc, !.key = key, !.again = again]],
             token' \in [Links -> Nat], lock' \in [Links -> 0..Calls],
             UNCHANGED <<ctx, came, age, link, epoch, grant, barred, repeats, faults, anew>>
      PROVE  IInv'
  <2> DEFINE c == [call[k] EXCEPT !.pc = pc, !.key = key, !.again = again]
  <2>1. c \in CallRecord /\ c.pc \in Flying /\ c.m = call[k].m /\ c.seq = call[k].seq
        /\ c.got = call[k].got /\ c.result = call[k].result /\ c.e = call[k].e
    BY <1>1, <1>7 DEF CallRecord, Flying
  <2> QED
    BY <1>2, <1>7, <2>1
<1>8. call[k] = [call[k] EXCEPT !.pc = call[k].pc, !.key = call[k].key, !.again = call[k].again]
  BY <1>1 DEF CallRecord
<1>9. CASE Access(k)
  <2>1. call[k].pc \in Flying /\ token[call[k].e] \in Nat
    BY <1>1, <1>6, <1>9 DEF Access, At, Flying
  <2>2. CASE call' = [call EXCEPT ![k].pc = "ask", ![k].key = token[call[k].e]] /\ UNCHANGED <<lock, token>>
    <3>1. call' = [call EXCEPT ![k] = [call[k] EXCEPT !.pc = "ask", !.key = token[call[k].e],
                                                      !.again = call[k].again]]
      BY <1>1, <2>2 DEF CallRecord
    <3> QED
      BY <1>1, <1>7, <1>9, <2>1, <2>2, <3>1 DEF Access, Flying, CallRecord
  <2>3. CASE /\ call' = [call EXCEPT ![k].pc = "fetch"]
             /\ lock' = [lock EXCEPT ![call[k].e] = k] /\ token' = [token EXCEPT ![call[k].e] = 0]
    <3>1. call' = [call EXCEPT ![k] = [call[k] EXCEPT !.pc = "fetch", !.key = call[k].key,
                                                      !.again = call[k].again]]
      BY <1>1, <2>3 DEF CallRecord
    <3>2. token' \in [Links -> Nat]
      BY <1>1, <2>3
    <3> QED
      BY <1>1, <1>5, <1>7, <1>9, <2>1, <2>3, <3>1, <3>2 DEF Access, Flying, CallRecord
  <2> QED
    BY <1>9, <2>2, <2>3 DEF Access
<1>10. CASE Fetched(k)
  <2>1. call[k].pc \in Flying
    BY <1>10 DEF Fetched, At, Flying
  <2>2. call' = [call EXCEPT ![k] = [call[k] EXCEPT !.pc = "ask", !.key = grant, !.again = call[k].again]]
    BY <1>1, <1>10 DEF Fetched, CallRecord
  <2>3. token' \in [Links -> Nat]
    BY <1>1, <1>10 DEF Fetched
  <2> QED
    BY <1>1, <1>5, <1>7, <1>10, <2>1, <2>2, <2>3 DEF Fetched, Flying, CallRecord
<1>11. CASE Invalidate(k)
  <2>1. call[k].pc \in Flying
    BY <1>11 DEF Invalidate, At, Flying
  <2>2. call' = [call EXCEPT ![k] = [call[k] EXCEPT !.pc = "lock", !.key = call[k].key,
                                                    !.again = call[k].again]]
    BY <1>1, <1>11 DEF Invalidate, CallRecord
  <2>3. token' \in [Links -> Nat]
    BY <1>1, <1>11 DEF Invalidate
  <2> QED
    BY <1>1, <1>7, <1>11, <2>1, <2>2, <2>3 DEF Invalidate, Flying, CallRecord
<1>12. CASE Unauthorised(k)
  <2>1. call[k].pc \in Flying
    BY <1>12 DEF Unauthorised, At, Flying
  <2>2. CASE call[k].again
    <3>1. Ends(k, "rejected", FALSE)
      BY <1>12, <2>2, Zenon DEF Unauthorised
    <3> QED
      BY <1>1, <1>3, <1>ends, <1>12, <2>1, <3>1 DEF Unauthorised
  <2>3. CASE ~call[k].again
    <3>1. call' = [call EXCEPT ![k].pc = "void", ![k].key = 0, ![k].again = TRUE] /\ UNCHANGED ctx
      BY <1>12, <2>3 DEF Unauthorised
    <3>2. call' = [call EXCEPT ![k] = [call[k] EXCEPT !.pc = "void", !.key = 0, !.again = TRUE]]
      BY <1>1, <3>1
    <3> QED
      BY <1>1, <1>7, <1>12, <2>1, <3>1, <3>2 DEF Unauthorised, Flying
  <2> QED
    BY <2>2, <2>3
\* The calls that end.
<1>13. CASE FetchFails(k)
  <2>1. PICK result \in {"rejected", "uncertain"} : Ends(k, result, FALSE)
    BY <1>13 DEF FetchFails
  <2> QED
    BY <1>3, <1>ends, <1>4, <1>5, <1>13, <2>1 DEF FetchFails, At, Flying
<1>14. CASE Delivered(k)
  BY <1>1, <1>3, <1>ends, <1>14 DEF Delivered, At, Flying
<1>15. CASE Refused(k)
  BY <1>1, <1>3, <1>ends, <1>15 DEF Refused, At, Flying
<1>16. CASE Unclear(k)
  <2>1. PICK got \in BOOLEAN : Ends(k, "uncertain", got)
    BY <1>16 DEF Unclear
  <2> QED
    BY <1>1, <1>3, <1>ends, <1>4, <1>16, <2>1 DEF Unclear, At, Flying
<1>17. CASE Cut(k)
  <2>1. call[k].pc \in Flying
    BY <1>1, <1>17 DEF Cut, UnderWay, Flying, CallRecord
  <2>2. PICK got \in BOOLEAN : Finishes(k, "cut", got)
    BY <1>17 DEF Cut, Finishes
  <2>3. lock' \in [Links -> 0..Calls]
    <3>1. call[k].e \in Links /\ lock[call[k].e] \in 0..Calls
      BY <1>1, <1>6, <2>1
    <3>2. lock' = [lock EXCEPT ![call[k].e] = 0] \/ lock' = lock
      BY <1>1, <1>17, <3>1 DEF Cut
    <3> QED
      BY <1>5, <3>2
  <2> QED
    BY <1>3, <1>4, <1>17, <2>1, <2>2, <2>3 DEF Cut, Results
<1> QED
  BY <1>9, <1>10, <1>11, <1>12, <1>13, <1>14, <1>15, <1>16, <1>17 DEF CallStep

-----------------------------------------------------------------------------
(* The theorems.                                                           *)

LEMMA StepKeeps ==
  ASSUME IInv, [Next]_vars
  PROVE  IInv'
<1>1. CASE \E m \in Numbers : Event(m) \/ Repeat(m) \/ Ages(m)
  BY <1>1, EventKeeps, RepeatKeeps, AgesKeeps
<1>2. CASE \E k \in CallIds : Send(k) \/ SendsNowhere(k) \/ CallStep(k)
  BY <1>2, SendBegins, BegunKeeps, CallStepKeeps DEF Results
<1>3. CASE Connect
  <2>1. TypeOK'
    BY <1>3 DEF Connect, IInv, TypeOK
  <2> QED
    BY <1>3, <2>1, ElsewhereKeeps DEF Connect
<1>4. CASE Disconnect
  <2>1. TypeOK'
    BY <1>4 DEF Disconnect, IInv, TypeOK
  <2> QED
    BY <1>4, <2>1, ElsewhereKeeps DEF Disconnect
<1>5. CASE Revoke
  <2>1. TypeOK'
    BY <1>5 DEF Revoke, IInv, TypeOK
  <2> QED
    BY <1>5, <2>1, ElsewhereKeeps DEF Revoke
<1>6. CASE Bar
  <2>1. barred' \in BOOLEAN
    BY <1>6, Zenon DEF Bar
  <2>2. TypeOK'
    BY <1>6, <2>1 DEF Bar, IInv, TypeOK
  <2> QED
    BY <1>6, <2>2, ElsewhereKeeps DEF Bar
<1>7. CASE Evict
  BY <1>7, EvictKeeps
<1>8. CASE UNCHANGED vars
  <2>1. TypeOK'
    BY <1>8 DEF vars, IInv, TypeOK
  <2> QED
    BY <1>8, <2>1, ElsewhereKeeps DEF vars
<1> QED
  BY <1>1, <1>2, <1>3, <1>4, <1>5, <1>6, <1>7, <1>8 DEF Next

\* The invariant holds in every behaviour, whatever is delivered again.
THEOREM RepliesKeepIInv ==
  Spec => []IInv
<1>1. Init => IInv
  BY InitKeeps
<1>2. IInv /\ [Next]_vars => IInv'
  BY StepKeeps
<1> QED
  BY <1>1, <1>2, PTL DEF Spec

\* No two sends carry the same message and number (_remember, take_seq): the
\* number of the context is above all that were given out for its message,
\* until the context is past its retention and gives out no more.  Excepted are
\* the messages whose context was replaced or evicted and then begun anew.
THEOREM RepliesNumbersAreOwn ==
  Spec => []NumbersAreOwn
<1>1. IInv => NumbersAreOwn
  BY DEF IInv
<1> QED
  BY <1>1, RepliesKeepIInv, PTL

\* The replies to a message stay within the limit and what is under way
\* together (_plan_delivery, _consume_passive): the count of the context
\* accounts for the replies that are over and may have been taken, but for
\* those that were cancelled and for messages whose context was begun anew.
THEOREM RepliesLimitKept ==
  Spec => []LimitKept
<1>1. IInv => LimitKept
  BY DEF IInv
<1> QED
  BY <1>1, RepliesKeepIInv, PTL

\* A rejected message was not taken by the platform and a delivered one was
\* (translate_http_status, send_message).
THEOREM RepliesVerdictsAreHonest ==
  Spec => []VerdictsAreHonest
<1>1. IInv => VerdictsAreHonest
  BY DEF IInv
<1> QED
  BY <1>1, RepliesKeepIInv, PTL

\* Every variable has its type.
THEOREM RepliesTypeOK ==
  Spec => []TypeOK
<1>1. IInv => TypeOK
  BY DEF IInv
<1> QED
  BY <1>1, RepliesKeepIInv, PTL
=============================================================================
