------------------------- MODULE ProvisioningProofs -------------------------
(* Proofs about Provisioning, for every number of requests, attempts,      *)
(* platform sessions, instances and failures.                              *)
EXTENDS Provisioning, FiniteSetTheorems, TLAPS

Pcs == {"idle", "beginning", "polling", "connecting"}
Asking(r) == op[r].pc \in {"beginning", "polling"}
Polls(r, a) == op[r].pc = "polling" /\ op[r].a = a

\* The values are in their sets, as TypeOK says, and the variables functions;
\* a session is made for an attempt only when it begins.
Shape ==
  /\ TypeOK
  /\ session \in [Attempts -> 0..MaxSessions]
  /\ qr \in [Attempts -> Nat] /\ file \in [Attempts -> Nat]
  /\ \A a \in Attempts : row[a] = "none" => session[a] = 0
  /\ op \in [Requests -> [pc : Pcs, a : Attempts \cup {0}, s : Nat]]

\* The lock works: one poll at a time for an attempt, of one that has not ended.
PollsHold ==
  /\ \A r, q \in Requests, a \in Attempts : Polls(r, a) /\ Polls(q, a) => r = q
  /\ \A r \in Requests : op[r].pc = "polling" =>
       op[r].a \in Attempts /\ row[op[r].a] \in {"waiting", "pruned"}

\* Instances have different makers, and these are attempts nobody polls; but for
\* the attempts whose row was not told.
MadeOnce ==
  /\ \A i, j \in Instances :
       inst[i] # "none" /\ inst[j] # "none" /\ maker[i] = maker[j] /\ maker[i] \notin unsaid \cup {0} => i = j
  /\ \A i \in Instances : inst[i] # "none" /\ maker[i] \notin unsaid \cup {0} =>
       /\ row[maker[i]] \in {"succeeded", "pruned"}
       /\ \A r \in Requests : ~Polls(r, maker[i])

\* Without overlap one request at most asks the platform, a begin only while
\* no attempt is open, and a poll about the only one that is.
AskedAlone ==
  overlapped \/
    /\ \A r, q \in Requests : Asking(r) /\ Asking(q) => r = q
    /\ \A r \in Requests : op[r].pc = "beginning" => Unexpired = {}
    /\ \A r \in Requests : op[r].pc = "polling" => Unexpired \subseteq {op[r].a}
    /\ \A a, b \in Unexpired : a = b

IInv == Shape /\ PollsHold /\ CodeIsKnown /\ SecretsGo /\ NoHalves /\ MadeOnce /\ AskedAlone

-----------------------------------------------------------------------------

\* Nothing has begun.
LEMMA InitEstablishes == Init => IInv
<1> SUFFICES ASSUME Init PROVE IInv
  OBVIOUS
<1>1. Shape
  BY BoundsAssumption DEF Init, Shape, TypeOK, Idle, Pcs, Attempts
<1>2. PollsHold /\ CodeIsKnown /\ SecretsGo /\ NoHalves /\ MadeOnce
  BY DEF Init, PollsHold, Polls, Idle, CodeIsKnown, SecretsGo, Ended, NoHalves, MadeOnce
<1>3. AskedAlone
  BY DEF Init, AskedAlone, Asking, Idle, Unexpired, Waiting
<1> QED
  BY <1>1, <1>2, <1>3 DEF IInv

\* Steps after which fewer requests ask and fewer attempts are open.
LEMMA FewerAsk ==
  ASSUME AskedAlone, UNCHANGED overlapped, Unexpired' \subseteq Unexpired,
         \A r \in Requests : op'[r] = op[r] \/ op'[r].pc \in {"idle", "connecting"}
  PROVE  AskedAlone'
<1>1. CASE overlapped
  BY <1>1 DEF AskedAlone
<1>2. CASE ~overlapped
  BY <1>2 DEF AskedAlone, Asking
<1> QED
  BY <1>1, <1>2

\* What the end of an attempt does, for whatever reason it ends: the failed
\* write of a rotation is one, and the platform has replaced the session then.
Closes(r, a, status) ==
  /\ Settle(a, status) /\ inflight' = 0
  /\ \/ file' = [file EXCEPT ![a] = 0]
     \/ file' = file /\ torn'
  /\ torn' \/ UNCHANGED torn
  /\ op' = [op EXCEPT ![r] = Idle] \/ op' = [q \in Requests |-> Idle]
  /\ \/ session' = session
     \/ session' = [session EXCEPT ![a] = @ + 1] /\ session[a] + 1 <= MaxSessions
  /\ UNCHANGED <<late, qr, scanned, instances, unsaid, overlapped>>

\* What has to hold of the attempt that ends: it waits, or the request polls it.
LEMMA ClosesPreserves ==
  ASSUME IInv, NEW r \in Requests, NEW a \in Attempts, NEW status \in {"expired", "failed", "cancelled"},
         Closes(r, a, status), row[a] = "waiting" \/ Polls(r, a),
         \A q \in Requests \ {r} : ~Polls(q, a)
  PROVE  IInv'
<1>1. row[a] \in {"waiting", "pruned"}
  BY DEF IInv, PollsHold, Polls
<1>2. /\ row \in [Attempts -> Ended \cup {"none", "waiting", "pruned"}]
      /\ row' = [row EXCEPT ![a] = IF @ = "pruned" THEN @ ELSE status]
  BY DEF Closes, Settle, IInv, Shape, TypeOK
<1>3. \A q \in Requests : op'[q] = op[q] \/ op'[q] = Idle
  BY DEF Closes, IInv, Shape
<1>4. Idle \in [pc : Pcs, a : Attempts \cup {0}, s : Nat] /\ Idle.pc = "idle"
  BY DEF Idle, Pcs
<1>5. op' \in [Requests -> [pc : Pcs, a : Attempts \cup {0}, s : Nat]]
  BY <1>4 DEF Closes, IInv, Shape
<1>6. ~Polls(r, a)'
  BY <1>4 DEF Closes, IInv, Shape, Polls
<1>7. Shape'
  <2>1. /\ session' \in [Attempts -> 0..MaxSessions] /\ \A b \in Attempts : session[b] <= session'[b]
        /\ file' \in [Attempts -> Nat] /\ \A b \in Attempts : file'[b] \in {0, file[b]}
        /\ qr' \in [Attempts -> Nat] /\ qr' = qr
    <3>1. session' \in [Attempts -> 0..MaxSessions] /\ \A b \in Attempts : session[b] <= session'[b]
      BY BoundsAssumption DEF Closes, IInv, Shape
    <3>2. file' \in [Attempts -> Nat] /\ \A b \in Attempts : file'[b] \in {0, file[b]}
      BY DEF Closes, IInv, Shape
    <3> QED
      BY <3>1, <3>2 DEF Closes, IInv, Shape
  <2>2. \A b \in Attempts : session'[b] \in 0..MaxSessions /\ qr'[b] \in 0..session'[b] /\ file'[b] \in 0..session'[b]
    BY <2>1, BoundsAssumption DEF IInv, Shape, TypeOK
  <2>3. \A q \in Requests : op'[q].pc \in {"idle", "beginning", "polling", "connecting"}
    BY <1>5 DEF Pcs
  <2>4. row' \in [Attempts -> Ended \cup {"none", "waiting", "pruned"}]
    BY <1>2 DEF Ended
  <2>5. \A b \in Attempts : row'[b] = "none" => session'[b] = 0
    BY <1>1, <1>2 DEF Closes, IInv, Shape
  <2> QED
    BY <1>5, <2>1, <2>2, <2>3, <2>4, <2>5 DEF Closes, instances, IInv, Shape, TypeOK
<1>8. PollsHold'
  BY <1>2, <1>3, <1>4, <1>6 DEF IInv, PollsHold, Polls
<1>9. CodeIsKnown' /\ SecretsGo'
  <2>1. \A b \in Attempts : row'[b] = row[b] \/ (b = a /\ row'[b] = status)
    BY <1>2
  <2>2. \A b \in Attempts : b # a => file'[b] = file[b] /\ row'[b] = row[b]
    BY <1>2 DEF Closes, IInv, Shape
  <2>3. row'[a] # "waiting" /\ (torn' \/ file'[a] = 0)
    BY <1>1, <1>2 DEF Closes, IInv, Shape
  <2> QED
    BY <2>2, <2>3 DEF Closes, IInv, CodeIsKnown, SecretsGo
<1>10. NoHalves'
  BY DEF Closes, instances, IInv, NoHalves
<1>11. MadeOnce'
  <2>2. \A b \in Attempts : b # a => row'[b] = row[b]
    BY <1>2
  <2>3. row[a] = "pruned" => row'[a] = "pruned"
    BY <1>2
  <2> QED
    BY <1>1, <1>3, <1>4, <2>2, <2>3 DEF Closes, instances, IInv, MadeOnce, Polls, Shape, TypeOK
<1>12. AskedAlone'
  <2>1. Unexpired' \subseteq Unexpired
    BY <1>1, <1>2 DEF Closes, Unexpired, Waiting
  <2> QED
    BY <1>3, <1>4, <2>1, FewerAsk DEF Closes, IInv
<1> QED
  BY <1>7, <1>8, <1>9, <1>10, <1>11, <1>12 DEF IInv

Ops == [pc : Pcs, a : Attempts \cup {0}, s : Nat]

\* Steps that leave rows, files and instances alone and ask the platform nothing:
\* a begin that finds an attempt, answers that change nothing, a crash.
LEMMA RequestsPreserve ==
  ASSUME IInv, UNCHANGED <<attempts, instances, unsaid, overlapped>>, torn' \/ UNCHANGED torn,
         inflight' \in Waiting \cup {0, inflight}, op' \in [Requests -> Ops],
         \A r \in Requests : op'[r] = op[r] \/ op'[r].pc \in {"idle", "connecting"}
  PROVE  IInv'
<1>1. Shape'
  BY DEF attempts, instances, IInv, Shape, TypeOK, Waiting, Ops, Pcs
<1>2. PollsHold'
  BY DEF attempts, IInv, PollsHold, Polls
<1>3. CodeIsKnown' /\ SecretsGo' /\ NoHalves'
  BY DEF attempts, instances, IInv, CodeIsKnown, SecretsGo, NoHalves
<1>4. MadeOnce'
  BY DEF attempts, instances, IInv, MadeOnce, Polls
<1>5. AskedAlone'
  <2>1. Unexpired' = Unexpired
    BY DEF attempts, Unexpired, Waiting
  <2> QED
    BY <2>1, FewerAsk DEF IInv
<1> QED
  BY <1>1, <1>2, <1>3, <1>4, <1>5 DEF IInv

\* The records that requests are given.
LEMMA IdleIsOp ==
  /\ Idle \in Ops /\ Idle.pc = "idle"
  /\ [Idle EXCEPT !.pc = "beginning"] \in Ops /\ [Idle EXCEPT !.pc = "beginning"].pc = "beginning"
  /\ [Idle EXCEPT !.pc = "connecting"] \in Ops /\ [Idle EXCEPT !.pc = "connecting"].pc = "connecting"
BY DEF Idle, Ops, Pcs

\* EndAttempt is such an end, or the row resists and nothing is written.
LEMMA EndAttemptPreserves ==
  ASSUME IInv, NEW r \in Requests, NEW a \in Attempts, NEW status \in {"expired", "failed", "cancelled"},
         EndAttempt(r, a, status), row[a] = "waiting" \/ Polls(r, a),
         \A q \in Requests \ {r} : ~Polls(q, a),
         UNCHANGED <<late, qr, session, scanned, instances, unsaid, overlapped>>
  PROVE  IInv'
<1>1. CASE RowResists(r) /\ UNCHANGED file
  <2>1. op' = [op EXCEPT ![r] = Idle] /\ UNCHANGED <<attempts, inflight, torn>>
    BY <1>1 DEF RowResists, Ends, Goto, attempts
  <2>2. /\ op' \in [Requests -> Ops]
        /\ \A q \in Requests : op'[q] = op[q] \/ op'[q].pc \in {"idle", "connecting"}
    BY <2>1, IdleIsOp DEF IInv, Shape, Ops
  <2> QED
    BY <2>1, <2>2, RequestsPreserve
<1>2. CASE ~(RowResists(r) /\ UNCHANGED file)
  <2>1. Closes(r, a, status)
    BY <1>2 DEF EndAttempt, Closes, Clear, Sound, Dies, Ends, Goto, Faulty, Settle
  <2> QED
    BY <2>1, ClosesPreserves
<1> QED
  BY <1>1, <1>2

\* A begin asks the platform when no attempt is open; if somebody else was asking,
\* the requests have overlapped.
LEMMA BeginAsksPreserves ==
  ASSUME IInv, NEW r \in Requests, BeginAsks(r)
  PROVE  IInv'
<1>1. /\ op[r] = Idle /\ inflight' = 0
      /\ op' = [op EXCEPT ![r] = [Idle EXCEPT !.pc = "beginning"]]
      /\ file' = [a \in Attempts |-> IF a \in late THEN 0 ELSE file[a]]
      /\ overlapped' = (overlapped \/ \E q \in Requests : op[q].pc \in {"beginning", "polling"})
      /\ UNCHANGED <<row, late, qr, session, scanned, inst, cred, maker, torn, unsaid>>
  BY DEF BeginAsks, Goto, instances
<1>2. /\ op' \in [Requests -> Ops] /\ op'[r].pc = "beginning"
      /\ \A q \in Requests : q # r => op'[q] = op[q]
  BY <1>1, IdleIsOp DEF IInv, Shape, Ops
<1>3. Shape'
  <2>1. file' \in [Attempts -> Nat] /\ \A a \in Attempts : file'[a] \in {0, file[a]}
    BY <1>1 DEF IInv, Shape
  <2>2. \A a \in Attempts : file'[a] \in 0..session'[a]
    BY <1>1, <2>1, BoundsAssumption DEF IInv, Shape, TypeOK
  <2> QED
    BY <1>1, <1>2, <2>1, <2>2 DEF IInv, Shape, TypeOK, Ops, Pcs
<1>4. PollsHold'
  BY <1>1, <1>2 DEF IInv, PollsHold, Polls
<1>5. CodeIsKnown' /\ SecretsGo' /\ NoHalves'
  BY <1>1 DEF IInv, CodeIsKnown, SecretsGo, NoHalves
<1>6. MadeOnce'
  BY <1>1, <1>2 DEF IInv, MadeOnce, Polls
<1>7. AskedAlone'
  <2>1. CASE overlapped'
    BY <2>1 DEF AskedAlone
  <2>2. CASE ~overlapped'
    <3>1. ~overlapped /\ \A q \in Requests : ~Asking(q)
      BY <1>1, <2>2 DEF Asking
    <3>2. Unexpired = {}
      BY DEF BeginAsks, FindInflight
    <3>3. Unexpired' = {}
      BY <1>1, <3>2 DEF Unexpired, Waiting
    <3> QED
      BY <1>2, <3>1, <3>3 DEF AskedAlone, Asking
  <2> QED
    BY <2>1, <2>2
<1> QED
  BY <1>3, <1>4, <1>5, <1>6, <1>7 DEF IInv

\* The attempt a begin stores is a new one: nobody polls it, it made nothing.
LEMMA BeginStoresPreserves ==
  ASSUME IInv, NEW r \in Requests, BeginStores(r)
  PROVE  IInv'
<1>1. PICK a \in NewAttempts :
        /\ session' = [session EXCEPT ![a] = 1]
        /\ \/ /\ row' = [row EXCEPT ![a] = "waiting"] /\ qr' = [qr EXCEPT ![a] = 1]
              /\ file' = [file EXCEPT ![a] = 1] /\ inflight' = a /\ UNCHANGED torn
           \/ /\ row' = [row EXCEPT ![a] = "pruned"] /\ UNCHANGED qr
              /\ inflight' \in {0, inflight}
              /\ file' = file \/ file' = [file EXCEPT ![a] = 1]
              /\ torn' \/ UNCHANGED torn
  BY DEF BeginStores, Dies, Sound
<1>2. /\ op[r].pc = "beginning" /\ UNCHANGED <<late, scanned, inst, cred, maker, unsaid, overlapped>>
      /\ op' = [op EXCEPT ![r] = Idle] \/ op' = [q \in Requests |-> Idle]
  BY DEF BeginStores, Dies, Ends, Goto, instances
<1>3. /\ a \in Attempts /\ row[a] = "none"
      /\ row \in [Attempts -> Ended \cup {"none", "waiting", "pruned"}]
      /\ row' \in [Attempts -> Ended \cup {"none", "waiting", "pruned"}]
      /\ \A b \in Attempts : b # a => row'[b] = row[b] /\ file'[b] = file[b] /\ qr'[b] = qr[b]
      /\ row'[a] \in {"waiting", "pruned"}
  BY <1>1 DEF NewAttempts, IInv, Shape, TypeOK
<1>4. /\ op' \in [Requests -> Ops]
      /\ \A q \in Requests : op'[q] = op[q] \/ op'[q] = Idle
      /\ op'[r] = Idle
  BY <1>2, IdleIsOp DEF IInv, Shape, Ops
<1>5. Shape'
  <2>1. /\ session' \in [Attempts -> 0..MaxSessions] /\ qr' \in [Attempts -> Nat] /\ file' \in [Attempts -> Nat]
        /\ session'[a] = 1 /\ \A b \in Attempts : b # a => session'[b] = session[b]
    BY <1>1, <1>3, BoundsAssumption DEF IInv, Shape
  <2>2. session[a] = 0 /\ file[a] = 0 /\ qr[a] = 0
    BY <1>3, BoundsAssumption DEF IInv, Shape, TypeOK
  <2>3. qr'[a] \in 0..1 /\ file'[a] \in 0..1
    BY <1>1, <1>3, <2>2 DEF IInv, Shape
  <2>4. \A b \in Attempts : session'[b] \in 0..MaxSessions /\ qr'[b] \in 0..session'[b] /\ file'[b] \in 0..session'[b]
    BY <1>3, <2>1, <2>3 DEF IInv, Shape, TypeOK
  <2>5. inflight' \in Attempts \cup {0} /\ (inflight' # 0 => row'[inflight'] \in {"waiting", "pruned"})
    BY <1>1, <1>3 DEF IInv, Shape, TypeOK
  <2>6. \A q \in Requests : op'[q].pc \in {"idle", "beginning", "polling", "connecting"}
    BY <1>4 DEF Ops, Pcs
  <2> QED
    BY <1>2, <1>3, <1>4, <2>1, <2>4, <2>5, <2>6 DEF IInv, Shape, TypeOK, Ops
<1>6. PollsHold'
  BY <1>3, <1>4, IdleIsOp DEF IInv, PollsHold, Polls
<1>7. CodeIsKnown'
  <2>1. row'[a] = "waiting" => qr'[a] = 1 /\ file'[a] = 1
    BY <1>1, <1>3 DEF IInv, Shape, TypeOK
  <2> QED
    BY <1>3, <2>1 DEF IInv, CodeIsKnown
<1>8. SecretsGo' /\ NoHalves'
  BY <1>1, <1>2, <1>3 DEF IInv, SecretsGo, NoHalves, Ended
<1>9. MadeOnce'
  BY <1>1, <1>2, <1>3, <1>4, IdleIsOp DEF IInv, Shape, TypeOK, MadeOnce, Polls
<1>10. AskedAlone'
  <2>1. CASE overlapped
    BY <1>2, <2>1 DEF AskedAlone
  <2>2. CASE ~overlapped
    <3>1. Unexpired = {} /\ \A q \in Requests : q # r => ~Asking(q)
      BY <1>2, <2>2 DEF IInv, AskedAlone, Asking
    <3>2. Unexpired' \subseteq {a}
      BY <1>2, <1>3, <3>1 DEF Unexpired, Waiting
    <3>3. \A q \in Requests : op'[q].pc \notin {"beginning", "polling"}
      BY <1>4, <3>1, IdleIsOp DEF Asking
    <3> QED
      BY <3>2, <3>3 DEF AskedAlone, Asking
  <2> QED
    BY <2>1, <2>2
<1> QED
  BY <1>5, <1>6, <1>7, <1>8, <1>9, <1>10 DEF IInv

\* A poll that holds the lock of an attempt that is open; if requests have not
\* overlapped it is the only one that asks.
LEMMA PollAsksPreserves ==
  ASSUME IInv, NEW r \in Requests, NEW a \in Attempts, PollAsks(r, a)
  PROVE  IInv'
<1> DEFINE o == [pc |-> "polling", a |-> a, s |-> file[a]]
<1>1. /\ op[r] = Idle /\ row[a] = "waiting" /\ ~Locked(a) /\ a \notin late
      /\ op' = [op EXCEPT ![r] = o]
      /\ UNCHANGED <<row, late, qr, file, session, scanned, inflight, inst, cred, maker, torn, unsaid, overlapped>>
  BY DEF PollAsks, Held, Goto, attempts, instances
<1>2. o \in Ops /\ o.pc = "polling" /\ o.a = a
  BY DEF IInv, Shape, Ops, Pcs
<1> HIDE DEF o
<1>3. /\ op' \in [Requests -> Ops] /\ op'[r] = o
      /\ \A q \in Requests : q # r => op'[q] = op[q]
  BY <1>1, <1>2 DEF IInv, Shape, Ops
<1>4. \A q \in Requests : ~Polls(q, a)
  BY <1>1 DEF Locked, Polls
<1>5. Shape'
  BY <1>1, <1>3 DEF IInv, Shape, TypeOK, Ops, Pcs
<1>6. PollsHold'
  BY <1>1, <1>2, <1>3, <1>4 DEF IInv, PollsHold, Polls
<1>7. CodeIsKnown' /\ SecretsGo' /\ NoHalves'
  BY <1>1 DEF IInv, CodeIsKnown, SecretsGo, NoHalves
<1>8. MadeOnce'
  BY <1>1, <1>2, <1>3 DEF IInv, MadeOnce, Polls
<1>9. AskedAlone'
  <2>1. CASE overlapped
    BY <1>1, <2>1 DEF AskedAlone
  <2>2. CASE ~overlapped
    <3>1. a \in Unexpired /\ Unexpired' = Unexpired
      BY <1>1 DEF Unexpired, Waiting
    <3>2. \A q \in Requests : ~Asking(q)
      BY <1>4, <2>2, <3>1 DEF IInv, AskedAlone, Asking, Polls, PollsHold
    <3>3. Unexpired = {a}
      BY <2>2, <3>1 DEF IInv, AskedAlone
    <3> QED
      BY <1>2, <1>3, <3>1, <3>2, <3>3 DEF AskedAlone, Asking
  <2> QED
    BY <2>1, <2>2
<1> QED
  BY <1>5, <1>6, <1>7, <1>8, <1>9 DEF IInv

\* A poll that finds its attempt expired, and a cancel.
LEMMA HeldEndPreserves ==
  ASSUME IInv, NEW r \in Requests, NEW a \in Attempts, PollExpires(r, a) \/ Cancel(r, a)
  PROVE  IInv'
<1>1. PICK status \in {"expired", "failed", "cancelled"} :
        /\ EndAttempt(r, a, status) /\ Held(r, a)
        /\ UNCHANGED <<late, qr, session, scanned, instances, unsaid, overlapped>>
  BY DEF PollExpires, Cancel
<1>3. row[a] = "waiting" /\ \A q \in Requests : ~Polls(q, a)
  BY <1>1 DEF Held, Locked, Polls
<1> QED
  BY <1>1, <1>3, EndAttemptPreserves

\* The answer of the platform: to wait, or the end of the attempt.
LEMMA AnswersPreserve ==
  ASSUME IInv, NEW r \in Requests, NEW status \in {"waiting", "expired", "failed"}, Answers(r, status)
  PROVE  IInv'
<1>1. CASE status = "waiting"
  <2>1. /\ op' = [op EXCEPT ![r] = Idle]
        /\ UNCHANGED <<attempts, inflight, instances, torn, unsaid, overlapped>>
    BY <1>1 DEF Answers, Ends, Goto, attempts
  <2>2. /\ op' \in [Requests -> Ops]
        /\ \A q \in Requests : op'[q] = op[q] \/ op'[q].pc \in {"idle", "connecting"}
    BY <2>1, IdleIsOp DEF IInv, Shape, Ops
  <2> QED
    BY <2>1, <2>2, RequestsPreserve
<1>2. CASE status \in {"expired", "failed"}
  <2>1. op[r].pc = "polling" /\ op[r].a \in Attempts /\ Polls(r, op[r].a)
    BY DEF Answers, IInv, PollsHold, Polls
  <2>2. EndAttempt(r, op[r].a, status) /\ UNCHANGED <<late, qr, session, scanned, instances, unsaid, overlapped>>
    BY <1>2 DEF Answers
  <2>3. \A q \in Requests \ {r} : ~Polls(q, op[r].a)
    BY <2>1 DEF IInv, PollsHold
  <2> QED
    BY <1>2, <2>1, <2>2, <2>3, EndAttemptPreserves
<1> QED
  BY <1>1, <1>2

\* The session moves on: the file before the row, or neither and the end.
LEMMA RotatesPreserves ==
  ASSUME IInv, NEW r \in Requests, Rotates(r)
  PROVE  IInv'
<1> DEFINE a == op[r].a
           s == session[a] + 1
<1>1. op[r].pc = "polling" /\ a \in Attempts /\ row[a] \in {"waiting", "pruned"} /\ Polls(r, a)
  BY DEF Rotates, IInv, PollsHold, Polls
<1>2. /\ s <= MaxSessions /\ session' = [session EXCEPT ![a] = s]
      /\ UNCHANGED <<scanned, instances, unsaid, overlapped>>
  BY DEF Rotates
<1>3. \A q \in Requests \ {r} : ~Polls(q, a)
  BY <1>1 DEF IInv, PollsHold
<1> DEFINE Fails ==
             /\ Settle(a, "failed") /\ file' = [file EXCEPT ![a] = 0] /\ inflight' = 0
             /\ op' = [op EXCEPT ![r] = Idle] /\ UNCHANGED <<qr, late, torn>>
           Moves ==
             /\ UNCHANGED row /\ inflight' \in {0, inflight}
             /\ \/ file' = [file EXCEPT ![a] = s] /\ (qr' = qr \/ qr' = [qr EXCEPT ![a] = s])
                \/ UNCHANGED <<file, qr>>
             /\ late' = late \/ (late' = late \ {a} /\ row[a] # "pruned")
             /\ torn' \/ UNCHANGED torn
             /\ op' = [op EXCEPT ![r] = Idle] \/ op' = [q \in Requests |-> Idle]
<1>4. Fails \/ Moves
  BY DEF Rotates, RowResists, Sound, Dies, Ends, Goto
<1> HIDE DEF a
<1>5. CASE Fails
  <2>1. Closes(r, a, "failed")
    BY <1>2, <1>5 DEF Closes, instances
  <2> QED
    BY <1>1, <1>3, <2>1, ClosesPreserves
<1>6. CASE Moves
  <2>1. /\ op' \in [Requests -> Ops] /\ op'[r] = Idle
        /\ \A q \in Requests : op'[q] = op[q] \/ op'[q] = Idle
    BY <1>6, IdleIsOp DEF IInv, Shape, Ops
  <2>2. s \in 0..MaxSessions /\ session[a] \in Nat /\ s = session[a] + 1
    BY <1>1, <1>2, BoundsAssumption DEF IInv, Shape
  <2> HIDE DEF s
  <2>3. /\ session' \in [Attempts -> 0..MaxSessions] /\ file' \in [Attempts -> Nat] /\ qr' \in [Attempts -> Nat]
        /\ \A b \in Attempts : b # a => session'[b] = session[b] /\ qr'[b] = qr[b] /\ file'[b] = file[b]
        /\ session'[a] = s
        /\ \/ file'[a] = s /\ qr'[a] \in {qr[a], s}
           \/ file'[a] = file[a] /\ qr'[a] = qr[a]
    BY <1>1, <1>2, <1>6, <2>2 DEF IInv, Shape
  <2>4. /\ qr[a] \in 0..session[a] /\ file[a] \in 0..session[a]
        /\ qr'[a] \in 0..s /\ file'[a] \in 0..s
    BY <1>1, <2>2, <2>3 DEF IInv, Shape, TypeOK
  <2>5. Shape'
    <3>1. \A b \in Attempts : session'[b] \in 0..MaxSessions /\ qr'[b] \in 0..session'[b] /\ file'[b] \in 0..session'[b]
      BY <2>2, <2>3, <2>4 DEF IInv, Shape, TypeOK
    <3>2. late' \subseteq Attempts
      BY <1>6 DEF IInv, Shape, TypeOK
    <3>3. inflight' \in Attempts \cup {0} /\ (inflight' # 0 => row'[inflight'] \in {"waiting", "pruned"})
      BY <1>6 DEF IInv, Shape, TypeOK
    <3>4. \A b \in Attempts : row'[b] = "none" => session'[b] = 0
      BY <1>1, <1>6, <2>3 DEF IInv, Shape
    <3>5. \A q \in Requests : op'[q].pc \in {"idle", "beginning", "polling", "connecting"}
      BY <2>1 DEF Ops, Pcs
    <3> QED
      BY <1>2, <1>6, <2>1, <2>3, <3>1, <3>2, <3>3, <3>4, <3>5 DEF IInv, Shape, TypeOK, Ops, instances
  <2>6. PollsHold'
    BY <1>6, <2>1, IdleIsOp DEF IInv, PollsHold, Polls
  <2>7. CodeIsKnown'
    BY <1>6, <2>2, <2>3, <2>4 DEF IInv, CodeIsKnown
  <2>8. SecretsGo'
    BY <1>1, <1>6, <2>3 DEF IInv, SecretsGo, Ended
  <2>9. NoHalves'
    BY <1>2, <1>6 DEF IInv, NoHalves, instances
  <2>10. MadeOnce'
    BY <1>2, <1>6, <2>1, IdleIsOp DEF IInv, MadeOnce, Polls, instances
  <2>11. AskedAlone'
    <3>1. CASE overlapped
      BY <1>2, <3>1 DEF AskedAlone
    <3>2. CASE ~overlapped
      <4>1. Unexpired \subseteq {a} /\ \A q \in Requests : q # r => ~Asking(q)
        BY <1>1, <3>2 DEF IInv, AskedAlone, Asking, Polls
      <4>2. Unexpired' \subseteq {a}
        BY <1>6, <4>1 DEF Unexpired, Waiting
      <4>3. \A q \in Requests : op'[q].pc \notin {"beginning", "polling"}
        BY <2>1, <4>1, IdleIsOp DEF Asking
      <4> QED
        BY <4>2, <4>3 DEF AskedAlone, Asking
    <3> QED
      BY <3>1, <3>2
  <2> QED
    BY <2>5, <2>6, <2>7, <2>8, <2>9, <2>10, <2>11 DEF IInv
<1> QED
  BY <1>4, <1>5, <1>6

\* An instance bound by hand has no attempt that made it.
LEMMA BindPreserves ==
  ASSUME IInv, NEW r \in Requests, Bind(r)
  PROVE  IInv'
<1>1. PICK i \in Instances, how \in {"none", "bare", "ready"} :
        /\ inst[i] = "none" /\ i \notin cred
        /\ \/ Make(i, 0, how) /\ (torn' \/ (how = "ready" /\ UNCHANGED torn))
           \/ UNCHANGED <<inst, cred, maker, torn>>
  BY DEF Bind, NextInstance, Fresh, Undone, Interrupted, Sound, Dies, instances
<1>2. /\ inflight' \in {0, inflight} /\ UNCHANGED <<row, late, qr, file, session, scanned, unsaid, overlapped>>
      /\ torn' \/ UNCHANGED torn
  BY DEF Bind, Undone, Interrupted, Sound, Dies, attempts
<1>3. /\ op' \in [Requests -> Ops]
      /\ \A q \in Requests : op'[q] = op[q] \/ op'[q].pc \in {"idle", "connecting"}
  <2>1. \/ op' = [op EXCEPT ![r] = [Idle EXCEPT !.pc = "connecting"]]
        \/ op' = op
        \/ op' = [q \in Requests |-> Idle]
    BY DEF Bind, Goto, Interrupted, Dies
  <2> QED
    BY <2>1, IdleIsOp DEF IInv, Shape, Ops
<1>4. /\ inst' \in [Instances -> {"none", "bare", "ready", "gone"}] /\ cred' \subseteq Instances
      /\ maker' \in [Instances -> Attempts \cup {0}]
      /\ \A j \in Instances : maker'[j] # 0 => maker'[j] = maker[j] /\ inst'[j] = inst[j]
  BY <1>1 DEF Make, IInv, Shape, TypeOK
<1>5. Shape'
  BY <1>2, <1>3, <1>4 DEF IInv, Shape, TypeOK, Ops, Pcs
<1>6. PollsHold'
  BY <1>2, <1>3 DEF IInv, PollsHold, Polls
<1>7. CodeIsKnown' /\ SecretsGo'
  BY <1>2 DEF IInv, CodeIsKnown, SecretsGo
<1>8. NoHalves'
  BY <1>1 DEF Make, IInv, Shape, TypeOK, NoHalves
<1>9. MadeOnce'
  BY <1>2, <1>3, <1>4 DEF IInv, MadeOnce, Polls
<1>10. AskedAlone'
  <2>1. Unexpired' = Unexpired
    BY <1>2 DEF Unexpired, Waiting
  <2> QED
    BY <1>2, <1>3, <2>1, FewerAsk DEF IInv
<1> QED
  BY <1>5, <1>6, <1>7, <1>8, <1>9, <1>10 DEF IInv

\* The instance first, then the status: the attempt that made it is over, or its row
\* was not told, because the process has died, the undo failed or the row resisted.
LEMMA SucceedsPreserves ==
  ASSUME IInv, NEW r \in Requests, Succeeds(r)
  PROVE  IInv'
<1>1. PICK a \in Attempts :
        op[r].pc = "polling" /\ a = op[r].a /\ row[a] \in {"waiting", "pruned"} /\ Polls(r, a)
  BY DEF Succeeds, IInv, PollsHold, Polls
<1>2. PICK i \in Instances :
        /\ inst[i] = "none" /\ i \notin cred
        /\ \/ /\ Make(i, a, "ready") /\ Settle(a, "succeeded") /\ inflight' = 0 /\ UNCHANGED unsaid
              /\ \/ file' = [file EXCEPT ![a] = 0] /\ UNCHANGED torn
                 \/ file' = file /\ torn'
           \/ /\ Make(i, a, "ready") /\ Unsaid(i, a)
              /\ UNCHANGED <<row, file, inflight, torn>>
           \/ /\ \E how \in {"none", "bare", "ready"} : Make(i, a, how)
              /\ torn' /\ UNCHANGED <<row, file>> /\ inflight' = 0 /\ Unsaid(i, a)
           \/ /\ \/ UNCHANGED <<instances, torn>>
                 \/ torn' /\ \E how \in {"none", "bare", "ready"} : Make(i, a, how)
              /\ Unsaid(i, a)
              /\ \/ Settle(a, "failed") /\ file' = [file EXCEPT ![a] = 0] /\ inflight' = 0
                 \/ UNCHANGED <<row, file, inflight>>
  BY <1>1 DEF Succeeds, NextInstance, Fresh, Clear, Sound, Dies, Interrupted, Undone, RowResists
<1>3. /\ UNCHANGED <<late, qr, session, scanned, overlapped>>
      /\ \/ op' = [op EXCEPT ![r] = [op[r] EXCEPT !.pc = "connecting"]]
         \/ op' = [op EXCEPT ![r] = Idle]
         \/ op' = [q \in Requests |-> Idle]
  BY DEF Succeeds, Clear, Sound, Dies, Interrupted, Undone, RowResists, Goto, Ends
<1>4. /\ op' \in [Requests -> Ops] /\ op'[r].pc \in {"idle", "connecting"}
      /\ \A q \in Requests : op'[q] = op[q] \/ op'[q].pc \in {"idle", "connecting"}
  <2>1. [op[r] EXCEPT !.pc = "connecting"] \in Ops /\ [op[r] EXCEPT !.pc = "connecting"].pc = "connecting"
    BY DEF IInv, Shape, Ops, Pcs
  <2> QED
    BY <1>3, <2>1, IdleIsOp DEF IInv, Shape, Ops
<1>5. /\ row \in [Attempts -> Ended \cup {"none", "waiting", "pruned"}]
      /\ \A b \in Attempts : b # a => row'[b] = row[b] /\ file'[b] = file[b]
      /\ row' \in [Attempts -> Ended \cup {"none", "waiting", "pruned"}]
      /\ row'[a] \in {row[a], "succeeded", "failed"} /\ (row[a] = "pruned" => row'[a] = "pruned")
      /\ file' \in [Attempts -> Nat] /\ file'[a] \in {0, file[a]}
  <2>1. \/ row' = row
        \/ \E st \in {"succeeded", "failed"} : row' = [row EXCEPT ![a] = IF @ = "pruned" THEN @ ELSE st]
    BY <1>2 DEF Settle
  <2>2. file' = file \/ file' = [file EXCEPT ![a] = 0]
    BY <1>2
  <2> QED
    BY <1>1, <2>1, <2>2 DEF IInv, Shape, TypeOK, Ended
<1>6. /\ inst' \in [Instances -> {"none", "bare", "ready", "gone"}] /\ cred' \subseteq Instances
      /\ maker' \in [Instances -> Attempts \cup {0}] /\ unsaid' \subseteq Attempts
  BY <1>1, <1>2 DEF Make, Unsaid, instances, IInv, Shape, TypeOK
<1>7. \A q \in Requests : ~(op'[q].pc = "polling" /\ op'[q].a = a)
  BY <1>1, <1>4 DEF IInv, PollsHold, Polls
<1>8. Shape'
  <2>1. \A b \in Attempts : session'[b] \in 0..MaxSessions /\ qr'[b] \in 0..session'[b] /\ file'[b] \in 0..session'[b]
    BY <1>3, <1>5, BoundsAssumption DEF IInv, Shape, TypeOK
  <2>2. inflight' = 0 \/ (inflight' = inflight /\ row' = row)
    BY <1>2
  <2>3. \A b \in Attempts : row'[b] = "none" => session'[b] = 0
    BY <1>1, <1>3, <1>5 DEF IInv, Shape
  <2>4. \A q \in Requests : op'[q].pc \in {"idle", "beginning", "polling", "connecting"}
    BY <1>4 DEF Ops, Pcs
  <2> QED
    BY <1>3, <1>4, <1>5, <1>6, <2>1, <2>2, <2>3, <2>4 DEF IInv, Shape, TypeOK, Ops
<1>9. PollsHold'
  BY <1>4, <1>5, <1>7 DEF IInv, PollsHold, Polls
<1>10. CodeIsKnown'
  BY <1>1, <1>3, <1>5 DEF IInv, CodeIsKnown
<1>11. AskedAlone'
  <2>1. Unexpired' \subseteq Unexpired
    BY <1>1, <1>3, <1>5 DEF Unexpired, Waiting
  <2> QED
    BY <1>3, <1>4, <2>1, FewerAsk DEF IInv
<1>12. SecretsGo'
  <2>1. CASE torn'
    BY <2>1 DEF SecretsGo
  <2>2. CASE ~torn'
    <3>1. ~torn /\ (file'[a] = 0 \/ row'[a] = row[a])
      BY <1>1, <1>2, <2>2 DEF IInv, Shape
    <3> QED
      BY <1>1, <1>5, <3>1 DEF IInv, SecretsGo, Ended
  <2> QED
    BY <2>1, <2>2
<1>13. NoHalves'
  <2>1. CASE torn'
    BY <2>1 DEF NoHalves
  <2>2. CASE ~torn'
    <3>1. ~torn /\ (UNCHANGED instances \/ Make(i, a, "ready"))
      BY <1>2, <2>2
    <3>2. CASE UNCHANGED instances
      BY <3>1, <3>2 DEF IInv, NoHalves, instances
    <3>3. CASE Make(i, a, "ready")
      BY <3>1, <3>3 DEF Make, IInv, Shape, TypeOK, NoHalves
    <3> QED
      BY <3>1, <3>2, <3>3
  <2> QED
    BY <2>1, <2>2
<1>14. MadeOnce'
  <2>1. unsaid \subseteq unsaid' /\ a # 0
    BY <1>2 DEF Unsaid, Attempts
  <2>2. a \notin unsaid => \A j \in Instances : inst[j] # "none" => maker[j] # a
    BY <1>1, <2>1 DEF IInv, MadeOnce, Polls
  <2>3. CASE UNCHANGED instances
    BY <1>1, <1>4, <1>5, <2>1, <2>2, <2>3 DEF IInv, Shape, TypeOK, MadeOnce, Polls, instances
  <2>4. CASE \E how \in {"none", "bare", "ready"} : Make(i, a, how)
    <3>1. /\ maker'[i] = a
          /\ \A j \in Instances : j # i => inst'[j] = inst[j] /\ maker'[j] = maker[j]
      BY <2>4 DEF Make, IInv, Shape, TypeOK
    <3>2. inst'[i] = "none" \/ a \in unsaid' \/ row'[a] \in {"succeeded", "pruned"}
      <4>1. \/ Settle(a, "succeeded")
            \/ Unsaid(i, a)
            \/ UNCHANGED instances
        BY <1>2
      <4>2. Unsaid(i, a) => inst'[i] = "none" \/ a \in unsaid'
        BY DEF Unsaid
      <4>3. Settle(a, "succeeded") => row'[a] \in {"succeeded", "pruned"}
        BY <1>1, <1>5 DEF Settle
      <4>4. UNCHANGED instances => inst'[i] = "none"
        BY <1>2 DEF instances
      <4> QED
        BY <4>1, <4>2, <4>3, <4>4
    <3>3. \A j, k \in Instances :
            inst'[j] # "none" /\ inst'[k] # "none" /\ maker'[j] = maker'[k] /\ maker'[j] \notin unsaid' \cup {0} => j = k
      BY <2>1, <2>2, <3>1 DEF IInv, MadeOnce
    <3>4. ASSUME NEW j \in Instances, inst'[j] # "none", maker'[j] \notin unsaid' \cup {0}
          PROVE  /\ row'[maker'[j]] \in {"succeeded", "pruned"}
                 /\ \A q \in Requests : ~(op'[q].pc = "polling" /\ op'[q].a = maker'[j])
      <4>1. CASE j = i
        BY <1>7, <3>1, <3>2, <3>4, <4>1
      <4>2. CASE j # i
        <5>1. maker'[j] = maker[j] /\ inst[j] # "none" /\ maker[j] \notin unsaid \cup {0}
          BY <2>1, <3>1, <3>4, <4>2
        <5>2. row[maker[j]] \in {"succeeded", "pruned"} /\ \A q \in Requests : ~Polls(q, maker[j])
          BY <5>1 DEF IInv, MadeOnce
        <5>3. maker[j] # a
          BY <1>1, <5>2
        <5>4. maker[j] \in Attempts
          BY <5>1 DEF IInv, Shape, TypeOK
        <5> QED
          BY <1>4, <1>5, <5>1, <5>2, <5>3, <5>4 DEF Polls
      <4> QED
        BY <4>1, <4>2
    <3> QED
      BY <3>3, <3>4 DEF MadeOnce, Polls
  <2> QED
    BY <1>2, <2>3, <2>4
<1> QED
  BY <1>8, <1>9, <1>10, <1>11, <1>12, <1>13, <1>14 DEF IInv

\* A deleted instance keeps its maker, and its file.
LEMMA DeletePreserves ==
  ASSUME IInv, NEW i \in Instances, DeleteInstance(i)
  PROVE  IInv'
<1>1. /\ inst[i] \in {"bare", "ready"} /\ inst' = [inst EXCEPT ![i] = "gone"]
      /\ UNCHANGED <<row, late, qr, file, session, scanned, inflight, cred, maker, op, torn, unsaid, overlapped>>
  BY DEF DeleteInstance, attempts
<1>2. Shape' /\ PollsHold' /\ CodeIsKnown' /\ SecretsGo'
  BY <1>1 DEF IInv, Shape, TypeOK, PollsHold, Polls, CodeIsKnown, SecretsGo
<1>3. NoHalves'
  BY <1>1 DEF IInv, Shape, TypeOK, NoHalves
<1>4. MadeOnce'
  BY <1>1 DEF IInv, Shape, TypeOK, MadeOnce, Polls
<1>5. AskedAlone'
  BY <1>1 DEF IInv, AskedAlone, Asking, Unexpired, Waiting
<1> QED
  BY <1>2, <1>3, <1>4, <1>5 DEF IInv

\* The maintenance, the clock and the user: the rows pruned stop waiting.
LEMMA OutsidePreserves ==
  ASSUME IInv, Prune \/ \E a \in Attempts : Expires(a) \/ Scans(a)
  PROVE  IInv'
<1>1. /\ UNCHANGED <<qr, file, inflight, session, inst, cred, maker, op, torn, unsaid, overlapped>>
      /\ late \subseteq late' /\ late' \subseteq Attempts /\ scanned' \subseteq Attempts
      /\ row' \in [Attempts -> Ended \cup {"none", "waiting", "pruned"}]
      /\ \A b \in Attempts : row'[b] = row[b] \/ (row[b] # "none" /\ row'[b] = "pruned")
  BY DEF Prune, Expires, Scans, instances, IInv, Shape, TypeOK, Ended
<1>2. Shape'
  <2>1. inflight' # 0 => row'[inflight'] \in {"waiting", "pruned"}
    BY <1>1 DEF IInv, Shape, TypeOK
  <2> QED
    BY <1>1, <2>1 DEF IInv, Shape, TypeOK
<1>3. PollsHold' /\ CodeIsKnown' /\ SecretsGo' /\ NoHalves'
  BY <1>1 DEF IInv, PollsHold, Polls, CodeIsKnown, SecretsGo, NoHalves, Ended
<1>4. MadeOnce'
  BY <1>1 DEF IInv, Shape, TypeOK, MadeOnce, Polls
<1>5. AskedAlone'
  <2>1. Unexpired' \subseteq Unexpired
    BY <1>1 DEF Unexpired, Waiting
  <2> QED
    BY <1>1, <2>1, FewerAsk DEF IInv
<1> QED
  BY <1>2, <1>3, <1>4, <1>5 DEF IInv

-----------------------------------------------------------------------------

\* The inductive invariant, by the actions of the flow.
THEOREM Invariance == Spec => []IInv
<1>1. Init => IInv
  BY InitEstablishes
<1>2. IInv /\ [Next]_vars => IInv'
  <2> SUFFICES ASSUME IInv, [Next]_vars PROVE IInv'
    OBVIOUS
  <2>1. CASE UNCHANGED vars
    <3>1. op' \in [Requests -> Ops]
      BY <2>1 DEF vars, IInv, Shape, Ops
    <3> QED
      BY <2>1, <3>1, RequestsPreserve DEF vars
  <2>2. ASSUME NEW r \in Requests, BeginFinds(r) \/ BeginFails(r) \/ Connected(r) PROVE IInv'
    <3>1. /\ UNCHANGED <<attempts, instances, overlapped, unsaid, torn>>
          /\ inflight' \in Waiting \cup {inflight}
          /\ op' = op \/ op' = [op EXCEPT ![r] = Idle]
      BY <2>2 DEF BeginFinds, BeginFails, Connected, FindInflight, Unexpired, Ends, Goto
    <3>2. /\ op' \in [Requests -> Ops]
          /\ \A q \in Requests : op'[q] = op[q] \/ op'[q].pc \in {"idle", "connecting"}
      BY <3>1, IdleIsOp DEF IInv, Shape, Ops
    <3> QED
      BY <3>1, <3>2, RequestsPreserve
  <2>3. CASE Crash
    <3>1. op' \in [Requests -> Ops] /\ \A q \in Requests : op'[q].pc \in {"idle", "connecting"}
      BY <2>3, IdleIsOp DEF Crash, Dies
    <3> QED
      BY <2>3, <3>1, RequestsPreserve DEF Crash, Dies
  <2>4. ASSUME NEW r \in Requests, BeginAsks(r) \/ BeginStores(r) PROVE IInv'
    BY <2>4, BeginAsksPreserves, BeginStoresPreserves
  <2>5. ASSUME NEW r \in Requests, Poll(r) PROVE IInv'
    <3>1. ASSUME NEW a \in Attempts, PollExpires(r, a) \/ PollAsks(r, a) PROVE IInv'
      BY <3>1, HeldEndPreserves, PollAsksPreserves
    <3>2. ASSUME NEW status \in {"waiting", "expired", "failed"}, Answers(r, status) PROVE IInv'
      BY <3>2, AnswersPreserve
    <3> QED
      BY <2>5, <2>2, <3>1, <3>2, RotatesPreserves, SucceedsPreserves DEF Poll
  <2>6. ASSUME NEW r \in Requests, NEW a \in Attempts, Cancel(r, a) PROVE IInv'
    BY <2>6, HeldEndPreserves
  <2> QED
    BY <2>1, <2>2, <2>3, <2>4, <2>5, <2>6, BindPreserves, DeletePreserves, OutsidePreserves DEF Next, Begin
<1> QED
  BY <1>1, <1>2, PTL DEF Spec

\* The values are in their sets; no attempt that has ended is registered as the one in
\* flight (flow.py, _inflight).
THEOREM TypeCorrect == Spec => []TypeOK
<1>1. IInv => TypeOK
  BY DEF IInv, Shape
<1> QED
  BY <1>1, Invariance, PTL

\* persist_instance_from_credentials leaves no half of an instance behind, unless the
\* process died or an undo failed.
THEOREM NothingByHalves == Spec => []NoHalves
<1>1. IInv => NoHalves
  BY DEF IInv
<1> QED
  BY <1>1, Invariance, PTL

\* The polls, cancels and prunings of an attempt make one instance at most of it, through
\* crashes and failing writes, unless its row could not be told of the first one.
THEOREM AtMostOneInstance == Spec => []OneInstancePerAttempt
<1>1. IInv => OneInstancePerAttempt
  <2> SUFFICES ASSUME IInv, NEW a \in Attempts \ unsaid,
                      NEW made, made = {i \in Instances : inst[i] # "none" /\ maker[i] = a}
               PROVE  Cardinality(made) <= 1
                      /\ (row[a] \in {"waiting", "expired", "failed", "cancelled"} => made = {})
    BY DEF OneInstancePerAttempt
  <2>1. a # 0
    BY BoundsAssumption DEF Attempts
  <2>2. row[a] \in {"waiting", "expired", "failed", "cancelled"} => made = {}
    BY <2>1 DEF IInv, MadeOnce
  <2>3. made = {} \/ \E i \in Instances : made = {i}
    BY <2>1 DEF IInv, MadeOnce
  <2>4. Cardinality(made) <= 1
    <3>1. CASE made = {}
      BY <3>1, FS_EmptySet
    <3>2. ASSUME NEW i \in Instances, made = {i} PROVE Cardinality(made) <= 1
      <4>1. Cardinality({i}) = 1
        BY FS_Singleton
      <4> QED
        BY <3>2, <4>1
    <3> QED
      BY <2>3, <3>1, <3>2
  <2> QED
    BY <2>2, <2>4
<1> QED
  BY <1>1, Invariance, PTL

\* Whatever way an attempt ends, its temporary secret is gone (credential_store.py).
THEOREM SecretsAreDropped == Spec => []SecretsGo
<1>1. IInv => SecretsGo
  BY DEF IInv
<1> QED
  BY <1>1, Invariance, PTL

\* _rotate_state comes before the row: no crash leaves a QR code of a session that the
\* file does not hold.
THEOREM ShownCodeIsKnown == Spec => []CodeIsKnown
<1>1. IInv => CodeIsKnown
  BY DEF IInv
<1> QED
  BY <1>1, Invariance, PTL

\* _find_inflight: without overlap, one attempt at most is open.
THEOREM AtMostOneAttempt == Spec => []OneAttempt
<1>1. IInv => OneAttempt
  <2> SUFFICES ASSUME IInv, ~overlapped, NEW open, open = Unexpired PROVE Cardinality(open) <= 1
    BY DEF OneAttempt
  <2>1. open = {} \/ \E a \in open : open = {a}
    BY DEF IInv, AskedAlone
  <2>2. CASE open = {}
    BY <2>2, FS_EmptySet
  <2>3. CASE \E a \in open : open = {a}
    <3>1. PICK a : open = {a}
      BY <2>3
    <3> QED
      BY <3>1, FS_Singleton
  <2> QED
    BY <2>1, <2>2, <2>3
<1> QED
  BY <1>1, Invariance, PTL

\* update_provisioning never turns one end of an attempt into another.
THEOREM EndsStay == Spec => EndIsFinal
<1> DEFINE Kept == \A a \in Attempts : row[a] \in Ended => row'[a] \in {row[a], "pruned"}
<1>1. IInv /\ [Next]_vars => Kept
  <2> SUFFICES ASSUME IInv, [Next]_vars, NEW a \in Attempts, row[a] \in Ended
               PROVE  row'[a] \in {row[a], "pruned"}
    OBVIOUS
  <2>1. row[a] \notin {"none", "waiting", "pruned"} /\ row \in [Attempts -> Ended \cup {"none", "waiting", "pruned"}]
    BY DEF Ended, IInv, Shape, TypeOK
  <2>2. ASSUME NEW b \in Attempts, NEW status, row[b] \in {"waiting", "pruned"}, Settle(b, status)
        PROVE  row'[a] = row[a]
    BY <2>1, <2>2 DEF Settle
  <2>3. \A r \in Requests : op[r].pc = "polling" => op[r].a \in Attempts /\ row[op[r].a] \in {"waiting", "pruned"}
    BY DEF IInv, PollsHold
  <2>4. CASE UNCHANGED vars \/ Prune \/ Crash \/ (\E b \in Attempts : Expires(b) \/ Scans(b))
             \/ \E i \in Instances : DeleteInstance(i)
    BY <2>4 DEF vars, attempts, Prune, Crash, Expires, Scans, DeleteInstance
  <2>5. ASSUME NEW r \in Requests, Begin(r) \/ Bind(r) PROVE row'[a] = row[a]
    BY <2>1, <2>5 DEF Begin, BeginFinds, BeginAsks, BeginFails, BeginStores, Bind, NewAttempts, attempts
  <2>6. ASSUME NEW r \in Requests, NEW b \in Attempts, Cancel(r, b) \/ PollExpires(r, b) PROVE row'[a] = row[a]
    BY <2>2, <2>6 DEF Cancel, PollExpires, Held, EndAttempt, RowResists
  <2>7. ASSUME NEW r \in Requests, Poll(r) PROVE row'[a] = row[a]
    <3>1. ASSUME NEW b \in Attempts, PollAsks(r, b) PROVE row'[a] = row[a]
      BY <3>1 DEF PollAsks, attempts
    <3>2. ASSUME NEW status, Answers(r, status) PROVE row'[a] = row[a]
      BY <2>2, <2>3, <3>2 DEF Answers, EndAttempt, RowResists
    <3>3. CASE Rotates(r)
      BY <2>2, <2>3, <3>3 DEF Rotates, RowResists
    <3>4. CASE Succeeds(r)
      BY <2>2, <2>3, <3>4 DEF Succeeds, RowResists
    <3>5. CASE Connected(r)
      BY <3>5 DEF Connected, attempts
    <3> QED
      BY <2>6, <2>7, <3>1, <3>2, <3>3, <3>4, <3>5 DEF Poll
  <2> QED
    BY <2>4, <2>5, <2>6, <2>7 DEF Next
<1>2. Spec => [][Kept]_vars
  BY <1>1, Invariance, PTL DEF Spec
<1> QED
  BY <1>2 DEF EndIsFinal, Kept

=============================================================================
