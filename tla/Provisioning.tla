---------------------------- MODULE Provisioning ----------------------------
(* How a channel instance comes into being: the attempts to provision one  *)
(* by scanning a QR code (channels/provisioning/flow.py), the credentials  *)
(* entered by hand (manual.py), the credential files (credential_store.py) *)
(* and the rows of attempts and instances (channel_repository.py).         *)
(*                                                                         *)
(* One (channel, owner) stands for all.  Everything runs on one event loop *)
(* and suspends only while it awaits the platform, the lock of the attempt *)
(* or the connection of the new instance; a crash may come after any       *)
(* write.                                                                  *)
EXTENDS Naturals, FiniteSets

CONSTANTS
  Requests,      \* HTTP requests served at a time
  MaxAttempts,   \* bound: attempts begun
  MaxSessions,   \* bound: platform sessions (QR codes) an attempt goes through
  MaxInstances,  \* bound: instances made
  MaxFaults      \* bound: steps in which writes fail or the process dies

ASSUME BoundsAssumption ==
  MaxAttempts \in Nat /\ MaxSessions \in Nat \ {0} /\ MaxInstances \in Nat /\ MaxFaults \in Nat

Attempts == 1..MaxAttempts
Instances == 1..MaxInstances

VARIABLES
  row,          \* channel_provisionings: the status of each attempt, or "none"
  late,         \* attempts whose expires_at has passed
  qr,           \* the platform session whose QR code the row shows
  file,         \* the session in the attempt's credential file, 0: no file
  inflight,     \* ProvisioningFlow._inflight, 0: nothing registered
  session,      \* the platform: the session that is valid for an attempt
  scanned,      \* the platform: the attempts whose user has scanned it
  inst,         \* channel_instances: "none", "bare" (no config), "ready", "gone"
  cred,         \* the instances that have a credential file
  maker,        \* the attempt an instance was made by, 0: by hand
  op,           \* what each request is at
  torn,         \* for the properties: a crash, or a rollback that failed itself
  unsaid,       \* for the properties: attempts whose instance no row accounts for
  overlapped,   \* for the properties: a begin met a begin or a poll that awaited the platform
  faults

attempts == <<row, late, qr, file, session, scanned>>
instances == <<inst, cred, maker>>
vars == <<attempts, inflight, instances, op, torn, unsaid, overlapped, faults>>

Idle == [pc |-> "idle", a |-> 0, s |-> 0]
Waiting == {a \in Attempts : row[a] = "waiting"}
NewAttempts == {a \in Attempts : row[a] = "none"}

\* Writes fail, or the process dies, in this step.
Faulty == faults < MaxFaults /\ faults' = faults + 1
Sound == UNCHANGED <<torn, faults>>

Goto(r, o) == op' = [op EXCEPT ![r] = o]
Ends(r) == Goto(r, Idle)

\* The process dies: the files and rows are what is left.
Dies == /\ Faulty /\ torn' = TRUE
        /\ inflight' = 0
        /\ op' = [r \in Requests |-> Idle]

-----------------------------------------------------------------------------
(* The ends of an attempt.                                                 *)

\* update_provisioning: a row that the maintenance has deleted stays deleted.
Settle(a, status) == row' = [row EXCEPT ![a] = IF @ = "pruned" THEN @ ELSE status]

\* _clear_state and _forget: the file may resist, the attempt has ended all
\* the same.  What is forgotten is whatever is registered.
Clear(a) ==
  /\ inflight' = 0
  /\ \/ file' = [file EXCEPT ![a] = 0] /\ Sound
     \/ UNCHANGED file /\ Faulty /\ torn' = TRUE

\* A write to the row raises: the request fails and the attempt stays as it is.
RowResists(r) == Faulty /\ Ends(r) /\ UNCHANGED <<row, inflight, torn>>

\* The status is written, and then the secret goes.
EndAttempt(r, a, status) ==
  \/ /\ Settle(a, status)
     /\ \/ Clear(a) /\ Ends(r)
        \/ UNCHANGED file /\ Dies
  \/ RowResists(r) /\ UNCHANGED file

-----------------------------------------------------------------------------
(* persist_instance_from_credentials.                                      *)

Fresh == {i \in Instances : inst[i] = "none" /\ i \notin cred}
NextInstance(i) == i \in Fresh /\ \A j \in Fresh : i <= j

\* The credential file, the row, the config; the instance i is made by a.
Make(i, a, how) ==
  /\ cred' = cred \cup {i}
  /\ maker' = [maker EXCEPT ![i] = a]
  /\ inst' = [inst EXCEPT ![i] = how]

\* A write failed and what came before it was undone: nothing is left; or the
\* undo failed too, and the file is left, or the row and its file.
Mutant_Undone(i, a) == Faulty /\ Make(i, a, "none") /\ UNCHANGED torn
Undone(i, a) ==
  \/ Faulty /\ UNCHANGED <<instances, torn>>
  \/ Faulty /\ torn' = TRUE /\ (Make(i, a, "none") \/ Make(i, a, "bare"))

\* The process dies after the file, the row, or the config was written.
Interrupted(i, a) == Dies /\ \E how \in {"none", "bare", "ready"} : Make(i, a, how)

-----------------------------------------------------------------------------
(* begin.                                                                  *)

Unexpired == Waiting \ late

\* _find_inflight: the registered attempt if it still waits, or those in the
\* database that have not expired, of which the newest is taken.
Mutant_FindInflight == IF inflight \in Waiting THEN {inflight} ELSE {}
FindInflight == IF inflight \in Waiting THEN {inflight} ELSE Unexpired

BeginFinds(r) ==
  /\ op[r] = Idle
  /\ \E a \in FindInflight :
       /\ \A b \in FindInflight : b <= a
       /\ inflight' = a
  /\ UNCHANGED <<attempts, instances, op, torn, unsaid, overlapped, faults>>

\* prune_expired sweeps the files; then the platform is asked for a session.
BeginAsks(r) ==
  /\ op[r] = Idle /\ FindInflight = {} /\ NewAttempts # {}
  /\ inflight' = 0
  /\ file' = [a \in Attempts |-> IF a \in late THEN 0 ELSE file[a]]
  /\ Goto(r, [Idle EXCEPT !.pc = "beginning"])
  /\ overlapped' = (overlapped \/ \E q \in Requests : op[q].pc \in {"beginning", "polling"})
  /\ UNCHANGED <<row, late, qr, session, scanned, instances, torn, unsaid, faults>>

BeginFails(r) ==
  /\ op[r].pc = "beginning"
  /\ Ends(r)
  /\ UNCHANGED <<attempts, inflight, instances, torn, unsaid, overlapped, faults>>

\* The secret into its file, then the row that names it.
BeginStores(r) ==
  /\ op[r].pc = "beginning"
  /\ \E a \in NewAttempts :
       /\ \A b \in NewAttempts : a <= b
       /\ session' = [session EXCEPT ![a] = 1]
       /\ \/ /\ row' = [row EXCEPT ![a] = "waiting"] /\ qr' = [qr EXCEPT ![a] = 1]
             /\ file' = [file EXCEPT ![a] = 1]
             /\ inflight' = a
             /\ Ends(r) /\ Sound
          \/ /\ row' = [row EXCEPT ![a] = "pruned"] /\ UNCHANGED <<qr, inflight>>
             /\ \/ Faulty /\ UNCHANGED <<file, torn>>
                \/ Faulty /\ torn' = TRUE /\ file' = [file EXCEPT ![a] = 1]
             /\ Ends(r)
          \/ /\ row' = [row EXCEPT ![a] = "pruned"] /\ UNCHANGED qr
             /\ file' = [file EXCEPT ![a] = 1]
             /\ Dies
  /\ UNCHANGED <<late, scanned, instances, unsaid, overlapped>>

-----------------------------------------------------------------------------
(* poll and cancel, one at a time for an attempt.                          *)

\* The lock of an attempt is held from the answer of the platform to the end.
Mutant_Locked(a) == FALSE
Locked(a) == \E q \in Requests : op[q].pc \in {"polling", "connecting"} /\ op[q].a = a

Held(r, a) == op[r] = Idle /\ row[a] = "waiting" /\ ~Locked(a)

\* A poll of an attempt that has expired ends it.
PollExpires(r, a) ==
  /\ Held(r, a) /\ a \in late
  /\ EndAttempt(r, a, "expired")
  /\ UNCHANGED <<late, qr, session, scanned, instances, unsaid, overlapped>>

\* The driver is asked with the session in the file.
PollAsks(r, a) ==
  /\ Held(r, a) /\ a \notin late
  /\ Goto(r, [pc |-> "polling", a |-> a, s |-> file[a]])
  /\ UNCHANGED <<attempts, inflight, instances, torn, unsaid, overlapped, faults>>

\* Nothing new; or the platform fails, or says that the session has expired.
Answers(r, status) ==
  /\ op[r].pc = "polling"
  /\ \/ status = "waiting" /\ Ends(r) /\ UNCHANGED <<row, file, inflight, torn, faults>>
     \/ status \in {"expired", "failed"} /\ EndAttempt(r, op[r].a, status)
  /\ UNCHANGED <<late, qr, session, scanned, instances, unsaid, overlapped>>

\* The platform has replaced the session: _rotate_state writes the new one,
\* and then the row gets the QR code, and maybe more time.
Rotates(r) ==
  LET a == op[r].a
      s == session[a] + 1
  IN  /\ op[r].pc = "polling" /\ a \notin scanned /\ s <= MaxSessions
      /\ session' = [session EXCEPT ![a] = s]
      /\ \/ /\ file' = [file EXCEPT ![a] = s]
            /\ IF row[a] = "pruned" THEN UNCHANGED <<qr, late>>
               ELSE qr' = [qr EXCEPT ![a] = s] /\ (UNCHANGED late \/ late' = late \ {a})
            /\ Ends(r) /\ Sound /\ UNCHANGED <<row, inflight>>
         \/ file' = [file EXCEPT ![a] = s] /\ Dies /\ UNCHANGED <<qr, row, late>>
         \/ file' \in {file, [file EXCEPT ![a] = s]} /\ RowResists(r) /\ UNCHANGED <<qr, late>>
         \/ /\ Settle(a, "failed") /\ file' = [file EXCEPT ![a] = 0] /\ inflight' = 0
            /\ Ends(r) /\ Faulty /\ UNCHANGED <<qr, late, torn>>
  /\ UNCHANGED <<scanned, instances, unsaid, overlapped>>

\* What the attempt made is not what its row will say.
Unsaid(i, a) == unsaid' = IF inst'[i] = "none" THEN unsaid ELSE unsaid \cup {a}

\* The user confirmed: _finish_succeeded persists, and only then settles; when
\* the row resists, the instance is there and the attempt goes on waiting.
Succeeds(r) ==
  LET a == op[r].a
  IN  /\ op[r].pc = "polling" /\ a \in scanned /\ op[r].s = session[a]
      /\ \E i \in Fresh :
           /\ NextInstance(i)
           /\ \/ /\ Make(i, a, "ready")
                 /\ Settle(a, "succeeded")
                 /\ \/ Clear(a) /\ Goto(r, [op[r] EXCEPT !.pc = "connecting"])
                    \/ UNCHANGED file /\ Dies
                 /\ UNCHANGED unsaid
              \/ Make(i, a, "ready") /\ RowResists(r) /\ UNCHANGED file /\ Unsaid(i, a)
              \/ Interrupted(i, a) /\ UNCHANGED <<row, file>> /\ Unsaid(i, a)
              \/ /\ Undone(i, a)
                 /\ \/ Settle(a, "failed") /\ file' = [file EXCEPT ![a] = 0] /\ inflight' = 0
                    \/ UNCHANGED <<row, file, inflight>>
                 /\ Unsaid(i, a)
                 /\ Ends(r)
      /\ UNCHANGED <<late, qr, session, scanned, overlapped>>

Mutant_Cancel(r, a) ==
  /\ op[r] = Idle /\ row[a] = "waiting"
  /\ EndAttempt(r, a, "cancelled")
  /\ UNCHANGED <<late, qr, session, scanned, instances, unsaid, overlapped>>

Cancel(r, a) ==
  /\ Held(r, a)
  /\ EndAttempt(r, a, "cancelled")
  /\ UNCHANGED <<late, qr, session, scanned, instances, unsaid, overlapped>>

\* connect_instance has returned, or raised: the instance stays either way.
Connected(r) ==
  /\ op[r].pc = "connecting"
  /\ Ends(r)
  /\ UNCHANGED <<attempts, inflight, instances, torn, unsaid, overlapped, faults>>

-----------------------------------------------------------------------------
(* By hand; deletion; the maintenance; the platform; the process.          *)

Bind(r) ==
  /\ op[r] = Idle
  /\ \E i \in Fresh :
       /\ NextInstance(i)
       /\ \/ Make(i, 0, "ready") /\ Goto(r, [Idle EXCEPT !.pc = "connecting"]) /\ Sound /\ UNCHANGED inflight
          \/ Undone(i, 0) /\ UNCHANGED <<op, inflight>>
          \/ Interrupted(i, 0)
  /\ UNCHANGED <<attempts, unsaid, overlapped>>

\* The handler of the deletion removes the row and leaves the file.
DeleteInstance(i) ==
  /\ inst[i] \in {"bare", "ready"}
  /\ inst' = [inst EXCEPT ![i] = "gone"]
  /\ UNCHANGED <<attempts, inflight, cred, maker, op, torn, unsaid, overlapped, faults>>

\* prune_provisionings takes what has expired in whatever state, even while a
\* poll awaits the platform.
Prune ==
  /\ row' = [a \in Attempts |->
       IF row[a] \in {"cancelled", "failed"} \/ (row[a] # "none" /\ a \in late) THEN "pruned" ELSE row[a]]
  /\ UNCHANGED <<late, qr, file, inflight, session, scanned, instances, op, torn, unsaid, overlapped, faults>>

Expires(a) ==
  /\ row[a] # "none"
  /\ late' = late \cup {a}
  /\ UNCHANGED <<row, qr, file, inflight, session, scanned, instances, op, torn, unsaid, overlapped, faults>>

\* The user scans the code on the screen, which must be the valid one.
Scans(a) ==
  /\ row[a] = "waiting" /\ qr[a] = session[a]
  /\ scanned' = scanned \cup {a}
  /\ UNCHANGED <<row, late, qr, file, inflight, session, instances, op, torn, unsaid, overlapped, faults>>

Crash == Dies /\ UNCHANGED <<attempts, instances, unsaid, overlapped>>

-----------------------------------------------------------------------------
Init ==
  /\ row = [a \in Attempts |-> "none"] /\ late = {}
  /\ qr = [a \in Attempts |-> 0] /\ file = [a \in Attempts |-> 0]
  /\ session = [a \in Attempts |-> 0] /\ scanned = {}
  /\ inflight = 0
  /\ inst = [i \in Instances |-> "none"] /\ cred = {} /\ maker = [i \in Instances |-> 0]
  /\ op = [r \in Requests |-> Idle]
  /\ torn = FALSE /\ unsaid = {} /\ overlapped = FALSE /\ faults = 0

Poll(r) ==
  \/ \E a \in Attempts : PollExpires(r, a) \/ PollAsks(r, a)
  \/ \E status \in {"waiting", "expired", "failed"} : Answers(r, status)
  \/ Rotates(r) \/ Succeeds(r) \/ Connected(r)

Begin(r) == BeginFinds(r) \/ BeginAsks(r) \/ BeginFails(r) \/ BeginStores(r)

Next ==
  \/ \E r \in Requests : Begin(r) \/ Poll(r) \/ Bind(r) \/ \E a \in Attempts : Cancel(r, a)
  \/ \E i \in Instances : DeleteInstance(i)
  \/ \E a \in Attempts : Expires(a) \/ Scans(a)
  \/ Prune \/ Crash

Spec == Init /\ [][Next]_vars

-----------------------------------------------------------------------------
(* Properties.                                                             *)

Ended == {"succeeded", "expired", "failed", "cancelled"}

\* The values are in their sets, a session is known to the service only if
\* the platform made it, and no attempt that has ended is registered.
TypeOK ==
  /\ row \in [Attempts -> Ended \cup {"none", "waiting", "pruned"}]
  /\ late \subseteq Attempts /\ scanned \subseteq Attempts /\ inflight \in Attempts \cup {0}
  /\ \A a \in Attempts : session[a] \in 0..MaxSessions /\ qr[a] \in 0..session[a] /\ file[a] \in 0..session[a]
  /\ inst \in [Instances -> {"none", "bare", "ready", "gone"}] /\ cred \subseteq Instances
  /\ maker \in [Instances -> Attempts \cup {0}] /\ unsaid \subseteq Attempts
  /\ \A r \in Requests : op[r].pc \in {"idle", "beginning", "polling", "connecting"}
  /\ inflight # 0 => row[inflight] \in {"waiting", "pruned"}

\* "Never leave config without credentials or credentials without instance":
\* unless the process died or an undo failed too, an instance has its file and
\* its config, and a file its instance.
NoHalves ==
  torn \/ \A i \in Instances : inst[i] # "bare" /\ (i \in cred <=> inst[i] # "none")

\* However polls, a cancel, the maintenance, crashes and failing writes
\* interleave, one attempt makes at most one instance, and none when it goes on
\* or ended in another way; but for the attempts whose row could not be told of
\* the instance: they wait on, and the next poll may make another.
OneInstancePerAttempt ==
  \A a \in Attempts \ unsaid :
    LET made == {i \in Instances : inst[i] # "none" /\ maker[i] = a}
    IN  Cardinality(made) <= 1 /\ (row[a] \in {"waiting", "expired", "failed", "cancelled"} => made = {})

\* A temporary secret is dropped with the end of its attempt.
SecretsGo == torn \/ \A a \in Attempts : row[a] \in Ended => file[a] = 0

\* "State first, then the QR code": wherever the process dies, the code on the
\* screen is never of a session the service does not know.
CodeIsKnown == \A a \in Attempts : row[a] = "waiting" /\ file[a] # 0 => qr[a] <= file[a]

\* "One attempt in flight, checked in memory and in the database", also across
\* a restart: if no begin meets another one, or a poll (whose answer may give
\* an expired attempt more time).
OneAttempt == overlapped \/ Cardinality(Unexpired) <= 1

\* The end of an attempt is final: until the row is deleted it says the same.
EndIsFinal == [][\A a \in Attempts : row[a] \in Ended => row'[a] \in {row[a], "pruned"}]_vars
=============================================================================
