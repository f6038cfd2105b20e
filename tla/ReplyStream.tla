---------------------------- MODULE ReplyStream ----------------------------
(* What the caller of send_message_stream or regenerate_message_stream is  *)
(* promised: the events of its own reply, each once and in order; at most  *)
(* one terminal event, the last; and the end of the response only after    *)
(* everything that was produced was delivered.  The reply may be cut short *)
(* (an abort, a lost connection), and its caller may abandon it.           *)
EXTENDS Naturals, Sequences

CONSTANT Turns

VARIABLES
  phase,        \* "none", "open", "finished", "closed" or "abandoned"
  out,          \* the events produced for each turn
  delivered     \* how many of them its caller has

vars == <<phase, out, delivered>>

Terminal == {"completed", "error", "fault"}

\* An event of the turn that may follow those produced so far.
Follows(t, e) ==
  /\ e.turn = t
  /\ \A i \in DOMAIN out[t] : out[t][i].kind \notin Terminal
  /\ e.kind \in {"delta", "completed"} => e.n = Len(out[t]) + 1

Init ==
  /\ phase = [t \in Turns |-> "none"]
  /\ out = [t \in Turns |-> <<>>]
  /\ delivered = [t \in Turns |-> 0]

Open(t) ==
  /\ phase[t] = "none"
  /\ phase' = [phase EXCEPT ![t] = "open"]
  /\ UNCHANGED <<out, delivered>>

\* Production of an event, which may come with the end of the stream.
Produce(t) ==
  /\ phase[t] = "open"
  /\ Len(out'[t]) = Len(out[t]) + 1
  /\ LET e == out'[t][Len(out[t]) + 1] IN
       /\ Follows(t, e)
       /\ out' = [out EXCEPT ![t] = Append(@, e)]
       /\ \/ UNCHANGED phase
          \/ phase' = [phase EXCEPT ![t] = "finished"]
  /\ UNCHANGED delivered

Finish(t) ==
  /\ phase[t] = "open"
  /\ phase' = [phase EXCEPT ![t] = "finished"]
  /\ UNCHANGED <<out, delivered>>

Deliver(t) ==
  /\ phase[t] \in {"open", "finished"}
  /\ delivered[t] < Len(out[t])
  /\ delivered' = [delivered EXCEPT ![t] = @ + 1]
  /\ UNCHANGED <<phase, out>>

Close(t) ==
  /\ phase[t] = "finished" /\ delivered[t] = Len(out[t])
  /\ phase' = [phase EXCEPT ![t] = "closed"]
  /\ UNCHANGED <<out, delivered>>

\* The caller leaves, or the service stops.
Abandon ==
  /\ \E S \in SUBSET {t \in Turns : phase[t] # "abandoned"} :
       phase' = [t \in Turns |-> IF t \in S THEN "abandoned" ELSE phase[t]]
  /\ \A t \in Turns : phase'[t] # "abandoned" => out'[t] = out[t]
  /\ UNCHANGED delivered

Next == Abandon \/ \E t \in Turns : Open(t) \/ Produce(t) \/ Finish(t) \/ Deliver(t) \/ Close(t)

Spec == Init /\ [][Next]_vars
=============================================================================
