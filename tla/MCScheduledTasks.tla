-------------------------- MODULE MCScheduledTasks --------------------------
(* Instances of ScheduledTasks for TLC.                                    *)
EXTENDS ScheduledTasks

CONSTANTS t1, t2, a1

\* Both tasks belong to one agent, so that the mutual exclusion of the agent
\* and not only that of the task decides.
MCAgentOf == [t \in Tasks |-> a1]
=============================================================================
