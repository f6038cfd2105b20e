-------------------------- MODULE MCAgentLifecycle --------------------------
(* Instances of AgentLifecycle for TLC.                                    *)
EXTENDS AgentLifecycle, TLC

CONSTANTS q1, q2

\* Every two requests may overlap.
AllPairs == {{a, b} : a \in Kinds, b \in Kinds}

\* All but a resume with a pause, and a delete with a create or a resume.
TamePairs == AllPairs \ {{"pause", "resume"}, {"delete", "resume"}, {"create", "delete"}}

\* One request at a time.
NoPairs == {}

Symmetry == Permutations({q1, q2})
=============================================================================
