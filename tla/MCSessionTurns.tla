--------------------------- MODULE MCSessionTurns ---------------------------
(* Instances of SessionTurns for TLC: one or two connections, opened in any*)
(* order, so that a client can leave and come back during a turn.          *)
EXTENDS SessionTurns
=============================================================================
