-------------------------- MODULE MCSessionStreams --------------------------
(* Instances of SessionStreams for TLC.  Turns are interchangeable, and so *)
(* are the requests that reconnect.                                        *)
EXTENDS SessionStreams, TLC

Symmetry == Permutations(Turns)
=============================================================================
