--------------------------- MODULE MCBackportRuns ---------------------------
(* Instances of BackportRuns for TLC.                                      *)
EXTENDS BackportRuns
=============================================================================
