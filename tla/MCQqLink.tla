----------------------------- MODULE MCQqLink -----------------------------
(* Instances of QqLink for TLC.                                            *)
EXTENDS QqLink
=============================================================================
