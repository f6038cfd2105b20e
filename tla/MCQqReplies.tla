---------------------------- MODULE MCQqReplies ----------------------------
(* Instances of QqReplies for TLC.                                         *)
EXTENDS QqReplies
=============================================================================
