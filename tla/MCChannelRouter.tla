-------------------------- MODULE MCChannelRouter --------------------------
(* Instances of ChannelRouter for TLC.  With two commands every pair of    *)
(* /stop and /new meets the worker; they are interchangeable.              *)
EXTENDS ChannelRouter, TLC

CommandSymmetry == Permutations(Commands)
=============================================================================
