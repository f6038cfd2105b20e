-------------------------- MODULE MCChannelGateway --------------------------
(* Instances of ChannelGateway for TLC.                                    *)
EXTENDS ChannelGateway
=============================================================================
