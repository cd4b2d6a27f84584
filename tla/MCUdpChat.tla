------------------------------ MODULE MCUdpChat ------------------------------
(***************************************************************************)
(* An instance of UdpChat for TLC.                                         *)
(***************************************************************************)
EXTENDS UdpChat
==============================================================================
