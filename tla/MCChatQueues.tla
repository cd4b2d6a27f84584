---------------------------- MODULE MCChatQueues ----------------------------
(***************************************************************************)
(* An instance of ChatQueues for TLC.                                      *)
(***************************************************************************)
EXTENDS ChatQueues
=============================================================================
