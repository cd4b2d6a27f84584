------------------------------ MODULE MCTcpChat ------------------------------
(***************************************************************************)
(* An instance of TcpChat for TLC.                                         *)
(***************************************************************************)
EXTENDS TcpChat
==============================================================================
