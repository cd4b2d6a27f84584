------------------------------ MODULE MCSignals ------------------------------
(***************************************************************************)
(* An instance of Signals for TLC.                                         *)
(***************************************************************************)
EXTENDS Signals
==============================================================================
