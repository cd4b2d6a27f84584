------------------------------- MODULE MCClinic -------------------------------
(***************************************************************************)
(* An instance of Clinic for TLC.                                          *)
(***************************************************************************)
EXTENDS Clinic
===============================================================================
