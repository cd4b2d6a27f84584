---------------------------- MODULE MCPrintQueue ----------------------------
(***************************************************************************)
(* An instance of PrintQueue for TLC.                                      *)
(***************************************************************************)
EXTENDS PrintQueue
=============================================================================
