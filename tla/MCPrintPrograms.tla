--------------------------- MODULE MCPrintPrograms ---------------------------
(***************************************************************************)
(* An instance of PrintPrograms for TLC.                                   *)
(***************************************************************************)
EXTENDS PrintPrograms
=============================================================================
