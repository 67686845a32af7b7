------------------------------ MODULE MCAgent ------------------------------
(***************************************************************************)
(* The agent pipeline on small instances.  The processes are model values; *)
(* they are not interchangeable, because YARA may match some of them and   *)
(* the maps of some cannot be read.                                        *)
(***************************************************************************)
EXTENDS AgentRefines

CONSTANTS p1, p2

=============================================================================
