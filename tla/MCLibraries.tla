---------------------------- MODULE MCLibraries ----------------------------
(* The instance of Libraries for TLC: the constants are numbers, so the    *)
(* configuration gives them.                                               *)
EXTENDS Libraries
=============================================================================
