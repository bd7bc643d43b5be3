------------------------------ MODULE MCPaging ------------------------------
(* The instance of Paging for TLC: the constants are numbers, so the       *)
(* configuration gives them.                                               *)
EXTENDS Paging
=============================================================================
