------------------------------ MODULE MCClient ------------------------------
(* Instances of Client for TLC.                                            *)
EXTENDS Client

CONSTANTS r1, r2   \* model values: concurrent Get* calls

TwoRequests == {r1, r2}

=============================================================================
