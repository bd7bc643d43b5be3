------------------------------ MODULE MCRetry ------------------------------
(* An instance of Retry for TLC: durations of four bits, in which a second *)
(* is two units.                                                           *)
EXTENDS Retry

MCHeaders ==
  { [kind |-> "none", value |-> 0], [kind |-> "date", value |-> 5] }
  \cup [kind : {"seconds"}, value : {-1, 1, 3, 4}]

=============================================================================
