---------------------------- MODULE MCThreadPool ----------------------------
(* Instances of ThreadPool for TLC: three requests at most, one slot. *)
EXTENDS ThreadPool

CONSTANTS g1, g2, a, b, c

=============================================================================
