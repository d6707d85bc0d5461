--------------------------- MODULE MCKeyShardTask ---------------------------
(* Instances of KeyShardTask for TLC. *)
EXTENDS KeyShardTask

CONSTANTS t1, t2, q1, h1

OneList == [t \in Tasks |-> h1]      \* a request and its repetitions

\* The process does not end, sgx_create_report succeeds and the clock holds.
Survivable == AllFaults \ {"overread", "report", "clock"}

=============================================================================
