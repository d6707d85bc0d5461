--------------------------- MODULE MCClientSession ---------------------------
(* Instances of ClientSession for TLC. *)
EXTENDS ClientSession

CONSTANTS t1, t2, c1, c2, h1, h2

\* One client and the repetition of its request.
OneClient     == [t \in Tasks |-> c1]
OneList       == [t \in Tasks |-> h1]
ClientFaults  == {"request", "keygen", "malloc"}
=============================================================================
