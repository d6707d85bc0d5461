---------------------------- MODULE ShardService ----------------------------
(***************************************************************************)
(* What the service promises its clients (README.md, "Private Key Shard    *)
(* Generation"): every accepted request is answered once through the       *)
(* webhook, with the key shards generated for it or with an error, and no  *)
(* two requests for the same public key list generate at the same time.    *)
(* Nothing here knows of threads, of the enclave or of its registry.       *)
(***************************************************************************)
CONSTANTS
  Requests,    \* generation requests
  ListOf,      \* the public key list of each
  None, Error  \* no answer yet; an answer that carries no key shards

VARIABLES
  phase,       \* how far the service is with each request
  result       \* the request whose key shards the answer carries

vars == <<phase, result>>

Init ==
  /\ phase = [r \in Requests |-> "new"]
  /\ result = [r \in Requests |-> None]

Move(r, from, to) == phase[r] \in from /\ phase' = [phase EXCEPT ![r] = to]

Accept(r) == Move(r, {"new"}, "accepted") /\ UNCHANGED result

Begin(r) ==
  /\ \A s \in Requests \ {r} : ListOf[s] = ListOf[r] => phase[s] # "generating"
  /\ Move(r, {"accepted"}, "generating")
  /\ UNCHANGED result

GiveUp(r) == Move(r, {"accepted", "generating"}, "failed") /\ UNCHANGED result

Answer(r) ==
  /\ Move(r, {"generating", "failed"}, "answered")
  /\ result' = [result EXCEPT ![r] = IF phase[r] = "generating" THEN r ELSE Error]

Serve(r) == Begin(r) \/ GiveUp(r) \/ Answer(r)

Next == \E r \in Requests : Accept(r) \/ Serve(r)

Safety == Init /\ [][Next]_vars

\* An accepted request is not left alone for ever.
Spec == Safety /\ \A r \in Requests : WF_vars(Serve(r))

=============================================================================
