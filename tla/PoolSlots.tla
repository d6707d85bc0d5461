----------------------------- MODULE PoolSlots -----------------------------
(***************************************************************************)
(* What the pool of task threads promises: the thread of a request has a   *)
(* slot from its start until it is over, each thread is started once, and  *)
(* there are at most so many slots.  Nothing here knows of handlers, of    *)
(* the timer, of the list or of its lock.                                  *)
(***************************************************************************)
EXTENDS Integers, FiniteSets

CONSTANTS
  Threads,    \* the threads that may be started
  Capacity    \* how many of them have a slot at a time

VARIABLES
  slots,      \* the threads that have a slot
  run         \* "none", "running" or "over"

vars == <<slots, run>>

Init ==
  /\ slots = {}
  /\ run = [t \in Threads |-> "none"]

Start(t) ==
  /\ run[t] = "none"
  /\ Cardinality(slots) < Capacity
  /\ slots' = slots \cup {t}
  /\ run' = [run EXCEPT ![t] = "running"]

End(t) ==
  /\ run[t] = "running"
  /\ run' = [run EXCEPT ![t] = "over"]
  /\ UNCHANGED slots

\* Threads that are over are joined, some or all at a time.
Join ==
  /\ slots' \subseteq slots
  /\ \A t \in slots \ slots' : run[t] = "over"
  /\ UNCHANGED run

Next == Join \/ \E t \in Threads : Start(t) \/ End(t)

Safety == Init /\ [][Next]_vars

=============================================================================
