----------------------------- MODULE ThreadPool -----------------------------
(***************************************************************************)
(* The pool of task threads of the host and its lock (src/App/server/      *)
(* msg_handler.cpp:355-452, thread_task.cpp, listen_svr.cpp:20-97, and the *)
(* end of main in src/App/App.cpp).                                        *)
(*                                                                         *)
(* Handler threads accept requests, the timer thread releases the threads  *)
(* that have stopped, and main destroys the pool and then the enclave.     *)
(* s_thread_lock is a default mutex of glibc: unlock frees it, whoever     *)
(* holds it.  GenerateKeyShard unlocks it before the lock_guard does, so   *)
(* each of its returns unlocks once more.  Where two threads would be in   *)
(* the list at once, one of them changing it, the model stops.             *)
(***************************************************************************)
EXTENDS Integers, FiniteSets

CONSTANTS
  Handlers,      \* handler threads of the listener
  Tasks,         \* ThreadTask objects
  MaxCount,      \* g_max_thread_task_count
  MaxRequests    \* bound on the requests of a run

ASSUME CountAssumption   == MaxCount \in Nat \ {0} /\ MaxRequests \in Nat
ASSUME HandlerAssumption == IsFiniteSet(Handlers) /\ IsFiniteSet(Tasks)

VARIABLES
  pc,        \* where each handler thread is
  hand,      \* the tasks a handler has started and not yet put in the pool
  pool,      \* s_thread_pool
  locked,    \* s_thread_lock
  run,       \* "none", "running" or "over" (stopped_): the thread of a task
  timer,     \* where the timer thread is
  main,      \* where the main thread is; "serving" until ENTER is pressed
  arrived    \* requests so far

vars == <<pc, hand, pool, locked, run, timer, main, arrived>>

HandlerPcs == {"idle", "guard", "size", "unlock", "check", "start", "relock",
               "push", "release", "leave"}
TimerPcs   == {"top", "nap", "guard", "scan", "leave", "ended"}
MainPcs    == {"serving", "join", "guard", "destroy", "leave", "close", "free", "gone"}

TypeOK ==
  /\ pc \in [Handlers -> HandlerPcs]
  /\ hand \in [Handlers -> SUBSET Tasks]
  /\ pool \in SUBSET Tasks
  /\ locked \in BOOLEAN
  /\ run \in [Tasks -> {"none", "running", "over"}]
  /\ timer \in TimerPcs
  /\ main \in MainPcs
  /\ arrived \in Nat

Init ==
  /\ pc = [h \in Handlers |-> "idle"]
  /\ hand = [h \in Handlers |-> {}]
  /\ pool = {}
  /\ locked = FALSE
  /\ run = [t \in Tasks |-> "none"]
  /\ timer = "top"
  /\ main = "serving"
  /\ arrived = 0

-----------------------------------------------------------------------------
(* The lock and the list it is there for.                                   *)

Lock   == ~locked /\ locked' = TRUE
Unlock == locked' = FALSE

\* Threads inside the list: those that read it, those that change it.
Readers == {h \in Handlers : pc[h] = "size"}
Writers == {h \in Handlers : pc[h] = "push"}
             \cup {p \in {"timer"} : timer = "scan"} \cup {p \in {"main"} : main = "destroy"}
Raced   == Cardinality(Writers) > 1 \/ (Writers # {} /\ Readers # {})

-----------------------------------------------------------------------------
(* A handler: GenerateKeyShard.                                             *)

Go(h, from, to) == pc[h] = from /\ pc' = [pc EXCEPT ![h] = to]

Arrive(h) ==
  /\ main \notin {"free", "gone"}
  /\ arrived < MaxRequests
  /\ arrived' = arrived + 1
  /\ Go(h, "idle", "guard")
  /\ UNCHANGED <<hand, pool, locked, run, timer, main>>

Guard(h) ==
  /\ Lock
  /\ Go(h, "guard", "size")
  /\ UNCHANGED <<hand, pool, run, timer, main, arrived>>

\* (mutant: <= for <)
CheckSizeLoosely(h) ==
  /\ Go(h, "size", IF Cardinality(pool) > MaxCount THEN "leave" ELSE "unlock")
  /\ UNCHANGED <<hand, pool, locked, run, timer, main, arrived>>

\* Busy when the pool is full: the request is refused under the lock.
CheckSize(h) ==
  /\ Go(h, "size", IF Cardinality(pool) >= MaxCount THEN "leave" ELSE "unlock")
  /\ UNCHANGED <<hand, pool, locked, run, timer, main, arrived>>

EarlyUnlock(h) ==
  /\ Unlock
  /\ Go(h, "unlock", "check")
  /\ UNCHANGED <<hand, pool, run, timer, main, arrived>>

\* The parameters of the request are valid, or the request is refused.
CheckParams(h) ==
  /\ Go(h, "check", "start") \/ Go(h, "check", "leave")
  /\ UNCHANGED <<hand, pool, locked, run, timer, main, arrived>>

\* (mutant: the constructor of ThreadTask leaves stopped_ unset)
StartTaskUnset(h) ==
  /\ \/ /\ Go(h, "start", "relock")
        /\ \E t \in Tasks :
             /\ run[t] = "none"
             /\ run' = [run EXCEPT ![t] = "unset"]
             /\ hand' = [hand EXCEPT ![h] = {t}]
     \/ /\ Go(h, "start", "leave")
        /\ UNCHANGED <<run, hand>>
  /\ UNCHANGED <<pool, locked, timer, main, arrived>>

\* A ThreadTask is made and its thread started; pthread_create may fail.
StartTask(h) ==
  /\ \/ /\ Go(h, "start", "relock")
        /\ \E t \in Tasks :
             /\ run[t] = "none"
             /\ run' = [run EXCEPT ![t] = "running"]
             /\ hand' = [hand EXCEPT ![h] = {t}]
     \/ /\ Go(h, "start", "leave")
        /\ UNCHANGED <<run, hand>>
  /\ UNCHANGED <<pool, locked, timer, main, arrived>>

Relock(h) ==
  /\ Lock
  /\ Go(h, "relock", "push")
  /\ UNCHANGED <<hand, pool, run, timer, main, arrived>>

PushTask(h) ==
  /\ Go(h, "push", "release")
  /\ pool' = pool \cup hand[h]
  /\ hand' = [hand EXCEPT ![h] = {}]
  /\ UNCHANGED <<locked, run, timer, main, arrived>>

Release(h) ==
  /\ Unlock
  /\ Go(h, "release", "leave")
  /\ UNCHANGED <<hand, pool, run, timer, main, arrived>>

\* (mutant: the lock_guard is released, and the busy reply keeps the lock)
LeaveUnlocked(h) ==
  /\ Go(h, "leave", "idle")
  /\ UNCHANGED <<hand, pool, locked, run, timer, main, arrived>>

\* The destructor of the lock_guard, on every return.
Leave(h) ==
  /\ Unlock
  /\ Go(h, "leave", "idle")
  /\ UNCHANGED <<hand, pool, run, timer, main, arrived>>

HandlerStep(h) ==
  \/ Guard(h) \/ CheckSize(h) \/ EarlyUnlock(h) \/ CheckParams(h) \/ StartTask(h)
  \/ Relock(h) \/ PushTask(h) \/ Release(h) \/ Leave(h)

-----------------------------------------------------------------------------
(* The thread of a task, and the timer thread.                              *)

\* (mutant: stopped_ is not set when the function returns)
FinishSilently(t) ==
  /\ run[t] = "running"
  /\ UNCHANGED vars

\* thread_func returns from the task's function and sets stopped_.
Finish(t) ==
  /\ run[t] = "running"
  /\ run' = [run EXCEPT ![t] = "over"]
  /\ UNCHANGED <<pc, hand, pool, locked, timer, main, arrived>>

Stopping == main # "serving"      \* is_stopping_

TimerGo(from, to) == timer = from /\ timer' = to

\* (mutant: is_stopping_ is not looked at between two scans)
TimerTopAgain ==
  /\ TimerGo("top", "nap")
  /\ UNCHANGED <<pc, hand, pool, locked, run, main, arrived>>

TimerTop ==
  /\ TimerGo("top", IF Stopping THEN "ended" ELSE "nap")
  /\ UNCHANGED <<pc, hand, pool, locked, run, main, arrived>>

\* Ten seconds, with a look at is_stopping_ before each.
TimerNap ==
  /\ TimerGo("nap", "guard") \/ (Stopping /\ TimerGo("nap", "ended"))
  /\ UNCHANGED <<pc, hand, pool, locked, run, main, arrived>>

TimerGuard ==
  /\ Lock
  /\ TimerGo("guard", "scan")
  /\ UNCHANGED <<pc, hand, pool, run, main, arrived>>

\* (mutant: is_stopped() is not asked)
ReleaseAllThreads ==
  /\ TimerGo("scan", "leave")
  /\ pool' = {}
  /\ UNCHANGED <<pc, hand, locked, run, main, arrived>>

\* Delete the stopped tasks; their threads join at once.
ReleaseStoppedThreads ==
  /\ TimerGo("scan", "leave")
  /\ pool' = {t \in pool : run[t] # "over"}
  /\ UNCHANGED <<pc, hand, locked, run, main, arrived>>

TimerLeave ==
  /\ Unlock
  /\ TimerGo("leave", "top")
  /\ UNCHANGED <<pc, hand, pool, run, main, arrived>>

TimerStep == TimerTop \/ TimerNap \/ TimerGuard \/ ReleaseStoppedThreads \/ TimerLeave

-----------------------------------------------------------------------------
(* The main thread, from the ENTER key: listen_svr::close, ecall_free and   *)
(* sgx_destroy_enclave.                                                     *)

MainGo(from, to) == main = from /\ main' = to

PressEnter ==
  /\ MainGo("serving", "join")
  /\ UNCHANGED <<pc, hand, pool, locked, run, timer, arrived>>

JoinTimer ==
  /\ timer = "ended"
  /\ MainGo("join", "guard")
  /\ UNCHANGED <<pc, hand, pool, locked, run, timer, arrived>>

MainGuard ==
  /\ Lock
  /\ MainGo("guard", "destroy")
  /\ UNCHANGED <<pc, hand, pool, run, timer, arrived>>

\* (mutant: the list is cleared without a join)
ClearThreadPool ==
  /\ MainGo("destroy", "leave")
  /\ pool' = {}
  /\ UNCHANGED <<pc, hand, locked, run, timer, arrived>>

\* DestroyThreadPool: each delete joins the thread, under the lock.
DestroyThreadPool ==
  /\ \/ /\ main = "destroy" /\ UNCHANGED main
        /\ \E t \in pool : run[t] = "over" /\ pool' = pool \ {t}
     \/ /\ pool = {} /\ UNCHANGED pool
        /\ MainGo("destroy", "leave")
  /\ UNCHANGED <<pc, hand, locked, run, timer, arrived>>

MainLeave ==
  /\ Unlock
  /\ MainGo("leave", "close")
  /\ UNCHANGED <<pc, hand, pool, run, timer, arrived>>

\* listener_.close().wait(): no new request, the open ones are answered.
CloseListener ==
  /\ \A h \in Handlers : pc[h] = "idle"
  /\ MainGo("close", "free")
  /\ UNCHANGED <<pc, hand, pool, locked, run, timer, arrived>>

DestroyEnclave ==
  /\ MainGo("free", "gone")
  /\ UNCHANGED <<pc, hand, pool, locked, run, timer, arrived>>

MainStep ==
  JoinTimer \/ MainGuard \/ DestroyThreadPool \/ MainLeave \/ CloseListener \/ DestroyEnclave

-----------------------------------------------------------------------------
Next ==
  /\ ~Raced
  /\ \/ \E h \in Handlers : Arrive(h) \/ HandlerStep(h)
     \/ \E t \in Tasks : Finish(t)
     \/ TimerStep
     \/ PressEnter
     \/ MainStep

\* Every thread that can go on does; a task ends; ENTER need not be pressed.
\* The lock is strongly fair: requests are finite in number and the timer
\* sleeps between two scans, so a waiter finds the lock free in the end.
Fairness ==
  /\ \A h \in Handlers : /\ WF_vars(~Raced /\ HandlerStep(h))
                         /\ SF_vars(~Raced /\ (Guard(h) \/ Relock(h)))
  /\ SF_vars(~Raced /\ MainGuard)
  /\ \A t \in Tasks : WF_vars(~Raced /\ Finish(t))
  /\ WF_vars(~Raced /\ TimerStep)
  /\ WF_vars(~Raced /\ MainStep)

Spec == Init /\ [][Next]_vars /\ Fairness

-----------------------------------------------------------------------------
(* Correctness.                                                             *)

\* Requests that have passed the check of the size and not yet the push.
InFlight == {h \in Handlers : pc[h] \in {"unlock", "check", "start", "relock", "push"}}

\* No more task threads run than g_max_thread_task_count, "The maximum number
\* of task threads that can be allocated by the thread pool" (README.md:90,
\* msg_handler.cpp:397).
ThreadsWithinMax == Cardinality({t \in Tasks : run[t] = "running"}) <= MaxCount

\* What holds instead: the pool outgrows the documented maximum by the
\* requests that were in flight, one less than there are handlers, and by no
\* more (msg_handler.cpp:397, 443).
PoolBound == Cardinality(pool) <= MaxCount + Cardinality(Handlers) - 1

\* The inductive form of PoolBound, and what a handler holds in its hand.
FlightBound == Cardinality(pool) + Cardinality(InFlight) <= MaxCount + Cardinality(Handlers) - 1

HandHoldsOne ==
  \A h \in Handlers :
    hand[h] = {} \/ (pc[h] \in {"relock", "push"} /\ \E t \in Tasks : hand[h] = {t})

\* A running thread is in the pool or on its way there: no thread is left
\* that nobody will join (msg_handler.cpp:362, 437-443).
NoThreadLost ==
  \A t \in Tasks : run[t] = "running" => t \in pool \/ \E h \in Handlers : t \in hand[h]

\* The threads the pool has to account for implement PoolSlots: each has a
\* slot from its start until it is over, and none is joined while it runs or
\* forgotten, so that busy means busy (msg_handler.cpp:355-370, 397-443).
\* The slots are those of PoolBound, more than the documented maximum.
Held       == pool \cup UNION {hand[h] : h \in Handlers}
Slots      == INSTANCE PoolSlots
                WITH Threads <- Tasks, Capacity <- MaxCount + Cardinality(Handlers) - 1, slots <- Held
KeepsSlots == Slots!Safety

\* No two threads are in the list at once, one of them changing it
\* (msg_handler.cpp:36, "Thread pool and mutex").
PoolNotRaced == ~Raced

\* No task is running when the enclave is destroyed (App.cpp:125, "Waiting
\* for running tasks to end...").
EnclaveOutlivesTasks == main = "gone" => \A t \in Tasks : run[t] # "running"

\* It is so when the service is closed with no request open and none comes
\* any more: main then joins every thread (listen_svr.cpp:94, App.cpp:126).
Quiet == main # "serving" => \A h \in Handlers : pc[h] = "idle"
QuietEndIsClean == []Quiet => []EnclaveOutlivesTasks

\* A request is answered: no handler waits for the lock for ever.
RequestAnswered == \A h \in Handlers : pc[h] = "guard" ~> (pc[h] = "idle" \/ Raced)

\* A slot of the pool is given back by the timer while the service is up.
SlotReturned == \A t \in Tasks : t \in pool ~> (t \notin pool \/ Stopping \/ Raced)

\* Once ENTER is pressed the process comes to its end.
ShutdownEnds == Stopping ~> (main = "gone" \/ Raced)

=============================================================================
