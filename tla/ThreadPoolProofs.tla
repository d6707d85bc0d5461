-------------------------- MODULE ThreadPoolProofs --------------------------
(***************************************************************************)
(* Proofs about ThreadPool, for every number of handlers, every limit and  *)
(* every number of tasks and requests.                                     *)
(***************************************************************************)
EXTENDS ThreadPool, FiniteSetTheorems, TLAPS

\* Every step keeps the variables in their types.
LEMMA TypeStep == TypeOK /\ [Next]_vars => TypeOK'
<1> USE CountAssumption DEF TypeOK, HandlerPcs, TimerPcs, MainPcs, Go, TimerGo, MainGo, Lock, Unlock
<1> SUFFICES ASSUME TypeOK, [Next]_vars PROVE TypeOK'
  OBVIOUS
<1>1. ASSUME NEW h \in Handlers, Arrive(h) \/ HandlerStep(h) PROVE TypeOK'
  <2>1. CASE StartTask(h)
    <3>1. \A t \in Tasks : {t} \in SUBSET Tasks
      OBVIOUS
    <3> QED  BY <2>1, <3>1 DEF StartTask
  <2>2. CASE PushTask(h)
    <3>1. hand[h] \subseteq Tasks /\ {} \in SUBSET Tasks
      OBVIOUS
    <3>2. pool' \in SUBSET Tasks
      BY <2>2, <3>1 DEF PushTask
    <3> QED  BY <2>2, <3>1, <3>2 DEF PushTask
  <2>3. CASE Arrive(h) \/ Guard(h) \/ CheckSize(h) \/ EarlyUnlock(h) \/ CheckParams(h)
             \/ Relock(h) \/ Release(h) \/ Leave(h)
    <3> USE <2>3
    <3>1. CASE Arrive(h)  BY <3>1 DEF Arrive
    <3>2. CASE CheckSize(h)  BY <3>2 DEF CheckSize
    <3>3. CASE CheckParams(h)  BY <3>3 DEF CheckParams
    <3>4. CASE Guard(h) \/ Relock(h)  BY <3>4 DEF Guard, Relock
    <3>5. CASE EarlyUnlock(h) \/ Release(h) \/ Leave(h)  BY <3>5 DEF EarlyUnlock, Release, Leave
    <3> QED  BY <3>1, <3>2, <3>3, <3>4, <3>5
  <2> QED  BY <1>1, <2>1, <2>2, <2>3 DEF HandlerStep
<1>2. ASSUME NEW t \in Tasks, Finish(t) PROVE TypeOK'
  BY <1>2 DEF Finish
<1>3. CASE TimerStep
  BY <1>3 DEF TimerStep, TimerTop, TimerNap, TimerGuard, ReleaseStoppedThreads, TimerLeave
<1>4. CASE PressEnter \/ MainStep
  BY <1>4 DEF PressEnter, MainStep, JoinTimer, MainGuard, DestroyThreadPool, MainLeave,
     CloseListener, DestroyEnclave
<1>5. CASE UNCHANGED vars
  BY <1>5 DEF vars
<1> QED  BY <1>1, <1>2, <1>3, <1>4, <1>5 DEF Next

\* Type correctness of the pool, the timer and the shutdown
\* (msg_handler.cpp:355-452, listen_svr.cpp:20-97).
THEOREM PoolTypeCorrect == Spec => []TypeOK
<1>1. Init => TypeOK
  <2> SUFFICES ASSUME Init PROVE TypeOK
    OBVIOUS
  <2>1. {} \in SUBSET Tasks
    OBVIOUS
  <2>2. hand \in [Handlers -> SUBSET Tasks]
    BY <2>1 DEF Init
  <2> QED  BY <2>1, <2>2 DEF Init, TypeOK, HandlerPcs, TimerPcs, MainPcs
<1> QED  BY <1>1, TypeStep, PTL DEF Spec

\* A handler carries a task only between its start and its push.
LEMMA HandStep == TypeOK /\ HandHoldsOne /\ [Next]_vars => HandHoldsOne'
<1> SUFFICES ASSUME TypeOK, HandHoldsOne, [Next]_vars, NEW g \in Handlers
             PROVE  \/ hand'[g] = {}
                    \/ pc'[g] \in {"relock", "push"} /\ \E t \in Tasks : hand'[g] = {t}
  BY DEF HandHoldsOne
<1> USE DEF TypeOK, HandHoldsOne, Go
<1>1. ASSUME NEW h \in Handlers, Arrive(h) \/ HandlerStep(h), h # g
      PROVE  pc'[g] = pc[g] /\ hand'[g] = hand[g]
  BY <1>1 DEF HandlerStep, Arrive, Guard, CheckSize, EarlyUnlock, CheckParams, StartTask, Relock,
     PushTask, Release, Leave
<1>2. ASSUME Arrive(g) \/ HandlerStep(g)
      PROVE  \/ hand'[g] = {}
             \/ pc'[g] \in {"relock", "push"} /\ \E t \in Tasks : hand'[g] = {t}
  BY <1>2 DEF HandlerStep, Arrive, Guard, CheckSize, EarlyUnlock, CheckParams, StartTask, Relock,
     PushTask, Release, Leave
<1>3. ASSUME UNCHANGED <<pc, hand>> PROVE pc'[g] = pc[g] /\ hand'[g] = hand[g]
  BY <1>3
<1> QED
  BY <1>1, <1>2, <1>3 DEF Next, Finish, TimerStep, TimerTop, TimerNap, TimerGuard,
     ReleaseStoppedThreads, TimerLeave, PressEnter, MainStep, JoinTimer, MainGuard,
     DestroyThreadPool, MainLeave, CloseListener, DestroyEnclave, vars

-----------------------------------------------------------------------------
(* The bound of the pool.                                                   *)

\* Finite sets the bound counts.
LEMMA Finite ==
  ASSUME TypeOK
  PROVE  /\ IsFiniteSet(pool) /\ Cardinality(pool) \in Nat
         /\ IsFiniteSet(InFlight) /\ Cardinality(InFlight) \in Nat
         /\ Cardinality(Handlers) \in Nat
         /\ Cardinality(InFlight) <= Cardinality(Handlers)
<1>1. pool \subseteq Tasks /\ InFlight \subseteq Handlers
  BY DEF TypeOK, InFlight
<1> QED  BY <1>1, HandlerAssumption, FS_Subset, FS_CardinalityType

\* Fewer tasks and no more requests in flight keep the bound.
LEMMA BoundShrinks ==
  ASSUME TypeOK, TypeOK', FlightBound, pool' \subseteq pool, InFlight' \subseteq InFlight
  PROVE  FlightBound'
<1>1. /\ Cardinality(pool) \in Nat /\ Cardinality(pool') \in Nat
      /\ Cardinality(pool') <= Cardinality(pool)
  BY Finite, FS_Subset, FS_CardinalityType
<1>2. /\ Cardinality(InFlight) \in Nat /\ Cardinality(InFlight') \in Nat
      /\ Cardinality(InFlight') <= Cardinality(InFlight)
  BY Finite, FS_Subset, FS_CardinalityType
<1> QED  BY <1>1, <1>2, Finite, CountAssumption DEF FlightBound

\* Every step keeps FlightBound: a request passes the check only below
\* MaxCount, with at most the other handlers in flight.
LEMMA BoundStep == TypeOK /\ TypeOK' /\ HandHoldsOne /\ FlightBound /\ [Next]_vars => FlightBound'
<1> SUFFICES ASSUME TypeOK, TypeOK', HandHoldsOne, FlightBound, [Next]_vars PROVE FlightBound'
  OBVIOUS
<1>1. ASSUME NEW h \in Handlers, CheckSize(h) PROVE FlightBound'
  <2>1. pool' = pool
    BY <1>1 DEF CheckSize
  <2>2. CASE Cardinality(pool) >= MaxCount
    <3>1. InFlight' \subseteq InFlight
      BY <1>1, <2>2 DEF CheckSize, Go, InFlight, TypeOK
    <3> QED  BY <2>1, <3>1, BoundShrinks
  <2>3. CASE ~(Cardinality(pool) >= MaxCount)
    <3>1. InFlight' \subseteq Handlers
      BY DEF InFlight
    <3>2. Cardinality(InFlight') \in Nat /\ Cardinality(InFlight') <= Cardinality(Handlers)
      BY <3>1, HandlerAssumption, FS_Subset, FS_CardinalityType
    <3> QED  BY <2>1, <2>3, <3>2, Finite, CountAssumption DEF FlightBound
  <2> QED  BY <2>2, <2>3
<1>2. ASSUME NEW h \in Handlers, PushTask(h) PROVE FlightBound'
  <2>1. /\ h \in InFlight /\ InFlight' = InFlight \ {h}
    BY <1>2 DEF PushTask, Go, InFlight, TypeOK
  <2>2. Cardinality(InFlight') = Cardinality(InFlight) - 1
    BY <2>1, Finite, FS_RemoveElement
  <2>3. CASE hand[h] = {}
    <3>1. pool' = pool
      BY <1>2, <2>3 DEF PushTask
    <3> QED  BY <2>1, <3>1, BoundShrinks
  <2>4. CASE hand[h] # {}
    <3>1. PICK t \in Tasks : pool' = pool \cup {t}
      BY <1>2, <2>4 DEF PushTask, HandHoldsOne
    <3>2. Cardinality(pool') \in Nat /\ Cardinality(pool') <= Cardinality(pool) + 1
      <4>1. IsFiniteSet(pool) /\ Cardinality(pool) \in Nat
        BY Finite
      <4>2. Cardinality(pool \cup {t}) = IF t \in pool THEN Cardinality(pool) ELSE Cardinality(pool) + 1
        BY <4>1, FS_AddElement
      <4> QED  BY <3>1, <4>1, <4>2
    <3> QED  BY <2>2, <3>2, Finite, CountAssumption DEF FlightBound
  <2> QED  BY <2>3, <2>4
<1>3. ASSUME NEW h \in Handlers, Arrive(h) \/ Guard(h) \/ EarlyUnlock(h) \/ CheckParams(h)
                                 \/ StartTask(h) \/ Relock(h) \/ Release(h) \/ Leave(h)
      PROVE  FlightBound'
  <2>1. pool' = pool /\ InFlight' \subseteq InFlight
    BY <1>3 DEF Arrive, Guard, EarlyUnlock, CheckParams, StartTask, Relock, Release, Leave, Go,
       InFlight, TypeOK
  <2> QED  BY <2>1, BoundShrinks
<1>4. ASSUME pool' \subseteq pool, UNCHANGED pc PROVE FlightBound'
  <2>1. InFlight' = InFlight
    BY <1>4 DEF InFlight
  <2> QED  BY <1>4, <2>1, BoundShrinks
<1> QED
  BY <1>1, <1>2, <1>3, <1>4 DEF Next, HandlerStep, Finish, TimerStep, TimerTop, TimerNap,
     TimerGuard, ReleaseStoppedThreads, TimerLeave, PressEnter, MainStep, JoinTimer, MainGuard,
     DestroyThreadPool, MainLeave, CloseListener, DestroyEnclave, vars

\* At first nothing is in the pool or in flight.
LEMMA BoundInit == Init => HandHoldsOne /\ FlightBound
<1> SUFFICES ASSUME Init PROVE HandHoldsOne /\ FlightBound
  OBVIOUS
<1>1. pool = {} /\ InFlight = {}
  BY DEF Init, InFlight
<1>2. Cardinality(pool) = 0 /\ Cardinality(InFlight) = 0 /\ Cardinality(Handlers) \in Nat
  BY <1>1, FS_EmptySet, HandlerAssumption, FS_CardinalityType
<1> QED  BY <1>2, CountAssumption DEF Init, HandHoldsOne, FlightBound

\* The pool never holds more than max_thread_task_count tasks and one for
\* each handler but one, however the handlers interleave (msg_handler.cpp:397).
THEOREM PoolIsBounded == Spec => []PoolBound
<1>1. TypeOK /\ FlightBound => PoolBound
  BY Finite, CountAssumption DEF FlightBound, PoolBound
<1> QED  BY <1>1, BoundInit, PoolTypeCorrect, HandStep, BoundStep, PTL DEF Spec

-----------------------------------------------------------------------------
(* Threads and the end of the process.                                      *)

LEMMA ThreadStep == TypeOK /\ HandHoldsOne /\ NoThreadLost /\ [Next]_vars => NoThreadLost'
<1> SUFFICES ASSUME TypeOK, HandHoldsOne, NoThreadLost, [Next]_vars,
                    NEW t \in Tasks, run'[t] = "running"
             PROVE  t \in pool' \/ \E h \in Handlers : t \in hand'[h]
  BY DEF NoThreadLost
<1> USE DEF TypeOK, HandHoldsOne, NoThreadLost, Go
<1>1. ASSUME NEW h \in Handlers, StartTask(h) PROVE t \in pool' \/ \E g \in Handlers : t \in hand'[g]
  BY <1>1 DEF StartTask
<1>2. ASSUME NEW h \in Handlers, PushTask(h) PROVE t \in pool' \/ \E g \in Handlers : t \in hand'[g]
  BY <1>2 DEF PushTask
<1>3. ASSUME UNCHANGED hand, run[t] = "running", \A s \in pool : run[s] = "running" => s \in pool'
      PROVE  t \in pool' \/ \E g \in Handlers : t \in hand'[g]
  BY <1>3
<1> QED
  BY <1>1, <1>2, <1>3 DEF Next, HandlerStep, Arrive, Guard, CheckSize, EarlyUnlock, CheckParams,
     Relock, Release, Leave, Finish, TimerStep, TimerTop, TimerNap, TimerGuard,
     ReleaseStoppedThreads, TimerLeave, PressEnter, MainStep, JoinTimer, MainGuard,
     DestroyThreadPool, MainLeave, CloseListener, DestroyEnclave, vars

LEMMA ThreadInit == Init => HandHoldsOne /\ NoThreadLost
BY DEF Init, HandHoldsOne, NoThreadLost

\* No running thread is lost: every one will be joined by the timer or by
\* the end of main, as long as these run (msg_handler.cpp:362, 437-443).
THEOREM ThreadsAccountedFor == Spec => []NoThreadLost
BY ThreadInit, ThreadStep, PoolTypeCorrect, HandStep, PTL DEF Spec

\* Main has been through the pool, and found it empty in the end.
PoolDestroyed == main \in {"leave", "close", "free", "gone"} => pool = {}

\* It stays so while no handler is at work.
LEMMA DestroyedStep == TypeOK /\ Quiet /\ PoolDestroyed /\ [Next]_vars => PoolDestroyed'
<1> SUFFICES ASSUME TypeOK, Quiet, PoolDestroyed, [Next]_vars,
                    main' \in {"leave", "close", "free", "gone"}
             PROVE  pool' = {}
  BY DEF PoolDestroyed
<1>1. ASSUME NEW h \in Handlers, HandlerStep(h) PROVE FALSE
  <2>1. UNCHANGED main /\ pc[h] # "idle"
    BY <1>1 DEF HandlerStep, Guard, CheckSize, EarlyUnlock, CheckParams, StartTask, Relock, PushTask,
       Release, Leave, Go
  <2> QED  BY <2>1 DEF Quiet
<1>2. CASE UNCHANGED pool
  <2>1. CASE UNCHANGED main
    BY <1>2, <2>1 DEF PoolDestroyed
  <2>2. CASE PressEnter \/ MainStep
    BY <1>2, <2>2 DEF PoolDestroyed, PressEnter, MainStep, JoinTimer, MainGuard, DestroyThreadPool,
       MainLeave, CloseListener, DestroyEnclave, MainGo
  <2> QED
    BY <1>1, <1>2, <2>1, <2>2 DEF Next, Arrive, Finish, TimerStep, TimerTop, TimerNap, TimerGuard,
       ReleaseStoppedThreads, TimerLeave, vars
<1>3. CASE ReleaseStoppedThreads
  BY <1>3 DEF ReleaseStoppedThreads, PoolDestroyed
<1>4. CASE DestroyThreadPool
  BY <1>4 DEF DestroyThreadPool, MainGo
<1> QED
  BY <1>1, <1>2, <1>3, <1>4 DEF Next, Arrive, Finish, TimerStep, TimerTop, TimerNap, TimerGuard,
     TimerLeave, PressEnter, MainStep, JoinTimer, MainGuard, MainLeave, CloseListener,
     DestroyEnclave, vars

\* A service that is closed with no request open, and gets none from then
\* on, joins every task thread before the enclave is destroyed, for every
\* number of handlers and tasks (listen_svr.cpp:94, App.cpp:125-133).  The
\* other case is what the runs refute.
THEOREM QuietEnd == Spec => QuietEndIsClean
<1>1. Init => PoolDestroyed
  BY DEF Init, PoolDestroyed
<1>2. HandHoldsOne /\ NoThreadLost /\ PoolDestroyed /\ Quiet => EnclaveOutlivesTasks
  BY DEF HandHoldsOne, NoThreadLost, PoolDestroyed, Quiet, EnclaveOutlivesTasks
<1> QED
  BY <1>1, <1>2, ThreadInit, ThreadStep, PoolTypeCorrect, HandStep, DestroyedStep, PTL
  DEF Spec, QuietEndIsClean
-----------------------------------------------------------------------------
(* The pool implements PoolSlots.                                           *)

\* Where hands are empty but for those of handlers in flight, fewer tasks
\* have a slot than there may be, as long as one of these has none.
LEMMA RoomForOne ==
  ASSUME TypeOK, HandHoldsOne, FlightBound, NEW h \in InFlight, hand[h] = {}
  PROVE  Cardinality(Held) < MaxCount + Cardinality(Handlers) - 1
<1> DEFINE C == {g \in Handlers : hand[g] # {}}
           T == UNION {hand[g] : g \in Handlers}
           f == [g \in C |-> CHOOSE t \in Tasks : hand[g] = {t}]
<1>1. C \subseteq InFlight \ {h}
  BY DEF HandHoldsOne, InFlight
<1>2. IsFiniteSet(InFlight \ {h}) /\ Cardinality(InFlight \ {h}) = Cardinality(InFlight) - 1
  BY Finite, FS_RemoveElement
<1>3. IsFiniteSet(C) /\ Cardinality(C) <= Cardinality(InFlight) - 1
  <2> HIDE DEF C
  <2> QED  BY <1>1, <1>2, FS_Subset
<1>4. \A g \in C : f[g] \in Tasks /\ hand[g] = {f[g]}
  BY DEF HandHoldsOne
<1>5. f \in Surjection(C, T)
  <2>1. f \in [C -> T]
    <3>1. \A g \in C : f[g] \in T
      BY <1>4
    <3> QED  BY <3>1
  <2>2. \A t \in T : \E g \in C : f[g] = t
    <3> SUFFICES ASSUME NEW t, NEW g \in Handlers, t \in hand[g] PROVE \E k \in C : f[k] = t
      OBVIOUS
    <3>1. g \in C
      OBVIOUS
    <3>2. f[g] = t
      BY <1>4, <3>1
    <3> QED  BY <3>1, <3>2
  <2> HIDE DEF C, T, f
  <2> QED  BY <2>1, <2>2 DEF Surjection
<1> HIDE DEF C, f
<1>6. IsFiniteSet(T) /\ Cardinality(T) <= Cardinality(InFlight) - 1
  <2> HIDE DEF T
  <2>1. IsFiniteSet(T) /\ Cardinality(T) <= Cardinality(C)
    BY <1>3, <1>5, FS_Surjection
  <2> QED  BY <1>3, <2>1, Finite, FS_CardinalityType
<1>7. Held = pool \cup T
  BY DEF Held
<1> HIDE DEF T
<1>8. /\ IsFiniteSet(pool) /\ Cardinality(pool) \in Nat
      /\ Cardinality(Held) = Cardinality(pool) + Cardinality(T) - Cardinality(pool \cap T)
  BY <1>6, <1>7, Finite, FS_Union
<1>9. Cardinality(T) \in Nat /\ Cardinality(pool \cap T) \in Nat
  <2>1. IsFiniteSet(pool \cap T)
    BY <1>8, FS_Subset
  <2> QED  BY <1>6, <2>1, FS_CardinalityType
<1>10. Cardinality(pool) + Cardinality(InFlight) <= MaxCount + Cardinality(Handlers) - 1
  BY DEF FlightBound
<1> QED
  BY <1>6, <1>8, <1>9, <1>10, Finite, CountAssumption

\* A step of a handler, of a task, of the timer or of main is one of the
\* slots, or none that they can tell.
LEMMA SlotsStep ==
  ASSUME TypeOK, HandHoldsOne, FlightBound, [Next]_vars
  PROVE  [Slots!Next]_(Slots!vars)
<1> USE DEF Go
<1>1. ASSUME NEW h \in Handlers, StartTask(h), UNCHANGED <<run, hand>> PROVE UNCHANGED Slots!vars
  BY <1>1 DEF StartTask, Slots!vars, Held
<1>2. ASSUME NEW h \in Handlers, StartTask(h), NEW t \in Tasks, run[t] = "none",
             run' = [run EXCEPT ![t] = "running"], hand' = [hand EXCEPT ![h] = {t}]
      PROVE  Slots!Start(t)
  <2>1. h \in InFlight /\ hand[h] = {} /\ UNCHANGED pool
    BY <1>2 DEF StartTask, InFlight, HandHoldsOne
  <2>2. hand'[h] = {t} /\ \A g \in Handlers \ {h} : hand'[g] = hand[g]
    BY <1>2 DEF TypeOK
  <2>3. Held' = Held \cup {t}
    BY <2>1, <2>2 DEF Held
  <2>4. Slots!Cardinality(Held) = Cardinality(Held)
    BY DEF Slots!Cardinality, Slots!IsFiniteSet, Cardinality, IsFiniteSet
  <2> QED  BY <1>2, <2>1, <2>3, <2>4, RoomForOne DEF Slots!Start
<1>3. ASSUME NEW h \in Handlers, PushTask(h) PROVE UNCHANGED Slots!vars
  <2>1. hand'[h] = {} /\ \A g \in Handlers \ {h} : hand'[g] = hand[g]
    BY <1>3 DEF PushTask, TypeOK
  <2>2. pool' = pool \cup hand[h] /\ UNCHANGED run
    BY <1>3 DEF PushTask
  <2>3. Held' = Held
    BY <2>1, <2>2 DEF Held
  <2> QED  BY <2>2, <2>3 DEF Slots!vars
<1>4. ASSUME NEW t \in Tasks, Finish(t) PROVE Slots!End(t)
  BY <1>4 DEF Finish, Slots!End, Held
<1>5. ASSUME pool' \subseteq pool, \A t \in pool \ pool' : run[t] = "over", UNCHANGED <<hand, run>>
      PROVE  Slots!Join
  BY <1>5 DEF Slots!Join, Held
<1>6. ASSUME UNCHANGED <<pool, hand, run>> PROVE UNCHANGED Slots!vars
  BY <1>6 DEF Slots!vars, Held
<1>7. CASE ReleaseStoppedThreads
  BY <1>5, <1>7 DEF ReleaseStoppedThreads, Slots!Next
<1>8. CASE DestroyThreadPool
  BY <1>5, <1>8 DEF DestroyThreadPool, Slots!Next
<1>9. ASSUME NEW h \in Handlers, StartTask(h) PROVE [Slots!Next]_(Slots!vars)
  BY <1>1, <1>2, <1>9 DEF StartTask, Slots!Next
<1>10. ASSUME NEW h \in Handlers,
              Arrive(h) \/ Guard(h) \/ CheckSize(h) \/ EarlyUnlock(h) \/ CheckParams(h) \/ Relock(h)
                \/ Release(h) \/ Leave(h)
       PROVE  UNCHANGED Slots!vars
  BY <1>6, <1>10 DEF Arrive, Guard, CheckSize, EarlyUnlock, CheckParams, Relock, Release, Leave
<1>11. CASE TimerTop \/ TimerNap \/ TimerGuard \/ TimerLeave \/ PressEnter \/ JoinTimer \/ MainGuard
            \/ MainLeave \/ CloseListener \/ DestroyEnclave \/ UNCHANGED vars
  BY <1>6, <1>11 DEF TimerTop, TimerNap, TimerGuard, TimerLeave, PressEnter, JoinTimer, MainGuard,
     MainLeave, CloseListener, DestroyEnclave, vars
<1>12. ASSUME NEW h \in Handlers, Arrive(h) \/ HandlerStep(h) PROVE [Slots!Next]_(Slots!vars)
  BY <1>3, <1>9, <1>10, <1>12 DEF HandlerStep
<1>13. ASSUME NEW t \in Tasks, Finish(t) PROVE [Slots!Next]_(Slots!vars)
  BY <1>4, <1>13 DEF Slots!Next
<1> QED
  BY <1>7, <1>8, <1>11, <1>12, <1>13 DEF Next, TimerStep, MainStep

\* However handlers, timer and main interleave, up to a race on the list:
\* each thread has a slot from its start until it is over, at most
\* max_thread_task_count and one less than the handlers have one at a time,
\* and nothing is joined that still runs (msg_handler.cpp:355-382, 397-443).
THEOREM PoolKeepsSlots == Spec => KeepsSlots
<1>1. Init => Slots!Init
  BY DEF Init, Slots!Init, Held
<1> QED
  BY <1>1, BoundInit, PoolTypeCorrect, HandStep, BoundStep, SlotsStep, PTL
  DEF Spec, KeepsSlots, Slots!Safety
=============================================================================
