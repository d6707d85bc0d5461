------------------------ MODULE KeyShardTaskProofs ------------------------
(***************************************************************************)
(* Proofs about KeyShardTask, for every set of tasks, every assignment of  *)
(* hashes, every fault set and every bound.                                *)
(***************************************************************************)
EXTENDS KeyShardTask, TLAPS

\* The contexts stay contexts under the three updates of more than one field.
LEMMA CreatedContext ==
  ASSUME TypeOK, NEW t \in Tasks, CheckDuplicate(t)
  PROVE  ctx' \in [Tasks -> KeyShardContext]
<1>1. "Generating" \in eKeyStatus
  BY DEF eKeyStatus
<1>2. ctx \in [Tasks -> KeyShardContext]
  BY DEF TypeOK
<1> DEFINE new == [ctx[t] EXCEPT !.heap = "live", !.status = "Generating"]
<1>3. ctx' = ctx \/ ctx' = [ctx EXCEPT ![t] = new]
  BY DEF CheckDuplicate
<1>4. new \in KeyShardContext
  BY Zenon, <1>1, <1>2 DEF KeyShardContext
<1> HIDE DEF new
<1> QED  BY <1>2, <1>3, <1>4

LEMMA MarkedContext ==
  ASSUME TypeOK, NEW t \in Tasks, SetStatus(t)
  PROVE  ctx' \in [Tasks -> KeyShardContext]
<1>1. {"Finished", "Error"} \subseteq eKeyStatus
  BY DEF eKeyStatus
<1>2. ctx \in [Tasks -> KeyShardContext] /\ SystemTime \subseteq Nat
  BY DEF TypeOK, SystemTime
<1>3. CASE HashKnown(t) /\ registry[HashOf[t]] # NoTask
  <2>1. registry[HashOf[t]] \in Tasks
    BY <1>3, HashAssumption DEF TypeOK
  <2>2. CASE webhook[t] = "delivered"
    <3>1. PICK time \in Nat :
            ctx' = [ctx EXCEPT ![registry[HashOf[t]]] =
                      [@ EXCEPT !.status = "Finished", !.finished = time, !.ended = now]]
      BY <1>2, <1>3, <2>2 DEF SetStatus
    <3> DEFINE old == ctx[registry[HashOf[t]]]
               new == [old EXCEPT !.status = "Finished", !.finished = time, !.ended = now]
    <3>2. old \in KeyShardContext /\ now \in Nat
      BY <2>1, <1>2 DEF TypeOK
    <3>3. new \in KeyShardContext
      BY Zenon, <1>1, <3>2 DEF KeyShardContext
    <3>4. ctx' = [ctx EXCEPT ![registry[HashOf[t]]] = new]
      BY <3>1
    <3> HIDE DEF new
    <3> QED  BY <1>2, <2>1, <3>3, <3>4
  <2>3. CASE webhook[t] # "delivered"
    <3>1. ctx' = [ctx EXCEPT ![registry[HashOf[t]]] = [@ EXCEPT !.status = "Error"]]
      BY <1>3, <2>3 DEF SetStatus
    <3> QED  BY <1>1, <1>2, <2>1, <3>1 DEF KeyShardContext
  <2> QED  BY <2>2, <2>3
<1>4. CASE ~(HashKnown(t) /\ registry[HashOf[t]] # NoTask)
  BY <1>2, <1>4 DEF SetStatus
<1> QED  BY <1>3, <1>4

LEMMA SweptContext ==
  ASSUME TypeOK, NEW time, ClearContext(time)
  PROVE  registry' \in [Hashes -> Tasks \cup {NoTask}] /\ ctx' \in [Tasks -> KeyShardContext]
<1>1. ASSUME NEW u \in Tasks PROVE [ctx[u] EXCEPT !.heap = "freed"] \in KeyShardContext
  BY DEF TypeOK, KeyShardContext
<1>2. ASSUME NEW u \in Tasks PROVE ctx[u] \in KeyShardContext
  BY DEF TypeOK
<1> QED  BY <1>1, <1>2 DEF ClearContext, TypeOK

\* Every step keeps the variables in their types (msg_handler.cpp:48-137,
\* Enclave.cpp:39-259).
LEMMA TypeStep == TypeOK /\ [Next]_vars => TypeOK'
<1> USE HashAssumption, TimeAssumption DEF TypeOK, KeyShardContext, Pcs, EnclavePcs,
        Returns, Answers, NoAnswer, eKeyStatus, Goto, Fail, taskVars, queryVars, heapVars
<1> SUFFICES ASSUME TypeOK, [Next]_vars PROVE TypeOK'
  OBVIOUS
<1>1. ASSUME NEW t \in Tasks, Submit(t) PROVE TypeOK'
  BY <1>1 DEF Submit
<1>2. ASSUME NEW t \in Tasks, EnterRun(t) PROVE TypeOK'
  BY SMTT(60), <1>2 DEF EnterRun, SystemTime
<1>3. ASSUME NEW t \in Tasks, Sweep(t) PROVE TypeOK'
  BY <1>3, SweptContext DEF Sweep
<1>4. ASSUME NEW t \in Tasks, CheckDuplicate(t) PROVE TypeOK'
  BY <1>4, CreatedContext DEF CheckDuplicate
<1>5. ASSUME NEW t \in Tasks, Insert(t) PROVE TypeOK'
  BY <1>5 DEF Insert
<1>6. ASSUME NEW t \in Tasks, GenerateKey(t) PROVE TypeOK'
  <2>1. ctx' \in [Tasks -> KeyShardContext]
    BY SMTT(30), <1>6 DEF GenerateKey
  <2> QED  BY SMTT(60), <1>6, <2>1 DEF GenerateKey
<1>7. ASSUME NEW t \in Tasks, ReplyString(t) PROVE TypeOK'
  <2>1. ctx' \in [Tasks -> KeyShardContext]
    BY SMTT(30), <1>7 DEF ReplyString
  <2> QED  BY SMTT(30), <1>7, <2>1 DEF ReplyString
<1>8. ASSUME NEW t \in Tasks, UseFreedContext(t) PROVE TypeOK'
  BY <1>8 DEF UseFreedContext
<1>9. ASSUME NEW t \in Tasks, CopyOut(t) PROVE TypeOK'
  BY <1>9 DEF CopyOut
<1>10. ASSUME NEW t \in Tasks, ParseResult(t) PROVE TypeOK'
  BY <1>10 DEF ParseResult
<1>11. ASSUME NEW t \in Tasks, TargetInfo(t) PROVE TypeOK'
  BY <1>11 DEF TargetInfo
<1>12. ASSUME NEW t \in Tasks, ReadMeta(t) PROVE TypeOK'
  <2>1. registry[HashOf[t]] # NoTask => ctx[registry[HashOf[t]]].meta \in Tasks \cup {NoTask}
    OBVIOUS
  <2> QED  BY <1>12, <2>1 DEF ReadMeta
<1>13. ASSUME NEW t \in Tasks, CreateReport(t) PROVE TypeOK'
  BY <1>13 DEF CreateReport
<1>14. ASSUME NEW t \in Tasks, SetReportStatus(t) PROVE TypeOK'
  <2>1. ctx' \in [Tasks -> KeyShardContext]
    BY SMTT(30), <1>14 DEF SetReportStatus
  <2> QED  BY SMTT(30), <1>14, <2>1 DEF SetReportStatus
<1>15. ASSUME NEW t \in Tasks, GetQuote(t) PROVE TypeOK'
  BY <1>15 DEF GetQuote
<1>16. ASSUME NEW t \in Tasks, Post(t) PROVE TypeOK'
  BY <1>16 DEF Post
<1>17. ASSUME NEW t \in Tasks, EnterStatus(t) PROVE TypeOK'
  BY <1>17 DEF EnterStatus
<1>18. ASSUME NEW t \in Tasks, SetStatus(t) PROVE TypeOK'
  BY <1>18, MarkedContext DEF SetStatus
<1>19. ASSUME NEW q \in Queriers, QueryEnter(q) PROVE TypeOK'
  BY <1>19 DEF QueryEnter, SystemTime
<1>20. ASSUME NEW q \in Queriers, QuerySweep(q) PROVE TypeOK'
  BY <1>20, SweptContext DEF QuerySweep
<1>21. ASSUME NEW q \in Queriers, QueryLook(q) PROVE TypeOK'
  BY <1>21 DEF QueryLook
<1>22. ASSUME NEW q \in Queriers, QueryReturn(q) PROVE TypeOK'
  BY <1>22 DEF QueryReturn
<1>23. CASE Tick
  BY <1>23 DEF Tick
<1>24. CASE UNCHANGED vars
  BY <1>24 DEF vars
<1> QED
  BY <1>1, <1>2, <1>3, <1>4, <1>5, <1>6, <1>7, <1>8, <1>9, <1>10, <1>11, <1>12, <1>13,
     <1>14, <1>15, <1>16, <1>17, <1>18, <1>19, <1>20, <1>21, <1>22, <1>23, <1>24
     DEF Next, TaskStep, QueryStep

\* Type correctness, whatever the clients submit and whatever fails.
THEOREM TypeCorrect == Spec => []TypeOK
<1>1. Init => TypeOK
  BY DEF Init, TypeOK, KeyShardContext, Pcs, EnclavePcs, Returns, Answers, NoAnswer, eKeyStatus
<1> QED
  BY <1>1, TypeStep, PTL DEF Spec

-----------------------------------------------------------------------------
(* The inductive invariant of SerialSpec, when sgx_create_report succeeds.  *)
(* Each lemma is one action; NoOverlap' is what SerialSpec assumes of it.   *)

\* Insertion: nobody else of the hash works, or its entry would be there.
LEMMA InsertPreserves ==
  ASSUME TypeOK, IInv, NoOverlap', NEW t \in Tasks, Insert(t)
  PROVE  IInv'
<1> USE HashAssumption, NullAssumption
    DEF IInv, TypeOK, KeyShardContext, Pcs, EnclavePcs, Returns, eKeyStatus, Goto, Fail,
        taskVars, queryVars, heapVars, RegistrySound, OwnsEntry, NoMemoryFault,
        FinishedMeansOver, StuckOnlyByLostCall, NoOverlap, NotCreatedYet, WindowIsFree,
        SucceededSoFar, MetaIsOwn, FailureIsError, PostedLast, Working, HashKnown,
        Final, Early, Posted
<1>1. RegistrySound'
  BY DEF Insert
<1>2. OwnsEntry'
  <2> SUFFICES ASSUME NEW u \in Tasks, Working(u)'
               PROVE  /\ registry'[HashOf[u]] = u
                      /\ ctx'[u].status \in {"Generating", "Reporting", "Callback"}
    OBVIOUS
  <2>1. CASE u = t
    BY <2>1 DEF Insert
  <2>2. CASE u # t
    <3>1. Working(u)
      BY <2>2 DEF Insert
    <3>2. registry[HashOf[u]] = u /\ HashOf[u] # HashOf[t]
      BY <3>1 DEF Insert
    <3> QED  BY <2>2, <3>1, <3>2 DEF Insert
  <2> QED  BY <2>1, <2>2
<1>3. NoMemoryFault'
  BY DEF Insert
<1>4. FinishedMeansOver'
  BY DEF Insert
<1>5. StuckOnlyByLostCall'
  BY DEF Insert
<1>6. NotCreatedYet'
  BY DEF Insert
<1>7. WindowIsFree'
  BY DEF Insert
<1>8. SucceededSoFar'
  BY DEF Insert
<1>9. MetaIsOwn'
  BY DEF Insert
<1>10. FailureIsError'
  BY DEF Insert
<1>11. PostedLast'
  BY DEF Insert
<1> QED  BY <1>1, <1>2, <1>3, <1>4, <1>5, <1>6, <1>7, <1>8, <1>9, <1>10, <1>11

\* The look-up: a task that finds its hash free enters the window with a
\* context of its own; one that finds it taken holds nothing.
LEMMA CheckDuplicatePreserves ==
  ASSUME TypeOK, IInv, NoOverlap', NEW t \in Tasks, CheckDuplicate(t)
  PROVE  IInv'
<1> USE HashAssumption, NullAssumption
    DEF IInv, TypeOK, KeyShardContext, Pcs, EnclavePcs, Returns, eKeyStatus, Goto, Fail,
        taskVars, queryVars, heapVars, RegistrySound, OwnsEntry, NoMemoryFault,
        FinishedMeansOver, StuckOnlyByLostCall, NoOverlap, NotCreatedYet, WindowIsFree,
        SucceededSoFar, MetaIsOwn, FailureIsError, PostedLast, Working, HashKnown,
        Final, Early, Posted
<1>1. RegistrySound'
  BY SMTT(90) DEF CheckDuplicate
<1>2. OwnsEntry'
  BY DEF CheckDuplicate
<1>3. NoMemoryFault'
  BY DEF CheckDuplicate
<1>4. FinishedMeansOver'
  BY DEF CheckDuplicate
<1>5. StuckOnlyByLostCall'
  BY SMTT(60) DEF CheckDuplicate
<1>6. NotCreatedYet'
  BY DEF CheckDuplicate
<1>7. WindowIsFree'
  <2> SUFFICES ASSUME NEW u \in Tasks, pc'[u] = "insert"
               PROVE  /\ registry'[HashOf[u]] = NoTask
                      /\ ctx'[u].heap = "live" /\ ctx'[u].status = "Generating"
    OBVIOUS
  <2>1. CASE u = t
    <3>1. CASE registry[HashOf[t]] = NoTask
      <4>1. ctx'[t] = [ctx[t] EXCEPT !.heap = "live", !.status = "Generating"]
        BY <2>1, <3>1 DEF CheckDuplicate
      <4> QED  BY <2>1, <3>1, <4>1 DEF CheckDuplicate
    <3>2. CASE registry[HashOf[t]] # NoTask
      BY <2>1, <3>2 DEF CheckDuplicate
    <3> QED  BY <3>1, <3>2
  <2>2. CASE u # t
    BY <2>2 DEF CheckDuplicate
  <2> QED  BY <2>1, <2>2
<1>8. SucceededSoFar'
  BY DEF CheckDuplicate
<1>9. MetaIsOwn'
  BY DEF CheckDuplicate
<1>10. FailureIsError'
  BY DEF CheckDuplicate
<1>11. PostedLast'
  BY DEF CheckDuplicate
<1> QED  BY <1>1, <1>2, <1>3, <1>4, <1>5, <1>6, <1>7, <1>8, <1>9, <1>10, <1>11

\* The entry of ecall_run: admitted or refused, the task owns nothing yet.
LEMMA EnterRunPreserves ==
  ASSUME TypeOK, IInv, NoOverlap', NEW t \in Tasks, EnterRun(t)
  PROVE  IInv'
<1> USE HashAssumption, NullAssumption
    DEF IInv, TypeOK, KeyShardContext, Pcs, EnclavePcs, Returns, eKeyStatus, Goto, Fail,
        taskVars, queryVars, heapVars, RegistrySound, OwnsEntry, NoMemoryFault,
        FinishedMeansOver, StuckOnlyByLostCall, NoOverlap, NotCreatedYet, WindowIsFree,
        SucceededSoFar, MetaIsOwn, FailureIsError, PostedLast, Working, HashKnown,
        Final, Early, Posted
<1>1. RegistrySound'
  BY DEF EnterRun
<1>2. OwnsEntry'
  BY DEF EnterRun
<1>3. NoMemoryFault'
  BY DEF EnterRun
<1>4. FinishedMeansOver'
  BY DEF EnterRun
<1>5. StuckOnlyByLostCall'
  BY DEF EnterRun
<1>6. NotCreatedYet'
  BY DEF EnterRun
<1>7. WindowIsFree'
  BY DEF EnterRun
<1>8. SucceededSoFar'
  BY DEF EnterRun
<1>9. MetaIsOwn'
  BY DEF EnterRun
<1>10. FailureIsError'
  BY DEF EnterRun
<1>11. PostedLast'
  BY DEF EnterRun
<1> QED  BY <1>1, <1>2, <1>3, <1>4, <1>5, <1>6, <1>7, <1>8, <1>9, <1>10, <1>11

\* GenerateKey writes the task's own context and no other.
LEMMA GenerateKeyPreserves ==
  ASSUME TypeOK, IInv, NoOverlap', NEW t \in Tasks, GenerateKey(t)
  PROVE  IInv'
<1> USE HashAssumption, NullAssumption
    DEF IInv, TypeOK, KeyShardContext, Pcs, EnclavePcs, Returns, eKeyStatus, Goto, Fail,
        taskVars, queryVars, heapVars, RegistrySound, OwnsEntry, NoMemoryFault,
        FinishedMeansOver, StuckOnlyByLostCall, NoOverlap, NotCreatedYet, WindowIsFree,
        SucceededSoFar, MetaIsOwn, FailureIsError, PostedLast, Working, HashKnown,
        Final, Early, Posted
<1>1. RegistrySound'
  BY SMTT(60) DEF GenerateKey
<1>2. OwnsEntry'
  BY SMTT(60) DEF GenerateKey
<1>3. NoMemoryFault'
  BY DEF GenerateKey
<1>4. FinishedMeansOver'
  BY SMTT(60) DEF GenerateKey
<1>5. StuckOnlyByLostCall'
  BY DEF GenerateKey
<1>6. NotCreatedYet'
  BY DEF GenerateKey
<1>7. WindowIsFree'
  BY DEF GenerateKey
<1>8. SucceededSoFar'
  BY DEF GenerateKey
<1>9. MetaIsOwn'
  BY DEF GenerateKey
<1>10. FailureIsError'
  BY DEF GenerateKey
<1>11. PostedLast'
  BY DEF GenerateKey
<1> QED  BY <1>1, <1>2, <1>3, <1>4, <1>5, <1>6, <1>7, <1>8, <1>9, <1>10, <1>11

\* get_reply_string writes the task's own context and no other.
LEMMA ReplyStringPreserves ==
  ASSUME TypeOK, IInv, NoOverlap', NEW t \in Tasks, ReplyString(t)
  PROVE  IInv'
<1> USE HashAssumption, NullAssumption
    DEF IInv, TypeOK, KeyShardContext, Pcs, EnclavePcs, Returns, eKeyStatus, Goto, Fail,
        taskVars, queryVars, heapVars, RegistrySound, OwnsEntry, NoMemoryFault,
        FinishedMeansOver, StuckOnlyByLostCall, NoOverlap, NotCreatedYet, WindowIsFree,
        SucceededSoFar, MetaIsOwn, FailureIsError, PostedLast, Working, HashKnown,
        Final, Early, Posted
<1>1. RegistrySound'
  BY SMTT(60) DEF ReplyString
<1>2. OwnsEntry'
  BY DEF ReplyString
<1>3. NoMemoryFault'
  BY DEF ReplyString
<1>4. FinishedMeansOver'
  BY SMTT(30) DEF ReplyString
<1>5. StuckOnlyByLostCall'
  BY DEF ReplyString
<1>6. NotCreatedYet'
  BY DEF ReplyString
<1>7. WindowIsFree'
  BY DEF ReplyString
<1>8. SucceededSoFar'
  BY DEF ReplyString
<1>9. MetaIsOwn'
  BY SMTT(30) DEF ReplyString
<1>10. FailureIsError'
  BY SMTT(60) DEF ReplyString
<1>11. PostedLast'
  BY DEF ReplyString
<1> QED  BY <1>1, <1>2, <1>3, <1>4, <1>5, <1>6, <1>7, <1>8, <1>9, <1>10, <1>11

\* The second critical section of ecall_create_report: the entry it finds
\* is the task's own.
LEMMA SetReportStatusPreserves ==
  ASSUME TypeOK, IInv, NoOverlap', NEW t \in Tasks, SetReportStatus(t)
  PROVE  IInv'
<1> USE HashAssumption, NullAssumption
    DEF IInv, TypeOK, KeyShardContext, Pcs, EnclavePcs, Returns, eKeyStatus, Goto, Fail,
        taskVars, queryVars, heapVars, RegistrySound, OwnsEntry, NoMemoryFault,
        FinishedMeansOver, StuckOnlyByLostCall, NoOverlap, NotCreatedYet, WindowIsFree,
        SucceededSoFar, MetaIsOwn, FailureIsError, PostedLast, Working, HashKnown,
        Final, Early, Posted
<1>1. RegistrySound'
  BY SMTT(60) DEF SetReportStatus
<1>2. OwnsEntry'
  BY SMTT(90) DEF SetReportStatus
<1>3. NoMemoryFault'
  BY DEF SetReportStatus
<1>4. FinishedMeansOver'
  BY DEF SetReportStatus
<1>5. StuckOnlyByLostCall'
  BY DEF SetReportStatus
<1>6. NotCreatedYet'
  BY DEF SetReportStatus
<1>7. WindowIsFree'
  BY SMTT(60) DEF SetReportStatus
<1>8. SucceededSoFar'
  BY DEF SetReportStatus
<1>9. MetaIsOwn'
  BY SMTT(30) DEF SetReportStatus
<1>10. FailureIsError'
  BY DEF SetReportStatus
<1>11. PostedLast'
  BY DEF SetReportStatus
<1> QED  BY <1>1, <1>2, <1>3, <1>4, <1>5, <1>6, <1>7, <1>8, <1>9, <1>10, <1>11


\* What a sweep does, said entry by entry: an entry is kept or removed, kept
\* if it is not expired, and only the contexts of removed entries change.
LEMMA SweepEffect ==
  ASSUME TypeOK, RegistrySound, NEW time \in Int, ClearContext(time)
  PROVE  /\ \A h \in Hashes : registry'[h] \in {registry[h], NoTask}
         /\ \A h \in Hashes : registry[h] # NoTask /\ ~Expired(ctx[registry[h]], time) =>
              registry'[h] = registry[h]
         /\ \A u \in Tasks : /\ ctx'[u].status = ctx[u].status
                             /\ ctx'[u].meta = ctx[u].meta
                             /\ ctx'[u].heap # ctx[u].heap => ctx[u].heap = "live"
                             /\ ctx'[u].heap # ctx[u].heap => registry[HashOf[u]] = u
                             /\ registry'[HashOf[u]] = u => ctx'[u].heap = ctx[u].heap
<1> DEFINE gone == {h \in Hashes : registry[h] # NoTask /\ Expired(ctx[registry[h]], time)}
<1>1. /\ registry' = [h \in Hashes |-> IF h \in gone THEN NoTask ELSE registry[h]]
      /\ ctx' = [u \in Tasks |-> IF \E h \in gone : registry[h] = u
                                   THEN [ctx[u] EXCEPT !.heap = "freed"] ELSE ctx[u]]
  BY DEF ClearContext
<1>2. \A h \in gone : h \in Hashes /\ registry[h] # NoTask /\ Expired(ctx[registry[h]], time)
  OBVIOUS
<1>3. \A h \in Hashes : registry[h] # NoTask /\ ~Expired(ctx[registry[h]], time) => h \notin gone
  OBVIOUS
<1> HIDE DEF gone
<1>4. ASSUME NEW u \in Tasks
      PROVE  /\ ctx'[u].status = ctx[u].status
             /\ ctx'[u].meta = ctx[u].meta
             /\ ctx'[u].heap # ctx[u].heap => ctx[u].heap = "live"
             /\ ctx'[u].heap # ctx[u].heap => registry[HashOf[u]] = u
             /\ registry'[HashOf[u]] = u => ctx'[u].heap = ctx[u].heap
  <2>1. CASE \E h \in gone : registry[h] = u
    <3>1. PICK h \in gone : registry[h] = u
      BY <2>1
    <3>2. HashOf[u] = h /\ ctx[u].heap = "live" /\ h \in Hashes
      BY <1>2, <3>1 DEF RegistrySound
    <3>3. ctx'[u] = [ctx[u] EXCEPT !.heap = "freed"]
      BY <1>1, <2>1
    <3>4. registry'[HashOf[u]] = NoTask
      BY <1>1, <3>1, <3>2
    <3> QED
      BY <3>1, <3>2, <3>3, <3>4, NullAssumption DEF TypeOK, KeyShardContext
  <2>2. CASE ~(\E h \in gone : registry[h] = u)
    BY <1>1, <2>2
  <2> QED  BY <2>1, <2>2
<1> QED  BY <1>1, <1>2, <1>3, <1>4

\* A sweep takes nothing away from a task that works or is in the window.
LEMMA SweepPreserves ==
  ASSUME TypeOK, IInv, NoOverlap', NEW time \in Int, ClearContext(time),
         NEW p, pc' = pc \/ (p \in Tasks /\ Goto(p, "sweep", "check")),
         UNCHANGED <<ret, seen, webhook, halted>>
  PROVE  IInv'
<1>1. /\ \A h \in Hashes : registry'[h] \in {registry[h], NoTask}
      /\ \A h \in Hashes : registry[h] # NoTask /\ ~Expired(ctx[registry[h]], time) =>
           registry'[h] = registry[h]
      /\ \A u \in Tasks : /\ ctx'[u].status = ctx[u].status
                          /\ ctx'[u].meta = ctx[u].meta
                          /\ ctx'[u].heap # ctx[u].heap => ctx[u].heap = "live"
                          /\ ctx'[u].heap # ctx[u].heap => registry[HashOf[u]] = u
                          /\ registry'[HashOf[u]] = u => ctx'[u].heap = ctx[u].heap
  BY SweepEffect DEF IInv
<1>2. \A u \in Tasks : HashOf[u] \in Hashes
  BY HashAssumption
<1>3. \A h \in Hashes : registry[h] \in Tasks \cup {NoTask}
  BY DEF TypeOK
<1>4. \A u \in Tasks : \/ pc'[u] = pc[u]
                       \/ pc[u] = "sweep" /\ pc'[u] = "check"
  BY DEF TypeOK, Goto
<1>5. \A c : c.status \in {"Generating", "Reporting", "Callback"} => ~Expired(c, time)
  BY DEF Expired
<1> USE NullAssumption
    DEF IInv, Pcs, EnclavePcs, Goto, RegistrySound, OwnsEntry, NoMemoryFault,
        FinishedMeansOver, StuckOnlyByLostCall, NotCreatedYet, WindowIsFree,
        SucceededSoFar, MetaIsOwn, FailureIsError, PostedLast, Working, HashKnown,
        Final, Early, Posted
<1>6. RegistrySound'
  BY <1>1, <1>2, <1>3, <1>4, <1>5
<1>7. OwnsEntry'
  BY <1>1, <1>2, <1>3, <1>4, <1>5
<1>8. NoMemoryFault'
  BY <1>1, <1>2, <1>3, <1>4, <1>5
<1>9. FinishedMeansOver'
  BY <1>1, <1>2, <1>3, <1>4, <1>5
<1>10. StuckOnlyByLostCall'
  BY <1>1, <1>2, <1>3, <1>4, <1>5
<1>11. NotCreatedYet'
  BY <1>1, <1>2, <1>3, <1>4, <1>5
<1>12. WindowIsFree'
  BY <1>1, <1>2, <1>3, <1>4, <1>5
<1>13. SucceededSoFar'
  BY <1>1, <1>2, <1>3, <1>4, <1>5
<1>14. MetaIsOwn'
  BY <1>1, <1>2, <1>3, <1>4, <1>5
<1>15. FailureIsError'
  BY <1>1, <1>2, <1>3, <1>4, <1>5
<1>16. PostedLast'
  BY <1>1, <1>2, <1>3, <1>4, <1>5
<1> QED  BY <1>6, <1>7, <1>8, <1>9, <1>10, <1>11, <1>12, <1>13, <1>14, <1>15, <1>16

\* The last ECALL of a task marks the task's own context, or none.
LEMMA SetStatusPreserves ==
  ASSUME TypeOK, IInv, NoOverlap', NEW t \in Tasks, SetStatus(t)
  PROVE  IInv'
<1>1. /\ pc[t] = "setstatus" /\ pc' = [pc EXCEPT ![t] = "done"]
      /\ UNCHANGED <<ret, seen, webhook, registry, halted>>
  BY DEF SetStatus, Goto
<1>2. CASE ~HashKnown(t)
  <2>1. ctx' = ctx
    BY <1>2 DEF SetStatus
  <2>2. ret[t] \in {"rejected", "exists", "tcs", "failed", "empty", "malloc"}
    BY <1>2 DEF TypeOK, Returns, HashKnown
  <2> USE <1>1, <1>2, <2>1, <2>2, HashAssumption, NullAssumption
      DEF TypeOK, KeyShardContext, IInv, Pcs, EnclavePcs, Goto, RegistrySound, OwnsEntry, NoMemoryFault,
        FinishedMeansOver, StuckOnlyByLostCall, NotCreatedYet, WindowIsFree,
        SucceededSoFar, MetaIsOwn, FailureIsError, PostedLast, Working, HashKnown,
        Final, Early, Posted
  <2>3. RegistrySound'
    OBVIOUS
  <2>4. OwnsEntry'
    OBVIOUS
  <2>5. NoMemoryFault'
    OBVIOUS
  <2>6. FinishedMeansOver'
    OBVIOUS
  <2>7. StuckOnlyByLostCall'
    OBVIOUS
  <2>8. NotCreatedYet'
    OBVIOUS
  <2>9. WindowIsFree'
    OBVIOUS
  <2>10. SucceededSoFar'
    OBVIOUS
  <2>11. MetaIsOwn'
    OBVIOUS
  <2>12. FailureIsError'
    OBVIOUS
  <2>13. PostedLast'
    OBVIOUS
  <2> QED  BY <2>3, <2>4, <2>5, <2>6, <2>7, <2>8, <2>9, <2>10, <2>11, <2>12, <2>13
<1>3. CASE HashKnown(t)
  <2>1. Working(t) /\ registry[HashOf[t]] = t /\ ctx[t] \in KeyShardContext
    BY <1>1, <1>3, HashAssumption DEF Working, IInv, OwnsEntry, Final, Pcs, EnclavePcs, TypeOK
  <2>2. /\ \A u \in Tasks \ {t} : ctx'[u] = ctx[u]
        /\ ctx'[t].heap = ctx[t].heap /\ ctx'[t].meta = ctx[t].meta
        /\ ctx'[t].status \in {"Finished", "Error"}
    <3>1. CASE webhook[t] = "delivered"
      <4>1. PICK time \in SystemTime :
              ctx' = [ctx EXCEPT ![t] = [@ EXCEPT !.status = "Finished", !.finished = time, !.ended = now]]
        BY <1>3, <2>1, <3>1, NullAssumption DEF SetStatus
      <4> QED  BY <2>1, <4>1 DEF KeyShardContext, TypeOK
    <3>2. CASE webhook[t] # "delivered"
      <4>1. ctx' = [ctx EXCEPT ![t] = [@ EXCEPT !.status = "Error"]]
        BY <1>3, <2>1, <3>2, NullAssumption DEF SetStatus
      <4> QED  BY <2>1, <4>1 DEF KeyShardContext, TypeOK
    <3> QED  BY <3>1, <3>2
  <2>3. registry \in [Hashes -> Tasks \cup {NoTask}] /\ pc \in [Tasks -> Pcs]
    BY DEF TypeOK
  <2> USE <1>1, <1>3, <2>1, <2>2, <2>3, HashAssumption, NullAssumption
      DEF IInv, Pcs, EnclavePcs, Goto, RegistrySound, OwnsEntry, NoMemoryFault,
        FinishedMeansOver, StuckOnlyByLostCall, NotCreatedYet, WindowIsFree,
        SucceededSoFar, MetaIsOwn, FailureIsError, PostedLast, Working, HashKnown,
        Final, Early, Posted
  <2>4. RegistrySound'
    OBVIOUS
  <2>5. OwnsEntry'
    OBVIOUS
  <2>6. NoMemoryFault'
    OBVIOUS
  <2>7. FinishedMeansOver'
    OBVIOUS
  <2>8. StuckOnlyByLostCall'
    OBVIOUS
  <2>9. NotCreatedYet'
    OBVIOUS
  <2>10. WindowIsFree'
    OBVIOUS
  <2>11. SucceededSoFar'
    OBVIOUS
  <2>12. MetaIsOwn'
    OBVIOUS
  <2>13. FailureIsError'
    OBVIOUS
  <2>14. PostedLast'
    OBVIOUS
  <2> QED  BY <2>4, <2>5, <2>6, <2>7, <2>8, <2>9, <2>10, <2>11, <2>12, <2>13, <2>14
<1> QED  BY <1>2, <1>3

\* The end of ecall_run: a task that failed no longer claims its entry.
LEMMA CopyOutPreserves ==
  ASSUME TypeOK, IInv, NoOverlap', NEW t \in Tasks, CopyOut(t)
  PROVE  IInv'
<1> USE HashAssumption, NullAssumption
    DEF IInv, TypeOK, KeyShardContext, Pcs, EnclavePcs, Returns, eKeyStatus, Goto, Fail,
        taskVars, queryVars, heapVars, RegistrySound, OwnsEntry, NoMemoryFault,
        FinishedMeansOver, StuckOnlyByLostCall, NoOverlap, NotCreatedYet, WindowIsFree,
        SucceededSoFar, MetaIsOwn, FailureIsError, PostedLast, Working, HashKnown,
        Final, Early, Posted
<1>1. RegistrySound'
  BY DEF CopyOut
<1>2. OwnsEntry'
  BY DEF CopyOut
<1>3. NoMemoryFault'
  BY DEF CopyOut
<1>4. FinishedMeansOver'
  BY DEF CopyOut
<1>5. StuckOnlyByLostCall'
  BY DEF CopyOut
<1>6. NotCreatedYet'
  BY DEF CopyOut
<1>7. WindowIsFree'
  BY DEF CopyOut
<1>8. SucceededSoFar'
  BY DEF CopyOut
<1>9. MetaIsOwn'
  BY DEF CopyOut
<1>10. FailureIsError'
  BY DEF CopyOut
<1>11. PostedLast'
  BY DEF CopyOut
<1> QED  BY <1>1, <1>2, <1>3, <1>4, <1>5, <1>6, <1>7, <1>8, <1>9, <1>10, <1>11

\* The quote: its failure changes the return code and no entry.
LEMMA GetQuotePreserves ==
  ASSUME TypeOK, IInv, NoOverlap', NEW t \in Tasks, GetQuote(t)
  PROVE  IInv'
<1> USE HashAssumption, NullAssumption
    DEF IInv, TypeOK, KeyShardContext, Pcs, EnclavePcs, Returns, eKeyStatus, Goto, Fail,
        taskVars, queryVars, heapVars, RegistrySound, OwnsEntry, NoMemoryFault,
        FinishedMeansOver, StuckOnlyByLostCall, NoOverlap, NotCreatedYet, WindowIsFree,
        SucceededSoFar, MetaIsOwn, FailureIsError, PostedLast, Working, HashKnown,
        Final, Early, Posted
<1>1. RegistrySound'
  BY DEF GetQuote
<1>2. OwnsEntry'
  BY DEF GetQuote
<1>3. NoMemoryFault'
  BY DEF GetQuote
<1>4. FinishedMeansOver'
  BY DEF GetQuote
<1>5. StuckOnlyByLostCall'
  BY DEF GetQuote
<1>6. NotCreatedYet'
  BY DEF GetQuote
<1>7. WindowIsFree'
  BY DEF GetQuote
<1>8. SucceededSoFar'
  BY DEF GetQuote
<1>9. MetaIsOwn'
  BY DEF GetQuote
<1>10. FailureIsError'
  BY DEF GetQuote
<1>11. PostedLast'
  BY DEF GetQuote
<1> QED  BY <1>1, <1>2, <1>3, <1>4, <1>5, <1>6, <1>7, <1>8, <1>9, <1>10, <1>11

\* The steps that touch neither the list nor a context.  A thread that would
\* use a deleted context, or miss its entry, is not in such a state.
LEMMA QuietPreserves ==
  ASSUME TypeOK, IInv, NoOverlap', "report" \notin Faults, NEW t \in Tasks,
         \/ Submit(t) \/ ParseResult(t) \/ TargetInfo(t) \/ ReadMeta(t)
         \/ CreateReport(t) \/ Post(t) \/ EnterStatus(t) \/ UseFreedContext(t)
  PROVE  IInv'
<1> USE HashAssumption, NullAssumption
    DEF IInv, TypeOK, KeyShardContext, Pcs, EnclavePcs, Returns, eKeyStatus, Goto, Fail,
        taskVars, queryVars, heapVars, RegistrySound, OwnsEntry, NoMemoryFault,
        FinishedMeansOver, StuckOnlyByLostCall, NoOverlap, NotCreatedYet, WindowIsFree,
        SucceededSoFar, MetaIsOwn, FailureIsError, PostedLast, Working, HashKnown,
        Final, Early, Posted
<1>1. CASE Submit(t)
  BY SMTT(60), <1>1 DEF Submit
<1>2. CASE ParseResult(t)
  <2>1. RegistrySound'
    BY SMTT(30), <1>2 DEF ParseResult
  <2>2. OwnsEntry'
    BY SMTT(30), <1>2 DEF ParseResult
  <2>3. NoMemoryFault'
    BY SMTT(30), <1>2 DEF ParseResult
  <2>4. FinishedMeansOver'
    BY SMTT(30), <1>2 DEF ParseResult
  <2>5. StuckOnlyByLostCall'
    BY SMTT(30), <1>2 DEF ParseResult
  <2>6. NotCreatedYet'
    BY SMTT(30), <1>2 DEF ParseResult
  <2>7. WindowIsFree'
    BY SMTT(30), <1>2 DEF ParseResult
  <2>8. SucceededSoFar'
    BY SMTT(30), <1>2 DEF ParseResult
  <2>9. MetaIsOwn'
    BY SMTT(30), <1>2 DEF ParseResult
  <2>10. FailureIsError'
    BY SMTT(30), <1>2 DEF ParseResult
  <2>11. PostedLast'
    BY SMTT(30), <1>2 DEF ParseResult
  <2> QED  BY <2>1, <2>2, <2>3, <2>4, <2>5, <2>6, <2>7, <2>8, <2>9, <2>10, <2>11
<1>3. CASE TargetInfo(t)
  <2>1. RegistrySound'
    BY SMTT(30), <1>3 DEF TargetInfo
  <2>2. OwnsEntry'
    BY SMTT(30), <1>3 DEF TargetInfo
  <2>3. NoMemoryFault'
    BY SMTT(30), <1>3 DEF TargetInfo
  <2>4. FinishedMeansOver'
    BY SMTT(30), <1>3 DEF TargetInfo
  <2>5. StuckOnlyByLostCall'
    BY SMTT(30), <1>3 DEF TargetInfo
  <2>6. NotCreatedYet'
    BY SMTT(30), <1>3 DEF TargetInfo
  <2>7. WindowIsFree'
    BY SMTT(30), <1>3 DEF TargetInfo
  <2>8. SucceededSoFar'
    BY SMTT(30), <1>3 DEF TargetInfo
  <2>9. MetaIsOwn'
    BY SMTT(30), <1>3 DEF TargetInfo
  <2>10. FailureIsError'
    BY SMTT(30), <1>3 DEF TargetInfo
  <2>11. PostedLast'
    BY SMTT(30), <1>3 DEF TargetInfo
  <2> QED  BY <2>1, <2>2, <2>3, <2>4, <2>5, <2>6, <2>7, <2>8, <2>9, <2>10, <2>11
<1>4. CASE ReadMeta(t)
  <2>1. RegistrySound'
    BY SMTT(30), <1>4 DEF ReadMeta
  <2>2. OwnsEntry'
    BY SMTT(30), <1>4 DEF ReadMeta
  <2>3. NoMemoryFault'
    BY SMTT(30), <1>4 DEF ReadMeta
  <2>4. FinishedMeansOver'
    BY SMTT(30), <1>4 DEF ReadMeta
  <2>5. StuckOnlyByLostCall'
    BY SMTT(30), <1>4 DEF ReadMeta
  <2>6. NotCreatedYet'
    BY SMTT(30), <1>4 DEF ReadMeta
  <2>7. WindowIsFree'
    BY SMTT(30), <1>4 DEF ReadMeta
  <2>8. SucceededSoFar'
    BY SMTT(30), <1>4 DEF ReadMeta
  <2>9. MetaIsOwn'
    BY SMTT(30), <1>4 DEF ReadMeta
  <2>10. FailureIsError'
    BY SMTT(30), <1>4 DEF ReadMeta
  <2>11. PostedLast'
    BY SMTT(30), <1>4 DEF ReadMeta
  <2> QED  BY <2>1, <2>2, <2>3, <2>4, <2>5, <2>6, <2>7, <2>8, <2>9, <2>10, <2>11
<1>5. CASE CreateReport(t)
  BY SMTT(30), <1>5 DEF CreateReport
<1>6. CASE Post(t)
  BY SMTT(30), <1>6 DEF Post
<1>7. CASE EnterStatus(t)
  BY SMTT(30), <1>7 DEF EnterStatus
<1>8. CASE UseFreedContext(t)
  BY SMTT(30), <1>8 DEF UseFreedContext
<1> QED  BY <1>1, <1>2, <1>3, <1>4, <1>5, <1>6, <1>7, <1>8

\* Every step of SerialSpec keeps IInv (Enclave.cpp, GenerateTask.cpp).
LEMMA InvariantStep ==
  ASSUME TypeOK, IInv, [Next /\ NoOverlap']_vars, "report" \notin Faults
  PROVE  IInv'
<1>1. CASE UNCHANGED vars
  BY <1>1 DEF vars, IInv, RegistrySound, OwnsEntry, NoMemoryFault, FinishedMeansOver,
     StuckOnlyByLostCall, NoOverlap, NotCreatedYet, WindowIsFree, SucceededSoFar,
     MetaIsOwn, FailureIsError, PostedLast, Working, HashKnown
<1>2. CASE Next /\ NoOverlap'
  <2>1. ASSUME NEW t \in Tasks, Submit(t) \/ TaskStep(t) PROVE IInv'
    <3>1. CASE Sweep(t)
      <4>1. asOf[t] \in Int
        BY DEF TypeOK
      <4> QED  BY <1>2, <3>1, <4>1, SweepPreserves DEF Sweep
    <3> QED
      BY <1>2, <2>1, <3>1, InsertPreserves, CheckDuplicatePreserves, EnterRunPreserves,
         GenerateKeyPreserves, ReplyStringPreserves, SetReportStatusPreserves,
         SetStatusPreserves, CopyOutPreserves, GetQuotePreserves, QuietPreserves DEF TaskStep
  <2>2. ASSUME NEW q \in Queriers, QuerySweep(q) PROVE IInv'
    <3>1. asOf[q] \in Int
      BY DEF TypeOK
    <3> QED  BY <1>2, <2>2, <3>1, SweepPreserves DEF QuerySweep, taskVars
  <2>3. ASSUME UNCHANGED <<taskVars, heapVars, halted>> PROVE IInv'
    BY <2>3 DEF taskVars, heapVars, IInv, RegistrySound, OwnsEntry, NoMemoryFault,
       FinishedMeansOver, StuckOnlyByLostCall, NoOverlap, NotCreatedYet, WindowIsFree,
       SucceededSoFar, MetaIsOwn, FailureIsError, PostedLast, Working, HashKnown
  <2>4. ASSUME NEW q \in Queriers, QueryStep(q) PROVE IInv'
    BY <2>2, <2>3, <2>4 DEF QueryStep, QueryEnter, QueryLook, QueryReturn
  <2>5. CASE Tick
    BY <2>3, <2>5 DEF Tick
  <2> QED  BY <1>2, <2>1, <2>4, <2>5 DEF Next
<1> QED  BY <1>1, <1>2

\* IInv holds of SerialSpec: the base of its safety theorems, and what ties
\* the registry, the contexts and the places of the tasks together.
THEOREM SerialInvariant ==
  ASSUME "report" \notin Faults
  PROVE  SerialSpec => [](TypeOK /\ IInv)
<1>1. Init => TypeOK
  BY DEF Init, TypeOK, KeyShardContext, Pcs, EnclavePcs, Returns, Answers, NoAnswer, eKeyStatus
<1>2. Init => IInv
  BY NullAssumption, HashAssumption DEF Init, IInv, RegistrySound, OwnsEntry, NoMemoryFault,
     FinishedMeansOver, StuckOnlyByLostCall, NoOverlap, NotCreatedYet, WindowIsFree,
     SucceededSoFar, MetaIsOwn, FailureIsError, PostedLast, Working, HashKnown, Posted,
     Final, Early
<1>3. TypeOK /\ IInv /\ [Next /\ NoOverlap']_vars => TypeOK' /\ IInv'
  BY TypeStep, InvariantStep
<1> QED  BY <1>1, <1>2, <1>3, PTL DEF SerialSpec

-----------------------------------------------------------------------------
(* The safety properties of SerialSpec.                                     *)

\* Two tasks of a hash that generate would both own its entry.
LEMMA Exclusive == TypeOK /\ IInv => OneGeneration
BY NullAssumption DEF IInv, TypeOK, Pcs, EnclavePcs, Final, OneGeneration, Generating,
   OwnsEntry, Working, HashKnown, WindowIsFree, NoOverlap

\* No two tasks of one key list generate, certify or post at the same time
\* (README.md, "duplicate generation requests ... will be rejected").
THEOREM GenerationExclusive ==
  ASSUME "report" \notin Faults
  PROVE  SerialSpec => []OneGeneration
<1> QED  BY Exclusive, SerialInvariant, PTL

\* The entry of a task that works is its own and does not expire under it.
THEOREM EntryOwned ==
  ASSUME "report" \notin Faults
  PROVE  SerialSpec => []OwnsEntry
<1>1. IInv => OwnsEntry
  BY DEF IInv
<1> QED  BY <1>1, SerialInvariant, PTL

\* No deleted context is written and at() never throws in the enclave.
THEOREM MemorySafe ==
  ASSUME "report" \notin Faults
  PROVE  SerialSpec => []NoMemoryFault
<1>1. IInv => NoMemoryFault
  BY DEF IInv
<1> QED  BY <1>1, SerialInvariant, PTL

\* The report that leaves with key shards is over the key meta of these.
THEOREM ReportBound ==
  ASSUME "report" \notin Faults
  PROVE  SerialSpec => []ReportBindsOwnMeta
<1>1. TypeOK /\ IInv => ReportBindsOwnMeta
  BY DEF IInv, TypeOK, ReportBindsOwnMeta, MetaIsOwn, PostedLast, Posted
<1> QED  BY <1>1, SerialInvariant, PTL

\* A context expires only after its task.
THEOREM EntryEnds ==
  ASSUME "report" \notin Faults
  PROVE  SerialSpec => []FinishedMeansOver
<1>1. IInv => FinishedMeansOver
  BY DEF IInv
<1> QED  BY <1>1, SerialInvariant, PTL

\* A task that is over blocks its hash for ever only through a call that was
\* lost (msg_handler.cpp:82-88, 119).
THEOREM EntryStuckOnlyByLoss ==
  ASSUME "report" \notin Faults
  PROVE  SerialSpec => []StuckOnlyByLostCall
<1>1. IInv => StuckOnlyByLostCall
  BY DEF IInv
<1> QED  BY <1>1, SerialInvariant, PTL

-----------------------------------------------------------------------------
(* What holds of Spec, where tasks of one hash race and anything may fail.  *)

\* An entry removed by a sweep had expired by the time the sweep had read.
LEMMA SweptExpired ==
  ASSUME NEW time, ClearContext(time),
         NEW h \in Hashes, registry[h] # NoTask, registry'[h] = NoTask
  PROVE  Expired(ctx[registry[h]], time)
BY DEF ClearContext

\* What SetStatus does to the contexts, whoever owns the entry by then.
LEMMA SetStatusEffect ==
  ASSUME TypeOK, NEW t \in Tasks, SetStatus(t)
  PROVE  \A u \in Tasks :
           /\ ctx'[u].heap = ctx[u].heap
           /\ u # registry[HashOf[t]] => ctx'[u] = ctx[u]
           /\ ctx'[u].status = "Finished" /\ ctx'[u] # ctx[u] => webhook[t] = "delivered"
<1>1. CASE HashKnown(t) /\ registry[HashOf[t]] # NoTask
  <2>1. registry[HashOf[t]] \in Tasks /\ ctx[registry[HashOf[t]]] \in KeyShardContext
    BY <1>1, HashAssumption DEF TypeOK
  <2>2. CASE webhook[t] = "delivered"
    <3>1. PICK time \in SystemTime :
            ctx' = [ctx EXCEPT ![registry[HashOf[t]]] =
                      [@ EXCEPT !.status = "Finished", !.finished = time, !.ended = now]]
      BY <1>1, <2>2 DEF SetStatus
    <3> QED  BY <2>1, <2>2, <3>1 DEF KeyShardContext, TypeOK
  <2>3. CASE webhook[t] # "delivered"
    <3>1. ctx' = [ctx EXCEPT ![registry[HashOf[t]]] = [@ EXCEPT !.status = "Error"]]
      BY <1>1, <2>3 DEF SetStatus
    <3> QED  BY <2>1, <3>1 DEF KeyShardContext, TypeOK
  <2> QED  BY <2>2, <2>3
<1>2. CASE ~(HashKnown(t) /\ registry[HashOf[t]] # NoTask)
  BY <1>2 DEF SetStatus
<1> QED  BY <1>1, <1>2

\* The last ECALL, on whatever entry the hash has by then.
LEMMA SetStatusRace ==
  ASSUME TypeOK, RaceInv, NEW t \in Tasks, SetStatus(t)
  PROVE  RaceInv'
<1>1. \A u \in Tasks :
        /\ ctx'[u].heap = ctx[u].heap
        /\ u # registry[HashOf[t]] => ctx'[u] = ctx[u]
        /\ ctx'[u].status = "Finished" /\ ctx'[u] # ctx[u] => webhook[t] = "delivered"
  BY SetStatusEffect
<1>2. /\ pc[t] = "setstatus" /\ pc' = [pc EXCEPT ![t] = "done"]
      /\ UNCHANGED <<ret, seen, webhook, asOf, registry, now, halted, queryVars>>
  BY DEF SetStatus, Goto
<1>3. registry \in [Hashes -> Tasks \cup {NoTask}] /\ pc \in [Tasks -> Pcs]
  BY DEF TypeOK
<1> USE <1>1, <1>2, <1>3, HashAssumption, NullAssumption
    DEF RaceInv, RegistrySound, FinishedMeansPosted, WindowIsOwn, FinishedEntryPosted,
        PostedLast, SweepTimePast, queryVars,
        Posted, Final
<1>4. RegistrySound'
  OBVIOUS
<1>5. FinishedMeansPosted'
  OBVIOUS
<1>6. WindowIsOwn'
  OBVIOUS
<1>7. FinishedEntryPosted'
  OBVIOUS
<1>8. PostedLast'
  OBVIOUS
<1>9. SweepTimePast'
  OBVIOUS
<1> QED  BY <1>4, <1>5, <1>6, <1>7, <1>8, <1>9

\* A sweep deletes a context with its entry, and none in the window.
LEMMA SweepRace ==
  ASSUME TypeOK, RaceInv, NEW r \in Tasks \cup Queriers, ClearContext(asOf[r]),
         asOf' = [asOf EXCEPT ![r] = 0],
         NEW p, pc' = pc \/ (p \in Tasks /\ Goto(p, "sweep", "check")),
         UNCHANGED <<webhook, answer, now>>
  PROVE  RaceInv'
<1>1. asOf[r] \in Int
  BY DEF TypeOK
<1>2. /\ \A h \in Hashes : registry'[h] \in {registry[h], NoTask}
      /\ \A u \in Tasks : /\ ctx'[u].status = ctx[u].status
                          /\ ctx'[u].heap # ctx[u].heap => ctx[u].heap = "live"
                          /\ ctx'[u].heap # ctx[u].heap => registry[HashOf[u]] = u
                          /\ registry'[HashOf[u]] = u => ctx'[u].heap = ctx[u].heap
  BY <1>1, SweepEffect DEF RaceInv
<1>3. \A u \in Tasks : \/ pc'[u] = pc[u]
                       \/ pc[u] = "sweep" /\ pc'[u] = "check"
  BY DEF TypeOK, Goto
<1>4. /\ \A u \in Tasks : HashOf[u] \in Hashes
      /\ \A h \in Hashes : registry[h] \in Tasks \cup {NoTask}
      /\ now \in Nat /\ asOf \in [Tasks \cup Queriers -> Nat]
  BY HashAssumption DEF TypeOK
<1> USE NullAssumption
    DEF RaceInv, RegistrySound, FinishedMeansPosted, WindowIsOwn, FinishedEntryPosted,
        PostedLast, SweepTimePast, Posted, Final
<1>5. RegistrySound'
  BY <1>2, <1>3, <1>4
<1>6. FinishedMeansPosted'
  BY <1>2, <1>3, <1>4
<1>7. WindowIsOwn'
  BY <1>2, <1>3, <1>4
<1>8. FinishedEntryPosted'
  BY <1>2, <1>3, <1>4
<1>9. PostedLast'
  BY <1>2, <1>3, <1>4
<1>10. SweepTimePast'
  BY <1>2, <1>3, <1>4
<1> QED  BY <1>5, <1>6, <1>7, <1>8, <1>9, <1>10

\* A task that goes on from the look-up found its hash free.
LEMMA CheckedFree ==
  ASSUME TypeOK, NEW t \in Tasks, CheckDuplicate(t), pc'[t] = "insert"
  PROVE  /\ registry' = registry /\ registry[HashOf[t]] = NoTask
         /\ ctx' = [ctx EXCEPT ![t] = [ctx[t] EXCEPT !.heap = "live", !.status = "Generating"]]
<1>1. ~Fail(t, "check", "exists", "copyout") /\ ~Fail(t, "check", "rejected", "copyout")
  BY DEF Fail, Goto, TypeOK
<1> QED  BY <1>1 DEF CheckDuplicate

\* The look-up makes a context no entry points to.
LEMMA CheckDuplicateRace ==
  ASSUME TypeOK, RaceInv, NEW t \in Tasks, CheckDuplicate(t)
  PROVE  RaceInv'
<1> USE HashAssumption, NullAssumption
    DEF RaceInv, RegistrySound, FinishedMeansPosted, WindowIsOwn, FinishedEntryPosted,
        PostedLast, SweepTimePast,
        TypeOK, KeyShardContext, Pcs, EnclavePcs, Goto, Fail, taskVars, queryVars, heapVars,
        Posted, Final
<1>1. RegistrySound'
  BY SMTT(30) DEF CheckDuplicate
<1>2. FinishedMeansPosted'
  BY SMTT(30) DEF CheckDuplicate
<1>3. WindowIsOwn'
  <2> SUFFICES ASSUME NEW u \in Tasks, pc'[u] = "insert"
               PROVE  /\ ctx'[u].heap = "live" /\ ctx'[u].status = "Generating"
                      /\ registry'[HashOf[u]] # u
    OBVIOUS
  <2>1. CASE u = t
    <3>1. registry' = registry /\ registry[HashOf[t]] = NoTask
          /\ ctx' = [ctx EXCEPT ![t] = [ctx[t] EXCEPT !.heap = "live", !.status = "Generating"]]
      BY Zenon, CheckedFree, <2>1
    <3> QED  BY <2>1, <3>1
  <2>2. CASE u # t
    BY <2>2 DEF CheckDuplicate
  <2> QED  BY <2>1, <2>2
<1>4. FinishedEntryPosted'
  BY SMTT(30) DEF CheckDuplicate
<1>5. PostedLast'
  BY SMTT(30) DEF CheckDuplicate
<1>6. SweepTimePast'
  BY SMTT(30) DEF CheckDuplicate
<1> QED  BY <1>1, <1>2, <1>3, <1>4, <1>5, <1>6

\* GenerateKey leaves Finished contexts to their entries.
LEMMA GenerateKeyRace ==
  ASSUME TypeOK, RaceInv, NEW t \in Tasks, GenerateKey(t)
  PROVE  RaceInv'
<1> USE HashAssumption, NullAssumption
    DEF RaceInv, RegistrySound, FinishedMeansPosted, WindowIsOwn, FinishedEntryPosted,
        PostedLast, SweepTimePast,
        TypeOK, KeyShardContext, Pcs, EnclavePcs, Goto, Fail, taskVars, queryVars, heapVars,
        Posted, Final
<1>1. RegistrySound'
  BY SMTT(30) DEF GenerateKey
<1>2. FinishedMeansPosted'
  BY SMTT(30) DEF GenerateKey
<1>3. WindowIsOwn'
  BY SMTT(30) DEF GenerateKey
<1>4. FinishedEntryPosted'
  BY SMTT(30) DEF GenerateKey
<1>5. PostedLast'
  BY SMTT(30) DEF GenerateKey
<1>6. SweepTimePast'
  BY SMTT(30) DEF GenerateKey
<1> QED  BY <1>1, <1>2, <1>3, <1>4, <1>5, <1>6

\* get_reply_string marks a context Reporting or Error, never Finished.
LEMMA ReplyStringRace ==
  ASSUME TypeOK, RaceInv, NEW t \in Tasks, ReplyString(t)
  PROVE  RaceInv'
<1> USE HashAssumption, NullAssumption
    DEF RaceInv, RegistrySound, FinishedMeansPosted, WindowIsOwn, FinishedEntryPosted,
        PostedLast, SweepTimePast,
        TypeOK, KeyShardContext, Pcs, EnclavePcs, Goto, Fail, taskVars, queryVars, heapVars,
        Posted, Final
<1>1. RegistrySound'
  BY SMTT(30) DEF ReplyString
<1>2. FinishedMeansPosted'
  BY SMTT(30) DEF ReplyString
<1>3. WindowIsOwn'
  BY SMTT(30) DEF ReplyString
<1>4. FinishedEntryPosted'
  BY SMTT(90) DEF ReplyString
<1>5. PostedLast'
  BY SMTT(30) DEF ReplyString
<1>6. SweepTimePast'
  BY SMTT(30) DEF ReplyString
<1> QED  BY <1>1, <1>2, <1>3, <1>4, <1>5, <1>6

\* ecall_create_report marks a context Callback or Error, never Finished.
LEMMA SetReportStatusRace ==
  ASSUME TypeOK, RaceInv, NEW t \in Tasks, SetReportStatus(t)
  PROVE  RaceInv'
<1> USE HashAssumption, NullAssumption
    DEF RaceInv, RegistrySound, FinishedMeansPosted, WindowIsOwn, FinishedEntryPosted,
        PostedLast, SweepTimePast,
        TypeOK, KeyShardContext, Pcs, EnclavePcs, Goto, Fail, taskVars, queryVars, heapVars,
        Posted, Final
<1>1. RegistrySound'
  BY SMTT(30) DEF SetReportStatus
<1>2. FinishedMeansPosted'
  BY SMTT(30) DEF SetReportStatus
<1>3. WindowIsOwn'
  BY SMTT(30) DEF SetReportStatus
<1>4. FinishedEntryPosted'
  BY SMTT(30) DEF SetReportStatus
<1>5. PostedLast'
  BY SMTT(30) DEF SetReportStatus
<1>6. SweepTimePast'
  BY SMTT(30) DEF SetReportStatus
<1> QED  BY <1>1, <1>2, <1>3, <1>4, <1>5, <1>6

\* Every step of Spec keeps RaceInv, whoever races in the window.
LEMMA RaceStep ==
  ASSUME TypeOK, RaceInv, [Next]_vars
  PROVE  RaceInv'
<1> USE HashAssumption, NullAssumption
    DEF RaceInv, RegistrySound, FinishedMeansPosted, WindowIsOwn, FinishedEntryPosted,
        PostedLast, SweepTimePast,
        TypeOK, KeyShardContext, Pcs, EnclavePcs, Goto, Fail, taskVars, queryVars, heapVars,
        Posted, Final
<1>1. ASSUME NEW t \in Tasks, Submit(t) PROVE RaceInv'
  BY SMTT(30), <1>1 DEF Submit
<1>2. ASSUME NEW t \in Tasks, EnterRun(t) PROVE RaceInv'
  BY SMTT(90), <1>2 DEF EnterRun, SystemTime
<1>3. ASSUME NEW t \in Tasks, Insert(t) PROVE RaceInv'
  BY SMTT(30), <1>3 DEF Insert
<1>4. ASSUME NEW t \in Tasks, GenerateKey(t) PROVE RaceInv'
  BY <1>4, GenerateKeyRace
<1>5. ASSUME NEW t \in Tasks, UseFreedContext(t) PROVE RaceInv'
  BY SMTT(30), <1>5 DEF UseFreedContext
<1>6. ASSUME NEW t \in Tasks, CopyOut(t) PROVE RaceInv'
  BY SMTT(30), <1>6 DEF CopyOut
<1>7. ASSUME NEW t \in Tasks, ParseResult(t) PROVE RaceInv'
  BY SMTT(30), <1>7 DEF ParseResult
<1>8. ASSUME NEW t \in Tasks, TargetInfo(t) PROVE RaceInv'
  BY SMTT(30), <1>8 DEF TargetInfo
<1>9. ASSUME NEW t \in Tasks, ReadMeta(t) PROVE RaceInv'
  BY SMTT(30), <1>9 DEF ReadMeta
<1>10. ASSUME NEW t \in Tasks, CreateReport(t) PROVE RaceInv'
  BY SMTT(30), <1>10 DEF CreateReport
<1>11. ASSUME NEW t \in Tasks, GetQuote(t) PROVE RaceInv'
  BY SMTT(30), <1>11 DEF GetQuote
<1>12. ASSUME NEW t \in Tasks, Post(t) PROVE RaceInv'
  BY SMTT(30), <1>12 DEF Post
<1>13. ASSUME NEW t \in Tasks, EnterStatus(t) PROVE RaceInv'
  BY SMTT(30), <1>13 DEF EnterStatus
<1>14. ASSUME NEW t \in Tasks, Sweep(t) PROVE RaceInv'
  BY <1>14, SweepRace DEF Sweep
<1>15. ASSUME NEW q \in Queriers, QuerySweep(q) PROVE RaceInv'
  BY <1>15, SweepRace DEF QuerySweep
<1>16. ASSUME NEW q \in Queriers, QueryEnter(q) PROVE RaceInv'
  BY <1>16 DEF QueryEnter, SystemTime
<1>17. ASSUME NEW q \in Queriers, QueryLook(q) PROVE RaceInv'
  BY <1>17 DEF QueryLook, Answers, eKeyStatus
<1>18. ASSUME NEW q \in Queriers, QueryReturn(q) PROVE RaceInv'
  BY <1>18 DEF QueryReturn, NoAnswer
<1>19. CASE Tick
  BY <1>19 DEF Tick
<1>20. CASE UNCHANGED vars
  BY <1>20 DEF vars
<1> QED
  BY <1>1, <1>2, <1>3, <1>4, <1>5, <1>6, <1>7, <1>8, <1>9, <1>10, <1>11, <1>12, <1>13, <1>14, <1>15, <1>16, <1>17, <1>18, <1>19, <1>20,
     SetStatusRace, CheckDuplicateRace, ReplyStringRace, SetReportStatusRace
     DEF Next, TaskStep, QueryStep

\* RaceInv holds of Spec.
LEMMA RaceInvariant == Spec => [](TypeOK /\ RaceInv)
<1>1. Init => TypeOK
  BY DEF Init, TypeOK, KeyShardContext, Pcs, EnclavePcs, Returns, Answers, NoAnswer, eKeyStatus
<1>2. Init => RaceInv
  BY DEF Init, RaceInv, RegistrySound, FinishedMeansPosted, WindowIsOwn, FinishedEntryPosted,
     PostedLast, SweepTimePast, Posted, Final, NoAnswer
<1>3. TypeOK /\ RaceInv /\ [Next]_vars => TypeOK' /\ RaceInv'
  BY TypeStep, RaceStep
<1> QED  BY <1>1, <1>2, <1>3, PTL DEF Spec

\* Whoever races, the list never holds a deleted context.
THEOREM RegistryNeverDangles == Spec => []RegistrySound
<1>1. RaceInv => RegistrySound
  BY DEF RaceInv
<1> QED  BY <1>1, RaceInvariant, PTL

\* Whoever races, "Finished" is shown only after a result was posted.
THEOREM FinishedIsTrue == Spec => []FinishedMeansPosted
<1>1. RaceInv => FinishedMeansPosted
  BY DEF RaceInv
<1> QED  BY <1>1, RaceInvariant, PTL

\* The last ECALL stores the time at which it marks an entry Finished.
LEMMA SetStatusRecords ==
  ASSUME TypeOK, EndIsRecorded, NEW t \in Tasks, SetStatus(t)
  PROVE  EndIsRecorded'
<1> SUFFICES ASSUME "clock" \notin Faults, NEW u \in Tasks
             PROVE  ctx'[u].finished = ctx'[u].ended
  BY DEF EndIsRecorded
<1>1. ctx[u].finished = ctx[u].ended /\ ctx \in [Tasks -> KeyShardContext]
      /\ SystemTime = {now}
  BY DEF EndIsRecorded, TypeOK, SystemTime
<1>2. CASE HashKnown(t) /\ registry[HashOf[t]] # NoTask
  <2>1. registry[HashOf[t]] \in Tasks
    BY <1>2, HashAssumption DEF TypeOK
  <2>2. CASE webhook[t] = "delivered"
    <3>1. ctx' = [ctx EXCEPT ![registry[HashOf[t]]] =
                    [@ EXCEPT !.status = "Finished", !.finished = now, !.ended = now]]
      BY <1>1, <1>2, <2>2 DEF SetStatus
    <3> QED  BY <1>1, <2>1, <3>1 DEF KeyShardContext
  <2>3. CASE webhook[t] # "delivered"
    <3>1. ctx' = [ctx EXCEPT ![registry[HashOf[t]]] = [@ EXCEPT !.status = "Error"]]
      BY <1>2, <2>3 DEF SetStatus
    <3> QED  BY <1>1, <2>1, <3>1 DEF KeyShardContext
  <2> QED  BY <2>2, <2>3
<1>3. CASE ~(HashKnown(t) /\ registry[HashOf[t]] # NoTask)
  BY <1>1, <1>3 DEF SetStatus
<1> QED  BY <1>2, <1>3

\* No other step touches either time.
LEMMA EndStep ==
  ASSUME TypeOK, EndIsRecorded, [Next]_vars
  PROVE  EndIsRecorded'
<1> USE HashAssumption DEF EndIsRecorded, TypeOK, KeyShardContext, Goto, Fail, heapVars
<1>1. ASSUME NEW t \in Tasks, Sweep(t) PROVE EndIsRecorded'
  BY <1>1 DEF Sweep, ClearContext
<1>2. ASSUME NEW t \in Tasks, CheckDuplicate(t) PROVE EndIsRecorded'
  <2>1. ctx' = ctx \/ ctx' = [ctx EXCEPT ![t] = [ctx[t] EXCEPT !.heap = "live", !.status = "Generating"]]
    BY <1>2 DEF CheckDuplicate
  <2>2. /\ [ctx[t] EXCEPT !.heap = "live", !.status = "Generating"].finished = ctx[t].finished
        /\ [ctx[t] EXCEPT !.heap = "live", !.status = "Generating"].ended = ctx[t].ended
    BY DEF KeyShardContext
  <2> QED  BY Zenon, <2>1, <2>2
<1>3. ASSUME NEW t \in Tasks, GenerateKey(t) PROVE EndIsRecorded'
  BY <1>3 DEF GenerateKey
<1>4. ASSUME NEW t \in Tasks, ReplyString(t) PROVE EndIsRecorded'
  BY <1>4 DEF ReplyString
<1>5. ASSUME NEW t \in Tasks, SetReportStatus(t) PROVE EndIsRecorded'
  BY <1>5 DEF SetReportStatus
<1>6. ASSUME NEW q \in Queriers, QuerySweep(q) PROVE EndIsRecorded'
  BY <1>6 DEF QuerySweep, ClearContext
<1>7. ASSUME UNCHANGED ctx PROVE EndIsRecorded'
  BY <1>7
<1> QED
  BY <1>1, <1>2, <1>3, <1>4, <1>5, <1>6, <1>7, SetStatusRecords
     DEF Next, TaskStep, QueryStep, Submit, EnterRun, Insert, UseFreedContext, CopyOut, ParseResult,
         TargetInfo, ReadMeta, CreateReport, GetQuote, Post, EnterStatus, QueryEnter, QueryLook,
         QueryReturn, Tick, vars

\* Whoever races, while the clock holds: a finished entry stays for
\* KEY_CONTEXT_ALIVE_DURATION from its end; a sweep with an old time is late,
\* never early.
THEOREM FinishedEntryStays ==
  ASSUME "clock" \notin Faults
  PROVE  Spec => FinishedStaysAlive
<1>1. ASSUME TypeOK, RaceInv, EndIsRecorded, [Next]_vars, NEW h \in Hashes,
             registry[h] # NoTask, registry'[h] = NoTask, ctx[registry[h]].status = "Finished"
      PROVE  now - ctx[registry[h]].ended > Alive
  <2>1. PICK r \in Tasks \cup Queriers : ClearContext(asOf[r])
    BY <1>1, HashAssumption, NullAssumption
       DEF Next, TaskStep, QueryStep, Submit, EnterRun, Sweep, CheckDuplicate, Insert, GenerateKey,
           ReplyString, UseFreedContext, CopyOut, ParseResult, TargetInfo, ReadMeta, CreateReport,
           SetReportStatus, GetQuote, Post, EnterStatus, SetStatus, QueryEnter, QuerySweep,
           QueryLook, QueryReturn, Tick, vars, heapVars, TypeOK
  <2>2. asOf[r] - ctx[registry[h]].finished > Alive
    BY <1>1, <2>1, SweptExpired DEF Expired
  <2>3. asOf[r] <= now /\ asOf[r] \in Nat /\ now \in Nat /\ Alive \in Nat
        /\ ctx[registry[h]].finished \in Nat
    BY <1>1, TimeAssumption DEF RaceInv, SweepTimePast, TypeOK, KeyShardContext
  <2>4. ctx[registry[h]].ended = ctx[registry[h]].finished
    BY <1>1 DEF EndIsRecorded, TypeOK
  <2> QED  BY <2>2, <2>3, <2>4
<1>2. TypeOK /\ RaceInv /\ EndIsRecorded /\ [Next]_vars =>
        [\A h \in Hashes :
           /\ registry[h] # NoTask /\ registry'[h] = NoTask
           /\ ctx[registry[h]].status = "Finished"
           => now - ctx[registry[h]].ended > Alive]_vars
  BY <1>1
<1>3. Init => EndIsRecorded
  BY DEF Init, EndIsRecorded
<1>4. TypeOK /\ EndIsRecorded /\ [Next]_vars => EndIsRecorded'
  BY EndStep
<1> QED  BY <1>2, <1>3, <1>4, RaceInvariant, PTL DEF Spec, FinishedStaysAlive

-----------------------------------------------------------------------------
(* SerialSpec implements the safety of ShardService.                        *)

\* The moves of one request that ShardService allows, but for exclusion.
Moves(t) ==
  \/ Phase(t)' = Phase(t) /\ Result(t)' = Result(t)
  \/ Phase(t) = "new" /\ Phase(t)' = "accepted" /\ Result(t)' = Result(t)
  \/ Phase(t) = "accepted" /\ Phase(t)' = "generating" /\ Result(t)' = Result(t)
  \/ Phase(t) \in {"accepted", "generating"} /\ Phase(t)' = "failed" /\ Result(t)' = Result(t)
  \/ Phase(t) = "generating" /\ Phase(t)' = "answered" /\ Result(t)' = t
  \/ Phase(t) = "failed" /\ Phase(t)' = "answered" /\ Result(t)' = "error"

\* A step of a task moves that task only, and as ShardService allows.
LEMMA TaskMoves ==
  ASSUME TypeOK, IInv, NEW t \in Tasks, Submit(t) \/ TaskStep(t)
  PROVE  Moves(t) /\ \A u \in Tasks \ {t} : Phase(u)' = Phase(u) /\ Result(u)' = Result(u)
<1>1. ASSUME NEW u \in Tasks \ {t}
      PROVE  pc'[u] = pc[u] /\ ret'[u] = ret[u] /\ seen'[u] = seen[u] /\ webhook'[u] = webhook[u]
  BY DEF TaskStep, Submit, EnterRun, Sweep, CheckDuplicate, Insert, GenerateKey, ReplyString,
     UseFreedContext, CopyOut, ParseResult, TargetInfo, ReadMeta, CreateReport,
     SetReportStatus, GetQuote, Post, EnterStatus, SetStatus, Goto, Fail, taskVars, TypeOK
<1>2. ASSUME NEW u \in Tasks \ {t} PROVE Phase(u)' = Phase(u) /\ Result(u)' = Result(u)
  BY <1>1 DEF Phase, Result
<1>3. Moves(t)
  <2> USE DEF Moves, Phase, Result, Goto, Fail, TypeOK, Pcs, EnclavePcs, Final, Returns,
          taskVars, IInv, SucceededSoFar, PostedLast, Posted, Early
  <2>1. CASE Submit(t)
    BY <2>1 DEF Submit
  <2>2. CASE EnterRun(t)
    BY <2>2 DEF EnterRun
  <2>3. CASE Sweep(t)
    BY <2>3 DEF Sweep
  <2>4. CASE CheckDuplicate(t)
    BY <2>4 DEF CheckDuplicate
  <2>5. CASE Insert(t)
    BY <2>5 DEF Insert
  <2>6. CASE GenerateKey(t)
    BY <2>6 DEF GenerateKey
  <2>7. CASE ReplyString(t)
    BY <2>7 DEF ReplyString
  <2>8. CASE UseFreedContext(t)
    BY <2>8 DEF UseFreedContext
  <2>9. CASE CopyOut(t)
    BY <2>9 DEF CopyOut
  <2>10. CASE ParseResult(t)
    BY <2>10 DEF ParseResult
  <2>11. CASE TargetInfo(t)
    BY <2>11 DEF TargetInfo
  <2>12. CASE ReadMeta(t)
    BY <2>12 DEF ReadMeta
  <2>13. CASE CreateReport(t)
    BY <2>13 DEF CreateReport
  <2>14. CASE SetReportStatus(t)
    BY <2>14 DEF SetReportStatus
  <2>15. CASE GetQuote(t)
    BY <2>15 DEF GetQuote
  <2>16. CASE Post(t)
    BY <2>16 DEF Post, MetaIsOwn
  <2>17. CASE EnterStatus(t)
    BY <2>17 DEF EnterStatus
  <2>18. CASE SetStatus(t)
    BY <2>18 DEF SetStatus
  <2> QED
    BY <2>1, <2>2, <2>3, <2>4, <2>5, <2>6, <2>7, <2>8, <2>9, <2>10, <2>11, <2>12, <2>13, <2>14, <2>15, <2>16, <2>17, <2>18 DEF TaskStep
<1> QED  BY <1>2, <1>3

\* The phases of the service are those of OneGeneration.
PhaseIsExact == \A t \in Tasks : Phase(t) = "generating" => Generating(t)

\* A task in the phase "generating" is one that OneGeneration speaks of.
LEMMA GeneratingPhase == TypeOK => PhaseIsExact
BY DEF PhaseIsExact, TypeOK, Phase, Generating, Pcs, EnclavePcs, Final

\* Every step of SerialSpec is a step of the service or a stutter.
LEMMA ServiceStep ==
  ASSUME TypeOK, IInv, TypeOK', IInv', [Next /\ NoOverlap']_vars
  PROVE  [Service!Next]_Service!vars
<1>1. CASE \A t \in Tasks : Phase(t)' = Phase(t) /\ Result(t)' = Result(t)
  BY <1>1 DEF Service!vars
<1>2. ASSUME NEW t \in Tasks, Submit(t) \/ TaskStep(t)
      PROVE  [Service!Next]_Service!vars
  <2>1. Moves(t) /\ \A u \in Tasks \ {t} : Phase(u)' = Phase(u) /\ Result(u)' = Result(u)
    BY <1>2, TaskMoves
  <2>2. CASE Phase(t)' = Phase(t) /\ Result(t)' = Result(t)
    BY <1>1, <2>1, <2>2
  <2> DEFINE phase == [u \in Tasks |-> Phase(u)]
             result == [u \in Tasks |-> Result(u)]
  <2>3. /\ phase' = [phase EXCEPT ![t] = Phase(t)']
        /\ result' = [result EXCEPT ![t] = Result(t)']
        /\ phase[t] = Phase(t) /\ result[t] = Result(t)
    BY <2>1
  <2>4. Result(t)' = Result(t) => result' = result
    BY <2>3
  <2>5. CASE Phase(t) = "accepted" /\ Phase(t)' = "generating" /\ Result(t)' = Result(t)
    <3>1. ASSUME NEW u \in Tasks \ {t}, HashOf[u] = HashOf[t] PROVE phase[u] # "generating"
      <4> SUFFICES ASSUME Phase(u) = "generating" PROVE FALSE
        OBVIOUS
      <4>1. Phase(u)' = "generating"
        BY <2>1
      <4>2. Generating(u)' /\ Generating(t)'
        <5>1. PhaseIsExact'
          BY GeneratingPhase, PTL
        <5> QED  BY <2>5, <4>1, <5>1 DEF PhaseIsExact
      <4>3. OneGeneration'
        BY Exclusive, PTL
      <4> QED  BY <3>1, <4>2, <4>3 DEF OneGeneration
    <3> QED  BY <2>3, <2>4, <2>5, <3>1 DEF Service!Next, Service!Serve, Service!Begin, Service!Move
  <2>6. CASE Phase(t) = "new" /\ Phase(t)' = "accepted" /\ Result(t)' = Result(t)
    BY <2>3, <2>4, <2>6 DEF Service!Next, Service!Accept, Service!Move
  <2>7. CASE Phase(t) \in {"accepted", "generating"} /\ Phase(t)' = "failed" /\ Result(t)' = Result(t)
    BY <2>3, <2>4, <2>7 DEF Service!Next, Service!Serve, Service!GiveUp, Service!Move
  <2>8. CASE \/ Phase(t) = "generating" /\ Phase(t)' = "answered" /\ Result(t)' = t
             \/ Phase(t) = "failed" /\ Phase(t)' = "answered" /\ Result(t)' = "error"
    BY <2>3, <2>8 DEF Service!Next, Service!Serve, Service!Answer, Service!Move
  <2> QED  BY <2>1, <2>2, <2>5, <2>6, <2>7, <2>8 DEF Moves
<1>3. ASSUME UNCHANGED taskVars PROVE [Service!Next]_Service!vars
  BY <1>1, <1>3 DEF taskVars, Phase, Result
<1> QED
  BY <1>2, <1>3 DEF Next, QueryStep, QueryEnter, QuerySweep, QueryLook, QueryReturn, Tick, vars,
     taskVars

\* Seen by its clients the service keeps its promise: one answer for each
\* accepted request, with the key shards generated for it or with an error,
\* and no two generations for one key list at a time.
THEOREM ImplementsService ==
  ASSUME "report" \notin Faults
  PROVE  SerialSpec => ServiceSafety
<1>1. Init => Service!Init
  <2> SUFFICES ASSUME Init PROVE Service!Init
    OBVIOUS
  <2>1. ASSUME NEW t \in Tasks PROVE Phase(t) = "new" /\ Result(t) = "none"
    BY DEF Init, Phase, Result, Final, Pcs
  <2> QED  BY <2>1 DEF Service!Init
<1>2. TypeOK /\ IInv /\ TypeOK' /\ IInv' /\ [Next /\ NoOverlap']_vars
        => [Service!Next]_Service!vars
  BY ServiceStep
<1> QED
  BY <1>1, <1>2, SerialInvariant, PTL DEF SerialSpec, ServiceSafety, Service!Safety

=============================================================================
