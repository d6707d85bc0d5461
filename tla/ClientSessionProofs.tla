------------------------ MODULE ClientSessionProofs ------------------------
(***************************************************************************)
(* Proofs about ClientSession, for every set of clients and requests: what *)
(* keeps two tasks of one hash out of the window of GenerateTask is what   *)
(* the clients wait for before they post again.                            *)
(***************************************************************************)
EXTENDS ClientSession, KeyShardTaskProofs

\* The rule the theorems need of the clients, and of the enclave.
Disciplined == Repeats # "said" /\ "report" \notin Faults

-----------------------------------------------------------------------------
(* The clients only choose among the steps of the service.                 *)

\* A step of the session is a step of the service or none.
LEMMA SessionStep == [ClientNext]_allVars => [Next]_vars
<1> SUFFICES ASSUME [ClientNext]_allVars PROVE [Next]_vars
  OBVIOUS
<1>1. ASSUME NEW c \in Queriers, ClientNext,
             \/ PostGenerateKeyShareRequest(c) \/ PostQueryStatusRequest(c) \/ ServeQuery(c)
             \/ ReceiveStatus(c) \/ LeaveLoop(c) \/ LoseConnection(c)
      PROVE  [Next]_vars
  BY <1>1 DEF ClientNext, PostGenerateKeyShareRequest, PostQueryStatusRequest, ServeQuery,
     ReceiveStatus, LeaveLoop, LoseConnection, Next, QueryStep
<1>2. ASSUME NEW t \in Tasks, ClientNext,
             AnnounceResult(t) \/ StoreResult(t) \/ PostFails(t) \/ ServeTask(t)
      PROVE  [Next]_vars
  BY <1>2 DEF ClientNext, AnnounceResult, StoreResult, PostFails, ServeTask, Next, TaskStep
<1>3. CASE ClientNext /\ PassTime
  BY <1>3 DEF ClientNext, PassTime, Next
<1>4. CASE UNCHANGED allVars
  BY <1>4 DEF allVars
<1> QED  BY <1>1, <1>2, <1>3, <1>4 DEF ClientNext

\* A query's answer is one of the replies.
LEMMA AnswerIsReply ==
  ASSUME TypeOK, NEW c \in Queriers, NEW r \in {answer[c].status, "failed"}
  PROVE  r \in Replies
BY DEF TypeOK, Answers, NoAnswer, Replies, eKeyStatus

\* The client's variables keep their types (main.cpp:45-112).
LEMMA ClientTypeStep == TypeOK /\ ClientTypeOK /\ [ClientNext]_allVars => ClientTypeOK'
<1> USE OwnerAssumption DEF ClientTypeOK
<1> SUFFICES ASSUME TypeOK, ClientTypeOK, [ClientNext]_allVars PROVE ClientTypeOK'
  OBVIOUS
<1>1. ASSUME NEW c \in Queriers, PostGenerateKeyShareRequest(c) PROVE ClientTypeOK'
  <2>1. "none" \in Replies
    BY DEF Replies
  <2>2. ASSUME NEW t \in Tasks, NEW s \in {"waiting", "over"},
               stage' = [stage EXCEPT ![c] = s], current' = [current EXCEPT ![c] = t],
               shown' = [shown EXCEPT ![c] = FALSE], reply' = [reply EXCEPT ![c] = "none"],
               UNCHANGED <<received, handed>>
        PROVE  ClientTypeOK'
    BY <2>1, <2>2
  <2>3. ASSUME stage' = [stage EXCEPT ![c] = "over"],
               UNCHANGED <<current, shown, reply, received, handed>>
        PROVE  ClientTypeOK'
    BY <2>3
  <2> QED  BY Zenon, <1>1, <2>2, <2>3 DEF PostGenerateKeyShareRequest
<1>2. ASSUME NEW c \in Queriers, PostQueryStatusRequest(c) PROVE ClientTypeOK'
  BY <1>2 DEF PostQueryStatusRequest, Replies
<1>3. ASSUME NEW c \in Queriers, ServeQuery(c) PROVE ClientTypeOK'
  BY <1>3 DEF ServeQuery, clientVars
<1>4. ASSUME NEW c \in Queriers, ReceiveStatus(c) PROVE ClientTypeOK'
  BY <1>4, AnswerIsReply DEF ReceiveStatus
<1>5. ASSUME NEW c \in Queriers, LeaveLoop(c) \/ LoseConnection(c) PROVE ClientTypeOK'
  BY <1>5 DEF LeaveLoop, LoseConnection
<1>6. ASSUME NEW t \in Tasks, AnnounceResult(t) PROVE ClientTypeOK'
  BY <1>6 DEF AnnounceResult
<1>7. ASSUME NEW t \in Tasks, StoreResult(t) \/ PostFails(t) PROVE ClientTypeOK'
  BY <1>7 DEF StoreResult, PostFails
<1>8. CASE UNCHANGED clientVars
  BY <1>8 DEF clientVars
<1> QED
  BY <1>1, <1>2, <1>3, <1>4, <1>5, <1>6, <1>7, <1>8 DEF ClientNext, ServeTask, PassTime, allVars

-----------------------------------------------------------------------------
(* What the service does to a task: past the window it stays past it, and  *)
(* a task that is spent stays spent.                                       *)

\* How the program counter and the return code of a task move.
LEMMA ThreadMoves ==
  ASSUME TypeOK, IInv, [Next]_vars, NEW t \in Tasks
  PROVE  /\ pc[t] # "new" => pc'[t] # "new"
         /\ PastWindow(t) => PastWindow(t)'
         /\ PastWindow(t) /\ ~Working(t) => ~Working(t)'
<1> USE DEF TypeOK, Pcs, EnclavePcs, PastWindow, Working, HashKnown, Early, Final, Goto, Fail,
        taskVars
<1>1. CASE UNCHANGED taskVars
  BY <1>1
<1>2. ASSUME NEW u \in Tasks, Submit(u) \/ EnterRun(u) \/ Sweep(u) \/ CheckDuplicate(u)
                              \/ Insert(u)
      PROVE  /\ pc[t] # "new" => pc'[t] # "new"
             /\ PastWindow(t) => PastWindow(t)'
             /\ PastWindow(t) /\ ~Working(t) => ~Working(t)'
  BY SMTT(60), <1>2 DEF Submit, EnterRun, Sweep, CheckDuplicate, Insert
<1>3. SucceededSoFar
  BY DEF IInv
<1>4. ASSUME NEW u \in Tasks, GenerateKey(u) \/ ReplyString(u) \/ CopyOut(u)
      PROVE  /\ pc[t] # "new" => pc'[t] # "new"
             /\ PastWindow(t) => PastWindow(t)'
             /\ PastWindow(t) /\ ~Working(t) => ~Working(t)'
  BY SMTT(60), <1>3, <1>4 DEF SucceededSoFar, GenerateKey, ReplyString, CopyOut
<1>5. ASSUME NEW u \in Tasks, ParseResult(u) \/ TargetInfo(u) \/ ReadMeta(u) \/ CreateReport(u)
                              \/ SetReportStatus(u) \/ GetQuote(u)
      PROVE  /\ pc[t] # "new" => pc'[t] # "new"
             /\ PastWindow(t) => PastWindow(t)'
             /\ PastWindow(t) /\ ~Working(t) => ~Working(t)'
  BY SMTT(60), <1>3, <1>5 DEF SucceededSoFar, ParseResult, TargetInfo, ReadMeta, CreateReport,
     SetReportStatus, GetQuote
<1>6. ASSUME NEW u \in Tasks, Post(u) \/ EnterStatus(u) \/ SetStatus(u)
      PROVE  /\ pc[t] # "new" => pc'[t] # "new"
             /\ PastWindow(t) => PastWindow(t)'
             /\ PastWindow(t) /\ ~Working(t) => ~Working(t)'
  <2>1. /\ ret' = ret
        /\ \E from \in {"post", "status", "setstatus"} :
              pc[u] = from
        /\ \E to \in {"status", "setstatus", "lost", "done"} :
              pc' = [pc EXCEPT ![u] = to]
    BY <1>6 DEF Post, EnterStatus, SetStatus
  <2> QED  BY <2>1
<1>7. ASSUME NEW q \in Queriers, QueryStep(q) PROVE UNCHANGED taskVars
  BY <1>7 DEF QueryStep, QueryEnter, QuerySweep, QueryLook, QueryReturn
<1>8. ASSUME NEW u \in Tasks, UseFreedContext(u) PROVE UNCHANGED taskVars
  BY <1>8 DEF UseFreedContext
<1>9. CASE Tick \/ UNCHANGED vars
  BY <1>1, <1>9 DEF Tick, vars
<1> HIDE DEF TypeOK, Pcs, EnclavePcs, PastWindow, Working, HashKnown, Early, Final, Goto, Fail,
         taskVars
<1>10. ASSUME NEW u \in Tasks, TaskStep(u)
       PROVE  /\ pc[t] # "new" => pc'[t] # "new"
              /\ PastWindow(t) => PastWindow(t)'
              /\ PastWindow(t) /\ ~Working(t) => ~Working(t)'
  BY Zenon, <1>1, <1>2, <1>4, <1>5, <1>6, <1>8, <1>10 DEF TaskStep
<1> QED
  BY Zenon, <1>1, <1>2, <1>7, <1>9, <1>10 DEF Next

\* An entry that is a task's after a step, with a status that says it is at
\* work, was so before the step or is inserted or worked on by that task.
LEMMA EntryMoves ==
  ASSUME TypeOK, IInv, [Next]_vars, NEW t \in Tasks, PastWindow(t), ~Working(t),
         registry'[HashOf[t]] = t, ctx'[t].status \in Active
  PROVE  registry[HashOf[t]] = t /\ ctx[t].status \in Active
<1> USE HashAssumption, NullAssumption DEF TypeOK, KeyShardContext, eKeyStatus, Goto, Fail
<1> DEFINE Kept == registry[HashOf[t]] = t /\ ctx[t].status \in Active
<1>0. /\ OwnsEntry /\ SucceededSoFar
      /\ pc[t] \notin {"new", "run", "sweep", "check", "insert"}
  BY DEF IInv, PastWindow, Early
<1>1. ASSUME registry' = registry, ctx' = ctx PROVE Kept
  BY <1>1
<1>2. ASSUME NEW u \in Tasks, Insert(u) PROVE Kept
  BY <1>0, <1>2 DEF Insert
<1>3. ASSUME NEW u \in Tasks, CheckDuplicate(u) PROVE Kept
  <2>1. u # t /\ registry' = registry
    BY <1>0, <1>3 DEF CheckDuplicate
  <2>2. ctx'[t] = ctx[t]
    BY <1>3, <2>1 DEF CheckDuplicate
  <2> QED  BY <2>1, <2>2
<1>4. ASSUME NEW u \in Tasks, GenerateKey(u) \/ ReplyString(u) PROVE Kept
  <2>1. u # t
    BY <1>0, <1>4 DEF GenerateKey, ReplyString, SucceededSoFar, Working, HashKnown, Pcs,
       EnclavePcs, Final
  <2>2. ctx'[t] = ctx[t] /\ registry' = registry
    BY <1>4, <2>1 DEF GenerateKey, ReplyString
  <2> QED  BY <2>2
<1>5. ASSUME NEW u \in Tasks, SetReportStatus(u) PROVE Kept
  <2>1. Working(u)
    BY <1>0, <1>5 DEF SetReportStatus, SucceededSoFar, Working, HashKnown, Pcs, EnclavePcs, Final
  <2>2. u # t /\ registry[HashOf[u]] = u
    BY <1>0, <2>1 DEF OwnsEntry
  <2>3. ctx'[t] = ctx[t] /\ registry' = registry
    BY <1>5, <2>2 DEF SetReportStatus, heapVars
  <2> QED  BY <2>3
<1>6. ASSUME NEW u \in Tasks, SetStatus(u) PROVE Kept
  <2>1. registry' = registry
    BY <1>6 DEF SetStatus
  <2> DEFINE Marked(c) == ctx' = [ctx EXCEPT ![registry[HashOf[u]]] = c]
             Finished(time) == [ctx[registry[HashOf[u]]] EXCEPT !.status = "Finished",
                                                                !.finished = time, !.ended = now]
             InError == [ctx[registry[HashOf[u]]] EXCEPT !.status = "Error"]
  <2>2. ctx' = ctx \/ (\E time : Marked(Finished(time))) \/ Marked(InError)
    BY <1>6 DEF SetStatus
  <2>3. CASE registry[HashOf[u]] # t
    <3>1. ctx'[t] = ctx[t]
      BY <2>2, <2>3
    <3> QED  BY <2>1, <3>1
  <2>4. CASE registry[HashOf[u]] = t
    <3>1. ASSUME NEW c, c.status \notin Active, Marked(c) PROVE FALSE
      BY <2>4, <3>1
    <3>2. (\A time : Finished(time).status \notin Active) /\ InError.status \notin Active
      BY <2>4 DEF Active
    <3>3. ctx' = ctx
      <4> HIDE DEF Marked, Finished, InError
      <4> QED  BY <2>2, <3>1, <3>2
    <3> QED  BY <2>1, <3>3
  <2> QED  BY <2>3, <2>4
<1>7. asOf \in [Tasks \cup Queriers -> Nat]
  OBVIOUS
<1>8. ASSUME NEW time \in Int, ClearContext(time) PROVE Kept
  <2> HIDE DEF TypeOK, KeyShardContext, eKeyStatus
  <2>1. RegistrySound
    BY DEF IInv
  <2>2. registry'[HashOf[t]] \in {registry[HashOf[t]], NoTask} /\ ctx'[t].status = ctx[t].status
    BY <1>8, <2>1, SweepEffect
  <2> QED  BY <2>2
<1> HIDE DEF Kept, TypeOK, KeyShardContext, eKeyStatus, Goto, Fail
<1>9. ASSUME NEW u \in Tasks, Sweep(u) PROVE Kept
  <2>1. asOf[u] \in Int
    BY <1>7
  <2> QED  BY <1>8, <1>9, <2>1 DEF Sweep
<1>10. ASSUME NEW u \in Tasks, \/ Submit(u) \/ EnterRun(u) \/ UseFreedContext(u) \/ CopyOut(u)
                               \/ ParseResult(u) \/ TargetInfo(u) \/ ReadMeta(u)
                               \/ CreateReport(u) \/ GetQuote(u) \/ Post(u) \/ EnterStatus(u)
       PROVE  Kept
  BY <1>1, <1>10 DEF Submit, EnterRun, UseFreedContext, CopyOut, ParseResult, TargetInfo,
     ReadMeta, CreateReport, GetQuote, Post, EnterStatus, heapVars
<1>11. ASSUME NEW u \in Tasks, TaskStep(u) PROVE Kept
  BY Zenon, <1>2, <1>3, <1>4, <1>5, <1>6, <1>9, <1>10, <1>11 DEF TaskStep
<1>12. ASSUME NEW q \in Queriers, QuerySweep(q) PROVE Kept
  <2>1. asOf[q] \in Int
    BY <1>7
  <2> QED  BY <1>8, <1>12, <2>1 DEF QuerySweep
<1>13. ASSUME NEW q \in Queriers, QueryStep(q) PROVE Kept
  BY <1>1, <1>12, <1>13 DEF QueryStep, QueryEnter, QueryLook, QueryReturn, heapVars
<1>14. ASSUME Tick \/ UNCHANGED vars PROVE Kept
  BY <1>1, <1>14 DEF Tick, vars, heapVars
<1>15. ASSUME Next PROVE Kept
  <2>1. ASSUME NEW u \in Tasks, Submit(u) \/ TaskStep(u) PROVE Kept
    BY <1>10, <1>11, <2>1
  <2> QED  BY <1>13, <1>14, <1>15, <2>1 DEF Next
<1>16. Kept
  BY <1>14, <1>15
<1> QED  BY <1>16 DEF Kept

\* A task that is spent stays spent.
LEMMA SpentStable ==
  ASSUME TypeOK, IInv, [Next]_vars, NEW t \in Tasks, Spent(t)
  PROVE  Spent(t)'
<1>1. PastWindow(t)' /\ ~Working(t)'
  BY ThreadMoves DEF Spent
<1>2. ASSUME registry'[HashOf[t]] = t, ctx'[t].status \in Active PROVE FALSE
  BY <1>2, EntryMoves DEF Spent
<1> QED  BY <1>1, <1>2 DEF Spent

\* The context that the list holds for a hash is of a task past the window.
LEMMA EntryPast ==
  ASSUME TypeOK, IInv, NEW h \in Hashes, registry[h] # NoTask
  PROVE  /\ registry[h] \in Tasks /\ HashOf[registry[h]] = h
         /\ PastWindow(registry[h]) /\ pc[registry[h]] # "new"
<1>1. registry[h] \in Tasks
  BY DEF TypeOK
<1>2. HashOf[registry[h]] = h /\ ctx[registry[h]].heap = "live"
  BY DEF IInv, RegistrySound
<1>3. pc[registry[h]] \notin Early
  BY <1>1, <1>2 DEF IInv, NotCreatedYet
<1>4. pc[registry[h]] # "insert"
  BY <1>1, <1>2 DEF IInv, WindowIsFree
<1> QED  BY <1>1, <1>2, <1>3, <1>4 DEF PastWindow, Early

-----------------------------------------------------------------------------
(* The clients' part of the invariant.                                      *)

\* Client c posts request t.
Posts(c, t) ==
  /\ OwnerOf[t] = c /\ Submit(t)
  /\ stage[c] = "start" \/ MayRepeat(c)
  /\ stage'[c] # "start"
  /\ \A d \in Queriers \ {c} : stage'[d] = stage[d]
  /\ current' = [current EXCEPT ![c] = t]
  /\ shown' = [shown EXCEPT ![c] = FALSE]
  /\ reply' = [reply EXCEPT ![c] = "none"]
  /\ UNCHANGED queryVars

\* A step that posts no request leaves those not posted, and those posted
\* last, as they are; no client starts again.
Rests ==
  /\ current' = current
  /\ \A t \in Tasks : pc'[t] = "new" <=> pc[t] = "new"
  /\ \A c \in Queriers : stage'[c] = stage[c] \/ stage'[c] = "over"
  /\ \A c \in Queriers : qpc'[c] # "idle" => qpc[c] # "idle" \/ stage[c] = "waiting"

\* A step of a task is a step of a thread that runs, and of no query.
LEMMA TaskThread ==
  ASSUME TypeOK, NEW t \in Tasks, TaskStep(t)
  PROVE  /\ \A u \in Tasks : pc'[u] = "new" <=> pc[u] = "new"
         /\ UNCHANGED queryVars
<1> USE DEF TypeOK, Goto, Fail, taskVars
<1>1. CASE EnterRun(t) \/ Sweep(t) \/ CheckDuplicate(t) \/ Insert(t)
  BY <1>1 DEF EnterRun, Sweep, CheckDuplicate, Insert
<1>2. CASE GenerateKey(t) \/ ReplyString(t) \/ UseFreedContext(t) \/ CopyOut(t)
  BY <1>2 DEF GenerateKey, ReplyString, UseFreedContext, CopyOut
<1>3. CASE ParseResult(t) \/ TargetInfo(t) \/ ReadMeta(t) \/ CreateReport(t)
  BY <1>3 DEF ParseResult, TargetInfo, ReadMeta, CreateReport
<1>4. CASE SetReportStatus(t) \/ GetQuote(t) \/ Post(t)
  BY <1>4 DEF SetReportStatus, GetQuote, Post
<1>5. CASE EnterStatus(t)
  BY <1>5 DEF EnterStatus
<1>6. CASE SetStatus(t)
  BY <1>6 DEF SetStatus
<1> QED  BY <1>1, <1>2, <1>3, <1>4, <1>5, <1>6 DEF TaskStep

\* Every step of the session posts a request or rests.
LEMMA PostsOrRests ==
  ASSUME TypeOK, ClientTypeOK, [ClientNext]_allVars
  PROVE  (\E c \in Queriers, t \in Tasks : Posts(c, t)) \/ Rests
<1> DEFINE Quiet == \A t \in Tasks : pc'[t] = "new" <=> pc[t] = "new"
<1>1. ASSUME NEW c \in Queriers, PostGenerateKeyShareRequest(c)
      PROVE  (\E t \in Tasks : Posts(c, t)) \/ Rests
  BY <1>1 DEF PostGenerateKeyShareRequest, Posts, Submit, Rests, ClientTypeOK, vars, queryVars
<1>2. ASSUME NEW c \in Queriers, \/ PostQueryStatusRequest(c) \/ ServeQuery(c)
                                 \/ ReceiveStatus(c) \/ LeaveLoop(c) \/ LoseConnection(c)
      PROVE  Rests
  BY <1>2 DEF PostQueryStatusRequest, ServeQuery, ReceiveStatus, LeaveLoop, LoseConnection,
     QueryEnter, QuerySweep, QueryLook, QueryReturn, AtLoop, Rests, ClientTypeOK, TypeOK, vars,
     taskVars, clientVars
<1>3. ASSUME NEW t \in Tasks, AnnounceResult(t) PROVE Rests
  BY <1>3 DEF AnnounceResult, Rests, vars
<1>4. ASSUME NEW t \in Tasks, StoreResult(t) \/ PostFails(t) \/ ServeTask(t) PROVE Rests
  <2>1. Quiet /\ UNCHANGED queryVars
    BY <1>4, TaskThread DEF StoreResult, PostFails, ServeTask, TaskStep
  <2> QED  BY <1>4, <2>1 DEF StoreResult, PostFails, ServeTask, Rests, clientVars, queryVars
<1>5. CASE PassTime \/ UNCHANGED allVars
  BY <1>5 DEF PassTime, Tick, Rests, taskVars, queryVars, vars, clientVars, allVars
<1> QED  BY Zenon, <1>1, <1>2, <1>3, <1>4, <1>5 DEF ClientNext

\* A client that posts again has a last request that is spent.
LEMMA RepeatsSpent ==
  ASSUME Disciplined, ClientInv, NEW c \in Queriers, MayRepeat(c)
  PROVE  Spent(current[c])
BY DEF Disciplined, ClientInv, MayRepeat, GoneIsSpent, ToldGone

\* Of the requests of a client only the last may be at work.
LEMMA OlderStep ==
  ASSUME TypeOK, ClientTypeOK, IInv, ClientInv, Disciplined, [ClientNext]_allVars
  PROVE  OlderAreSpent'
<1> USE OwnerAssumption
<1> SUFFICES ASSUME NEW u \in Tasks, pc'[u] # "new", u # current'[OwnerOf[u]]
             PROVE  Spent(u)'
  BY DEF OlderAreSpent
<1>0. [Next]_vars
  BY SessionStep
<1>1. ASSUME Spent(u) PROVE Spent(u)'
  BY <1>0, <1>1, SpentStable
<1>2. ASSUME pc[u] # "new", u # current[OwnerOf[u]] PROVE Spent(u)
  BY <1>2 DEF ClientInv, OlderAreSpent
<1>3. CASE Rests
  BY <1>1, <1>2, <1>3 DEF Rests
<1>4. ASSUME NEW c \in Queriers, NEW t \in Tasks, Posts(c, t) PROVE Spent(u)'
  <2>1. u # t
    BY <1>4 DEF Posts, ClientTypeOK
  <2>2. pc[u] # "new"
    BY <1>4, <2>1 DEF Posts, Submit, Goto, TypeOK
  <2>3. CASE u # current[OwnerOf[u]]
    BY <1>1, <1>2, <2>2, <2>3
  <2>4. CASE u = current[OwnerOf[u]]
    <3>1. OwnerOf[u] = c
      BY <1>4, <2>4 DEF Posts, ClientTypeOK
    <3>2. MayRepeat(c)
      BY <1>4, <2>4, <3>1, NullAssumption DEF Posts, ClientInv, CurrentIsOwn
    <3> QED  BY <1>1, <2>4, <3>1, <3>2, RepeatsSpent
  <2> QED  BY <2>3, <2>4
<1> QED  BY <1>3, <1>4, PostsOrRests

\* The request a client refers to is its own (main.cpp:204-242).
LEMMA CurrentStep ==
  ASSUME TypeOK, ClientTypeOK, CurrentIsOwn, [ClientNext]_allVars
  PROVE  CurrentIsOwn'
<1> USE NullAssumption, OwnerAssumption DEF CurrentIsOwn, ClientTypeOK
<1>1. CASE Rests
  BY <1>1 DEF Rests
<1>2. ASSUME NEW c \in Queriers, NEW t \in Tasks, Posts(c, t) PROVE CurrentIsOwn'
  <2>1. /\ OwnerOf[t] = c /\ pc' = [pc EXCEPT ![t] = "run"]
        /\ current' = [current EXCEPT ![c] = t]
        /\ qpc' = qpc /\ stage'[c] # "start"
        /\ \A d \in Queriers \ {c} : stage'[d] = stage[d]
    BY <1>2 DEF Posts, Submit, Goto, queryVars
  <2>2. pc'[t] # "new" /\ \A u \in Tasks \ {t} : pc'[u] = pc[u]
    BY <2>1 DEF TypeOK
  <2> SUFFICES ASSUME NEW d \in Queriers
               PROVE  /\ stage'[d] = "start" => qpc'[d] = "idle" /\ current'[d] = NoTask
                      /\ current'[d] = NoTask <=>
                           \A u \in Tasks : OwnerOf[u] = d => pc'[u] = "new"
                      /\ current'[d] # NoTask => OwnerOf[current'[d]] = d
                      /\ stage'[d] = "waiting" \/ qpc'[d] # "idle" => current'[d] # NoTask
    OBVIOUS
  <2>3. CASE d = c
    BY <2>1, <2>2, <2>3
  <2>4. CASE d # c
    BY <2>1, <2>2, <2>4
  <2> QED  BY <2>3, <2>4
<1> QED  BY <1>1, <1>2, PostsOrRests

\* What the look-up of a query says of the client's own request.
LEMMA LookTells ==
  ASSUME TypeOK, ClientTypeOK, IInv, ClientInv, NEW c \in Queriers, QueryLook(c),
         answer'[c].hash = HashOf[current[c]]
  PROVE  /\ current[c] \in Tasks
         /\ answer'[c].status \in Active => PastWindow(current[c])
         /\ shown[c] /\ answer'[c].status \in {"absent", "Error"} => Spent(current[c])
<1> DEFINE t == current[c]
           h == HashOf[t]
<1>1. t \in Tasks /\ OwnerOf[t] = c
  BY DEF QueryLook, ClientInv, CurrentIsOwn, ClientTypeOK
<1>2. h \in Hashes
  BY <1>1, HashAssumption
<1>3. answer'[c].status = IF registry[h] = NoTask THEN "absent" ELSE ctx[registry[h]].status
  <2>1. PICK g \in Hashes :
          answer' = [answer EXCEPT ![c] =
            [hash |-> g, status |-> IF registry[g] = NoTask THEN "absent"
                                                            ELSE ctx[registry[g]].status]]
    BY DEF QueryLook
  <2> QED  BY <2>1 DEF TypeOK
<1>4. ASSUME answer'[c].status \in Active PROVE PastWindow(t)
  <2>1. registry[h] # NoTask
    BY <1>3, <1>4 DEF Active
  <2>2. /\ registry[h] \in Tasks /\ HashOf[registry[h]] = h
        /\ PastWindow(registry[h]) /\ pc[registry[h]] # "new"
    BY <1>2, <2>1, EntryPast
  <2>3. OwnerOf[registry[h]] = c
    BY <1>1, <2>2, OwnerAssumption
  <2>4. ~Spent(registry[h])
    BY <1>3, <1>4, <2>1, <2>2 DEF Spent
  <2>5. registry[h] = t
    BY <2>2, <2>3, <2>4 DEF ClientInv, OlderAreSpent
  <2> QED  BY <2>2, <2>5
<1>5. ASSUME shown[c], answer'[c].status \in {"absent", "Error"} PROVE Spent(t)
  <2>1. PastWindow(t)
    BY <1>5 DEF ClientInv, ShownIsPast, ToldActive
  <2>2. registry[h] = t => ctx[t].status \notin Active
    BY <1>1, <1>3, <1>5, NullAssumption DEF Active
  <2>3. ~Working(t)
    BY <1>1, <2>2 DEF IInv, OwnsEntry, Active
  <2> QED  BY <2>1, <2>2, <2>3 DEF Spent
<1> QED  BY <1>1, <1>4, <1>5

\* But for the look-up of its own query, nothing a client has been told
\* becomes more.
LEMMA ToldKept ==
  ASSUME TypeOK, ClientTypeOK, Rests, [ClientNext]_allVars, NEW c \in Queriers,
         ~(ServeQuery(c) /\ QueryLook(c))
  PROVE  /\ ToldActive(c)' => ToldActive(c)
         /\ ToldGone(c)' => ToldGone(c)
<1> DEFINE Kept == (ToldActive(c)' => ToldActive(c)) /\ (ToldGone(c)' => ToldGone(c))
<1>1. ASSUME UNCHANGED <<shown, reply, queryVars>> PROVE Kept
  BY <1>1 DEF queryVars, ToldActive, ToldGone, OnItsWay
<1>2. ASSUME NEW d \in Queriers, PostGenerateKeyShareRequest(d) PROVE Kept
  <2>1. ~\E t \in Tasks : Submit(t)
    BY DEF Submit, Goto, Rests, TypeOK
  <2>2. UNCHANGED <<shown, reply, queryVars>>
    BY <1>2, <2>1 DEF PostGenerateKeyShareRequest, vars, queryVars
  <2> QED  BY <1>1, <2>2
<1>3. ASSUME NEW d \in Queriers, PostQueryStatusRequest(d) PROVE Kept
  BY <1>3 DEF PostQueryStatusRequest, QueryEnter, vars, ToldActive, ToldGone, OnItsWay,
     TypeOK, ClientTypeOK
<1>4. ASSUME NEW d \in Queriers, ServeQuery(d) PROVE Kept
  <2>1. CASE QuerySweep(d)
    BY <1>4, <2>1 DEF ServeQuery, QuerySweep, clientVars, ToldActive, ToldGone, OnItsWay, TypeOK
  <2>2. CASE QueryLook(d)
    <3>1. d # c
      BY <1>4, <2>2
    <3> QED
      BY <1>4, <2>2, <3>1 DEF ServeQuery, QueryLook, clientVars, ToldActive, ToldGone, OnItsWay,
         TypeOK
  <2> QED  BY <1>4, <2>1, <2>2 DEF ServeQuery
<1>5. ASSUME NEW d \in Queriers, ReceiveStatus(d) PROVE Kept
  <2>1. PICK r \in {answer[d].status, "failed"} :
          /\ reply' = [reply EXCEPT ![d] = r]
          /\ shown' = [shown EXCEPT ![d] = @ \/ r \in Active]
    BY <1>5 DEF ReceiveStatus
  <2>2. qpc[d] = "copyout" /\ qpc' = [qpc EXCEPT ![d] = "idle"]
        /\ answer' = [answer EXCEPT ![d] = NoAnswer]
    BY <1>5 DEF ReceiveStatus, QueryReturn
  <2>3. CASE d # c
    BY <2>1, <2>2, <2>3 DEF ToldActive, ToldGone, OnItsWay, TypeOK, ClientTypeOK
  <2>4. CASE d = c
    BY <2>1, <2>2, <2>4 DEF ToldActive, ToldGone, OnItsWay, Active, TypeOK, ClientTypeOK
  <2> QED  BY <2>3, <2>4
<1>6. ASSUME NEW d \in Queriers, LeaveLoop(d) \/ LoseConnection(d) PROVE Kept
  BY <1>1, <1>6 DEF LeaveLoop, LoseConnection, vars, queryVars
<1>7. ASSUME NEW t \in Tasks, AnnounceResult(t) \/ StoreResult(t) \/ PostFails(t) \/ ServeTask(t)
      PROVE  Kept
  BY <1>1, <1>7, TaskThread DEF AnnounceResult, StoreResult, PostFails, ServeTask, TaskStep,
     clientVars, vars, queryVars
<1>8. ASSUME PassTime \/ UNCHANGED allVars PROVE Kept
  BY <1>1, <1>8 DEF PassTime, Tick, allVars, vars, clientVars, queryVars
<1> HIDE DEF Kept
<1>9. Kept
  BY Zenon, <1>2, <1>3, <1>4, <1>5, <1>6, <1>7, <1>8 DEF ClientNext
<1> QED  BY <1>9 DEF Kept

\* What a client has been told stays true of the request it posted last
\* (QueryTask.cpp:43-67 beside main.cpp:89-112).
LEMMA ToldStep ==
  ASSUME TypeOK, ClientTypeOK, IInv, ClientInv, [ClientNext]_allVars
  PROVE  ShownIsPast' /\ GoneIsSpent'
<1> SUFFICES ASSUME NEW c \in Queriers
             PROVE  /\ ToldActive(c)' => current'[c] # NoTask /\ PastWindow(current[c])'
                    /\ ToldGone(c)' => Spent(current[c])'
  BY DEF ShownIsPast, GoneIsSpent
<1> DEFINE t == current[c]
<1>0. [Next]_vars
  BY SessionStep
<1>1. /\ ToldActive(c) => t # NoTask /\ PastWindow(t)
      /\ ToldGone(c) => t # NoTask /\ Spent(t)
  BY DEF ClientInv, ShownIsPast, GoneIsSpent, ToldGone, ToldActive
<1>2. ASSUME NEW u \in Tasks, current'[c] = u
      PROVE  (PastWindow(u) => PastWindow(current[c])') /\ (Spent(u) => Spent(current[c])')
  <2>1. (PastWindow(u) => PastWindow(u)') /\ (Spent(u) => Spent(u)')
    BY <1>0, ThreadMoves, SpentStable
  <2> QED  BY <1>2, <2>1 DEF PastWindow, Spent, Working, HashKnown
<1>3. t \in Tasks \cup {NoTask}
  BY DEF ClientTypeOK
<1>4. CASE Rests /\ ServeQuery(c) /\ QueryLook(c)
  <2>1. answer'[c].hash = HashOf[t] /\ UNCHANGED <<shown, reply>>
    BY <1>4 DEF ServeQuery, QuerySweep, QueryLook, clientVars, TypeOK
  <2>2. /\ t \in Tasks
        /\ answer'[c].status \in Active => PastWindow(t)
        /\ shown[c] /\ answer'[c].status \in {"absent", "Error"} => Spent(t)
    BY <1>4, <2>1, LookTells
  <2>3. current'[c] = t
    BY <1>4 DEF Rests
  <2> QED
    BY <1>1, <1>2, <2>1, <2>2, <2>3, NullAssumption DEF ToldActive, ToldGone, OnItsWay
<1>5. CASE Rests /\ ~(ServeQuery(c) /\ QueryLook(c))
  <2>1. (ToldActive(c)' => ToldActive(c)) /\ (ToldGone(c)' => ToldGone(c))
    BY <1>5, ToldKept
  <2>2. current'[c] = t
    BY <1>5 DEF Rests
  <2> QED  BY <1>1, <1>2, <1>3, <2>1, <2>2
<1>6. ASSUME NEW d \in Queriers, NEW u \in Tasks, Posts(d, u)
      PROVE  /\ ToldActive(c)' => current'[c] # NoTask /\ PastWindow(current[c])'
             /\ ToldGone(c)' => Spent(current[c])'
  <2>1. CASE c = d
    <3>1. shown'[c] = FALSE /\ qpc'[c] = "idle"
      BY <1>6, <2>1 DEF Posts, ClientTypeOK, MayRepeat, AtLoop, ClientInv, CurrentIsOwn, queryVars
    <3> QED  BY <3>1 DEF ToldActive, ToldGone, OnItsWay
  <2>2. CASE c # d
    <3>1. /\ shown'[c] = shown[c] /\ reply'[c] = reply[c] /\ current'[c] = t
          /\ qpc' = qpc /\ answer' = answer
      BY <1>6, <2>2 DEF Posts, ClientTypeOK, queryVars
    <3>2. (ToldActive(c)' => ToldActive(c)) /\ (ToldGone(c)' => ToldGone(c))
      BY <3>1 DEF ToldActive, ToldGone, OnItsWay
    <3> QED  BY <1>1, <1>2, <1>3, <3>1, <3>2
  <2> QED  BY <2>1, <2>2
<1> QED  BY <1>4, <1>5, <1>6, PostsOrRests

-----------------------------------------------------------------------------
(* The theorems.                                                            *)

\* What is known of a session of disciplined clients at every step.
SessionInv == TypeOK /\ ClientTypeOK /\ IInv /\ ClientInv

\* Two tasks of a hash in the window are of one client, and one of them is
\* older.
LEMMA NoneInWindow ==
  ASSUME OlderAreSpent'
  PROVE  NoOverlap'
<1> SUFFICES ASSUME NEW t \in Tasks, NEW u \in Tasks, pc'[t] = "insert", pc'[u] = "insert",
                    HashOf[t] = HashOf[u]
             PROVE  t = u
  BY DEF NoOverlap
<1>1. OwnerOf[t] = OwnerOf[u]
  BY OwnerAssumption
<1>2. t = current'[OwnerOf[t]] /\ u = current'[OwnerOf[u]]
  BY DEF OlderAreSpent, Spent, PastWindow
<1> QED  BY <1>1, <1>2

\* Every step of the session keeps the invariant and is one of SerialSpec.
LEMMA SessionInvStep ==
  ASSUME SessionInv, [ClientNext]_allVars, Disciplined
  PROVE  SessionInv' /\ [Next /\ NoOverlap']_vars
<1> USE DEF SessionInv
<1>1. [Next]_vars
  BY SessionStep
<1>2. TypeOK' /\ ClientTypeOK'
  BY <1>1, TypeStep, ClientTypeStep
<1>3. OlderAreSpent'
  BY OlderStep
<1>4. NoOverlap'
  BY <1>3, NoneInWindow
<1>5. [Next /\ NoOverlap']_vars
  BY <1>1, <1>4
<1>6. IInv'
  BY <1>5, InvariantStep DEF Disciplined
<1>7. ClientInv'
  BY <1>3, CurrentStep, ToldStep DEF ClientInv
<1> QED  BY <1>2, <1>5, <1>6, <1>7

\* At the start nothing is posted and nobody has been told anything.
LEMMA SessionInvInit == ClientInit => SessionInv
<1> SUFFICES ASSUME ClientInit PROVE SessionInv
  OBVIOUS
<1>1. TypeOK
  BY DEF ClientInit, Init, TypeOK, KeyShardContext, Pcs, EnclavePcs, Returns, Answers, NoAnswer,
     eKeyStatus
<1>2. IInv
  BY NullAssumption, HashAssumption DEF ClientInit, Init, IInv, RegistrySound, OwnsEntry,
     NoMemoryFault, FinishedMeansOver, StuckOnlyByLostCall, NoOverlap, NotCreatedYet,
     WindowIsFree, SucceededSoFar, MetaIsOwn, FailureIsError, PostedLast, Working, HashKnown,
     Posted, Final, Early
<1>3. ClientTypeOK
  BY DEF ClientInit, ClientTypeOK, Replies
<1>4. ClientInv
  BY DEF ClientInit, Init, ClientInv, OlderAreSpent, CurrentIsOwn, ShownIsPast, GoneIsSpent,
     ToldActive, ToldGone, OnItsWay
<1> QED  BY <1>1, <1>2, <1>3, <1>4 DEF SessionInv

\* Clients that post again only once an active status was followed by an
\* error, or by the absence of the hash, or that never do, keep the tasks of
\* a hash out of the window of each other (GenerateTask.cpp:90-100).
THEOREM ClientsKeepSerial ==
  ASSUME Disciplined
  PROVE  ClientSpec => TasksAreSerial
<1>1. ClientInit => Init /\ SessionInv
  BY SessionInvInit DEF ClientInit
<1>2. SessionInv /\ [ClientNext]_allVars => SessionInv' /\ [Next /\ NoOverlap']_vars
  BY SessionInvStep
<1> QED  BY <1>1, <1>2, PTL DEF ClientSpec, TasksAreSerial, SerialSpec

\* When such a client may post again, none of its tasks is at work or still
\* to check for a duplicate (main.cpp:90-91).
THEOREM RepeatsAreSafe ==
  ASSUME Disciplined
  PROVE  ClientSpec => []RepeatIsSafe
<1>1. ASSUME SessionInv PROVE RepeatIsSafe
  <2> SUFFICES ASSUME NEW c \in Queriers, NEW t \in Tasks, MayRepeat(c), OwnerOf[t] = c
               PROVE  ~Generating(t) /\ pc[t] \notin {"run", "sweep", "check"}
    BY DEF RepeatIsSafe
  <2>1. pc[t] # "new" => Spent(t)
    BY <1>1, RepeatsSpent DEF SessionInv, ClientInv, OlderAreSpent
  <2> QED
    BY <2>1 DEF Spent, PastWindow, Early, Working, HashKnown, Generating, Final, Pcs, EnclavePcs
<1>2. SessionInv /\ [ClientNext]_allVars => SessionInv'
  BY SessionInvStep
<1> QED  BY <1>1, <1>2, SessionInvInit, PTL DEF ClientSpec

\* With such clients the tasks are correct though nothing in the service
\* closes the window: one generation for a list at a time, no use of a
\* deleted context, and every report over its own key meta.
THEOREM ClientsAreServed ==
  ASSUME Disciplined
  PROVE  ClientSpec => [](OneGeneration /\ NoMemoryFault /\ ReportBindsOwnMeta)
<1>1. "report" \notin Faults
  BY DEF Disciplined
<1> QED
  BY <1>1, ClientsKeepSerial, GenerationExclusive, MemorySafe, ReportBound, PTL
     DEF TasksAreSerial

\* And the service keeps its promises to them: with such clients the tasks
\* and the registry implement the abstract service, whatever else fails
\* (main.cpp:89-97, GenerateTask.cpp:82-132, msg_handler.cpp:48-137).
THEOREM ClientsGetTheService ==
  ASSUME Disciplined
  PROVE  ClientSpec => ServiceSafety
<1>1. "report" \notin Faults
  BY DEF Disciplined
<1> QED
  BY <1>1, ClientsKeepSerial, ImplementsService, PTL DEF TasksAreSerial
=============================================================================
