---------------------------- MODULE KeyShardTask ----------------------------
(***************************************************************************)
(* Accepted key shard generation tasks and the enclave registry they share *)
(* (src/App/server/msg_handler.cpp, src/Enclave/Enclave.cpp,               *)
(* src/Enclave/tasks/GenerateTask.cpp and QueryTask.cpp).                  *)
(*                                                                         *)
(* One thread of the host runs each accepted request (GenerateKeyShard_    *)
(* Task); handler threads run queries.  They meet in the enclave, in       *)
(* g_keyContext_list: public key list hash |-> KeyShardContext*.  A task   *)
(* keeps the raw pointer of the context it created and uses it outside     *)
(* g_list_mutex, while every ecall_run sweeps the list and deletes.        *)
(*                                                                         *)
(* A critical section of g_list_mutex is one action: the SGX mutex refuses *)
(* an unlock by a thread that does not own it, so the second unlock of the *)
(* lock_guards has no effect.  A context is named by the task that         *)
(* allocated it, and so is the key meta that task generated.               *)
(***************************************************************************)
EXTENDS Integers, FiniteSets

CONSTANTS
  Tasks,       \* accepted generation requests, one thread each
  Queriers,    \* handler threads that serve queries
  Hashes,      \* public key list hashes
  HashOf,      \* the hash of the key list each task was submitted with
  NoTask,      \* null context, or the empty key_meta_hash
  Alive,       \* KEY_CONTEXT_ALIVE_DURATION
  MaxTime,     \* bound of the clock
  TCSNum,      \* threads the enclave admits at a time
  Faults,      \* what may go wrong in the run
  Unreachable  \* the requests whose webhook may be out of reach

AllFaults == {"request", "malloc", "keygen", "meta", "reply", "overread",
              "quote", "report", "clock"}

ASSUME NullAssumption   == NoTask \notin Tasks
ASSUME HashAssumption   == HashOf \in [Tasks -> Hashes]
ASSUME TimeAssumption   == Alive \in Nat /\ MaxTime \in Nat
ASSUME TCSAssumption    == TCSNum \in Nat \ {0}
ASSUME FaultAssumption  == Faults \subseteq AllFaults /\ Unreachable \subseteq Tasks
ASSUME FiniteAssumption == IsFiniteSet(Tasks) /\ IsFiniteSet(Queriers)

VARIABLES
  pc,        \* where each task's thread is
  ret,       \* its variable ret; "empty" is 0 with an empty reply
  seen,      \* the key meta its report was made from
  webhook,   \* what became of the post of its result
  asOf,      \* the current_time each thread's clear_context has read
  registry,  \* g_keyContext_list
  ctx,       \* the contexts on the enclave heap
  now,       \* the system time
  halted,    \* "no", or how the process ended
  qpc,       \* where each query is
  answer     \* what it is about to be told

taskVars  == <<pc, ret, seen, webhook>>
queryVars == <<qpc, answer>>
heapVars  == <<registry, ctx>>
vars == <<pc, ret, seen, webhook, asOf, registry, ctx, now, halted,
          qpc, answer>>

eKeyStatus == {"Unknown", "Generating", "Reporting", "Callback", "Finished", "Error"}

\* Inside ecall_run, ecall_create_report and ecall_set_generation_status.
EnclavePcs == {"sweep", "check", "insert", "keygen", "reply", "copyout",
               "readmeta", "report", "setreport", "setstatus"}
Pcs == EnclavePcs \cup {"new", "run", "parse", "target", "quote", "post",
                        "status", "done", "lost"}
Returns == {"ok", "empty", "rejected", "exists", "failed", "malloc", "tcs", "report"}

\* A query's reply: the hash asked for and the status shown.
NoAnswer == [status |-> "none"]
Answers  == [hash : Hashes, status : eKeyStatus \cup {"absent"}] \cup {NoAnswer}

\* "ended" is a history field, for FinishedStaysAlive: the system time at
\* which the status became Finished, where "finished" is what was stored.
KeyShardContext == [heap : {"none", "live", "freed"}, status : eKeyStatus,
                    meta : Tasks \cup {NoTask}, finished : Nat, ended : Nat]

TypeOK ==
  /\ pc \in [Tasks -> Pcs]
  /\ ret \in [Tasks -> Returns]
  /\ seen \in [Tasks -> Tasks \cup {NoTask}]
  /\ webhook \in [Tasks -> {"none", "delivered", "failed"}]
  /\ asOf \in [Tasks \cup Queriers -> Nat]
  /\ registry \in [Hashes -> Tasks \cup {NoTask}]
  /\ ctx \in [Tasks -> KeyShardContext]
  /\ now \in Nat
  /\ halted \in {"no", "terminate", "abort", "undefined"}
  /\ qpc \in [Queriers -> {"idle", "sweep", "look", "copyout"}]
  /\ answer \in [Queriers -> Answers]

Init ==
  /\ pc = [t \in Tasks |-> "new"]
  /\ ret = [t \in Tasks |-> "ok"]
  /\ seen = [t \in Tasks |-> NoTask]
  /\ webhook = [t \in Tasks |-> "none"]
  /\ asOf = [p \in Tasks \cup Queriers |-> 0]
  /\ registry = [h \in Hashes |-> NoTask]
  /\ ctx = [t \in Tasks |-> [heap |-> "none", status |-> "Unknown",
                             meta |-> NoTask, finished |-> 0, ended |-> 0]]
  /\ now = 0
  /\ halted = "no"
  /\ qpc = [q \in Queriers |-> "idle"]
  /\ answer = [q \in Queriers |-> NoAnswer]

-----------------------------------------------------------------------------
(* The enclave's helpers.                                                  *)

\* The threads inside the enclave, each on a TCS of its own.
Inside == {t \in Tasks : pc[t] \in EnclavePcs} \cup {q \in Queriers : qpc[q] # "idle"}
Admits == Cardinality(Inside) < TCSNum

\* (mutant: -1 for an error, as time() has it)
SystemTimeOrMinusOne == {now, -1}

\* get_system_time: 0 when the OCALL fails.
SystemTime == {now} \cup (IF "clock" \in Faults THEN {0} ELSE {})

\* (mutants: an age of exactly Alive counts; any status may expire)
ExpiredAtDuration(c, time) ==
  c.status \in {"Error", "Unknown"} \/ (c.status = "Finished" /\ time - c.finished >= Alive)

ExpiredByAge(c, time) ==
  c.status \in {"Error", "Unknown"} \/ time - c.finished > Alive

Expired(c, time) ==
  \/ c.status \in {"Error", "Unknown"}
  \/ c.status = "Finished" /\ time - c.finished > Alive

\* (mutant: deletes without erasing)
ClearContextKeepsEntries(time) ==
  LET gone == {h \in Hashes : registry[h] # NoTask /\ Expired(ctx[registry[h]], time)}
  IN  /\ ctx' = [u \in Tasks |-> IF \E h \in gone : registry[h] = u
                                   THEN [ctx[u] EXCEPT !.heap = "freed"] ELSE ctx[u]]
      /\ UNCHANGED registry

\* clear_context: delete the expired contexts of the list and their entries.
ClearContext(time) ==
  LET gone == {h \in Hashes : registry[h] # NoTask /\ Expired(ctx[registry[h]], time)}
  IN  /\ registry' = [h \in Hashes |-> IF h \in gone THEN NoTask ELSE registry[h]]
      /\ ctx' = [u \in Tasks |-> IF \E h \in gone : registry[h] = u
                                   THEN [ctx[u] EXCEPT !.heap = "freed"]
                                   ELSE ctx[u]]

\* malloc_outside: fails on an empty string, or when the host has no memory.
MallocOutcomes(empty) ==
  {failed \in BOOLEAN : (empty => failed) /\ (failed => empty \/ "malloc" \in Faults)}

Goto(t, from, to) == pc[t] = from /\ pc' = [pc EXCEPT ![t] = to]

\* The execution of t ends with error r; what follows is at "to".
Fail(t, from, r, to) == Goto(t, from, to) /\ ret' = [ret EXCEPT ![t] = r]

-----------------------------------------------------------------------------
(* A task: GenerateKeyShard_Task, ecall_run and GenerateTask::execute.      *)

\* The request is accepted and its thread started.
Submit(t) ==
  /\ Goto(t, "new", "run")
  /\ UNCHANGED <<ret, seen, webhook, asOf, heapVars, now, halted, queryVars>>

\* ecall_run admits the thread, which reads the time for its clear_context.
EnterRun(t) ==
  /\ \/ /\ Admits
        /\ Goto(t, "run", "sweep")
        /\ \E time \in SystemTime : asOf' = [asOf EXCEPT ![t] = time]
        /\ UNCHANGED ret
     \/ /\ ~Admits
        /\ Fail(t, "run", "tcs", "post")
        /\ UNCHANGED asOf
  /\ UNCHANGED <<seen, webhook, heapVars, now, halted, queryVars>>

Sweep(t) ==
  /\ Goto(t, "sweep", "check")
  /\ ClearContext(asOf[t])
  /\ asOf' = [asOf EXCEPT ![t] = 0]
  /\ UNCHANGED <<ret, seen, webhook, now, halted, queryVars>>

\* (mutant: the look-up is left out, std::map::insert is to see to it)
CheckDuplicateLater(t) ==
  /\ Goto(t, "check", "insert")
  /\ ctx' = [ctx EXCEPT ![t] = [@ EXCEPT !.heap = "live", !.status = "Generating"]]
  /\ UNCHANGED <<ret, seen, webhook, asOf, registry, now, halted, queryVars>>

\* (mutant: the context keeps the status of its constructor)
CheckDuplicateUnknown(t) ==
  /\ registry[HashOf[t]] = NoTask
  /\ Goto(t, "check", "insert")
  /\ ctx' = [ctx EXCEPT ![t].heap = "live"]
  /\ UNCHANGED <<ret, seen, webhook, asOf, registry, now, halted, queryVars>>

\* Look the hash up under the lock; unlock it, and allocate the context.
\* "rejected": the request is empty, does not parse or cannot be hashed, or
\* there is no memory for the context.
CheckDuplicate(t) ==
  /\ \/ /\ registry[HashOf[t]] # NoTask
        /\ Fail(t, "check", "exists", "copyout")
        /\ UNCHANGED ctx
     \/ /\ "request" \in Faults
        /\ Fail(t, "check", "rejected", "copyout")
        /\ UNCHANGED ctx
     \/ /\ registry[HashOf[t]] = NoTask
        /\ Goto(t, "check", "insert")
        /\ ctx' = [ctx EXCEPT ![t] = [@ EXCEPT !.heap = "live", !.status = "Generating"]]
        /\ UNCHANGED ret
  /\ UNCHANGED <<seen, webhook, asOf, registry, now, halted, queryVars>>

\* std::map::insert: no effect if the hash has an entry by now.
Insert(t) ==
  /\ Goto(t, "insert", "keygen")
  /\ registry' = [registry EXCEPT ![HashOf[t]] = IF @ = NoTask THEN t ELSE @]
  /\ UNCHANGED <<ret, seen, webhook, asOf, ctx, now, halted, queryVars>>

\* (mutant: the hash of the key meta is not stored in the context)
GenerateKeyKeepsMeta(t) ==
  /\ ctx[t].heap = "live"
  /\ Goto(t, "keygen", "reply")
  /\ UNCHANGED <<ret, seen, webhook, asOf, heapVars, now, halted, queryVars>>

\* GenerateKey and the hash of the key meta.  A failed GenerateKey returns
\* false, which is TEE_OK, with an empty reply.
GenerateKey(t) ==
  /\ ctx[t].heap = "live"
  /\ \/ /\ Goto(t, "keygen", "reply")
        /\ ctx' = [ctx EXCEPT ![t].meta = t]
        /\ UNCHANGED ret
     \/ \E fault \in Faults \cap {"keygen", "meta"} :
        /\ Fail(t, "keygen", IF fault = "keygen" THEN "empty" ELSE "failed", "copyout")
        /\ ctx' = [ctx EXCEPT ![t].status = "Error"]
  /\ UNCHANGED <<seen, webhook, asOf, registry, now, halted, queryVars>>

\* get_reply_string, and the end of GenerateTask::execute.
ReplyString(t) ==
  /\ ctx[t].heap = "live"
  /\ \/ /\ Goto(t, "reply", "copyout")
        /\ ctx' = [ctx EXCEPT ![t].status = "Reporting"]
        /\ UNCHANGED ret
     \/ /\ "reply" \in Faults
        /\ Fail(t, "reply", "failed", "copyout")
        /\ ctx' = [ctx EXCEPT ![t].status = "Error"]
  /\ UNCHANGED <<seen, webhook, asOf, registry, now, halted, queryVars>>

\* The task writes to its context after the delete of it: undefined
\* behaviour, and nothing is said of what follows.
UseFreedContext(t) ==
  /\ pc[t] \in {"keygen", "reply"}
  /\ ctx[t].heap = "freed"
  /\ halted' = "undefined"
  /\ UNCHANGED <<taskVars, asOf, heapVars, now, queryVars>>

\* (mutant: the host returns on an error, without the jump to the post)
CopyOutReturns(t) ==
  /\ \E failed \in MallocOutcomes(ret[t] = "empty") :
       IF failed
         THEN Fail(t, "copyout", "malloc", "done")
         ELSE Goto(t, "copyout", IF ret[t] = "ok" THEN "parse" ELSE "done") /\ UNCHANGED ret
  /\ UNCHANGED <<seen, webhook, asOf, heapVars, now, halted, queryVars>>

\* (mutant: the host makes the call again)
CopyOutRetries(t) ==
  /\ \E failed \in MallocOutcomes(ret[t] = "empty") :
       IF failed
         THEN Fail(t, "copyout", "ok", "run")
         ELSE Goto(t, "copyout", IF ret[t] = "ok" THEN "parse" ELSE "post") /\ UNCHANGED ret
  /\ UNCHANGED <<seen, webhook, asOf, heapVars, now, halted, queryVars>>

\* The end of ecall_run: the reply or the error message leaves the enclave.
CopyOut(t) ==
  /\ \E failed \in MallocOutcomes(ret[t] = "empty") :
       IF failed
         THEN Fail(t, "copyout", "malloc", "post")
         ELSE Goto(t, "copyout", IF ret[t] = "ok" THEN "parse" ELSE "post") /\ UNCHANGED ret
  /\ UNCHANGED <<seen, webhook, asOf, heapVars, now, halted, queryVars>>

\* The host parses the reply as a C string, which the enclave did not
\* terminate: when the next byte is not 0 the parser throws, no handler
\* catches it and the process ends.
ParseResult(t) ==
  \/ /\ Goto(t, "parse", "target")
     /\ UNCHANGED <<ret, seen, webhook, asOf, heapVars, now, halted, queryVars>>
  \/ /\ pc[t] = "parse"
     /\ "overread" \in Faults
     /\ halted' = "terminate"
     /\ UNCHANGED <<taskVars, asOf, heapVars, now, queryVars>>

\* GenerateEnclaveReport up to the entry of ecall_create_report.
TargetInfo(t) ==
  /\ \/ /\ Admits
        /\ Goto(t, "target", "readmeta")
        /\ UNCHANGED ret
     \/ /\ "quote" \in Faults \/ ~Admits
        /\ Fail(t, "target", "report", "post")
  /\ UNCHANGED <<seen, webhook, asOf, heapVars, now, halted, queryVars>>

\* ecall_create_report, first critical section: copy the key meta hash of
\* whatever context the list now holds for the hash.
ReadMeta(t) ==
  /\ \/ /\ registry[HashOf[t]] = NoTask
        /\ Fail(t, "readmeta", "report", "post")
        /\ UNCHANGED seen
     \/ /\ registry[HashOf[t]] # NoTask
        /\ Goto(t, "readmeta", "report")
        /\ seen' = [seen EXCEPT ![t] = ctx[registry[HashOf[t]]].meta]
        /\ UNCHANGED ret
  /\ UNCHANGED <<webhook, asOf, heapVars, now, halted, queryVars>>

\* The hash of both hashes and sgx_create_report, outside the lock.
CreateReport(t) ==
  /\ \/ /\ Goto(t, "report", "setreport")
        /\ UNCHANGED ret
     \/ /\ "report" \in Faults
        /\ Fail(t, "report", "report", "setreport")
  /\ UNCHANGED <<seen, webhook, asOf, heapVars, now, halted, queryVars>>

\* (mutant: finished as soon as the report is there)
SetReportStatusFinished(t) ==
  /\ registry[HashOf[t]] # NoTask
  /\ Goto(t, "setreport", "quote")
  /\ ctx' = [ctx EXCEPT ![registry[HashOf[t]]].status = "Finished"]
  /\ UNCHANGED <<ret, seen, webhook, asOf, registry, now, halted, queryVars>>

\* Second critical section.  at() throws when the entry is gone, and an
\* exception that leaves an ECALL aborts the enclave.
SetReportStatus(t) ==
  \/ /\ registry[HashOf[t]] # NoTask
     /\ Goto(t, "setreport", IF ret[t] = "ok" THEN "quote" ELSE "post")
     /\ ctx' = [ctx EXCEPT ![registry[HashOf[t]]].status =
                             IF ret[t] = "ok" THEN "Callback" ELSE "Error"]
     /\ UNCHANGED <<ret, seen, webhook, asOf, registry, now, halted, queryVars>>
  \/ /\ registry[HashOf[t]] = NoTask
     /\ pc[t] = "setreport"
     /\ halted' = "abort"
     /\ UNCHANGED <<taskVars, asOf, heapVars, now, queryVars>>

\* The rest of GenerateEnclaveReport: the quote over the report.
GetQuote(t) ==
  /\ \/ /\ Goto(t, "quote", "post")
        /\ UNCHANGED ret
     \/ /\ "quote" \in Faults
        /\ Fail(t, "quote", "report", "post")
  /\ UNCHANGED <<seen, webhook, asOf, heapVars, now, halted, queryVars>>

\* PostRequest(...).wait(): key shards when ret is "ok", an error otherwise.
\* It returns whatever status code the client answers; it throws when the
\* client is out of reach, and the result is dropped.
Post(t) ==
  /\ Goto(t, "post", "status")
  /\ \E outcome \in {"delivered"} \cup (IF t \in Unreachable THEN {"failed"} ELSE {}) :
       webhook' = [webhook EXCEPT ![t] = outcome]
  /\ UNCHANGED <<ret, seen, asOf, heapVars, now, halted, queryVars>>

\* ecall_set_generation_status.  The host ignores its sgx_status, so a call
\* that is not admitted is lost.
EnterStatus(t) ==
  /\ Goto(t, "status", IF Admits THEN "setstatus" ELSE "lost")
  /\ UNCHANGED <<ret, seen, webhook, asOf, heapVars, now, halted, queryVars>>

\* (mutant: the hash is dropped with the reply when the report fails)
HashKnownOnSuccess(t) == ret[t] = "ok"

\* pubkey_list_hash is set once ecall_run succeeded; before that it is "".
HashKnown(t) == ret[t] \in {"ok", "report"}

\* (mutant: finished in the exception handler too)
SetStatusFinished(t) ==
  /\ Goto(t, "setstatus", "done")
  /\ IF HashKnown(t) /\ registry[HashOf[t]] # NoTask
       THEN ctx' = [ctx EXCEPT ![registry[HashOf[t]]] =
                      [@ EXCEPT !.status = "Finished", !.finished = now, !.ended = now]]
       ELSE UNCHANGED ctx
  /\ UNCHANGED <<ret, seen, webhook, asOf, registry, now, halted, queryVars>>

SetStatus(t) ==
  /\ Goto(t, "setstatus", "done")
  /\ IF HashKnown(t) /\ registry[HashOf[t]] # NoTask
       THEN \E time \in SystemTime :
              ctx' = [ctx EXCEPT ![registry[HashOf[t]]] =
                        IF webhook[t] = "delivered"
                          THEN [@ EXCEPT !.status = "Finished", !.finished = time,
                                         !.ended = now]
                          ELSE [@ EXCEPT !.status = "Error"]]
       ELSE UNCHANGED ctx
  /\ UNCHANGED <<ret, seen, webhook, asOf, registry, now, halted, queryVars>>

TaskStep(t) ==
  \/ EnterRun(t) \/ Sweep(t) \/ CheckDuplicate(t) \/ Insert(t)
  \/ GenerateKey(t) \/ ReplyString(t) \/ UseFreedContext(t) \/ CopyOut(t)
  \/ ParseResult(t) \/ TargetInfo(t) \/ ReadMeta(t) \/ CreateReport(t)
  \/ SetReportStatus(t) \/ GetQuote(t) \/ Post(t) \/ EnterStatus(t) \/ SetStatus(t)

-----------------------------------------------------------------------------
(* A query: QueryKeyShardState, ecall_run and QueryTask::execute.           *)

\* A query that is not admitted is answered with an error.
QueryEnter(q) ==
  /\ Admits
  /\ qpc[q] = "idle"
  /\ qpc' = [qpc EXCEPT ![q] = "sweep"]
  /\ \E time \in SystemTime : asOf' = [asOf EXCEPT ![q] = time]
  /\ UNCHANGED <<taskVars, heapVars, now, halted, answer>>

QuerySweep(q) ==
  /\ qpc[q] = "sweep"
  /\ qpc' = [qpc EXCEPT ![q] = "look"]
  /\ ClearContext(asOf[q])
  /\ asOf' = [asOf EXCEPT ![q] = 0]
  /\ UNCHANGED <<taskVars, now, halted, answer>>

QueryLook(q) ==
  /\ qpc[q] = "look"
  /\ qpc' = [qpc EXCEPT ![q] = "copyout"]
  /\ \E h \in Hashes :
       answer' = [answer EXCEPT ![q] =
         [hash |-> h, status |-> IF registry[h] = NoTask THEN "absent"
                                                         ELSE ctx[registry[h]].status]]
  /\ UNCHANGED <<taskVars, asOf, heapVars, now, halted>>

\* The reply leaves the enclave; when it cannot be copied, or does not parse
\* for want of a terminator, the client receives an error instead.
QueryReturn(q) ==
  /\ qpc[q] = "copyout"
  /\ qpc' = [qpc EXCEPT ![q] = "idle"]
  /\ answer' = [answer EXCEPT ![q] = NoAnswer]
  /\ UNCHANGED <<taskVars, asOf, heapVars, now, halted>>

QueryStep(q) == QueryEnter(q) \/ QuerySweep(q) \/ QueryLook(q) \/ QueryReturn(q)

-----------------------------------------------------------------------------
Tick ==
  /\ now < MaxTime
  /\ now' = now + 1
  /\ UNCHANGED <<taskVars, asOf, heapVars, halted, queryVars>>

Next ==
  /\ halted = "no"
  /\ \/ \E t \in Tasks : Submit(t) \/ TaskStep(t)
     \/ \E q \in Queriers : QueryStep(q)
     \/ Tick

Fairness == \A t \in Tasks : WF_vars(halted = "no" /\ TaskStep(t))

Spec == Init /\ [][Next]_vars /\ Fairness

-----------------------------------------------------------------------------
(* Correctness.                                                            *)

Final == {"done", "lost"}

\* t has created its context and may still use it or its entry.
Working(t) == /\ pc[t] \in Pcs \ ({"new", "run", "sweep", "check", "insert"} \cup Final)
              /\ HashKnown(t)

\* t generates, certifies or posts key shards.
Generating(t) == /\ pc[t] \in Pcs \ ({"new", "run", "sweep", "check", "status", "setstatus"} \cup Final)
                 /\ ret[t] = "ok"

\* An entry of g_keyContext_list points to a context that has not been
\* deleted and that was made for the hash it is filed under (Enclave.cpp:99,
\* 242, 253; every user of the list dereferences what it finds there).
RegistrySound ==
  \A h \in Hashes : registry[h] # NoTask =>
    ctx[registry[h]].heap = "live" /\ HashOf[registry[h]] = h

\* Two requests for the same public key list are never generated at the
\* same time (GenerateTask.cpp:82-90).
OneGeneration ==
  \A t, u \in Tasks : Generating(t) /\ Generating(u) /\ HashOf[t] = HashOf[u] => t = u

\* Until its task is over the entry of a hash stays, is the task's own, and
\* does not look finished or failed: so the raw pointer of the task is good
\* at GenerateTask.cpp:108-132, at() finds the entry at Enclave.cpp:215, and
\* the status the task sets last is that of its own context.
OwnsEntry ==
  \A t \in Tasks : Working(t) =>
    /\ registry[HashOf[t]] = t
    /\ ctx[t].status \in {"Generating", "Reporting", "Callback"}

\* The enclave is never aborted and no deleted context is written.
NoMemoryFault == halted \notin {"abort", "undefined"}

\* Key shards leave with a report over the key meta of these key shards
\* (Enclave.cpp:184-202, README.md "User Data").
ReportBindsOwnMeta ==
  \A t \in Tasks : webhook[t] # "none" /\ ret[t] = "ok" => seen[t] = t

\* A client is told that its request is finished only when the service has
\* posted a result for that hash, key shards or an error, without an exception
\* (msg_handler.cpp:117-120, QueryTask.cpp:61-63).  Of what was posted, and
\* of the client's answer to it, nothing is said.
FinishedMeansPosted ==
  \A q \in Queriers : answer[q].status = "Finished" =>
    \E t \in Tasks : HashOf[t] = answer[q].hash /\ webhook[t] = "delivered"

\* A context whose status is Finished belongs to a task that is over
\* (TaskConstant.h:30, "the task is finished"; only such a context expires).
FinishedMeansOver ==
  \A h \in Hashes : registry[h] # NoTask /\ ctx[registry[h]].status = "Finished" =>
    pc[registry[h]] = "done"

\* A task that is over leaves an entry no sweep will ever remove only when
\* its reply could not be copied out of the enclave or when its last ECALL
\* was refused (msg_handler.cpp:82-88, 119).
StuckOnlyByLostCall ==
  \A h \in Hashes :
    LET u == registry[h]
    IN  u # NoTask /\ pc[u] \in Final /\ ctx[u].status \notin {"Finished", "Error"} =>
          ret[u] = "malloc" \/ pc[u] = "lost"

\* An entry stays for KEY_CONTEXT_ALIVE_DURATION from the time its status
\* became Finished, though the sweeps compare with a time read before they
\* took the lock (Enclave.cpp:234-249).  Only where the clock does not fail:
\* get_system_time gives 0 then, which Enclave.cpp:155 stores, and the next
\* sweep removes the entry at once.
FinishedStaysAlive ==
  [][\A h \in Hashes :
       /\ registry[h] # NoTask /\ registry'[h] = NoTask
       /\ ctx[registry[h]].status = "Finished"
       => now - ctx[registry[h]].ended > Alive]_vars

\* Every accepted request whose webhook can be reached is answered through
\* it, whatever fails (msg_handler.cpp:116-124: every path of the task leads
\* to the post).
AcceptedIsAnswered ==
  \A t \in Tasks \ Unreachable : pc[t] = "run" ~> webhook[t] = "delivered"

-----------------------------------------------------------------------------
(* The window of GenerateTask.cpp:90-100: the lock is released between the *)
(* look-up of a hash and its insertion.  SerialSpec is the system in which *)
(* no two tasks of one hash are in the window together; the repetitions of *)
(* a request are otherwise as free as in Spec.                             *)

NoOverlap ==
  \A t, u \in Tasks : pc[t] = "insert" /\ pc[u] = "insert" /\ HashOf[t] = HashOf[u] => t = u

SerialSpec == Init /\ [][Next /\ NoOverlap']_vars

SerialFairSpec == SerialSpec /\ Fairness

\* What makes the safety properties inductive in SerialSpec: what is known
\* of a task's context and of its return code at each point of its thread.
Early == {"new", "run", "sweep", "check"}
Posted == {"status", "setstatus"} \cup Final

\* No context before it is created, and none for a task that was refused.
NotCreatedYet ==
  \A t \in Tasks : pc[t] \in Early \/ ret[t] \in {"rejected", "exists", "tcs"} => ctx[t].heap = "none"

\* In the window the context is complete and the hash still free.
WindowIsFree ==
  \A t \in Tasks : pc[t] = "insert" =>
    /\ registry[HashOf[t]] = NoTask
    /\ ctx[t].heap = "live" /\ ctx[t].status = "Generating"

\* Nothing has failed where the thread goes on only after a success.
SucceededSoFar ==
  \A t \in Tasks :
    pc[t] \in Early \cup {"insert", "keygen", "reply", "parse", "target", "readmeta",
                          "report", "setreport", "quote"} => ret[t] = "ok"

MetaIsOwn ==
  \A t \in Tasks :
    /\ Working(t) /\ pc[t] # "keygen" => ctx[t].meta = t
    /\ ret[t] = "ok" /\ pc[t] \in {"report", "setreport", "quote", "post"} \cup Posted
         => seen[t] = t

FailureIsError ==
  \A t \in Tasks : ret[t] \in {"failed", "empty"} => ctx[t].status = "Error"

PostedLast == \A t \in Tasks : webhook[t] # "none" <=> pc[t] \in Posted

IInv ==
  /\ RegistrySound /\ OwnsEntry /\ NoMemoryFault /\ FinishedMeansOver /\ StuckOnlyByLostCall
  /\ NoOverlap /\ NotCreatedYet /\ WindowIsFree /\ SucceededSoFar /\ MetaIsOwn
  /\ FailureIsError /\ PostedLast

\* What makes RegistrySound and FinishedMeansPosted inductive in Spec, where
\* tasks of one hash may race in the window; FinishedStaysAlive follows from
\* it and from EndIsRecorded.
WindowIsOwn ==
  \A t \in Tasks : pc[t] = "insert" =>
    /\ ctx[t].heap = "live" /\ ctx[t].status = "Generating"
    /\ registry[HashOf[t]] # t

FinishedEntryPosted ==
  \A h \in Hashes : registry[h] # NoTask /\ ctx[registry[h]].status = "Finished" =>
    \E t \in Tasks : HashOf[t] = h /\ webhook[t] = "delivered"

SweepTimePast == \A p \in Tasks \cup Queriers : asOf[p] <= now

RaceInv ==
  /\ RegistrySound /\ FinishedMeansPosted
  /\ WindowIsOwn /\ FinishedEntryPosted /\ PostedLast /\ SweepTimePast

\* What is stored at the end of a task is the time, unless the clock fails.
EndIsRecorded ==
  "clock" \notin Faults => \A t \in Tasks : ctx[t].finished = ctx[t].ended

-----------------------------------------------------------------------------
(* The service this implements: a task is the request it was accepted for. *)

Phase(t) ==
  CASE pc[t] = "new" -> "new"
    [] pc[t] \in {"status", "setstatus"} \cup Final -> "answered"
    [] pc[t] \in Pcs \ ({"new", "status", "setstatus"} \cup Final) /\ ret[t] # "ok" -> "failed"
    [] pc[t] \in {"run", "sweep", "check"} /\ ret[t] = "ok" -> "accepted"
    [] OTHER -> "generating"

Result(t) ==
  IF webhook[t] = "none" THEN "none" ELSE IF ret[t] = "ok" THEN seen[t] ELSE "error"

Service == INSTANCE ShardService WITH
  Requests <- Tasks, ListOf <- HashOf, None <- "none", Error <- "error",
  phase <- [t \in Tasks |-> Phase(t)], result <- [t \in Tasks |-> Result(t)]

ServiceSafety == Service!Safety
ServiceSpec   == Service!Spec

=============================================================================
