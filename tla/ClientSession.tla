---------------------------- MODULE ClientSession ----------------------------
(***************************************************************************)
(* Clients of the service (src/test/main.cpp) together with the tasks and  *)
(* queries they cause (KeyShardTask), over the HTTP interface              *)
(* (listen_svr::HandleMessage and msg_handler::process).                   *)
(*                                                                         *)
(* A client makes fresh key pairs, so its public key list is its own; it   *)
(* posts a generation request and then, in a loop, asks for the status     *)
(* until its listener has received a result.  The client of the repository *)
(* posts once; a comment on its loop says when one may post again          *)
(* (main.cpp:89-91), and Repeats says what the clients of a run make of it.*)
(***************************************************************************)
EXTENDS KeyShardTask

CONSTANTS
  OwnerOf,   \* the client that may post each request; clients are Queriers
  Repeats    \* "never": posts once; "said": as the comment has it;
             \* "shown": only after an active status has been shown

ASSUME OwnerAssumption ==
  /\ OwnerOf \in [Tasks -> Queriers]
  /\ \A t, u \in Tasks : HashOf[t] = HashOf[u] <=> OwnerOf[t] = OwnerOf[u]
ASSUME RepeatAssumption == Repeats \in {"never", "said", "shown"}
\* A client that is gone receives nothing.
ASSUME GoneAssumption == Unreachable = Tasks

VARIABLES
  stage,     \* where the client's main is
  current,   \* the request it posted last
  shown,     \* since then a status said that the task is at work
  reply,     \* the answer to its last query
  received,  \* g_result_received
  handed     \* tasks whose result HandleMessage has announced, not stored

clientVars == <<stage, current, shown, reply, received, handed>>
allVars    == <<vars, clientVars>>

Active  == {"Generating", "Reporting", "Callback"}
Replies == eKeyStatus \cup {"none", "absent", "failed"}

ClientTypeOK ==
  /\ stage \in [Queriers -> {"start", "waiting", "over"}]
  /\ current \in [Queriers -> Tasks \cup {NoTask}]
  /\ shown \in [Queriers -> BOOLEAN]
  /\ reply \in [Queriers -> Replies]
  /\ received \in [Queriers -> BOOLEAN]
  /\ handed \subseteq Tasks

ClientInit ==
  /\ Init
  /\ stage = [c \in Queriers |-> "start"]
  /\ current = [c \in Queriers |-> NoTask]
  /\ shown = [c \in Queriers |-> FALSE]
  /\ reply = [c \in Queriers |-> "none"]
  /\ received = [c \in Queriers |-> FALSE]
  /\ handed = {}

-----------------------------------------------------------------------------
(* The client's main.                                                      *)

\* The head of the loop, with no result yet.
AtLoop(c) == stage[c] = "waiting" /\ qpc[c] = "idle" /\ ~received[c]

\* (mutant: as the comment has it)
MayRepeatAsSaid(c) ==
  AtLoop(c) /\ reply[c] \in {"failed", "absent", "Unknown", "Error"}

\* "You can post a generation request again if query request's response is
\* failed or current status is unknown or error."  Code and message of the
\* response tell a query that failed from a hash that is not there.
MayRepeat(c) ==
  /\ AtLoop(c)
  /\ \/ Repeats = "said" /\ reply[c] \in {"failed", "absent", "Unknown", "Error"}
     \/ Repeats = "shown" /\ shown[c] /\ reply[c] \in {"absent", "Error"}

\* PostGenerateKeyShareRequest: accepted, with the response received or
\* lost, or refused (the thread pool is full, ThreadPool; the checks are
\* those of ShardRequest).
PostGenerateKeyShareRequest(c) ==
  /\ stage[c] = "start" \/ MayRepeat(c)
  /\ \/ \E t \in Tasks :
          /\ OwnerOf[t] = c
          /\ Submit(t)
          /\ \E s \in {"waiting", "over"} : stage' = [stage EXCEPT ![c] = s]
          /\ current' = [current EXCEPT ![c] = t]
          /\ shown' = [shown EXCEPT ![c] = FALSE]
          /\ reply' = [reply EXCEPT ![c] = "none"]
     \/ /\ stage' = [stage EXCEPT ![c] = "over"]
        /\ UNCHANGED <<vars, current, shown, reply>>
  /\ UNCHANGED <<received, handed>>

\* PostQueryStatusRequest: the enclave admits the query, or the service
\* answers with an error.
PostQueryStatusRequest(c) ==
  /\ AtLoop(c)
  /\ \/ QueryEnter(c) /\ UNCHANGED reply
     \/ ~Admits /\ reply' = [reply EXCEPT ![c] = "failed"] /\ UNCHANGED vars
  /\ UNCHANGED <<stage, current, shown, received, handed>>

\* The query in the enclave; it names the hash of the client's list.
ServeQuery(c) ==
  /\ \/ QuerySweep(c)
     \/ QueryLook(c) /\ answer'[c].hash = HashOf[current[c]]
  /\ UNCHANGED clientVars

\* The response: what the enclave found, or that the query failed.
ReceiveStatus(c) ==
  /\ QueryReturn(c)
  /\ \E r \in {answer[c].status, "failed"} :
       /\ reply' = [reply EXCEPT ![c] = r]
       /\ shown' = [shown EXCEPT ![c] = @ \/ r \in Active]
  /\ UNCHANGED <<stage, current, received, handed>>

\* The result is there; main parses it and ends, whatever it says.
LeaveLoop(c) ==
  /\ stage[c] = "waiting" /\ qpc[c] = "idle" /\ received[c]
  /\ stage' = [stage EXCEPT ![c] = "over"]
  /\ UNCHANGED <<vars, current, shown, reply, received, handed>>

\* The connection breaks during a query: the exception ends the client.
LoseConnection(c) ==
  /\ stage[c] = "waiting" /\ qpc[c] # "idle"
  /\ stage' = [stage EXCEPT ![c] = "over"]
  /\ UNCHANGED <<vars, current, shown, reply, received, handed>>

-----------------------------------------------------------------------------
(* The client's listener, on another thread, receives what the task posts. *)

\* (mutant: only key shards count as a result)
AnnounceKeyShards(t) ==
  /\ pc[t] = "post" /\ t \notin handed /\ stage[OwnerOf[t]] # "over"
  /\ received' = [received EXCEPT ![OwnerOf[t]] = ret[t] = "ok"]
  /\ handed' = handed \cup {t}
  /\ UNCHANGED <<vars, stage, current, shown, reply>>

\* HandleMessage sets g_result_received ...
AnnounceResult(t) ==
  /\ pc[t] = "post" /\ t \notin handed /\ stage[OwnerOf[t]] # "over"
  /\ received' = [received EXCEPT ![OwnerOf[t]] = TRUE]
  /\ handed' = handed \cup {t}
  /\ UNCHANGED <<vars, stage, current, shown, reply>>

\* ... then stores the result and replies: the post is delivered.
StoreResult(t) ==
  /\ t \in handed
  /\ Post(t) /\ webhook'[t] = "delivered"
  /\ handed' = handed \ {t}
  /\ UNCHANGED <<stage, current, shown, reply, received>>

\* The post fails: nobody listens, or the reply is lost.
PostFails(t) ==
  /\ Post(t) /\ webhook'[t] = "failed"
  /\ handed' = handed \ {t}
  /\ UNCHANGED <<stage, current, shown, reply, received>>

\* The steps of the task in the service.
ServeTask(t) ==
  /\ pc[t] # "post" /\ TaskStep(t)
  /\ UNCHANGED clientVars

PassTime == Tick /\ UNCHANGED clientVars

ClientNext ==
  /\ halted = "no"
  /\ \/ \E c \in Queriers :
          \/ PostGenerateKeyShareRequest(c) \/ PostQueryStatusRequest(c) \/ ServeQuery(c)
          \/ ReceiveStatus(c) \/ LeaveLoop(c) \/ LoseConnection(c)
     \/ \E t \in Tasks : AnnounceResult(t) \/ StoreResult(t) \/ PostFails(t) \/ ServeTask(t)
     \/ PassTime

\* Threads of the service run on; the client's listener takes what is
\* posted while it is there, and its main leaves the loop.
ClientFairness ==
  /\ \A t \in Tasks :
       /\ WF_allVars(halted = "no" /\ ServeTask(t))
       /\ WF_allVars(halted = "no" /\ AnnounceResult(t))
  /\ \A c \in Queriers :
       /\ WF_allVars(halted = "no" /\ (ServeQuery(c) \/ ReceiveStatus(c)))
       /\ WF_allVars(halted = "no" /\ LeaveLoop(c))

ClientSpec == ClientInit /\ [][ClientNext]_allVars /\ ClientFairness

-----------------------------------------------------------------------------
(* Correctness.                                                            *)

\* When a client may post its request again none of its requests generates
\* key shards or is still to check for a duplicate (main.cpp:90-91 beside
\* GenerateTask.cpp:82-100).
RepeatIsSafe ==
  \A c \in Queriers, t \in Tasks :
    MayRepeat(c) /\ OwnerOf[t] = c =>
      ~Generating(t) /\ pc[t] \notin {"run", "sweep", "check"}

\* With such clients no two tasks of one hash are ever in the window
\* between the look-up and the insertion: SerialSpec, under which the tasks
\* are correct, is what they do (GenerateTask.cpp:90-100).
TasksAreSerial == SerialSpec

\* A client that waits comes to an end, unless a post to it failed or the
\* service has ended: the loop that asks for the status has no other way
\* out (main.cpp:92-102).
ClientIsAnswered ==
  \A c \in Queriers :
    stage[c] = "waiting" ~>
      \/ stage[c] = "over" \/ halted # "no"
      \/ \E t \in Tasks : OwnerOf[t] = c /\ webhook[t] = "failed"

-----------------------------------------------------------------------------
(* What makes TasksAreSerial inductive.                                    *)

PastWindow(t) == pc[t] \notin Early \cup {"insert"}

\* t will not touch an entry of the list again, and no status says it will.
Spent(t) ==
  /\ PastWindow(t) /\ ~Working(t)
  /\ registry[HashOf[t]] = t => ctx[t].status \notin Active

\* Of the requests a client has posted only the last may be at work.
OlderAreSpent ==
  \A t \in Tasks : pc[t] # "new" /\ t # current[OwnerOf[t]] => Spent(t)

\* A status that is on its way to client c.
OnItsWay(c, statuses) == qpc[c] = "copyout" /\ answer[c].status \in statuses

CurrentIsOwn ==
  \A c \in Queriers :
    /\ stage[c] = "start" => qpc[c] = "idle" /\ current[c] = NoTask
    /\ current[c] = NoTask <=> \A t \in Tasks : OwnerOf[t] = c => pc[t] = "new"
    /\ current[c] # NoTask => OwnerOf[current[c]] = c
    /\ stage[c] = "waiting" \/ qpc[c] # "idle" => current[c] # NoTask

\* c was told, or is about to be told, that its task is at work, or no more.
ToldActive(c) == shown[c] \/ OnItsWay(c, Active)
ToldGone(c) ==
  shown[c] /\ (reply[c] \in {"absent", "Error"} \/ OnItsWay(c, {"absent", "Error"}))

ShownIsPast ==
  \A c \in Queriers : ToldActive(c) => current[c] # NoTask /\ PastWindow(current[c])

GoneIsSpent == \A c \in Queriers : ToldGone(c) => Spent(current[c])

ClientInv == OlderAreSpent /\ CurrentIsOwn /\ ShownIsPast /\ GoneIsSpent
=============================================================================
