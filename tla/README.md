# A verification of the key shard service

TLA+ models of the RSA key sharding service of this repository
(`src/`, an HTTP host in `App/`, an SGX enclave in `Enclave/`, a test client in
`test/`), the TLC runs that check them on small instances, and theorems about
them that TLAPS proves for every instance.

A reader in a hurry: sections 3 (modules) and 4 (runs), `KeyShardTask.tla`
from its heading "Correctness" on, and `ClientSession.tla`.

## 1. The system and its parts

A client posts a generation request: `l` public keys, a threshold `k`, a key
length and a webhook. The host checks it, starts a thread for it and replies at
once. The thread enters the enclave (`ecall_run`), which generates the key and its
shards, encrypts each shard with the public key it is for, and returns them; it
then has the enclave certified (`ecall_create_report`, a quote) and posts
everything to the webhook. The SHA-256 hash of the sorted key list is the name
of the request in the enclave: it tells repetitions, and clients ask for the
status of their request by it.

| Part | State it keeps | Operations | Interacts with |
|---|---|---|---|
| Task thread, `msg_handler.cpp` `GenerateKeyShard_Task`, `GenerateEnclaveReport`; `listen_svr.cpp` `PostRequest` | where the thread is, its return code, the reply | run, certify, post, set the last status | the enclave (four ECALLs per task), the client's webhook |
| Registry of contexts, `Enclave.cpp`, `TaskConstant.h` | `g_keyContext_list`: hash -> `KeyShardContext*`, under `g_list_mutex` | sweep (in every `ecall_run`), look up, insert, set status | every task and every query |
| `GenerateTask`, `QueryTask` | the raw pointer of the context they made or found | `execute` | the registry, the crypto libraries, `get_system_time` |
| Thread pool, `msg_handler.cpp:355-452`, `thread_task.cpp` | `s_thread_pool` under `s_thread_lock`, `stopped_` of each task | admit, push, release stopped threads, destroy | handler threads, timer thread, main |
| Timer, `listen_svr.cpp:20-40` | `is_stopping_` | a scan of the pool every ten seconds | the pool |
| Request parameters, `keyshard_param.cpp` | one `KeyShardParam` per request | constructor from JSON, five checks, `to_json_string` | `GenerateKeyShard`, `GenerateTask` |
| Configuration parser, `iniconfig.cpp` | the entries of `server.ini` | `load_file`, `get_string` | `main` |
| `main`, `App.cpp` | log helper, enclave, enclave id, listener | start and end of the process | all |
| HTTP listener and dispatch, `listen_svr.cpp`, `msg_handler.cpp` `process` | the listener | route by path, reply | handlers |
| `Dispatcher.cpp` | the two registered tasks | dispatch by type | `ecall_run` |
| JSON wrapper `json.cpp`, vendored `cJSON.c` | trees on the enclave heap, two pointers per `JSON::Root` | parse, assign, copy, write | both tasks; the host and the client read the texts |
| OCALLs `ocall.cpp`, helpers `tee_util.cpp` | none | time, memory outside, output | both tasks |
| Logging | log files | output | all |
| Test client `test/main.cpp` | keys, `g_result_received`, the result | post, poll, receive, decrypt | the service, over HTTP both ways |

### What is hard here, and what makes each part correct

- **Registry and tasks** (concurrency, stale pointers, partial failure). Look-up and
  insertion of a hash are two critical sections (`GenerateTask.cpp:82-101`); a
  task uses its raw context pointer for minutes outside the lock while every other
  `ecall_run` deletes what it takes for expired; the report is made from
  whatever entry the hash has at that time; the last status is set by hash; a
  failed `GenerateKey` returns `false`, which is `TEE_OK`. Correct means: no two
  generations of a list at a time, no use of a deleted context, a report over
  one's own key meta, a status that says what is so, an answer to every accepted
  request.
- **Pool and shutdown** (an irregular lock, ordering). `s_thread_lock` is unlocked
  by hand inside a `lock_guard`, the size is checked in another critical section
  than the push, and the pool is emptied before the listener is closed. Correct
  means: a bounded pool, no thread lost, no two threads in the list, slots that
  come back, a process that ends, no task in a destroyed enclave.
- **Request data** (numeric edges, uninitialised members). Correct means: only sound
  parameters reach the generation, no sound request is refused, each key gets a
  shard of its own, and the hash names the list.
- **Start and end** (a parser with peculiar arithmetic, one exit path for every
  failure). Correct means: what is served is what the file says, the listener is
  open only over a ready enclave, everything is given back.

- **Client** (timeouts and repetitions, a listener on another thread). The client's only
  way to know where its request is are a query by hash and the webhook; between
  acceptance and insertion the hash is unknown, and so it is after the sweep of an Error
  entry. Correct means: a repetition never meets a request that is still at work, and
  the loop ends.
- **JSON** (a hand-written parser and printer, trees behind void pointers, no result
  checked). Correct means: the parser reads JSON, and nothing else but what its leniency is known for, the printer stays in its
  buffer and its text reads back, each tree is deleted once, the reply is complete, and
  no share stands beside the key of another.

`PROJECT.json` lists each hazard at its line with the properties aimed at it, and
says of those without a property why there is none.

## 2. Plan

Done, in this order, the most important behaviour first:

1. `ShardService`, the promise to clients; `KeyShardTask`, tasks, queries and the
   registry, which implements it; `KeyShardTaskProofs`.
2. `PoolSlots`, what a pool promises; `ThreadPool`, pool, timer and shutdown, which implements it;
   `ThreadPoolProofs`.
3. `ShardRequest`, the data of a request from its body to the shards;
   `ShardRequestProofs`.
4. `IniConfig` and `Startup`, the configuration and the life of the process;
   `StartupProofs`.
5. `ClientSession`, clients composed with `KeyShardTask`; `ClientSessionProofs`, which
   discharges the assumption of the proofs of 1 for clients with a sound rule.
6. `JsonTree`, `JsonBuffer`, `JsonText`, `JsonGrammar`, `JsonRoot`, `EnclaveJson`, the JSON of a
   generation; `JsonRootProofs`, `JsonReplyProofs`.
7. `TextOrder`, the sorting that `ShardRequest` and `JsonRoot` share, and
   `TextOrderProofs`.

What could come next:

8. `Server`: `ThreadPool` and `KeyShardTask` composed, a pool slot being the
   thread of a task; the end of the process then also covers `ecall_free`.
9. Theorems on what recursive operators compute (`ParseText`, `PrintValue`), once the proof system
   has induction over trees; the hypothesis `ReplyReadsBack` with them.

## 3. Modules and the code they model

Every definition's source lines are in `PROJECT.json` under `map`. A mutant is a
definition named for what it breaks (`CheckDuplicateLater`, `LeaveUnlocked`, ...), stated
just before the definition it could replace; no specification uses it.

**`ShardService`** is the abstract service: a request is accepted, begins to be
generated only if none of the same list is, may be given up, and is answered once,
with its own shards or an error.

**`KeyShardTask`**. `pc[t]` is where the thread of task `t` is. Each critical section
of `g_list_mutex` is one action, and so is each stretch between two of them
that another thread can tell apart. This is justified by the lock: the SGX
mutex refuses an unlock by a thread that does not hold it, so the second unlock
in the destructors of the `lock_guard`s changes nothing.

| Actions | Code |
|---|---|
| `EnterRun`, `Sweep` | entry of `ecall_run`; `clear_context`, whose time is read before it waits for the lock (`asOf`) |
| `CheckDuplicate`, `Insert` | the two critical sections of `GenerateTask::execute` and the `new` between |
| `GenerateKey`, `ReplyString`, `UseFreedContext` | the writes through the raw pointer, and what they are when the context is gone |
| `CopyOut`, `ParseResult` | `malloc_outside` at the end of `ecall_run`; the host's parse of a reply with no terminator |
| `TargetInfo`, `ReadMeta`, `CreateReport`, `SetReportStatus`, `GetQuote` | `GenerateEnclaveReport` around `ecall_create_report` and its two critical sections |
| `Post`, `EnterStatus`, `SetStatus` | the webhook, `ecall_set_generation_status`, whose refusal is ignored |
| `QueryEnter` ... `QueryReturn` | `QueryKeyShardState`, its own sweep included |
| `Tick` | the system time, bounded by `MaxTime` |

`Faults` says what may go wrong in an instance: `malloc` (memory outside the
enclave), `keygen`, `meta`, `reply` (the three failures of `GenerateTask`), `overread`
(the byte after the reply is not 0), `quote`, `report`, `request` (the request is empty, does not
parse or cannot be hashed, or there is no memory for its context: the early returns of
`GenerateTask.cpp:50-97`), `clock` (the time OCALL fails and 0 is returned). `Unreachable` says whose
webhooks may be out of reach: a post to one of these may throw, and its result is dropped. A post that
is answered with another code than 200 is `delivered`, as in the code. The field `ended` of a context is
a history field: the time at which its status became Finished, where `finished` is what was stored;
the two differ when the clock fails. `halted` records how the
process ended: `terminate` (uncaught exception), `abort` (an exception left an
ECALL), `undefined` (a deleted context was written).

`SerialSpec` is `Spec` without the steps that take two tasks of one list into the
window of `GenerateTask.cpp:90-101` together. It says what the design guarantees apart from
that window; run `client_repeat` shows how a client gets into it. `Spec` has no such
restriction, and `task_race` and four theorems are about it. Who keeps to `SerialSpec`, and
why, is the subject of `ClientSession`.

**`ThreadPool`**. Handlers, task threads, timer and main, one action per critical
section or per stretch between two. `s_thread_lock` is a default mutex of
glibc, whose unlock frees it whoever holds it: `Leave` therefore always frees the
lock, also under another thread. When two threads would be in `s_thread_pool` at once
and one of them changes it (`Raced`), a data race of a `std::list`, nothing sensible
can be said of what follows, and the model stops there. Every pool property is thus about
executions up to such a race, and `pool_race` shows that one is reachable.

**`PoolSlots`** is the abstract pool: a thread gets a slot when it starts, runs once, and leaves the
slot when it is over. `ThreadPool` maps to it with `Held` as the slots: the threads in `s_thread_pool` and
those in the hands of handlers between `StartTask` and `PushTask`, of which the list knows nothing.
Its capacity is `MaxCount + |Handlers| - 1`, not the documented maximum `MaxCount` (run `pool_max`).

**`ShardRequest`**. The members `k`, `l`, `key_length` are not initialised by the
constructor, so a field the body lacks is any value of `Memory`. `as_integer` cuts to
32 bits (`Int32`; `HalfWord` stands for 2^31). A key text is a sequence of blocks, one
block being 65 bytes in hexadecimal: `DecodeFull` reads the first block
(`IsPoint`, `lock`), the hash and the order are of the whole text. A hash is the text it is
the hash of. The checks are in the code's order, each with its early reply.

**`TextOrder`** is the order of `std::string` and what `std::sort` makes of a list: each
text stands where its `Rank` puts it, so nothing has to be said about an algorithm.

**`IniConfig`** and **`Startup`**. The parser works on characters, with the
code's arithmetic (`replace(pos, pos + 1, "")`, `substr(left + 1, right - 1)`); `main` is
one action per call that can fail. `Render` writes a content as text, `Meaning` says
what the content gives a key: both belong to the instance, and neither is the parser
(`RenderAssumption`: a content is written in characters). `Plain` says which settings are plainly
written. The parser fails on three layouts: a section line that is indented (`iniconfig.cpp:139` takes the
section for `log]`), a value with brackets (the same line takes it for a section), and a value with a blank
inside (`iniconfig.cpp:315` deletes as many characters as the place is far into the text).
`ServesAsWritten` is about every setting that main has read, also of a file that it then refuses: a
setting is what the file says unless its own value has a blank inside, its section line is indented, or a value from there down to its own line has brackets. Files with them are in
the run, so the property says that the damage stays there. Taking any of the three out of `Plain` makes TLC
find the layout at which the code fails.

**`ClientSession`** extends `KeyShardTask`: a querier is a client, `OwnerOf` says which
requests are its own, and its key list is its alone since it makes fresh key pairs
(`main.cpp:155-179`).

| Actions | Code |
|---|---|
| `PostGenerateKeyShareRequest` | `main.cpp:204-242`: accepted with the response received or lost, or refused |
| `PostQueryStatusRequest`, `ServeQuery`, `ReceiveStatus`, `LoseConnection` | `main.cpp:269-307`, `QueryKeyShardState`, and an exception on the way |
| `AnnounceResult`, `StoreResult`, `PostFails` | the listener's `HandleMessage` in its two steps, as the service's post sees it |
| `LeaveLoop` | the head of the loop |
| `ServeTask`, `PassTime` | all other steps of `KeyShardTask` |

`Repeats` is the rule by which clients post again. The repository's client never does
(`"never"`); its comment (`main.cpp:90-91`) suggests `"said"`: after a failed query, an
unknown hash or Error. `"shown"` is a rule that is safe: after an unknown hash or
Error, but only when a status of this request at work (Generating, Reporting, Callback) was
shown before. All behaviours of `"never"` are behaviours of the other two.

**`JsonTree`** holds the trees of cJSON: what is looked up in one, what an addition makes of it.
**`JsonText`** is cJSON as functions of bytes: `ParseText` and `PrintText`, with the room each
function of the printer asks for (`Piece`). **`JsonBuffer`** is the buffer that `ensure` makes of these requests, whatever is printed:
`BufferAfter` says whether each piece, the terminator behind it and the next offset lie in it. **`JsonGrammar`** is the reference: what a sequence of tokens means,
without bytes, offsets or a parser. `JsonMeaning` is JSON; `LaxMeaning` adds what the parser takes beyond it, each leniency named: literals
and blanks JSON does not have, a byte order mark, whatever stands behind the first value, a string cut at
`\u0000`, a number cut at 63 characters. **`JsonRoot`** is the heap of trees and the `Root`
objects over it during one `GenerateTask::execute`, a statement per action; `Fails` bounds the
allocations that fail. Its parser and printer are the constants `Parser` and `Printer`; the
run gives them those of `JsonText`, the proofs hold for any. An assignment of `pkg_array` takes one step for the
array, one per copied element and one for the member, as in the code (`json.cpp:185-196`), so each
of these allocations can fail on its own. Nothing in the enclave compares `l` with the length of the list (`GenerateTask.cpp:227-245`
index it unchecked): `HostChecked` says what the host has seen to, and a request that is beyond that leads to the state `unchecked`, where
the model stops. **`EnclaveJson`** puts `JsonRoot`, `JsonText` and
`JsonGrammar` together and says what parser and printer owe each other. `operator=` of `Root` does not delete what it overwrites, but in this
code it never overwrites a tree: `OwnedOnce` says so.

## 4. Runs

| Run | Question | Result |
|---|---|---|
| `task_serial` | With no overlap in the window and every fault but one that ends the process, a failing `sgx_create_report` or a failing clock: are the registry, the raw pointers, the report and the final statuses right, is each request whose webhook can be reached answered, and is `ShardService` implemented with its liveness? | yes |
| `task_race` | With every race and every fault: what still holds? | the registry never dangles, Finished is shown only after a post |
| `pool_open` | By how much may the pool outgrow its maximum; answers, slots coming back, shutdown, clean end when no request is open; is `PoolSlots` implemented? | by one less than there are handlers; the rest holds, up to a race |
| `pool_max` | "The maximum number of task threads that can be allocated by the thread pool" (`README.md:90`) | violated: two requests pass the check of the size before either is pushed |
| `pool_race` | Is `s_thread_pool` used by one thread at a time? | violated by the second unlock |
| `pool_close` | "Waiting for running tasks to end..." (`App.cpp:125`) | violated by a request accepted during the shutdown |
| `request_sound` | Are bodies that follow the Parameter Rules generated, and no others; each key its shard, hash and list | yes, for keys of one block, but for integers that are missing or too wide (section 6) |
| `request_length` | "The length must be 65 bytes" (`keyshard_param.cpp:77`) | longer texts pass, and two lists have one hash |
| `client` | A client that repeats by the rule `"shown"`: does a repetition ever meet a task that may still generate, do its tasks overlap in the window, does its loop end? | never, never, and yes, unless a post to it failed |
| `client_repeat` | "You can post a generation request agian if query request's response is failed or current status is unknown or error" (`main.cpp:90-91`), "duplicate generation requests in the same period will be rejected" (`README.md:152`) | violated: one client has two generations of its list |
| `json` | Does the parser read every text of JSON, and of the others those alone that a named leniency takes; does the printer ask for what it writes, stay in its buffer and its text read back; who owns each tree; is the reply complete? | yes; with failed allocations a reply may be short, but never misfiled |
| `startup` | Does main work with what the file says where it is plainly written, however the rest is, and serve no file that lacks something; listener, enclave, clean end | yes |

### Bounds, and why they are enough

- *Tasks.* Two of one list and a querier: every race of the registry is between two
  threads and one entry, or needs a sweep, which a querier brings at any time. Tasks of different lists
  share nothing but the TCS and the sweep, which looks at one entry after the other.
- *Clock.* `Alive` 1 and `MaxTime` 2 let a Finished entry be too young, of exactly the
  age and expired; 0 and 1 do where the age is not the question. Several ECALLs in one second, and a sweep
  with an old time, are part of it. A clock that fails is in `task_race`.
- *TCS.* 2 in `task_serial` for three threads, so that every ECALL may be refused,
  3 in `task_race`, where nobody is refused for want of one and all overlaps happen.
- *Webhooks.* In `task_serial` the first task's can be reached and the second's may not: what an
  unreachable one leaves behind meets the other task. In `task_race` and the runs on clients all may be out of reach.
- *Pool.* One slot, two handlers, three requests: the busy reply, the overshoot by one, the
  second unlock under a handler, under the timer and under main, a request at any point of
  the shutdown.
- *Clients.* One, with two requests of one list: a repetition and the request it repeats. More
  clients have other hashes, as tasks of different lists do.
  Requests, posts, key generation and the copy out of the enclave fail.
- *JSON.* Every text of up to four of nine tokens, every literal of up to two of seventeen pieces of
  a string (escapes of bad digits, raw control characters and stray bytes among them), numerals
  JSON has and has not, one of them of 64 characters, others around an `INT_MAX` of 127, blanks JSON does not
  have, something behind a value, nesting one above and one below a limit of 4, a request with
  each token replaced, missing or doubled. A buffer of 4 bytes at the start makes each
  print grow it. Two packages, so that a share can be misfiled; two failures, so that one loses a
  member and another a copy.
- *Requests.* `k` from 0 to `l` + 1 at `l` = 3, `l` = 1, 2, 20, 21, negative and missing; values
  beyond the width of an int; a list with a key twice and in several orders; two
  results, so that hashes can be compared. `HalfWord` is 2^13, enough to tell 4096
  from what wraps.
- *Files.* The shipped `server.ini` with up to two lines left out, four counts (100, 0, none, not a
  number), the sections swapped, the empty file; spaces, quotes, indents and CR LF in all
  sixteen combinations. In the same layouts, a value with a blank near its beginning or far from it, or with
  brackets, in each of four places, and section lines indented or not.

`CHECK_DEADLOCK FALSE` is in each cfg because each system really stops: tasks and
requests are finite in number, the process ends, and a race or an abort halts the model.

### Fairness

- `KeyShardTask`: weak fairness of each task's thread while the process lives.
  Every task step is a call that returns (`GenerateKey`, the DCAP calls and the HTTP
  post with the timeout of the client library) and a critical section that no one
  holds for ever. None is assumed of queries or of the clock.
- `ClientSession`: weak fairness of each task's thread in the service, of the client's
  listener, of a query that is in the enclave and of leaving the loop once the result is there.
  None of posting, of querying or of a post succeeding: a connection may break at any time.
- `ThreadPool`: weak fairness of each thread, of the end of a task and of main after
  ENTER; ENTER itself need never be pressed. Strong fairness for taking the lock: the timer
  sleeps ten seconds between scans and requests are finite in number, so a waiter
  meets a free lock again and again.
- `Startup`: weak fairness of main (of every step but ENTER). `ShardRequest` and `JsonRoot` need none.

## 5. Theorems

All proofs are checked by TLAPS to the last leaf; the assumptions are those named
in the modules (`NullAssumption`, `HashAssumption`, `TimeAssumption`, `CountAssumption`,
...), which say that constants have their kinds and that sets of threads are finite.

**`KeyShardTaskProofs`.** `TypeCorrect` for `Spec`. Then two invariants.

`IInv`, for `SerialSpec` with `"report" \notin Faults`, gives `GenerationExclusive`,
`EntryOwned`, `MemorySafe`, `ReportBound`, `EntryEnds`, `EntryStuckOnlyByLoss`. The heart is `OwnsEntry`: as long as
`t` works, the entry of its hash is `t` and its status is Generating, Reporting or Callback.
No sweep removes such a status whatever the time says, no second task of that
list gets past `CheckDuplicate`, and no other task sets the status under that hash,
since only one that was itself accepted knows the hash. It is not inductive alone: one
must know that in the window the context is complete and the hash free
(`WindowIsFree`, which is where `NoOverlap` is needed), that a thread which went on has not failed
(`SucceededSoFar`), that one which failed in the enclave left Error (`FailureIsError`) and that one which was
refused has no context (`NotCreatedYet`). `ReportBound` adds `MetaIsOwn`.
A failing `sgx_create_report` must be excluded because it breaks the argument
in the code: `SetReportStatus` leaves Error while the task goes on to post, so a sweep may remove the
entry, a repetition is accepted, and the last ECALL of the first task marks the
context of the second Finished. TLC finds that trace when `"report"` is added to the
faults of `task_serial`.
Everything else may fail.
`ImplementsService` maps each step to a step of `ShardService` or a stutter, by the same invariant.

`RaceInv`, for `Spec` with every fault, gives `RegistryNeverDangles`, `FinishedIsTrue` and, where the clock does not fail
(`EndIsRecorded`: what is stored is then the time of the end), `FinishedEntryStays`. Here two tasks of a list may race in the window; what is left is
that a context before its insertion is live and not yet in the list (`WindowIsOwn`), that
a Finished entry goes back to a post (`FinishedEntryPosted`), and that the time of a sweep is
never in the future (`SweepTimePast`). With a failing clock 0 is stored, and the next sweep removes the entry at once.

**`ThreadPoolProofs`.** `PoolIsBounded`, what is left of the documented maximum, from `FlightBound`: pool and requests in flight together
are at most `MaxCount + |Handlers| - 1`. When a handler passes `CheckSize` the pool has
less than `MaxCount`, and at most all other handlers are in flight; a push moves one from
one term to the other (`HandHoldsOne`). `ThreadsAccountedFor`: a running thread is in the
pool or in a hand. `PoolKeepsSlots`: the pool implements `PoolSlots`. What must be shown is that a thread
that starts finds a slot free, counting the hands (`RoomForOne`): a hand that holds a thread holds one, and belongs to a
handler in flight (`HandHoldsOne`), while the handler that starts a thread is in flight with an empty
hand; so `FlightBound` leaves room for one more. A release or the destruction of the pool takes away only threads that are over, which is `Join`.
`QuietEnd`: a service that is closed with no request open, and gets none from then on,
ends with every task thread joined when the enclave is destroyed. Main has emptied the pool (`PoolDestroyed`, which
only a handler at work could undo), no hand holds a thread (`HandHoldsOne`), and none is anywhere else (`NoThreadLost`).

**`ShardRequestProofs`.** `GenerationIsSound` by what each check has established where
the request stands: of the parameters always, and of the body where `Int32` leaves its integers as they are; `RefusalsAreJustified` since each check follows from `WellFormed`, for which a
well-formed integer must survive `Int32`. `EveryKeyGetsItsShard` and `HashNamesTheList` from the
theorems on sorting: a sorted list has the same texts as often, and depends on nothing else.
`HashMeansTheSameKeys` has the hypothesis that all keys are texts of one length, which is what
`request_length` shows to be necessary; from it, equal concatenations are equal piece by piece.

**`TextOrderProofs`.** That `Sorted` is a permutation in order, for every list. Where one would use
induction over the natural numbers, these proofs (and those on `trim_string` and on concatenation) take the least
counterexample, `LeastNat`, which follows from the library's theorem that finite sets are well-founded
under strict inclusion: a first-order argument, one set at a time.

**`StartupProofs`.** `ListensOnlyReady` and `EndsClean`, from what main holds at each
place, whatever the parser returned. `ServesOnlyComplete`: no service listens without an
address, two paths and a positive number of threads, whatever the file is.

The parser of the lines is proved about for every text. `TrimString` shows that the recursive function `trim_string` exists
at all: `Cut` makes a text shorter (`CutShortens`, the arithmetic of `replace(pos, pos + 1, "")`), so the
functions that trim the texts up to a length agree (`TrimsAgree`) and the loop of `iniconfig.cpp:312`
ends; `Trimmed` says that nothing it is there to delete is left. The pieces that `SectionAfter` and
`Entries` cut are texts also where the brackets are out of order. `StartupTypeCorrect` and
`SettingsTrimmed` follow, by the invariant `Texts`.

`FirstLineCounts` says what the parser makes of a whole file, for every file. `TextValue` states it without a parser: the lines of
a text begin at `LineStarts`; a line is in the section that was named last, above it or on it (`SectionBefore`); a key
has the value of the first line that `Gives` it one under its section. The invariant `Parsed` relates that to the loop: the parser
is at some line start `p`, its section is `SectionBefore(text, p)`, and a look-up in what it has collected gives `ValueBefore(text, p)`, for
every section and key (`ReadUpTo`). A step goes on to the next line start, with none between (`NextLine`, the arithmetic of
`getline`), and one more entry answers exactly the look-ups that found nothing before (`StringAppend`, `ValueNext`): there the first
line wins, which the code owes to `push_back` and a search from the front. TLC has checked `Parsed`, for the sections and keys that main
asks for, on the instance of `startup`.

What a single line means is stated without the parser too, for names and values of every length. `PlainPairRead`: under a section, a line
`key = value` gives the key exactly that value, as long as neither has a blank, a quote or a carriage return inside; blanks in front,
a quote in front of the value, and any number of the three behind in any order do not count. This is what the deletions of
`replace(pos, pos + 1, "")` come to: each in front takes itself alone, one behind takes some of what stands behind and nothing of the value
(`CutFront`, `WrittenCut`), until the value alone is left (`WrittenTrim`). `PlainSectionRead`: a line `[name]` that is not indented names the section
`name` whatever stands behind it, and a line without one of the brackets leaves the section. What these hypotheses exclude, and the
last of them for a value, are the layouts at which the code fails; `ServesAsWritten` as a whole is checked by TLC.

**`JsonRootProofs`.** `EachTreeHasOneOwner` is `OwnedOnce` for `Spec`, with any parser and printer, any
requests and any number of failures. `HeapInv` adds what `OwnedOnce` takes for granted: addresses are numbers of a finite heap, so that `Fresh` is fresh
(`HeapTypes`); which of the seven Roots may hold a tree at which statement, so that no `operator=` overwrites one, and that
the array exists only while it is filled (`Idle`); a Root is either parsed or written (`OneUse`); and what should have been
made is there unless an allocation failed (`Made`).

`PrinterStaysInside` is about `JsonBuffer`: for any number of pieces of any length, as long as the printer is `Honest` (it asks for
what it writes, and for one byte more at most), nothing is written outside the buffer, the offset is always in it, so that the first
refusal of `ensure` never happens, and the buffer is at most twice the text and four bytes, or its first size. The other refusals,
beyond `INT_MAX`, which the model leaves out, therefore need a text of a gigabyte. That `cJSON` is `Honest` about each tree the enclave prints is part of
`PrintParsesBack`. The recursive function in `BufferAfter` exists by `FollowsExists`.

**`JsonReplyProofs`.** `NoShardIsMisfiled` and `RepliesAreComplete`. `ReplyInv` is `HeapInv` with what is written so far:
`Counts` (packages, ciphers and keys go on in step), `Filed` (in `arrary_node`, in each element of `pkg_array`, in
each copy of it and in the reply, the cipher beside a key is the one made for it) and `Complete` (without a failing
allocation each tree has exactly the members assigned so far). `Filed` holds with any failures, since a package that
loses a member has a key or a cipher, and then not both. Both theorems have the hypothesis `[]ReplyReadsBack`: the
reply is what its tree reads back as. That is `PrintParsesBack` for one tree, which the run `json` checks of every
tree on the heap; `ReplyReadsBack` and `ReplyInv` have been checked on that instance too.

**`ClientSessionProofs`.** `ClientsKeepSerial`: clients that keep to `"shown"` or never repeat implement
`SerialSpec`. `RepeatsAreSafe` is the reason, and `ClientsAreServed` the consequence: the
theorems on `KeyShardTask` hold with nothing assumed of the window but a rule for clients. The
invariant `SessionInv` is `IInv` with `ClientInv`: of a client's requests only the last may
be at work (`OlderAreSpent`, `CurrentIsOwn`); once an active status was shown, or is on
its way, that task is past the window (`ShownIsPast`), since only `Insert` makes
an entry and no later status is anything else's; and once "absent" or Error follows,
that task is over with the enclave (`GoneIsSpent`). The last needs that an entry at work is
not swept (`OwnsEntry`), hence again that no report fails, and that what is spent stays spent
(`SpentStable`) while an answer travels to the client. `ClientsGetTheService` puts this and `ImplementsService`
together: what such clients see is `ShardService`.

### Only model-checked

- Liveness, which is out of the proof system's reach: `AcceptedIsAnswered`, `ServiceSpec` (its safety is
  `ImplementsService`), `RequestAnswered`, `SlotReturned`, `ShutdownEnds`, `StartsOrEnds`, `ClientIsAnswered`.
- `ParserReadsJson`, `ParserLenientAsNamed` and `PrintParsesBack`: parser, printer and grammar are recursive operators, and what they
  compute needs induction over texts and trees. Of the second, what `ensure` owes the printer is proved (`PrinterStaysInside`).
- `ServesAsWritten`, of which `FirstLineCounts`, `PlainPairRead` and `PlainSectionRead` prove the parts.
- `ReplyReadsBack`, the hypothesis of the two theorems of `JsonReplyProofs`, for the same reason.

## 6. Findings

Disagreements between the code and what its comments or documents say, met while
modelling; `PROJECT.json` quotes the lines.

1. A client that repeats its request as its comment says makes two generations of one list, since
   the look-up and the insertion of a hash are two critical sections (`client_repeat`). So do, all
   the more, two clients with one list. One of the two may then be posted with a report over the
   key meta of the other.
2. The second unlock of `s_thread_lock` lets two threads into the pool (`pool_race`).
3. The pool is emptied before the listener is closed (`pool_close`).
4. A key text longer than 65 bytes passes the check, and then lists of different keys can
   have one hash (`request_length`).

5. The pool outgrows `max_thread_task_count`, which `README.md:90` calls a maximum (`pool_max`).

More disagreements and facts, stated in a property's definition or comment rather than by a run of their own:

- `README.md:110-114` calls the integers of a request required, and `README.md:198` wants `k` at most `l`. A body that lacks
  one is generated when the uninitialised member happens to hold a sound value, and `k` = 2^32 + 2 is taken for 2
  (`keyshard_param.cpp:30-42`). `GeneratedIsSound` therefore says of bodies with all their integers that they follow the rules, and of
  the others only what the checks leave. The bodies of `request_sound` have both exceptions.
- `test/main.cpp:186-187` allows `l/2 <= k` and `1 <= l`; `README.md:195-200`, `keyshard_param.h:5-11` and the code do not.
  `WellFormed` follows these.
- `iniconfig.cpp:308` promises to trim blanks and `\r`, but a blank inside a value takes with it as many characters as it stands in; a section line that is
  indented names a section that nobody asks for; so does a value with brackets, such as an address `http://[::1]:8008`.
- The parser of `cJSON.c` is not as strict as JSON: it ignores what stands behind the first value, takes any byte up to 32 for a blank, raw
  control characters and any byte in a string, `01`, `1.` and `-.5` as numbers, reads an escape of bad digits as NUL, cuts a string at a NUL and a numeral at 63 characters.
  No document of the repository says otherwise; `ParserLenientAsNamed` says that this is all.
- When the clock fails at the end of a task, `finished_time` is 0 (`Enclave.cpp:155`), and the next sweep removes the
  entry at once. `FinishedStaysAlive` is about a clock that does not fail.
- A failed report leaves the status Error, and the post of that error then makes it Finished (`msg_handler.cpp:119`); a post that throws drops
  the result, and one that is answered with an error counts as made (`listen_svr.cpp:146-167`). The model does the same. `FinishedMeansPosted`
  says no more than that something was posted, and `AcceptedIsAnswered` is about webhooks that can be reached.
- An entry stays at Reporting or Callback for ever when the reply cannot be copied out of the
  enclave or the last ECALL is refused, and blocks its list; `StuckOnlyByLostCall` (run
  `task_serial`, theorem `EntryStuckOnlyByLoss`) says that these are the only ways.
- A task whose report failed may mark the context of a repetition Finished (section 5,
  on `"report"`).

## 7. Not modelled, and why

- The contents of keys, ciphers, reports and hashes: outcomes, success or failure.
- Wording, logging, console output, request ids.
- Of `cJSON.c`: what nothing calls (minify, compare, detach, replace, insert, references, arrays of
  numbers, buffered and formatted printing); numbers that are no int in the printer, and with them the second attempt of
  `print_number` (519-530), which gives the same text for an int (the enclave
  only prints ints, and texts it has just parsed); control characters without a short escape;
  a buffer beyond `INT_MAX`. Of `json.cpp`: `asUInt`, `asString`, `asBool`, `asJson`, which the
  generation does not use. A reply that could not be printed is empty, and so for the host like a
  failed copy (`malloc`); one that lacks the hash makes `at()` throw like `overread`.
- The refusal of an unknown path and `Dispatcher`'s look-up by type; the client's parsing, decryption and
  verification of its shards.
- `g_result_received` is set before the result is stored; that main may read the string while it is
  written is seen in the code (`main.cpp:50`) but no property is about it.
- Key texts shorter than 65 bytes or not hexadecimal, on which the decoding library
  decides; code nothing calls (`get_llong`, `get_value_list`, the second constructor of
  `KeyShardParam`).
- An enclave out of memory: `std::bad_alloc` leaves the ECALL and aborts the enclave, wherever it is thrown.
- A host out of memory inside `ocall_get_system_time`: the enclave reads through a null
  pointer and the process ends.
- `ecall_free` emptying the registry: it comes after the last task, or in the case of
  `pool_close`, which shows that it may not.
