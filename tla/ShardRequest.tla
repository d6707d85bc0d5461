---------------------------- MODULE ShardRequest ----------------------------
(***************************************************************************)
(* The data of a generation request: from its JSON body to the key shards  *)
(* (src/App/server/keyshard_param.cpp, the checks of msg_handler::         *)
(* GenerateKeyShard, src/Enclave/tasks/GenerateTask.cpp and the accessors  *)
(* of src/Enclave/json/json.cpp).                                          *)
(*                                                                         *)
(* A public key in hexadecimal is a sequence of blocks, a block standing   *)
(* for the text of 65 bytes; Points are the blocks that encode a P256      *)
(* point.  An element of the list that is no string is NotText.  A hash is *)
(* the text it is the hash of.  A field that the body lacks, or has with   *)
(* another type, is Missing; the constructor of KeyShardParam then leaves  *)
(* the member as memory had it.                                            *)
(***************************************************************************)
EXTENDS TextOrder, SequencesExt

CONSTANTS
  Bodies,       \* request bodies
  Texts,        \* public keys in hexadecimal
  Points,       \* blocks that are P256 points
  HalfWord,     \* half the number of values of an int, 2^31
  Memory,       \* what an int that nobody set may hold
  Missing,      \* no such field
  NotText,      \* an element of the key list that is no string
  MaxRequests   \* bound on the requests of a run

Ints == -HalfWord .. HalfWord - 1
Body == [keys : {Missing} \cup Seq(Texts \cup {NotText}), k : {Missing} \cup Int,
         l : {Missing} \cup Int, key_length : {Missing} \cup Int,
         webhook_url : {"url", "", "missing"}]

ASSUME BodyAssumption == Bodies \subseteq Body
ASSUME TextAssumption == Texts \subseteq Seq(Nat) \ {<<>>} /\ Points \subseteq Nat
ASSUME WordAssumption == HalfWord \in Nat /\ HalfWord > 4096 /\ Memory \subseteq Ints
ASSUME NoneAssumption ==
  /\ Missing \notin Int /\ Missing \notin Seq(Texts)
  /\ NotText \notin Texts

VARIABLES
  at,        \* where the request is
  body,      \* its body
  param,     \* its KeyShardParam
  reply,     \* the answer to it, the name of the field that is refused
  results    \* what the enclave generated, one for each accepted request

vars == <<at, body, param, reply, results>>

Params == [keys : Seq(Texts), k : Ints, l : Ints, key_length : Ints, webhook_url : {"url", ""}]
Blank  == [keys |-> <<>>, k |-> 0, l |-> 0, key_length |-> 0, webhook_url |-> ""]
Checks == {"keys", "k", "l", "key_length", "webhook_url"}

TypeOK ==
  /\ at \in Checks \cup {"idle", "accepted"}
  /\ body \in Bodies \cup {Missing}
  /\ param \in Params
  /\ reply \in Checks \cup {"none", "accepted", "exception"}
  /\ \A r \in results : r.body \in Bodies /\ r.param \in Params

Init ==
  /\ at = "idle"
  /\ body = Missing
  /\ param = Blank
  /\ reply = "none"
  /\ results = {}

-----------------------------------------------------------------------------
(* The host: KeyShardParam and its checks.                                  *)

\* (mutant: an int of any width)
Int32Wide(n) == n

\* as_integer: an integer of JSON is cut to 32 bits.
Int32(n) == ((n + HalfWord) % (2 * HalfWord)) - HalfWord

\* An int member: that of the body, or what the memory held.
Member(field) == IF field = Missing THEN Memory ELSE {Int32(field)}

Receive(b) ==
  /\ at = "idle"
  /\ b.keys # Missing => NotText \notin Range(b.keys)
  /\ at' = "keys"
  /\ body' = b
  /\ \E k \in Member(b.k), l \in Member(b.l), bits \in Member(b.key_length) :
       param' = [keys |-> IF b.keys = Missing THEN <<>> ELSE b.keys,
                 k |-> k, l |-> l, key_length |-> bits,
                 webhook_url |-> IF b.webhook_url = "missing" THEN "" ELSE b.webhook_url]
  /\ reply' = "none"
  /\ UNCHANGED results

\* as_string of what is no string: the exception leaves the handler.
ReceiveNotText(b) ==
  /\ at = "idle"
  /\ b.keys # Missing /\ NotText \in Range(b.keys)
  /\ body' = b
  /\ reply' = "exception"
  /\ UNCHANGED <<at, param, results>>

\* A check of one member: the request goes on, or it is refused for it.
Check(field, ok, next) ==
  /\ at = field
  /\ IF ok THEN at' = next /\ reply' = (IF next = "accepted" THEN "accepted" ELSE reply)
           ELSE at' = "idle" /\ reply' = field
  /\ UNCHANGED <<body, param, results>>

\* CurvePoint::DecodeFull reads 65 bytes and no more.
IsPoint(text) == Head(text) \in Points

CheckPubkeyList ==
  Check("keys", /\ Len(param.keys) = param.l
                /\ \A i \in 1..Len(param.keys) : IsPoint(param.keys[i]), "k")

\* (mutant: half of l is enough)
CheckHalfK ==
  Check("k", param.k > 0 /\ param.k >= param.l \div 2 /\ param.k <= param.l, "l")

\* (mutant: the majority is counted from an l rounded up)
CheckMoreK ==
  Check("k", param.k > 0 /\ param.k >= (param.l + 1) \div 2 + 1 /\ param.k <= param.l, "l")

CheckK ==
  Check("k", param.k > 0 /\ param.k >= param.l \div 2 + 1 /\ param.k <= param.l, "l")

CheckL == Check("l", param.l > 1 /\ param.l < 21, "key_length")

CheckKeyLength == Check("key_length", param.key_length \in {1024, 2048, 3072, 4096}, "webhook_url")

CheckWebhookUrl == Check("webhook_url", param.webhook_url # "", "accepted")

-----------------------------------------------------------------------------
(* The enclave: GenerateTask::execute on the JSON of the parameters.        *)

\* to_json_string: the webhook address stays with the host.
ToJsonString(p) ==
  [user_public_key_list |-> p.keys, k |-> p.k, l |-> p.l, key_length |-> p.key_length]

\* (mutant: the number of keys and the first of them)
PubkeyListHashFirst(keys) == <<Len(keys)>> \o Head(keys)

\* The hash of the concatenation.
PubkeyListHash(keys) == FlattenSeq(keys)

\* GenerateKey: l shares, numbered from 1, of which k are needed.
Shares(k, l) == [i \in 1..l |-> [index |-> i, threshold |-> k, of |-> l]]

\* (mutant: the key of the first position throughout)
PackagesForFirst(keys, shares) ==
  [i \in 1..Len(shares) |-> [public_key |-> keys[1], lock |-> Head(keys[1]), shard |-> shares[i]]]

\* get_reply_string: the i-th share, encrypted with the point that the i-th
\* key of the list decodes to.
Packages(keys, shares) ==
  [i \in 1..Len(shares) |-> [public_key |-> keys[i], lock |-> Head(keys[i]), shard |-> shares[i]]]

\* (mutant: the list is hashed as it came)
ExecuteUnsorted ==
  /\ at = "accepted"
  /\ at' = "idle"
  /\ LET root == ToJsonString(param)
         keys == root.user_public_key_list
     IN  results' = results \cup
           {[body |-> body, param |-> param, hash |-> PubkeyListHash(keys),
             packages |-> Packages(keys, Shares(root.k, root.l))]}
  /\ UNCHANGED <<body, param, reply>>

Execute ==
  /\ at = "accepted"
  /\ at' = "idle"
  /\ LET root == ToJsonString(param)
         keys == Sorted(root.user_public_key_list)
     IN  results' = results \cup
           {[body |-> body, param |-> param, hash |-> PubkeyListHash(keys),
             packages |-> Packages(keys, Shares(root.k, root.l))]}
  /\ UNCHANGED <<body, param, reply>>

Next ==
  \/ Cardinality(results) < MaxRequests /\ \E b \in Bodies : Receive(b) \/ ReceiveNotText(b)
  \/ CheckPubkeyList \/ CheckK \/ CheckL \/ CheckKeyLength \/ CheckWebhookUrl
  \/ Execute

Spec == Init /\ [][Next]_vars

-----------------------------------------------------------------------------
(* Correctness.                                                             *)

\* The Parameter Rules (README.md:110-114, 195-200; keyshard_param.h:5-11).
\* The comment on the test client's request is looser (test/main.cpp:186-187,
\* l/2 <= k and 1 <= l): the code does not follow it.
WellFormed(b) ==
  /\ b.l \in 2..20 /\ b.k \in 1..b.l /\ 2 * b.k > b.l
  /\ b.key_length \in {1024, 2048, 3072, 4096} /\ b.webhook_url = "url"
  /\ b.keys \in Seq(Texts) /\ Len(b.keys) = b.l
  /\ \A i \in 1..b.l : IsPoint(b.keys[i])

\* Every integer is there and fits an int.
HasInts(b) == {b.k, b.l, b.key_length} \subseteq Ints

\* Key shards are generated only for a body that follows the Parameter Rules,
\* with two exceptions: an integer that is missing is taken from the memory,
\* and one that fits no int is cut (keyshard_param.cpp:30-42), against
\* README.md:110-114.  Then too what GenerateKey is called with is a majority
\* of 2 to 20 shares, one for each key of the list (keyshard_param.cpp:58-119).
GeneratedIsSound ==
  \A r \in results :
    /\ HasInts(r.body) => WellFormed(r.body)
    /\ r.param.l \in 2..20 /\ r.param.k \in 1..r.param.l /\ 2 * r.param.k > r.param.l
    /\ r.param.key_length \in {1024, 2048, 3072, 4096}
    /\ Len(r.param.keys) = r.param.l

\* No request that follows the Parameter Rules is refused
\* (msg_handler.cpp:403-434).
RefusalIsJustified == reply \in Checks => ~WellFormed(body)

\* Each key of the list, as often as it is there, gets a shard of its own
\* that it can decrypt, though the list was sorted in between
\* (GenerateTask.cpp:194-232).
EachKeyItsShard ==
  \A r \in results :
    /\ \A i, j \in 1..Len(r.packages) : r.packages[i].shard = r.packages[j].shard => i = j
    /\ \A i \in 1..Len(r.packages) : r.packages[i].lock = Head(r.packages[i].public_key)
    /\ \A x \in Texts :
         Cardinality({i \in 1..Len(r.packages) : r.packages[i].public_key = x})
           = Cardinality(Occurrences(r.param.keys, x))

\* The client asks for its request by a hash of its own making, over the
\* sorted list (test/main.cpp:259-273): it is the one the result names, in
\* whatever order the request listed the keys.
Permuted(s, t) == SameTexts(Texts, s, t)
HashNamesList ==
  \A r1, r2 \in results : Permuted(r1.param.keys, r2.param.keys) => r1.hash = r2.hash

\* Requests of one hash are repetitions: they list the same keys
\* (README.md, "confirms whether it is a duplicate request based on the
\* public key list hash").
HashMeansDuplicate ==
  \A r1, r2 \in results : r1.hash = r2.hash => Permuted(r1.param.keys, r2.param.keys)

=============================================================================
