------------------------- MODULE ShardRequestProofs -------------------------
(* What the checks of a request guarantee, for every set of requests, every *)
(* content of the memory and every size of an int.                          *)
EXTENDS ShardRequest, TextOrderProofs

\* Each key of the list decodes to a point.
PointsOnly(p) == \A i \in 1..Len(p.keys) : IsPoint(p.keys[i])

HasUrl(p) == p.webhook_url # ""

\* What each check passed stands for, at the checks after it.
Passed ==
  /\ at \in Checks \cup {"accepted"} => param \in Params
  /\ at \in {"k", "l", "key_length", "webhook_url", "accepted"} => Len(param.keys) = param.l
  /\ at \in {"k", "l", "key_length", "webhook_url", "accepted"} =>
       PointsOnly(param)
  /\ at \in {"l", "key_length", "webhook_url", "accepted"} =>
       param.k > 0 /\ param.k >= param.l \div 2 + 1 /\ param.k <= param.l
  /\ at \in {"key_length", "webhook_url", "accepted"} => param.l > 1 /\ param.l < 21
  /\ at \in {"webhook_url", "accepted"} => param.key_length \in {1024, 2048, 3072, 4096}
  /\ at = "accepted" => HasUrl(param)

\* The members that the constructor makes of the list and the address.
ListOf(b) == IF b.keys = Missing THEN <<>> ELSE b.keys
UrlOf(b)  == IF b.webhook_url = "missing" THEN "" ELSE b.webhook_url

\* p is what the body says.
TakenFrom(p, b) ==
  /\ p.keys = ListOf(b) /\ p.webhook_url = UrlOf(b)
  /\ HasInts(b) => p.k = b.k /\ p.l = b.l /\ p.key_length = b.key_length

Faithful == at # "idle" => body \in Bodies /\ TakenFrom(param, body)

\* What the enclave makes of the parameters it was given.
MadeOfParam ==
  \A r \in results :
    /\ r.hash = PubkeyListHash(Sorted(r.param.keys))
    /\ r.packages = Packages(Sorted(r.param.keys), Shares(r.param.k, r.param.l))

RInv ==
  TypeOK /\ Passed /\ Faithful /\ GeneratedIsSound /\ RefusalIsJustified /\ MadeOfParam

-----------------------------------------------------------------------------

\* as_integer returns an int (keyshard_param.cpp:31).
LEMMA Int32Type == \A n \in Int : Int32(n) \in Ints
<1> SUFFICES ASSUME NEW n \in Int PROVE Int32(n) \in Ints
  OBVIOUS
<1>1. HalfWord \in Nat /\ 2 * HalfWord \in Nat /\ 2 * HalfWord > 0
  BY WordAssumption
<1>2. (n + HalfWord) % (2 * HalfWord) \in 0..(2 * HalfWord - 1)
  BY <1>1
<1> QED
  BY <1>1, <1>2 DEF Int32, Ints

\* as_integer keeps what fits an int (keyshard_param.cpp:31).
LEMMA Int32Exact ==
  ASSUME NEW n \in Ints
  PROVE  Int32(n) = n
<1>1. HalfWord \in Nat /\ HalfWord > 4096 /\ n \in Int /\ -HalfWord <= n /\ n < HalfWord
  BY WordAssumption DEF Ints
<1>2. \A d \in Nat \ {0}, m \in Nat : m < d => m % d = m
  OBVIOUS
<1>3. (n + HalfWord) % (2 * HalfWord) = n + HalfWord
  <2> DEFINE m == n + HalfWord
             d == 2 * HalfWord
  <2>1. m \in Nat /\ d \in Nat \ {0} /\ m < d
    BY <1>1
  <2> HIDE DEF m, d
  <2>2. m % d = m
    BY <2>1, <1>2
  <2> QED
    BY <2>2 DEF m, d
<1> QED
  BY <1>1, <1>3 DEF Int32

\* A well-formed body gives its integers, its list and its address.
LEMMA WellFormedGives ==
  ASSUME NEW b, WellFormed(b)
  PROVE  HasInts(b) /\ ListOf(b) = b.keys /\ UrlOf(b) = "url"
<1>1. b.l \in 2..20 /\ b.k \in 1..b.l /\ b.key_length \in {1024, 2048, 3072, 4096}
  BY DEF WellFormed
<1>2. b.l \in 2..20 /\ b.k \in 1..20
  BY <1>1
<1>3. HasInts(b)
  BY <1>1, <1>2, WordAssumption DEF HasInts, Ints
<1>4. b.keys # Missing /\ b.webhook_url = "url"
  BY NoneAssumption DEF WellFormed
<1> QED  BY <1>3, <1>4 DEF ListOf, UrlOf

\* What a well-formed body makes of the members.
LEMMA WellFormedTaken ==
  ASSUME at # "idle", Faithful, WellFormed(body)
  PROVE  /\ param.keys = body.keys /\ param.k = body.k /\ param.l = body.l
         /\ param.key_length = body.key_length /\ param.webhook_url = "url"
BY WellFormedGives DEF Faithful, TakenFrom

\* Without a NotText the list is one of texts.
LEMMA AllTexts ==
  ASSUME NEW s \in Seq(Texts \cup {NotText}), NotText \notin Range(s)
  PROVE  s \in Seq(Texts)
<1>1. Len(s) \in Nat /\ s \in [1..Len(s) -> Texts \cup {NotText}]
  OBVIOUS
<1>2. \A i \in 1..Len(s) : s[i] \in Texts
  BY <1>1 DEF Range
<1> QED
  BY <1>1, <1>2

\* Nothing was received yet.
LEMMA RInitial == Init => RInv
<1> SUFFICES ASSUME Init PROVE RInv
  OBVIOUS
<1>1. Blank \in Params
  <2>1. 0 \in Ints /\ <<>> \in Seq(Texts)
    BY WordAssumption DEF Ints
  <2> QED
    BY <2>1 DEF Blank, Params
<1>2. TypeOK
  BY <1>1 DEF Init, TypeOK, Checks
<1> QED
  BY <1>2 DEF Init, RInv, Passed, Faithful, GeneratedIsSound, RefusalIsJustified, MadeOfParam, Checks

\* An int member is an int (keyshard_param.cpp:30-42).
LEMMA MemberType ==
  ASSUME NEW f, f = Missing \/ f \in Int
  PROVE  Member(f) \subseteq Ints
<1>1. CASE f = Missing
  BY <1>1, WordAssumption DEF Member
<1>2. CASE f # Missing
  <2>1. Member(f) = {Int32(f)} /\ f \in Int
    BY <1>2 DEF Member
  <2> QED
    BY <2>1, Int32Type
<1> QED
  BY <1>1, <1>2

\* An int member is that of the body when that fits an int.
LEMMA MemberExact ==
  ASSUME NEW f \in Ints
  PROVE  Member(f) = {f}
<1>1. f \in Int /\ Missing \notin Int
  BY NoneAssumption, WordAssumption DEF Ints
<1> QED
  BY <1>1, Int32Exact DEF Member

\* The fields of a body.
LEMMA BodyFields ==
  ASSUME NEW b \in Bodies
  PROVE  /\ b.keys \in {Missing} \cup Seq(Texts \cup {NotText})
         /\ b.k \in {Missing} \cup Int
         /\ b.l \in {Missing} \cup Int
         /\ b.key_length \in {Missing} \cup Int
         /\ b.webhook_url \in {"url", "", "missing"}
         /\ DOMAIN b = {"keys", "k", "l", "key_length", "webhook_url"}
BY BodyAssumption DEF Body

\* What the constructor makes of a body.
LEMMA ReceivePreserves ==
  ASSUME RInv, NEW b \in Bodies, Receive(b)
  PROVE  RInv'
<1> DEFINE list == ListOf(b)
           url == UrlOf(b)
<1>1. /\ b.keys = Missing \/ b.keys \in Seq(Texts \cup {NotText})
      /\ b.k = Missing \/ b.k \in Int
      /\ b.l = Missing \/ b.l \in Int
      /\ b.key_length = Missing \/ b.key_length \in Int
      /\ b.webhook_url \in {"url", "", "missing"}
  BY BodyFields
<1>2. PICK k \in Member(b.k), l \in Member(b.l), bits \in Member(b.key_length) :
        param' = [keys |-> list, k |-> k, l |-> l, key_length |-> bits, webhook_url |-> url]
  BY DEF Receive, ListOf, UrlOf
<1>3. k \in Ints /\ l \in Ints /\ bits \in Ints
  <2>1. k \in Ints
    BY <1>1, MemberType, Zenon
  <2>2. l \in Ints
    BY <1>1, MemberType, Zenon
  <2>3. bits \in Ints
    BY <1>1, MemberType, Zenon
  <2> QED
    BY <2>1, <2>2, <2>3
<1>4. list \in Seq(Texts)
  <2>1. CASE b.keys = Missing
    BY <2>1 DEF ListOf
  <2>2. CASE b.keys # Missing
    <3>1. b.keys \in Seq(Texts \cup {NotText}) /\ NotText \notin Range(b.keys)
      BY <1>1, <2>2 DEF Receive
    <3> QED
      BY <2>2, <3>1, AllTexts DEF ListOf
  <2> QED
    BY <2>1, <2>2
<1>5. url \in {"url", ""}
  BY <1>1 DEF UrlOf
<1>6. param' \in Params
  BY <1>2, <1>3, <1>4, <1>5 DEF Params
<1>7. ASSUME HasInts(b)
      PROVE  k = b.k /\ l = b.l /\ bits = b.key_length
  <2>1. b.k \in Ints /\ b.l \in Ints /\ b.key_length \in Ints
    BY <1>7 DEF HasInts
  <2>2. k = b.k
    BY <2>1, MemberExact
  <2>3. l = b.l
    BY <2>1, MemberExact
  <2>4. bits = b.key_length
    BY <2>1, MemberExact
  <2> QED
    BY <2>2, <2>3, <2>4
<1>11. TakenFrom(param', b)
  BY <1>2, <1>7 DEF TakenFrom
<1> HIDE DEF list, url
<1>8. at' = "keys" /\ body' = b /\ reply' = "none" /\ results' = results
  BY DEF Receive
<1>9. TypeOK' /\ Passed'
  BY <1>6, <1>8 DEF RInv, TypeOK, Passed, Checks
<1>10. Faithful'
  BY <1>8, <1>11 DEF Faithful, TakenFrom, HasInts, ListOf, UrlOf
<1> QED
  BY <1>8, <1>9, <1>10 DEF RInv, GeneratedIsSound, RefusalIsJustified, MadeOfParam, Checks

\* A check that lets the request go on.
LEMMA PassPreserves ==
  ASSUME RInv, at \in Checks, at' \in Checks \cup {"accepted"}, Passed',
         reply' \in {reply, "accepted"}, UNCHANGED <<body, param, results>>
  PROVE  RInv'
<1> USE DEF RInv
<1>1. TypeOK'
  BY DEF TypeOK
<1>2. Faithful'
  BY DEF Faithful, Checks, TakenFrom, HasInts, ListOf, UrlOf
<1>3. GeneratedIsSound'
  BY DEF GeneratedIsSound, HasInts, WellFormed, IsPoint
<1>4. RefusalIsJustified' /\ MadeOfParam'
  BY DEF RefusalIsJustified, MadeOfParam, Checks, WellFormed, IsPoint
<1> QED
  BY <1>1, <1>2, <1>3, <1>4

\* A check that refuses the request.
LEMMA RefusePreserves ==
  ASSUME RInv, at \in Checks, at' = "idle", reply' = at, ~WellFormed(body),
         UNCHANGED <<body, param, results>>
  PROVE  RInv'
<1> USE DEF RInv
<1>1. TypeOK'
  BY DEF TypeOK
<1>2. Passed' /\ Faithful'
  BY DEF Passed, Faithful, Checks
<1>3. GeneratedIsSound'
  BY DEF GeneratedIsSound, HasInts, WellFormed, IsPoint
<1>4. RefusalIsJustified' /\ MadeOfParam'
  BY DEF RefusalIsJustified, MadeOfParam, WellFormed, IsPoint
<1> QED
  BY <1>1, <1>2, <1>3, <1>4

\* Every step keeps the invariant.
LEMMA RStep == RInv /\ [Next]_vars => RInv'
<1> SUFFICES ASSUME RInv, [Next]_vars PROVE RInv'
  OBVIOUS
<1> USE DEF RInv
<1>1. CASE UNCHANGED vars
  BY <1>1 DEF vars, TypeOK, Passed, Faithful, GeneratedIsSound, RefusalIsJustified, MadeOfParam
<1>2. ASSUME NEW b \in Bodies, Receive(b) PROVE RInv'
  BY <1>2, ReceivePreserves
<1>3. ASSUME NEW b \in Bodies, ReceiveNotText(b) PROVE RInv'
  BY <1>3 DEF ReceiveNotText, TypeOK, Passed, Faithful, GeneratedIsSound, RefusalIsJustified,
    MadeOfParam, Checks, HasInts, WellFormed, IsPoint
<1>4. CASE CheckPubkeyList
  <2> DEFINE ok == /\ Len(param.keys) = param.l
                   /\ \A i \in 1..Len(param.keys) : IsPoint(param.keys[i])
  <2>1. CASE ok
    <3>1. Passed' /\ at' = "k"
      BY <1>4, <2>1 DEF CheckPubkeyList, Check, Passed, PointsOnly, IsPoint, Checks
    <3> QED
      BY <1>4, <2>1, <3>1, PassPreserves DEF CheckPubkeyList, Check, Checks
  <2>2. CASE ~ok
    <3>1. ~WellFormed(body)
      BY <1>4, <2>2, WellFormedTaken DEF CheckPubkeyList, Check, WellFormed
    <3> QED
      BY <1>4, <2>2, <3>1, RefusePreserves DEF CheckPubkeyList, Check, Checks
  <2> QED
    BY <2>1, <2>2
<1>5. CASE CheckK
  <2> DEFINE ok == param.k > 0 /\ param.k >= param.l \div 2 + 1 /\ param.k <= param.l
  <2>1. CASE ok
    <3>1. Passed' /\ at' = "l"
      BY <1>5, <2>1 DEF CheckK, Check, Passed, Checks
    <3> QED
      BY <1>5, <2>1, <3>1, PassPreserves DEF CheckK, Check, Checks
  <2>2. CASE ~ok
    <3>1. ~WellFormed(body)
      BY <1>5, <2>2, WellFormedTaken DEF CheckK, Check, WellFormed
    <3> QED
      BY <1>5, <2>2, <3>1, RefusePreserves DEF CheckK, Check, Checks
  <2> QED
    BY <2>1, <2>2
<1>6. CASE CheckL
  <2> DEFINE ok == param.l > 1 /\ param.l < 21
  <2>1. CASE ok
    <3>1. Passed' /\ at' = "key_length"
      BY <1>6, <2>1 DEF CheckL, Check, Passed, Checks
    <3> QED
      BY <1>6, <2>1, <3>1, PassPreserves DEF CheckL, Check, Checks
  <2>2. CASE ~ok
    <3>1. ~WellFormed(body)
      <4>1. at = "l" /\ at # "idle"
        BY <1>6 DEF CheckL, Check
      <4>2. WellFormed(body) => param.l = body.l /\ body.l \in 2..20
        BY <4>1, WellFormedTaken DEF WellFormed
      <4> QED
        BY <2>2, <4>2
    <3> QED
      BY <1>6, <2>2, <3>1, RefusePreserves DEF CheckL, Check, Checks
  <2> QED
    BY <2>1, <2>2
<1>7. CASE CheckKeyLength
  <2> DEFINE ok == param.key_length \in {1024, 2048, 3072, 4096}
  <2>1. CASE ok
    <3>1. Passed' /\ at' = "webhook_url"
      BY <1>7, <2>1 DEF CheckKeyLength, Check, Passed, Checks
    <3> QED
      BY <1>7, <2>1, <3>1, PassPreserves DEF CheckKeyLength, Check, Checks
  <2>2. CASE ~ok
    <3>1. ~WellFormed(body)
      BY <1>7, <2>2, WellFormedTaken DEF CheckKeyLength, Check, WellFormed
    <3> QED
      BY <1>7, <2>2, <3>1, RefusePreserves DEF CheckKeyLength, Check, Checks
  <2> QED
    BY <2>1, <2>2
<1>8. CASE CheckWebhookUrl
  <2>1. CASE param.webhook_url # ""
    <3>1. Passed' /\ at' = "accepted"
      <4>1. at = "webhook_url" /\ at' = "accepted" /\ param' = param
        BY <1>8, <2>1 DEF CheckWebhookUrl, Check
      <4>2. HasUrl(param)
        BY Zenon, <2>1 DEF HasUrl
      <4> QED
        BY <4>1, <4>2 DEF Passed, Checks
    <3> QED
      BY <1>8, <2>1, <3>1, PassPreserves DEF CheckWebhookUrl, Check, Checks
  <2>2. CASE ~(param.webhook_url # "")
    <3>1. ~WellFormed(body)
      BY <1>8, <2>2, WellFormedTaken DEF CheckWebhookUrl, Check
    <3> QED
      BY <1>8, <2>2, <3>1, RefusePreserves DEF CheckWebhookUrl, Check, Checks
  <2> QED
    BY <2>1, <2>2
<1>9. CASE Execute
  <2> DEFINE h == PubkeyListHash(Sorted(param.keys))
             p == Packages(Sorted(param.keys), Shares(param.k, param.l))
  <2>1. results' = results \cup {[body |-> body, param |-> param, hash |-> h, packages |-> p]}
    BY <1>9 DEF Execute, ToJsonString
  <2>6. MadeOfParam'
    <3>1. \A r \in results' : r \in results \/ (r.param = param /\ r.hash = h /\ r.packages = p)
      BY <2>1
    <3> QED
      BY <3>1 DEF MadeOfParam
  <2> HIDE DEF h, p
  <2>2. at = "accepted" /\ at' = "idle" /\ body' = body /\ param' = param /\ reply' = reply
    BY <1>9 DEF Execute
  <2>3. TypeOK'
    BY <2>1, <2>2 DEF TypeOK, Faithful
  <2>4. GeneratedIsSound'
    <3>1. /\ param.l \in 2..20 /\ param.k \in 1..param.l /\ 2 * param.k > param.l
          /\ param.key_length \in {1024, 2048, 3072, 4096} /\ Len(param.keys) = param.l
      <4>1. param.k \in Int /\ param.l \in Int
        <5>1. param.k \in Ints /\ param.l \in Ints
          BY DEF TypeOK, Params
        <5> QED
          BY <5>1, WordAssumption DEF Ints
      <4>2. Len(param.keys) = param.l /\ param.key_length \in {1024, 2048, 3072, 4096}
        BY <2>2 DEF Passed
      <4>3. param.k >= param.l \div 2 + 1
        BY <2>2 DEF Passed
      <4>4. param.k > 0 /\ param.k <= param.l
        BY <2>2 DEF Passed
      <4>5. param.l > 1 /\ param.l < 21
        BY <2>2 DEF Passed
      <4>6. 2 * param.k > param.l
        <5>1. \A k, l \in Int : k >= l \div 2 + 1 => 2 * k > l
          OBVIOUS
        <5> QED
          BY <4>1, <4>3, <5>1
      <4>7. param.l \in 2..20
        BY <4>1, <4>5
      <4>8. param.k \in 1..param.l
        BY <4>1, <4>4
      <4> QED
        BY <4>2, <4>6, <4>7, <4>8
    <3>2. ASSUME HasInts(body) PROVE WellFormed(body)
      <4>1. TakenFrom(param, body) /\ body \in Bodies /\ param \in Params
        BY <2>2 DEF Faithful, TypeOK
      <4>2. param.k = body.k /\ param.l = body.l /\ param.key_length = body.key_length
        BY <3>2, <4>1 DEF TakenFrom
      <4>3. body.webhook_url = "url"
        <5>1. HasUrl(param)
          BY <2>2 DEF Passed
        <5>2. param.webhook_url = UrlOf(body) /\ body.webhook_url \in {"url", "", "missing"}
          BY <4>1, BodyFields DEF TakenFrom
        <5> QED
          BY Zenon, <5>1, <5>2 DEF HasUrl, UrlOf
      <4>4. param.keys = body.keys
        <5>1. Len(param.keys) # 0
          BY <3>1
        <5> QED
          BY <4>1, <5>1 DEF TakenFrom, ListOf
      <4>5. \A i \in 1..Len(param.keys) : IsPoint(param.keys[i])
        BY <2>2 DEF Passed, PointsOnly
      <4>6. param.keys \in Seq(Texts)
        BY <4>1 DEF Params
      <4> QED
        BY <3>1, <4>2, <4>3, <4>4, <4>5, <4>6 DEF WellFormed
    <3>3. \A r \in results' : r \in results \/ (r.param = param /\ r.body = body)
      BY <2>1
    <3> QED
      BY <3>1, <3>2, <3>3 DEF GeneratedIsSound
  <2>5. Passed' /\ Faithful' /\ RefusalIsJustified'
    BY <2>2 DEF Passed, Faithful, RefusalIsJustified, Checks
  <2> QED
    BY <2>3, <2>4, <2>5, <2>6
<1> QED
  BY <1>1, <1>2, <1>3, <1>4, <1>5, <1>6, <1>7, <1>8, <1>9 DEF Next

\* Type correctness of requests and of what is generated for them.
THEOREM RequestTypeCorrect == Spec => []TypeOK
<1>1. Spec => []RInv
  BY RInitial, RStep, PTL DEF Spec
<1>2. RInv => TypeOK
  BY DEF RInv
<1> QED  BY <1>1, <1>2, PTL

\* A body whose integers fit is generated for only if it follows the
\* Parameter Rules; and GenerateKey is never called with a split that is no
\* majority, too many shares or fewer keys than shares, whatever the members
\* held that the request left out (keyshard_param.cpp:30-119).
THEOREM GenerationIsSound == Spec => []GeneratedIsSound
<1>1. Spec => []RInv
  BY RInitial, RStep, PTL DEF Spec
<1>2. RInv => GeneratedIsSound
  BY DEF RInv
<1> QED  BY <1>1, <1>2, PTL

\* No request as README.md asks for it is refused (msg_handler.cpp:403-434).
THEOREM RefusalsAreJustified == Spec => []RefusalIsJustified
<1>1. Spec => []RInv
  BY RInitial, RStep, PTL DEF Spec
<1>2. RInv => RefusalIsJustified
  BY DEF RInv
<1> QED  BY <1>1, <1>2, PTL

-----------------------------------------------------------------------------
(* The list of keys after sorting.                                         *)

\* What the results of a state that keeps the invariant are made of.
LEMMA ResultFields ==
  ASSUME RInv, NEW r \in results
  PROVE  /\ r.param.keys \in Seq(Texts) /\ r.param.keys \in Seq(Seq(Nat))
         /\ Len(r.param.keys) = r.param.l
         /\ r.hash = FlattenSeq(Sorted(r.param.keys))
         /\ Len(r.packages) = Len(r.param.keys)
         /\ \A i \in 1..Len(r.packages) :
              /\ r.packages[i].public_key = Sorted(r.param.keys)[i]
              /\ r.packages[i].lock = Head(Sorted(r.param.keys)[i])
              /\ r.packages[i].shard.index = i
<1> DEFINE shares == Shares(r.param.k, r.param.l)
           keys == Sorted(r.param.keys)
<1>1. r.param.keys \in Seq(Texts)
  BY DEF RInv, TypeOK, Params
<1>2. r.param.keys \in Seq(Seq(Nat))
  <2>1. Texts \subseteq Seq(Nat)
    BY TextAssumption
  <2> QED
    BY <1>1, <2>1, SeqMonotonic
<1>3. Len(r.param.keys) = r.param.l /\ r.param.l \in Nat
  BY DEF RInv, GeneratedIsSound
<1>4. r.hash = FlattenSeq(Sorted(r.param.keys)) /\ r.packages = Packages(keys, shares)
  BY DEF RInv, MadeOfParam, PubkeyListHash
<1>5. Len(shares) = r.param.l /\ \A i \in 1..r.param.l : shares[i].index = i
  BY <1>3 DEF Shares
<1> HIDE DEF shares, keys
<1>6. /\ Len(r.packages) = r.param.l
      /\ \A i \in 1..r.param.l :
           r.packages[i] = [public_key |-> keys[i], lock |-> Head(keys[i]), shard |-> shares[i]]
  BY <1>3, <1>4, <1>5 DEF Packages
<1>7. \A i \in 1..Len(r.packages) :
        /\ r.packages[i].public_key = keys[i] /\ r.packages[i].lock = Head(keys[i])
        /\ r.packages[i].shard.index = i
  <2> SUFFICES ASSUME NEW i \in 1..Len(r.packages)
               PROVE  /\ r.packages[i].public_key = keys[i] /\ r.packages[i].lock = Head(keys[i])
                      /\ r.packages[i].shard.index = i
    OBVIOUS
  <2>1. r.packages[i] = [public_key |-> keys[i], lock |-> Head(keys[i]), shard |-> shares[i]]
    BY <1>6
  <2>2. shares[i].index = i
    BY <1>5, <1>6
  <2> QED
    BY <2>1, <2>2
<1>8. Len(r.packages) = Len(r.param.keys)
  BY <1>3, <1>6
<1> QED
  BY <1>1, <1>2, <1>3, <1>4, <1>7, <1>8 DEF keys

\* The invariant says that each key gets a shard of its own.
LEMMA RInvEachKey == RInv => EachKeyItsShard
<1> SUFFICES ASSUME RInv, NEW r \in results
             PROVE  /\ \A i, j \in 1..Len(r.packages) : r.packages[i].shard = r.packages[j].shard => i = j
                    /\ \A i \in 1..Len(r.packages) : r.packages[i].lock = Head(r.packages[i].public_key)
                    /\ \A x \in Texts :
                         Cardinality({i \in 1..Len(r.packages) : r.packages[i].public_key = x})
                           = Cardinality(Occurrences(r.param.keys, x))
  BY DEF EachKeyItsShard
<1>0. \A i \in 1..Len(r.packages) :
        /\ r.packages[i].public_key = Sorted(r.param.keys)[i]
        /\ r.packages[i].lock = Head(Sorted(r.param.keys)[i])
        /\ r.packages[i].shard.index = i
  BY ResultFields
<1>1. \A i, j \in 1..Len(r.packages) : r.packages[i].shard = r.packages[j].shard => i = j
  <2> SUFFICES ASSUME NEW i \in 1..Len(r.packages), NEW j \in 1..Len(r.packages),
                      r.packages[i].shard = r.packages[j].shard
               PROVE  i = j
    OBVIOUS
  <2>1. r.packages[i].shard.index = i /\ r.packages[j].shard.index = j
    BY <1>0
  <2> QED
    BY <2>1
<1>2. \A i \in 1..Len(r.packages) : r.packages[i].lock = Head(r.packages[i].public_key)
  BY <1>0
<1>3. ASSUME NEW x \in Texts
      PROVE  Cardinality({i \in 1..Len(r.packages) : r.packages[i].public_key = x})
               = Cardinality(Occurrences(r.param.keys, x))
  <2>1. r.param.keys \in Seq(Seq(Nat)) /\ Len(Sorted(r.param.keys)) = Len(r.packages)
    BY ResultFields, SortedAt
  <2>2. {i \in 1..Len(r.packages) : r.packages[i].public_key = x} = Occurrences(Sorted(r.param.keys), x)
    BY <2>1, ResultFields DEF Occurrences
  <2> QED
    BY <2>1, <2>2, SortedKeeps
<1> QED
  BY <1>1, <1>2, <1>3

\* Each key of a request, as often as it is there, gets a shard of its own
\* and encrypted for it, though the enclave sorts the list before it counts
\* the shards (GenerateTask.cpp:74, 194-232).
THEOREM EveryKeyGetsItsShard == Spec => []EachKeyItsShard
<1>1. Spec => []RInv
  BY RInitial, RStep, PTL DEF Spec
<1> QED  BY <1>1, RInvEachKey, PTL

\* Requests for the same keys get the same hash.
LEMMA RInvHashNames == RInv => HashNamesList
<1> SUFFICES ASSUME RInv, NEW r1 \in results, NEW r2 \in results,
                    SameTexts(Texts, r1.param.keys, r2.param.keys)
             PROVE  r1.hash = r2.hash
  BY DEF HashNamesList, Permuted
<1>1. r1.param.keys \in Seq(Texts) /\ r2.param.keys \in Seq(Texts) /\ Texts \in SUBSET Seq(Nat)
  BY ResultFields, TextAssumption
<1>2. Sorted(r1.param.keys) = Sorted(r2.param.keys)
  BY <1>1, SortedForgets
<1> QED
  BY <1>2, ResultFields

\* The client's hash of the sorted list is the one the enclave names,
\* whatever order the request lists the keys in: that is what the sorting of
\* both is for (GenerateTask.cpp:74, test/main.cpp:259-273).
THEOREM HashNamesTheList == Spec => []HashNamesList
<1>1. Spec => []RInv
  BY RInitial, RStep, PTL DEF Spec
<1> QED  BY <1>1, RInvHashNames, PTL

\* Requests of one hash list the same keys.
LEMMA RInvHashMeans ==
  ASSUME NEW L \in Nat \ {0}, AllOfLength(Texts, L)
  PROVE  RInv => HashMeansDuplicate
<1> SUFFICES ASSUME RInv, NEW r1 \in results, NEW r2 \in results, r1.hash = r2.hash
             PROVE  SameTexts(Texts, r1.param.keys, r2.param.keys)
  BY DEF HashMeansDuplicate, Permuted
<1> DEFINE s == r1.param.keys
           t == r2.param.keys
<1>1. /\ s \in Seq(Texts) /\ t \in Seq(Texts) /\ Texts \in SUBSET Seq(Nat)
      /\ s \in Seq(Seq(Nat)) /\ t \in Seq(Seq(Nat))
  BY ResultFields, TextAssumption
<1>2. FlattenSeq(Sorted(s)) = FlattenSeq(Sorted(t))
  BY ResultFields
<1>3. Sorted(s) \in Seq(Texts) /\ Sorted(t) \in Seq(Texts)
  BY <1>1, SortedType
<1>4. Sorted(s) = Sorted(t)
  BY <1>1, <1>2, <1>3, FlattenInjective
<1>5. \A x \in Texts : Cardinality(Occurrences(s, x)) = Cardinality(Occurrences(t, x))
  BY <1>1, <1>4, SortedKeeps
<1> QED
  BY <1>5 DEF SameTexts

\* When all keys are texts of one length, as the encodings of the points of
\* one curve are, a hash stands for one list of keys up to its order: "a
\* duplicate request" is one for the same keys (README.md).  Without that
\* the concatenation of the keys can be cut in two ways (run
\* request_length).
THEOREM HashMeansTheSameKeys ==
  ASSUME NEW L \in Nat \ {0}, AllOfLength(Texts, L)
  PROVE  Spec => []HashMeansDuplicate
<1>1. Spec => []RInv
  BY RInitial, RStep, PTL DEF Spec
<1>2. RInv => HashMeansDuplicate
  BY RInvHashMeans
<1> QED  BY <1>1, <1>2, PTL
=============================================================================
