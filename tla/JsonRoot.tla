------------------------------ MODULE JsonRoot ------------------------------
(***************************************************************************)
(* The JSON of a generation inside the enclave: GenerateTask::execute      *)
(* reads its request and get_reply_string and get_private_key_info_cipher  *)
(* build the plain text of every package and the reply                     *)
(* (src/Enclave/tasks/GenerateTask.cpp), through JSON::Root and            *)
(* JSON::Value (src/Enclave/json/json.cpp).                                *)
(*                                                                         *)
(* A Root owns up to two cJSON trees through void pointers, one that was   *)
(* parsed and one that is written; the heap maps the address of a tree to  *)
(* it.  No allocation of cJSON is checked by the callers: one that fails   *)
(* loses what was to be added, without an error.                           *)
(***************************************************************************)
EXTENDS JsonTree, TextOrder

CONSTANTS
  Requests,     \* the texts a run starts from, as sequences of tokens
  Key,          \* the members' names, in bytes
  PublicText,   \* the RSA public key and the key meta as the library
  MetaText,     \*   writes them
  MaxFailures,  \* bound on the allocations that fail in a run
  Parser(_),    \* cJSON_Parse: whether a text is JSON, and its tree
  Printer(_)    \* cJSON_PrintUnformatted

KeyNames == {"k", "l", "user_public_key_list", "pubkey_list_hash", "rsa_public_key",
             "key_shard_pkg", "key_meta", "key_shard", "index", "private_key_shard",
             "public_key", "encrypt_key_info"}

ASSUME KeyAssumption ==
  /\ DOMAIN Key = KeyNames
  /\ \A a, b \in KeyNames : SameKey(Key[a], Key[b]) => a = b
ASSUME LibraryAssumption ==
  \A text \in {PublicText, MetaText} : Parser(text).ok /\ Parser(text).value # NoItem
ASSUME EmptyAssumption   == ~Parser(<<>>).ok
ASSUME BoundAssumption   == MaxFailures \in Nat

VARIABLES
  request,   \* the tokens of the request
  at,        \* the statement that comes next
  i,         \* the package that is built, then the one that is copied
  heap,      \* address |-> tree
  roots,     \* the Root objects on the stack
  list,      \* pkg_array, the m_write_root of each element
  array,     \* the array its elements are copied to
  keys,      \* input_pubkey_list
  plains,    \* what was encrypted, and for which key
  reply,     \* the reply, in bytes
  failures   \* allocations that have failed

vars == <<request, at, i, heap, roots, list, array, keys, plains, reply, failures>>

Null == 0
NoRoot == [read |-> Null, write |-> Null]
\* The last three of them live as long as one package.
RootNames == {"req_root", "root", "pubkey_root", "arrary_node",
              "cipher_root", "key_meta_node", "key_shard_node"}

Init ==
  /\ request \in Requests
  /\ at = "parse"
  /\ i = 1
  /\ heap = <<>>
  /\ roots = [r \in RootNames |-> NoRoot]
  /\ list = <<>>
  /\ array = Null
  /\ keys = <<>>
  /\ plains = <<>>
  /\ reply = <<>>
  /\ failures = 0

-----------------------------------------------------------------------------
(* The heap.                                                               *)

\* The address of a new tree, unlike that of every tree there is.
Fresh(h) == CHOOSE a \in 1..Cardinality(DOMAIN h) + 1 : a \notin DOMAIN h
With(h, a, tree) == [b \in DOMAIN h \cup {a} |-> IF b = a THEN tree ELSE h[b]]
Without(h, addresses) == [a \in DOMAIN h \ addresses |-> h[a]]
Held(names) == {roots[r].read : r \in names} \cup {roots[r].write : r \in names}

\* n allocations fail now.
Fails(n) == failures + n <= MaxFailures /\ failures' = failures + n

\* The destructors of the Roots of a block.
Destroy(names) ==
  /\ heap' = Without(heap, Held(names))
  /\ roots' = [r \in RootNames |-> IF r \in names THEN NoRoot ELSE roots[r]]

\* (mutant: operator= copies the pointer, which the temporary then frees)
ParseShallow(r, text) ==
  /\ roots' = [roots EXCEPT ![r] = [read |-> IF Parser(text).ok THEN Fresh(heap) ELSE Null, write |-> Null]]
  /\ UNCHANGED <<heap, failures>>

\* JSON::Root::parse and operator=, which overwrites both pointers: what is
\* left of the temporaries is one tree, or none when the text is no JSON or
\* an allocation failed.
Parse(r, text) ==
  \/ /\ Parser(text).ok
     /\ heap' = With(heap, Fresh(heap), Parser(text).value)
     /\ roots' = [roots EXCEPT ![r] = [read |-> Fresh(heap), write |-> Null]]
     /\ UNCHANGED failures
  \/ /\ roots' = [roots EXCEPT ![r] = NoRoot]
     /\ UNCHANGED heap
     /\ IF Parser(text).ok THEN Fails(1) ELSE UNCHANGED failures

\* root[key] = value, whose operator[] creates the object when there is
\* none.  item is NoItem when the source Root has no tree.  A copy whose
\* name cannot be allocated is never freed; a new scalar is.
Target(r) == IF roots[r].write = Null THEN Fresh(heap) ELSE roots[r].write
Opened(r) == IF roots[r].write = Null THEN With(heap, Fresh(heap), EmptyObject) ELSE heap

Assign(r, key, item, copied) ==
  LET a == Target(r)
      h == Opened(r)
  IN  \/ /\ heap' = IF item = NoItem THEN h ELSE With(h, a, AddItem(h[a], Key[key], item))
         /\ roots' = [roots EXCEPT ![r].write = a]
         /\ UNCHANGED failures
      \/ /\ roots[r].write = Null
         /\ Fails(1)
         /\ UNCHANGED <<heap, roots>>
      \/ /\ item # NoItem
         /\ Fails(1)
         /\ roots' = [roots EXCEPT ![r].write = a]
         /\ \/ heap' = h
            \/ copied /\ heap' = With(h, Fresh(h), item)

-----------------------------------------------------------------------------
(* GenerateTask::execute.                                                  *)

Leave(where) == at' = where

\* The request is parsed; what is no JSON is refused.
ParseRequest ==
  /\ at = "parse"
  /\ Parse("req_root", Bytes(request))
  /\ Leave(IF roots'["req_root"].read = Null THEN "refused" ELSE "params")
  /\ UNCHANGED <<request, i, list, array, keys, plains, reply>>

Requested(key) == GetObjectItem(heap[roots["req_root"].read], Key[key])

\* k, l and the list of keys, which is sorted.  A key that is no string has
\* no valuestring: std::string of a null pointer.
ReadParams ==
  /\ at = "params"
  /\ LET items == AsStringArray(Requested("user_public_key_list"))
     IN  IF \A n \in 1..Len(items) : items[n].type = "String"
           THEN keys' = Sorted([n \in 1..Len(items) |-> items[n].text]) /\ Leave("generate")
           ELSE UNCHANGED keys /\ Leave("undefined")
  /\ UNCHANGED <<request, i, heap, roots, list, array, plains, reply, failures>>

\* What the host has seen to before the ECALL (ShardRequest, CheckParams).
HostChecked == AsInt(Requested("l")) = Len(keys) /\ AsInt(Requested("k")) > 0

\* The list is hashed and GenerateKey makes l shares: an empty list and an
\* error of a library end the task.  Nothing in the enclave compares l with
\* the list it indexes with the shares later: beyond the host's checks the
\* model stops.
GenerateKey ==
  /\ at = "generate"
  /\ \/ Leave("refused") /\ Destroy(RootNames)
     \/ keys # <<>> /\ HostChecked /\ Leave("hash") /\ UNCHANGED <<heap, roots>>
     \/ keys # <<>> /\ ~HostChecked /\ Leave("unchecked") /\ UNCHANGED <<heap, roots>>
  /\ UNCHANGED <<request, i, list, array, keys, plains, reply, failures>>

-----------------------------------------------------------------------------
(* get_reply_string and get_private_key_info_cipher.                       *)

TreeOf(r)   == LET p == roots[r]
               IN  IF p.read # Null THEN heap[p.read]
                   ELSE IF p.write # Null THEN heap[p.write] ELSE NoItem

\* Stand-ins for what the libraries return: the hash, the n-th share, and
\* the cipher of the n-th package.
HashText      == <<104>>
ShareText(n)  == <<115, 48 + n>>
CipherText(n) == <<99, 48 + n>>

\* The assignments to members: root, name, value, and what comes next.  Of
\* the last one this is operator[] alone: the array is made next.
Statement(root, key, item, next) == [root |-> root, key |-> key, item |-> item, next |-> next]
Assignments ==
  {"hash", "public", "meta", "index", "share", "shard", "pubkey", "cipher", "packages"}
AssignmentAt(where) ==
  CASE where = "hash"   -> Statement("root", "pubkey_list_hash", Text(HashText), "parsepublic")
    [] where = "public" -> Statement("root", "rsa_public_key", TreeOf("pubkey_root"), "parsemeta")
    [] where = "meta"   -> Statement("cipher_root", "key_meta", TreeOf("key_meta_node"), "index")
    [] where = "index"  -> Statement("key_shard_node", "index", Number(i), "share")
    [] where = "share"  -> Statement("key_shard_node", "private_key_shard", Text(ShareText(i)), "shard")
    [] where = "shard"  -> Statement("cipher_root", "key_shard", TreeOf("key_shard_node"), "encrypt")
    [] where = "pubkey" -> Statement("arrary_node", "public_key", Text(keys[i]), "cipher")
    [] where = "cipher" -> Statement("arrary_node", "encrypt_key_info", Text(CipherText(i)), "push")
    [] where = "packages" -> Statement("root", "key_shard_pkg", NoItem, "array")

AssignMember ==
  /\ at \in Assignments
  /\ LET s == AssignmentAt(at)
     IN  /\ Assign(s.root, s.key, s.item, at \in {"public", "meta", "shard"})
         /\ Leave(s.next)
  /\ UNCHANGED <<request, i, list, array, keys, plains, reply>>

ParsePublic ==
  /\ at = "parsepublic"
  /\ Parse("pubkey_root", PublicText)
  /\ Leave("public")
  /\ UNCHANGED <<request, i, list, array, keys, plains, reply>>

\* An error leaves both functions: all Roots are destroyed, pkg_array too.
Abandon ==
  /\ heap' = Without(heap, Held(RootNames) \cup Range(list))
  /\ roots' = [r \in RootNames |-> NoRoot]
  /\ list' = <<>>
  /\ Leave("failed")

\* The key meta of a package; here a failed parse is noticed.
ParseMeta ==
  /\ at = "parsemeta"
  /\ \/ /\ Parse("key_meta_node", MetaText)
        /\ roots'["key_meta_node"].read # Null
        /\ Leave("meta")
        /\ UNCHANGED list
     \/ Fails(1) /\ Abandon
  /\ UNCHANGED <<request, i, array, keys, plains, reply>>

\* JSON::Root::write: nothing when there is no tree or no memory.
Written(r) == IF roots[r].write = Null THEN <<>> ELSE Printer(heap[roots[r].write])

\* write, DecodeFull and EncryptPack, and the end of
\* get_private_key_info_cipher.
Encrypt ==
  /\ at = "encrypt"
  /\ \/ /\ \/ plains' = Append(plains, [key |-> keys[i], text |-> Written("cipher_root")])
              /\ UNCHANGED failures
           \/ plains' = Append(plains, [key |-> keys[i], text |-> <<>>]) /\ Fails(1)
        /\ Destroy({"cipher_root", "key_meta_node", "key_shard_node"})
        /\ Leave("pubkey")
        /\ UNCHANGED list
     \/ Abandon /\ UNCHANGED <<plains, failures>>
  /\ UNCHANGED <<request, i, array, keys, reply>>

\* (mutant: arrary_node is declared before the loop)
PushPackageKeepsNode ==
  /\ at = "push"
  /\ LET source == roots["arrary_node"].write
     IN  IF source # Null
           THEN heap' = With(heap, Fresh(heap), heap[source]) /\ list' = Append(list, Fresh(heap))
           ELSE list' = Append(list, Null) /\ UNCHANGED heap
  /\ i' = i + 1
  /\ Leave(IF i = Len(keys) THEN "packages" ELSE "parsemeta")
  /\ UNCHANGED <<request, roots, array, keys, plains, reply, failures>>

\* push_back copies arrary_node, which ends with the turn of the loop.
PushPackage ==
  /\ at = "push"
  /\ LET source == roots["arrary_node"].write
         copy   == Fresh(heap)
     IN  \/ /\ source # Null
            /\ heap' = Without(With(heap, copy, heap[source]), {source})
            /\ list' = Append(list, copy)
            /\ UNCHANGED failures
         \/ /\ heap' = Without(heap, {source})
            /\ list' = Append(list, Null)
            /\ IF source = Null THEN UNCHANGED failures ELSE Fails(1)
  /\ roots' = [roots EXCEPT !["arrary_node"] = NoRoot]
  /\ i' = i + 1
  /\ Leave(IF i = Len(keys) THEN "packages" ELSE "parsemeta")
  /\ UNCHANGED <<request, array, keys, plains, reply>>

\* root["key_shard_pkg"] = pkg_array: an array of copies.
CreateArray ==
  /\ at = "array"
  /\ \/ /\ heap' = With(heap, Fresh(heap), EmptyArray)
        /\ array' = Fresh(heap)
        /\ UNCHANGED failures
     \/ /\ array' = Null
        /\ UNCHANGED heap
        /\ Fails(1)
  /\ i' = 1
  /\ Leave("copy")
  /\ UNCHANGED <<request, roots, list, keys, plains, reply>>

\* cJSON_Duplicate and cJSON_AddItemToArray: a copy that fails is left out,
\* and without an array the copy is lost.
CopyPackage ==
  /\ at = "copy" /\ i <= Len(list)
  /\ \/ /\ list[i] # Null /\ array # Null
        /\ heap' = [heap EXCEPT ![array] = AddItem(@, <<>>, heap[list[i]])]
        /\ UNCHANGED failures
     \/ /\ list[i] # Null /\ array = Null
        /\ heap' = With(heap, Fresh(heap), heap[list[i]])
        /\ UNCHANGED failures
     \/ /\ UNCHANGED heap
        /\ IF list[i] # Null THEN Fails(1) ELSE UNCHANGED failures
  /\ i' = i + 1
  /\ UNCHANGED <<request, at, roots, list, array, keys, plains, reply>>

\* cJSON_AddItemToObject: the array becomes part of the tree of root, or is
\* forgotten.
AddArray ==
  /\ at = "copy" /\ i > Len(list)
  /\ LET root == roots["root"].write
         both == root # Null /\ array # Null
     IN  \/ /\ both
            /\ heap' = Without(With(heap, root, AddItem(heap[root], Key["key_shard_pkg"], heap[array])), {array})
            /\ UNCHANGED failures
         \/ /\ UNCHANGED heap
            /\ IF both THEN Fails(1) ELSE UNCHANGED failures
  /\ array' = Null
  /\ Leave("write")
  /\ UNCHANGED <<request, i, roots, list, keys, plains, reply>>

\* The reply is written, and all Roots end.
WriteReply ==
  /\ at = "write"
  /\ \/ reply' = Written("root") /\ UNCHANGED failures
     \/ reply' = <<>> /\ Fails(1)
  /\ heap' = Without(heap, Held(RootNames) \cup Range(list))
  /\ roots' = [r \in RootNames |-> NoRoot]
  /\ list' = <<>>
  /\ Leave("done")
  /\ UNCHANGED <<request, i, array, keys, plains>>

Next ==
  \/ ParseRequest \/ ReadParams \/ GenerateKey \/ ParsePublic \/ ParseMeta
  \/ AssignMember \/ Encrypt \/ PushPackage \/ CreateArray \/ CopyPackage \/ AddArray \/ WriteReply

Spec == Init /\ [][Next]_vars

-----------------------------------------------------------------------------
(* Correctness.                                                            *)

\* The trees somebody still points to.
Owned == (Held(RootNames) \cup Range(list) \cup {array}) \ {Null}

\* Each tree belongs to one Root, to one element of pkg_array or is the
\* array under construction; nobody points to a tree that is deleted, and
\* none is forgotten unless an allocation failed (json.cpp:11-19, 58-65,
\* 174-196).
OwnedOnce ==
  /\ Owned \subseteq DOMAIN heap
  /\ \A r, s \in RootNames : \A p, q \in {"read", "write"} :
       roots[r][p] # Null /\ roots[r][p] = roots[s][q] => r = s /\ p = q
  /\ \A m, n \in 1..Len(list) : list[m] # Null /\ list[m] = list[n] => m = n
  /\ Held(RootNames) \cap Range(list) \subseteq {Null}
  /\ array # Null => array \notin Held(RootNames) \cup Range(list)
  /\ failures = 0 => Owned = DOMAIN heap

\* The tree of an object made of these members, in order.
Object(members) ==
  [type |-> "Object", child |-> [n \in 1..Len(members) |-> [key |-> Key[members[n][1]], value |-> members[n][2]]]]

PlainOf(n) ==
  Object(<<<<"key_meta", Parser(MetaText).value>>,
           <<"key_shard", Object(<<<<"index", Number(n)>>, <<"private_key_shard", Text(ShareText(n))>>>>)>>>>)

\* When no allocation failed the reply has the hash, the public key and one
\* package for each key of the request, in order, and each cipher holds the
\* share of its index (GenerateTask.cpp:216-247, 270-291).
ReplyIsComplete ==
  at = "done" /\ failures = 0 =>
    /\ Parser(reply).value =
         Object(<<<<"pubkey_list_hash", Text(HashText)>>,
                  <<"rsa_public_key", Parser(PublicText).value>>,
                  <<"key_shard_pkg",
                    [type |-> "Array",
                     child |-> [n \in 1..Len(keys) |->
                       [key |-> <<>>,
                        value |-> Object(<<<<"public_key", Text(keys[n])>>,
                                           <<"encrypt_key_info", Text(CipherText(n))>>>>)]]]>>>>)
    /\ plains = [n \in 1..Len(keys) |-> [key |-> keys[n], text |-> Printer(PlainOf(n))]]

\* Whatever allocations fail, no package of the reply shows a key together
\* with a cipher made for another key (GenerateTask.cpp:234-245).
NoShardMisfiled ==
  LET tree == Parser(reply)
      packages == IF tree.ok THEN AsStringArray(GetObjectItem(tree.value, Key["key_shard_pkg"])) ELSE <<>>
  IN  at = "done" => \A n \in 1..Len(packages) :
        LET key    == GetObjectItem(packages[n], Key["public_key"])
            cipher == GetObjectItem(packages[n], Key["encrypt_key_info"])
        IN  key # NoItem /\ cipher # NoItem =>
              \E m \in 1..Len(plains) : cipher.text = CipherText(m) /\ plains[m].key = key.text
=============================================================================
