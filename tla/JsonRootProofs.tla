--------------------------- MODULE JsonRootProofs ---------------------------
(***************************************************************************)
(* Proofs about the JSON of a generation (JsonRoot): that each tree has    *)
(* one owner, for every text, parser, printer and number of failures.      *)
(***************************************************************************)
EXTENDS JsonRoot, JsonBuffer, TextOrderProofs

\* The places a task can be at.
Statements ==
  Assignments \cup {"parse", "params", "generate", "parsepublic", "parsemeta", "encrypt", "push",
                    "array", "copy", "write", "refused", "undefined", "unchecked",
                    "failed", "done"}

\* The Root objects that may hold a tree there; the others have none.
Live(where) ==
  CASE where \in {"parse", "refused", "failed", "done"} -> {}
    [] where \in {"params", "generate", "undefined", "unchecked", "hash"} -> {"req_root"}
    [] where = "parsepublic" -> {"req_root", "root"}
    [] where \in {"public", "parsemeta", "pubkey", "packages", "array", "copy", "write"} ->
         {"req_root", "root", "pubkey_root"}
    [] where = "meta"  -> {"req_root", "root", "pubkey_root", "key_meta_node"}
    [] where = "index" -> {"req_root", "root", "pubkey_root", "key_meta_node", "cipher_root"}
    [] where \in {"share", "shard", "encrypt"} ->
         {"req_root", "root", "pubkey_root", "key_meta_node", "cipher_root", "key_shard_node"}
    [] where \in {"cipher", "push"} -> {"req_root", "root", "pubkey_root", "arrary_node"}

\* The types of what holds addresses.
FiniteHeap(h) == IsFiniteSet(DOMAIN h) /\ DOMAIN h \subseteq Nat \ {Null}

Cells ==
  /\ FiniteHeap(heap)
  /\ roots \in [RootNames -> [read : Nat, write : Nat]]
  /\ list \in Seq(Nat)
  /\ array \in Nat
  /\ failures \in Nat

HeapTypes == at \in Statements /\ i \in Nat \ {0} /\ Cells

\* A Root that is not in scope, or has not been written to, has no tree, and
\* the array is only there while it is filled.
Idle ==
  /\ \A r \in RootNames \ Live(at) : roots[r] = NoRoot
  /\ at # "copy" => array = Null

\* A Root is either parsed or written.
ParsedRoots ==
  {"req_root", "pubkey_root", "key_meta_node"}
OneUse ==
  \A r \in RootNames : IF r \in ParsedRoots THEN roots[r].write = Null ELSE roots[r].read = Null

\* What was to be made is there unless an allocation failed.
Made ==
  failures = 0 =>
    /\ at \in {"array", "copy", "write"} => roots["root"].write # Null
    /\ at = "copy" => array # Null

HeapInv == HeapTypes /\ Idle /\ OneUse /\ Made /\ OwnedOnce

-----------------------------------------------------------------------------
(* The heap.                                                               *)

\* A new tree gets an address no other tree has.
LEMMA FreshAddress ==
  ASSUME NEW h, FiniteHeap(h)
  PROVE  Fresh(h) \in Nat \ {Null} /\ Fresh(h) \notin DOMAIN h
<1> DEFINE c == Cardinality(DOMAIN h)
<1>1. c \in Nat
  BY FS_CardinalityType DEF FiniteHeap
<1>2. IsFiniteSet(1..c + 1) /\ Cardinality(1..c + 1) = c + 1
  BY <1>1, FS_Interval
<1>3. ~(1..c + 1 \subseteq DOMAIN h)
  <2> SUFFICES ASSUME 1..c + 1 \subseteq DOMAIN h PROVE FALSE
    OBVIOUS
  <2>1. Cardinality(1..c + 1) <= c
    BY FS_Subset DEF FiniteHeap
  <2> QED BY <2>1, <1>1, <1>2
<1>4. \E a \in 1..c + 1 : a \notin DOMAIN h
  BY <1>3
<1>5. Fresh(h) \in 1..c + 1 /\ Fresh(h) \notin DOMAIN h
  BY <1>4 DEF Fresh
<1> QED BY <1>5, <1>1 DEF Null

LEMMA WithDomain ==
  ASSUME NEW h, NEW a, NEW tree
  PROVE  /\ DOMAIN With(h, a, tree) = DOMAIN h \cup {a}
         /\ With(h, a, tree)[a] = tree
         /\ \A b \in DOMAIN h : b # a => With(h, a, tree)[b] = h[b]
  BY DEF With

LEMMA WithFinite ==
  ASSUME NEW h, FiniteHeap(h), NEW a \in Nat \ {Null}, NEW tree
  PROVE  FiniteHeap(With(h, a, tree))
<1>1. IsFiniteSet(DOMAIN h \cup {a})
  BY FS_AddElement DEF FiniteHeap
<1>2. DOMAIN With(h, a, tree) = DOMAIN h \cup {a}
  BY WithDomain
<1> QED BY <1>1, <1>2 DEF FiniteHeap

LEMMA Writes ==
  ASSUME NEW h, FiniteHeap(h), NEW a \in Nat \ {Null}, NEW tree, NEW g, g = With(h, a, tree)
  PROVE  DOMAIN g = DOMAIN h \cup {a} /\ FiniteHeap(g)
  BY WithDomain, WithFinite

LEMMA WithoutDomain ==
  ASSUME NEW h, NEW gone
  PROVE  /\ DOMAIN Without(h, gone) = DOMAIN h \ gone
         /\ \A b \in DOMAIN h \ gone : Without(h, gone)[b] = h[b]
  BY DEF Without

LEMMA WithoutFinite ==
  ASSUME NEW h, FiniteHeap(h), NEW gone
  PROVE  FiniteHeap(Without(h, gone))
<1>1. IsFiniteSet(DOMAIN h \ gone)
  BY FS_Subset DEF FiniteHeap
<1>2. DOMAIN Without(h, gone) = DOMAIN h \ gone
  BY WithoutDomain
<1> QED BY <1>1, <1>2 DEF FiniteHeap

-----------------------------------------------------------------------------
(* What a step does to the owners.                                         *)

Pointers == {"read", "write"}

\* The part of OwnedOnce that speaks of the owners alone.
OneOwner ==
  /\ \A r, s \in RootNames : \A p, q \in Pointers :
       roots[r][p] # Null /\ roots[r][p] = roots[s][q] => r = s /\ p = q
  /\ \A m, n \in 1..Len(list) : list[m] # Null /\ list[m] = list[n] => m = n
  /\ \A r \in RootNames, p \in Pointers, n \in 1..Len(list) :
       roots[r][p] = list[n] => list[n] = Null
  /\ array # Null => /\ \A r \in RootNames, p \in Pointers : roots[r][p] # array
                     /\ \A n \in 1..Len(list) : list[n] # array

\* Membership in Owned, place by place.
IsOwned(a) ==
  /\ a # Null
  /\ \/ \E r \in RootNames, p \in Pointers : roots[r][p] = a
     \/ \E n \in 1..Len(list) : list[n] = a
     \/ array = a

LEMMA HeldPlaces ==
  \A a : a \in Held(RootNames) <=> \E r \in RootNames, p \in Pointers : roots[r][p] = a
  BY DEF Held, Pointers

LEMMA ListPlaces ==
  list \in Seq(Nat) => \A a : a \in Range(list) <=> \E n \in 1..Len(list) : list[n] = a
  BY DEF Range

LEMMA OwnedPlaces == list \in Seq(Nat) => \A a : a \in Owned <=> IsOwned(a)
  BY HeldPlaces, ListPlaces DEF Owned, IsOwned

\* OwnedOnce as what it says of each address.
Kept ==
  /\ OneOwner
  /\ \A a : IsOwned(a) => a \in DOMAIN heap
  /\ failures = 0 => \A a \in DOMAIN heap : IsOwned(a)

LEMMA OwnedKept == list \in Seq(Nat) => (OwnedOnce <=> Kept)
<1> SUFFICES ASSUME list \in Seq(Nat) PROVE OwnedOnce <=> Kept
  OBVIOUS
<1>1. Held(RootNames) \cap Range(list) \subseteq {Null}
      <=> \A r \in RootNames, p \in Pointers, n \in 1..Len(list) :
            roots[r][p] = list[n] => list[n] = Null
  <2>1. ASSUME Held(RootNames) \cap Range(list) \subseteq {Null},
               NEW r \in RootNames, NEW p \in Pointers, NEW n \in 1..Len(list), roots[r][p] = list[n]
        PROVE  list[n] = Null
    <3>1. list[n] \in Held(RootNames) /\ list[n] \in Range(list)
      BY <2>1, HeldPlaces, ListPlaces
    <3> QED BY <3>1, <2>1
  <2>2. ASSUME \A r \in RootNames, p \in Pointers, n \in 1..Len(list) :
                 roots[r][p] = list[n] => list[n] = Null,
               NEW a \in Held(RootNames) \cap Range(list)
        PROVE  a = Null
    <3>1. PICK r \in RootNames, p \in Pointers : roots[r][p] = a
      BY HeldPlaces
    <3>2. PICK n \in 1..Len(list) : list[n] = a
      BY ListPlaces
    <3> QED BY <2>2, <3>1, <3>2
  <2> QED BY <2>1, <2>2
<1>2. array \notin Held(RootNames) \cup Range(list)
      <=> /\ \A r \in RootNames, p \in Pointers : roots[r][p] # array
          /\ \A n \in 1..Len(list) : list[n] # array
  BY HeldPlaces, ListPlaces
<1>3. Owned \subseteq DOMAIN heap <=> \A a : IsOwned(a) => a \in DOMAIN heap
  BY OwnedPlaces
<1>4. Owned \subseteq DOMAIN heap =>
        (Owned = DOMAIN heap <=> \A a \in DOMAIN heap : IsOwned(a))
  BY OwnedPlaces
<1> QED BY <1>1, <1>2, <1>3, <1>4 DEF OwnedOnce, Kept, OneOwner, Pointers

LEMMA OwnedKeptNext == (list \in Seq(Nat) => (OwnedOnce <=> Kept))'
  BY OwnedKept, PTL

\* No owner changes, and a tree nobody owns appears only with a failure.
LEMMA OwnersStay ==
  ASSUME Kept, UNCHANGED <<roots, list, array>>,
         DOMAIN heap \subseteq DOMAIN heap',
         failures' = 0 => failures = 0 /\ DOMAIN heap' = DOMAIN heap
  PROVE  Kept'
<1>1. OneOwner'
  BY DEF Kept, OneOwner
<1>2. \A a : IsOwned(a)' <=> IsOwned(a)
  BY DEF IsOwned
<1> QED BY <1>1, <1>2 DEF Kept

\* A Root gets a new tree.
LEMMA RootGains ==
  ASSUME Kept, NEW r \in RootNames, NEW p \in Pointers, NEW a, a # Null, a \notin DOMAIN heap,
         roots \in [RootNames -> [read : Nat, write : Nat]],
         roots[r][p] = Null,
         roots' = [roots EXCEPT ![r][p] = a],
         DOMAIN heap \cup {a} \subseteq DOMAIN heap',
         UNCHANGED <<list, array>>,
         failures' = 0 => failures = 0 /\ DOMAIN heap' = DOMAIN heap \cup {a}
  PROVE  Kept'
<1>1. \A s \in RootNames, q \in Pointers :
        roots'[s][q] = IF s = r /\ q = p THEN a ELSE roots[s][q]
  BY DEF Pointers
<1>2. /\ \A s \in RootNames, q \in Pointers : roots[s][q] # a
      /\ \A n \in 1..Len(list) : list[n] # a
      /\ array # a
  BY DEF Kept, IsOwned
<1>3. OneOwner'
  BY <1>1, <1>2 DEF Kept, OneOwner
<1>4. \A b : IsOwned(b)' <=> b = a \/ IsOwned(b)
  BY <1>1 DEF IsOwned
<1> QED BY <1>3, <1>4 DEF Kept

\* Some Roots are destroyed with their trees.
LEMMA RootsEnd ==
  ASSUME Kept, NEW names \in SUBSET RootNames,
         roots' = [r \in RootNames |-> IF r \in names THEN NoRoot ELSE roots[r]],
         DOMAIN heap' = DOMAIN heap \ Held(names),
         UNCHANGED <<list, array>>,
         failures' = 0 => failures = 0
  PROVE  Kept'
<1>1. \A s \in RootNames, q \in Pointers :
        roots'[s][q] = IF s \in names THEN Null ELSE roots[s][q]
  BY DEF Pointers, NoRoot
<1>2. OneOwner'
  BY <1>1 DEF Kept, OneOwner
<1>3. \A a : a \in Held(names) <=> \E r \in names, p \in Pointers : roots[r][p] = a
  BY DEF Held, Pointers
<1>4. \A a : IsOwned(a)' <=> IsOwned(a) /\ a \notin Held(names)
  BY <1>1, <1>3 DEF IsOwned, Kept, OneOwner
<1> QED BY <1>2, <1>4 DEF Kept

\* All Roots end, and the list.
LEMMA AllEnd ==
  ASSUME Kept, list \in Seq(Nat), array = Null,
         roots' = [r \in RootNames |-> NoRoot],
         list' = <<>>, array' = array,
         DOMAIN heap' = DOMAIN heap \ (Held(RootNames) \cup Range(list)),
         failures' = 0 => failures = 0
  PROVE  Kept'
<1>1. \A s \in RootNames, q \in Pointers : roots'[s][q] = Null
  BY DEF Pointers, NoRoot
<1>2. OneOwner'
  BY <1>1 DEF OneOwner
<1>3. \A a : ~IsOwned(a)'
  BY <1>1 DEF IsOwned
<1>4. \A a : IsOwned(a) => a \in Held(RootNames) \cup Range(list)
  BY HeldPlaces, ListPlaces DEF IsOwned
<1> QED BY <1>2, <1>3, <1>4 DEF Kept

\* One Root ends, and the list gets an element: a new tree or none.
LEMMA ListGains ==
  ASSUME Kept, list \in Seq(Nat), NEW r \in RootNames, NEW a \in Nat,
         a # Null => a \notin DOMAIN heap,
         roots \in [RootNames -> [read : Nat, write : Nat]],
         roots[r].read = Null,
         roots' = [roots EXCEPT ![r] = NoRoot],
         list' = Append(list, a), array' = array,
         DOMAIN heap' = (DOMAIN heap \ {roots[r].write}) \cup ({a} \ {Null}),
         failures' = 0 => failures = 0
  PROVE  Kept'
<1>1. \A s \in RootNames, q \in Pointers :
        roots'[s][q] = IF s = r THEN Null ELSE roots[s][q]
  BY DEF Pointers, NoRoot
<1>2. Len(list') = Len(list) + 1 /\ Len(list) \in Nat
  OBVIOUS
<1>3. \A n \in 1..Len(list') : list'[n] = IF n = Len(list) + 1 THEN a ELSE list[n]
  OBVIOUS
<1>4. a # Null =>
        /\ \A s \in RootNames \ {r}, q \in Pointers : roots[s][q] # a
        /\ \A n \in 1..Len(list) : list[n] # a
        /\ array # a
  BY DEF Kept, OneOwner, IsOwned, Pointers
<1>5. OneOwner'
  <2>1. \A s, t \in RootNames : \A p, q \in Pointers :
          roots'[s][p] # Null /\ roots'[s][p] = roots'[t][q] => s = t /\ p = q
    BY <1>1 DEF Kept, OneOwner
  <2>2. \A m, n \in 1..Len(list') : list'[m] # Null /\ list'[m] = list'[n] => m = n
    BY <1>2, <1>3, <1>4 DEF Kept, OneOwner
  <2>3. \A s \in RootNames, p \in Pointers, n \in 1..Len(list') :
          roots'[s][p] = list'[n] => list'[n] = Null
    BY <1>1, <1>2, <1>3, <1>4 DEF Kept, OneOwner
  <2>4. array' # Null => /\ \A s \in RootNames, p \in Pointers : roots'[s][p] # array'
                         /\ \A n \in 1..Len(list') : list'[n] # array'
    BY <1>1, <1>2, <1>3, <1>4 DEF Kept, OneOwner
  <2> QED BY <2>1, <2>2, <2>3, <2>4 DEF OneOwner
<1>6. \A b : IsOwned(b)' <=> b # Null /\ (b = a \/ (IsOwned(b) /\ b # roots[r].write))
  BY SMTT(30), <1>1, <1>2, <1>3, <1>4 DEF IsOwned, Kept, OneOwner, Pointers
<1>7. \A b : IsOwned(b)' => b \in DOMAIN heap'
  BY <1>6 DEF Kept
<1>8. failures' = 0 => \A b \in DOMAIN heap' : IsOwned(b)'
  <2> SUFFICES ASSUME failures = 0, NEW b, b \in (DOMAIN heap \ {roots[r].write}) \cup ({a} \ {Null})
               PROVE  b # Null /\ (b = a \/ (IsOwned(b) /\ b # roots[r].write))
    BY <1>6
  <2> QED BY DEF Kept, IsOwned
<1> QED BY <1>5, <1>7, <1>8 DEF Kept

\* The array is made.
LEMMA ArrayGains ==
  ASSUME Kept, NEW a, a # Null, a \notin DOMAIN heap, array = Null, array' = a,
         DOMAIN heap' = DOMAIN heap \cup {a},
         UNCHANGED <<roots, list, failures>>
  PROVE  Kept'
<1>1. /\ \A s \in RootNames, q \in Pointers : roots[s][q] # a
      /\ \A n \in 1..Len(list) : list[n] # a
  BY DEF Kept, IsOwned
<1>2. OneOwner'
  BY <1>1 DEF Kept, OneOwner
<1>3. \A b : IsOwned(b)' <=> b = a \/ IsOwned(b)
  BY DEF IsOwned
<1> QED BY <1>2, <1>3 DEF Kept

\* The array becomes a part of another tree, or is forgotten.
LEMMA ArrayEnds ==
  ASSUME Kept, array' = Null,
         DOMAIN heap \ {array} \subseteq DOMAIN heap',
         UNCHANGED <<roots, list>>,
         failures' = 0 => failures = 0 /\ DOMAIN heap' = DOMAIN heap \ {array}
  PROVE  Kept'
<1>1. OneOwner'
  BY DEF Kept, OneOwner
<1>2. \A b : IsOwned(b)' <=> IsOwned(b) /\ b # array
  BY DEF IsOwned, Kept, OneOwner
<1> QED BY <1>1, <1>2 DEF Kept

-----------------------------------------------------------------------------
(* The operations of JSON::Root.                                           *)

LEMMA ParseKeeps ==
  ASSUME Cells, Kept, NEW r \in RootNames, roots[r] = NoRoot, NEW text, Parse(r, text),
         UNCHANGED <<list, array>>
  PROVE  /\ Cells' /\ Kept'
         /\ \A s \in RootNames : s # r => roots'[s] = roots[s]
         /\ roots'[r].write = Null
         /\ failures' = 0 => failures = 0
<1>1. CASE /\ Parser(text).ok
           /\ heap' = With(heap, Fresh(heap), Parser(text).value)
           /\ roots' = [roots EXCEPT ![r] = [read |-> Fresh(heap), write |-> Null]]
           /\ UNCHANGED failures
  <2> DEFINE a == Fresh(heap)
  <2>1. a \in Nat \ {Null} /\ a \notin DOMAIN heap
    BY FreshAddress DEF Cells
  <2>2. DOMAIN heap' = DOMAIN heap \cup {a} /\ FiniteHeap(heap')
    BY <1>1, <2>1, Writes DEF Cells
  <2>3. roots' = [roots EXCEPT ![r]["read"] = a]
    <3>1. [roots[r] EXCEPT !["read"] = a] = [read |-> a, write |-> Null]
      BY DEF NoRoot
    <3> QED BY <1>1, <3>1 DEF Cells
  <2> HIDE DEF a
  <2>4. roots \in [RootNames -> [read : Nat, write : Nat]] /\ roots[r]["read"] = Null
    BY DEF Cells, NoRoot
  <2>5. Kept'
    BY <1>1, <2>1, <2>2, <2>3, <2>4, RootGains DEF Pointers
  <2>6. roots' \in [RootNames -> [read : Nat, write : Nat]]
    BY <2>1, <2>3, <2>4
  <2>7. Cells'
    BY <1>1, <2>2, <2>6 DEF Cells
  <2> QED BY <1>1, <2>4, <2>5, <2>7
<1>2. CASE /\ roots' = [roots EXCEPT ![r] = NoRoot]
           /\ UNCHANGED heap
           /\ IF Parser(text).ok THEN Fails(1) ELSE UNCHANGED failures
  <2>1. roots' = roots
    BY <1>2 DEF Cells
  <2>2. failures' \in Nat /\ (failures' = 0 => failures = 0)
    BY <1>2 DEF Fails, Cells
  <2>3. Kept'
    BY <1>2, <2>1, <2>2, OwnersStay
  <2> QED BY <1>2, <2>1, <2>2, <2>3 DEF Cells, NoRoot
<1> QED BY <1>1, <1>2 DEF Parse

LEMMA AssignKeeps ==
  ASSUME Cells, Kept, NEW r \in RootNames, NEW key, NEW item, NEW copied,
         Assign(r, key, item, copied), UNCHANGED <<list, array>>
  PROVE  /\ Cells' /\ Kept'
         /\ \A s \in RootNames : s # r => roots'[s] = roots[s]
         /\ roots'[r].read = roots[r].read
         /\ failures' = 0 => failures = 0 /\ roots'[r].write # Null
<1> DEFINE a == Target(r)
           h == Opened(r)
<1> USE DEF Cells
<1>1. Fresh(heap) \in Nat \ {Null} /\ Fresh(heap) \notin DOMAIN heap
  BY FreshAddress
<1>2. a \in Nat \ {Null} /\ (roots[r].write = Null => a \notin DOMAIN heap)
  BY <1>1 DEF Target
<1>3. DOMAIN h = DOMAIN heap \cup {a} /\ FiniteHeap(h)
  <2>1. CASE roots[r].write = Null
    BY <2>1, <1>1, WithDomain, WithFinite DEF Target, Opened
  <2>2. CASE roots[r].write # Null
    <3>1. roots[r].write \in DOMAIN heap
      BY <2>2 DEF Kept, IsOwned, Pointers
    <3> QED BY <2>2, <3>1 DEF Target, Opened
  <2> QED BY <2>1, <2>2
<1>4. [roots EXCEPT ![r].write = a] \in [RootNames -> [read : Nat, write : Nat]]
  BY <1>2
<1>5. ASSUME roots' = [roots EXCEPT ![r].write = a], DOMAIN heap' = DOMAIN heap \cup {a},
             failures' = 0 => failures = 0
      PROVE  Kept'
  <2> HIDE DEF h
  <2>1. CASE roots[r].write = Null
    <3> HIDE DEF a
    <3> QED BY <1>2, <1>5, <2>1, RootGains DEF Pointers
  <2>2. CASE roots[r].write # Null
    <3>1. roots[r].write \in DOMAIN heap
      BY <2>2 DEF Kept, IsOwned, Pointers
    <3>2. roots' = roots /\ DOMAIN heap' = DOMAIN heap
      BY <1>5, <2>2, <3>1 DEF Target
    <3> QED BY <1>5, <3>2, OwnersStay
  <2> QED BY <2>1, <2>2
<1> HIDE DEF Cells
<1>6. CASE /\ heap' = IF item = NoItem THEN h ELSE With(h, a, AddItem(h[a], Key[key], item))
           /\ roots' = [roots EXCEPT ![r].write = a]
           /\ UNCHANGED failures
  <2>1. DOMAIN heap' = DOMAIN h /\ FiniteHeap(heap')
    <3> HIDE DEF a, h
    <3>1. CASE item = NoItem
      BY <1>3, <1>6, <3>1
    <3>2. CASE item # NoItem
      <4>1. heap' = With(h, a, AddItem(h[a], Key[key], item))
        BY <1>6, <3>2
      <4>2. DOMAIN heap' = DOMAIN h \cup {a} /\ FiniteHeap(heap')
        BY <1>2, <1>3, <4>1, Writes
      <4> QED BY <1>3, <4>2
    <3> QED BY <3>1, <3>2
  <2> HIDE DEF a, h
  <2>2. Kept'
    BY <1>3, <1>5, <1>6, <2>1
  <2> QED BY <1>2, <1>4, <1>6, <2>1, <2>2 DEF Cells
<1>7. CASE /\ roots[r].write = Null
           /\ Fails(1)
           /\ UNCHANGED <<heap, roots>>
  <2>1. failures' \in Nat \ {0}
    BY <1>7 DEF Fails, Cells
  <2>2. Kept'
    BY <1>7, <2>1, OwnersStay
  <2> QED BY <1>7, <2>1, <2>2 DEF Cells
<1>8. CASE /\ item # NoItem
           /\ Fails(1)
           /\ roots' = [roots EXCEPT ![r].write = a]
           /\ \/ heap' = h
              \/ copied /\ heap' = With(h, Fresh(h), item)
  <2>1. failures' \in Nat \ {0}
    BY <1>8 DEF Fails, Cells
  <2>2. DOMAIN h \subseteq DOMAIN heap' /\ FiniteHeap(heap')
    <3> HIDE DEF a, h
    <3>1. Fresh(h) \in Nat \ {Null}
      BY <1>3, FreshAddress
    <3>2. CASE heap' = h
      BY <1>3, <3>2
    <3>3. CASE heap' = With(h, Fresh(h), item)
      <4>1. DOMAIN heap' = DOMAIN h \cup {Fresh(h)} /\ FiniteHeap(heap')
        <5>1. PICK f \in Nat \ {Null} : f = Fresh(h)
          BY <3>1
        <5>2. heap' = With(h, f, item) /\ FiniteHeap(h)
          BY <1>3, <3>3, <5>1
        <5>3. DOMAIN heap' = DOMAIN h \cup {f} /\ FiniteHeap(heap')
          BY <5>2, Writes
        <5> QED BY <5>1, <5>3
      <4> QED BY <4>1
    <3> QED BY <1>8, <3>2, <3>3
  <2>3. Kept'
    <3>1. CASE roots[r].write = Null
      <4> HIDE DEF a, h
      <4> QED BY <1>2, <1>3, <1>8, <2>1, <2>2, <3>1, RootGains DEF Pointers, Cells
    <3>2. CASE roots[r].write # Null
      <4>1. roots' = roots
        BY <1>8, <3>2 DEF Target, Cells
      <4> HIDE DEF a, h
      <4> QED BY <1>3, <2>1, <2>2, <4>1, OwnersStay
    <3> QED BY <3>1, <3>2
  <2> HIDE DEF a, h
  <2> QED BY <1>4, <1>8, <2>1, <2>2, <2>3 DEF Cells
<1> QED BY <1>6, <1>7, <1>8 DEF Assign

-----------------------------------------------------------------------------
(* Every step keeps HeapInv.                                               *)

LEMMA HeapInvKept == HeapInv => Cells /\ Kept
  BY OwnedKept DEF HeapInv, HeapTypes, Cells

LEMMA HeapInvNext ==
  ASSUME at' \in Statements, i' \in Nat \ {0}, Cells', Kept', Idle', OneUse', Made'
  PROVE  HeapInv'
<1>1. OwnedOnce'
  BY OwnedKeptNext DEF Cells
<1> QED BY <1>1 DEF HeapInv, HeapTypes

LEMMA ParseRequestKeeps == HeapInv /\ ParseRequest => HeapInv'
<1> SUFFICES ASSUME HeapInv, ParseRequest PROVE HeapInv'
  OBVIOUS
<1>1. Cells /\ Kept /\ "req_root" \in RootNames /\ roots["req_root"] = NoRoot
  BY HeapInvKept DEF HeapInv, Idle, Live, ParseRequest, RootNames
<1>2. /\ Cells' /\ Kept'
      /\ \A s \in RootNames : s # "req_root" => roots'[s] = roots[s]
      /\ roots'["req_root"].write = Null
      /\ failures' = 0 => failures = 0
  BY <1>1, ParseKeeps DEF ParseRequest
<1>3. at = "parse" /\ at' = (IF roots'["req_root"].read = Null THEN "refused" ELSE "params")
      /\ array' = array /\ i' = i
  BY DEF ParseRequest, Leave
<1>4. at' \in Statements /\ i' \in Nat \ {0}
  BY <1>3 DEF Statements, HeapInv, HeapTypes
<1>5. roots'["req_root"].read = Null => roots'["req_root"] = NoRoot
  BY <1>1, <1>2 DEF Cells, NoRoot
<1>6. Idle'
  BY <1>2, <1>3, <1>5 DEF HeapInv, Idle, Live
<1>7. OneUse' /\ Made'
  BY <1>2, <1>3 DEF HeapInv, OneUse, Made, ParsedRoots
<1> QED BY <1>2, <1>4, <1>6, <1>7, HeapInvNext

LEMMA ReadParamsKeeps == HeapInv /\ ReadParams => HeapInv'
<1> SUFFICES ASSUME HeapInv, ReadParams PROVE HeapInv'
  OBVIOUS
<1>1. /\ at = "params" /\ at' \in {"generate", "undefined"}
      /\ UNCHANGED <<i, heap, roots, list, array, failures>>
  BY DEF ReadParams, Leave
<1>2. Cells' /\ Kept'
  BY <1>1, HeapInvKept, OwnersStay DEF Cells
<1>3. Idle' /\ OneUse' /\ Made'
  BY <1>1 DEF HeapInv, Idle, Live, OneUse, Made
<1> QED BY <1>1, <1>2, <1>3, HeapInvNext DEF Statements, HeapInv, HeapTypes

\* Roots end; what they held is gone.
LEMMA DestroyKeeps ==
  ASSUME Cells, Kept, NEW names \in SUBSET RootNames, Destroy(names),
         UNCHANGED <<list, array>>, failures' \in Nat, failures' = 0 => failures = 0
  PROVE  Cells' /\ Kept'
<1>1. DOMAIN heap' = DOMAIN heap \ Held(names) /\ FiniteHeap(heap')
  BY WithoutDomain, WithoutFinite DEF Destroy, Cells
<1>2. Kept'
  BY <1>1, RootsEnd DEF Destroy
<1>3. roots' \in [RootNames -> [read : Nat, write : Nat]]
  BY DEF Destroy, Cells, NoRoot, Null
<1> QED BY <1>1, <1>2, <1>3 DEF Cells

LEMMA EndKeeps ==
  ASSUME Cells, Kept, array = Null, array' = array,
         heap' = Without(heap, Held(RootNames) \cup Range(list)),
         roots' = [r \in RootNames |-> NoRoot], list' = <<>>,
         failures' \in Nat, failures' = 0 => failures = 0
  PROVE  Cells' /\ Kept'
<1>1. DOMAIN heap' = DOMAIN heap \ (Held(RootNames) \cup Range(list)) /\ FiniteHeap(heap')
  BY WithoutDomain, WithoutFinite DEF Cells
<1>2. Kept'
  BY <1>1, AllEnd DEF Cells
<1>3. roots' \in [RootNames -> [read : Nat, write : Nat]] /\ list' \in Seq(Nat)
  BY DEF NoRoot, Null
<1> QED BY <1>1, <1>2, <1>3 DEF Cells

LEMMA GenerateKeyKeeps == HeapInv /\ GenerateKey => HeapInv'
<1> SUFFICES ASSUME HeapInv, GenerateKey PROVE HeapInv'
  OBVIOUS
<1>1. at = "generate" /\ UNCHANGED <<i, list, array, failures>> /\ Cells /\ Kept
  BY HeapInvKept DEF GenerateKey
<1>2. CASE (Leave("hash") \/ Leave("unchecked")) /\ UNCHANGED <<heap, roots>>
  <2>1. Cells' /\ Kept'
    BY <1>1, <1>2, OwnersStay DEF Cells
  <2>2. Idle' /\ OneUse' /\ Made'
    BY <1>1, <1>2 DEF HeapInv, Idle, Live, OneUse, Made, Leave
  <2> QED BY <1>1, <1>2, <2>1, <2>2, HeapInvNext DEF Statements, Assignments, HeapInv, HeapTypes, Leave
<1>3. CASE Leave("refused") /\ Destroy(RootNames)
  <2>1. Cells' /\ Kept'
    BY <1>1, <1>3, DestroyKeeps DEF Cells
  <2>2. Idle' /\ OneUse' /\ Made'
    BY <1>1, <1>3 DEF HeapInv, Idle, Live, OneUse, Made, Leave, Destroy, NoRoot
  <2> QED BY <1>1, <1>3, <2>1, <2>2, HeapInvNext DEF Statements, Assignments, HeapInv, HeapTypes, Leave
<1> QED BY <1>2, <1>3 DEF GenerateKey

LEMMA ParsePublicKeeps == HeapInv /\ ParsePublic => HeapInv'
<1> SUFFICES ASSUME HeapInv, ParsePublic PROVE HeapInv'
  OBVIOUS
<1>1. Cells /\ Kept /\ "pubkey_root" \in RootNames /\ roots["pubkey_root"] = NoRoot
  BY HeapInvKept DEF HeapInv, Idle, Live, ParsePublic, RootNames
<1>2. /\ Cells' /\ Kept'
      /\ \A s \in RootNames : s # "pubkey_root" => roots'[s] = roots[s]
      /\ roots'["pubkey_root"].write = Null
      /\ failures' = 0 => failures = 0
  BY <1>1, ParseKeeps DEF ParsePublic
<1>3. at = "parsepublic" /\ at' = "public" /\ array' = array /\ i' = i
  BY DEF ParsePublic, Leave
<1>4. at' \in Statements /\ i' \in Nat \ {0}
  BY <1>3 DEF Statements, Assignments, HeapInv, HeapTypes
<1>5. Idle' /\ OneUse' /\ Made'
  BY <1>2, <1>3 DEF HeapInv, Idle, Live, OneUse, Made, ParsedRoots
<1> QED BY <1>2, <1>4, <1>5, HeapInvNext

\* What an assignment does: where, to which Root, and what comes next.
LEMMA AssignmentRoots ==
  ASSUME at \in Assignments
  PROVE  LET s == AssignmentAt(at)
         IN  /\ s.root \in RootNames \ ParsedRoots
             /\ s.next \in Statements \ {"copy", "write"}
             /\ s.next = "array" => s.root = "root"
             /\ Live(at) \cup {s.root} \subseteq Live(s.next)
             /\ at # "copy"
<1> DEFINE s == AssignmentAt(at)
           A(root, next) == s.root = root /\ s.next = next
<1>1. /\ at = "hash" => A("root", "parsepublic")
      /\ at = "public" => A("root", "parsemeta")
      /\ at = "meta" => A("cipher_root", "index")
      /\ at = "index" => A("key_shard_node", "share")
      /\ at = "share" => A("key_shard_node", "shard")
      /\ at = "shard" => A("cipher_root", "encrypt")
      /\ at = "pubkey" => A("arrary_node", "cipher")
      /\ at = "cipher" => A("arrary_node", "push")
      /\ at = "packages" => A("root", "array")
  BY DEF AssignmentAt, Statement
<1> HIDE DEF s
<1>2. s.root \in RootNames \ ParsedRoots /\ s.next \in Statements \ {"copy", "write"}
      /\ (s.next = "array" => s.root = "root") /\ at # "copy"
  BY <1>1 DEF Assignments, RootNames, ParsedRoots, Statements
<1>3. Live(at) \cup {s.root} \subseteq Live(s.next)
  BY <1>1 DEF Assignments, Live
<1> QED BY <1>2, <1>3 DEF s

LEMMA AssignMemberKeeps == HeapInv /\ AssignMember => HeapInv'
<1> SUFFICES ASSUME HeapInv, AssignMember PROVE HeapInv'
  OBVIOUS
<1> DEFINE s == AssignmentAt(at)
<1>1. /\ at \in Assignments /\ at' = s.next /\ UNCHANGED <<i, list, array>>
      /\ Assign(s.root, s.key, s.item, at \in {"public", "meta", "shard"})
  BY DEF AssignMember, Leave
<1>2. /\ s.root \in RootNames \ ParsedRoots
      /\ s.next \in Statements \ {"copy", "write"}
      /\ s.next = "array" => s.root = "root"
      /\ Live(at) \cup {s.root} \subseteq Live(s.next)
      /\ at # "copy"
  BY <1>1, AssignmentRoots
<1> HIDE DEF s
<1>3. Cells /\ Kept
  BY HeapInvKept
<1>4. /\ Cells' /\ Kept'
      /\ \A r \in RootNames : r # s.root => roots'[r] = roots[r]
      /\ roots'[s.root].read = roots[s.root].read
      /\ failures' = 0 => failures = 0 /\ roots'[s.root].write # Null
  BY <1>1, <1>2, <1>3, AssignKeeps
<1>5. Idle'
  <2>1. \A r \in RootNames \ Live(at') : roots'[r] = NoRoot
    BY <1>1, <1>2, <1>4 DEF HeapInv, Idle
  <2> QED BY <1>1, <1>2, <2>1 DEF HeapInv, Idle
<1>6. OneUse' /\ Made'
  BY <1>1, <1>2, <1>4 DEF HeapInv, OneUse, Made
<1> QED BY <1>1, <1>2, <1>4, <1>5, <1>6, HeapInvNext DEF HeapInv, HeapTypes

LEMMA ParseMetaKeeps == HeapInv /\ ParseMeta => HeapInv'
<1> SUFFICES ASSUME HeapInv, ParseMeta PROVE HeapInv'
  OBVIOUS
<1>1. at = "parsemeta" /\ UNCHANGED <<i, array>> /\ Cells /\ Kept /\ array = Null
  BY HeapInvKept DEF ParseMeta, HeapInv, Idle
<1>2. CASE Parse("key_meta_node", MetaText) /\ Leave("meta") /\ UNCHANGED list
  <2>1. "key_meta_node" \in RootNames /\ roots["key_meta_node"] = NoRoot
    BY <1>1 DEF HeapInv, Idle, Live, RootNames
  <2>2. /\ Cells' /\ Kept'
        /\ \A s \in RootNames : s # "key_meta_node" => roots'[s] = roots[s]
        /\ roots'["key_meta_node"].write = Null
        /\ failures' = 0 => failures = 0
    BY <1>1, <1>2, <2>1, ParseKeeps
  <2>3. at' \in Statements /\ i' \in Nat \ {0}
    BY <1>1, <1>2 DEF Leave, Statements, Assignments, HeapInv, HeapTypes
  <2>4. Idle' /\ OneUse' /\ Made'
    BY <1>1, <1>2, <2>2 DEF HeapInv, Idle, Live, OneUse, Made, ParsedRoots, Leave
  <2> QED BY <2>2, <2>3, <2>4, HeapInvNext
<1>3. CASE Fails(1) /\ Abandon
  <2>1. Cells' /\ Kept'
    BY <1>1, <1>3, EndKeeps DEF Abandon, Fails, Cells
  <2>2. Idle' /\ OneUse' /\ Made'
    BY <1>1, <1>3 DEF Abandon, Idle, OneUse, Made, NoRoot, Leave
  <2> QED BY <1>1, <1>3, <2>1, <2>2, HeapInvNext DEF Abandon, Leave, Statements, HeapInv, HeapTypes
<1> QED BY <1>2, <1>3 DEF ParseMeta

LEMMA EncryptKeeps == HeapInv /\ Encrypt => HeapInv'
<1> SUFFICES ASSUME HeapInv, Encrypt PROVE HeapInv'
  OBVIOUS
<1>1. at = "encrypt" /\ UNCHANGED <<i, array>> /\ Cells /\ Kept /\ array = Null
  BY HeapInvKept DEF Encrypt, HeapInv, Idle
<1>2. failures' \in Nat /\ (failures' = 0 => failures = 0)
  BY <1>1 DEF Encrypt, Fails, Cells
<1> DEFINE ended == {"cipher_root", "key_meta_node", "key_shard_node"}
<1>3. CASE Destroy(ended) /\ Leave("pubkey") /\ UNCHANGED list
  <2>1. ended \in SUBSET RootNames
    BY DEF RootNames
  <2>2. Cells' /\ Kept'
    <3> HIDE DEF ended
    <3> QED BY <1>1, <1>2, <1>3, <2>1, DestroyKeeps
  <2>3. Idle' /\ OneUse' /\ Made'
    BY <1>1, <1>3 DEF HeapInv, Idle, Live, OneUse, Made, Leave, Destroy, NoRoot
  <2> QED BY <1>1, <1>3, <2>2, <2>3, HeapInvNext DEF Statements, Assignments, HeapInv, HeapTypes, Leave
<1>4. CASE Abandon
  <2>1. Cells' /\ Kept'
    BY <1>1, <1>2, <1>4, EndKeeps DEF Abandon
  <2>2. Idle' /\ OneUse' /\ Made'
    BY <1>1, <1>4 DEF Abandon, Idle, OneUse, Made, NoRoot, Leave
  <2> QED BY <1>1, <1>4, <2>1, <2>2, HeapInvNext DEF Abandon, Leave, Statements, HeapInv, HeapTypes
<1> QED BY <1>3, <1>4 DEF Encrypt

LEMMA PushPackageKeeps == HeapInv /\ PushPackage => HeapInv'
<1> SUFFICES ASSUME HeapInv, PushPackage PROVE HeapInv'
  OBVIOUS
<1> DEFINE node == "arrary_node"
           source == roots[node].write
           a == Fresh(heap)
<1>1. at = "push" /\ at' \in {"packages", "parsemeta"} /\ i' = i + 1 /\ array' = array
  BY DEF PushPackage, Leave
<1>2. Cells /\ Kept /\ array = Null /\ node \in RootNames /\ roots[node].read = Null
  BY <1>1, HeapInvKept DEF HeapInv, Idle, OneUse, RootNames, ParsedRoots
<1>3. a \in Nat \ {Null} /\ a \notin DOMAIN heap /\ source \in Nat
  BY <1>2, FreshAddress DEF Cells
<1>4. roots' = [roots EXCEPT ![node] = NoRoot]
  BY DEF PushPackage
<1>5. source # Null => source \in DOMAIN heap
  BY <1>2 DEF Kept, IsOwned, Pointers
<1>6. Cells' /\ Kept'
  <2>1. CASE /\ source # Null
             /\ heap' = Without(With(heap, a, heap[source]), {source})
             /\ list' = Append(list, a)
             /\ UNCHANGED failures
    <3> HIDE DEF a, source
    <3>1. PICK h : h = With(heap, a, heap[source])
      OBVIOUS
    <3>2. DOMAIN h = DOMAIN heap \cup {a} /\ FiniteHeap(h)
      BY <1>2, <1>3, <3>1, Writes DEF Cells
    <3>3. DOMAIN heap' = DOMAIN h \ {source} /\ FiniteHeap(heap')
      BY <2>1, <3>1, <3>2, WithoutDomain, WithoutFinite
    <3>4. DOMAIN heap' = (DOMAIN heap \ {roots[node].write}) \cup ({a} \ {Null})
      BY <1>3, <1>5, <2>1, <3>2, <3>3 DEF source
    <3>5. Kept'
      BY <1>1, <1>2, <1>3, <1>4, <2>1, <3>4, ListGains DEF Cells
    <3> QED BY <1>1, <1>2, <1>3, <1>4, <2>1, <3>3, <3>5 DEF Cells, NoRoot, Null
  <2>2. CASE /\ heap' = Without(heap, {source})
             /\ list' = Append(list, Null)
             /\ IF source = Null THEN UNCHANGED failures ELSE Fails(1)
    <3>1. DOMAIN heap' = DOMAIN heap \ {source} /\ FiniteHeap(heap')
      BY <1>2, <2>2, WithoutDomain, WithoutFinite DEF Cells
    <3>2. DOMAIN heap' = (DOMAIN heap \ {roots[node].write}) \cup ({Null} \ {Null})
      BY <3>1
    <3>3. failures' \in Nat /\ (failures' = 0 => failures = 0)
      BY <1>2, <2>2 DEF Fails, Cells
    <3>4. Kept'
      BY <1>1, <1>2, <1>4, <2>2, <3>2, <3>3, ListGains DEF Cells, Null
    <3> QED BY <1>1, <1>2, <1>4, <2>2, <3>1, <3>3, <3>4 DEF Cells, NoRoot, Null
  <2> QED BY <2>1, <2>2 DEF PushPackage
<1>7. Idle'
  BY <1>1, <1>2, <1>4 DEF HeapInv, Idle, Live, NoRoot, Cells
<1>8. OneUse' /\ Made'
  BY <1>1, <1>2, <1>4 DEF HeapInv, OneUse, Made, NoRoot, Cells
<1> QED BY <1>1, <1>6, <1>7, <1>8, HeapInvNext DEF Statements, Assignments, HeapInv, HeapTypes

LEMMA CreateArrayKeeps == HeapInv /\ CreateArray => HeapInv'
<1> SUFFICES ASSUME HeapInv, CreateArray PROVE HeapInv'
  OBVIOUS
<1>1. at = "array" /\ at' = "copy" /\ i' = 1 /\ UNCHANGED <<roots, list>>
  BY DEF CreateArray, Leave
<1>2. Cells /\ Kept /\ array = Null
  BY <1>1, HeapInvKept DEF HeapInv, Idle
<1>3. Fresh(heap) \in Nat \ {Null} /\ Fresh(heap) \notin DOMAIN heap
  BY <1>2, FreshAddress DEF Cells
<1>4. Cells' /\ Kept' /\ Made'
  <2>1. CASE /\ heap' = With(heap, Fresh(heap), EmptyArray)
             /\ array' = Fresh(heap)
             /\ UNCHANGED failures
    <3>1. DOMAIN heap' = DOMAIN heap \cup {Fresh(heap)} /\ FiniteHeap(heap')
      BY <1>2, <1>3, <2>1, Writes DEF Cells
    <3>2. Kept'
      BY <1>1, <1>2, <1>3, <2>1, <3>1, ArrayGains
    <3> QED BY <1>1, <1>2, <1>3, <2>1, <3>1, <3>2 DEF Cells, Made, HeapInv
  <2>2. CASE array' = Null /\ UNCHANGED heap /\ Fails(1)
    <3>1. failures' \in Nat \ {0}
      BY <1>2, <2>2 DEF Fails, Cells
    <3>2. Kept'
      BY <1>1, <1>2, <2>2, <3>1, OwnersStay
    <3> QED BY <1>1, <1>2, <2>2, <3>1, <3>2 DEF Cells, Made, Null
  <2> QED BY <2>1, <2>2 DEF CreateArray
<1>5. Idle' /\ OneUse'
  BY <1>1 DEF HeapInv, Idle, Live, OneUse
<1> QED BY <1>1, <1>4, <1>5, HeapInvNext DEF Statements

LEMMA CopyPackageKeeps == HeapInv /\ CopyPackage => HeapInv'
<1> SUFFICES ASSUME HeapInv, CopyPackage PROVE HeapInv'
  OBVIOUS
<1>1. at = "copy" /\ i' = i + 1 /\ UNCHANGED <<at, roots, list, array>>
  BY DEF CopyPackage
<1>2. Cells /\ Kept
  BY HeapInvKept
<1>3. Cells' /\ Kept' /\ (failures' = 0 => failures = 0)
  <2>1. CASE heap' = [heap EXCEPT ![array] = AddItem(@, <<>>, heap[list[i]])] /\ UNCHANGED failures
    <3>1. DOMAIN heap' = DOMAIN heap
      BY <2>1
    <3>2. Kept'
      BY <1>1, <1>2, <2>1, <3>1, OwnersStay
    <3> QED BY <1>1, <1>2, <2>1, <3>1, <3>2 DEF Cells, FiniteHeap
  <2>2. CASE array = Null /\ heap' = With(heap, Fresh(heap), heap[list[i]]) /\ UNCHANGED failures
    <3>1. Fresh(heap) \in Nat \ {Null}
      BY <1>2, FreshAddress DEF Cells
    <3>2. DOMAIN heap' = DOMAIN heap \cup {Fresh(heap)} /\ FiniteHeap(heap')
      BY <1>2, <2>2, <3>1, Writes DEF Cells
    <3>3. failures # 0
      BY <1>1, <2>2 DEF HeapInv, Made
    <3>4. Kept'
      BY <1>1, <1>2, <2>2, <3>2, <3>3, OwnersStay
    <3> QED BY <1>1, <1>2, <2>2, <3>2, <3>4 DEF Cells
  <2>3. CASE UNCHANGED heap /\ (IF list[i] # Null THEN Fails(1) ELSE UNCHANGED failures)
    <3>1. failures' \in Nat /\ (failures' = 0 => failures = 0)
      BY <1>2, <2>3 DEF Fails, Cells
    <3>2. Kept'
      BY <1>1, <1>2, <2>3, <3>1, OwnersStay
    <3> QED BY <1>1, <1>2, <2>3, <3>1, <3>2 DEF Cells
  <2> QED BY <2>1, <2>2, <2>3 DEF CopyPackage
<1>4. Idle' /\ OneUse' /\ Made'
  BY <1>1, <1>3 DEF HeapInv, Idle, OneUse, Made
<1> QED BY <1>1, <1>3, <1>4, HeapInvNext DEF HeapInv, HeapTypes

LEMMA AddArrayKeeps == HeapInv /\ AddArray => HeapInv'
<1> SUFFICES ASSUME HeapInv, AddArray PROVE HeapInv'
  OBVIOUS
<1> DEFINE root == roots["root"].write
<1>1. at = "copy" /\ at' = "write" /\ array' = Null /\ UNCHANGED <<i, roots, list>>
  BY DEF AddArray, Leave
<1>2. Cells /\ Kept /\ "root" \in RootNames
  BY HeapInvKept DEF RootNames
<1>3. failures = 0 => root # Null /\ array # Null
  BY <1>1 DEF HeapInv, Made
<1>4. Cells' /\ Kept' /\ (failures' = 0 => failures = 0)
  <2>1. CASE /\ root # Null /\ array # Null
             /\ heap' = Without(With(heap, root, AddItem(heap[root], Key["key_shard_pkg"], heap[array])), {array})
             /\ UNCHANGED failures
    <3>1. root \in DOMAIN heap /\ root # array /\ root \in Nat \ {Null}
      BY <1>2, <2>1 DEF Kept, OneOwner, IsOwned, Pointers, Cells
    <3> HIDE DEF root
    <3>2. PICK h : h = With(heap, root, AddItem(heap[root], Key["key_shard_pkg"], heap[array]))
      OBVIOUS
    <3>3. DOMAIN h = DOMAIN heap /\ FiniteHeap(h)
      <4>1. DOMAIN h = DOMAIN heap \cup {root} /\ FiniteHeap(h)
        BY <1>2, <3>1, <3>2, Writes DEF Cells
      <4> QED BY <3>1, <4>1
    <3>4. DOMAIN heap' = DOMAIN heap \ {array} /\ FiniteHeap(heap')
      <4>1. heap' = Without(h, {array})
        BY <2>1, <3>2
      <4>2. DOMAIN heap' = DOMAIN h \ {array}
        BY <4>1, WithoutDomain
      <4>3. FiniteHeap(heap')
        BY <3>3, <4>1, WithoutFinite
      <4> QED  BY <3>3, <4>2, <4>3
    <3>5. Kept'
      BY <1>1, <1>2, <2>1, <3>4, ArrayEnds
    <3> QED BY <1>1, <1>2, <2>1, <3>4, <3>5 DEF Cells, Null
  <2>2. CASE /\ UNCHANGED heap
             /\ IF root # Null /\ array # Null THEN Fails(1) ELSE UNCHANGED failures
    <3>1. failures' \in Nat \ {0}
      BY <1>2, <1>3, <2>2 DEF Fails, Cells
    <3>2. Kept'
      BY <1>1, <1>2, <2>2, <3>1, ArrayEnds
    <3> QED BY <1>1, <1>2, <2>2, <3>1, <3>2 DEF Cells, Null
  <2> QED BY <2>1, <2>2 DEF AddArray
<1>5. Idle' /\ OneUse' /\ Made'
  BY <1>1, <1>3, <1>4 DEF HeapInv, Idle, Live, OneUse, Made
<1> QED BY <1>1, <1>4, <1>5, HeapInvNext DEF Statements, HeapInv, HeapTypes

LEMMA WriteReplyKeeps == HeapInv /\ WriteReply => HeapInv'
<1> SUFFICES ASSUME HeapInv, WriteReply PROVE HeapInv'
  OBVIOUS
<1>1. at = "write" /\ at' = "done" /\ UNCHANGED <<i, array>> /\ array = Null /\ Cells /\ Kept
  BY HeapInvKept DEF WriteReply, Leave, HeapInv, Idle
<1>2. failures' \in Nat /\ (failures' = 0 => failures = 0)
  BY <1>1 DEF WriteReply, Fails, Cells
<1>3. Cells' /\ Kept'
  BY <1>1, <1>2, EndKeeps DEF WriteReply
<1>4. Idle' /\ OneUse' /\ Made'
  BY <1>1 DEF WriteReply, Idle, OneUse, Made, NoRoot
<1> QED BY <1>1, <1>3, <1>4, HeapInvNext DEF Statements, HeapInv, HeapTypes

LEMMA InitHeapInv == Init => HeapInv
<1> SUFFICES ASSUME Init PROVE HeapInv
  OBVIOUS
<1>1. HeapTypes
  <2>1. DOMAIN heap = {}
    BY DEF Init
  <2>2. FiniteHeap(heap)
    BY <2>1, FS_EmptySet DEF FiniteHeap
  <2> QED BY <2>2 DEF Init, HeapTypes, Cells, Statements, NoRoot, Null
<1>2. Idle /\ OneUse /\ Made
  BY DEF Init, Idle, OneUse, Made, NoRoot
<1>3. Kept
  <2>1. \A r \in RootNames, p \in Pointers : roots[r][p] = Null
    BY DEF Init, NoRoot, Pointers
  <2>2. \A a : ~IsOwned(a)
    BY <2>1 DEF Init, IsOwned
  <2> QED BY <2>1, <2>2 DEF Init, Kept, OneOwner
<1> QED BY <1>1, <1>2, <1>3, OwnedKept DEF HeapInv, HeapTypes, Cells

LEMMA NextHeapInv == HeapInv /\ [Next]_vars => HeapInv'
<1> SUFFICES ASSUME HeapInv, [Next]_vars PROVE HeapInv'
  OBVIOUS
<1>1. CASE UNCHANGED vars
  <2>1. Cells' /\ Kept'
    BY <1>1, HeapInvKept, OwnersStay DEF vars, Cells
  <2> QED BY <1>1, <2>1, HeapInvNext DEF vars, HeapInv, HeapTypes, Idle, OneUse, Made
<1> QED BY <1>1, ParseRequestKeeps, ReadParamsKeeps, GenerateKeyKeeps, ParsePublicKeeps, ParseMetaKeeps,
           AssignMemberKeeps, EncryptKeeps, PushPackageKeeps, CreateArrayKeeps, CopyPackageKeeps,
           AddArrayKeeps, WriteReplyKeeps DEF Next

LEMMA HeapInvAlways == Spec => []HeapInv
  BY InitHeapInv, NextHeapInv, PTL DEF Spec

\* Whatever the texts are and whichever allocations fail, each tree of the
\* enclave belongs to exactly one Root or element, no Root points to a tree
\* that is deleted, and without a failing allocation none is forgotten
\* (json.cpp:11-19, 58-65, 174-196; GenerateTask.cpp:201-318).
THEOREM EachTreeHasOneOwner == Spec => []OwnedOnce
<1>1. HeapInv => OwnedOnce
  BY DEF HeapInv
<1> QED BY <1>1, HeapInvAlways, PTL

-----------------------------------------------------------------------------
(* The buffer of the printer (JsonBuffer), for texts of any length.         *)

\* g is the buffer after each of the first n pieces.
Follows(g, pieces, n) ==
  g[0] = EmptyBuffer /\ \A m \in 1..n : g[m] = WritePiece(g[m - 1], pieces[m])

LEMMA FollowsExists == \A pieces : \A n \in Nat : \E g : Follows(g, pieces, n)
<1> TAKE pieces
<1> DEFINE T == {n \in Nat : ~\E g : Follows(g, pieces, n)}
<1> SUFFICES ASSUME T # {} PROVE FALSE
  OBVIOUS
<1>1. PICK n \in T : \A j \in T : n <= j
  <2>1. T \in SUBSET Nat
    OBVIOUS
  <2> HIDE DEF T
  <2> QED  BY <2>1, LeastNat
<1>2. CASE n = 0
  <2> DEFINE h == [m \in {0} |-> EmptyBuffer]
  <2>1. Follows(h, pieces, 0)
    BY DEF Follows
  <2> QED  BY <1>1, <1>2, <2>1
<1>3. CASE n # 0
  <2>1. n - 1 \in Nat /\ n - 1 \notin T
    BY <1>1, <1>3
  <2>2. PICK g : Follows(g, pieces, n - 1)
    BY <2>1
  <2> DEFINE h == [m \in 0..n |-> IF m = n THEN WritePiece(g[n - 1], pieces[n]) ELSE g[m]]
  <2>3. h[n] = WritePiece(g[n - 1], pieces[n]) /\ \A m \in 0..(n - 1) : h[m] = g[m]
    BY <2>1
  <2> HIDE DEF h
  <2>4. h[0] = EmptyBuffer
    BY <2>1, <2>2, <2>3 DEF Follows
  <2>5. ASSUME NEW m \in 1..n PROVE h[m] = WritePiece(h[m - 1], pieces[m])
    <3>1. CASE m = n
      <4>1. h[n - 1] = g[n - 1]
        BY <2>1, <2>3
      <4> QED  BY <2>3, <3>1, <4>1
    <3>2. CASE m # n
      <4>1. m \in 1..(n - 1) /\ m \in 0..(n - 1) /\ m - 1 \in 0..(n - 1)
        BY <2>1, <3>2
      <4>2. g[m] = WritePiece(g[m - 1], pieces[m])
        BY <2>2, <4>1 DEF Follows
      <4> QED  BY <2>3, <4>1, <4>2
    <3> QED  BY <3>1, <3>2
  <2>6. Follows(h, pieces, n)
    BY <2>4, <2>5 DEF Follows
  <2> QED  BY <1>1, <2>6
<1> QED  BY <1>2, <1>3

\* BufferAfter is what writing piece after piece leads to.
LEMMA BufferFollows ==
  ASSUME NEW pieces, Len(pieces) \in Nat
  PROVE  \E f : Follows(f, pieces, Len(pieces)) /\ BufferAfter(pieces) = f[Len(pieces)]
<1> DEFINE N == Len(pieces)
           Step(f) == [n \in 0..N |-> IF n = 0 THEN EmptyBuffer ELSE WritePiece(f[n - 1], pieces[n])]
           after == CHOOSE f : f = Step(f)
<1>1. PICK g : Follows(g, pieces, N)
  BY FollowsExists
<1> DEFINE h == [n \in 0..N |-> g[n]]
<1>2. h = Step(h)
  <2>1. ASSUME NEW n \in 0..N
        PROVE  g[n] = IF n = 0 THEN EmptyBuffer ELSE WritePiece(h[n - 1], pieces[n])
    <3>1. CASE n = 0
      BY <1>1, <3>1 DEF Follows
    <3>2. CASE n # 0
      <4>1. n \in 1..N /\ n - 1 \in 0..N
        BY <3>2
      <4>2. h[n - 1] = g[n - 1]
        BY <4>1
      <4> QED  BY <1>1, <3>2, <4>1, <4>2 DEF Follows
    <3> QED  BY <3>1, <3>2
  <2> QED  BY <2>1
<1> HIDE DEF h
<1>3. after = Step(after)
  <2> HIDE DEF Step
  <2> QED  BY <1>2
<1>4. BufferAfter(pieces) = after[N]
  BY DEF BufferAfter
<1> HIDE DEF after
<1>5. ASSUME NEW n \in 0..N
      PROVE  after[n] = IF n = 0 THEN EmptyBuffer ELSE WritePiece(after[n - 1], pieces[n])
  BY <1>3
<1>6. Follows(after, pieces, N)
  <2>1. after[0] = EmptyBuffer
    BY <1>5
  <2>2. ASSUME NEW m \in 1..N PROVE after[m] = WritePiece(after[m - 1], pieces[m])
    BY <1>5
  <2> QED  BY <2>1, <2>2 DEF Follows
<1> QED  BY <1>4, <1>6

\* A buffer of the printer: nothing was written outside it, and it is no
\* larger than the text in it calls for.
SoundBuffer(b) ==
  /\ b \in [size : Nat, offset : Nat, fits : BOOLEAN]
  /\ b.fits /\ b.offset < b.size
  /\ b.size <= DefaultBufferSize \/ b.size <= 2 * (b.offset + 2)

LEMMA WriteIsSound ==
  ASSUME NEW b, SoundBuffer(b), NEW p \in Honest
  PROVE  SoundBuffer(WritePiece(b, p)) /\ WritePiece(b, p).size >= b.size
<1>1. PICK size, offset, needed, n : size = b.size /\ offset = b.offset
                                     /\ needed = p.needed /\ n = Len(p.bytes)
  OBVIOUS
<1>2. size \in Nat /\ offset \in Nat /\ b.fits /\ offset < size
      /\ (size <= DefaultBufferSize \/ size <= 2 * (offset + 2))
  BY <1>1 DEF SoundBuffer
<1>3. needed \in Nat /\ n \in Nat /\ n <= needed /\ needed <= n + 1
  BY <1>1 DEF Honest
<1>4. PICK new : new = Ensure(size, offset, needed)
  OBVIOUS
<1>5. /\ new \in Nat /\ new >= size /\ offset + n < new
      /\ new <= DefaultBufferSize \/ new <= 2 * (offset + n + 2)
  BY <1>2, <1>3, <1>4, BufferAssumption DEF Ensure
<1>6. PICK c : c = WritePiece(b, p)
  OBVIOUS
<1>7. c = [size |-> new, offset |-> offset + n, fits |-> b.fits /\ offset + n < new]
  BY <1>1, <1>4, <1>6 DEF WritePiece
<1>8. c.size = new /\ c.offset = offset + n /\ c.fits
      /\ c \in [size : Nat, offset : Nat, fits : BOOLEAN]
  <2>1. (b.fits /\ offset + n < new) = TRUE
    BY <1>2, <1>5
  <2>2. c = [size |-> new, offset |-> offset + n, fits |-> TRUE]
    BY <1>7, <2>1
  <2> QED  BY <1>2, <1>3, <1>5, <2>2
<1>9. SoundBuffer(c)
  BY <1>5, <1>8 DEF SoundBuffer
<1> QED  BY <1>1, <1>5, <1>6, <1>8, <1>9

LEMMA BufferIsSound ==
  ASSUME NEW pieces \in Seq(Honest)
  PROVE  SoundBuffer(BufferAfter(pieces))
<1>1. Len(pieces) \in Nat
  OBVIOUS
<1>2. PICK f : Follows(f, pieces, Len(pieces)) /\ BufferAfter(pieces) = f[Len(pieces)]
  BY <1>1, BufferFollows
<1> DEFINE T == {n \in 0..Len(pieces) : ~SoundBuffer(f[n])}
<1> SUFFICES ASSUME T # {} PROVE FALSE
  BY <1>1, <1>2
<1>3. PICK n \in T : \A j \in T : n <= j
  <2>1. T \in SUBSET Nat
    OBVIOUS
  <2> HIDE DEF T
  <2> QED  BY <2>1, LeastNat
<1>4. CASE n = 0
  <2>1. SoundBuffer(EmptyBuffer)
    BY BufferAssumption DEF EmptyBuffer, SoundBuffer
  <2> QED  BY <1>2, <1>3, <1>4, <2>1 DEF Follows
<1>5. CASE n # 0
  <2>1. n \in 1..Len(pieces) /\ n - 1 \in 0..Len(pieces) /\ n - 1 \notin T
    BY <1>1, <1>3, <1>5
  <2>2. SoundBuffer(f[n - 1]) /\ pieces[n] \in Honest
    BY <2>1
  <2>3. f[n] = WritePiece(f[n - 1], pieces[n])
    BY <1>2, <2>1 DEF Follows
  <2>4. SoundBuffer(f[n])
    BY <2>2, <2>3, WriteIsSound
  <2> QED  BY <1>3, <2>4
<1> QED  BY <1>4, <1>5

\* Whatever is printed, and however often the buffer grows: no piece and no
\* terminator is written outside it, ensure never meets an offset outside it,
\* which it would refuse, and a buffer of more than INT_MAX bytes, which it
\* cannot hand out, is only asked for by a text of half as many
\* (cJSON.c:387-472, 1120-1183).
THEOREM PrinterStaysInside ==
  \A pieces \in Seq(Honest) :
    LET buffer == BufferAfter(pieces)
    IN  /\ buffer.fits /\ buffer.offset < buffer.size
        /\ buffer.size <= DefaultBufferSize \/ buffer.size <= 2 * (buffer.offset + 2)
BY BufferIsSound DEF SoundBuffer
=============================================================================
