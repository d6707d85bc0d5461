--------------------------- MODULE JsonReplyProofs ---------------------------
(***************************************************************************)
(* Proofs about what the enclave replies (JsonRoot): a key is never filed  *)
(* with another key's share, and without a failing allocation the reply is *)
(* complete.  They see the heap only through the trees that the Roots, the *)
(* elements of pkg_array and the array hold: what a step does to one of    *)
(* them it does to no other, because each tree has one owner.              *)
(***************************************************************************)
EXTENDS JsonRootProofs

Held1(a) == IF a = Null THEN NoItem ELSE heap[a]

\* The tree of a Root, of the n-th element, and the array.
Tree(r)     == IF r \in ParsedRoots THEN Held1(roots[r].read) ELSE Held1(roots[r].write)
ListTree(n) == Held1(list[n])
ArrayTree   == Held1(array)

RootsSameBut(names) == \A s \in RootNames \ names : Tree(s)' = Tree(s)
ListSame  == \A n \in 1..Len(list) : list'[n] = list[n] /\ ListTree(n)' = ListTree(n)
ArraySame == array' = array /\ ArrayTree' = ArrayTree

\* No owner changes but the Roots' of these names, and their trees alone.
LEMMA OthersSame ==
  ASSUME HeapInv, NEW names \in SUBSET RootNames,
         \A s \in RootNames \ names : roots'[s] = roots[s],
         \A b \in DOMAIN heap \ Held(names) : heap'[b] = heap[b]
  PROVE  /\ RootsSameBut(names)
         /\ UNCHANGED list => ListSame
         /\ UNCHANGED array => ArraySame
<1>1. Kept /\ Cells
  BY HeapInvKept
<1>2. \A a : a \in Held(names) <=> \E r \in names, p \in Pointers : roots[r][p] = a
  BY DEF Held, Pointers
<1>3. ASSUME NEW s \in RootNames \ names, NEW p \in Pointers, roots[s][p] # Null
      PROVE  heap'[roots[s][p]] = heap[roots[s][p]]
  BY <1>1, <1>2, <1>3 DEF Kept, OneOwner, IsOwned
<1>4. RootsSameBut(names)
  BY <1>3 DEF RootsSameBut, Tree, Held1, Pointers
<1>5. ASSUME UNCHANGED list PROVE ListSame
  <2> SUFFICES ASSUME NEW n \in 1..Len(list), list[n] # Null PROVE heap'[list[n]] = heap[list[n]]
    BY <1>5 DEF ListSame, ListTree, Held1
  <2> QED BY <1>1, <1>2 DEF Kept, OneOwner, IsOwned
<1>6. ASSUME UNCHANGED array PROVE ArraySame
  <2> SUFFICES ASSUME array # Null PROVE heap'[array] = heap[array]
    BY <1>6 DEF ArraySame, ArrayTree, Held1
  <2> QED BY <1>1, <1>2 DEF Kept, OneOwner, IsOwned
<1> QED BY <1>4, <1>5, <1>6

LEMMA ParseTrees ==
  ASSUME HeapInv, NEW r \in ParsedRoots, r \in RootNames, roots[r] = NoRoot, NEW text, Parse(r, text),
         UNCHANGED <<list, array>>
  PROVE  /\ RootsSameBut({r}) /\ ListSame /\ ArraySame
         /\ \A s \in RootNames \ {r} : roots'[s] = roots[s]
         /\ Tree(r)' \in {NoItem, Parser(text).value}
         /\ failures' = 0 /\ Parser(text).ok => failures = 0 /\ Tree(r)' = Parser(text).value
<1>1. Cells /\ Kept
  BY HeapInvKept
<1>2. Fresh(heap) \in Nat \ {Null} /\ Fresh(heap) \notin DOMAIN heap
  BY <1>1, FreshAddress DEF Cells
<1>3. \A s \in RootNames \ {r} : roots'[s] = roots[s]
  BY <1>1 DEF Parse, Cells
<1>4. \A b \in DOMAIN heap : heap'[b] = heap[b]
  <2>1. CASE heap' = With(heap, Fresh(heap), Parser(text).value)
    BY <1>2, <2>1 DEF With
  <2> QED BY <2>1 DEF Parse
<1>5. RootsSameBut({r}) /\ ListSame /\ ArraySame
  BY <1>3, <1>4, OthersSame
<1>6. /\ Tree(r)' \in {NoItem, Parser(text).value}
      /\ failures' = 0 /\ Parser(text).ok => failures = 0 /\ Tree(r)' = Parser(text).value
  <2>1. CASE /\ heap' = With(heap, Fresh(heap), Parser(text).value)
             /\ roots' = [roots EXCEPT ![r] = [read |-> Fresh(heap), write |-> Null]]
             /\ UNCHANGED failures
    <3>1. roots'[r].read = Fresh(heap)
      BY <1>1, <2>1 DEF Cells
    <3> QED BY <1>2, <2>1, <3>1 DEF Tree, Held1, With
  <2>2. CASE /\ roots' = [roots EXCEPT ![r] = NoRoot]
             /\ IF Parser(text).ok THEN Fails(1) ELSE UNCHANGED failures
    <3>1. Tree(r)' = NoItem
      BY <1>1, <2>2 DEF Cells, NoRoot, Tree, Held1
    <3>2. Parser(text).ok => failures' # 0
      BY <1>1, <2>2 DEF Fails, Cells
    <3> QED BY <3>1, <3>2
  <2> QED BY <2>1, <2>2 DEF Parse
<1> QED BY <1>3, <1>5, <1>6

\* The tree an assignment to a member adds to.
Base(r) == IF roots[r].write = Null THEN EmptyObject ELSE Tree(r)

LEMMA AssignTrees ==
  ASSUME HeapInv, NEW r \in RootNames \ ParsedRoots, NEW key, NEW item, NEW copied,
         Assign(r, key, item, copied), UNCHANGED <<list, array>>
  PROVE  /\ RootsSameBut({r}) /\ ListSame /\ ArraySame
         /\ \A s \in RootNames \ {r} : roots'[s] = roots[s]
         /\ roots'[r].write # Null =>
              \/ Tree(r)' = Base(r)
              \/ item # NoItem /\ Tree(r)' = AddItem(Base(r), Key[key], item)
         /\ failures' = 0 =>
              /\ failures = 0 /\ roots'[r].write # Null
              /\ Tree(r)' = IF item = NoItem THEN Base(r) ELSE AddItem(Base(r), Key[key], item)
<1> DEFINE a == Target(r)
           h == Opened(r)
           added == With(h, a, AddItem(h[a], Key[key], item))
<1>1. Cells /\ Kept
  BY HeapInvKept
<1>2. Fresh(heap) \in Nat \ {Null} /\ Fresh(heap) \notin DOMAIN heap
  BY <1>1, FreshAddress DEF Cells
<1>3. /\ a # Null /\ a \in DOMAIN h /\ h[a] = Base(r)
      /\ \A b \in DOMAIN heap : b \in DOMAIN h /\ h[b] = heap[b]
      /\ \A b \in DOMAIN heap : b # roots[r].write => b # a
      /\ FiniteHeap(h)
  <2>1. CASE roots[r].write = Null
    <3>1. h = With(heap, Fresh(heap), EmptyObject) /\ a = Fresh(heap)
      BY <2>1 DEF Opened, Target
    <3>2. FiniteHeap(h)
      BY <1>1, <1>2, <3>1, WithFinite DEF Cells
    <3> QED BY <1>2, <2>1, <3>1, <3>2 DEF Base, With
  <2>2. CASE roots[r].write # Null
    <3>1. roots[r].write \in DOMAIN heap
      BY <1>1, <2>2 DEF Kept, IsOwned, Pointers
    <3> QED BY <1>1, <2>2, <3>1 DEF Opened, Target, Base, Tree, Held1, Cells
  <2> QED BY <2>1, <2>2
<1>4. \A s \in RootNames \ {r} : roots'[s] = roots[s]
  BY <1>1 DEF Assign, Cells
<1> HIDE DEF a, h
<1>5. /\ added[a] = AddItem(Base(r), Key[key], item)
      /\ \A b \in DOMAIN heap : b # roots[r].write => added[b] = heap[b]
  BY <1>3 DEF With
<1>6. Fresh(h) \notin DOMAIN h
  BY <1>3, FreshAddress
<1> DEFINE copy == With(h, Fresh(h), item)
<1>7. copy[a] = Base(r) /\ \A b \in DOMAIN heap : copy[b] = heap[b]
  BY <1>3, <1>6 DEF With
<1>8. roots' = [roots EXCEPT ![r].write = a] => roots'[r].write = a
  BY <1>1 DEF Cells
<1>9. Tree(r)' = IF roots'[r].write = Null THEN NoItem ELSE heap'[roots'[r].write]
  BY DEF Tree, Held1
<1> HIDE DEF added, copy
<1>10. CASE /\ heap' = IF item = NoItem THEN h ELSE added
            /\ roots' = [roots EXCEPT ![r].write = a]
            /\ UNCHANGED failures
  <2>1. \A b \in DOMAIN heap : b # roots[r].write => heap'[b] = heap[b]
    BY <1>3, <1>5, <1>10
  <2>2. Tree(r)' = IF item = NoItem THEN Base(r) ELSE AddItem(Base(r), Key[key], item)
    BY <1>3, <1>5, <1>8, <1>9, <1>10
  <2>3. RootsSameBut({r}) /\ ListSame /\ ArraySame
    BY <1>4, <2>1, OthersSame DEF Held
  <2> QED BY <1>3, <1>4, <1>8, <1>10, <2>2, <2>3
<1>11. CASE /\ roots[r].write = Null
            /\ Fails(1)
            /\ UNCHANGED <<heap, roots>>
  <2>1. failures' # 0
    BY <1>1, <1>11 DEF Fails, Cells
  <2>2. RootsSameBut({r}) /\ ListSame /\ ArraySame
    BY <1>4, <1>11, OthersSame
  <2> QED BY <1>4, <1>11, <2>1, <2>2
<1>12. CASE /\ item # NoItem
            /\ Fails(1)
            /\ roots' = [roots EXCEPT ![r].write = a]
            /\ heap' = h \/ heap' = copy
  <2>1. failures' # 0
    BY <1>1, <1>12 DEF Fails, Cells
  <2>2. \A b \in DOMAIN heap : heap'[b] = heap[b]
    BY <1>3, <1>7, <1>12
  <2>3. RootsSameBut({r}) /\ ListSame /\ ArraySame
    BY <1>4, <2>2, OthersSame
  <2>4. Tree(r)' = Base(r)
    BY <1>3, <1>7, <1>8, <1>9, <1>12
  <2> QED BY <1>4, <2>1, <2>3, <2>4
<1> QED BY <1>10, <1>11, <1>12 DEF Assign, a, h, added, copy

LEMMA DestroyTrees ==
  ASSUME HeapInv, NEW names \in SUBSET RootNames, Destroy(names), UNCHANGED <<list, array>>
  PROVE  /\ RootsSameBut(names) /\ ListSame /\ ArraySame
         /\ \A s \in RootNames \ names : roots'[s] = roots[s]
         /\ \A s \in names : roots'[s] = NoRoot
<1>1. \A s \in RootNames \ names : roots'[s] = roots[s]
  BY DEF Destroy
<1>2. \A b \in DOMAIN heap \ Held(names) : heap'[b] = heap[b]
  BY WithoutDomain DEF Destroy
<1>3. RootsSameBut(names) /\ ListSame /\ ArraySame
  BY <1>1, <1>2, OthersSame
<1> QED BY <1>1, <1>3 DEF Destroy

LEMMA PushTrees ==
  ASSUME HeapInv, PushPackage
  PROVE  /\ RootsSameBut({"arrary_node"}) /\ ListSame /\ ArraySame
         /\ \A s \in RootNames \ {"arrary_node"} : roots'[s] = roots[s]
         /\ Len(list') = Len(list) + 1 /\ Len(list) \in Nat
         /\ \A n : n = Len(list) + 1 /\ list'[n] # Null =>
              /\ roots["arrary_node"].write # Null
              /\ ListTree(n)' = Tree("arrary_node")
         /\ failures' = 0 /\ roots["arrary_node"].write # Null =>
              failures = 0 /\ list'[Len(list) + 1] # Null
<1> DEFINE source == roots["arrary_node"].write
           a == Fresh(heap)
<1>1. Cells /\ Kept /\ "arrary_node" \in RootNames \ ParsedRoots /\ array' = array /\ list \in Seq(Nat)
  BY HeapInvKept DEF RootNames, ParsedRoots, PushPackage, Cells
<1>2. a \in Nat \ {Null} /\ a \notin DOMAIN heap
  BY <1>1, FreshAddress DEF Cells
<1>3. source # Null => source \in DOMAIN heap
  BY <1>1 DEF Kept, IsOwned, Pointers
<1>4. \A s \in RootNames \ {"arrary_node"} : roots'[s] = roots[s]
  BY <1>1 DEF PushPackage, Cells
<1> DEFINE h == With(heap, a, heap[source])
<1>5. DOMAIN h = DOMAIN heap \cup {a} /\ h[a] = heap[source] /\ \A b \in DOMAIN heap : h[b] = heap[b]
  BY <1>2 DEF With
<1> HIDE DEF a, h
<1>6. \/ /\ source # Null /\ heap' = Without(h, {source}) /\ list' = Append(list, a) /\ UNCHANGED failures
      \/ /\ heap' = Without(heap, {source}) /\ list' = Append(list, Null)
         /\ IF source = Null THEN UNCHANGED failures ELSE Fails(1)
  BY DEF PushPackage, a, h
<1>7. /\ \A b \in DOMAIN heap \ {source} : heap'[b] = heap[b]
      /\ list' = Append(list, a) => heap'[a] = heap[source]
  <2>1. CASE source # Null /\ heap' = Without(h, {source})
    BY <1>2, <1>3, <1>5, <2>1 DEF Without
  <2>2. CASE heap' = Without(heap, {source}) /\ list' = Append(list, Null)
    <3>1. list' # Append(list, a)
      BY <1>1, <1>2, <2>2 DEF Null
    <3> QED BY <2>2, <3>1, WithoutDomain
  <2> QED BY <1>6, <2>1, <2>2
<1>8. RootsSameBut({"arrary_node"}) /\ ArraySame
  BY <1>1, <1>4, <1>7, OthersSame DEF Held
<1>9. /\ Len(list') = Len(list) + 1 /\ Len(list) \in Nat
      /\ \A n \in 1..Len(list) : list'[n] = list[n]
      /\ \/ list'[Len(list) + 1] = a /\ list' = Append(list, a)
         \/ list'[Len(list) + 1] = Null /\ list' = Append(list, Null)
  BY SMTT(30), <1>1, <1>2, <1>6 DEF Null
<1>10. ListSame
  <2> SUFFICES ASSUME NEW n \in 1..Len(list), list[n] # Null PROVE heap'[list[n]] = heap[list[n]]
    BY <1>9 DEF ListSame, ListTree, Held1
  <2>1. list[n] \in DOMAIN heap /\ list[n] # source
    BY <1>1 DEF Kept, OneOwner, IsOwned, Pointers
  <2> QED BY <1>7, <2>1
<1>11. ASSUME NEW n, n = Len(list) + 1, list'[n] # Null
       PROVE  source # Null /\ ListTree(n)' = Tree("arrary_node")
  <2>1. list' = Append(list, a) /\ list'[n] = a
    BY <1>9, <1>11
  <2>2. source # Null
    BY <1>1, <1>2, <1>6, <2>1 DEF Null
  <2> QED BY <1>1, <1>7, <1>11, <2>1, <2>2 DEF ListTree, Held1, Tree
<1>12. failures' = 0 /\ source # Null => failures = 0 /\ list'[Len(list) + 1] # Null
  <2>1. Fails(1) => failures' # 0
    BY <1>1 DEF Fails, Cells
  <2> QED BY <1>1, <1>2, <1>6, <2>1 DEF Null
<1> QED BY <1>4, <1>8, <1>9, <1>10, <1>11, <1>12

\* What happens to the array, and to addresses nobody else has, changes no
\* other tree.
LEMMA ArrayAlone ==
  ASSUME HeapInv, NEW names \in SUBSET RootNames, UNCHANGED <<roots, list>>,
         \A b \in DOMAIN heap : b # array /\ b \notin Held(names) => heap'[b] = heap[b]
  PROVE  RootsSameBut(names) /\ ListSame
<1>1. Kept /\ Cells
  BY HeapInvKept
<1>2. \A a : a \in Held(names) <=> \E r \in names, p \in Pointers : roots[r][p] = a
  BY DEF Held, Pointers
<1>3. ASSUME NEW s \in RootNames \ names, NEW p \in Pointers, roots[s][p] # Null
      PROVE  heap'[roots[s][p]] = heap[roots[s][p]]
  <2>1. roots[s][p] \in DOMAIN heap /\ roots[s][p] # array
    BY <1>1, <1>3 DEF Kept, OneOwner, IsOwned
  <2>2. roots[s][p] \notin Held(names)
    BY <1>1, <1>2, <1>3 DEF Kept, OneOwner
  <2> QED BY <2>1, <2>2
<1>4. RootsSameBut(names)
  BY <1>3 DEF RootsSameBut, Tree, Held1, Pointers
<1>5. ListSame
  <2> SUFFICES ASSUME NEW n \in 1..Len(list), list[n] # Null PROVE heap'[list[n]] = heap[list[n]]
    BY DEF ListSame, ListTree, Held1
  <2>1. list[n] \in DOMAIN heap /\ list[n] # array
    BY <1>1 DEF Kept, OneOwner, IsOwned
  <2>2. list[n] \notin Held(names)
    BY <1>1, <1>2 DEF Kept, OneOwner
  <2> QED BY <2>1, <2>2
<1> QED BY <1>4, <1>5

LEMMA CreateArrayTrees ==
  ASSUME HeapInv, CreateArray
  PROVE  /\ RootsSameBut({}) /\ ListSame /\ UNCHANGED <<roots, list>>
         /\ array' # Null => ArrayTree' = EmptyArray
         /\ failures' = 0 => failures = 0 /\ array' # Null
<1>1. Cells /\ UNCHANGED <<roots, list>>
  BY HeapInvKept DEF CreateArray
<1>2. Fresh(heap) \in Nat \ {Null} /\ Fresh(heap) \notin DOMAIN heap
  BY <1>1, FreshAddress DEF Cells
<1>3. CASE /\ heap' = With(heap, Fresh(heap), EmptyArray)
           /\ array' = Fresh(heap)
           /\ UNCHANGED failures
  <2>1. \A b \in DOMAIN heap : heap'[b] = heap[b]
    BY <1>2, <1>3 DEF With
  <2>2. RootsSameBut({}) /\ ListSame
    BY <1>1, <2>1, ArrayAlone
  <2> QED BY <1>1, <1>2, <1>3, <2>2 DEF ArrayTree, Held1, With
<1>4. CASE array' = Null /\ UNCHANGED heap /\ Fails(1)
  <2>1. RootsSameBut({}) /\ ListSame
    BY <1>1, <1>4, ArrayAlone
  <2> QED BY <1>1, <1>4, <2>1 DEF Fails, Cells
<1> QED BY <1>3, <1>4 DEF CreateArray

LEMMA CopyPackageTrees ==
  ASSUME HeapInv, CopyPackage
  PROVE  /\ RootsSameBut({}) /\ ListSame /\ UNCHANGED <<roots, list, array>>
         /\ \/ ArrayTree' = ArrayTree
            \/ list[i] # Null /\ array # Null /\ ArrayTree' = AddItem(ArrayTree, <<>>, ListTree(i))
         /\ failures' = 0 /\ list[i] # Null /\ array # Null =>
              failures = 0 /\ ArrayTree' = AddItem(ArrayTree, <<>>, ListTree(i))
<1>1. Cells /\ Kept /\ UNCHANGED <<roots, list, array>>
  BY HeapInvKept DEF CopyPackage
<1>2. Fresh(heap) \in Nat \ {Null} /\ Fresh(heap) \notin DOMAIN heap
  BY <1>1, FreshAddress DEF Cells
<1>3. array # Null => array \in DOMAIN heap
  BY <1>1 DEF Kept, IsOwned
<1>4. CASE /\ list[i] # Null /\ array # Null
           /\ heap' = [heap EXCEPT ![array] = AddItem(@, <<>>, heap[list[i]])]
           /\ UNCHANGED failures
  <2>1. \A b \in DOMAIN heap : b # array => heap'[b] = heap[b]
    BY <1>4
  <2>2. RootsSameBut({}) /\ ListSame
    BY <1>1, <2>1, ArrayAlone
  <2>3. heap'[array] = AddItem(heap[array], <<>>, heap[list[i]])
    BY <1>3, <1>4
  <2> QED BY <1>1, <1>4, <2>2, <2>3 DEF ArrayTree, ListTree, Held1
<1>5. CASE list[i] # Null /\ array = Null /\ heap' = With(heap, Fresh(heap), heap[list[i]])
  <2>1. \A b \in DOMAIN heap : heap'[b] = heap[b]
    BY <1>2, <1>5 DEF With
  <2>2. RootsSameBut({}) /\ ListSame
    BY <1>1, <2>1, ArrayAlone
  <2> QED BY <1>1, <1>5, <2>2 DEF ArrayTree, Held1
<1>6. CASE UNCHANGED heap /\ (IF list[i] # Null THEN Fails(1) ELSE UNCHANGED failures)
  <2>1. RootsSameBut({}) /\ ListSame
    BY <1>1, <1>6, ArrayAlone
  <2>2. ArrayTree' = ArrayTree
    BY <1>1, <1>6 DEF ArrayTree, Held1
  <2> QED BY <1>1, <1>6, <2>1, <2>2 DEF Fails, Cells
<1> QED BY <1>4, <1>5, <1>6 DEF CopyPackage

LEMMA AddArrayTrees ==
  ASSUME HeapInv, AddArray
  PROVE  /\ RootsSameBut({"root"}) /\ ListSame /\ UNCHANGED <<roots, list>>
         /\ \/ Tree("root")' = Tree("root")
            \/ /\ roots["root"].write # Null /\ array # Null
               /\ Tree("root")' = AddItem(Tree("root"), Key["key_shard_pkg"], ArrayTree)
         /\ failures' = 0 =>
              failures = 0 /\ Tree("root")' = AddItem(Tree("root"), Key["key_shard_pkg"], ArrayTree)
<1> DEFINE root == roots["root"].write
           tree == AddItem(heap[root], Key["key_shard_pkg"], heap[array])
<1>1. Cells /\ Kept /\ UNCHANGED <<roots, list>> /\ {"root"} \in SUBSET RootNames
  BY HeapInvKept DEF AddArray, RootNames
<1>2. failures = 0 => root # Null /\ array # Null
  BY DEF HeapInv, Made, AddArray
<1>3. Tree("root") = Held1(root) /\ Tree("root")' = Held1(root)'
  BY DEF Tree, ParsedRoots
<1>4. CASE /\ root # Null /\ array # Null
           /\ heap' = Without(With(heap, root, tree), {array})
           /\ UNCHANGED failures
  <2>1. root \in DOMAIN heap /\ root # array
    BY <1>1, <1>4 DEF Kept, OneOwner, IsOwned, Pointers
  <2> HIDE DEF tree
  <2>2. \A b \in DOMAIN heap : b # array /\ b # root => heap'[b] = heap[b]
    BY <1>4 DEF With, Without
  <2>3. heap'[root] = tree
    BY <1>4, <2>1 DEF With, Without
  <2>4. RootsSameBut({"root"}) /\ ListSame
    BY <1>1, <2>2, ArrayAlone DEF Held
  <2>5. Tree("root")' = AddItem(Tree("root"), Key["key_shard_pkg"], ArrayTree)
    BY <1>1, <1>3, <1>4, <2>3 DEF Held1, ArrayTree, tree
  <2> QED BY <1>1, <1>4, <2>4, <2>5
<1>5. CASE UNCHANGED heap /\ (IF root # Null /\ array # Null THEN Fails(1) ELSE UNCHANGED failures)
  <2>1. RootsSameBut({"root"}) /\ ListSame
    BY <1>1, <1>5, ArrayAlone
  <2>2. Tree("root")' = Tree("root")
    BY <1>1, <1>5 DEF Tree, Held1
  <2>3. failures' # 0
    BY <1>1, <1>2, <1>5 DEF Fails, Cells
  <2> QED BY <1>1, <2>1, <2>2, <2>3
<1> QED BY <1>4, <1>5 DEF AddArray

-----------------------------------------------------------------------------
(* What the trees hold.                                                    *)

IsList(s) == Len(s) \in Nat /\ s = [n \in 1..Len(s) |-> s[n]]

Member(key, value)  == [key |-> Key[key], value |-> value]
ObjectOf(members)   == [type |-> "Object", child |-> members]

IsNode(tree, kind) == tree = [type |-> kind, child |-> tree.child] /\ IsList(tree.child)

\* An object that holds nothing but the n-th key and the n-th cipher.
FiledFor(tree, n, ks) ==
  /\ IsNode(tree, "Object")
  /\ \A c \in 1..Len(tree.child) :
       tree.child[c] \in {Member("public_key", Text(ks[n])),
                          Member("encrypt_key_info", Text(CipherText(n)))}

\* An array of such objects, each for one of the first m keys.
AllFiled(tree, m, ks) ==
  /\ IsNode(tree, "Array")
  /\ \A c \in 1..Len(tree.child) :
       \E n \in 1..m : FiledFor(tree.child[c].value, n, ks)

\* The tree of the reply, as far as it is made.
ReplyFiled(tree, m, ks) ==
  /\ IsNode(tree, "Object")
  /\ \A c \in 1..Len(tree.child) :
       \/ tree.child[c].key \in {Key["pubkey_list_hash"], Key["rsa_public_key"]}
       \/ tree.child[c].key = Key["key_shard_pkg"] /\ AllFiled(tree.child[c].value, m, ks)

Before   == {"parse", "params", "generate", "hash", "parsepublic", "public"}
Sealing  == {"parsemeta", "meta", "index", "share", "shard", "encrypt"}
Filing   == {"pubkey", "cipher", "push"}
Replying == {"packages", "array", "copy", "write"}

\* How far the loop over the shares is.
Counts ==
  /\ IsList(plains)
  /\ \A n \in 1..Len(plains) : plains[n].key = keys[n]
  /\ at \in Before => plains = <<>> /\ list = <<>> /\ i = 1
  /\ at \in Sealing => Len(plains) = Len(list) /\ i = Len(list) + 1
  /\ at \in Filing => Len(plains) = i /\ i = Len(list) + 1
  /\ at \in Replying => Len(plains) = Len(list)

\* Whatever allocations failed, key and cipher belong together.
ListFiled  == \A n \in 1..Len(list) : list[n] # Null => FiledFor(ListTree(n), n, keys)
NodeFiled  == roots["arrary_node"].write # Null => FiledFor(Tree("arrary_node"), i, keys)
ArrayFiled == array # Null => AllFiled(ArrayTree, Len(plains), keys)
RootFiled  == roots["root"].write # Null => ReplyFiled(Tree("root"), Len(plains), keys)
Filed == ListFiled /\ NodeFiled /\ ArrayFiled /\ RootFiled /\ NoShardMisfiled

\* The trees of a generation in which nothing failed.
HashMember    == Member("pubkey_list_hash", Text(HashText))
PublicMember  == Member("rsa_public_key", Parser(PublicText).value)
MetaMember    == Member("key_meta", Parser(MetaText).value)
ShardTree(n)  == ObjectOf(<<Member("index", Number(n)), Member("private_key_shard", Text(ShareText(n)))>>)
PlainTree(n)  == ObjectOf(<<MetaMember, Member("key_shard", ShardTree(n))>>)
Package(ks, n) == ObjectOf(<<Member("public_key", Text(ks[n])),
                             Member("encrypt_key_info", Text(CipherText(n)))>>)
Packages(ks, m) ==
  [type |-> "Array", child |-> [n \in 1..m |-> [key |-> <<>>, value |-> Package(ks, n)]]]
FullReply(ks) == ObjectOf(<<HashMember, PublicMember, Member("key_shard_pkg", Packages(ks, Len(ks)))>>)

\* Without a failing allocation each tree is what it should be by then.
RootsComplete ==
  /\ at \in {"parsepublic", "public"} => Tree("root") = ObjectOf(<<HashMember>>)
  /\ at \in Sealing \cup Filing \cup {"packages", "array", "copy"} =>
       Tree("root") = ObjectOf(<<HashMember, PublicMember>>)
  /\ at = "write"  => Tree("root") = FullReply(keys)
  /\ at = "public" => Tree("pubkey_root") = Parser(PublicText).value
  /\ at = "meta"   => Tree("key_meta_node") = Parser(MetaText).value
  /\ at \in {"index", "share", "shard"} => Tree("cipher_root") = ObjectOf(<<MetaMember>>)
  /\ at = "share"   => Tree("key_shard_node") = ObjectOf(<<Member("index", Number(i))>>)
  /\ at = "shard"   => Tree("key_shard_node") = ShardTree(i)
  /\ at = "encrypt" => Tree("cipher_root") = PlainTree(i)
  /\ at = "cipher"  => Tree("arrary_node") = ObjectOf(<<Member("public_key", Text(keys[i]))>>)
  /\ at = "push"    => Tree("arrary_node") = Package(keys, i)

PackagesComplete ==
  \A n \in 1..Len(list) : list[n] # Null /\ ListTree(n) = Package(keys, n)
PlainsComplete ==
  \A n \in 1..Len(plains) : plains[n] = [key |-> keys[n], text |-> Printer(PlainTree(n))]
ListComplete ==
  /\ at = "copy" => i \in 1..Len(list) + 1 /\ ArrayTree = Packages(keys, i - 1)
  /\ at \in Replying => Len(list) = Len(keys)

Complete ==
  failures = 0 =>
    RootsComplete /\ PackagesComplete /\ PlainsComplete /\ ListComplete /\ ReplyIsComplete

ReplyInv == HeapInv /\ Counts /\ Filed /\ Complete

\* What the theorems below suppose of the parser and the printer: the reply
\* is read back as the tree it was printed from.
ReplyReadsBack ==
  at = "write" /\ roots["root"].write # Null =>
    LET tree == heap[roots["root"].write]
    IN  Parser(Printer(tree)).ok /\ Parser(Printer(tree)).value = tree

-----------------------------------------------------------------------------
(* Lists and look-ups.                                                     *)

LEMMA ListIsSeq ==
  ASSUME NEW s, IsList(s), NEW e
  PROVE  \E S : s \in Seq(S) /\ e \in S
<1> DEFINE S == {s[n] : n \in 1..Len(s)} \cup {e}
<1>1. s \in [1..Len(s) -> S] /\ Len(s) \in Nat
  BY DEF IsList
<1>2. s \in Seq(S)
  BY <1>1
<1> QED BY <1>2

LEMMA AppendList ==
  ASSUME NEW s, IsList(s), NEW e
  PROVE  /\ IsList(Append(s, e))
         /\ Len(Append(s, e)) = Len(s) + 1
         /\ Append(s, e)[Len(s) + 1] = e
         /\ \A n \in 1..Len(s) : Append(s, e)[n] = s[n]
<1>1. PICK S : s \in Seq(S) /\ e \in S
  BY ListIsSeq
<1> DEFINE t == Append(s, e)
<1>2. t \in Seq(S)
  BY <1>1
<1>3. /\ Len(t) = Len(s) + 1 /\ t[Len(s) + 1] = e
      /\ \A n \in 1..Len(s) : t[n] = s[n]
  BY <1>1
<1> HIDE DEF t
<1>4. t = [n \in 1..Len(t) |-> t[n]] /\ Len(t) \in Nat
  BY <1>2
<1>5. IsList(t)
  BY <1>4 DEF IsList
<1> QED BY <1>3, <1>5 DEF t

LEMMA FoundItem ==
  ASSUME NEW tree, IsList(tree.child), NEW key, GetObjectItem(tree, key) # NoItem
  PROVE  \E c \in 1..Len(tree.child) :
           SameKey(tree.child[c].key, key) /\ GetObjectItem(tree, key) = tree.child[c].value
<1> DEFINE named == {c \in 1..Len(tree.child) : SameKey(tree.child[c].key, key)}
           first == CHOOSE c \in named : \A d \in named : c <= d
<1>1. named # {} /\ GetObjectItem(tree, key) = tree.child[first].value
  BY DEF GetObjectItem
<1>2. named \subseteq Nat
  BY DEF IsList
<1>3. first \in named
  <2> HIDE DEF named
  <2>1. \E c \in named : \A d \in named : c <= d
    BY <1>1, <1>2, LeastNat
  <2> QED BY <2>1
<1> QED BY <1>1, <1>3

\* Names of members are different, whatever the case of their letters.
LEMMA KeysDiffer ==
  ASSUME NEW a \in KeyNames, NEW b \in KeyNames, SameKey(Key[a], Key[b])
  PROVE  a = b
  BY KeyAssumption

\* Nothing is misfiled in a text that reads as such a tree.
LEMMA FiledIsNotMisfiled ==
  ASSUME Counts, NEW tree, ReplyFiled(tree, Len(plains), keys), NEW packages,
         packages = AsStringArray(GetObjectItem(tree, Key["key_shard_pkg"])),
         NEW n \in 1..Len(packages),
         GetObjectItem(packages[n], Key["public_key"]) # NoItem,
         GetObjectItem(packages[n], Key["encrypt_key_info"]) # NoItem
  PROVE  \E m \in 1..Len(plains) :
           /\ GetObjectItem(packages[n], Key["encrypt_key_info"]).text = CipherText(m)
           /\ plains[m].key = GetObjectItem(packages[n], Key["public_key"]).text
<1> DEFINE item == GetObjectItem(tree, Key["key_shard_pkg"])
<1>1. item # NoItem /\ item.type = "Array"
  <2>1. packages # <<>>
    OBVIOUS
  <2>2. item.type = "Array"
    BY <2>1 DEF AsStringArray
  <2> QED BY <2>2 DEF NoItem
<1>2. PICK c \in 1..Len(tree.child) : SameKey(tree.child[c].key, Key["key_shard_pkg"]) /\ item = tree.child[c].value
  BY <1>1, FoundItem DEF ReplyFiled, IsNode
<1>3. AllFiled(item, Len(plains), keys)
  <2>1. tree.child[c].key \notin {Key["pubkey_list_hash"], Key["rsa_public_key"]}
    BY <1>2, KeysDiffer DEF KeyNames
  <2> QED BY <1>2, <2>1 DEF ReplyFiled
<1>4. packages = [m \in 1..Len(item.child) |-> item.child[m].value] /\ IsList(item.child)
  BY <1>1, <1>3 DEF AsStringArray, AllFiled, IsNode
<1>5. n \in 1..Len(item.child) /\ packages[n] = item.child[n].value
  BY <1>4 DEF IsList
<1>6. PICK m \in 1..Len(plains) : FiledFor(packages[n], m, keys)
  BY <1>3, <1>5 DEF AllFiled
<1>7. PICK p \in 1..Len(packages[n].child) :
        /\ SameKey(packages[n].child[p].key, Key["public_key"])
        /\ GetObjectItem(packages[n], Key["public_key"]) = packages[n].child[p].value
  BY <1>6, FoundItem DEF FiledFor, IsNode
<1>8. PICK q \in 1..Len(packages[n].child) :
        /\ SameKey(packages[n].child[q].key, Key["encrypt_key_info"])
        /\ GetObjectItem(packages[n], Key["encrypt_key_info"]) = packages[n].child[q].value
  BY <1>6, FoundItem DEF FiledFor, IsNode
<1>9. packages[n].child[p] = Member("public_key", Text(keys[m]))
  <2>1. packages[n].child[p] # Member("encrypt_key_info", Text(CipherText(m)))
    BY <1>7, KeysDiffer DEF KeyNames, Member
  <2> QED BY <1>6, <2>1 DEF FiledFor
<1>10. packages[n].child[q] = Member("encrypt_key_info", Text(CipherText(m)))
  <2>1. packages[n].child[q] # Member("public_key", Text(keys[m]))
    BY <1>8, KeysDiffer DEF KeyNames, Member
  <2> QED BY <1>6, <2>1 DEF FiledFor
<1>11. plains[m].key = keys[m]
  BY DEF Counts
<1> QED BY <1>7, <1>8, <1>9, <1>10, <1>11 DEF Member, Text

LEMMA NothingMisfiled ==
  ASSUME Counts, NEW tree, ReplyFiled(tree, Len(plains), keys), Parser(reply).ok => Parser(reply).value = tree
  PROVE  NoShardMisfiled
<1> DEFINE packages == IF Parser(reply).ok
                         THEN AsStringArray(GetObjectItem(Parser(reply).value, Key["key_shard_pkg"])) ELSE <<>>
<1>1. ASSUME NEW n \in 1..Len(packages),
             GetObjectItem(packages[n], Key["public_key"]) # NoItem,
             GetObjectItem(packages[n], Key["encrypt_key_info"]) # NoItem
      PROVE  \E m \in 1..Len(plains) :
               /\ GetObjectItem(packages[n], Key["encrypt_key_info"]).text = CipherText(m)
               /\ plains[m].key = GetObjectItem(packages[n], Key["public_key"]).text
  <2>1. Parser(reply).ok
    BY <1>1
  <2>2. packages = AsStringArray(GetObjectItem(tree, Key["key_shard_pkg"]))
    BY <2>1
  <2> HIDE DEF packages
  <2> QED BY <1>1, <2>2, FiledIsNotMisfiled
<1> QED BY <1>1 DEF NoShardMisfiled

-----------------------------------------------------------------------------
(* What adding an item makes of a tree.                                    *)

LEMMA EmptyNodes == IsNode(EmptyObject, "Object") /\ IsNode(EmptyArray, "Array")
  BY DEF IsNode, IsList, EmptyObject, EmptyArray

LEMMA AddItemNode ==
  ASSUME NEW tree, NEW kind, IsNode(tree, kind), NEW key, NEW value
  PROVE  /\ IsNode(AddItem(tree, key, value), kind)
         /\ AddItem(tree, key, value).child = Append(tree.child, [key |-> key, value |-> value])
<1> DEFINE new == Append(tree.child, [key |-> key, value |-> value])
<1>1. AddItem(tree, key, value) = [type |-> kind, child |-> new]
  <2>1. tree = [type |-> kind, child |-> tree.child]
    BY DEF IsNode
  <2> HIDE DEF new
  <2>2. [tree EXCEPT !.child = new] = [type |-> kind, child |-> new]
    BY <2>1
  <2> QED BY <2>2 DEF AddItem, new
<1>2. IsList(new)
  BY AppendList DEF IsNode
<1> HIDE DEF new
<1> QED BY <1>1, <1>2 DEF IsNode, new

LEMMA AddedChildren ==
  ASSUME NEW tree, NEW kind, IsNode(tree, kind), NEW key, NEW value, NEW new,
         new = AddItem(tree, key, value)
  PROVE  /\ IsNode(new, kind)
         /\ \A c \in 1..Len(new.child) :
              \/ c \in 1..Len(tree.child) /\ new.child[c] = tree.child[c]
              \/ new.child[c] = [key |-> key, value |-> value]
<1>1. IsNode(new, kind) /\ new.child = Append(tree.child, [key |-> key, value |-> value])
  BY AddItemNode
<1>2. Len(tree.child) \in Nat /\ IsList(tree.child)
  BY DEF IsNode, IsList
<1> QED BY <1>1, <1>2, AppendList

LEMMA FiledForAdd ==
  ASSUME NEW ks, NEW n, NEW tree, tree = EmptyObject \/ FiledFor(tree, n, ks),
         NEW new, \/ new = AddItem(tree, Key["public_key"], Text(ks[n]))
                  \/ new = AddItem(tree, Key["encrypt_key_info"], Text(CipherText(n)))
  PROVE  FiledFor(new, n, ks)
<1>1. FiledFor(tree, n, ks)
  BY EmptyNodes DEF FiledFor, EmptyObject
<1>2. IsNode(tree, "Object")
  BY <1>1 DEF FiledFor
<1>3. PICK key, value : /\ new = AddItem(tree, key, value)
                        /\ [key |-> key, value |-> value] \in
                             {Member("public_key", Text(ks[n])), Member("encrypt_key_info", Text(CipherText(n)))}
  BY DEF Member
<1>4. IsNode(new, "Object")
      /\ \A c \in 1..Len(new.child) :
           \/ c \in 1..Len(tree.child) /\ new.child[c] = tree.child[c]
           \/ new.child[c] = [key |-> key, value |-> value]
  BY <1>2, <1>3, AddedChildren
<1> QED BY <1>1, <1>3, <1>4 DEF FiledFor

LEMMA AllFiledAdd ==
  ASSUME NEW ks, NEW m, NEW tree, tree = EmptyArray \/ AllFiled(tree, m, ks),
         NEW value, NEW n \in 1..m, FiledFor(value, n, ks),
         NEW new, new = AddItem(tree, <<>>, value)
  PROVE  AllFiled(new, m, ks)
<1>1. AllFiled(tree, m, ks)
  BY EmptyNodes DEF AllFiled, EmptyArray
<1>2. IsNode(tree, "Array")
  BY <1>1 DEF AllFiled
<1>3. IsNode(new, "Array")
      /\ \A c \in 1..Len(new.child) :
           \/ c \in 1..Len(tree.child) /\ new.child[c] = tree.child[c]
           \/ new.child[c] = [key |-> <<>>, value |-> value]
  BY <1>2, AddedChildren
<1> QED BY <1>1, <1>3 DEF AllFiled

LEMMA ReplyFiledAdd ==
  ASSUME NEW ks, NEW m, NEW tree, tree = EmptyObject \/ ReplyFiled(tree, m, ks), NEW key, NEW value,
         \/ key \in {Key["pubkey_list_hash"], Key["rsa_public_key"]}
         \/ key = Key["key_shard_pkg"] /\ AllFiled(value, m, ks),
         NEW new, new = AddItem(tree, key, value)
  PROVE  ReplyFiled(new, m, ks)
<1>1. ReplyFiled(tree, m, ks)
  BY EmptyNodes DEF ReplyFiled, EmptyObject
<1>2. IsNode(tree, "Object")
  BY <1>1 DEF ReplyFiled
<1>3. IsNode(new, "Object")
      /\ \A c \in 1..Len(new.child) :
           \/ c \in 1..Len(tree.child) /\ new.child[c] = tree.child[c]
           \/ new.child[c] = [key |-> key, value |-> value]
  BY <1>2, AddedChildren
<1> QED BY <1>1, <1>3 DEF ReplyFiled

LEMMA NothingFiled ==
  ASSUME NEW ks, NEW m
  PROVE  /\ \A n : FiledFor(EmptyObject, n, ks)
         /\ AllFiled(EmptyArray, m, ks)
         /\ ReplyFiled(EmptyObject, m, ks)
  BY EmptyNodes DEF FiledFor, AllFiled, ReplyFiled, EmptyObject, EmptyArray

\* What is filed stays filed when one more is encrypted.
LEMMA FiledGrows ==
  ASSUME NEW ks, NEW m \in Nat, NEW tree
  PROVE  /\ AllFiled(tree, m, ks) => AllFiled(tree, m + 1, ks)
         /\ ReplyFiled(tree, m, ks) => ReplyFiled(tree, m + 1, ks)
<1>1. \A t : AllFiled(t, m, ks) => AllFiled(t, m + 1, ks)
  BY DEF AllFiled
<1> QED BY <1>1 DEF ReplyFiled

-----------------------------------------------------------------------------
(* The steps before the packages.                                          *)

\* The two properties speak of the end.
LEMMA NotDone == at # "done" => NoShardMisfiled /\ ReplyIsComplete
  BY DEF NoShardMisfiled, ReplyIsComplete

LEMMA NotDoneNext == (at # "done" => NoShardMisfiled /\ ReplyIsComplete)'
  BY NotDone, PTL

LEMMA OneTree ==
  ASSUME OneUse, NEW r \in RootNames
  PROVE  TreeOf(r) = Tree(r)
  BY DEF OneUse, TreeOf, Tree, Held1

LEMMA BaseIsTree ==
  ASSUME NEW r \in RootNames \ ParsedRoots, Tree(r) # NoItem
  PROVE  Base(r) = Tree(r) /\ roots[r].write # Null
  BY DEF Base, Tree, Held1

\* Where no Root writes the packages and nothing is made of them, there is
\* nothing to say.
LEMMA NothingYet ==
  ASSUME HeapInv, list = <<>>, plains = <<>>, at # "done",
         at \in {"parse", "params", "generate", "hash", "refused", "undefined", "unchecked", "failed"}
  PROVE  Filed /\ Complete /\ (i = 1 => Counts)
<1>1. /\ roots["arrary_node"].write = Null /\ roots["root"].write = Null /\ array = Null
  BY DEF HeapInv, Idle, Live, RootNames, NoRoot
<1>2. Filed
  BY <1>1, NotDone DEF Filed, ListFiled, NodeFiled, ArrayFiled, RootFiled
<1>3. Complete
  BY NotDone DEF Complete, RootsComplete, PackagesComplete, PlainsComplete, ListComplete,
                 Sealing, Filing, Replying
<1>4. i = 1 => Counts
  BY DEF Counts, IsList, Sealing, Filing, Replying
<1> QED BY <1>2, <1>3, <1>4

LEMMA NothingYetNext ==
  (HeapInv /\ list = <<>> /\ plains = <<>>
   /\ at \in {"parse", "params", "generate", "hash", "refused", "undefined", "unchecked", "failed"} =>
     Filed /\ Complete /\ (i = 1 => Counts))'
<1>1. HeapInv /\ list = <<>> /\ plains = <<>>
      /\ at \in {"parse", "params", "generate", "hash", "refused", "undefined", "unchecked", "failed"} =>
        Filed /\ Complete /\ (i = 1 => Counts)
  BY NothingYet
<1> QED BY <1>1, PTL

LEMMA InitReply == Init => ReplyInv
<1> SUFFICES ASSUME Init PROVE ReplyInv
  OBVIOUS
<1> QED BY InitHeapInv, NothingYet DEF Init, ReplyInv

LEMMA EarlySteps ==
  ASSUME ReplyInv, HeapInv', ParseRequest \/ ReadParams \/ GenerateKey
  PROVE  (Counts /\ Filed /\ Complete)'
<1>1. at \in {"parse", "params", "generate"} /\ at \in Before
  BY DEF ParseRequest, ReadParams, GenerateKey, Before
<1>2. plains = <<>> /\ list = <<>> /\ i = 1
  BY <1>1 DEF ReplyInv, Counts
<1>3. plains' = <<>> /\ list' = <<>> /\ i' = 1
  BY <1>2 DEF ParseRequest, ReadParams, GenerateKey
<1>4. at' \in {"params", "generate", "hash", "refused", "undefined", "unchecked"}
  BY DEF ParseRequest, ReadParams, GenerateKey, Leave
<1> QED BY <1>3, <1>4, NothingYetNext

\* An error ends everything.
LEMMA AbandonSteps ==
  ASSUME ReplyInv, HeapInv', Abandon, UNCHANGED <<plains, keys>>, failures' = 0 => failures = 0
  PROVE  (Counts /\ Filed /\ Complete)'
<1>1. at' = "failed" /\ list' = <<>> /\ \A r \in RootNames : roots'[r] = NoRoot
  BY DEF Abandon, Leave
<1>2. array' = Null
  BY <1>1 DEF HeapInv, Idle
<1>3. Counts'
  BY <1>1 DEF ReplyInv, Counts, Before, Sealing, Filing, Replying, IsList
<1>4. Filed'
  BY <1>1, <1>2, NotDoneNext DEF Filed, ListFiled, NodeFiled, ArrayFiled, RootFiled, RootNames, NoRoot
<1>5. failures' = 0 => PlainsComplete'
  BY DEF ReplyInv, Complete, PlainsComplete
<1>6. Complete'
  BY <1>1, <1>5, NotDoneNext DEF Complete, RootsComplete, PackagesComplete, ListComplete,
                                 Sealing, Filing, Replying
<1> QED BY <1>3, <1>4, <1>6

-----------------------------------------------------------------------------
(* What a step leaves alone stays filed, and complete.                     *)

LEMMA StaysFiled ==
  ASSUME ReplyInv, NEW names \in SUBSET RootNames, RootsSameBut(names), ListSame,
         \A r \in RootNames \ names : roots'[r] = roots[r],
         UNCHANGED <<list, keys>>, at' # "done",
         Len(plains') = Len(plains) \/ Len(plains') = Len(plains) + 1
  PROVE  /\ ListFiled' /\ NoShardMisfiled'
         /\ "arrary_node" \notin names /\ UNCHANGED i => NodeFiled'
         /\ ArraySame => ArrayFiled'
         /\ "root" \notin names => RootFiled'
<1>1. PICK m, n : Filed /\ m = Len(plains) /\ m \in Nat /\ n = Len(plains') /\ (n = m \/ n = m + 1)
  BY DEF ReplyInv, Counts, IsList
<1>2. PICK ks : ks = keys /\ ks = keys'
  OBVIOUS
<1>3. ListFiled'
  BY <1>1 DEF Filed, ListFiled, ListSame
<1>4. NoShardMisfiled'
  BY NotDoneNext
<1>5. ASSUME "arrary_node" \notin names, UNCHANGED i PROVE NodeFiled'
  BY <1>1, <1>5 DEF Filed, NodeFiled, RootsSameBut, RootNames
<1>6. ASSUME ArraySame PROVE ArrayFiled'
  <2> SUFFICES ASSUME array # Null PROVE AllFiled(ArrayTree', Len(plains'), keys')
    BY <1>6 DEF ArrayFiled, ArraySame
  <2>1. PICK t : t = ArrayTree
    OBVIOUS
  <2>2. AllFiled(t, Len(plains), keys)
    BY <1>1, <2>1 DEF Filed, ArrayFiled
  <2>3. AllFiled(t, n, ks)
    <3>1. AllFiled(t, m, ks)
      BY <1>1, <1>2, <2>2
    <3> QED BY <1>1, <3>1, FiledGrows
  <2> QED BY <1>1, <1>2, <1>6, <2>1, <2>3 DEF ArraySame
<1>7. ASSUME "root" \notin names PROVE RootFiled'
  <2>1. Tree("root")' = Tree("root") /\ roots'["root"] = roots["root"]
    BY <1>7 DEF RootsSameBut, RootNames
  <2> SUFFICES ASSUME roots["root"].write # Null PROVE ReplyFiled(Tree("root")', Len(plains'), keys')
    BY <2>1 DEF RootFiled
  <2>2. PICK t : t = Tree("root")
    OBVIOUS
  <2>3. ReplyFiled(t, Len(plains), keys)
    BY <1>1, <2>2 DEF Filed, RootFiled
  <2>4. ReplyFiled(t, n, ks)
    <3>1. ReplyFiled(t, m, ks)
      BY <1>1, <1>2, <2>3
    <3> QED BY <1>1, <3>1, FiledGrows
  <2> QED BY <1>1, <1>2, <2>1, <2>2, <2>4
<1> QED BY <1>3, <1>4, <1>5, <1>6, <1>7

LEMMA StaysComplete ==
  ASSUME ReplyInv, ListSame, UNCHANGED <<list, keys>>, failures = 0
  PROVE  PackagesComplete' /\ (UNCHANGED plains => PlainsComplete')
<1>1. PackagesComplete /\ PlainsComplete
  BY DEF ReplyInv, Complete
<1>2. PackagesComplete'
  BY <1>1 DEF PackagesComplete, ListSame
<1> QED BY <1>1, <1>2 DEF PlainsComplete

LEMMA SameSeq ==
  ASSUME NEW S, NEW t \in Seq(S), NEW u \in Seq(S), Len(t) = Len(u), \A c \in 1..Len(t) : t[c] = u[c]
  PROVE  t = u
  OBVIOUS

LEMMA OneMore ==
  ASSUME NEW m
  PROVE  /\ Append(<<>>, m) = <<m>>
         /\ \A a : Append(<<a>>, m) = <<a, m>>
         /\ \A a, b : Append(<<a, b>>, m) = <<a, b, m>>
<1>1. Append(<<>>, m) = <<m>>
  OBVIOUS
<1>2. ASSUME NEW a PROVE Append(<<a>>, m) = <<a, m>>
  <2> DEFINE S == {a, m}
             u == <<a, m>>
  <2>1. <<a>> \in Seq(S) /\ m \in S /\ u \in Seq(S) /\ Len(u) = 2
    OBVIOUS
  <2>2. PICK t : t = Append(<<a>>, m)
    OBVIOUS
  <2>3. t \in Seq(S) /\ Len(t) = 2
    BY <2>1, <2>2
  <2>4. \A c \in 1..2 : t[c] = u[c]
    BY <2>2
  <2> HIDE DEF S, u
  <2>5. t = u
    BY <2>1, <2>3, <2>4, SameSeq
  <2> QED BY <2>2, <2>5 DEF u
<1>3. ASSUME NEW a, NEW b PROVE Append(<<a, b>>, m) = <<a, b, m>>
  <2> DEFINE S == {a, b, m}
             u == <<a, b, m>>
  <2>1. <<a, b>> \in Seq(S) /\ m \in S /\ u \in Seq(S) /\ Len(u) = 3
    OBVIOUS
  <2>2. PICK t : t = Append(<<a, b>>, m)
    OBVIOUS
  <2>3. t \in Seq(S) /\ Len(t) = 3
    BY <2>1, <2>2
  <2>4. \A c \in 1..3 : t[c] = u[c]
    BY <2>2
  <2> HIDE DEF S, u
  <2>5. t = u
    BY <2>1, <2>3, <2>4, SameSeq
  <2> QED BY <2>2, <2>5 DEF u
<1> QED BY <1>1, <1>2, <1>3

LEMMA ObjectAdd ==
  ASSUME NEW k, NEW v
  PROVE  /\ AddItem(EmptyObject, Key[k], v) = ObjectOf(<<Member(k, v)>>)
         /\ \A a : AddItem(ObjectOf(<<a>>), Key[k], v) = ObjectOf(<<a, Member(k, v)>>)
         /\ \A a, b : AddItem(ObjectOf(<<a, b>>), Key[k], v) = ObjectOf(<<a, b, Member(k, v)>>)
<1> DEFINE m == Member(k, v)
<1>1. \A s : AddItem(ObjectOf(s), Key[k], v) = ObjectOf(Append(s, m))
  BY DEF AddItem, ObjectOf, Member
<1> HIDE DEF m
<1>2. /\ Append(<<>>, m) = <<m>>
      /\ \A a : Append(<<a>>, m) = <<a, m>>
      /\ \A a, b : Append(<<a, b>>, m) = <<a, b, m>>
  BY OneMore
<1>3. EmptyObject = ObjectOf(<<>>)
  BY DEF EmptyObject, ObjectOf
<1> QED BY <1>1, <1>2, <1>3 DEF m

LEMMA ObjectThere == \A s : ObjectOf(s) # NoItem
  BY DEF ObjectOf, NoItem

LEMMA PackagesAdd ==
  ASSUME NEW ks, NEW n \in Nat
  PROVE  /\ AddItem(Packages(ks, n), <<>>, Package(ks, n + 1)) = Packages(ks, n + 1)
         /\ Packages(ks, 0) = EmptyArray
<1> DEFINE E(c) == [key |-> <<>>, value |-> Package(ks, c)]
           s(m) == [c \in 1..m |-> E(c)]
<1>1. \A m : Packages(ks, m) = [type |-> "Array", child |-> s(m)]
  BY DEF Packages
<1>2. AddItem([type |-> "Array", child |-> s(n)], <<>>, Package(ks, n + 1))
        = [type |-> "Array", child |-> Append(s(n), E(n + 1))]
  <2> HIDE DEF s
  <2> QED BY SMTT(30) DEF AddItem
<1> HIDE DEF E
<1>3. Append(s(n), E(n + 1)) = s(n + 1)
  <2> DEFINE S == {E(c) : c \in 1..n + 1}
  <2>1. s(n) \in Seq(S) /\ Len(s(n)) = n /\ E(n + 1) \in S
    OBVIOUS
  <2>2. s(n + 1) \in Seq(S) /\ Len(s(n + 1)) = n + 1
    OBVIOUS
  <2>3. \A c \in 1..n + 1 : Append(s(n), E(n + 1))[c] = s(n + 1)[c]
    BY <2>1
  <2> HIDE DEF s, S
  <2>4. PICK t, u : t = Append(s(n), E(n + 1)) /\ u = s(n + 1)
    OBVIOUS
  <2>5. t \in Seq(S) /\ Len(t) = n + 1
    BY <2>1, <2>4
  <2>6. u \in Seq(S) /\ Len(u) = n + 1 /\ \A c \in 1..n + 1 : t[c] = u[c]
    BY <2>2, <2>3, <2>4
  <2>7. t = u
    BY <2>5, <2>6
  <2> QED BY <2>4, <2>7
<1>4. s(0) = <<>>
  OBVIOUS
<1> HIDE DEF s
<1>5. Packages(ks, n + 1) = [type |-> "Array", child |-> s(n + 1)]
      /\ Packages(ks, n) = [type |-> "Array", child |-> s(n)]
      /\ Packages(ks, 0) = [type |-> "Array", child |-> s(0)]
  BY <1>1
<1> QED BY <1>2, <1>3, <1>4, <1>5 DEF EmptyArray

-----------------------------------------------------------------------------
(* The parses.                                                             *)

LEMMA ParsePublicSteps ==
  ASSUME ReplyInv, HeapInv', ParsePublic
  PROVE  (Counts /\ Filed /\ Complete)'
<1> DEFINE names == {"pubkey_root"}
<1>1. /\ at = "parsepublic" /\ at' = "public" /\ UNCHANGED <<i, list, array, keys, plains>>
      /\ Parse("pubkey_root", PublicText)
      /\ HeapInv /\ "pubkey_root" \in ParsedRoots /\ "pubkey_root" \in RootNames
  BY DEF ParsePublic, Leave, ReplyInv, ParsedRoots, RootNames
<1>2. roots["pubkey_root"] = NoRoot
  BY <1>1 DEF HeapInv, Idle, Live
<1>3. /\ RootsSameBut(names) /\ ListSame /\ ArraySame
      /\ \A s \in RootNames \ names : roots'[s] = roots[s]
      /\ failures' = 0 => failures = 0 /\ Tree("pubkey_root")' = Parser(PublicText).value
  BY <1>1, <1>2, ParseTrees, LibraryAssumption
<1>4. names \in SUBSET RootNames /\ "arrary_node" \notin names /\ "root" \notin names
  BY DEF RootNames
<1>5. Counts'
  BY <1>1 DEF ReplyInv, Counts, Before, Sealing, Filing, Replying
<1>6. Filed'
  <2> HIDE DEF names
  <2>1. ListFiled' /\ NodeFiled' /\ ArrayFiled' /\ RootFiled' /\ NoShardMisfiled'
    BY <1>1, <1>3, <1>4, StaysFiled
  <2> QED BY <2>1 DEF Filed
<1>7. Complete'
  <2> SUFFICES ASSUME failures' = 0
               PROVE  RootsComplete' /\ PackagesComplete' /\ PlainsComplete' /\ ListComplete' /\ ReplyIsComplete'
    BY DEF Complete
  <2>1. PackagesComplete' /\ PlainsComplete'
    BY <1>1, <1>3, StaysComplete
  <2>2. RootsComplete
    BY <1>3 DEF ReplyInv, Complete
  <2>3. Tree("root")' = Tree("root")
    BY <1>3 DEF RootsSameBut, RootNames
  <2>4. RootsComplete'
    BY <1>1, <1>3, <2>2, <2>3 DEF RootsComplete, Sealing, Filing
  <2>5. ListComplete' /\ ReplyIsComplete'
    BY <1>1, NotDoneNext DEF ListComplete, Replying
  <2> QED BY <2>1, <2>4, <2>5
<1> QED BY <1>5, <1>6, <1>7

LEMMA ParseMetaSteps ==
  ASSUME ReplyInv, HeapInv', ParseMeta
  PROVE  (Counts /\ Filed /\ Complete)'
<1> DEFINE names == {"key_meta_node"}
<1>1. /\ at = "parsemeta" /\ UNCHANGED <<i, array, keys, plains>>
      /\ HeapInv /\ "key_meta_node" \in ParsedRoots /\ "key_meta_node" \in RootNames
  BY DEF ParseMeta, ReplyInv, ParsedRoots, RootNames
<1>2. roots["key_meta_node"] = NoRoot
  BY <1>1 DEF HeapInv, Idle, Live
<1>3. CASE Fails(1) /\ Abandon
  <2>1. failures' # 0
    BY <1>1, <1>3 DEF HeapInv, HeapTypes, Cells, Fails
  <2> QED BY <1>1, <1>3, <2>1, AbandonSteps
<1>4. CASE Parse("key_meta_node", MetaText) /\ at' = "meta" /\ UNCHANGED list
  <2>1. /\ RootsSameBut(names) /\ ListSame /\ ArraySame
        /\ \A s \in RootNames \ names : roots'[s] = roots[s]
        /\ failures' = 0 => failures = 0 /\ Tree("key_meta_node")' = Parser(MetaText).value
    BY <1>1, <1>2, <1>4, ParseTrees, LibraryAssumption
  <2>2. names \in SUBSET RootNames /\ "arrary_node" \notin names /\ "root" \notin names
    BY DEF RootNames
  <2>3. Counts'
    BY <1>1, <1>4 DEF ReplyInv, Counts, Before, Sealing, Filing, Replying
  <2>4. Filed'
    <3> HIDE DEF names
    <3>1. ListFiled' /\ NodeFiled' /\ ArrayFiled' /\ RootFiled' /\ NoShardMisfiled'
      BY <1>1, <1>4, <2>1, <2>2, StaysFiled
    <3> QED BY <3>1 DEF Filed
  <2>5. Complete'
    <3> SUFFICES ASSUME failures' = 0
                 PROVE  RootsComplete' /\ PackagesComplete' /\ PlainsComplete' /\ ListComplete' /\ ReplyIsComplete'
      BY DEF Complete
    <3>1. PackagesComplete' /\ PlainsComplete'
      BY <1>1, <1>4, <2>1, StaysComplete
    <3>2. RootsComplete
      BY <2>1 DEF ReplyInv, Complete
    <3>3. Tree("root")' = Tree("root")
      BY <2>1 DEF RootsSameBut, RootNames
    <3>4. RootsComplete'
      BY <1>1, <1>4, <2>1, <3>2, <3>3 DEF RootsComplete, Sealing, Filing
    <3>5. ListComplete' /\ ReplyIsComplete'
      BY <1>4, NotDoneNext DEF ListComplete, Replying
    <3> QED BY <3>1, <3>4, <3>5
  <2> QED BY <2>3, <2>4, <2>5
<1> QED BY <1>3, <1>4 DEF ParseMeta, Leave

-----------------------------------------------------------------------------
(* The assignments to members.                                             *)

LEMMA AssignmentCases ==
  ASSUME at \in Assignments
  PROVE  LET s == AssignmentAt(at)
         IN  /\ at = "hash" => s = Statement("root", "pubkey_list_hash", Text(HashText), "parsepublic")
             /\ at = "public" => s = Statement("root", "rsa_public_key", TreeOf("pubkey_root"), "parsemeta")
             /\ at = "meta" => s = Statement("cipher_root", "key_meta", TreeOf("key_meta_node"), "index")
             /\ at = "index" => s = Statement("key_shard_node", "index", Number(i), "share")
             /\ at = "share" => s = Statement("key_shard_node", "private_key_shard", Text(ShareText(i)), "shard")
             /\ at = "shard" => s = Statement("cipher_root", "key_shard", TreeOf("key_shard_node"), "encrypt")
             /\ at = "pubkey" => s = Statement("arrary_node", "public_key", Text(keys[i]), "cipher")
             /\ at = "cipher" => s = Statement("arrary_node", "encrypt_key_info", Text(CipherText(i)), "push")
             /\ at = "packages" => s = Statement("root", "key_shard_pkg", NoItem, "array")
  BY DEF AssignmentAt

\* What one of them does to the trees: root, name, value, and what comes next.
Assigned(r, key, item, next) ==
  /\ at' = next /\ r \in RootNames \ ParsedRoots
  /\ UNCHANGED <<i, list, array, keys, plains>>
  /\ RootsSameBut({r}) /\ ListSame /\ ArraySame
  /\ \A s \in RootNames \ {r} : roots'[s] = roots[s]
  /\ roots'[r].write # Null =>
       \/ Tree(r)' = Base(r)
       \/ item # NoItem /\ Tree(r)' = AddItem(Base(r), Key[key], item)
  /\ failures' = 0 =>
       /\ failures = 0
       /\ Tree(r)' = IF item = NoItem THEN Base(r) ELSE AddItem(Base(r), Key[key], item)

LEMMA AssignMemberAssigned ==
  ASSUME HeapInv, AssignMember, NEW r, NEW key, NEW item, NEW next,
         AssignmentAt(at) = Statement(r, key, item, next)
  PROVE  Assigned(r, key, item, next)
<1> DEFINE s == AssignmentAt(at)
<1>1. at \in Assignments /\ UNCHANGED <<i, list, array, keys, plains>>
  BY DEF AssignMember
<1>2. s.root = r /\ s.key = key /\ s.item = item /\ s.next = next
  BY DEF Statement
<1>3. PICK copied : Assign(s.root, s.key, s.item, copied) /\ at' = s.next
  BY DEF AssignMember, Leave
<1>4. r \in RootNames \ ParsedRoots
  BY <1>1, <1>2, AssignmentRoots
<1> HIDE DEF s
<1>5. Assign(r, key, item, copied) /\ at' = next
  BY <1>2, <1>3
<1> QED BY <1>1, <1>4, <1>5, AssignTrees DEF Assigned

\* Of root, the hash and the public key may be assigned, and nothing.
LEMMA RootAssigned ==
  ASSUME ReplyInv, NEW key, NEW item, NEW next, Assigned("root", key, item, next),
         item = NoItem \/ key \in {"pubkey_list_hash", "rsa_public_key"}, next # "done"
  PROVE  Filed'
<1>1. {"root"} \in SUBSET RootNames /\ "arrary_node" \notin {"root"} /\ Filed
  BY DEF RootNames, ReplyInv
<1>2. ListFiled' /\ NodeFiled' /\ ArrayFiled' /\ NoShardMisfiled'
  BY <1>1, StaysFiled DEF Assigned
<1>3. ReplyFiled(Base("root"), Len(plains), keys)
  BY <1>1, NothingFiled DEF Filed, RootFiled, Base
<1>4. RootFiled'
  <2> SUFFICES ASSUME roots'["root"].write # Null PROVE ReplyFiled(Tree("root")', Len(plains), keys)
    BY DEF RootFiled, Assigned
  <2>1. PICK tree, new : tree = Base("root") /\ new = Tree("root")'
    OBVIOUS
  <2>2. \/ new = tree
        \/ /\ Key[key] \in {Key["pubkey_list_hash"], Key["rsa_public_key"]}
           /\ new = AddItem(tree, Key[key], item)
    BY <2>1 DEF Assigned
  <2>3. ReplyFiled(tree, Len(plains), keys)
    BY <1>3, <2>1
  <2>4. ReplyFiled(new, Len(plains), keys)
    BY <2>2, <2>3, ReplyFiledAdd
  <2> QED BY <2>1, <2>4
<1> QED BY <1>2, <1>4 DEF Filed

\* Of a package, the key and the cipher of its number.
LEMMA NodeAssigned ==
  ASSUME ReplyInv, NEW key, NEW item, NEW next, Assigned("arrary_node", key, item, next),
         \/ key = "public_key" /\ item = Text(keys[i])
         \/ key = "encrypt_key_info" /\ item = Text(CipherText(i)),
         next # "done"
  PROVE  Filed'
<1>1. {"arrary_node"} \in SUBSET RootNames /\ "root" \notin {"arrary_node"} /\ Filed
  BY DEF RootNames, ReplyInv
<1>2. ListFiled' /\ RootFiled' /\ ArrayFiled' /\ NoShardMisfiled'
  BY <1>1, StaysFiled DEF Assigned
<1>3. FiledFor(Base("arrary_node"), i, keys)
  BY <1>1, NothingFiled DEF Filed, NodeFiled, Base
<1>4. NodeFiled'
  <2> SUFFICES ASSUME roots'["arrary_node"].write # Null PROVE FiledFor(Tree("arrary_node")', i, keys)
    BY DEF NodeFiled, Assigned
  <2>1. PICK tree, new : tree = Base("arrary_node") /\ new = Tree("arrary_node")'
    OBVIOUS
  <2>2. \/ new = tree
        \/ new = AddItem(tree, Key["public_key"], Text(keys[i]))
        \/ new = AddItem(tree, Key["encrypt_key_info"], Text(CipherText(i)))
    BY <2>1 DEF Assigned
  <2>3. FiledFor(tree, i, keys)
    BY <1>3, <2>1
  <2>4. FiledFor(new, i, keys)
    BY <2>2, <2>3, FiledForAdd
  <2> QED BY <2>1, <2>4
<1> QED BY <1>2, <1>4 DEF Filed

LEMMA OtherAssigned ==
  ASSUME ReplyInv, NEW r, r \notin {"root", "arrary_node"}, NEW key, NEW item, NEW next,
         Assigned(r, key, item, next), next # "done"
  PROVE  Filed'
<1>1. {r} \in SUBSET RootNames /\ "root" \notin {r} /\ "arrary_node" \notin {r}
  BY DEF Assigned
<1>2. ListFiled' /\ NodeFiled' /\ RootFiled' /\ ArrayFiled' /\ NoShardMisfiled'
  BY <1>1, StaysFiled DEF Assigned
<1> QED BY <1>2 DEF Filed

\* Without a failing allocation, which trees there are afterwards.
LEMMA CompleteAssigned ==
  ASSUME ReplyInv, NEW r, NEW key, NEW item, NEW next, Assigned(r, key, item, next),
         next \notin {"done", "copy", "write", "packages"},
         next = "array" => Len(list) = Len(keys) \/ failures # 0,
         failures' = 0 => RootsComplete'
  PROVE  Complete'
<1> SUFFICES ASSUME failures' = 0
             PROVE  PackagesComplete' /\ PlainsComplete' /\ ListComplete' /\ ReplyIsComplete'
  BY DEF Complete
<1>1. PackagesComplete' /\ PlainsComplete'
  BY StaysComplete DEF Assigned
<1>2. ListComplete' /\ ReplyIsComplete'
  BY NotDoneNext DEF ListComplete, Replying, Assigned
<1> QED BY <1>1, <1>2

LEMMA RootStatements ==
  ASSUME ReplyInv, AssignMember, at \in {"hash", "public", "packages"}
  PROVE  (Filed /\ Complete)'
<1>1. HeapInv /\ at \in Assignments /\ "root" \in RootNames \ ParsedRoots /\ "pubkey_root" \in RootNames
  BY DEF ReplyInv, Assignments, RootNames, ParsedRoots
<1>2. TreeOf("pubkey_root") = Tree("pubkey_root")
  BY <1>1, OneTree DEF HeapInv
<1>3. failures = 0 => RootsComplete /\ (at = "packages" => Len(list) = Len(keys))
  BY DEF ReplyInv, Complete, ListComplete, Replying
<1>4. CASE at = "hash"
  <2>1. Assigned("root", "pubkey_list_hash", Text(HashText), "parsepublic")
    BY <1>1, <1>4, AssignmentCases, AssignMemberAssigned
  <2>2. Base("root") = EmptyObject
    BY <1>4 DEF ReplyInv, HeapInv, Idle, Live, RootNames, NoRoot, Base
  <2>3. Text(HashText) # NoItem
    BY DEF Text, NoItem
  <2>4. failures' = 0 => Tree("root")' = ObjectOf(<<HashMember>>)
    BY <2>1, <2>2, <2>3, ObjectAdd DEF Assigned, HashMember
  <2>5. failures' = 0 => RootsComplete'
    BY <2>1, <2>4 DEF Assigned, RootsComplete, Sealing, Filing
  <2>6. Filed'
    BY <2>1, RootAssigned
  <2>7. Complete'
    BY <2>1, <2>5, CompleteAssigned
  <2> QED BY <2>6, <2>7
<1>5. CASE at = "public"
  <2>1. PICK item : item = TreeOf("pubkey_root")
    OBVIOUS
  <2>2. Assigned("root", "rsa_public_key", item, "parsemeta")
    BY <1>1, <1>5, <2>1, AssignmentCases, AssignMemberAssigned
  <2>3. failures' = 0 => failures = 0 /\ Tree("root")' = ObjectOf(<<HashMember, PublicMember>>)
    <3> SUFFICES ASSUME failures' = 0 PROVE failures = 0 /\ Tree("root")' = ObjectOf(<<HashMember, PublicMember>>)
      OBVIOUS
    <3>1. failures = 0
      BY <2>2 DEF Assigned
    <3>2. Tree("root") = ObjectOf(<<HashMember>>) /\ item = Parser(PublicText).value
      BY <1>2, <1>3, <1>5, <2>1, <3>1 DEF RootsComplete
    <3>3. Base("root") = ObjectOf(<<HashMember>>)
      BY <1>1, <3>2, BaseIsTree, ObjectThere
    <3>4. item # NoItem
      BY <3>2, LibraryAssumption
    <3>5. Tree("root")' = AddItem(ObjectOf(<<HashMember>>), Key["rsa_public_key"], item)
      BY <2>2, <3>3, <3>4 DEF Assigned
    <3>6. PublicMember = Member("rsa_public_key", item)
      BY <3>2 DEF PublicMember
    <3> QED BY <3>1, <3>5, <3>6, ObjectAdd
  <2>4. failures' = 0 => RootsComplete'
    BY <2>2, <2>3 DEF Assigned, RootsComplete, Sealing, Filing
  <2>5. Filed'
    BY <2>2, RootAssigned
  <2>6. Complete'
    BY <2>2, <2>4, CompleteAssigned
  <2> QED BY <2>5, <2>6
<1>6. CASE at = "packages"
  <2>1. Assigned("root", "key_shard_pkg", NoItem, "array")
    BY <1>1, <1>6, AssignmentCases, AssignMemberAssigned
  <2>2. failures' = 0 => Tree("root")' = ObjectOf(<<HashMember, PublicMember>>)
    <3> SUFFICES ASSUME failures' = 0 PROVE Tree("root")' = ObjectOf(<<HashMember, PublicMember>>)
      OBVIOUS
    <3>1. failures = 0 /\ Tree("root")' = Base("root")
      BY <2>1 DEF Assigned
    <3>2. Tree("root") = ObjectOf(<<HashMember, PublicMember>>)
      BY <1>3, <1>6, <3>1 DEF RootsComplete
    <3> QED BY <1>1, <3>1, <3>2, BaseIsTree, ObjectThere
  <2>3. failures' = 0 => RootsComplete'
    BY <2>1, <2>2 DEF Assigned, RootsComplete, Sealing, Filing
  <2>4. Filed'
    BY <2>1, RootAssigned
  <2>5. Complete'
    BY <1>3, <1>6, <2>1, <2>3, CompleteAssigned
  <2> QED BY <2>4, <2>5
<1> QED BY <1>4, <1>5, <1>6

LEMMA NodeStatements ==
  ASSUME ReplyInv, AssignMember, at \in {"pubkey", "cipher"}
  PROVE  (Filed /\ Complete)'
<1>1. HeapInv /\ at \in Assignments /\ "arrary_node" \in RootNames \ ParsedRoots /\ "root" \in RootNames
  BY DEF ReplyInv, Assignments, RootNames, ParsedRoots
<1>2. failures = 0 => RootsComplete
  BY DEF ReplyInv, Complete
<1>3. CASE at = "pubkey"
  <2>1. Assigned("arrary_node", "public_key", Text(keys[i]), "cipher")
    BY <1>1, <1>3, AssignmentCases, AssignMemberAssigned
  <2>2. Base("arrary_node") = EmptyObject
    BY <1>3 DEF ReplyInv, HeapInv, Idle, Live, RootNames, NoRoot, Base
  <2>3. Text(keys[i]) # NoItem
    BY DEF Text, NoItem
  <2>4. failures' = 0 => failures = 0 /\ Tree("arrary_node")' = ObjectOf(<<Member("public_key", Text(keys[i]))>>)
    BY <2>1, <2>2, <2>3, ObjectAdd DEF Assigned
  <2>5. Tree("root")' = Tree("root")
    BY <1>1, <2>1 DEF Assigned, RootsSameBut
  <2>6. failures' = 0 => RootsComplete'
    BY <1>2, <1>3, <2>1, <2>4, <2>5 DEF Assigned, RootsComplete, Sealing, Filing
  <2>7. Filed'
    BY <2>1, NodeAssigned
  <2>8. Complete'
    BY <2>1, <2>6, CompleteAssigned
  <2> QED BY <2>7, <2>8
<1>4. CASE at = "cipher"
  <2>1. Assigned("arrary_node", "encrypt_key_info", Text(CipherText(i)), "push")
    BY <1>1, <1>4, AssignmentCases, AssignMemberAssigned
  <2>2. failures' = 0 => failures = 0 /\ Tree("arrary_node")' = Package(keys, i)
    <3> SUFFICES ASSUME failures' = 0 PROVE failures = 0 /\ Tree("arrary_node")' = Package(keys, i)
      OBVIOUS
    <3>1. failures = 0
      BY <2>1 DEF Assigned
    <3>2. Tree("arrary_node") = ObjectOf(<<Member("public_key", Text(keys[i]))>>)
      BY <1>2, <1>4, <3>1 DEF RootsComplete
    <3>3. Base("arrary_node") = ObjectOf(<<Member("public_key", Text(keys[i]))>>)
      BY <1>1, <3>2, BaseIsTree, ObjectThere
    <3>4. Text(CipherText(i)) # NoItem
      BY DEF Text, NoItem
    <3> QED BY <2>1, <3>1, <3>3, <3>4, ObjectAdd DEF Assigned, Package
  <2>3. Tree("root")' = Tree("root")
    BY <1>1, <2>1 DEF Assigned, RootsSameBut
  <2>4. failures' = 0 => RootsComplete'
    BY <1>2, <1>4, <2>1, <2>2, <2>3 DEF Assigned, RootsComplete, Sealing, Filing
  <2>5. Filed'
    BY <2>1, NodeAssigned
  <2>6. Complete'
    BY <2>1, <2>4, CompleteAssigned
  <2> QED BY <2>5, <2>6
<1> QED BY <1>3, <1>4

LEMMA PlainStatements ==
  ASSUME ReplyInv, AssignMember, at \in {"meta", "index", "share", "shard"}
  PROVE  (Filed /\ Complete)'
<1>1. /\ HeapInv /\ at \in Assignments /\ {"cipher_root", "key_shard_node"} \subseteq RootNames \ ParsedRoots
      /\ {"key_meta_node", "root"} \subseteq RootNames
  BY DEF ReplyInv, Assignments, RootNames, ParsedRoots
<1>2. failures = 0 => RootsComplete
  BY DEF ReplyInv, Complete
<1>3. TreeOf("key_meta_node") = Tree("key_meta_node") /\ TreeOf("key_shard_node") = Tree("key_shard_node")
  BY <1>1, OneTree DEF HeapInv
<1>4. CASE at = "meta"
  <2>1. PICK item : item = TreeOf("key_meta_node")
    OBVIOUS
  <2>2. Assigned("cipher_root", "key_meta", item, "index")
    BY <1>1, <1>4, <2>1, AssignmentCases, AssignMemberAssigned
  <2>3. Base("cipher_root") = EmptyObject
    BY <1>4 DEF ReplyInv, HeapInv, Idle, Live, RootNames, NoRoot, Base
  <2>4. failures' = 0 => failures = 0 /\ Tree("cipher_root")' = ObjectOf(<<MetaMember>>)
    <3> SUFFICES ASSUME failures' = 0 PROVE failures = 0 /\ Tree("cipher_root")' = ObjectOf(<<MetaMember>>)
      OBVIOUS
    <3>1. failures = 0
      BY <2>2 DEF Assigned
    <3>2. item = Parser(MetaText).value /\ item # NoItem
      BY <1>2, <1>3, <1>4, <2>1, <3>1, LibraryAssumption DEF RootsComplete
    <3>3. Tree("cipher_root")' = AddItem(EmptyObject, Key["key_meta"], item)
      BY <2>2, <2>3, <3>2 DEF Assigned
    <3>4. MetaMember = Member("key_meta", item)
      BY <3>2 DEF MetaMember
    <3> QED BY <3>1, <3>3, <3>4, ObjectAdd
  <2>5. Tree("root")' = Tree("root")
    BY <1>1, <2>2 DEF Assigned, RootsSameBut
  <2>6. failures' = 0 => RootsComplete'
    BY <1>2, <1>4, <2>2, <2>4, <2>5 DEF Assigned, RootsComplete, Sealing, Filing
  <2>7. Filed'
    BY <2>2, OtherAssigned
  <2>8. Complete'
    BY <2>2, <2>6, CompleteAssigned
  <2> QED BY <2>7, <2>8
<1>5. CASE at = "index"
  <2>1. Assigned("key_shard_node", "index", Number(i), "share")
    BY <1>1, <1>5, AssignmentCases, AssignMemberAssigned
  <2>2. Base("key_shard_node") = EmptyObject
    BY <1>5 DEF ReplyInv, HeapInv, Idle, Live, RootNames, NoRoot, Base
  <2>3. Number(i) # NoItem
    BY DEF Number, NoItem
  <2>4. failures' = 0 => failures = 0 /\ Tree("key_shard_node")' = ObjectOf(<<Member("index", Number(i))>>)
    BY <2>1, <2>2, <2>3, ObjectAdd DEF Assigned
  <2>5. Tree("root")' = Tree("root") /\ Tree("cipher_root")' = Tree("cipher_root")
    BY <1>1, <2>1 DEF Assigned, RootsSameBut
  <2>6. failures' = 0 => RootsComplete'
    BY <1>2, <1>5, <2>1, <2>4, <2>5 DEF Assigned, RootsComplete, Sealing, Filing
  <2>7. Filed'
    BY <2>1, OtherAssigned
  <2>8. Complete'
    BY <2>1, <2>6, CompleteAssigned
  <2> QED BY <2>7, <2>8
<1>6. CASE at = "share"
  <2>1. Assigned("key_shard_node", "private_key_shard", Text(ShareText(i)), "shard")
    BY <1>1, <1>6, AssignmentCases, AssignMemberAssigned
  <2>2. failures' = 0 => failures = 0 /\ Tree("key_shard_node")' = ShardTree(i)
    <3> SUFFICES ASSUME failures' = 0 PROVE failures = 0 /\ Tree("key_shard_node")' = ShardTree(i)
      OBVIOUS
    <3>1. failures = 0
      BY <2>1 DEF Assigned
    <3>2. Tree("key_shard_node") = ObjectOf(<<Member("index", Number(i))>>)
      BY <1>2, <1>6, <3>1 DEF RootsComplete
    <3>3. Base("key_shard_node") = ObjectOf(<<Member("index", Number(i))>>)
      BY <1>1, <3>2, BaseIsTree, ObjectThere
    <3>4. Text(ShareText(i)) # NoItem
      BY DEF Text, NoItem
    <3> QED BY <2>1, <3>1, <3>3, <3>4, ObjectAdd DEF Assigned, ShardTree
  <2>3. Tree("root")' = Tree("root") /\ Tree("cipher_root")' = Tree("cipher_root")
    BY <1>1, <2>1 DEF Assigned, RootsSameBut
  <2>4. failures' = 0 => RootsComplete'
    BY <1>2, <1>6, <2>1, <2>2, <2>3 DEF Assigned, RootsComplete, Sealing, Filing
  <2>5. Filed'
    BY <2>1, OtherAssigned
  <2>6. Complete'
    BY <2>1, <2>4, CompleteAssigned
  <2> QED BY <2>5, <2>6
<1>7. CASE at = "shard"
  <2>1. PICK item : item = TreeOf("key_shard_node")
    OBVIOUS
  <2>2. Assigned("cipher_root", "key_shard", item, "encrypt")
    BY <1>1, <1>7, <2>1, AssignmentCases, AssignMemberAssigned
  <2>3. failures' = 0 => failures = 0 /\ Tree("cipher_root")' = PlainTree(i)
    <3> SUFFICES ASSUME failures' = 0 PROVE failures = 0 /\ Tree("cipher_root")' = PlainTree(i)
      OBVIOUS
    <3>1. failures = 0
      BY <2>2 DEF Assigned
    <3>2. Tree("cipher_root") = ObjectOf(<<MetaMember>>) /\ item = ShardTree(i)
      BY <1>2, <1>3, <1>7, <2>1, <3>1 DEF RootsComplete
    <3>3. Base("cipher_root") = ObjectOf(<<MetaMember>>)
      BY <1>1, <3>2, BaseIsTree, ObjectThere
    <3>4. item # NoItem
      BY <3>2, ObjectThere DEF ShardTree
    <3>5. Tree("cipher_root")' = AddItem(ObjectOf(<<MetaMember>>), Key["key_shard"], item)
      BY <2>2, <3>3, <3>4 DEF Assigned
    <3> QED BY <3>1, <3>2, <3>5, ObjectAdd DEF PlainTree
  <2>4. Tree("root")' = Tree("root")
    BY <1>1, <2>2 DEF Assigned, RootsSameBut
  <2>5. failures' = 0 => RootsComplete'
    BY <1>2, <1>7, <2>2, <2>3, <2>4 DEF Assigned, RootsComplete, Sealing, Filing
  <2>6. Filed'
    BY <2>2, OtherAssigned
  <2>7. Complete'
    BY <2>2, <2>5, CompleteAssigned
  <2> QED BY <2>6, <2>7
<1> QED BY <1>4, <1>5, <1>6, <1>7

LEMMA AssignMemberSteps ==
  ASSUME ReplyInv, HeapInv', AssignMember
  PROVE  (Counts /\ Filed /\ Complete)'
<1>1. at \in Assignments /\ at' = AssignmentAt(at).next /\ UNCHANGED <<i, list, keys, plains>>
  BY DEF AssignMember, Leave
<1>2. /\ at = "hash" => at' = "parsepublic"
      /\ at = "public" => at' = "parsemeta"
      /\ at \in {"meta", "index", "share", "shard"} => at' \in {"index", "share", "shard", "encrypt"}
      /\ at \in {"pubkey", "cipher"} => at' \in {"cipher", "push"}
      /\ at = "packages" => at' = "array"
  BY <1>1, AssignmentCases DEF Statement
<1>3. Counts'
  <2>1. Counts
    BY DEF ReplyInv
  <2> QED BY <1>1, <1>2, <2>1 DEF Counts, Assignments, Before, Sealing, Filing, Replying
<1>4. (Filed /\ Complete)'
  BY <1>1, RootStatements, NodeStatements, PlainStatements DEF Assignments
<1> QED BY <1>3, <1>4

-----------------------------------------------------------------------------
(* The loop over the shares.                                               *)

LEMMA EncryptSteps ==
  ASSUME ReplyInv, HeapInv', Encrypt
  PROVE  (Counts /\ Filed /\ Complete)'
<1> DEFINE names == {"cipher_root", "key_meta_node", "key_shard_node"}
<1>1. /\ at = "encrypt" /\ UNCHANGED <<i, array, keys>> /\ HeapInv /\ Counts /\ Cells
      /\ failures' = 0 => failures = 0
      /\ "cipher_root" \in RootNames \ ParsedRoots /\ "root" \in RootNames
  <2>1. Cells
    BY HeapInvKept DEF ReplyInv
  <2> QED BY <2>1 DEF Encrypt, ReplyInv, Fails, Cells, RootNames, ParsedRoots
<1>2. CASE Abandon /\ UNCHANGED <<plains, failures>>
  BY <1>1, <1>2, AbandonSteps
<1>3. ASSUME NEW text, plains' = Append(plains, [key |-> keys[i], text |-> text]),
             failures' = 0 => text = Written("cipher_root"),
             Destroy(names), at' = "pubkey", UNCHANGED list
      PROVE  (Counts /\ Filed /\ Complete)'
  <2> DEFINE e == [key |-> keys[i], text |-> text]
  <2>1. IsList(plains) /\ Len(plains) \in Nat /\ Len(plains) = Len(list) /\ i = Len(list) + 1
    BY <1>1 DEF Counts, IsList, Sealing
  <2>2. /\ IsList(plains') /\ Len(plains') = Len(plains) + 1 /\ plains'[Len(plains) + 1] = e
        /\ \A n \in 1..Len(plains) : plains'[n] = plains[n]
    <3> HIDE DEF e
    <3> QED BY <1>3, <2>1, AppendList DEF e
  <2>3. \A n \in 1..Len(plains') : n \in 1..Len(plains) \/ n = Len(plains) + 1
    BY <2>1, <2>2
  <2>4. Counts'
    <3>1. \A n \in 1..Len(plains') : plains'[n].key = keys[n]
      BY <1>1, <2>1, <2>2, <2>3 DEF Counts
    <3> QED BY <1>1, <1>3, <2>1, <2>2, <3>1 DEF Counts, Before, Sealing, Filing, Replying
  <2>5. names \in SUBSET RootNames /\ "root" \notin names /\ "arrary_node" \notin names
    BY DEF RootNames
  <2>6. /\ RootsSameBut(names) /\ ListSame /\ ArraySame
        /\ \A s \in RootNames \ names : roots'[s] = roots[s]
    <3> HIDE DEF names
    <3> QED BY <1>1, <1>3, <2>5, DestroyTrees
  <2>7. Filed'
    <3> HIDE DEF names
    <3>1. ListFiled' /\ NodeFiled' /\ ArrayFiled' /\ RootFiled' /\ NoShardMisfiled'
      BY <1>1, <1>3, <2>2, <2>5, <2>6, StaysFiled
    <3> QED BY <3>1 DEF Filed
  <2>8. Complete'
    <3> SUFFICES ASSUME failures' = 0
                 PROVE  RootsComplete' /\ PackagesComplete' /\ PlainsComplete' /\ ListComplete' /\ ReplyIsComplete'
      BY DEF Complete
    <3>1. RootsComplete /\ PlainsComplete
      BY <1>1 DEF ReplyInv, Complete
    <3>2. PackagesComplete'
      BY <1>1, <1>3, <2>6, StaysComplete
    <3>3. text = Printer(PlainTree(i))
      <4>1. Tree("cipher_root") = PlainTree(i)
        BY <1>1, <3>1 DEF RootsComplete
      <4>2. roots["cipher_root"].write # Null
        BY <1>1, <4>1, BaseIsTree, ObjectThere DEF PlainTree
      <4>3. heap[roots["cipher_root"].write] = PlainTree(i)
        BY <1>1, <4>1, <4>2 DEF Tree, Held1
      <4> QED BY <1>3, <4>2, <4>3 DEF Written
    <3>4. PlainsComplete'
      <4>1. \A n \in 1..Len(plains') : plains'[n] = [key |-> keys[n], text |-> Printer(PlainTree(n))]
        BY <2>1, <2>2, <2>3, <3>1, <3>3 DEF PlainsComplete
      <4> QED BY <1>1, <4>1 DEF PlainsComplete
    <3>5. Tree("root")' = Tree("root")
      BY <1>1, <2>6 DEF RootsSameBut
    <3>6. RootsComplete'
      BY <1>1, <1>3, <3>1, <3>5 DEF RootsComplete, Sealing, Filing
    <3>7. ListComplete' /\ ReplyIsComplete'
      BY <1>3, NotDoneNext DEF ListComplete, Replying
    <3> QED BY <3>2, <3>4, <3>6, <3>7
  <2> QED BY <2>4, <2>7, <2>8
<1>4. CASE plains' = Append(plains, [key |-> keys[i], text |-> Written("cipher_root")])
           /\ Destroy(names) /\ at' = "pubkey" /\ UNCHANGED list
  BY <1>3, <1>4
<1>5. CASE plains' = Append(plains, [key |-> keys[i], text |-> <<>>]) /\ Fails(1)
           /\ Destroy(names) /\ at' = "pubkey" /\ UNCHANGED list
  <2>1. failures' # 0
    BY <1>1, <1>5 DEF Fails, Cells
  <2> QED BY <1>3, <1>5, <2>1
<1> QED BY <1>2, <1>4, <1>5 DEF Encrypt, Leave

LEMMA PushPackageSteps ==
  ASSUME ReplyInv, HeapInv', PushPackage
  PROVE  (Counts /\ Filed /\ Complete)'
<1>1. /\ at = "push" /\ at' = (IF i = Len(keys) THEN "packages" ELSE "parsemeta")
      /\ i' = i + 1 /\ UNCHANGED <<array, keys, plains>> /\ HeapInv /\ Counts /\ Filed
      /\ "arrary_node" \in RootNames \ ParsedRoots /\ "root" \in RootNames
  BY DEF PushPackage, Leave, ReplyInv, RootNames, ParsedRoots
<1>2. roots'["arrary_node"].write = Null
  BY <1>1 DEF HeapInv, Idle, Live, NoRoot
<1>3. /\ RootsSameBut({"arrary_node"}) /\ ListSame /\ ArraySame
      /\ \A s \in RootNames \ {"arrary_node"} : roots'[s] = roots[s]
      /\ Len(list') = Len(list) + 1 /\ Len(list) \in Nat
      /\ \A n : n = Len(list) + 1 /\ list'[n] # Null =>
           /\ roots["arrary_node"].write # Null
           /\ ListTree(n)' = Tree("arrary_node")
      /\ failures' = 0 /\ roots["arrary_node"].write # Null =>
           failures = 0 /\ list'[Len(list) + 1] # Null
  BY <1>1, PushTrees
<1>4. Len(plains) = i /\ i = Len(list) + 1
  BY <1>1 DEF Counts, Filing
<1>5. \A n \in 1..Len(list') : n \in 1..Len(list) \/ n = Len(list) + 1
  BY <1>3
<1>6. Counts'
  BY <1>1, <1>3, <1>4 DEF Counts, Before, Sealing, Filing, Replying
<1>7. Tree("root")' = Tree("root") /\ roots'["root"] = roots["root"]
  BY <1>1, <1>3 DEF RootsSameBut
<1>8. Filed'
  <2>1. ListFiled'
    <3> SUFFICES ASSUME NEW n \in 1..Len(list'), list'[n] # Null PROVE FiledFor(ListTree(n)', n, keys)
      BY <1>1 DEF ListFiled
    <3>1. CASE n \in 1..Len(list)
      BY <1>1, <1>3, <3>1 DEF Filed, ListFiled, ListSame
    <3>2. CASE n = Len(list) + 1
      <4>1. roots["arrary_node"].write # Null /\ ListTree(n)' = Tree("arrary_node") /\ n = i
        BY <1>3, <1>4, <3>2
      <4>2. FiledFor(Tree("arrary_node"), i, keys)
        BY <1>1, <4>1 DEF Filed, NodeFiled
      <4> QED BY <4>1, <4>2
    <3> QED BY <1>5, <3>1, <3>2
  <2>2. NodeFiled'
    BY <1>2 DEF NodeFiled
  <2>3. ArrayFiled' /\ RootFiled'
    BY <1>1, <1>3, <1>7 DEF Filed, ArrayFiled, RootFiled, ArraySame
  <2>4. NoShardMisfiled'
    BY <1>1, NotDoneNext
  <2> QED BY <2>1, <2>2, <2>3, <2>4 DEF Filed
<1>9. Complete'
  <2> SUFFICES ASSUME failures' = 0
               PROVE  RootsComplete' /\ PackagesComplete' /\ PlainsComplete' /\ ListComplete' /\ ReplyIsComplete'
    BY DEF Complete
  <2>1. failures = 0
    BY <1>1, HeapInvKept DEF PushPackage, Fails, Cells
  <2>2. RootsComplete /\ PackagesComplete /\ PlainsComplete
    BY <2>1 DEF ReplyInv, Complete
  <2>3. Tree("arrary_node") = Package(keys, i)
    BY <1>1, <2>2 DEF RootsComplete
  <2>4. roots["arrary_node"].write # Null
    BY <1>1, <2>3, BaseIsTree, ObjectThere DEF Package
  <2>5. PackagesComplete'
    <3> SUFFICES ASSUME NEW n \in 1..Len(list') PROVE list'[n] # Null /\ ListTree(n)' = Package(keys, n)
      BY <1>1 DEF PackagesComplete
    <3>1. CASE n \in 1..Len(list)
      BY <1>3, <2>2, <3>1 DEF PackagesComplete, ListSame
    <3>2. CASE n = Len(list) + 1
      <4>1. list'[n] # Null /\ n = i
        BY <1>3, <1>4, <2>4, <3>2
      <4>2. ListTree(n)' = Tree("arrary_node")
        BY <1>3, <3>2, <4>1
      <4> QED BY <2>3, <4>1, <4>2
    <3> QED BY <1>5, <3>1, <3>2
  <2>6. PlainsComplete'
    BY <1>1, <2>2 DEF PlainsComplete
  <2>7. RootsComplete'
    BY <1>1, <1>7, <2>2 DEF RootsComplete, Sealing, Filing
  <2>8. ListComplete' /\ ReplyIsComplete'
    BY <1>1, <1>3, <1>4, NotDoneNext DEF ListComplete, Replying
  <2> QED BY <2>5, <2>6, <2>7, <2>8
<1> QED BY <1>6, <1>8, <1>9

-----------------------------------------------------------------------------
(* The array and the reply.                                                *)

LEMMA CreateArraySteps ==
  ASSUME ReplyInv, HeapInv', CreateArray
  PROVE  (Counts /\ Filed /\ Complete)'
<1>1. /\ at = "array" /\ at' = "copy" /\ i' = 1 /\ UNCHANGED <<keys, plains>> /\ HeapInv /\ Counts
      /\ "root" \in RootNames /\ {} \in SUBSET RootNames
  BY DEF CreateArray, Leave, ReplyInv, RootNames
<1>2. /\ RootsSameBut({}) /\ ListSame /\ UNCHANGED <<roots, list>>
      /\ array' # Null => ArrayTree' = EmptyArray
      /\ failures' = 0 => failures = 0 /\ array' # Null
  BY <1>1, CreateArrayTrees
<1>3. Counts'
  BY <1>1, <1>2 DEF Counts, Before, Sealing, Filing, Replying
<1>4. Filed'
  <2>1. ListFiled' /\ RootFiled' /\ NoShardMisfiled'
    BY <1>1, <1>2, StaysFiled
  <2>2. roots["arrary_node"].write = Null
    BY <1>1 DEF HeapInv, Idle, Live, RootNames, NoRoot
  <2>3. NodeFiled'
    BY <1>2, <2>2 DEF NodeFiled
  <2>4. ArrayFiled'
    BY <1>2, NothingFiled DEF ArrayFiled
  <2> QED BY <2>1, <2>3, <2>4 DEF Filed
<1>5. Complete'
  <2> SUFFICES ASSUME failures' = 0
               PROVE  RootsComplete' /\ PackagesComplete' /\ PlainsComplete' /\ ListComplete' /\ ReplyIsComplete'
    BY DEF Complete
  <2>1. RootsComplete /\ Len(list) = Len(keys)
    BY <1>1, <1>2 DEF ReplyInv, Complete, ListComplete, Replying
  <2>2. PackagesComplete' /\ PlainsComplete'
    BY <1>1, <1>2, StaysComplete
  <2>3. Tree("root")' = Tree("root")
    BY <1>1, <1>2 DEF RootsSameBut
  <2>4. RootsComplete'
    BY <1>1, <2>1, <2>3 DEF RootsComplete, Sealing, Filing
  <2>5. ArrayTree' = Packages(keys, 0)
    BY <1>2, PackagesAdd
  <2>6. ListComplete'
    <3>1. i' \in 1..Len(list) + 1 /\ i' - 1 = 0
      BY <1>1, HeapInvKept DEF Cells
    <3> QED BY <1>1, <1>2, <2>1, <2>5, <3>1 DEF ListComplete
  <2>7. ReplyIsComplete'
    BY <1>1, NotDoneNext
  <2> QED BY <2>2, <2>4, <2>6, <2>7
<1> QED BY <1>3, <1>4, <1>5

LEMMA CopyPackageSteps ==
  ASSUME ReplyInv, HeapInv', CopyPackage
  PROVE  (Counts /\ Filed /\ Complete)'
<1>1. /\ at = "copy" /\ at' = "copy" /\ i' = i + 1 /\ UNCHANGED <<keys, plains>> /\ HeapInv /\ Counts /\ Filed
      /\ "root" \in RootNames /\ {} \in SUBSET RootNames
  BY DEF CopyPackage, ReplyInv, RootNames
<1>2. /\ RootsSameBut({}) /\ ListSame /\ UNCHANGED <<roots, list, array>>
      /\ \/ ArrayTree' = ArrayTree
         \/ list[i] # Null /\ array # Null /\ ArrayTree' = AddItem(ArrayTree, <<>>, ListTree(i))
      /\ failures' = 0 /\ list[i] # Null /\ array # Null =>
           failures = 0 /\ ArrayTree' = AddItem(ArrayTree, <<>>, ListTree(i))
  BY <1>1, CopyPackageTrees
<1>3. Len(plains) = Len(list) /\ Len(list) \in Nat /\ i \in 1..Len(list)
  BY <1>1, HeapInvKept DEF CopyPackage, Counts, Replying, HeapInv, HeapTypes, Cells
<1>4. Counts'
  BY <1>1, <1>2 DEF Counts, Before, Sealing, Filing, Replying
<1>5. Filed'
  <2>1. ListFiled' /\ RootFiled' /\ NoShardMisfiled'
    BY <1>1, <1>2, StaysFiled
  <2>2. roots["arrary_node"].write = Null
    BY <1>1 DEF HeapInv, Idle, Live, RootNames, NoRoot
  <2>3. NodeFiled'
    BY <1>2, <2>2 DEF NodeFiled
  <2>4. ArrayFiled'
    <3> SUFFICES ASSUME array # Null PROVE AllFiled(ArrayTree', Len(plains), keys)
      BY <1>1, <1>2 DEF ArrayFiled
    <3>1. AllFiled(ArrayTree, Len(plains), keys)
      BY <1>1 DEF Filed, ArrayFiled
    <3>2. CASE ArrayTree' = ArrayTree
      BY <3>1, <3>2
    <3>3. CASE list[i] # Null /\ ArrayTree' = AddItem(ArrayTree, <<>>, ListTree(i))
      <4>1. FiledFor(ListTree(i), i, keys) /\ i \in 1..Len(plains)
        BY <1>1, <1>3, <3>3 DEF Filed, ListFiled
      <4>2. PICK m, tree, new, value :
              m = Len(plains) /\ tree = ArrayTree /\ new = ArrayTree' /\ value = ListTree(i)
        OBVIOUS
      <4>3. AllFiled(tree, m, keys) /\ FiledFor(value, i, keys) /\ i \in 1..m /\ new = AddItem(tree, <<>>, value)
        BY <3>1, <3>3, <4>1, <4>2
      <4>4. AllFiled(new, m, keys)
        BY <4>3, AllFiledAdd
      <4> QED BY <4>2, <4>4
    <3> QED BY <1>2, <3>2, <3>3
  <2> QED BY <2>1, <2>3, <2>4 DEF Filed
<1>6. Complete'
  <2> SUFFICES ASSUME failures' = 0
               PROVE  RootsComplete' /\ PackagesComplete' /\ PlainsComplete' /\ ListComplete' /\ ReplyIsComplete'
    BY DEF Complete
  <2>1. failures = 0
    BY <1>1, HeapInvKept DEF CopyPackage, Fails, Cells
  <2>2. RootsComplete /\ PackagesComplete /\ ListComplete /\ array # Null
    BY <1>1, <2>1 DEF ReplyInv, Complete, HeapInv, Made
  <2>3. PackagesComplete' /\ PlainsComplete'
    BY <1>1, <1>2, <2>1, StaysComplete
  <2>4. Tree("root")' = Tree("root")
    BY <1>1, <1>2 DEF RootsSameBut
  <2>5. RootsComplete'
    BY <1>1, <2>2, <2>4 DEF RootsComplete, Sealing, Filing
  <2>6. ArrayTree' = Packages(keys, i)
    <3>1. list[i] # Null /\ ListTree(i) = Package(keys, i) /\ ArrayTree = Packages(keys, i - 1)
      BY <1>1, <1>3, <2>2 DEF PackagesComplete, ListComplete
    <3>2. PICK n \in Nat : n = i - 1 /\ n + 1 = i
      BY <1>3
    <3>3. ArrayTree' = AddItem(Packages(keys, n), <<>>, Package(keys, n + 1))
      BY <1>2, <2>2, <3>1, <3>2
    <3> QED BY <3>2, <3>3, PackagesAdd
  <2>7. ListComplete'
    <3>1. i' \in 1..Len(list) + 1 /\ i' - 1 = i
      BY <1>1, <1>3
    <3> QED BY <1>1, <1>2, <2>2, <2>6, <3>1 DEF ListComplete, Replying
  <2>8. ReplyIsComplete'
    BY <1>1, NotDoneNext
  <2> QED BY <2>3, <2>5, <2>7, <2>8
<1> QED BY <1>4, <1>5, <1>6

LEMMA AddArraySteps ==
  ASSUME ReplyInv, HeapInv', AddArray
  PROVE  (Counts /\ Filed /\ Complete)'
<1>1. /\ at = "copy" /\ at' = "write" /\ array' = Null /\ UNCHANGED <<i, keys, plains>>
      /\ HeapInv /\ Counts /\ Filed
      /\ "root" \in RootNames /\ {"root"} \in SUBSET RootNames /\ "arrary_node" \notin {"root"}
  BY DEF AddArray, Leave, ReplyInv, RootNames
<1>2. /\ RootsSameBut({"root"}) /\ ListSame /\ UNCHANGED <<roots, list>>
      /\ \/ Tree("root")' = Tree("root")
         \/ /\ roots["root"].write # Null /\ array # Null
            /\ Tree("root")' = AddItem(Tree("root"), Key["key_shard_pkg"], ArrayTree)
      /\ failures' = 0 =>
           failures = 0 /\ Tree("root")' = AddItem(Tree("root"), Key["key_shard_pkg"], ArrayTree)
  BY <1>1, AddArrayTrees
<1>3. Counts'
  BY <1>1, <1>2 DEF Counts, Before, Sealing, Filing, Replying
<1>4. Filed'
  <2>1. ListFiled' /\ NodeFiled' /\ NoShardMisfiled'
    BY <1>1, <1>2, StaysFiled
  <2>2. ArrayFiled'
    BY <1>1 DEF ArrayFiled
  <2>3. RootFiled'
    <3> SUFFICES ASSUME roots["root"].write # Null PROVE ReplyFiled(Tree("root")', Len(plains), keys)
      BY <1>1, <1>2 DEF RootFiled
    <3>1. ReplyFiled(Tree("root"), Len(plains), keys)
      BY <1>1 DEF Filed, RootFiled
    <3>2. CASE Tree("root")' = Tree("root")
      BY <3>1, <3>2
    <3>3. CASE array # Null /\ Tree("root")' = AddItem(Tree("root"), Key["key_shard_pkg"], ArrayTree)
      <4>1. PICK m, tree, new, value :
              m = Len(plains) /\ tree = Tree("root") /\ new = Tree("root")' /\ value = ArrayTree
        OBVIOUS
      <4>2. AllFiled(value, m, keys)
        BY <1>1, <3>3, <4>1 DEF Filed, ArrayFiled
      <4>3. ReplyFiled(tree, m, keys) /\ new = AddItem(tree, Key["key_shard_pkg"], value)
        BY <3>1, <3>3, <4>1
      <4>4. ReplyFiled(new, m, keys)
        BY <4>2, <4>3, ReplyFiledAdd
      <4> QED BY <4>1, <4>4
    <3> QED BY <1>2, <3>2, <3>3
  <2> QED BY <2>1, <2>2, <2>3 DEF Filed
<1>5. Complete'
  <2> SUFFICES ASSUME failures' = 0
               PROVE  RootsComplete' /\ PackagesComplete' /\ PlainsComplete' /\ ListComplete' /\ ReplyIsComplete'
    BY DEF Complete
  <2>1. failures = 0 /\ RootsComplete /\ ListComplete
    BY <1>2 DEF ReplyInv, Complete
  <2>2. PackagesComplete' /\ PlainsComplete'
    BY <1>1, <1>2, <2>1, StaysComplete
  <2>3. Len(list) = Len(keys) /\ ArrayTree = Packages(keys, Len(keys))
    <3>1. Len(list) = Len(keys) /\ i \in 1..Len(list) + 1 /\ ArrayTree = Packages(keys, i - 1) /\ i > Len(list)
      BY <1>1, <2>1 DEF ListComplete, Replying, AddArray
    <3>2. i - 1 = Len(keys)
      BY <3>1, HeapInvKept, <1>1 DEF Cells
    <3> QED BY <3>1, <3>2
  <2>4. Tree("root")' = FullReply(keys)
    <3>1. Tree("root") = ObjectOf(<<HashMember, PublicMember>>)
      BY <1>1, <2>1 DEF RootsComplete
    <3>2. Tree("root")' = AddItem(ObjectOf(<<HashMember, PublicMember>>), Key["key_shard_pkg"], Packages(keys, Len(keys)))
      BY <1>2, <2>3, <3>1
    <3> QED BY <3>2, ObjectAdd DEF FullReply
  <2>5. RootsComplete'
    BY <1>1, <2>4 DEF RootsComplete, Sealing, Filing
  <2>6. ListComplete' /\ ReplyIsComplete'
    BY <1>1, <1>2, <2>3, NotDoneNext DEF ListComplete
  <2> QED BY <2>2, <2>5, <2>6
<1> QED BY <1>3, <1>4, <1>5

LEMMA NothingMisfiledNext ==
  (\A tree : /\ Counts /\ ReplyFiled(tree, Len(plains), keys)
             /\ Parser(reply).ok => Parser(reply).value = tree
             => NoShardMisfiled)'
<1>1. \A tree : /\ Counts /\ ReplyFiled(tree, Len(plains), keys)
                /\ Parser(reply).ok => Parser(reply).value = tree
                => NoShardMisfiled
  BY NothingMisfiled
<1> QED BY <1>1, PTL

\* An object as the property writes it.
LEMMA ObjectIs ==
  ASSUME NEW a, NEW v, NEW b, NEW w
  PROVE  Object(<<<<a, v>>, <<b, w>>>>) = ObjectOf(<<Member(a, v), Member(b, w)>>)
<1> DEFINE M(e) == [key |-> Key[e[1]], value |-> e[2]]
<1>1. PICK e, f : e = <<a, v>> /\ f = <<b, w>>
  OBVIOUS
<1>2. M(e) = Member(a, v) /\ M(f) = Member(b, w)
  BY <1>1 DEF Member
<1>3. Object(<<e, f>>) = [type |-> "Object", child |-> [n \in 1..2 |-> M(<<e, f>>[n])]]
  BY DEF Object
<1> HIDE DEF M
<1>4. [n \in 1..2 |-> M(<<e, f>>[n])] = <<M(e), M(f)>>
  OBVIOUS
<1> QED BY <1>1, <1>2, <1>3, <1>4 DEF ObjectOf

LEMMA LongerObjectIs ==
  ASSUME NEW a, NEW v, NEW b, NEW w, NEW c, NEW x
  PROVE  Object(<<<<a, v>>, <<b, w>>, <<c, x>>>>) = ObjectOf(<<Member(a, v), Member(b, w), Member(c, x)>>)
<1> DEFINE M(e) == [key |-> Key[e[1]], value |-> e[2]]
<1>1. PICK e, f, g : e = <<a, v>> /\ f = <<b, w>> /\ g = <<c, x>>
  OBVIOUS
<1>2. M(e) = Member(a, v) /\ M(f) = Member(b, w) /\ M(g) = Member(c, x)
  BY <1>1 DEF Member
<1>3. Object(<<e, f, g>>) = [type |-> "Object", child |-> [n \in 1..3 |-> M(<<e, f, g>>[n])]]
  BY DEF Object
<1> HIDE DEF M
<1>4. [n \in 1..3 |-> M(<<e, f, g>>[n])] = <<M(e), M(f), M(g)>>
  OBVIOUS
<1> QED BY <1>1, <1>2, <1>3, <1>4 DEF ObjectOf

LEMMA PlainIs == \A n : PlainOf(n) = PlainTree(n)
<1> SUFFICES ASSUME NEW n PROVE PlainOf(n) = PlainTree(n)
  OBVIOUS
<1>1. PICK s : s = Object(<<<<"index", Number(n)>>, <<"private_key_shard", Text(ShareText(n))>>>>)
  OBVIOUS
<1>2. s = ShardTree(n)
  BY <1>1, ObjectIs DEF ShardTree
<1>3. PICK meta : meta = Parser(MetaText).value
  OBVIOUS
<1>4. PlainOf(n) = Object(<<<<"key_meta", meta>>, <<"key_shard", s>>>>)
  BY <1>1, <1>3 DEF PlainOf
<1>5. PlainTree(n) = ObjectOf(<<Member("key_meta", meta), Member("key_shard", s)>>)
  BY <1>2, <1>3 DEF PlainTree, MetaMember
<1> QED BY <1>4, <1>5, ObjectIs

LEMMA CompleteReply ==
  ASSUME Parser(reply).value = FullReply(keys), IsList(plains), PlainsComplete, Len(plains) = Len(keys)
  PROVE  ReplyIsComplete
<1> DEFINE P(n) == Object(<<<<"public_key", Text(keys[n])>>, <<"encrypt_key_info", Text(CipherText(n))>>>>)
           A == [type |-> "Array", child |-> [n \in 1..Len(keys) |-> [key |-> <<>>, value |-> P(n)]]]
<1>1. \A n : P(n) = Package(keys, n)
  BY ObjectIs DEF Package
<1> HIDE DEF P
<1>2. A = Packages(keys, Len(keys))
  BY <1>1 DEF Packages
<1> HIDE DEF A
<1>3. Object(<<<<"pubkey_list_hash", Text(HashText)>>,
               <<"rsa_public_key", Parser(PublicText).value>>,
               <<"key_shard_pkg", A>>>>) = FullReply(keys)
  <2>1. PICK v : v = Parser(PublicText).value
    OBVIOUS
  <2>2. FullReply(keys) = ObjectOf(<<Member("pubkey_list_hash", Text(HashText)), Member("rsa_public_key", v),
                                     Member("key_shard_pkg", A)>>)
    BY <1>2, <2>1 DEF FullReply, HashMember, PublicMember
  <2>3. PICK h, x : h = Text(HashText) /\ x = A
    OBVIOUS
  <2>4. Object(<<<<"pubkey_list_hash", h>>, <<"rsa_public_key", v>>, <<"key_shard_pkg", x>>>>)
          = ObjectOf(<<Member("pubkey_list_hash", h), Member("rsa_public_key", v), Member("key_shard_pkg", x)>>)
    BY LongerObjectIs
  <2> QED BY <2>1, <2>2, <2>3, <2>4
<1>4. plains = [n \in 1..Len(keys) |-> [key |-> keys[n], text |-> Printer(PlainOf(n))]]
  BY PlainIs DEF IsList, PlainsComplete
<1> QED BY <1>3, <1>4 DEF ReplyIsComplete, A, P

LEMMA CompleteReplyNext ==
  (Parser(reply).value = FullReply(keys) /\ IsList(plains) /\ PlainsComplete /\ Len(plains) = Len(keys)
   => ReplyIsComplete)'
<1>1. Parser(reply).value = FullReply(keys) /\ IsList(plains) /\ PlainsComplete /\ Len(plains) = Len(keys)
      => ReplyIsComplete
  BY CompleteReply
<1> QED BY <1>1, PTL

LEMMA WriteReplySteps ==
  ASSUME ReplyInv, ReplyReadsBack, HeapInv', WriteReply
  PROVE  (Counts /\ Filed /\ Complete)'
<1> DEFINE w == roots["root"].write
<1>1. /\ at = "write" /\ at' = "done" /\ list' = <<>> /\ UNCHANGED <<i, array, keys, plains>>
      /\ HeapInv /\ Counts /\ Filed /\ array = Null /\ "root" \in RootNames /\ "arrary_node" \in RootNames
      /\ roots' = [r \in RootNames |-> NoRoot]
  BY DEF WriteReply, Leave, ReplyInv, HeapInv, Idle, RootNames
<1>2. \/ /\ w # Null /\ reply' = Printer(Tree("root")) /\ UNCHANGED failures
      \/ reply' = <<>> /\ ((w = Null /\ UNCHANGED failures) \/ Fails(1))
  BY <1>1 DEF WriteReply, Written, Tree, Held1, ParsedRoots
<1>3. w # Null => Parser(Printer(Tree("root"))).ok /\ Parser(Printer(Tree("root"))).value = Tree("root")
  BY <1>1 DEF ReplyReadsBack, Tree, Held1, ParsedRoots
<1>4. Counts'
  BY <1>1 DEF Counts, Before, Sealing, Filing, Replying, IsList
<1>5. Filed'
  <2>1. ListFiled' /\ NodeFiled' /\ ArrayFiled' /\ RootFiled'
    BY <1>1 DEF ListFiled, NodeFiled, ArrayFiled, RootFiled, NoRoot
  <2>2. CASE w # Null /\ reply' = Printer(Tree("root"))
    <3>1. PICK tree : tree = Tree("root")
      OBVIOUS
    <3>2. ReplyFiled(tree, Len(plains'), keys')
      BY <1>1, <2>2, <3>1 DEF Filed, RootFiled
    <3>3. Parser(reply').value = tree
      BY <1>3, <2>2, <3>1
    <3>4. NoShardMisfiled'
      BY <1>4, <3>2, <3>3, NothingMisfiledNext
    <3> QED BY <2>1, <3>4 DEF Filed
  <2>3. CASE reply' = <<>>
    <3>1. ~Parser(reply').ok
      BY <2>3, EmptyAssumption
    <3>2. ReplyFiled(EmptyObject, Len(plains'), keys')
      BY NothingFiled
    <3>3. NoShardMisfiled'
      BY <1>4, <3>1, <3>2, NothingMisfiledNext
    <3> QED BY <2>1, <3>3 DEF Filed
  <2> QED BY <1>2, <2>1, <2>2, <2>3 DEF Filed
<1>6. Complete'
  <2> SUFFICES ASSUME failures' = 0
               PROVE  RootsComplete' /\ PackagesComplete' /\ PlainsComplete' /\ ListComplete' /\ ReplyIsComplete'
    BY DEF Complete
  <2>1. failures = 0 /\ ~Fails(1)
    BY <1>1, HeapInvKept DEF WriteReply, Fails, Cells
  <2>2. RootsComplete /\ PlainsComplete /\ ListComplete /\ w # Null
    BY <1>1, <2>1 DEF ReplyInv, Complete, HeapInv, Made
  <2>3. Parser(reply').value = FullReply(keys')
    <3>1. Tree("root") = FullReply(keys)
      BY <1>1, <2>2 DEF RootsComplete
    <3>2. reply' = Printer(Tree("root"))
      BY <1>2, <2>1, <2>2
    <3> QED BY <1>1, <1>3, <2>2, <3>1, <3>2
  <2>4. PlainsComplete' /\ IsList(plains') /\ Len(plains') = Len(keys')
    BY <1>1, <2>2 DEF Counts, PlainsComplete, ListComplete, Replying
  <2>5. ReplyIsComplete'
    BY <2>3, <2>4, CompleteReplyNext
  <2>6. RootsComplete' /\ PackagesComplete' /\ ListComplete'
    BY <1>1 DEF RootsComplete, PackagesComplete, ListComplete, Sealing, Filing, Replying
  <2> QED BY <2>4, <2>5, <2>6
<1> QED BY <1>4, <1>5, <1>6

-----------------------------------------------------------------------------
(* The theorems.                                                           *)

LEMMA StutterSteps ==
  ASSUME ReplyInv, HeapInv', UNCHANGED vars
  PROVE  (Counts /\ Filed /\ Complete)'
<1>1. (Counts /\ Filed /\ Complete)' <=> (Counts /\ Filed /\ Complete)
  BY DEF vars, Counts, Filed, ListFiled, NodeFiled, ArrayFiled, RootFiled, NoShardMisfiled, Complete,
         RootsComplete, PackagesComplete, PlainsComplete, ListComplete, ReplyIsComplete,
         Tree, ListTree, ArrayTree, Held1
<1> QED BY <1>1 DEF ReplyInv

LEMMA NextReply == ReplyInv /\ ReplyReadsBack /\ [Next]_vars => ReplyInv'
<1> SUFFICES ASSUME ReplyInv, ReplyReadsBack, [Next]_vars PROVE ReplyInv'
  OBVIOUS
<1>1. HeapInv'
  BY NextHeapInv DEF ReplyInv
<1>2. (Counts /\ Filed /\ Complete)'
  BY <1>1, EarlySteps, ParsePublicSteps, ParseMetaSteps, AssignMemberSteps, EncryptSteps, PushPackageSteps,
     CreateArraySteps, CopyPackageSteps, AddArraySteps, WriteReplySteps, StutterSteps DEF Next
<1> QED BY <1>1, <1>2 DEF ReplyInv

LEMMA ReplyInvAlways == Spec /\ []ReplyReadsBack => []ReplyInv
  BY InitReply, NextReply, PTL DEF Spec

\* For any number of keys and whichever allocations fail: a key of the reply
\* and the cipher beside it belong together, if the reply is read back as it
\* was printed (GenerateTask.cpp:234-247; json.cpp:58-65, 174-196).
THEOREM NoShardIsMisfiled == Spec /\ []ReplyReadsBack => []NoShardMisfiled
<1>1. ReplyInv => NoShardMisfiled
  BY DEF ReplyInv, Filed
<1> QED BY <1>1, ReplyInvAlways, PTL

\* For any number of keys: when no allocation failed, the reply, read back
\* as it was printed, has the hash, the public key and one package for each
\* key, and every cipher holds the share of its number
\* (GenerateTask.cpp:216-247, 270-291).
THEOREM RepliesAreComplete == Spec /\ []ReplyReadsBack => []ReplyIsComplete
<1>1. ReplyInv => ReplyIsComplete \/ failures # 0
  BY DEF ReplyInv, Complete
<1>2. failures # 0 => ReplyIsComplete
  BY DEF ReplyIsComplete
<1> QED BY <1>1, <1>2, ReplyInvAlways, PTL
=============================================================================
