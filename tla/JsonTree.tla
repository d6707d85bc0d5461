------------------------------ MODULE JsonTree ------------------------------
(***************************************************************************)
(* The trees of cJSON (src/Enclave/json/cJSON.c): what json.cpp looks up   *)
(* in one and how it makes one.  A tree is a record with its type and what *)
(* the item holds; an array and an object hold a sequence of children,     *)
(* each with its key, which is empty in an array.                          *)
(***************************************************************************)
EXTENDS Integers, Sequences, SequencesExt

\* A text is made of tokens, each with the bytes it is written in.
Bytes(tokens) == FlattenSeq([i \in 1..Len(tokens) |-> tokens[i].bytes])

\* case_insensitive_strcmp.
SameKey(a, b) ==
  LET lower(c) == IF c \in 65..90 THEN c + 32 ELSE c
  IN  Len(a) = Len(b) /\ \A i \in 1..Len(a) : lower(a[i]) = lower(b[i])

NoItem == [type |-> "none"]

\* cJSON_GetObjectItem: the first member of that name.  Elements of an array
\* have no name.
GetObjectItem(tree, key) ==
  LET named == {i \in 1..Len(tree.child) : SameKey(tree.child[i].key, key)}
  IN  IF tree.type # "Object" THEN NoItem
      ELSE IF named = {} THEN NoItem
      ELSE tree.child[CHOOSE i \in named : \A j \in named : i <= j].value

\* Value::asInt and asStringArrary.
AsInt(item) == IF item.type = "Number" THEN item.int ELSE 0

AsStringArray(item) == IF item.type = "Array" THEN [i \in 1..Len(item.child) |-> item.child[i].value] ELSE <<>>

Text(bytes) == [type |-> "String", text |-> bytes]
Number(n)   == [type |-> "Number", int |-> n, exact |-> TRUE]

EmptyObject == [type |-> "Object", child |-> <<>>]
EmptyArray  == [type |-> "Array", child |-> <<>>]

\* (mutant: the new item becomes the head of the list of children)
AddItemFirst(tree, key, value) ==
  [tree EXCEPT !.child = <<[key |-> key, value |-> value]>> \o @]

\* cJSON_Add...ToObject and cJSON_AddItemToArray: the new item comes last.
AddItem(tree, key, value) ==
  [tree EXCEPT !.child = Append(@, [key |-> key, value |-> value])]
=============================================================================
