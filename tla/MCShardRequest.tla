--------------------------- MODULE MCShardRequest ---------------------------
(* Small instances of ShardRequest for TLC.                                *)
EXTENDS ShardRequest

A == <<1>>
B == <<2>>
C == <<3>>

\* One block to a text; 9 is no point of the curve.
OneBlock == {A, B, C, <<9>>}
MCPoints == {1, 2, 3}
MCMemory == {0, 2, 2048}
MCHalfWord == 8192
Wrap == 2 * MCHalfWord

Request(keys, k, l, bits, url) ==
  [keys |-> keys, k |-> k, l |-> l, key_length |-> bits, webhook_url |-> url]

\* Around each bound of the checks, with the list in several orders and a
\* key that is there twice.
MCBodies ==
  {Request(keys, k, 3, 2048, "url") :
     keys \in {<<A, B, C>>, <<C, A, B>>, <<B, A, A>>, <<A, A, B>>}, k \in 0..4}
  \cup {Request(<<B, A>>, k, 2, 1024, "url") : k \in {1, 2, Wrap + 2}}
  \cup {Request([i \in 1..n |-> A], 11, l, 4096, "url") : n \in 20..21, l \in 20..21}
  \cup {Request(keys, 1, 1, 3072, "url") : keys \in {<<A>>, <<NotText>>}}
  \cup {Request(keys, 2, 2, 3072, url) : keys \in {<<A, <<9>>>>, <<A, B>>}, url \in {"", "missing"}}
  \cup {Request(<<A, B>>, 2, 2, bits, "url") : bits \in {512, Wrap + 1024, Missing}}
  \cup {Request(<<A, B>>, k, l, 1024, "url") : k \in {2, Missing}, l \in {-2, Missing}}
  \cup {Request(Missing, 2, l, 1024, "url") : l \in {0, Missing}}

\* Texts of more than one block.
Long == {A, C, <<1, 2>>, <<2, 3>>}
LongBodies == {Request(<<s, t>>, 2, 2, 1024, "url") : s, t \in Long}
=============================================================================
