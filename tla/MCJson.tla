------------------------------- MODULE MCJson -------------------------------
(* Small instances of EnclaveJson for TLC.                                 *)
EXTENDS EnclaveJson

Token(bytes, kind) == [bytes |-> bytes, kind |-> kind, json |-> TRUE]
Literal(bytes, kind, value) == [bytes |-> bytes, kind |-> kind, json |-> TRUE, value |-> value]
Lax(token) == [token EXCEPT !.json = FALSE]
Bad(bytes) == Lax(Token(bytes, "bad"))

LBracket == Token(<<91>>, "[")
RBracket == Token(<<93>>, "]")
LBrace == Token(<<123>>, "{")
RBrace == Token(<<125>>, "}")
CommaT == Token(<<44>>, ",")
ColonT == Token(<<58>>, ":")
Blanks == Token(<<32, 10, 13, 9>>, "blank")
LaxBlanks == Lax(Token(<<1, 11, 31>>, "blank"))
Mark == Lax(Token(ByteOrderMark, "mark"))
NullT == Literal(NullText, "atom", [type |-> "NULL"])
FalseT == Literal(FalseText, "atom", [type |-> "False"])
TrueT == Literal(TrueText, "atom", [type |-> "True"])

\* A numeral, and the int and whether it is the number.
Numeral(bytes, n, exact) == Literal(bytes, "atom", [type |-> "Number", int |-> n, exact |-> exact])
MinusSeven == Numeral(<<45, 55>>, -7, TRUE)

\* Pieces of a string, and the bytes they stand for (none for a bad piece).
\* An escape of bad digits stands for a NUL.
LaxPieces == {
  [bytes |-> <<92, 117, 90, 90, 90, 90>>, means |-> <<0>>],
  [bytes |-> <<92, 117, 48, 48, 69, 103>>, means |-> <<0>>],
  [bytes |-> <<10>>, means |-> <<10>>],
  [bytes |-> <<255>>, means |-> <<255>>]}
Pieces == LaxPieces \cup {
  [bytes |-> <<92, 117, 48, 48, 48, 48>>, means |-> <<0>>],
  [bytes |-> <<92, 47>>, means |-> <<47>>],
  [bytes |-> <<97>>, means |-> <<97>>],
  [bytes |-> <<195, 169>>, means |-> <<195, 169>>],
  [bytes |-> <<92, 34>>, means |-> <<34>>],
  [bytes |-> <<92, 92>>, means |-> <<92>>],
  [bytes |-> <<92, 110>>, means |-> <<10>>],
  [bytes |-> <<92, 117, 48, 48, 69, 57>>, means |-> <<195, 169>>],
  [bytes |-> <<92, 117, 50, 48, 97, 99>>, means |-> <<226, 130, 172>>],
  [bytes |-> <<92, 117, 100, 56, 51, 52, 92, 117, 100, 100, 49, 101>>, means |-> <<240, 157, 132, 158>>],
  [bytes |-> <<92, 117, 100, 56, 51, 52>>, means |-> <<>>],
  [bytes |-> <<92, 117, 100, 100, 49, 101>>, means |-> <<>>],
  [bytes |-> <<92, 120>>, means |-> <<>>]}

\* The half of a pair that the other half follows is half of that pair.
StringToken(pieces) ==
  LET bytes == FlattenSeq([n \in 1..Len(pieces) |-> pieces[n].bytes])
      high(n) == n \in 1..Len(pieces) /\ Len(pieces[n].bytes) = 6 /\ pieces[n].bytes[4] = 56
      low(n)  == n \in 1..Len(pieces) /\ Len(pieces[n].bytes) = 6 /\ pieces[n].bytes[4] = 100
      bad(n)  == pieces[n].means = <<>> /\ ~(high(n) /\ low(n + 1)) /\ ~(low(n) /\ high(n - 1))
      means(n) == IF high(n) THEN <<240, 157, 132, 158>> ELSE pieces[n].means
      quoted == <<34>> \o bytes \o <<34>>
      text == [type |-> "String", text |-> FlattenSeq([n \in 1..Len(pieces) |-> means(n)])]
  IN  IF \E n \in 1..Len(pieces) : bad(n) THEN Bad(quoted)
      ELSE IF Range(pieces) \cap LaxPieces # {} THEN Lax(Literal(quoted, "string", text))
      ELSE Literal(quoted, "string", text)

Plain(bytes) == Literal(<<34>> \o bytes \o <<34>>, "string", [type |-> "String", text |-> bytes])
NameA == Plain(<<97>>)

\* Every text of up to four of these tokens.
Structure == {LBracket, RBracket, LBrace, RBrace, CommaT, ColonT, Blanks, NameA, MinusSeven}
Short == UNION {[1..n -> Structure] : n \in 1..4}

\* Literals, alone and in an array.
Numerals == {
  Numeral(<<48>>, 0, TRUE), Numeral(<<49, 50, 55>>, 127, TRUE), Numeral(<<49, 50, 56>>, 127, FALSE),
  Numeral(<<45, 49, 50, 56>>, -128, TRUE), Numeral(<<45, 49, 50, 57>>, -128, FALSE),
  Numeral(<<57, 57, 57>>, 127, FALSE), Numeral(<<49, 46, 57>>, 1, FALSE),
  Numeral(<<45, 49, 46, 57>>, -1, FALSE), Numeral(<<50, 46, 48>>, 2, TRUE),
  Numeral(<<51, 101, 49>>, 30, TRUE), Numeral(<<51, 69, 43, 57>>, 127, FALSE),
  Numeral(<<52, 48, 101, 45, 49>>, 4, TRUE), Numeral(<<55, 101, 45, 57>>, 0, FALSE)}
\* 01, -01, 1. and 1.e1 and -.5; "-", .5, +1 and --1; 1e0...02 with 64 characters.
LaxNumerals == {
  Lax(Numeral(<<48, 49>>, 1, TRUE)), Lax(Numeral(<<45, 48, 49>>, -1, TRUE)),
  Lax(Numeral(<<49, 46>>, 1, TRUE)), Lax(Numeral(<<49, 46, 101, 49>>, 10, TRUE)),
  Lax(Numeral(<<45, 46, 53>>, 0, FALSE))}
BadNumerals == {Bad(<<45>>), Bad(<<46, 53>>), Bad(<<43, 49>>), Bad(<<45, 45, 49>>)}
LongNumeral ==
  [bytes |-> <<49, 101>> \o [n \in 1..61 |-> 48] \o <<50>>, kind |-> "atom", json |-> TRUE,
   value |-> [type |-> "Number", int |-> 100, exact |-> TRUE],
   cut   |-> [type |-> "Number", int |-> 1, exact |-> TRUE]]
Literals == {StringToken(p) : p \in UNION {[1..n -> Pieces] : n \in 0..2}}
            \cup Numerals \cup LaxNumerals \cup BadNumerals \cup {LongNumeral}
            \cup {NullT, FalseT, TrueT, Bad(<<78, 117, 108, 108>>)}
Alone == {<<t>> : t \in Literals} \cup {<<LBracket, t, CommaT, t, RBracket>> : t \in Literals}

\* Requests for two key shards, and what one wrong token makes of one.
MCKey == [n \in KeyNames |->
  CASE n = "k" -> <<107>> [] n = "l" -> <<108>> [] n = "user_public_key_list" -> <<117, 107>>
    [] n = "pubkey_list_hash" -> <<112, 104>> [] n = "rsa_public_key" -> <<114>>
    [] n = "key_shard_pkg" -> <<107, 112>> [] n = "key_meta" -> <<107, 109>>
    [] n = "key_shard" -> <<107, 115>> [] n = "index" -> <<105>>
    [] n = "private_key_shard" -> <<112, 107>> [] n = "public_key" -> <<112>>
    [] n = "encrypt_key_info" -> <<101>>]
Two == Numeral(<<50>>, 2, TRUE)
KeyText(c) == Plain(<<75, c>>)
MCRequest(first, second) ==
  <<LBrace, Plain(MCKey["user_public_key_list"]), ColonT, LBracket, first, CommaT, second, RBracket,
    CommaT, Plain(MCKey["k"]), ColonT, Two, CommaT, Plain(<<76>>), ColonT, Two, RBrace>>
Good == MCRequest(KeyText(50), KeyText(49))
Wrong == {[Good EXCEPT ![n] = t] : n \in 1..Len(Good), t \in Structure \cup {NullT}}
         \cup {RemoveAt(Good, n) : n \in 1..Len(Good)}
         \cup {InsertAt(Good, n, t) : n \in 1..Len(Good), t \in {CommaT, RBrace, NullT}}
         \cup {InsertAt(Good, n, t) : n \in {1, 4}, t \in {Blanks, LaxBlanks}}
Marked == {<<Mark>>, <<Mark, Two>>, <<Mark, Blanks, NameA>>, <<Two, Mark>>, <<Mark, Mark, Two>>}
Behind == {LaxBlanks, Bad(<<101>>), Bad(<<120>>), CommaT, NameA}
Trailed == {<<t, b>> : t \in {Two, TrueT, NameA}, b \in Behind}
           \cup {<<LBracket, t, b, RBracket>> : t \in {Two, TrueT, NameA}, b \in Behind}
           \cup {<<LBrace, n, ColonT, Two, RBrace>> : n \in Literals} \cup {<<LaxBlanks>>, <<LaxBlanks, Two>>}
Nested == {[m \in 1..2 * n |-> IF m <= n THEN LBracket ELSE RBracket] : n \in 3..6}

MCRequests == Short \cup Alone \cup Wrong \cup Marked \cup Trailed \cup Nested \cup {Good}
MCPublicText == <<123, 34, 110, 34, 58, 34, 49, 34, 125>>
MCMetaText   == <<123, 34, 118, 34, 58, 91, 49, 93, 125>>
=============================================================================
