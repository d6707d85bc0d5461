----------------------------- MODULE JsonGrammar -----------------------------
(***************************************************************************)
(* JSON as a grammar over tokens, the reference the parser of cJSON.c is   *)
(* checked against: what a text means in JSON, and what it means with the  *)
(* leniencies of the parser, each of them named.  A token is a record: its *)
(* bytes, its kind (the bracket or separator it is, "string", "atom",      *)
(* "blank", "mark" for a byte order mark, "bad" for a literal that is      *)
(* none), whether JSON has it, and, for a literal, the tree it stands for. *)
(* A surrogate without its other half stands for no character and makes    *)
(* the string it is in a bad one.                                          *)
(***************************************************************************)
EXTENDS JsonTree

OfKind(tokens, i, kinds) == i \in 1..Len(tokens) /\ tokens[i].kind \in kinds

\* How many brackets are open behind the i-th token.
OpenAfter(tokens, i) ==
  LET count(kinds) == Len(SelectSeq(SubSeq(tokens, 1, i), LAMBDA t : t.kind \in kinds))
  IN  count({"[", "{"}) - count({"]", "}"})

Nesting(tokens) ==
  LET depths == {OpenAfter(tokens, i) : i \in 0..Len(tokens)}
  IN  CHOOSE d \in depths : \A e \in depths : e <= d

\* The parts of a list that are separated by the commas in no bracket.
SplitAtCommas(tokens) ==
  LET commas == {i \in 1..Len(tokens) : OfKind(tokens, i, {","}) /\ OpenAfter(tokens, i) = 0}
      ends   == SetToSortSeq(commas \cup {0, Len(tokens) + 1}, <)
  IN  [n \in 1..Len(ends) - 1 |-> SubSeq(tokens, ends[n] + 1, ends[n + 1] - 1)]

RECURSIVE Denotation(_)

\* An item of a list: what its key, in an object, and its value stand for.
ItemDenotation(tokens, keyed) ==
  IF ~keyed THEN {[key |-> <<>>, value |-> v] : v \in Denotation(tokens)}
  ELSE IF OfKind(tokens, 1, {"string"}) /\ OfKind(tokens, 2, {":"})
    THEN {[key |-> tokens[1].value.text, value |-> v] : v \in Denotation(SubSeq(tokens, 3, Len(tokens)))}
    ELSE {}

\* A list whose items stand for these.
ListDenotation(type, items) ==
  IF {} \in Range(items) THEN {}
  ELSE {[type |-> type, child |-> [n \in DOMAIN items |-> CHOOSE item \in items[n] : TRUE]]}

Items(parts, keyed) == [n \in 1..Len(parts) |-> ItemDenotation(parts[n], keyed)]

Enclosed(tokens, open, close) ==
  Len(tokens) >= 2 /\ OfKind(tokens, 1, {open}) /\ OfKind(tokens, Len(tokens), {close})

\* The tree these tokens stand for, all of them: none or one.
Denotation(tokens) ==
  LET inner == SubSeq(tokens, 2, Len(tokens) - 1)
      parts == IF inner = <<>> THEN <<>> ELSE SplitAtCommas(inner)
      keyed == OfKind(tokens, 1, {"{"})
  IN  CASE Len(tokens) = 1 /\ OfKind(tokens, 1, {"string", "atom"}) -> {tokens[1].value}
        [] Enclosed(tokens, "[", "]") \/ Enclosed(tokens, "{", "}") ->
             ListDenotation(IF keyed THEN "Object" ELSE "Array", Items(parts, keyed))
        [] OTHER -> {}

NoBlanks(tokens) == SelectSeq(tokens, LAMBDA t : t.kind # "blank")

\* What a text made of these tokens means in JSON, which lets a parser set a
\* limit to the nesting.
JsonMeaning(tokens, limit) ==
  IF (\A i \in 1..Len(tokens) : tokens[i].json) /\ Nesting(tokens) <= limit
    THEN Denotation(NoBlanks(tokens)) ELSE {}

\* Two literals of JSON the parser has no room for: a string with "\u0000",
\* and a number longer than its buffer (cJSON.c:284, 296, 832).
NumberRoom == 63
TooMuch(token) ==
  \/ token.kind = "string" /\ 0 \in Range(token.value.text)
  \/ token.kind = "atom" /\ Len(token.bytes) > NumberRoom

\* What is left of them: the text up to the NUL, the number the first
\* characters stand for.
UpToNul(text) ==
  LET nul == SelectInSeq(text, LAMBDA c : c = 0)
  IN  IF nul = 0 THEN text ELSE SubSeq(text, 1, nul - 1)
LeftOf(token) ==
  CASE token.kind = "string" -> <<[token EXCEPT !.value.text = UpToNul(@)]>>
    [] token.kind = "atom" /\ Len(token.bytes) > NumberRoom ->
         <<[token EXCEPT !.value = token.cut], [token EXCEPT !.kind = "bad"]>>
    [] OTHER -> <<token>>

\* The lenient meaning.  It takes literals and blanks JSON does not have (the
\* tokens say which), ignores a byte order mark, cuts what is too much, and
\* takes the first value of a text, whatever comes behind it.
LaxMeaning(tokens, limit) ==
  LET marked == OfKind(tokens, 1, {"mark"}) /\ Len(tokens) > 1
      cut    == FlattenSeq([i \in 1..Len(tokens) |-> LeftOf(tokens[i])])
      said   == NoBlanks(IF marked THEN Tail(cut) ELSE cut)
  IN  UNION {Denotation(SubSeq(said, 1, n)) :
               n \in {m \in 1..Len(said) : Nesting(SubSeq(said, 1, m)) <= limit}}
=============================================================================
