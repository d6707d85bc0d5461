------------------------------ MODULE JsonText ------------------------------
(***************************************************************************)
(* JSON texts and the trees cJSON makes of them inside the enclave         *)
(* (src/Enclave/json/cJSON.c): cJSON_Parse and cJSON_PrintUnformatted.     *)
(*                                                                         *)
(* A text is a sequence of bytes 1..255; a position behind it holds the    *)
(* byte 0 that ends a C string.  A tree is a record with its type and what *)
(* the item holds.  valuedouble is kept as far as valueint is: "exact"     *)
(* says that both are the same number.                                     *)
(***************************************************************************)
EXTENDS JsonTree, JsonBuffer

CONSTANTS
  IntMax,            \* INT_MAX
  NestingLimit       \* CJSON_NESTING_LIMIT

ASSUME IntAssumption    == IntMax \in Nat \ {0}
ASSUME LimitAssumption  == NestingLimit \in Nat \ {0}

NUL == 0
Space == 32
Quote == 34
Comma == 44
Minus == 45
Dot == 46
Slash == 47
Zero == 48
Colon == 58
OpenBracket == 91
Backslash == 92
CloseBracket == 93
LetterU == 117
OpenBrace == 123
CloseBrace == 125
Signs == {43, Minus}
Exponents == {69, 101}
Digits == 48..57

NullText  == <<110, 117, 108, 108>>
FalseText == <<102, 97, 108, 115, 101>>
TrueText  == <<116, 114, 117, 101>>
ByteOrderMark == <<239, 187, 191>>

At(s, i) == IF i \in 1..Len(s) THEN s[i] ELSE NUL
From(s, i) == SubSeq(s, i, Len(s))
Least(a, b) == IF a < b THEN a ELSE b

\* The first position from i on whose byte is not In, or the end.
RunEnd(s, i, In(_)) ==
  CHOOSE j \in i..Len(s) + 1 :
    /\ \A m \in i..j - 1 : In(s[m])
    /\ j = Len(s) + 1 \/ ~In(s[j])

IsDigit(c) == c \in Digits
IsBlank(c) == c <= Space

\* (mutant: only the blank is white space)
SkipSpaces(s, i) == LET isSpace(c) == c = Space IN RunEnd(s, i, isSpace)

\* buffer_skip_whitespace: it steps over every byte up to 32, and back to
\* the terminator when it has run past it.
Skip(s, i) == RunEnd(s, i, IsBlank)

\* What a function of the parser returns: the item's value and the offset.
NotParsed == [ok |-> FALSE]
Parsed(value, next) == [ok |-> TRUE, value |-> value, next |-> next]

-----------------------------------------------------------------------------
(* Numbers.                                                                *)

\* The number a run of decimal digits stands for.
NumeralValue(digits) == FoldLeft(LAMBDA n, d : 10 * n + (d - Zero), 0, digits)

\* "use saturation in case of overflow"
Clamp(n) == IF n >= IntMax THEN IntMax ELSE IF n <= -IntMax - 1 THEN -IntMax - 1 ELSE n

\* As many decimal places as no int has.
DecimalWidth == CHOOSE n \in 1..10 : 10^n > IntMax + 1 /\ 10^(n - 1) <= IntMax + 1

Unsigned(c) == IF c # <<>> /\ Head(c) \in Signs THEN Tail(c) ELSE c
IsInteger(c) == c # <<>> /\ Range(c) \subseteq Digits
IsFixed(c) ==
  /\ IsInteger(SelectSeq(c, LAMBDA d : d # Dot))
  /\ \A m, n \in 1..Len(c) : c[m] = Dot /\ c[n] = Dot => m = n

\* The characters before the exponent, and the exponent.
Mantissa(c) == LET plain(d) == d \notin Exponents IN SubSeq(c, 1, RunEnd(c, 1, plain) - 1)
Exponent(c) == From(c, Len(Mantissa(c)) + 2)

\* What strtod takes for a number.
IsNumeral(c) ==
  /\ IsFixed(Unsigned(Mantissa(c)))
  /\ Mantissa(c) = c \/ IsInteger(Unsigned(Exponent(c)))

Signed(c, n) == IF Head(c) = Minus THEN -n ELSE n

\* n * 10^scale, cut to an int; unit is the power of ten, or one that is
\* as good.
NumberItem(c, n, scale, unit) ==
  LET value == Signed(c, IF scale < 0 THEN n \div unit ELSE n * unit)
  IN  [type |-> "Number", int |-> Clamp(value),
       exact |-> Clamp(value) = value /\ (scale < 0 => n % unit = 0)]

Scaled(c, digits, scale) ==
  NumberItem(c, NumeralValue(digits), scale,
             10^(IF scale < 0 THEN Least(-scale, Len(digits)) ELSE Least(scale, DecimalWidth)))

ReadNumeral(c) ==
  LET m == Unsigned(Mantissa(c))
      point == LET digit(d) == d # Dot IN RunEnd(m, 1, digit)
      places == IF point > Len(m) THEN 0 ELSE Len(m) - point
      shift == IF Mantissa(c) = c THEN 0
               ELSE Signed(Exponent(c), NumeralValue(Unsigned(Exponent(c))))
  IN  Scaled(c, SelectSeq(m, LAMBDA d : d # Dot), shift - places)

\* parse_number: strtod on the number characters that follow, 63 at most;
\* it takes the longest numeral they begin with.
LongestNumeral(c, i) ==
  LET ends == {n \in 1..Len(c) : IsNumeral(SubSeq(c, 1, n))}
      Numeral(n) == Parsed(ReadNumeral(SubSeq(c, 1, n)), i + n)
  IN  IF ends = {} THEN NotParsed ELSE Numeral(CHOOSE n \in ends : \A m \in ends : m <= n)

ParseNumber(s, i) ==
  LET numeric(d) == d \in Digits \cup Exponents \cup Signs \cup {Dot}
  IN  LongestNumeral(SubSeq(s, i, Least(RunEnd(s, i, numeric) - 1, i + 62)), i)

-----------------------------------------------------------------------------
(* Strings.                                                                *)

HexValue(c) ==
  CASE c \in Digits  -> c - Zero
    [] c \in 65..70  -> c - 55
    [] c \in 97..102 -> c - 87
    [] OTHER         -> -1

\* parse_hex4: 0 when one of the four is not a hexadecimal digit.
Hex4(s, i) ==
  IF \E j \in i..i + 3 : HexValue(At(s, j)) = -1 THEN 0
  ELSE FoldLeft(LAMBDA h, c : 16 * h + HexValue(c), 0, SubSeq(s, i, i + 3))

Utf8(code) ==
  CASE code < 128   -> <<code>>
    [] code \in 128..2047 -> <<192 + code \div 64, 128 + (code % 64)>>
    [] code \in 2048..65535 -> <<224 + code \div 4096, 128 + ((code \div 64) % 64), 128 + (code % 64)>>
    [] OTHER -> <<240 + code \div 262144, 128 + ((code \div 4096) % 64),
                  128 + ((code \div 64) % 64), 128 + (code % 64)>>

\* What an escape at the head of r stands for, and the bytes it takes; none
\* when it is invalid.
NoEscape == [take |-> 0, bytes |-> <<>>]

HighSurrogates == 55296..56319
LowSurrogates  == 56320..57343

\* utf16_literal_to_utf8.
Utf16Literal(r) ==
  LET first == Hex4(r, 3)
      second == Hex4(r, 9)
      paired == Len(r) >= 12 /\ r[7] = Backslash /\ r[8] = LetterU /\ second \in LowSurrogates
  IN  CASE Len(r) < 6 \/ first \in LowSurrogates -> NoEscape
        [] first \in HighSurrogates ->
             IF paired
               THEN [take |-> 12, bytes |-> Utf8(65536 + (first % 1024) * 1024 + (second % 1024))]
               ELSE NoEscape
        [] OTHER -> [take |-> 6, bytes |-> Utf8(first)]

\* The letters that escape a byte, and the bytes: \b \f \n \r \t.
Shorthand == [c \in {98, 102, 110, 114, 116} |->
  CASE c = 98 -> 8 [] c = 102 -> 12 [] c = 110 -> 10 [] c = 114 -> 13 [] c = 116 -> 9]

Escape(r) ==
  CASE At(r, 2) \in DOMAIN Shorthand           -> [take |-> 2, bytes |-> <<Shorthand[r[2]]>>]
    [] At(r, 2) \in {Quote, Backslash, Slash}  -> [take |-> 2, bytes |-> <<r[2]>>]
    [] At(r, 2) = LetterU                      -> Utf16Literal(r)
    [] OTHER                                   -> NoEscape

\* The quote that ends the literal begun before j; 0 if there is none.
RECURSIVE ClosingQuote(_, _)
ClosingQuote(s, j) ==
  CASE j > Len(s)       -> 0
    [] At(s, j) = Quote -> j
    [] OTHER            -> ClosingQuote(s, IF s[j] = Backslash THEN j + 2 ELSE j + 1)

\* What parts stand for when each of them is parsed.
Joined(head, rest) == IF rest.ok THEN Parsed(head \o rest.value, rest.next) ELSE NotParsed

RECURSIVE Unescaped(_), UnescapedAfter(_, _)
UnescapedAfter(r, head) ==
  IF head.take = 0 THEN NotParsed ELSE Joined(head.bytes, Unescaped(From(r, head.take + 1)))

Unescaped(r) ==
  CASE r = <<>>              -> Parsed(<<>>, 0)
    [] At(r, 1) = Backslash  -> UnescapedAfter(r, Escape(r))
    [] OTHER -> UnescapedAfter(r, [take |-> 1, bytes |-> <<r[1]>>])

\* All that anybody sees of a char*: "\u0000" and an escape without four
\* hexadecimal digits put the terminator into the string.
CString(bytes) == LET IsText(c) == c # NUL IN SubSeq(bytes, 1, RunEnd(bytes, 1, IsText) - 1)

StringItem(text, next) ==
  IF text.ok THEN Parsed([type |-> "String", text |-> CString(text.value)], next) ELSE NotParsed

StringUpTo(s, i, close) ==
  IF close = 0 THEN NotParsed ELSE StringItem(Unescaped(SubSeq(s, i + 1, close - 1)), close + 1)

ParseString(s, i) ==
  IF At(s, i) = Quote THEN StringUpTo(s, i, ClosingQuote(s, i + 1)) ELSE NotParsed

-----------------------------------------------------------------------------
(* Values.  Arrays and objects share the loop over what commas separate;   *)
(* an object's items have a key.                                           *)

RECURSIVE ParseValue(_, _, _), ParseItems(_, _, _, _)

Closing(keyed) == IF keyed THEN CloseBrace ELSE CloseBracket

ItemOf(key, value) ==
  IF value.ok THEN Parsed([key |-> key, value |-> value.value], value.next) ELSE NotParsed

\* The value of the member called name, behind its colon.
ParseMember(s, name, colon, depth) ==
  IF At(s, colon) = Colon THEN ItemOf(name.value.text, ParseValue(s, Skip(s, colon + 1), depth))
                          ELSE NotParsed

ParseNamed(s, name, depth) ==
  IF name.ok THEN ParseMember(s, name, Skip(s, name.next), depth) ELSE NotParsed

ParseItem(s, i, depth, keyed) ==
  IF keyed THEN ParseNamed(s, ParseString(s, i), depth) ELSE ItemOf(<<>>, ParseValue(s, i, depth))

\* (mutant: a comma may come before the end)
AfterItemLoosely(s, item, j, depth, keyed) ==
  CASE At(s, j) = Comma /\ At(s, Skip(s, j + 1)) = Closing(keyed) ->
                                  Parsed(<<item.value>>, Skip(s, j + 1) + 1)
    [] At(s, j) = Comma          -> Joined(<<item.value>>, ParseItems(s, Skip(s, j + 1), depth, keyed))
    [] At(s, j) = Closing(keyed) -> Parsed(<<item.value>>, j + 1)
    [] OTHER                     -> NotParsed

\* What comes behind an item, at j: another one, or the end.
AfterItem(s, item, j, depth, keyed) ==
  CASE At(s, j) = Comma          -> Joined(<<item.value>>, ParseItems(s, Skip(s, j + 1), depth, keyed))
    [] At(s, j) = Closing(keyed) -> Parsed(<<item.value>>, j + 1)
    [] OTHER                     -> NotParsed

ItemsFrom(s, item, depth, keyed) ==
  IF item.ok THEN AfterItem(s, item, Skip(s, item.next), depth, keyed) ELSE NotParsed

ParseItems(s, i, depth, keyed) == ItemsFrom(s, ParseItem(s, i, depth, keyed), depth, keyed)

Container(type, items) ==
  IF items.ok THEN Parsed([type |-> type, child |-> items.value], items.next) ELSE NotParsed

\* parse_array and parse_object: the number of open ones is limited.
ParseContainer(s, first, depth, keyed) ==
  IF depth >= NestingLimit THEN NotParsed
  ELSE Container(IF keyed THEN "Object" ELSE "Array",
                 IF At(s, first) = Closing(keyed) THEN Parsed(<<>>, first + 1)
                                                  ELSE ParseItems(s, first, depth + 1, keyed))

ParseValue(s, i, depth) ==
  LET Reads(text) == IsPrefix(text, From(s, i))
  IN  CASE Reads(NullText)  -> Parsed([type |-> "NULL"], i + Len(NullText))
        [] Reads(FalseText) -> Parsed([type |-> "False"], i + Len(FalseText))
        [] Reads(TrueText)  -> Parsed([type |-> "True"], i + Len(TrueText))
        [] At(s, i) = Quote -> ParseString(s, i)
        [] At(s, i) \in Digits \cup {Minus} -> ParseNumber(s, i)
        [] At(s, i) \in {OpenBracket, OpenBrace} ->
             ParseContainer(s, Skip(s, i + 1), depth, At(s, i) = OpenBrace)
        [] OTHER -> NotParsed

\* cJSON_Parse: whatever follows the value is not looked at.
ParseText(s) ==
  LET marked == IsPrefix(ByteOrderMark, s) /\ Len(s) >= 4
  IN  ParseValue(s, Skip(s, IF marked THEN 4 ELSE 1), 0)

-----------------------------------------------------------------------------
(* Printing, unformatted, piece by piece.                                  *)

Piece(needed, bytes) == <<[needed |-> needed, bytes |-> bytes]>>

RECURSIVE DecimalText(_)
DecimalText(n) ==
  IF n < 0 THEN <<Minus>> \o DecimalText(-n)
  ELSE (IF n < 10 THEN <<>> ELSE DecimalText(n \div 10)) \o <<Zero + (n % 10)>>

\* print_string_ptr on bytes that Shorthand or no escape stands for.
EscapedBytes(text) ==
  LET letter(c) == CHOOSE l \in DOMAIN Shorthand : Shorthand[l] = c
      escaped(c) == CASE c \in {Quote, Backslash} -> <<Backslash, c>>
                      [] c < Space -> <<Backslash, letter(c)>>
                      [] OTHER -> <<c>>
  IN  FlattenSeq([i \in 1..Len(text) |-> escaped(text[i])])

PrintString(text) ==
  Piece(Len(EscapedBytes(text)) + 3, <<Quote>> \o EscapedBytes(text) \o <<Quote>>)

\* print_number of a number that is an int.  The test after the first attempt
\* (cJSON.c:519-530, whose sscanf the SGX port replaced with an sprintf_s over
\* "test") only chooses between 15 and 17 digits, and an int has the same text
\* with both; what the other numbers look like is not modelled.
PrintNumber(n) == Piece(Len(DecimalText(n)) + 1, DecimalText(n))

RECURSIVE PrintValue(_)
PrintArray(child) ==
  LET Element(i) == PrintValue(child[i].value)
                    \o (IF i < Len(child) THEN Piece(2, <<Comma>>) ELSE <<>>)
  IN  Piece(1, <<OpenBracket>>)
      \o FlattenSeq([i \in 1..Len(child) |-> Element(i)])
      \o Piece(2, <<CloseBracket>>)

PrintObject(child) ==
  LET comma(i) == IF i < Len(child) THEN <<Comma>> ELSE <<>>
      Member(i) == PrintString(child[i].key) \o Piece(1, <<Colon>>)
                   \o PrintValue(child[i].value) \o Piece(Len(comma(i)) + 1, comma(i))
  IN  Piece(2, <<OpenBrace>>)
      \o FlattenSeq([i \in 1..Len(child) |-> Member(i)])
      \o Piece(2, <<CloseBrace>>)

PrintValue(tree) ==
  CASE tree.type = "NULL"   -> Piece(5, NullText)
    [] tree.type = "False"  -> Piece(6, FalseText)
    [] tree.type = "True"   -> Piece(5, TrueText)
    [] tree.type = "Number" -> PrintNumber(tree.int)
    [] tree.type = "String" -> PrintString(tree.text)
    [] tree.type = "Array"  -> PrintArray(tree.child)
    [] tree.type = "Object" -> PrintObject(tree.child)

\* The buffer in the end, and whether all that was written lay in it.
PrintBuffer(tree) == BufferAfter(PrintValue(tree))

\* cJSON_PrintUnformatted.
PrintText(tree) ==
  LET pieces == PrintValue(tree)
  IN  FlattenSeq([i \in 1..Len(pieces) |-> pieces[i].bytes])
=============================================================================
