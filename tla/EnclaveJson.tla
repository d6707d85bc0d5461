----------------------------- MODULE EnclaveJson -----------------------------
(***************************************************************************)
(* The JSON of a generation (JsonRoot) with the parser and the printer of  *)
(* cJSON (JsonText), and what they owe each other and the grammar of JSON  *)
(* (JsonGrammar).                                                          *)
(***************************************************************************)
EXTENDS JsonRoot, JsonText, JsonGrammar

\* The parser reads every text of JSON as the tree it stands for, unless a
\* string of it has a NUL or a number more characters than the parser's
\* buffer (cJSON.c:279-349, 725-860, 1245-1297, 1383-1474, 1539-1645).
ParserReadsJson ==
  at = "parse" /\ (\A n \in 1..Len(request) : ~TooMuch(request[n])) =>
    LET tree == ParseText(Bytes(request))
    IN  JsonMeaning(request, NestingLimit) \subseteq IF tree.ok THEN {tree.value} ELSE {}

\* Of the texts that are no JSON the parser takes those with a leniency that
\* LaxMeaning names, as the tree it gives them, and no other: the escapes of
\* bad digits, the numerals, blanks and characters JSON does not have, and
\* what stands behind the first value (cJSON.c:296-349, 567-602, 996-1031,
\* 1054-1068).
ParserLenientAsNamed ==
  at = "parse" =>
    LET tree == ParseText(Bytes(request))
    IN  LaxMeaning(request, NestingLimit) = IF tree.ok THEN {tree.value} ELSE {}

\* A tree whose numbers are what they were in the text.
RECURSIVE Exact(_)
Exact(tree) ==
  CASE tree.type = "Number" -> tree.exact
    [] tree.type \in {"Array", "Object"} -> \A n \in 1..Len(tree.child) : Exact(tree.child[n].value)
    [] OTHER -> TRUE

\* Whatever tree the enclave holds, the printer asks for what it writes and
\* stays inside the buffer ensure hands out, and the text printed parses to
\* that tree (cJSON.c:387-472; the host and the client read these texts).
PrintParsesBack ==
  \A a \in DOMAIN heap :
    /\ Range(PrintValue(heap[a])) \subseteq Honest /\ PrintBuffer(heap[a]).fits
    /\ Exact(heap[a]) => ParseText(PrintText(heap[a])) = Parsed(heap[a], Len(PrintText(heap[a])) + 1)
=============================================================================
