----------------------------- MODULE IniConfig -----------------------------
(***************************************************************************)
(* The parser of server.ini (src/App/common/iniconfig.cpp).  Text is a     *)
(* sequence of characters.  What trim_string and the section lines keep    *)
(* depends on places: a letter may stand for a name or a value of any      *)
(* length as long as only blanks, quotes and "\r" come after it, and a     *)
(* value with a blank inside has to be spelt out.                          *)
(***************************************************************************)
EXTENDS Integers, Sequences, SequencesExt

CONSTANT Chars   \* the characters of a file

\* std::string::find: the first place of a character, 0 for npos.
Find(text, char) == SelectInSeq(text, LAMBDA c : c = char)

\* (mutant: the end of a line of two characters stays)
BlotSpaces(text) ==
  LET places == <<Find(text, " "), Find(text, "\"")>>
      found  == SelectInSeq(places, LAMBDA p : p # 0)
  IN  IF found = 0 THEN 0 ELSE places[found]

\* What trim_string deletes from: the first space, or else the first "\r",
\* or else the first quote.
Blot(text) ==
  LET places == <<Find(text, " "), Find(text, "\r"), Find(text, "\"")>>
      found  == SelectInSeq(places, LAMBDA p : p # 0)
  IN  IF found = 0 THEN 0 ELSE places[found]

\* replace(pos, pos + 1, ""): as many characters as the place is far in.
Cut(text, pos) == SubSeq(text, 1, pos - 1) \o SubSeq(text, 2 * pos, Len(text))

trim_string[text \in Seq(Chars)] ==
  IF Blot(text) = 0 THEN text ELSE trim_string[Cut(text, Blot(text))]

\* getline: what is before the line feed, and what is after it.
Line(text) == IF Find(text, "\n") = 0 THEN text ELSE SubSeq(text, 1, Find(text, "\n") - 1)

\* (mutant: the line feed is left)
AfterLineKeeps(text) ==
  IF Find(text, "\n") = 0 THEN <<>> ELSE SubSeq(text, Find(text, "\n"), Len(text))

AfterLine(text) ==
  IF Find(text, "\n") = 0 THEN <<>> ELSE SubSeq(text, Find(text, "\n") + 1, Len(text))

\* The section a line leaves the parser in: substr(left + 1, right - 1).
SectionAfter(section, line) ==
  LET left  == Find(line, "[")
      right == Find(line, "]")
  IN  IF left = 0 \/ right = 0 THEN section
      ELSE IF right = 1 \/ left + right - 2 > Len(line) THEN SubSeq(line, left + 1, Len(line))
      ELSE SubSeq(line, left + 1, left + right - 2)

\* (mutant: a key without a value is saved)
EntriesOfKeys(section, line) ==
  LET equal == Find(line, "=")
      key   == trim_string[SubSeq(line, 1, equal - 1)]
      value == trim_string[SubSeq(line, equal + 1, Len(line))]
  IN  IF equal = 0 \/ <<>> \in {section, key} THEN <<>>
      ELSE <<[section |-> section, key |-> key, value |-> value]>>

\* The entries a line adds: one, or none.
Entries(section, line) ==
  LET equal == Find(line, "=")
      key   == trim_string[SubSeq(line, 1, equal - 1)]
      value == trim_string[SubSeq(line, equal + 1, Len(line))]
  IN  IF equal = 0 \/ <<>> \in {section, key, value} THEN <<>>
      ELSE <<[section |-> section, key |-> key, value |-> value]>>

\* The first value of the key in the section, "" if there is none.
get_string(config, section, key) ==
  LET i == SelectInSeq(config, LAMBDA n : n.section = section /\ n.key = key)
  IN  IF i = 0 THEN <<>> ELSE config[i].value
=============================================================================
