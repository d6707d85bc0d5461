----------------------------- MODULE MCStartup -----------------------------
(* A small instance of Startup: the lines of App/server.ini, some of them   *)
(* left out or with a value that is odd, in several layouts.                *)
EXTENDS Startup

Section(name) == [kind |-> "section", key |-> name, value |-> <<>>]
Pair(key, value) == [kind |-> "pair", key |-> key, value |-> value]
Blank == [kind |-> "blank", key |-> "", value |-> <<>>]

ServerLines(count) ==
  <<Section("server"), Pair("host_address", <<"url">>),
    Pair("key_shard_generation_path", <<"p1">>), Pair("key_shard_query_path", <<"p2">>),
    Pair("max_thread_task_count", count)>>
LogLines == <<Section("log"), Pair("log_enable", <<"1">>), Pair("log_path", <<"dir">>)>>
IniLines(count) == ServerLines(count) \o <<Blank>> \o LogLines
AllLines == IniLines(<<"100">>)

\* All but some of the lines.
Without(lines, out) ==
  [i \in 1..(Len(lines) - Cardinality(out)) |->
     lines[CHOOSE j \in (1..Len(lines)) \ out : Cardinality({m \in 1..j : m \notin out}) = i]]

Contents ==
  {Without(AllLines, {i, j}) : i, j \in 1..9}
  \cup {IniLines(count) : count \in {<<"0">>, <<"many">>, <<>>, <<"100">>}}
  \cup {LogLines \o ServerLines(<<"100">>), <<>>}

\* A blank inside, near and far, and brackets as in an address.
OddValues == {<<"d", " ", "x">>, <<"d", " ", "x", "y", "z">>, <<"u", "[", "i", "]", "p">>}
OddContents ==
  {[AllLines EXCEPT ![i].value = value] : i \in {2, 3, 8, 9}, value \in OddValues}

Layouts == [space : BOOLEAN, quote : BOOLEAN, indent : BOOLEAN, cr : BOOLEAN]
\* "shifted" has the sections whose line is indented.
MCFiles ==
  [lines : Contents, layout : Layouts, shifted : {{}}]
  \cup [lines : OddContents \cup {AllLines}, layout : Layouts, shifted : SUBSET {"server", "log"}]

MCChars ==
  {"[", "]", "=", " ", "\"", "\r", "\n", "server", "log", "url", "p1", "p2", "dir",
   "0", "1", "100", "many", "d", "x", "y", "z", "u", "i", "p"} \cup Keys

When(condition, text) == IF condition THEN text ELSE <<>>

RenderLine(line, f) ==
  CASE line.kind = "section" ->
         When(line.key \in f.shifted, <<" ">>) \o <<"[", line.key, "]">>
    [] line.kind = "pair" ->
         When(f.layout.indent, <<" ", " ">>) \o <<line.key>> \o When(f.layout.space, <<" ">>)
         \o <<"=">> \o When(f.layout.space, <<" ">>) \o When(f.layout.quote, <<"\"">>)
         \o line.value \o When(f.layout.quote, <<"\"">>)
    [] line.kind = "blank" -> <<>>

\* The last line has no end, as in App/server.ini.
MCRender(f) ==
  FlattenSeq([i \in 1..Len(f.lines) |->
    RenderLine(f.lines[i], f)
    \o When(i < Len(f.lines), When(f.layout.cr, <<"\r">>) \o <<"\n">>)])

MCAtoi(text) == IF text = <<"1">> THEN 1 ELSE IF text = <<"100">> THEN 100 ELSE 0

\* A pair belongs to the section that was named last above it.
SectionLines(lines, i) == {j \in 1..i : lines[j].kind = "section"}
SectionLine(lines, i) ==
  CHOOSE j \in SectionLines(lines, i) : \A m \in SectionLines(lines, i) : m <= j
Belongs(lines, i, key) ==
  /\ lines[i].kind = "pair" /\ lines[i].key = key
  /\ SectionLines(lines, i) # {} /\ <<lines[SectionLine(lines, i)].key>> = Home(key)
Places(f, key) == {i \in 1..Len(f.lines) : Belongs(f.lines, i, key)}

MCMeaning(f, key) ==
  IF Places(f, key) = {} THEN <<>> ELSE f.lines[CHOOSE i \in Places(f, key) : TRUE].value

MCPlain(f, key) ==
  \A i \in Places(f, key) :
    /\ " " \notin Range(f.lines[i].value)
    /\ f.lines[SectionLine(f.lines, i)].key \notin f.shifted
    /\ \A j \in SectionLine(f.lines, i)..i : "[" \notin Range(f.lines[j].value)
=============================================================================
