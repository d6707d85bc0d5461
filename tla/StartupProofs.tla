--------------------------- MODULE StartupProofs ---------------------------
(***************************************************************************)
(* The host process sets up and takes down in order, for every server.ini, *)
(* and what the parser of its lines makes of every text: trim_string comes *)
(* to an end and leaves nothing it is there to delete, and a key has the   *)
(* value of the first line that gives it one.                              *)
(***************************************************************************)
EXTENDS Startup, TextOrderProofs

\* What main has at each place.
Stage ==
  /\ at \in {"start", "parse", "read", "log"} => ~log
  /\ at \in {"start", "parse", "read", "log", "create"} =>
       enclave = "none" /\ ~id /\ listener = "none"
  /\ at \in {"identify", "init"} => enclave = "created" /\ listener = "none"
  /\ at = "serve" => enclave = "ready" /\ listener = "none"
  /\ at = "listening" => enclave = "ready" /\ listener = "open"
  /\ at = "shutdown" => (listener = "open" => enclave = "ready")
  /\ at \in {"free", "cleanup"} => listener # "open"
  /\ at = "cleanup" => enclave \in {"none", "destroyed"}
  /\ at = "ended" => listener # "open"

SInv == Stage /\ ListensReady /\ AllGivenBack

\* Nothing is set up at first.
LEMMA StartInitial == Init => SInv
BY DEF Init, SInv, Stage, ListensReady, AllGivenBack

\* Every step of main leaves it as its next place asks for.
LEMMA StartStep == SInv /\ [Next]_vars => SInv'
<1> SUFFICES ASSUME SInv, [Next]_vars PROVE SInv'
  OBVIOUS
<1> USE DEF SInv, Stage, ListensReady, AllGivenBack
<1>1. CASE UNCHANGED vars
  BY <1>1 DEF vars
<1>2. CASE LoadFile
  BY <1>2 DEF LoadFile, End
<1>3. CASE ParseLine \/ ParseDone
  BY <1>3 DEF ParseLine, ParseDone
<1>4. CASE ReadSettings
  <2>1. /\ at = "read" /\ UNCHANGED <<log, enclave, id, listener>>
        /\ at' = "log" \/ (at' = "ended" /\ code' = "-1")
    BY <1>4 DEF ReadSettings, End
  <2> QED
    BY <2>1
<1>5. CASE StartLog
  BY <1>5 DEF StartLog
<1>6. CASE CreateEnclave
  BY <1>6 DEF CreateEnclave
<1>7. CASE GetEnclaveId
  BY <1>7 DEF GetEnclaveId
<1>8. CASE InitEnclave
  BY <1>8 DEF InitEnclave
<1>9. CASE StartServer
  BY <1>9 DEF StartServer, End
<1>10. CASE PressEnter
  BY <1>10 DEF PressEnter
<1>11. CASE ShutdownServer
  BY <1>11 DEF ShutdownServer
<1>12. CASE FreeEnclave
  BY <1>12 DEF FreeEnclave
<1>13. CASE Cleanup
  BY <1>13 DEF Cleanup, End
<1> QED
  BY <1>1, <1>2, <1>3, <1>4, <1>5, <1>6, <1>7, <1>8, <1>9, <1>10, <1>11, <1>12, <1>13
  DEF Next, Main

\* The listener is open only between ecall_init and ecall_free
\* (App.cpp:108-133).
THEOREM ListensOnlyReady == Spec => []ListensReady
<1>1. Spec => []SInv
  BY StartInitial, StartStep, PTL DEF Spec
<1>2. SInv => ListensReady
  BY DEF SInv
<1> QED  BY <1>1, <1>2, PTL

\* Every way out of main but an exception gives back the log, the enclave,
\* its name and the listener (App.cpp:123-145).
THEOREM EndsClean == Spec => []AllGivenBack
<1>1. Spec => []SInv
  BY StartInitial, StartStep, PTL DEF Spec
<1>2. SInv => AllGivenBack
  BY DEF SInv
<1> QED  BY <1>1, <1>2, PTL

-----------------------------------------------------------------------------
(* The characters of a line.                                                *)

\* find returns a place of the character, or 0.
LEMMA FindPlace ==
  ASSUME NEW text \in Seq(Chars), NEW char
  PROVE  /\ Find(text, char) \in 0..Len(text)
         /\ Find(text, char) # 0 => text[Find(text, char)] = char
         /\ Find(text, char) = 0 => \A i \in 1..Len(text) : text[i] # char
<1> DEFINE I == {i \in 1..Len(text) : text[i] = char}
<1>1. Find(text, char) = IF I # {} THEN Min(I) ELSE 0
  BY DEF Find, SelectInSeq
<1>2. CASE I = {}
  BY <1>1, <1>2
<1>3. CASE I # {}
  <2>1. I \in SUBSET Nat
    OBVIOUS
  <2>2. PICK n \in I : \A m \in I : n <= m
    BY <1>3, <2>1, LeastNat
  <2> HIDE DEF I
  <2>3. Min(I) \in I
    BY <2>2 DEF Min
  <2> USE DEF I
  <2>4. Find(text, char) \in I
    BY <1>1, <1>3, <2>3
  <2> QED  BY <2>4
<1> QED  BY <1>2, <1>3

\* So does the search of trim_string for one of three.
LEMMA BlotPlace ==
  ASSUME NEW text \in Seq(Chars)
  PROVE  /\ Blot(text) \in 0..Len(text)
         /\ Blot(text) = 0 => \A i \in 1..Len(text) : text[i] \notin {" ", "\r", "\""}
         /\ Blot(text) # 0 => text[Blot(text)] \in {" ", "\r", "\""}
<1>1. PICK a, b, c : a = Find(text, " ") /\ b = Find(text, "\r") /\ c = Find(text, "\"")
  OBVIOUS
<1>2. /\ a \in 0..Len(text) /\ b \in 0..Len(text) /\ c \in 0..Len(text)
      /\ a # 0 => text[a] = " "
      /\ b # 0 => text[b] = "\r"
      /\ c # 0 => text[c] = "\""
      /\ a = 0 => \A i \in 1..Len(text) : text[i] # " "
      /\ b = 0 => \A i \in 1..Len(text) : text[i] # "\r"
      /\ c = 0 => \A i \in 1..Len(text) : text[i] # "\""
  BY <1>1, FindPlace
<1>3. PICK places : places = <<a, b, c>>
  OBVIOUS
<1>4. Len(places) = 3 /\ places[1] = a /\ places[2] = b /\ places[3] = c
  BY <1>3
<1> DEFINE I == {i \in 1..Len(places) : places[i] # 0}
<1>5. Blot(text) = LET found == IF I # {} THEN Min(I) ELSE 0
                   IN  IF found = 0 THEN 0 ELSE places[found]
  BY <1>1, <1>3 DEF Blot, SelectInSeq
<1>6. CASE I = {}
  <2>1. a = 0 /\ b = 0 /\ c = 0
    BY <1>4, <1>6
  <2>2. Blot(text) = 0
    BY <1>5, <1>6
  <2> QED  BY <1>2, <2>1, <2>2
<1>7. CASE I # {}
  <2>1. I \in SUBSET Nat
    BY <1>4
  <2>2. PICK n \in I : \A m \in I : n <= m
    BY <1>7, <2>1, LeastNat
  <2>3. PICK m : m = Min(I)
    OBVIOUS
  <2>4. m \in I
    <3> HIDE DEF I
    <3> QED  BY <2>2, <2>3 DEF Min
  <2>5. m \in 1..3 /\ places[m] # 0
    BY <1>4, <2>4
  <2>6. Blot(text) = places[m]
    <3> HIDE DEF I
    <3> QED  BY <1>5, <1>7, <2>3, <2>5
  <2>7. places[m] \in {a, b, c}
    BY <1>4, <2>5
  <2> QED  BY <1>2, <2>5, <2>6, <2>7
<1> QED  BY <1>6, <1>7

\* What is cut out is at least the character itself.
LEMMA CutShortens ==
  ASSUME NEW text \in Seq(Chars), NEW pos \in 1..Len(text)
  PROVE  /\ Cut(text, pos) \in Seq(Chars)
         /\ Len(Cut(text, pos)) \in 0..Len(text) - 1
<1> DEFINE s == SubSeq(text, 1, pos - 1)
           t == SubSeq(text, 2 * pos, Len(text))
<1>1. s \in Seq(Chars) /\ Len(s) = pos - 1
  OBVIOUS
<1>2. t \in Seq(Chars) /\ Len(t) = IF 2 * pos <= Len(text) THEN Len(text) - 2 * pos + 1 ELSE 0
  OBVIOUS
<1> HIDE DEF s, t
<1>3. s \o t \in Seq(Chars) /\ Len(s \o t) = Len(s) + Len(t)
  BY <1>1, <1>2
<1>4. Cut(text, pos) = s \o t
  BY DEF Cut, s, t
<1>5. Len(text) \in Nat
  OBVIOUS
<1> QED  BY <1>1, <1>2, <1>3, <1>4, <1>5

-----------------------------------------------------------------------------
(* trim_string is a recursive function.  That there is one at all follows  *)
(* from CutShortens: the texts up to a length are trimmed by one function, *)
(* and two that trim a text agree on it.                                   *)

\* g trims the texts of up to n characters.
Trims(g, n) ==
  \A t \in Seq(Chars) : Len(t) <= n =>
    g[t] = IF Blot(t) = 0 THEN t ELSE g[Cut(t, Blot(t))]

\* A text without a blot stays, and what is left of another one is shorter.
LEMMA CutText ==
  ASSUME NEW t \in Seq(Chars), Blot(t) # 0
  PROVE  /\ Cut(t, Blot(t)) \in Seq(Chars)
         /\ Len(Cut(t, Blot(t))) \in 0..Len(t) - 1
<1>1. PICK b : b = Blot(t)
  OBVIOUS
<1>2. b \in 0..Len(t)
  BY <1>1, BlotPlace
<1>3. Len(t) \in Nat
  OBVIOUS
<1>4. b \in 1..Len(t)
  BY <1>1, <1>2, <1>3
<1> QED  BY <1>1, <1>4, CutShortens

LEMMA TrimsAgree ==
  ASSUME NEW g, NEW h, NEW m \in Nat, NEW n \in Nat, Trims(g, m), Trims(h, n),
         NEW u \in Seq(Chars), Len(u) <= m, Len(u) <= n
  PROVE  g[u] = h[u]
<1> DEFINE Apart(t) == Len(t) <= m /\ Len(t) <= n /\ g[t] # h[t]
           T == {k \in Nat : \E t \in Seq(Chars) : Len(t) = k /\ Apart(t)}
<1> SUFFICES ASSUME T # {} PROVE FALSE
  OBVIOUS
<1>1. T \in SUBSET Nat
  OBVIOUS
<1>2. PICK k \in T : \A j \in T : k <= j
  <2> HIDE DEF T
  <2> QED  BY <1>1, LeastNat
<1>3. PICK t \in Seq(Chars) : Len(t) = k /\ Apart(t)
  OBVIOUS
<1>4. CASE Blot(t) = 0
  BY <1>3, <1>4 DEF Trims
<1>5. CASE Blot(t) # 0
  <2>1. PICK c : c = Cut(t, Blot(t))
    OBVIOUS
  <2>2. c \in Seq(Chars) /\ Len(c) \in 0..k - 1
    BY <1>3, <1>5, <2>1, CutText
  <2>3. g[t] = g[c] /\ h[t] = h[c]
    BY <1>3, <1>5, <2>1 DEF Trims
  <2>4. Len(c) \in T
    BY <1>3, <2>2, <2>3, SMTT(30)
  <2> QED  BY <1>2, <2>2, <2>4
<1> QED  BY <1>4, <1>5

LEMMA TrimsExists == \A n \in Nat : \E g : Trims(g, n)
<1> DEFINE T == {n \in Nat : ~\E g : Trims(g, n)}
<1> SUFFICES ASSUME T # {} PROVE FALSE
  OBVIOUS
<1>1. PICK n \in T : \A j \in T : n <= j
  <2>1. T \in SUBSET Nat
    OBVIOUS
  <2> HIDE DEF T
  <2> QED  BY <2>1, LeastNat
<1>2. PICK g : n # 0 => Trims(g, n - 1)
  <2>1. CASE n = 0
    BY <2>1
  <2>2. CASE n # 0
    <3>1. n - 1 \in Nat /\ n - 1 \notin T
      BY <1>1, <2>2
    <3> QED  BY <3>1
  <2> QED  BY <2>1, <2>2
<1> DEFINE h == [t \in Seq(Chars) |-> IF Blot(t) = 0 THEN t ELSE g[Cut(t, Blot(t))]]
<1>3. ASSUME NEW t \in Seq(Chars), Len(t) <= n, Blot(t) # 0
      PROVE  h[t] = h[Cut(t, Blot(t))]
  <2>1. PICK c : c = Cut(t, Blot(t))
    OBVIOUS
  <2>2. c \in Seq(Chars) /\ Len(c) \in 0..Len(t) - 1
    BY <1>3, <2>1, CutText
  <2>3. Len(t) \in Nat /\ n # 0 /\ Len(c) <= n - 1
    BY <1>3, <2>2
  <2>4. h[t] = g[c] /\ h[c] = IF Blot(c) = 0 THEN c ELSE g[Cut(c, Blot(c))]
    BY <1>3, <2>1, <2>2
  <2>5. g[c] = IF Blot(c) = 0 THEN c ELSE g[Cut(c, Blot(c))]
    BY <1>2, <2>2, <2>3 DEF Trims
  <2> QED  BY <2>1, <2>4, <2>5
<1>4. \A t \in Seq(Chars) : Blot(t) = 0 => h[t] = t
  OBVIOUS
<1> HIDE DEF h
<1>5. Trims(h, n)
  BY <1>3, <1>4 DEF Trims
<1> QED  BY <1>1, <1>5

\* The function the code computes: it ends on every text.
LEMMA TrimString ==
  /\ DOMAIN trim_string = Seq(Chars)
  /\ \A t \in Seq(Chars) :
       trim_string[t] = IF Blot(t) = 0 THEN t ELSE trim_string[Cut(t, Blot(t))]
<1> DEFINE G(n) == CHOOSE g : Trims(g, n)
           f == [t \in Seq(Chars) |-> G(Len(t))[t]]
<1>1. \A n \in Nat : Trims(G(n), n)
  BY TrimsExists
<1> HIDE DEF G
<1>2. ASSUME NEW t \in Seq(Chars)
      PROVE  f[t] = IF Blot(t) = 0 THEN t ELSE f[Cut(t, Blot(t))]
  <2>1. Len(t) \in Nat /\ f[t] = G(Len(t))[t]
    OBVIOUS
  <2>2. f[t] = IF Blot(t) = 0 THEN t ELSE G(Len(t))[Cut(t, Blot(t))]
    BY <1>1, <2>1 DEF Trims
  <2>3. CASE Blot(t) # 0
    <3>1. PICK c : c = Cut(t, Blot(t))
      OBVIOUS
    <3>2. c \in Seq(Chars) /\ Len(c) \in 0..Len(t) - 1
      BY <2>3, <3>1, CutText
    <3>3. G(Len(t))[c] = G(Len(c))[c]
      BY <1>1, <2>1, <3>2, TrimsAgree
    <3> QED  BY <2>2, <2>3, <3>1, <3>2, <3>3
  <2> QED  BY <2>2, <2>3
<1> HIDE DEF f
<1>3. f = [t \in Seq(Chars) |-> IF Blot(t) = 0 THEN t ELSE f[Cut(t, Blot(t))]]
  <2>1. f = [t \in Seq(Chars) |-> f[t]]
    BY DEF f
  <2> QED  BY <1>2, <2>1
<1>4. trim_string = [t \in Seq(Chars) |-> IF Blot(t) = 0 THEN t ELSE trim_string[Cut(t, Blot(t))]]
  BY <1>3 DEF trim_string
<1> QED  BY <1>4

\* What is left is a text with no space, "\r" or quote in it
\* (iniconfig.cpp:113-126, 309-317).
LEMMA Trimmed ==
  ASSUME NEW u \in Seq(Chars)
  PROVE  trim_string[u] \in Seq(Chars) /\ Blot(trim_string[u]) = 0
<1> DEFINE Bad(t) == ~(trim_string[t] \in Seq(Chars) /\ Blot(trim_string[t]) = 0)
           T == {k \in Nat : \E t \in Seq(Chars) : Len(t) = k /\ Bad(t)}
<1> SUFFICES ASSUME T # {} PROVE FALSE
  OBVIOUS
<1>1. PICK k \in T : \A j \in T : k <= j
  <2>1. T \in SUBSET Nat
    OBVIOUS
  <2> HIDE DEF T
  <2> QED  BY <2>1, LeastNat
<1>2. PICK t \in Seq(Chars) : Len(t) = k /\ Bad(t)
  OBVIOUS
<1>3. CASE Blot(t) = 0
  BY <1>2, <1>3, TrimString
<1>4. CASE Blot(t) # 0
  <2>1. PICK c : c = Cut(t, Blot(t))
    OBVIOUS
  <2>2. c \in Seq(Chars) /\ Len(c) \in 0..k - 1
    BY <1>2, <1>4, <2>1, CutText
  <2>3. trim_string[t] = trim_string[c]
    BY <1>4, <2>1, TrimString
  <2>4. Len(c) \in T
    BY <1>2, <2>2, <2>3
  <2> QED  BY <1>1, <2>2, <2>4
<1> QED  BY <1>3, <1>4

-----------------------------------------------------------------------------
(* What the parser keeps of a line.                                         *)

Entry ==
  {e \in [section : Seq(Chars), key : Seq(Chars), value : Seq(Chars)] :
     <<>> \notin {e.section, e.key, e.value} /\ Blot(e.key) = 0 /\ Blot(e.value) = 0}

\* A piece of a text is a text, wherever it begins and ends within it.
LEMMA Piece ==
  ASSUME NEW t \in Seq(Chars), NEW a \in Nat \ {0}, NEW b \in Int, b <= Len(t)
  PROVE  SubSeq(t, a, b) \in Seq(Chars)
OBVIOUS

\* What is left of a line, and of the text after it, is a text.
LEMMA LineTexts ==
  ASSUME NEW t \in Seq(Chars)
  PROVE  Line(t) \in Seq(Chars) /\ AfterLine(t) \in Seq(Chars)
<1>1. PICK n : n = Find(t, "\n")
  OBVIOUS
<1>2. n \in 0..Len(t) /\ Len(t) \in Nat
  BY <1>1, FindPlace
<1>3. /\ Line(t) = IF n = 0 THEN t ELSE SubSeq(t, 1, n - 1)
      /\ AfterLine(t) = IF n = 0 THEN <<>> ELSE SubSeq(t, n + 1, Len(t))
  BY <1>1 DEF Line, AfterLine
<1>4. SubSeq(t, 1, n - 1) \in Seq(Chars)
  BY <1>2, Piece
<1>5. SubSeq(t, n + 1, Len(t)) \in Seq(Chars)
  BY <1>2, Piece
<1> QED  BY <1>3, <1>4, <1>5

\* A section is a text, also where the brackets of a line are out of order.
LEMMA SectionText ==
  ASSUME NEW s \in Seq(Chars), NEW t \in Seq(Chars)
  PROVE  SectionAfter(s, t) \in Seq(Chars)
<1>1. PICK left, right : left = Find(t, "[") /\ right = Find(t, "]")
  OBVIOUS
<1>2. left \in 0..Len(t)
  BY <1>1, FindPlace
<1>3. right \in 0..Len(t)
  BY <1>1, FindPlace
<1>4. Len(t) \in Nat
  OBVIOUS
<1>5. SectionAfter(s, t) =
        IF left = 0 \/ right = 0 THEN s
        ELSE IF right = 1 \/ left + right - 2 > Len(t) THEN SubSeq(t, left + 1, Len(t))
        ELSE SubSeq(t, left + 1, left + right - 2)
  BY <1>1 DEF SectionAfter
<1>6. SubSeq(t, left + 1, Len(t)) \in Seq(Chars)
  BY <1>2, <1>4, Piece
<1>7. left + right - 2 <= Len(t) => SubSeq(t, left + 1, left + right - 2) \in Seq(Chars)
  BY <1>2, <1>3, <1>4, Piece
<1>8. ~(left + right - 2 > Len(t)) => left + right - 2 <= Len(t)
  BY <1>2, <1>3, <1>4
<1> QED  BY <1>5, <1>6, <1>7, <1>8

\* What a line adds is complete and trimmed.
LEMMA EntriesKept ==
  ASSUME NEW s \in Seq(Chars), NEW t \in Seq(Chars)
  PROVE  Entries(s, t) \in Seq(Entry)
<1>1. PICK equal : equal = Find(t, "=")
  OBVIOUS
<1>2. PICK key, value : /\ key = trim_string[SubSeq(t, 1, equal - 1)]
                        /\ value = trim_string[SubSeq(t, equal + 1, Len(t))]
  OBVIOUS
<1>3. Entries(s, t) = IF equal = 0 \/ <<>> \in {s, key, value} THEN <<>>
                      ELSE <<[section |-> s, key |-> key, value |-> value]>>
  BY <1>1, <1>2 DEF Entries
<1>4. equal \in 0..Len(t)
  BY <1>1, FindPlace
<1>5. Len(t) \in Nat
  OBVIOUS
<1>6. SubSeq(t, 1, equal - 1) \in Seq(Chars)
  BY <1>4, <1>5, Piece
<1>7. SubSeq(t, equal + 1, Len(t)) \in Seq(Chars)
  BY <1>4, <1>5, Piece
<1>8. key \in Seq(Chars) /\ Blot(key) = 0
  BY <1>2, <1>6, Trimmed
<1>9. value \in Seq(Chars) /\ Blot(value) = 0
  BY <1>2, <1>7, Trimmed
<1>10. CASE equal = 0 \/ <<>> \in {s, key, value}
  BY <1>3, <1>10
<1>11. CASE ~(equal = 0 \/ <<>> \in {s, key, value})
  <2>1. PICK e : e = [section |-> s, key |-> key, value |-> value]
    OBVIOUS
  <2>2. e.section = s /\ e.key = key /\ e.value = value
    BY <2>1
  <2>3. e \in [section : Seq(Chars), key : Seq(Chars), value : Seq(Chars)]
    BY <1>8, <1>9, <2>1
  <2>4. e \in Entry
    <3>1. <<>> \notin {e.section, e.key, e.value}
      BY <1>11, <2>2
    <3>2. Blot(e.key) = 0 /\ Blot(e.value) = 0
      BY <1>8, <1>9, <2>2
    <3> QED  BY <2>3, <3>1, <3>2 DEF Entry
  <2>5. Entries(s, t) = <<e>>
    BY <1>3, <1>11, <2>1
  <2> QED  BY <2>4, <2>5
<1> QED  BY <1>10, <1>11

\* A search gives a value that was kept, or "".
LEMMA StringFound ==
  ASSUME NEW c \in Seq(Entry), NEW s, NEW k
  PROVE  get_string(c, s, k) \in Seq(Chars) /\ Blot(get_string(c, s, k)) = 0
<1> DEFINE I == {i \in 1..Len(c) : c[i].section = s /\ c[i].key = k}
<1>1. PICK i : i = IF I # {} THEN Min(I) ELSE 0
  OBVIOUS
<1>2. get_string(c, s, k) = IF i = 0 THEN <<>> ELSE c[i].value
  BY <1>1 DEF get_string, SelectInSeq
<1>3. CASE I = {}
  <2>1. get_string(c, s, k) = <<>>
    BY <1>1, <1>2, <1>3
  <2>2. <<>> \in Seq(Chars) /\ Len(<<>>) = 0
    OBVIOUS
  <2>3. Blot(<<>>) \in 0..Len(<<>>)
    BY <2>2, BlotPlace
  <2> QED  BY <2>1, <2>2, <2>3
<1>4. CASE I # {}
  <2>1. I \in SUBSET Nat
    OBVIOUS
  <2>2. PICK n \in I : \A m \in I : n <= m
    <3> HIDE DEF I
    <3> QED  BY <1>4, <2>1, LeastNat
  <2>3. i \in I
    <3> HIDE DEF I
    <3> QED  BY <1>1, <1>4, <2>2 DEF Min
  <2>4. i \in 1..Len(c)
    BY <2>3
  <2>5. c[i] \in Entry
    BY <2>4
  <2>6. c[i].value \in Seq(Chars) /\ Blot(c[i].value) = 0
    BY <2>5 DEF Entry
  <2> QED  BY <1>2, <2>4, <2>6
<1> QED  BY <1>3, <1>4

-----------------------------------------------------------------------------
(* The texts main holds, from the file to the settings.                     *)

Texts ==
  /\ rest \in Seq(Chars) /\ section \in Seq(Chars)
  /\ config \in Seq(Entry)
  /\ settings \in [Keys -> Seq(Chars)]
  /\ \A key \in Keys : Blot(settings[key]) = 0

\* Where main is and what it has set up.
Places ==
  /\ at \in {"start", "parse", "read", "log", "create", "identify", "init", "serve", "listening",
             "shutdown", "free", "cleanup", "ended"}
  /\ file \in Files \cup {NoFile}
  /\ log \in BOOLEAN /\ id \in BOOLEAN
  /\ enclave \in {"none", "created", "ready", "destroyed"}
  /\ listener \in {"none", "open", "closed"}
  /\ code \in {"none", "0", "-1", "terminate"}

LEMMA TextsInitial == Init => Texts /\ Places
<1> SUFFICES ASSUME Init PROVE Texts /\ Places
  OBVIOUS
<1>1. <<>> \in Seq(Chars) /\ Blot(<<>>) = 0
  <2>1. <<>> \in Seq(Chars) /\ Len(<<>>) = 0
    OBVIOUS
  <2>2. Blot(<<>>) \in 0..Len(<<>>)
    BY <2>1, BlotPlace
  <2> QED  BY <2>1, <2>2
<1>2. rest \in Seq(Chars) /\ section \in Seq(Chars) /\ config \in Seq(Entry)
  BY DEF Init
<1>3. \A key \in Keys : settings[key] = <<>>
  BY DEF Init, Unset
<1>4. settings \in [Keys -> Seq(Chars)]
  BY <1>1 DEF Init, Unset
<1>5. Places
  BY DEF Init, Places
<1> QED  BY <1>1, <1>2, <1>3, <1>4, <1>5 DEF Texts

\* Every step of main keeps texts where it keeps text.
LEMMA TextsStep == Texts /\ Places /\ [Next]_vars => Texts' /\ Places'
<1> SUFFICES ASSUME Texts, Places, [Next]_vars PROVE Texts' /\ Places'
  OBVIOUS
<1>1. CASE LoadFile
  <2>1. Places'
    BY <1>1 DEF LoadFile, End, Places
  <2>2. rest' \in Seq(Chars)
    BY <1>1, RenderAssumption DEF LoadFile, End, Places, Texts
  <2> QED  BY <1>1, <2>1, <2>2 DEF LoadFile, Texts
<1>2. CASE ParseLine
  <2>1. Places'
    BY <1>2 DEF ParseLine, Places
  <2>2. rest \in Seq(Chars) /\ section \in Seq(Chars) /\ config \in Seq(Entry)
    BY DEF Texts
  <2>3. PICK line : line = Line(rest)
    OBVIOUS
  <2>4. line \in Seq(Chars)
    BY <2>2, <2>3, LineTexts
  <2>5. rest' \in Seq(Chars)
    BY <1>2, <2>2, LineTexts DEF ParseLine
  <2>6. section' \in Seq(Chars)
    BY <1>2, <2>2, <2>3, <2>4, SectionText DEF ParseLine
  <2>7. PICK new : new = Entries(section', line)
    OBVIOUS
  <2>8. new \in Seq(Entry)
    BY <2>4, <2>6, <2>7, EntriesKept
  <2>9. config' = config \o new
    BY <1>2, <2>3, <2>7 DEF ParseLine
  <2>10. config' \in Seq(Entry)
    BY <2>2, <2>8, <2>9
  <2>11. UNCHANGED settings
    BY <1>2 DEF ParseLine
  <2> QED  BY <2>1, <2>5, <2>6, <2>10, <2>11 DEF Texts
<1>3. CASE ParseDone
  BY <1>3 DEF ParseDone, Texts, Places
<1>4. CASE ReadSettings
  <2>1. UNCHANGED <<file, rest, section, config, log, enclave, id, listener>>
        /\ (at' = "log" \/ at' = "ended") /\ (code' = code \/ code' = "-1")
    BY <1>4 DEF ReadSettings, End
  <2>2. Places'
    BY <2>1 DEF Places
  <2>3. settings' = [key \in Keys |-> get_string(config, Home(key), <<key>>)]
    BY <1>4 DEF ReadSettings
  <2>4. \A key \in Keys : settings'[key] = get_string(config, Home(key), <<key>>)
    BY <2>3
  <2>5. \A key \in Keys : settings'[key] \in Seq(Chars) /\ Blot(settings'[key]) = 0
    <3> TAKE key \in Keys
    <3>1. config \in Seq(Entry)
      BY DEF Texts
    <3>2. PICK g : g = get_string(config, Home(key), <<key>>)
      OBVIOUS
    <3>3. g \in Seq(Chars) /\ Blot(g) = 0
      BY <3>1, <3>2, StringFound
    <3>4. settings'[key] = g
      BY <2>4, <3>2
    <3> QED  BY <3>3, <3>4
  <2>6. settings' \in [Keys -> Seq(Chars)]
    BY <2>3, <2>5
  <2> QED  BY <2>1, <2>2, <2>5, <2>6 DEF Texts
<1>5. ASSUME UNCHANGED <<rest, section, config, settings>> PROVE Texts'
  BY <1>5 DEF Texts
<1>6. CASE StartLog
  BY <1>5, <1>6 DEF StartLog, Places
<1>7. CASE CreateEnclave
  BY <1>5, <1>7 DEF CreateEnclave, Places
<1>8. CASE GetEnclaveId
  BY <1>5, <1>8 DEF GetEnclaveId, Places
<1>9. CASE InitEnclave
  BY <1>5, <1>9 DEF InitEnclave, Places
<1>10. CASE StartServer
  BY <1>5, <1>10 DEF StartServer, End, Places
<1>11. CASE PressEnter
  BY <1>5, <1>11 DEF PressEnter, Places
<1>12. CASE ShutdownServer
  BY <1>5, <1>12 DEF ShutdownServer, Places
<1>13. CASE FreeEnclave
  BY <1>5, <1>13 DEF FreeEnclave, Places
<1>14. CASE Cleanup
  BY <1>5, <1>14 DEF Cleanup, End, Places
<1>15. CASE UNCHANGED vars
  BY <1>5, <1>15 DEF vars, Places
<1> QED
  BY <1>1, <1>2, <1>3, <1>4, <1>6, <1>7, <1>8, <1>9, <1>10, <1>11, <1>12, <1>13, <1>14, <1>15
  DEF Next, Main

LEMMA TextsAlways == Spec => [](Texts /\ Places)
BY TextsInitial, TextsStep, PTL DEF Spec

\* Whatever the file holds, what the parser keeps of it is complete text:
\* every entry has a section, a key and a value (iniconfig.cpp:150-170), and
\* every setting main works with is a text.
THEOREM StartupTypeCorrect == Spec => []TypeOK
<1>1. Texts /\ Places => TypeOK
  <2> SUFFICES ASSUME Texts, Places PROVE TypeOK
    OBVIOUS
  <2>1. config \in Seq(Entry)
    BY DEF Texts
  <2>2. \A i \in 1..Len(config) : config[i] \in Entry
    BY <2>1
  <2>3. \A i \in 1..Len(config) : <<>> \notin {config[i].section, config[i].key, config[i].value}
    BY <2>2 DEF Entry
  <2>4. DOMAIN settings = Keys /\ \A key \in Keys : settings[key] \in Seq(Chars)
    BY DEF Texts
  <2> QED  BY <2>3, <2>4 DEF Texts, Places, TypeOK
<1> QED  BY <1>1, TextsAlways, PTL

\* No setting main works with has a space, the end of a line or a quote left
\* in it, in whatever order and number a file has them (iniconfig.cpp:113-126,
\* 309-317).
THEOREM SettingsTrimmed ==
  Spec => [](\A key \in Keys : \A i \in 1..Len(settings[key]) :
               settings[key][i] \notin {" ", "\r", "\""})
<1> DEFINE Clean == \A key \in Keys : \A i \in 1..Len(settings[key]) :
                      settings[key][i] \notin {" ", "\r", "\""}
<1>1. Texts => Clean
  <2> SUFFICES ASSUME Texts, NEW key \in Keys
               PROVE  \A i \in 1..Len(settings[key]) : settings[key][i] \notin {" ", "\r", "\""}
    OBVIOUS
  <2>1. PICK t : t = settings[key]
    OBVIOUS
  <2>2. t \in Seq(Chars) /\ Blot(t) = 0
    BY <2>1 DEF Texts
  <2>3. \A i \in 1..Len(t) : t[i] \notin {" ", "\r", "\""}
    BY <2>2, BlotPlace
  <2> QED  BY <2>1, <2>3
<1> HIDE DEF Clean
<1>2. Spec => []Clean
  BY <1>1, TextsAlways, PTL
<1> QED  BY <1>2 DEF Clean

-----------------------------------------------------------------------------
(* What main asks of the settings.                                          *)

Served ==
  /\ \A key \in Mandatory : settings[key] # <<>>
  /\ Atoi(settings["max_thread_task_count"]) > 0

\* The steps between the check and the last one that needs it.
Checked ==
  at \in {"log", "create", "identify", "init", "serve", "listening"} \/ listener = "open" => Served

LEMMA CheckedStep == Checked /\ SInv /\ [Next]_vars => Checked'
<1> SUFFICES ASSUME Checked, SInv, [Next]_vars PROVE Checked'
  OBVIOUS
<1>1. CASE ReadSettings
  <2>1. \/ at' = "log" /\ Served'
        \/ at' = "ended"
    BY <1>1 DEF ReadSettings, Served, End
  <2>2. listener # "open" /\ UNCHANGED listener
    BY <1>1 DEF ReadSettings, SInv, Stage
  <2> QED  BY <1>1, <2>1, <2>2 DEF Checked
<1>2. ASSUME UNCHANGED settings PROVE Served' <=> Served
  BY <1>2 DEF Served
<1>3. CASE LoadFile
  BY <1>2, <1>3 DEF LoadFile, End, Checked
<1>4. CASE ParseLine \/ ParseDone
  BY <1>2, <1>4 DEF ParseLine, ParseDone, Checked
<1>5. CASE StartLog \/ CreateEnclave \/ GetEnclaveId \/ InitEnclave
  BY <1>2, <1>5 DEF StartLog, CreateEnclave, GetEnclaveId, InitEnclave, Checked
<1>6. CASE StartServer \/ PressEnter \/ ShutdownServer
  BY <1>2, <1>6 DEF StartServer, PressEnter, ShutdownServer, End, Checked
<1>7. CASE FreeEnclave \/ Cleanup
  BY <1>2, <1>7 DEF FreeEnclave, Cleanup, End, Checked
<1>8. CASE UNCHANGED vars
  BY <1>2, <1>8 DEF vars, Checked
<1> QED
  BY <1>1, <1>3, <1>4, <1>5, <1>6, <1>7, <1>8 DEF Next, Main

\* No service listens without an address, its two paths and a positive number
\* of threads, whatever the file leaves out, empties or repeats, and the
\* settings stay until the listener is closed (App.cpp:55-82, 108-133).
THEOREM ServesOnlyComplete == Spec => [](listener = "open" => Served)
<1>1. Init => Checked
  BY DEF Init, Checked
<1>2. Checked => (listener = "open" => Served)
  BY DEF Checked
<1> QED  BY <1>1, <1>2, StartInitial, StartStep, CheckedStep, PTL DEF Spec

-----------------------------------------------------------------------------
(* What the lines of a text say, without the order in which a parser comes  *)
(* by them: a key has the value of the first line that gives it one under   *)
(* its section, and a line belongs to the section that was named last, on a *)
(* line above it or on its own.                                             *)

LineStarts(text) == {q \in 1..Len(text) : q = 1 \/ text[q - 1] = "\n"}
From(text, p)    == SubSeq(text, p, Len(text))
LineAt(text, p)  == Line(From(text, p))

Names(line)    == Find(line, "[") # 0 /\ Find(line, "]") # 0
Named(text, p) == {q \in LineStarts(text) : q < p /\ Names(LineAt(text, q))}

\* The section of the lines before a place.
SectionBefore(text, p) ==
  IF Named(text, p) = {} THEN <<>>
  ELSE SectionAfter(<<>>, LineAt(text, Max(Named(text, p))))

EntriesAt(text, p) == Entries(SectionBefore(text, p + 1), LineAt(text, p))
Gives(text, p, s, k) ==
  /\ EntriesAt(text, p) # <<>>
  /\ EntriesAt(text, p)[1].section = s /\ EntriesAt(text, p)[1].key = k
Givers(text, p, s, k) == {q \in LineStarts(text) : q < p /\ Gives(text, q, s, k)}

\* The value the lines before a place give a key of a section.
ValueBefore(text, p, s, k) ==
  IF Givers(text, p, s, k) = {} THEN <<>>
  ELSE EntriesAt(text, Min(Givers(text, p, s, k)))[1].value
TextValue(text, s, k) == ValueBefore(text, Len(text) + 1, s, k)

\* find returns the first place of the character.
LEMMA FindFirst ==
  ASSUME NEW text \in Seq(Chars), NEW char, NEW i \in 1..Len(text), text[i] = char
  PROVE  Find(text, char) # 0 /\ Find(text, char) <= i
<1> DEFINE I == {j \in 1..Len(text) : text[j] = char}
<1>1. Find(text, char) = IF I # {} THEN Min(I) ELSE 0
  BY DEF Find, SelectInSeq
<1>2. I \in SUBSET Nat /\ i \in I
  OBVIOUS
<1>3. PICK n \in I : \A m \in I : n <= m
  <2> HIDE DEF I
  <2> QED  BY <1>2, LeastNat
<1>4. \A j \in I : j \in 1..Len(text)
  OBVIOUS
<1> HIDE DEF I
<1>5. Min(I) \in I /\ \A m \in I : Min(I) <= m
  BY <1>3 DEF Min
<1> QED  BY <1>1, <1>2, <1>4, <1>5

\* Where the text from a place on has its characters.
LEMMA FromText ==
  ASSUME NEW text \in Seq(Chars), NEW p \in 1..(Len(text) + 1)
  PROVE  /\ From(text, p) \in Seq(Chars)
         /\ Len(From(text, p)) = Len(text) - p + 1
         /\ \A i \in 1..(Len(text) - p + 1) : From(text, p)[i] = text[p + i - 1]
BY DEF From

\* Texts with the same characters are the same.
LEMMA SameText ==
  ASSUME NEW u \in Seq(Chars), NEW v \in Seq(Chars), Len(u) = Len(v),
         \A i \in 1..Len(u) : u[i] = v[i]
  PROVE  u = v
<1>1. u = [i \in 1..Len(u) |-> u[i]] /\ v = [i \in 1..Len(v) |-> v[i]]
  OBVIOUS
<1> QED  BY <1>1

\* The text from a place on, from a place of it on.
LEMMA FromFrom ==
  ASSUME NEW text \in Seq(Chars), NEW p \in 1..(Len(text) + 1),
         NEW n \in 1..(Len(text) - p + 2)
  PROVE  From(From(text, p), n) = From(text, p + n - 1)
<1>1. PICK t : t = From(text, p)
  OBVIOUS
<1>2. /\ t \in Seq(Chars) /\ Len(t) = Len(text) - p + 1
      /\ \A i \in 1..(Len(text) - p + 1) : t[i] = text[p + i - 1]
  BY <1>1, FromText
<1>3. Len(text) \in Nat
  OBVIOUS
<1>4. PICK u : u = From(t, n)
  OBVIOUS
<1>5. /\ u \in Seq(Chars) /\ Len(u) = Len(t) - n + 1
      /\ \A i \in 1..(Len(t) - n + 1) : u[i] = t[n + i - 1]
  <2>1. n \in 1..(Len(t) + 1)
    BY <1>2, <1>3
  <2> QED  BY <1>2, <1>4, <2>1, FromText
<1>6. PICK v : v = From(text, p + n - 1)
  OBVIOUS
<1>7. /\ v \in Seq(Chars) /\ Len(v) = Len(text) - (p + n - 1) + 1
      /\ \A i \in 1..(Len(text) - (p + n - 1) + 1) : v[i] = text[p + n - 1 + i - 1]
  <2>1. PICK m : m = p + n - 1
    OBVIOUS
  <2>2. m \in 1..(Len(text) + 1)
    BY <1>3, <2>1
  <2>3. /\ v \in Seq(Chars) /\ Len(v) = Len(text) - m + 1
        /\ \A i \in 1..(Len(text) - m + 1) : v[i] = text[m + i - 1]
    BY <1>6, <2>1, <2>2, FromText
  <2> QED  BY <2>1, <2>3
<1>8. Len(u) = Len(v)
  BY <1>2, <1>3, <1>5, <1>7
<1>9. ASSUME NEW i \in 1..Len(u) PROVE u[i] = v[i]
  <2>1. i \in 1..(Len(t) - n + 1) /\ n + i - 1 \in 1..(Len(text) - p + 1)
    BY <1>2, <1>3, <1>5, <1>9
  <2>2. u[i] = t[n + i - 1]
    BY <1>5, <2>1
  <2>3. t[n + i - 1] = text[p + (n + i - 1) - 1]
    BY <1>2, <2>1
  <2>4. v[i] = text[p + n - 1 + i - 1]
    BY <1>7, <1>8, <1>9, <1>5
  <2>5. p + (n + i - 1) - 1 = p + n - 1 + i - 1
    BY <2>1
  <2> QED  BY <2>2, <2>3, <2>4, <2>5
<1>10. u = v
  BY <1>5, <1>7, <1>8, <1>9, SameText
<1> QED  BY <1>1, <1>4, <1>6, <1>10

\* After a line the parser is at the next one, or at the end.
LEMMA NextLine ==
  ASSUME NEW text \in Seq(Chars), NEW p \in LineStarts(text)
  PROVE  \E r \in (p + 1)..(Len(text) + 1) :
           /\ AfterLine(From(text, p)) = From(text, r)
           /\ r \in LineStarts(text) \cup {Len(text) + 1}
           /\ \A q \in LineStarts(text) : q < r <=> q <= p
<1>1. Len(text) \in Nat /\ p \in 1..Len(text)
  BY DEF LineStarts
<1>2. PICK t : t = From(text, p)
  OBVIOUS
<1>3. /\ t \in Seq(Chars) /\ Len(t) = Len(text) - p + 1
      /\ \A i \in 1..(Len(text) - p + 1) : t[i] = text[p + i - 1]
  <2>1. p \in 1..(Len(text) + 1)
    BY <1>1
  <2> QED  BY <1>2, <2>1, FromText
<1>4. PICK n : n = Find(t, "\n")
  OBVIOUS
<1>5. n \in 0..Len(t) /\ (n # 0 => t[n] = "\n") /\ (n = 0 => \A i \in 1..Len(t) : t[i] # "\n")
  BY <1>3, <1>4, FindPlace
<1>6. \A i \in 1..Len(t) : t[i] = "\n" => n # 0 /\ n <= i
  BY <1>3, <1>4, FindFirst
<1>7. ASSUME NEW q \in LineStarts(text), q > p PROVE n # 0 /\ p + n <= q
  <2>1. q \in 1..Len(text) /\ text[q - 1] = "\n"
    BY <1>1, <1>7 DEF LineStarts
  <2>2. q - p \in 1..Len(t) /\ q - p \in 1..(Len(text) - p + 1)
    BY <1>1, <1>3, <1>7, <2>1
  <2>3. t[q - p] = text[p + (q - p) - 1]
    BY <1>3, <2>2
  <2>4. p + (q - p) - 1 = q - 1
    BY <1>1, <2>1
  <2>5. t[q - p] = "\n"
    BY <2>1, <2>3, <2>4
  <2>6. n # 0 /\ n <= q - p
    BY <1>6, <2>2, <2>5
  <2> QED  BY <1>1, <1>5, <2>1, <2>6
<1>8. \A q \in LineStarts(text) : q \in 1..Len(text)
  BY DEF LineStarts
<1>9. CASE n = 0
  <2>1. AfterLine(t) = <<>>
    BY <1>4, <1>9 DEF AfterLine
  <2>2. From(text, Len(text) + 1) = <<>>
    BY <1>1 DEF From
  <2>3. \A q \in LineStarts(text) : q < Len(text) + 1 <=> q <= p
    BY <1>1, <1>7, <1>8, <1>9
  <2> QED  BY <1>1, <1>2, <2>1, <2>2, <2>3
<1>10. CASE n # 0
  <2>1. n \in 1..Len(t)
    BY <1>5, <1>10, <1>3
  <2>2. AfterLine(t) = From(t, n + 1)
    BY <1>4, <1>10 DEF AfterLine, From
  <2>3. n + 1 \in 1..(Len(text) - p + 2)
    BY <1>1, <1>3, <2>1
  <2>4. From(t, n + 1) = From(text, p + (n + 1) - 1)
    BY <1>1, <1>2, <2>3, FromFrom
  <2>5. PICK r : r = p + n
    OBVIOUS
  <2>6. p + (n + 1) - 1 = r /\ r \in (p + 1)..(Len(text) + 1)
    BY <1>1, <1>3, <2>1, <2>5
  <2>7. t[n] = text[p + n - 1]
    BY <1>3, <2>1
  <2>8. text[r - 1] = "\n"
    <3>1. r - 1 = p + n - 1
      BY <1>1, <2>1, <2>5
    <3> QED  BY <1>5, <1>10, <2>7, <3>1
  <2>9. r \in LineStarts(text) \cup {Len(text) + 1}
    BY <1>1, <2>6, <2>8 DEF LineStarts
  <2>10. \A q \in LineStarts(text) : q < r <=> q <= p
    BY <1>1, <1>7, <1>8, <2>1, <2>5
  <2> QED  BY <1>2, <2>2, <2>4, <2>6, <2>9, <2>10
<1> QED  BY <1>9, <1>10

\* The largest and the least of a set of places, where a new one is put
\* behind all others.
LEMMA FirstLast ==
  ASSUME NEW S \in SUBSET Nat, NEW p \in Nat, \A q \in S : q < p
  PROVE  /\ Max(S \cup {p}) = p
         /\ S # {} => Min(S \cup {p}) = Min(S) /\ Min(S) \in S
<1>1. Max(S \cup {p}) = p
  <2>1. p \in S \cup {p} /\ \A m \in S \cup {p} : p >= m
    OBVIOUS
  <2>2. Max(S \cup {p}) \in S \cup {p} /\ \A m \in S \cup {p} : Max(S \cup {p}) >= m
    BY <2>1 DEF Max
  <2>3. PICK m : m = Max(S \cup {p})
    OBVIOUS
  <2>4. m \in Nat /\ m >= p /\ m <= p
    BY <2>1, <2>2, <2>3
  <2> QED  BY <2>3, <2>4
<1>2. ASSUME S # {} PROVE Min(S \cup {p}) = Min(S) /\ Min(S) \in S
  <2>1. PICK n \in S : \A m \in S : n <= m
    BY <1>2, LeastNat
  <2>2. Min(S) \in S /\ \A m \in S : Min(S) <= m
    BY <2>1 DEF Min
  <2>3. Min(S) = n
    <3>1. PICK m : m = Min(S)
      OBVIOUS
    <3>2. m \in Nat /\ n \in Nat /\ m <= n /\ n <= m
      BY <2>1, <2>2, <3>1
    <3> QED  BY <3>1, <3>2
  <2>4. n \in S \cup {p} /\ \A m \in S \cup {p} : n <= m
    BY <2>1
  <2>5. Min(S \cup {p}) \in S \cup {p} /\ \A m \in S \cup {p} : Min(S \cup {p}) <= m
    BY <2>4 DEF Min
  <2>6. Min(S \cup {p}) = n
    <3>1. PICK m : m = Min(S \cup {p})
      OBVIOUS
    <3>2. m \in Nat /\ n \in Nat /\ m <= n /\ n <= m
      BY <2>1, <2>4, <2>5, <3>1
    <3> QED  BY <3>1, <3>2
  <2> QED  BY <2>2, <2>3, <2>6
<1> QED  BY <1>1, <1>2

LEMMA LeastOfOne == ASSUME NEW p \in Nat PROVE Min({p}) = p
BY DEF Min

\* The section a line leaves the parser in.
LEMMA SectionNext ==
  ASSUME NEW text \in Seq(Chars), NEW p \in LineStarts(text), NEW r \in Nat,
         \A q \in LineStarts(text) : q < r <=> q <= p
  PROVE  /\ SectionBefore(text, r) = SectionAfter(SectionBefore(text, p), LineAt(text, p))
         /\ SectionBefore(text, r) = SectionBefore(text, p + 1)
<1>1. \A q \in LineStarts(text) : q \in 1..Len(text)
  BY DEF LineStarts
<1>2. Len(text) \in Nat /\ p \in Nat
  BY <1>1
<1> DEFINE Above(q, n) == q \in LineStarts(text) /\ q < n
<1>3. \A q \in LineStarts(text) : (q < r <=> q < p \/ q = p) /\ (q < r <=> q < p + 1)
  <2> TAKE q \in LineStarts(text)
  <2>1. q \in Nat /\ (q < r <=> q <= p)
    BY <1>1
  <2> QED  BY <1>2, <2>1
<1>4. \A q : Above(q, r) <=> Above(q, p) \/ q = p
  BY <1>2, <1>3
<1>5. \A q, n : q \in Named(text, n) <=> Above(q, n) /\ Names(LineAt(text, q))
  BY DEF Named
<1> HIDE DEF Above
<1>6. Named(text, r) = Named(text, p + 1)
  BY <1>3 DEF Named
<1>7. SectionBefore(text, r) = SectionBefore(text, p + 1)
  BY <1>6 DEF SectionBefore
<1>8. CASE ~Names(LineAt(text, p))
  <2>1. Named(text, r) = Named(text, p)
    BY <1>8, <1>4, <1>5
  <2>2. SectionBefore(text, r) = SectionBefore(text, p)
    BY <2>1 DEF SectionBefore
  <2>3. SectionAfter(SectionBefore(text, p), LineAt(text, p)) = SectionBefore(text, p)
    BY <1>8 DEF SectionAfter, Names
  <2> QED  BY <1>7, <2>2, <2>3
<1>9. CASE Names(LineAt(text, p))
  <2>1. PICK N : N = Named(text, p)
    OBVIOUS
  <2>2. N \in SUBSET Nat /\ \A q \in N : q < p
    BY <1>1, <2>1 DEF Named
  <2>3. Named(text, r) = N \cup {p}
    BY <1>9, <1>4, <1>5, <2>1
  <2>4. Max(N \cup {p}) = p
    BY <1>2, <2>2, FirstLast
  <2>5. SectionBefore(text, r) = SectionAfter(<<>>, LineAt(text, p))
    BY <2>3, <2>4 DEF SectionBefore
  <2>6. SectionAfter(SectionBefore(text, p), LineAt(text, p)) = SectionAfter(<<>>, LineAt(text, p))
    BY <1>9 DEF SectionAfter, Names
  <2> QED  BY <1>7, <2>5, <2>6
<1> QED  BY <1>8, <1>9

\* Every line and every section is a text.
LEMMA LineAtText ==
  ASSUME NEW text \in Seq(Chars), NEW p \in LineStarts(text)
  PROVE  LineAt(text, p) \in Seq(Chars)
<1>1. Len(text) \in Nat /\ p \in 1..Len(text)
  BY DEF LineStarts
<1>2. PICK t : t = From(text, p)
  OBVIOUS
<1>3. t \in Seq(Chars)
  BY <1>1, <1>2, FromText
<1> QED  BY <1>2, <1>3, LineTexts DEF LineAt

LEMMA SectionIsText ==
  ASSUME NEW text \in Seq(Chars), NEW p \in Nat
  PROVE  SectionBefore(text, p) \in Seq(Chars)
<1>1. PICK N : N = Named(text, p)
  OBVIOUS
<1>2. <<>> \in Seq(Chars)
  OBVIOUS
<1>3. CASE N = {}
  BY <1>1, <1>2, <1>3 DEF SectionBefore
<1>4. CASE N # {}
  <2>1. N \in SUBSET Nat /\ \A q \in N : q < p /\ q \in LineStarts(text)
    BY <1>1 DEF Named, LineStarts
  <2> DEFINE J == {j \in Nat : p - j \in N}
  <2>2. J # {} /\ J \in SUBSET Nat
    <3>1. PICK q \in N : TRUE
      BY <1>4
    <3>2. p - q \in Nat /\ p - (p - q) = q
      BY <2>1, <3>1
    <3>3. p - q \in J
      BY <3>1, <3>2
    <3> QED  BY <3>3
  <2>3. PICK j \in J : \A m \in J : j <= m
    <3> HIDE DEF J
    <3> QED  BY <2>2, LeastNat
  <2>4. \A q \in N : p - q \in J
    <3> TAKE q \in N
    <3>1. p - q \in Nat /\ p - (p - q) = q
      BY <2>1
    <3> QED  BY <3>1
  <2>5. p - j \in N /\ j \in Nat
    BY <2>3
  <2>6. \A q \in N : q <= p - j
    <3> TAKE q \in N
    <3>1. p - q \in J
      BY <2>4
    <3> HIDE DEF J
    <3>2. j <= p - q
      BY <2>3, <3>1
    <3> QED  BY <2>1, <2>5, <3>2
  <2>7. Max(N) \in N
    BY <2>5, <2>6 DEF Max
  <2>8. PICK q : q = Max(N)
    OBVIOUS
  <2>9. PICK line : line = LineAt(text, q)
    OBVIOUS
  <2>10. line \in Seq(Chars)
    BY <2>1, <2>7, <2>8, <2>9, LineAtText
  <2>11. SectionBefore(text, p) = SectionAfter(<<>>, line)
    BY <1>1, <1>4, <2>8, <2>9 DEF SectionBefore
  <2> QED  BY <1>2, <2>10, <2>11, SectionText
<1> QED  BY <1>3, <1>4

\* A line adds one entry or none.
LEMMA EntriesOneOrNone ==
  ASSUME NEW text \in Seq(Chars), NEW p \in LineStarts(text)
  PROVE  EntriesAt(text, p) = <<>> \/ \E e \in Entry : EntriesAt(text, p) = <<e>>
<1>1. p \in Nat
  BY DEF LineStarts
<1>2. PICK s, line : s = SectionBefore(text, p + 1) /\ line = LineAt(text, p)
  OBVIOUS
<1>3. s \in Seq(Chars) /\ line \in Seq(Chars)
  BY <1>1, <1>2, SectionIsText, LineAtText
<1>4. PICK c : c = Entries(s, line)
  OBVIOUS
<1>5. c \in Seq(Entry)
  BY <1>3, <1>4, EntriesKept
<1>6. c = <<>> \/ \E e : c = <<e>>
  BY <1>4 DEF Entries
<1>7. \A e : c = <<e>> => e \in Entry
  <2> SUFFICES ASSUME NEW e, c = <<e>> PROVE e \in Entry
    OBVIOUS
  <2>1. Len(c) = 1 /\ c[1] = e
    OBVIOUS
  <2> QED  BY <1>5, <2>1
<1> QED  BY <1>2, <1>4, <1>6, <1>7 DEF EntriesAt

\* A search in a list of entries: the entry it comes to first.
LEMMA StringPlace ==
  ASSUME NEW c \in Seq(Entry), NEW s, NEW k
  PROVE  \/ /\ get_string(c, s, k) = <<>>
            /\ \A i \in 1..Len(c) : ~(c[i].section = s /\ c[i].key = k)
         \/ \E i \in 1..Len(c) :
              /\ c[i].section = s /\ c[i].key = k /\ get_string(c, s, k) = c[i].value
              /\ c[i].value # <<>>
              /\ \A j \in 1..(i - 1) : ~(c[j].section = s /\ c[j].key = k)
<1> DEFINE I == {i \in 1..Len(c) : c[i].section = s /\ c[i].key = k}
<1>1. PICK i : i = IF I # {} THEN Min(I) ELSE 0
  OBVIOUS
<1>2. get_string(c, s, k) = IF i = 0 THEN <<>> ELSE c[i].value
  BY <1>1 DEF get_string, SelectInSeq
<1>3. CASE I = {}
  BY <1>1, <1>2, <1>3
<1>4. CASE I # {}
  <2>1. I \in SUBSET Nat
    OBVIOUS
  <2>2. PICK n \in I : \A m \in I : n <= m
    <3> HIDE DEF I
    <3> QED  BY <1>4, <2>1, LeastNat
  <2>3. i \in I /\ \A m \in I : i <= m
    <3> HIDE DEF I
    <3> QED  BY <1>1, <1>4, <2>2 DEF Min
  <2>4. i \in 1..Len(c) /\ c[i].section = s /\ c[i].key = k
    BY <2>3
  <2>5. \A j \in 1..(i - 1) : ~(c[j].section = s /\ c[j].key = k)
    BY <2>3, <2>4
  <2>6. c[i] \in Entry
    BY <2>4
  <2>7. c[i].value # <<>>
    BY <2>6 DEF Entry
  <2> QED  BY <1>2, <2>4, <2>5, <2>7
<1> QED  BY <1>3, <1>4

\* One more entry answers a search that found nothing, and no other one.
LEMMA StringAppend ==
  ASSUME NEW c \in Seq(Entry), NEW e \in Entry, NEW s, NEW k
  PROVE  get_string(c \o <<e>>, s, k) =
           IF get_string(c, s, k) # <<>> THEN get_string(c, s, k)
           ELSE IF e.section = s /\ e.key = k THEN e.value ELSE <<>>
<1>1. PICK d : d = c \o <<e>>
  OBVIOUS
<1>2. /\ d \in Seq(Entry) /\ Len(d) = Len(c) + 1 /\ d[Len(c) + 1] = e
      /\ \A i \in 1..Len(c) : d[i] = c[i]
  BY <1>1
<1>3. Len(c) \in Nat
  OBVIOUS
<1> DEFINE Has(i) == d[i].section = s /\ d[i].key = k
<1>4. \/ /\ get_string(c, s, k) = <<>>
         /\ \A i \in 1..Len(c) : ~Has(i)
      \/ \E i \in 1..Len(c) :
           /\ Has(i) /\ get_string(c, s, k) = d[i].value /\ d[i].value # <<>>
           /\ \A j \in 1..(i - 1) : ~Has(j)
  <2>1. CASE get_string(c, s, k) = <<>> /\ \A i \in 1..Len(c) : ~(c[i].section = s /\ c[i].key = k)
    BY <1>2, <2>1
  <2>2. ASSUME NEW i \in 1..Len(c),
               c[i].section = s, c[i].key = k, get_string(c, s, k) = c[i].value, c[i].value # <<>>,
               \A j \in 1..(i - 1) : ~(c[j].section = s /\ c[j].key = k)
        PROVE  Has(i) /\ get_string(c, s, k) = d[i].value /\ d[i].value # <<>>
               /\ \A j \in 1..(i - 1) : ~Has(j)
    BY <1>2, <1>3, <2>2
  <2> QED  BY <2>1, <2>2, StringPlace
<1>5. \/ /\ get_string(d, s, k) = <<>>
         /\ \A i \in 1..Len(d) : ~Has(i)
      \/ \E i \in 1..Len(d) :
           /\ Has(i) /\ get_string(d, s, k) = d[i].value
           /\ \A j \in 1..(i - 1) : ~Has(j)
  BY <1>2, StringPlace, SMTT(30)
<1>6. Has(Len(c) + 1) <=> e.section = s /\ e.key = k
  BY <1>2
<1> HIDE DEF Has
<1>7. CASE get_string(c, s, k) = <<>>
  <2>1. \A i \in 1..Len(c) : ~Has(i)
    BY <1>4, <1>7
  <2>2. \A i \in 1..Len(d) : Has(i) => i = Len(c) + 1
    BY <1>2, <1>3, <2>1
  <2>3. Len(c) + 1 \in 1..Len(d)
    BY <1>2, <1>3
  <2>4. get_string(d, s, k) = IF Has(Len(c) + 1) THEN d[Len(c) + 1].value ELSE <<>>
    BY <1>5, <2>2, <2>3
  <2> QED  BY <1>1, <1>2, <1>6, <1>7, <2>4
<1>8. CASE get_string(c, s, k) # <<>>
  <2>1. PICK i \in 1..Len(c) :
          Has(i) /\ get_string(c, s, k) = d[i].value /\ \A j \in 1..(i - 1) : ~Has(j)
    BY <1>4, <1>8
  <2>2. PICK m \in 1..Len(d) :
          Has(m) /\ get_string(d, s, k) = d[m].value /\ \A j \in 1..(m - 1) : ~Has(j)
    BY <1>2, <1>3, <1>5, <2>1
  <2>3. i = m
    BY <1>3, <1>2, <2>1, <2>2
  <2> QED  BY <1>1, <1>8, <2>1, <2>2, <2>3
<1> QED  BY <1>7, <1>8

\* The value of a key after one more line.
LEMMA ValueNext ==
  ASSUME NEW text \in Seq(Chars), NEW p \in LineStarts(text), NEW r \in Nat, NEW s, NEW k,
         \A q \in LineStarts(text) : q < r <=> q <= p
  PROVE  ValueBefore(text, r, s, k) =
           IF ValueBefore(text, p, s, k) # <<>> THEN ValueBefore(text, p, s, k)
           ELSE IF Gives(text, p, s, k) THEN EntriesAt(text, p)[1].value ELSE <<>>
<1>1. p \in Nat /\ \A q \in LineStarts(text) : q \in Nat
  BY DEF LineStarts
<1>2. \A q \in LineStarts(text) : q < r <=> q < p \/ q = p
  <2> TAKE q \in LineStarts(text)
  <2>1. q < r <=> q <= p
    OBVIOUS
  <2> QED  BY <1>1, <2>1
<1>3. PICK S : S = Givers(text, p, s, k)
  OBVIOUS
<1>4. S \in SUBSET Nat /\ \A q \in S : q < p /\ q \in LineStarts(text) /\ Gives(text, q, s, k)
  BY <1>1, <1>3 DEF Givers
<1>5. CASE S = {}
  <2>1. ValueBefore(text, p, s, k) = <<>>
    BY <1>3, <1>5 DEF ValueBefore
  <2>2. CASE Gives(text, p, s, k)
    <3>1. Givers(text, r, s, k) = {p}
      BY <1>2, <1>3, <1>5, <2>2 DEF Givers
    <3>2. Min({p}) = p
      BY <1>1, LeastOfOne
    <3> QED  BY <2>1, <2>2, <3>1, <3>2 DEF ValueBefore
  <2>3. CASE ~Gives(text, p, s, k)
    <3>1. Givers(text, r, s, k) = {}
      BY <1>2, <1>3, <1>5, <2>3 DEF Givers
    <3> QED  BY <2>1, <2>3, <3>1 DEF ValueBefore
  <2> QED  BY <2>2, <2>3
<1>6. CASE S # {}
  <2>1. Min(S \cup {p}) = Min(S) /\ Min(S) \in S
    BY <1>1, <1>4, <1>6, FirstLast
  <2>2. Givers(text, r, s, k) = S \/ Givers(text, r, s, k) = S \cup {p}
    <3>1. CASE Gives(text, p, s, k)
      <4>1. Givers(text, r, s, k) = S \cup {p}
        BY <1>2, <1>3, <3>1 DEF Givers
      <4> QED  BY <4>1
    <3>2. CASE ~Gives(text, p, s, k)
      <4>1. Givers(text, r, s, k) = S
        BY <1>2, <1>3, <3>2 DEF Givers
      <4> QED  BY <4>1
    <3> QED  BY <3>1, <3>2
  <2>3. PICK q : q = Min(S)
    OBVIOUS
  <2>4. ValueBefore(text, r, s, k) = EntriesAt(text, q)[1].value
    BY <1>6, <2>1, <2>2, <2>3 DEF ValueBefore
  <2>5. ValueBefore(text, p, s, k) = EntriesAt(text, q)[1].value
    BY <1>3, <1>6, <2>3 DEF ValueBefore
  <2>6. q \in LineStarts(text) /\ EntriesAt(text, q) # <<>>
    BY <1>4, <2>1, <2>3 DEF Gives
  <2>7. PICK e \in Entry : EntriesAt(text, q) = <<e>>
    BY <2>6, EntriesOneOrNone
  <2>8. EntriesAt(text, q)[1].value # <<>>
    BY <2>7 DEF Entry
  <2> QED  BY <2>4, <2>5, <2>8
<1> QED  BY <1>5, <1>6

-----------------------------------------------------------------------------
(* The parser of the lines one after the other finds what the text says.    *)

\* The parser has come to a place p of the text.
ReadUpTo(text, p) ==
  /\ p \in LineStarts(text) \cup {Len(text) + 1}
  /\ rest = From(text, p)
  /\ section = SectionBefore(text, p)
  /\ \A s, k : get_string(config, s, k) = ValueBefore(text, p, s, k)

Parsed ==
  /\ at = "start" => config = <<>> /\ section = <<>>
  /\ at = "parse" => file \in Files /\ \E p \in 1..(Len(Render(file)) + 1) : ReadUpTo(Render(file), p)
  /\ at = "read" =>
       file \in Files /\ \A s, k : get_string(config, s, k) = TextValue(Render(file), s, k)

\* A line of the text read, with all the parser makes of it.
LEMMA LineRead ==
  ASSUME Texts, NEW text \in Seq(Chars), NEW p \in 1..(Len(text) + 1), ReadUpTo(text, p),
         ParseLine
  PROVE  \E r \in 1..(Len(text) + 1) : ReadUpTo(text, r)'
<1>1. rest = From(text, p) /\ section = SectionBefore(text, p) /\ rest # <<>>
  BY DEF ReadUpTo, ParseLine
<1>2. Len(text) \in Nat
  OBVIOUS
<1>3. p \in LineStarts(text)
  <2>1. CASE p = Len(text) + 1
    <3>1. From(text, p) = <<>>
      BY <1>2, <2>1 DEF From
    <3> QED  BY <1>1, <3>1
  <2> QED  BY <2>1 DEF ReadUpTo
<1>4. PICK r \in (p + 1)..(Len(text) + 1) :
        /\ AfterLine(From(text, p)) = From(text, r)
        /\ r \in LineStarts(text) \cup {Len(text) + 1}
        /\ \A q \in LineStarts(text) : q < r <=> q <= p
  BY <1>3, NextLine
<1>5. r \in Nat /\ p \in Nat
  BY <1>2, <1>4
<1>6. rest' = From(text, r)
  BY <1>1, <1>4 DEF ParseLine
<1>7. SectionBefore(text, r) = SectionAfter(section, LineAt(text, p))
      /\ SectionBefore(text, r) = SectionBefore(text, p + 1)
  BY <1>1, <1>3, <1>4, <1>5, SectionNext
<1>8. section' = SectionBefore(text, r)
  BY <1>1, <1>7 DEF ParseLine, LineAt
<1>9. config' = config \o EntriesAt(text, p)
  BY <1>1, <1>7, <1>8 DEF ParseLine, EntriesAt, LineAt
<1>10. config \in Seq(Entry)
  BY DEF Texts
<1>11. ASSUME NEW s, NEW k
       PROVE  get_string(config', s, k) = ValueBefore(text, r, s, k)
  <2>1. PICK v : v = get_string(config, s, k)
    OBVIOUS
  <2>2. ValueBefore(text, p, s, k) = v
    BY <2>1 DEF ReadUpTo
  <2>3. ValueBefore(text, r, s, k) =
          IF v # <<>> THEN v
          ELSE IF Gives(text, p, s, k) THEN EntriesAt(text, p)[1].value ELSE <<>>
    BY <1>3, <1>4, <1>5, <2>2, ValueNext
  <2>4. CASE EntriesAt(text, p) = <<>>
    <3>1. config' = config
      BY <1>9, <1>10, <2>4
    <3>2. ~Gives(text, p, s, k)
      BY <2>4 DEF Gives
    <3> QED  BY <2>1, <2>3, <3>1, <3>2
  <2>5. ASSUME NEW e \in Entry, EntriesAt(text, p) = <<e>>
        PROVE  get_string(config', s, k) = ValueBefore(text, r, s, k)
    <3>1. Gives(text, p, s, k) <=> e.section = s /\ e.key = k
      BY <2>5 DEF Gives
    <3>2. get_string(config \o <<e>>, s, k) =
            IF v # <<>> THEN v ELSE IF e.section = s /\ e.key = k THEN e.value ELSE <<>>
      BY <1>10, <2>1, StringAppend
    <3>3. config' = config \o <<e>>
      BY <1>9, <2>5
    <3> QED  BY <2>3, <2>5, <3>1, <3>2, <3>3
  <2> QED  BY <1>3, <2>4, <2>5, EntriesOneOrNone
<1>12. r \in 1..(Len(text) + 1)
  BY <1>2, <1>4
<1>13. ReadUpTo(text, r)'
  BY <1>4, <1>6, <1>8, <1>11 DEF ReadUpTo
<1> QED  BY <1>12, <1>13

LEMMA NothingFound == \A s, k : get_string(<<>>, s, k) = <<>>
<1> SUFFICES ASSUME NEW s, NEW k PROVE get_string(<<>>, s, k) = <<>>
  OBVIOUS
<1> DEFINE I == {i \in 1..Len(<<>>) : <<>>[i].section = s /\ <<>>[i].key = k}
<1>1. I = {}
  OBVIOUS
<1>2. PICK i : i = IF I # {} THEN Min(I) ELSE 0
  OBVIOUS
<1>3. get_string(<<>>, s, k) = IF i = 0 THEN <<>> ELSE <<>>[i].value
  BY <1>2 DEF get_string, SelectInSeq
<1> QED  BY <1>1, <1>2, <1>3

LEMMA ParsedInitial == Init => Parsed
BY DEF Init, Parsed

LEMMA ParsedStep == Parsed /\ Texts /\ Places /\ [Next]_vars => Parsed'
<1> SUFFICES ASSUME Parsed, Texts, Places, [Next]_vars PROVE Parsed'
  OBVIOUS
<1>1. CASE LoadFile /\ at' = "parse"
  <2>1. /\ file \in Files /\ rest' = Render(file) /\ UNCHANGED <<file, section, config>>
        /\ config = <<>> /\ section = <<>>
    BY <1>1 DEF LoadFile, End, Places, Parsed
  <2>2. PICK text : text = Render(file)
    OBVIOUS
  <2>3. text \in Seq(Chars) /\ Len(text) \in Nat
    BY <2>1, <2>2, RenderAssumption
  <2>4. 1 \in LineStarts(text) \cup {Len(text) + 1} /\ 1 \in 1..(Len(text) + 1)
    BY <2>3 DEF LineStarts
  <2>5. \A q \in LineStarts(text) : ~(q < 1)
    BY <2>3 DEF LineStarts
  <2>6. SectionBefore(text, 1) = <<>>
    BY <2>5 DEF SectionBefore, Named
  <2>7. \A s, k : ValueBefore(text, 1, s, k) = <<>>
    BY <2>5 DEF ValueBefore, Givers
  <2>8. \A s, k : get_string(config', s, k) = <<>>
    <3> TAKE s, k
    <3> QED  BY <2>1, NothingFound
  <2>9. From(text, 1) = text
    BY <2>3 DEF From
  <2>10. ReadUpTo(text, 1)'
    BY <2>1, <2>2, <2>4, <2>6, <2>7, <2>8, <2>9 DEF ReadUpTo
  <2> QED  BY <1>1, <2>1, <2>2, <2>4, <2>10 DEF Parsed
<1>2. CASE ParseLine
  <2>1. PICK text : text = Render(file)
    OBVIOUS
  <2>2. file \in Files /\ at = "parse" /\ at' = "parse" /\ UNCHANGED file
    BY <1>2 DEF ParseLine, Parsed
  <2>3. text \in Seq(Chars)
    BY <2>1, <2>2, RenderAssumption
  <2>4. PICK p \in 1..(Len(text) + 1) : ReadUpTo(text, p)
    BY <2>1, <2>2 DEF Parsed
  <2>5. PICK r \in 1..(Len(text) + 1) : ReadUpTo(text, r)'
    BY <1>2, <2>3, <2>4, LineRead
  <2> QED  BY <2>1, <2>2, <2>5 DEF Parsed
<1>3. CASE ParseDone
  <2>1. PICK text : text = Render(file)
    OBVIOUS
  <2>2. file \in Files /\ at = "parse" /\ at' = "read" /\ rest = <<>> /\ UNCHANGED <<file, config>>
    BY <1>3 DEF ParseDone, Parsed
  <2>3. text \in Seq(Chars) /\ Len(text) \in Nat
    BY <2>1, <2>2, RenderAssumption
  <2>4. PICK p \in 1..(Len(text) + 1) : ReadUpTo(text, p)
    BY <2>1, <2>2 DEF Parsed
  <2>5. PICK t : t = From(text, p)
    OBVIOUS
  <2>6. Len(t) = Len(text) - p + 1
    BY <2>3, <2>5, FromText
  <2>7. t = <<>>
    BY <2>2, <2>4, <2>5 DEF ReadUpTo
  <2>8. p = Len(text) + 1
    BY <2>3, <2>6, <2>7
  <2>9. \A s, k : get_string(config, s, k) = TextValue(text, s, k)
    BY <2>4, <2>8 DEF ReadUpTo, TextValue
  <2> QED  BY <2>1, <2>2, <2>9 DEF Parsed
<1>4. CASE UNCHANGED vars
  BY <1>4 DEF vars, Parsed, ReadUpTo
<1>5. ASSUME at' \notin {"start", "parse", "read"} PROVE Parsed'
  BY <1>5 DEF Parsed
<1>6. CASE LoadFile /\ at' # "parse"
  BY <1>5, <1>6 DEF LoadFile, End
<1>7. CASE ReadSettings
  <2>1. at' = "log" \/ at' = "ended"
    BY <1>7 DEF ReadSettings, End
  <2> QED  BY <1>5, <2>1
<1>8. CASE StartLog \/ CreateEnclave \/ GetEnclaveId \/ InitEnclave
  BY <1>5, <1>8 DEF StartLog, CreateEnclave, GetEnclaveId, InitEnclave
<1>9. CASE StartServer \/ PressEnter \/ ShutdownServer
  BY <1>5, <1>9 DEF StartServer, PressEnter, ShutdownServer, End
<1>10. CASE FreeEnclave \/ Cleanup
  BY <1>5, <1>10 DEF FreeEnclave, Cleanup, End
<1> QED
  BY <1>1, <1>2, <1>3, <1>4, <1>6, <1>7, <1>8, <1>9, <1>10 DEF Next, Main

LEMMA ParsedAlways == Spec => []Parsed
BY ParsedInitial, ParsedStep, TextsAlways, PTL DEF Spec

-----------------------------------------------------------------------------
(* What main works with.                                                    *)

\* What main has read is what the text says.
AsTheText == settings # Unset =>
  file \in Files /\ \A key \in Keys : settings[key] = TextValue(Render(file), Home(key), <<key>>)

LEMMA ReadStep == AsTheText /\ Parsed /\ [Next]_vars => AsTheText'
<1> SUFFICES ASSUME AsTheText, Parsed, [Next]_vars PROVE AsTheText'
  OBVIOUS
<1>1. CASE ReadSettings
  <2>1. \A key \in Keys : settings'[key] = get_string(config, Home(key), <<key>>)
    BY <1>1 DEF ReadSettings
  <2>2. at = "read" /\ UNCHANGED file
    BY <1>1 DEF ReadSettings
  <2>3. file \in Files /\ \A s, k : get_string(config, s, k) = TextValue(Render(file), s, k)
    BY <2>2 DEF Parsed
  <2>4. \A key \in Keys : settings'[key] = TextValue(Render(file'), Home(key), <<key>>)
    BY <2>1, <2>2, <2>3
  <2> QED  BY <2>2, <2>3, <2>4 DEF AsTheText
<1>2. ASSUME UNCHANGED <<file, settings>> PROVE AsTheText'
  BY <1>2 DEF AsTheText
<1>3. CASE LoadFile \/ ParseLine \/ ParseDone
  BY <1>2, <1>3 DEF LoadFile, ParseLine, ParseDone
<1>4. CASE StartLog \/ CreateEnclave \/ GetEnclaveId \/ InitEnclave
  BY <1>2, <1>4 DEF StartLog, CreateEnclave, GetEnclaveId, InitEnclave
<1>5. CASE StartServer \/ PressEnter \/ ShutdownServer
  BY <1>2, <1>5 DEF StartServer, PressEnter, ShutdownServer
<1>6. CASE FreeEnclave \/ Cleanup
  BY <1>2, <1>6 DEF FreeEnclave, Cleanup
<1>7. CASE UNCHANGED vars
  BY <1>2, <1>7 DEF vars
<1> QED  BY <1>1, <1>3, <1>4, <1>5, <1>6, <1>7 DEF Next, Main

\* For every file there can be, whatever its lines are, and in whatever order:
\* each setting main works with is the value of the first line of the file
\* that gives its key one under the section the code asks for, with the
\* section named last (iniconfig.cpp:128-174, 182-215, App.cpp:55-82).
THEOREM FirstLineCounts ==
  Spec => [](settings # Unset => \A key \in Keys :
               settings[key] = TextValue(Render(file), Home(key), <<key>>))
<1> DEFINE Goal == settings # Unset =>
             \A key \in Keys : settings[key] = TextValue(Render(file), Home(key), <<key>>)
<1>1. Init => AsTheText
  BY DEF Init, AsTheText
<1>2. AsTheText => Goal
  BY DEF AsTheText
<1> HIDE DEF Goal
<1>3. Spec => []Goal
  BY <1>1, <1>2, ReadStep, ParsedAlways, PTL DEF Spec
<1> QED  BY <1>3 DEF Goal

-----------------------------------------------------------------------------
(* What the parser finds in a line that is plainly written.                 *)

Space == " "
Quote == "\""
Blots == {Space, "\r", Quote}
Clean(v) == v \in Seq(Chars) /\ \A i \in 1..Len(v) : v[i] \notin Blots

\* The text t is v after n blanks, and after a quote if q is 1, with nothing
\* but blanks, "\r" and quotes behind it.
Written(t, v, n, q) ==
  /\ t \in Seq(Chars) /\ Clean(v) /\ n \in Nat /\ q \in {0, 1}
  /\ n + q + Len(v) <= Len(t)
  /\ \A i \in 1..n : t[i] = Space
  /\ q = 1 => t[n + 1] = Quote
  /\ \A i \in 1..Len(v) : t[n + q + i] = v[i]
  /\ \A i \in (n + q + Len(v) + 1)..Len(t) : t[i] \in Blots

\* Where the characters of a text come to that something is cut out of.
LEMMA CutAt ==
  ASSUME NEW t \in Seq(Chars), NEW p \in 1..Len(t)
  PROVE  /\ Cut(t, p) \in Seq(Chars)
         /\ Len(Cut(t, p)) = p - 1 + IF 2 * p <= Len(t) THEN Len(t) - 2 * p + 1 ELSE 0
         /\ \A i \in 1..Len(Cut(t, p)) : Cut(t, p)[i] = IF i < p THEN t[i] ELSE t[i + p]
<1> DEFINE u == SubSeq(t, 1, p - 1)
           w == SubSeq(t, 2 * p, Len(t))
<1>1. Len(t) \in Nat /\ p \in Nat
  OBVIOUS
<1>2. u \in Seq(Chars) /\ Len(u) = p - 1 /\ \A i \in 1..(p - 1) : u[i] = t[i]
  OBVIOUS
<1>3. /\ w \in Seq(Chars)
      /\ Len(w) = IF 2 * p <= Len(t) THEN Len(t) - 2 * p + 1 ELSE 0
      /\ \A i \in 1..Len(w) : w[i] = t[2 * p + i - 1]
  OBVIOUS
<1> HIDE DEF u, w
<1>4. /\ u \o w \in Seq(Chars) /\ Len(u \o w) = Len(u) + Len(w)
      /\ \A i \in 1..Len(u \o w) : (u \o w)[i] = IF i <= Len(u) THEN u[i] ELSE w[i - Len(u)]
  BY <1>2, <1>3
<1>5. Cut(t, p) = u \o w
  BY DEF Cut, u, w
<1>6. ASSUME NEW i \in 1..Len(u \o w)
      PROVE  (u \o w)[i] = IF i < p THEN t[i] ELSE t[i + p]
  <2>1. CASE i < p
    BY <1>1, <1>2, <1>4, <2>1
  <2>2. CASE ~(i < p)
    <3>1. i - Len(u) = i - p + 1 /\ i - p + 1 \in 1..Len(w)
      <4>1. PICK l : l = Len(w)
        OBVIOUS
      <4>2. l \in Nat /\ i \in 1..(p - 1 + l) /\ Len(u) = p - 1
        BY <1>2, <1>3, <1>4, <4>1
      <4>3. i - p + 1 \in 1..l /\ i - (p - 1) = i - p + 1
        BY <1>1, <2>2, <4>2
      <4> QED  BY <4>1, <4>2, <4>3
    <3>2. w[i - p + 1] = t[2 * p + (i - p + 1) - 1]
      BY <1>3, <3>1
    <3>3. 2 * p + (i - p + 1) - 1 = i + p
      BY <1>1
    <3>4. (u \o w)[i] = w[i - p + 1]
      BY <1>1, <1>2, <1>4, <2>2, <3>1
    <3> QED  BY <2>2, <3>2, <3>3, <3>4
  <2> QED  BY <2>1, <2>2
<1> QED  BY <1>2, <1>3, <1>4, <1>5, <1>6

\* A blank in front is what trim_string deletes first.
LEMMA BlankFirst ==
  ASSUME NEW t \in Seq(Chars), t # <<>>, t[1] = Space
  PROVE  Blot(t) = 1
<1>1. PICK a, b, c : a = Find(t, Space) /\ b = Find(t, "\r") /\ c = Find(t, Quote)
  OBVIOUS
<1>2. Len(t) \in Nat /\ 1 \in 1..Len(t)
  OBVIOUS
<1>3. a \in 0..Len(t)
  BY <1>1, FindPlace
<1>4. a = 1
  <2>1. a # 0 /\ a <= 1
    BY <1>1, <1>2, FindFirst
  <2> QED  BY <1>2, <1>3, <2>1
<1>5. PICK places : places = <<a, b, c>>
  OBVIOUS
<1>6. Len(places) = 3 /\ places[1] = 1
  BY <1>4, <1>5
<1> DEFINE I == {i \in 1..Len(places) : places[i] # 0}
<1>7. Blot(t) = LET found == IF I # {} THEN Min(I) ELSE 0
                IN  IF found = 0 THEN 0 ELSE places[found]
  BY <1>1, <1>5 DEF Blot, SelectInSeq, Space, Quote
<1> HIDE <1>1
<1>8. 1 \in I /\ \A i \in I : i \in Nat /\ 1 <= i
  BY <1>6
<1> HIDE DEF I
<1>9. Min(I) = 1
  BY <1>8 DEF Min
<1> QED  BY <1>6, <1>7, <1>8, <1>9

\* In front, only the character itself is cut out.
LEMMA CutFront ==
  ASSUME NEW t \in Seq(Chars), t # <<>>
  PROVE  /\ Cut(t, 1) \in Seq(Chars) /\ Len(Cut(t, 1)) = Len(t) - 1
         /\ \A i \in 1..(Len(t) - 1) : Cut(t, 1)[i] = t[i + 1]
<1>1. Len(t) \in Nat /\ 1 \in 1..Len(t)
  OBVIOUS
<1>2. PICK c : c = Cut(t, 1)
  OBVIOUS
<1>3. /\ c \in Seq(Chars)
      /\ Len(c) = 1 - 1 + IF 2 * 1 <= Len(t) THEN Len(t) - 2 * 1 + 1 ELSE 0
      /\ \A i \in 1..Len(c) : c[i] = IF i < 1 THEN t[i] ELSE t[i + 1]
  BY <1>1, <1>2, CutAt
<1>4. Len(c) = Len(t) - 1
  <2>1. PICK l : l = Len(c)
    OBVIOUS
  <2>2. PICK n : n = Len(t)
    OBVIOUS
  <2>3. l = 1 - 1 + IF 2 * 1 <= n THEN n - 2 * 1 + 1 ELSE 0
    BY <1>3, <2>1, <2>2
  <2>4. n \in Nat /\ n >= 1
    BY <1>1, <2>2
  <2> HIDE <2>1, <2>2
  <2>5. l = n - 1
    BY <2>3, <2>4
  <2> QED  BY <2>1, <2>2, <2>5
<1>5. \A i \in 1..(Len(t) - 1) : c[i] = t[i + 1]
  BY <1>1, <1>3, <1>4
<1> QED  BY <1>2, <1>3, <1>4, <1>5

\* What trim_string deletes of such a text leaves one that is shorter.
LEMMA WrittenCut ==
  ASSUME NEW t, NEW v, NEW n, NEW q, Written(t, v, n, q), Blot(t) # 0
  PROVE  \E m, r : Written(Cut(t, Blot(t)), v, m, r)
<1>1. /\ t \in Seq(Chars) /\ Len(t) \in Nat /\ v \in Seq(Chars) /\ Len(v) \in Nat
      /\ n \in Nat /\ q \in {0, 1} /\ n + q + Len(v) <= Len(t)
      /\ Clean(v) /\ \A i \in 1..Len(v) : v[i] \notin Blots
  BY DEF Written, Clean
<1>2. /\ \A i \in 1..n : t[i] = Space
      /\ q = 1 => t[n + 1] = Quote
      /\ \A i \in 1..Len(v) : t[n + q + i] = v[i]
      /\ \A i \in (n + q + Len(v) + 1)..Len(t) : t[i] \in Blots
  BY DEF Written
<1>3. PICK p : p = Blot(t)
  OBVIOUS
<1>4. p \in 1..Len(t) /\ t[p] \in Blots
  <2>1. p \in 0..Len(t)
    BY <1>1, <1>3, BlotPlace
  <2>2. t[p] \in Blots
    BY <1>1, <1>3, BlotPlace DEF Blots, Space, Quote
  <2> QED  BY <1>1, <1>3, <2>1, <2>2
<1>5. PICK c : c = Cut(t, p)
  OBVIOUS
<1>6. ASSUME NEW m, NEW r, Written(c, v, m, r) PROVE \E m1, r1 : Written(Cut(t, Blot(t)), v, m1, r1)
  BY <1>3, <1>5, <1>6
<1>7. ASSUME p = 1
      PROVE  c \in Seq(Chars) /\ Len(c) = Len(t) - 1 /\ \A i \in 1..(Len(t) - 1) : c[i] = t[i + 1]
  <2>1. t # <<>>
    BY <1>1, <1>4
  <2> QED  BY <1>1, <1>5, <1>7, <2>1, CutFront
<1>8. CASE n # 0
  <2>1. t[1] = Space /\ t # <<>>
    BY <1>1, <1>2, <1>8
  <2>2. p = 1
    BY <1>1, <1>3, <2>1, BlankFirst
  <2>3. c \in Seq(Chars) /\ Len(c) = Len(t) - 1 /\ \A i \in 1..(Len(t) - 1) : c[i] = t[i + 1]
    BY <1>7, <2>2
  <2>4. PICK m : m = n - 1
    OBVIOUS
  <2>5. m \in Nat /\ n = m + 1 /\ m + q + Len(v) <= Len(c)
    BY <1>1, <1>8, <2>3, <2>4
  <2>6. ASSUME NEW i \in 1..m PROVE c[i] = Space
    <3>1. i + 1 \in 1..n /\ i \in 1..(Len(t) - 1)
      BY <1>1, <2>5
    <3> QED  BY <1>2, <2>3, <3>1
  <2>7. ASSUME q = 1 PROVE c[m + 1] = Quote
    <3>1. m + 1 \in 1..(Len(t) - 1) /\ (m + 1) + 1 = n + 1
      BY <1>1, <2>5, <2>7
    <3> QED  BY <1>2, <2>3, <2>7, <3>1
  <2>8. ASSUME NEW i \in 1..Len(v) PROVE c[m + q + i] = v[i]
    <3>1. m + q + i \in 1..(Len(t) - 1) /\ (m + q + i) + 1 = n + q + i
      BY <1>1, <2>5
    <3> QED  BY <1>2, <2>3, <3>1
  <2>9. ASSUME NEW i \in (m + q + Len(v) + 1)..Len(c) PROVE c[i] \in Blots
    <3>1. i \in 1..(Len(t) - 1) /\ i + 1 \in (n + q + Len(v) + 1)..Len(t)
      BY <1>1, <2>3, <2>5
    <3> QED  BY <1>2, <2>3, <3>1
  <2>10. Written(c, v, m, q)
    BY <1>1, <2>3, <2>5, <2>6, <2>7, <2>8, <2>9 DEF Written
  <2> QED  BY <1>6, <2>10
<1>9. CASE n = 0 /\ q = 1 /\ p = 1
  <2>1. c \in Seq(Chars) /\ Len(c) = Len(t) - 1 /\ \A i \in 1..(Len(t) - 1) : c[i] = t[i + 1]
    BY <1>7, <1>9
  <2>2. ASSUME NEW i \in 1..Len(v) PROVE c[0 + 0 + i] = v[i]
    <3>1. i \in 1..(Len(t) - 1) /\ i + 1 = n + q + i /\ 0 + 0 + i = i
      BY <1>1, <1>9
    <3> QED  BY <1>2, <2>1, <3>1
  <2>3. ASSUME NEW i \in (0 + 0 + Len(v) + 1)..Len(c) PROVE c[i] \in Blots
    <3>1. i \in 1..(Len(t) - 1) /\ i + 1 \in (n + q + Len(v) + 1)..Len(t)
      BY <1>1, <1>9, <2>1
    <3> QED  BY <1>2, <2>1, <3>1
  <2>4. 0 + 0 + Len(v) <= Len(c) /\ \A i \in 1..0 : c[i] = Space
    BY <1>1, <1>9, <2>1
  <2>5. Written(c, v, 0, 0)
    BY <1>1, <2>1, <2>2, <2>3, <2>4 DEF Written
  <2> QED  BY <1>6, <2>5
<1>10. CASE n = 0 /\ ~(q = 1 /\ p = 1)
  <2>1. p > q + Len(v)
    <3> SUFFICES ASSUME ~(p > q + Len(v)) PROVE FALSE
      OBVIOUS
    <3>1. p - q \in 1..Len(v) /\ n + q + (p - q) = p
      BY <1>1, <1>4, <1>10
    <3> QED  BY <1>1, <1>2, <1>4, <3>1
  <2>2. /\ c \in Seq(Chars)
        /\ Len(c) = p - 1 + IF 2 * p <= Len(t) THEN Len(t) - 2 * p + 1 ELSE 0
        /\ \A i \in 1..Len(c) : c[i] = IF i < p THEN t[i] ELSE t[i + p]
    BY <1>1, <1>4, <1>5, CutAt
  <2>3. Len(c) \in Nat /\ 0 + q + Len(v) <= Len(c)
    BY <1>1, <1>4, <2>1, <2>2
  <2>4. ASSUME q = 1 PROVE c[0 + 1] = Quote
    <3>1. 1 \in 1..Len(c) /\ 1 < p /\ n + 1 = 1 /\ 0 + 1 = 1
      BY <1>1, <1>4, <1>10, <2>1, <2>3, <2>4
    <3>2. c[1] = t[1]
      BY <2>2, <3>1
    <3> QED  BY <1>2, <2>4, <3>1, <3>2
  <2>5. ASSUME NEW i \in 1..Len(v) PROVE c[0 + q + i] = v[i]
    <3>1. q + i \in 1..Len(c) /\ q + i < p /\ n + q + i = q + i /\ 0 + q + i = q + i
      BY <1>1, <1>4, <1>10, <2>1, <2>3
    <3>2. c[q + i] = t[q + i]
      BY <2>2, <3>1
    <3> QED  BY <1>2, <3>1, <3>2
  <2>6. ASSUME NEW i \in (0 + q + Len(v) + 1)..Len(c) PROVE c[i] \in Blots
    <3>1. i \in 1..Len(c) /\ q + Len(v) + 1 <= i
      BY <1>1, <2>3
    <3>2. CASE i < p
      <4>1. i \in (n + q + Len(v) + 1)..Len(t)
        BY <1>1, <1>4, <1>10, <3>1, <3>2
      <4> QED  BY <1>2, <2>2, <3>1, <3>2, <4>1
    <3>3. CASE ~(i < p)
      <4>1. i + p \in (n + q + Len(v) + 1)..Len(t)
        <5>1. PICK l, d : l = Len(c) /\ d = Len(t)
          OBVIOUS
        <5>2. l = p - 1 + IF 2 * p <= d THEN d - 2 * p + 1 ELSE 0
          BY <2>2, <5>1
        <5>3. d \in Nat /\ p \in 1..d /\ i \in 1..l
          BY <1>1, <1>4, <3>1, <5>1
        <5>4. i + p <= d
          BY <3>3, <5>2, <5>3
        <5> QED  BY <1>1, <1>10, <3>1, <5>1, <5>3, <5>4
      <4> QED  BY <1>2, <2>2, <3>1, <3>3, <4>1
    <3> QED  BY <3>2, <3>3
  <2>7. \A i \in 1..0 : c[i] = Space
    OBVIOUS
  <2>8. Written(c, v, 0, q)
    BY <1>1, <2>2, <2>3, <2>4, <2>5, <2>6, <2>7 DEF Written
  <2> QED  BY <1>6, <2>8
<1> QED  BY <1>8, <1>9, <1>10

\* A name or a value comes out of trim_string as it was written.
LEMMA WrittenTrim ==
  ASSUME NEW t0, NEW v, NEW n0, NEW q0, Written(t0, v, n0, q0)
  PROVE  trim_string[t0] = v
<1> DEFINE Bad(t) == trim_string[t] # v /\ \E n, q : Written(t, v, n, q)
           T == {k \in Nat : \E t \in Seq(Chars) : Len(t) = k /\ Bad(t)}
<1> SUFFICES ASSUME T # {} PROVE FALSE
  <2>1. t0 \in Seq(Chars) /\ Len(t0) \in Nat
    BY DEF Written
  <2> QED  BY <2>1
<1>1. PICK k \in T : \A j \in T : k <= j
  <2>1. T \in SUBSET Nat
    OBVIOUS
  <2> HIDE DEF T
  <2> QED  BY <2>1, LeastNat
<1>2. PICK t \in Seq(Chars) : Len(t) = k /\ Bad(t)
  OBVIOUS
<1>3. PICK n, q : Written(t, v, n, q)
  BY <1>2
<1>4. CASE Blot(t) = 0
  <2>1. Len(t) \in Nat /\ v \in Seq(Chars) /\ Len(v) \in Nat /\ n \in Nat /\ q \in {0, 1}
    BY <1>3 DEF Written, Clean
  <2>2. \A i \in 1..Len(t) : t[i] \notin Blots
    BY <1>4, BlotPlace DEF Blots, Space, Quote
  <2>3. n = 0
    <3> SUFFICES ASSUME n # 0 PROVE FALSE
      OBVIOUS
    <3>1. 1 \in 1..n /\ 1 \in 1..Len(t)
      BY <1>3, <2>1 DEF Written
    <3>2. t[1] = Space
      BY <1>3, <3>1 DEF Written
    <3> QED  BY <2>2, <3>1, <3>2 DEF Blots
  <2>4. q = 0
    <3> SUFFICES ASSUME q = 1 PROVE FALSE
      BY <2>1
    <3>1. t[1] = Quote /\ 1 \in 1..Len(t)
      BY <1>3, <2>1, <2>3 DEF Written
    <3> QED  BY <2>2, <3>1 DEF Blots
  <2>5. Len(t) = Len(v)
    <3> SUFFICES ASSUME Len(v) < Len(t) PROVE FALSE
      BY <1>3, <2>1, <2>3, <2>4 DEF Written
    <3>1. Len(t) \in (n + q + Len(v) + 1)..Len(t) /\ Len(t) \in 1..Len(t)
      BY <2>1, <2>3, <2>4
    <3>2. t[Len(t)] \in Blots
      BY <1>3, <3>1 DEF Written
    <3> QED  BY <2>2, <3>1, <3>2
  <2>6. ASSUME NEW i \in 1..Len(t) PROVE t[i] = v[i]
    <3>1. t[n + q + i] = v[i]
      BY <1>3, <2>5 DEF Written
    <3>2. n + q + i = i
      BY <2>3, <2>4
    <3> QED  BY <3>1, <3>2
  <2>7. t = v
    BY <2>1, <2>5, <2>6, SameText
  <2> QED  BY <1>2, <1>4, <2>7, TrimString
<1>5. CASE Blot(t) # 0
  <2>1. PICK c : c = Cut(t, Blot(t))
    OBVIOUS
  <2>2. c \in Seq(Chars) /\ Len(c) \in 0..k - 1
    BY <1>2, <1>5, <2>1, CutText
  <2>3. \E m, r : Written(c, v, m, r)
    BY <1>3, <1>5, <2>1, WrittenCut
  <2>4. trim_string[t] = trim_string[c]
    BY <1>5, <2>1, TrimString
  <2>5. Len(c) \in T
    BY <1>2, <2>2, <2>3, <2>4
  <2> QED  BY <1>1, <2>2, <2>5
<1> QED  BY <1>4, <1>5

\* Under a section, a line "key = value" gives the key exactly that value,
\* whatever stands in either but a blank, a quote or "\r", and in the key "=";
\* blanks in front of either, a quote in front of the value, and any blanks,
\* quotes and "\r" behind either do not count (iniconfig.cpp:143-166, 309-317).
THEOREM PlainPairRead ==
  ASSUME NEW s \in Seq(Chars), s # <<>>, NEW line \in Seq(Chars), NEW e \in 1..Len(line),
         line[e] = "=", \A i \in 1..(e - 1) : line[i] # "=",
         NEW key, key # <<>>, NEW value, value # <<>>, NEW m, NEW n, NEW q,
         Written(SubSeq(line, 1, e - 1), key, m, 0),
         Written(SubSeq(line, e + 1, Len(line)), value, n, q)
  PROVE  Entries(s, line) = <<[section |-> s, key |-> key, value |-> value]>>
<1>1. PICK f : f = Find(line, "=")
  OBVIOUS
<1>2. f \in 0..Len(line) /\ f # 0 /\ f <= e
  BY <1>1, FindPlace, FindFirst
<1>3. line[f] = "="
  BY <1>1, <1>2, FindPlace
<1>4. f = e
  BY <1>2, <1>3
<1>5. trim_string[SubSeq(line, 1, e - 1)] = key
  BY WrittenTrim
<1>6. trim_string[SubSeq(line, e + 1, Len(line))] = value
  BY WrittenTrim
<1>7. PICK key0, value0 : /\ key0 = trim_string[SubSeq(line, 1, f - 1)]
                          /\ value0 = trim_string[SubSeq(line, f + 1, Len(line))]
  OBVIOUS
<1>8. Entries(s, line) = IF f = 0 \/ <<>> \in {s, key0, value0} THEN <<>>
                         ELSE <<[section |-> s, key |-> key0, value |-> value0]>>
  BY <1>1, <1>7 DEF Entries
<1>9. key0 = key /\ value0 = value
  BY <1>4, <1>5, <1>6, <1>7
<1> QED  BY <1>2, <1>8, <1>9

\* A line "[name]" that is not indented names that section, whatever stands
\* behind it, and a line without one of the brackets leaves the section
\* (iniconfig.cpp:136-140).
THEOREM PlainSectionRead ==
  ASSUME NEW s \in Seq(Chars), NEW line \in Seq(Chars)
  PROVE  /\ \A name \in Seq(Chars) :
              /\ Len(name) + 2 <= Len(line)
              /\ line[1] = "[" /\ line[Len(name) + 2] = "]"
              /\ \A i \in 1..Len(name) : name[i] # "]" /\ line[i + 1] = name[i]
              => SectionAfter(s, line) = name
         /\ \A c \in {"[", "]"} :
              (\A i \in 1..Len(line) : line[i] # c) => SectionAfter(s, line) = s
<1>1. PICK left, right : left = Find(line, "[") /\ right = Find(line, "]")
  OBVIOUS
<1>2. SectionAfter(s, line) =
        IF left = 0 \/ right = 0 THEN s
        ELSE IF right = 1 \/ left + right - 2 > Len(line) THEN SubSeq(line, left + 1, Len(line))
        ELSE SubSeq(line, left + 1, left + right - 2)
  BY <1>1 DEF SectionAfter
<1>3. /\ left \in 0..Len(line) /\ right \in 0..Len(line) /\ Len(line) \in Nat
      /\ left # 0 => line[left] = "["
      /\ right # 0 => line[right] = "]"
  BY <1>1, FindPlace
<1>4. ASSUME NEW name \in Seq(Chars),
             Len(name) + 2 <= Len(line), line[1] = "[", line[Len(name) + 2] = "]",
             \A i \in 1..Len(name) : name[i] # "]" /\ line[i + 1] = name[i]
      PROVE  SectionAfter(s, line) = name
  <2>1. PICK n : n = Len(name)
    OBVIOUS
  <2>2. n \in Nat /\ 1 \in 1..Len(line) /\ n + 2 \in 1..Len(line)
    BY <1>3, <1>4, <2>1
  <2>3. left = 1
    <3>1. left # 0 /\ left <= 1
      BY <1>1, <1>4, <2>2, FindFirst
    <3> QED  BY <1>3, <3>1
  <2>4. right = n + 2
    <3>1. right # 0 /\ right <= n + 2
      BY <1>1, <1>4, <2>1, <2>2, FindFirst
    <3>2. right # 1
      BY <1>3, <1>4, <3>1
    <3>3. ASSUME right < n + 2 PROVE FALSE
      <4>1. right - 1 \in 1..n /\ (right - 1) + 1 = right
        BY <1>3, <2>2, <3>1, <3>2, <3>3
      <4> QED  BY <1>3, <1>4, <2>1, <3>1, <4>1
    <3> QED  BY <1>3, <2>2, <3>1, <3>3
  <2>5. ~(left + right - 2 > Len(line)) /\ right # 1 /\ left + right - 2 = n + 1
    BY <1>3, <1>4, <2>1, <2>2, <2>3, <2>4
  <2>6. PICK t : t = SubSeq(line, 2, n + 1)
    OBVIOUS
  <2>7. t \in Seq(Chars) /\ Len(t) = n /\ \A i \in 1..n : t[i] = line[i + 1]
    BY <1>3, <2>2, <2>6
  <2>8. t = name
    BY <1>4, <2>1, <2>7, SameText
  <2>9. SectionAfter(s, line) = t
    BY <1>2, <2>2, <2>3, <2>4, <2>5, <2>6
  <2> QED  BY <2>8, <2>9
<1>5. ASSUME NEW c \in {"[", "]"}, \A i \in 1..Len(line) : line[i] # c
      PROVE  SectionAfter(s, line) = s
  <2>1. left = 0 \/ right = 0
    BY <1>3, <1>5
  <2> QED  BY <1>2, <2>1
<1> QED  BY <1>4, <1>5
=============================================================================
