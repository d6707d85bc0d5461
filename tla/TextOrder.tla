------------------------------ MODULE TextOrder ------------------------------
(***************************************************************************)
(* The order of std::string and what std::sort makes of a list of strings; *)
(* a text is a sequence of numbers.                                        *)
(***************************************************************************)
EXTENDS Integers, Sequences, FiniteSets

\* std::string's operator<: the first difference decides, and a text comes
\* before those it begins.
Less(s, t) ==
  \E i \in 1..Len(t) :
    /\ i - 1 <= Len(s)
    /\ \A j \in 1..i - 1 : s[j] = t[j]
    /\ i <= Len(s) => s[i] < t[i]

\* Where std::sort puts the i-th text; equal texts keep their order, which
\* nobody can tell.
UpTo(keys, i) ==
  {j \in 1..Len(keys) : Less(keys[j], keys[i]) \/ (keys[j] = keys[i] /\ j <= i)}
Rank(keys, i) == Cardinality(UpTo(keys, i))

Sorted(keys) == [n \in 1..Len(keys) |-> keys[CHOOSE i \in 1..Len(keys) : Rank(keys, i) = n]]

\* The places of a text in a list.
Occurrences(keys, x) == {i \in 1..Len(keys) : keys[i] = x}

\* Two lists hold each of these texts equally often.
SameTexts(texts, s, t) ==
  \A x \in texts : Cardinality(Occurrences(s, x)) = Cardinality(Occurrences(t, x))
=============================================================================
