----------------------------- MODULE TableLookup -----------------------------
(***************************************************************************)
(* Operator::TryParse() and Keyword::TryParse(): the same loop over two    *)
(* tables, which keeps the longest entry that the string begins with.      *)
(* Keywords are looked up strictly: the entry must be the whole string.    *)
(***************************************************************************)
EXTENDS Naturals, Sequences

CONSTANTS
  Symbol,   \* what the strings are made of
  Kind,     \* the kinds of entries: a table for each
  Table,    \* Table[k]: the entries, in the order of the source
  Strict,   \* the kinds that are looked up strictly
  Inputs    \* Inputs[k]: the strings looked up

ASSUME TableAssumption ==
  /\ Table \in [Kind -> Seq(Seq(Symbol))]
  /\ \A k \in Kind : \A n \in 1..Len(Table[k]) : Table[k][n] # <<>>
  /\ Inputs \in [Kind -> SUBSET Seq(Symbol)]
  /\ Strict \subseteq Kind

VARIABLES
  kind, \* whose TryParse() it is
  str,  \* the string
  i,    \* the entry the loop is at
  len,  \* the length of the best entry so far
  ty,   \* the best entry so far, 0 for Unknown
  pc    \* "idle", "loop" or "returned"

vars == <<kind, str, i, len, ty, pc>>

\* str.substr(0, l) == w
StartsWith(s, w) == Len(w) <= Len(s) /\ SubSeq(s, 1, Len(w)) = w

\* Slip: strict forgotten.
AcceptsPrefix(k, s, w) == StartsWith(s, w)

Accepts(k, s, w) == (k \in Strict => Len(s) = Len(w)) /\ StartsWith(s, w)
-----------------------------------------------------------------------------
Init ==
  /\ kind \in Kind
  /\ str = <<>>
  /\ i = 1
  /\ len = 0
  /\ ty = 0
  /\ pc = "idle"

TryParse ==
  /\ pc = "idle"
  /\ kind' \in Kind
  /\ str' \in Inputs[kind']
  /\ i' = 1
  /\ len' = 0
  /\ ty' = 0
  /\ pc' = "loop"

\* Slip: the first entry that fits is kept.
CompareFirst ==
  /\ pc = "loop"
  /\ i <= Len(Table[kind])
  /\ IF ty = 0 /\ Accepts(kind, str, Table[kind][i])
       THEN len' = Len(Table[kind][i]) /\ ty' = i
       ELSE UNCHANGED <<len, ty>>
  /\ i' = i + 1
  /\ UNCHANGED <<kind, str, pc>>

\* Slip: the last entry that fits is kept.
CompareLast ==
  /\ pc = "loop"
  /\ i <= Len(Table[kind])
  /\ IF Accepts(kind, str, Table[kind][i])
       THEN len' = Len(Table[kind][i]) /\ ty' = i
       ELSE UNCHANGED <<len, ty>>
  /\ i' = i + 1
  /\ UNCHANGED <<kind, str, pc>>

\* One turn of the loop.
Compare ==
  /\ pc = "loop"
  /\ i <= Len(Table[kind])
  /\ IF len < Len(Table[kind][i]) /\ Accepts(kind, str, Table[kind][i])
       THEN len' = Len(Table[kind][i]) /\ ty' = i
       ELSE UNCHANGED <<len, ty>>
  /\ i' = i + 1
  /\ UNCHANGED <<kind, str, pc>>

Return ==
  /\ pc = "loop"
  /\ i > Len(Table[kind])
  /\ pc' = "returned"
  /\ UNCHANGED <<kind, str, i, len, ty>>

Next == TryParse \/ Compare \/ Return

Spec == Init /\ [][Next]_vars
-----------------------------------------------------------------------------
(* Properties *)

TypeOK ==
  /\ kind \in Kind
  /\ str \in Seq(Symbol)
  /\ i \in 1..Len(Table[kind]) + 1
  /\ len \in Nat
  /\ ty \in 0..Len(Table[kind])
  /\ pc \in { "idle", "loop", "returned" }

\* Of the first n entries, t is the longest that s begins with, of length l, or
\* t and l are 0 and there is none.
Longest(k, s, t, l, n) ==
  IF t = 0
    THEN l = 0 /\ \A j \in 1..n : ~ Accepts(k, s, Table[k][j])
    ELSE /\ t \in 1..n
         /\ Accepts(k, s, Table[k][t])
         /\ l = Len(Table[k][t])
         /\ \A j \in 1..n : Accepts(k, s, Table[k][j]) => Len(Table[k][j]) <= l

\* The lookup returns the longest entry of the whole table that the string begins
\* with, wherever in its table it stands, and Unknown only when there is none: the
\* lexer drops as many symbols as that entry has (Operators.hpp:303-309,
\* Keyword.hpp:146-153, Lexer.hpp:132-136).
LongestMatch == pc = "returned" => Longest(kind, str, ty, len, Len(Table[kind]))

\* Why: after each turn it is the longest of the entries seen.
LookupInv ==
  /\ TypeOK
  /\ pc # "idle" => Longest(kind, str, ty, len, i - 1)
  /\ pc = "returned" => i = Len(Table[kind]) + 1
=============================================================================
