------------------------ MODULE CompilerModuleProofs ------------------------
(***************************************************************************)
(* The declaration parser keeps its types, captures balanced bodies,       *)
(* restores the location and gets on, for every vocabulary and length of   *)
(* source.                                                                 *)
(***************************************************************************)
EXTENDS CompilerModule, SequenceTheorems, FiniteSetTheorems, TLAPS

\* What the lexer hands over is a token.
LEMMA MoveNextType ==
  ASSUME TypeOK, MoveNext
  PROVE  token' \in Token /\ taken' \in 0..MaxTokens
BY VocabularyAssumption DEF TypeOK, MoveNext, Token

LEMMA TokenFacts ==
  /\ "BraceClose" \in Token /\ "BraceClose" # "End" /\ "BraceClose" \notin Modifier
  /\ "BraceClose" \notin {"class", "namespace", "entrypoint", "import"}
  /\ Name \subseteq Token /\ Modifier \subseteq Token
BY DEF Token, Keyword, Modifier, Visibility

LEMMA ParserInit == Init => ParserInv
<1> SUFFICES ASSUME Init PROVE ParserInv
  OBVIOUS
<1>1. /\ <<>> \in Seq(Name) /\ <<>> \in Seq(Modifier) /\ <<>> \in Seq(Token \ {"End"})
      /\ Len(<<>>) = 0
  BY EmptySeq
<1> QED
  BY <1>1, VocabularyAssumption
  DEF Init, ParserInv, LocationInv, BodyInv, BodyIsBlock, TypeOK, Final

\* Steps that touch neither the location nor the body.
LEMMA OtherSteps ==
  ASSUME ParserInv,
         \/ Start \/ Top \/ ReadModifier \/ UnexpectedToken \/ ParseClass \/ GetObject
         \/ ParseNamespace \/ NamespaceOpen \/ NamespaceError
         \/ ParseEntrypoint \/ EntrypointError \/ ParseImport \/ SkipImport
  PROVE  ParserInv'
<1> USE DEF ParserInv, LocationInv, Final
<1>1. TypeOK
  OBVIOUS
<1>2. <<>> \in Seq(Modifier)
  BY EmptySeq
<1>3. MoveNext => token' \in Token /\ taken' \in 0..MaxTokens
  BY <1>1, MoveNextType
<1>4. BodyInv'
  <2>1. body' = body /\ pc # "functionBody" /\ pc' # "functionBody"
    BY DEF Start, Top, ReadModifier, UnexpectedToken, ParseClass, GetObject, ParseNamespace,
           NamespaceOpen, NamespaceError, ParseEntrypoint, EntrypointError, ParseImport,
           SkipImport, Return, LogError
  <2> QED
    BY <2>1 DEF BodyInv, BodyIsBlock, Block, Opens, Closes, Count
<1>5. CASE Start
  BY <1>1, <1>3, <1>4, <1>5 DEF Start, TypeOK
<1>6. CASE Top
  BY <1>1, <1>2, <1>4, <1>6 DEF Top, TypeOK
<1>7. CASE ReadModifier
  <2>1. Append(written, token) \in Seq(Modifier)
    BY <1>1, <1>7, AppendProperties DEF ReadModifier, TypeOK
  <2> QED
    BY <1>1, <1>3, <1>4, <1>7, <2>1, TokenFacts DEF ReadModifier, TypeOK
<1>8. CASE UnexpectedToken \/ NamespaceError \/ EntrypointError
  BY <1>1, <1>4, <1>8 DEF UnexpectedToken, NamespaceError, EntrypointError, LogError, TypeOK
<1>9. CASE ParseClass \/ GetObject
  BY <1>1, <1>4, <1>9, TokenFacts DEF ParseClass, GetObject, TypeOK
<1>10. CASE ParseNamespace \/ NamespaceOpen
  BY <1>1, <1>3, <1>4, <1>10, TokenFacts DEF ParseNamespace, NamespaceOpen, TypeOK
<1>11. CASE ParseEntrypoint \/ ParseImport \/ SkipImport
  BY <1>1, <1>3, <1>4, <1>11, TokenFacts DEF ParseEntrypoint, ParseImport, SkipImport, Return, TypeOK
<1> QED
  BY <1>5, <1>6, <1>7, <1>8, <1>9, <1>10, <1>11

\* The steps of a namespace that push, nest and pop.
LEMMA NamespaceSteps ==
  ASSUME ParserInv, NamespaceName \/ NamespaceBody \/ NamespaceEnd
  PROVE  ParserInv'
<1> USE DEF ParserInv, LocationInv, Final
<1>1. TypeOK /\ Len(location) \in Nat /\ location \in Seq(Name) /\ nesting \in Nat
  BY LenProperties DEF TypeOK
<1>2. MoveNext => token' \in Token /\ taken' \in 0..MaxTokens
  BY <1>1, MoveNextType
<1>3. BodyInv'
  <2>1. body' = body /\ pc # "functionBody" /\ pc' # "functionBody"
    BY DEF NamespaceName, NamespaceBody, NamespaceEnd, Return
  <2> QED
    BY <2>1 DEF BodyInv, BodyIsBlock, Block, Opens, Closes, Count
<1>4. CASE NamespaceName
  <2>1. /\ Append(location, token) \in Seq(Name)
        /\ Len(Append(location, token)) = Len(location) + 1
    BY <1>1, <1>4, AppendProperties DEF NamespaceName
  <2> QED
    BY <1>1, <1>2, <1>3, <1>4, <2>1 DEF NamespaceName, TypeOK
<1>5. CASE NamespaceBody
  <2>1. <<>> \in Seq(Modifier)
    BY EmptySeq
  <2> QED
    BY <1>1, <1>3, <1>5, <2>1 DEF NamespaceBody, TypeOK
<1>6. CASE NamespaceEnd
  <2>1. nesting = 0 /\ Len(location) = 1
    BY <1>1, <1>6 DEF NamespaceEnd
  <2>2. location' = SubSeq(location, 1, 0)
    BY <1>6, <2>1 DEF NamespaceEnd
  <2>3. location' = <<>> /\ <<>> \in Seq(Name) /\ Len(<<>>) = 0
    BY <2>2, SubSeqEmpty, EmptySeq
  <2> QED
    BY <1>1, <1>2, <1>3, <1>6, <2>1, <2>3 DEF NamespaceEnd, Return, TypeOK
<1> QED
  BY <1>4, <1>5, <1>6
-----------------------------------------------------------------------------
(* Bodies. *)

LEMMA CountFinite ==
  ASSUME NEW tok, NEW s, NEW n \in Nat
  PROVE  Count(tok, s, n) \in Nat
<1>1. IsFiniteSet(1..n)
  BY FS_Interval
<1>2. IsFiniteSet({ i \in 1..n : s[i] = tok })
  BY <1>1, FS_Subset
<1> QED
  BY <1>2, FS_CardinalityType DEF Count

LEMMA CountNone ==
  ASSUME NEW tok, NEW s
  PROVE  Count(tok, s, 0) = 0
<1>1. { i \in 1..0 : s[i] = tok } = {}
  OBVIOUS
<1> QED
  BY <1>1, FS_EmptySet DEF Count

\* A token more counts once, and only for itself.
LEMMA CountNext ==
  ASSUME NEW tok, NEW s, NEW n \in Nat
  PROVE  Count(tok, s, n + 1) = Count(tok, s, n) + IF s[n + 1] = tok THEN 1 ELSE 0
<1> DEFINE A == { i \in 1..n : s[i] = tok }
           B == { i \in 1..n+1 : s[i] = tok }
<1>1. IsFiniteSet(A) /\ Cardinality(A) \in Nat
  <2>1. IsFiniteSet(1..n)
    BY FS_Interval
  <2> QED
    BY <2>1, FS_Subset, FS_CardinalityType
<1>2. n + 1 \notin A
  OBVIOUS
<1>3. B = IF s[n + 1] = tok THEN A \cup {n + 1} ELSE A
  OBVIOUS
<1> HIDE DEF A, B
<1>4. Cardinality(A \cup {n + 1}) = Cardinality(A) + 1
  BY <1>1, <1>2, FS_AddElement
<1>5. Cardinality(B) = Cardinality(A) + IF s[n + 1] = tok THEN 1 ELSE 0
  BY <1>1, <1>3, <1>4
<1> QED
  BY <1>5 DEF A, B, Count

\* A push leaves what was counted before.
LEMMA CountPush ==
  ASSUME NEW tok, NEW s \in Seq(Token), NEW t \in Token, NEW n \in 0..Len(s)
  PROVE  Count(tok, Append(s, t), n) = Count(tok, s, n)
<1>1. \A i \in 1..n : Append(s, t)[i] = s[i]
  BY AppendProperties, LenProperties
<1>2. { i \in 1..n : Append(s, t)[i] = tok } = { i \in 1..n : s[i] = tok }
  BY <1>1
<1> QED
  BY <1>2 DEF Count

\* The body starts with the brace at which it is entered.
LEMMA OpenSteps ==
  ASSUME ParserInv, EntrypointOpen
  PROVE  ParserInv'
<1> USE DEF EntrypointOpen
<1>1. /\ <<>> \in Seq(Token \ {"End"}) /\ Len(<<>>) = 0
  BY EmptySeq
<1>2. Opens(<<>>, 0) = 0 /\ Closes(<<>>, 0) = 0
  BY CountNone DEF Opens, Closes
<1>3. TypeOK'
  BY <1>1 DEF ParserInv, TypeOK
<1>4. LocationInv'
  BY DEF ParserInv, LocationInv
<1>5. BodyInv'
  <2>1. body' = <<>> /\ level' = 0 /\ pc' = "functionBody" /\ token' = "BraceOpen"
    OBVIOUS
  <2> QED
    BY <1>1, <1>2, <2>1 DEF BodyInv, BodyIsBlock
<1> QED
  BY <1>3, <1>4, <1>5 DEF ParserInv

\* A token pushed on the body is counted by the level.
LEMMA BodySteps ==
  ASSUME ParserInv, ReadBody
  PROVE  ParserInv'
<1> DEFINE n == Len(body)
           pushed == Append(body, token)
<1>1. /\ pc = "functionBody" /\ token \in Token \ {"End"} /\ body' = pushed
      /\ level' = Opened(level, token)
      /\ token' \in Token /\ taken' \in 0..MaxTokens
      /\ IF level' <= 0 THEN pc' = IF nesting = 0 THEN "top" ELSE "namespaceLoop"
                        ELSE pc' = "functionBody"
      /\ location' = location /\ nesting' = nesting /\ written' = written
  <2>1. TypeOK /\ pc = "functionBody" /\ token \in Token \ {"End"}
    BY DEF ReadBody, ParserInv, TypeOK
  <2>2. token' \in Token /\ taken' \in 0..MaxTokens
    BY <2>1, MoveNextType DEF ReadBody
  <2> QED
    BY <2>1, <2>2 DEF ReadBody, Return
<1>2. body \in Seq(Token \ {"End"}) /\ body \in Seq(Token) /\ level \in Nat /\ n \in Nat
  BY LenProperties DEF ParserInv, TypeOK
<1>3. /\ pushed \in Seq(Token \ {"End"}) /\ Len(pushed) = n + 1
      /\ pushed[n + 1] = token
      /\ \A i \in 1..n : pushed[i] = body[i]
  BY <1>1, <1>2, AppendProperties
<1>4. \A i \in 0..n : Opens(pushed, i) = Opens(body, i) /\ Closes(pushed, i) = Closes(body, i)
  BY <1>1, <1>2, CountPush DEF Opens, Closes
<1>5. /\ Opens(body, n) \in Nat /\ Closes(body, n) \in Nat
      /\ level = Opens(body, n) - Closes(body, n)
      /\ IF body = <<>> THEN token = "BraceOpen" ELSE level > 0 /\ body[1] = "BraceOpen"
      /\ \A i \in 1..n : Opens(body, i) > Closes(body, i)
  BY <1>1, <1>2, CountFinite DEF Opens, Closes, ParserInv, BodyInv
<1>6. level' = Opens(pushed, n + 1) - Closes(pushed, n + 1)
  <2>1. /\ Opens(pushed, n + 1) = Opens(pushed, n) + IF token = "BraceOpen" THEN 1 ELSE 0
        /\ Closes(pushed, n + 1) = Closes(pushed, n) + IF token = "BraceClose" THEN 1 ELSE 0
    <3>1. \A tok : Count(tok, pushed, n + 1)
                     = Count(tok, pushed, n) + IF pushed[n + 1] = tok THEN 1 ELSE 0
      <4> HIDE DEF pushed, n
      <4> QED
        BY <1>2, CountNext
    <3> HIDE DEF pushed, n
    <3> QED
      BY <1>3, <3>1 DEF Opens, Closes
  <2>2. level' = level + (IF token = "BraceOpen" THEN 1 ELSE 0)
                       - (IF token = "BraceClose" THEN 1 ELSE 0)
    BY <1>1, <1>2 DEF Opened
  <2> HIDE DEF pushed, n
  <2>3. Opens(pushed, n) = Opens(body, n) /\ Closes(pushed, n) = Closes(body, n)
    BY <1>2, <1>4
  <2> QED
    BY <1>2, <1>5, <2>1, <2>2, <2>3
<1>7. /\ level' \in Nat /\ pushed[1] = "BraceOpen"
  <2>1. CASE body = <<>>
    BY <1>1, <1>2, <1>3, <1>5, <2>1 DEF Opened
  <2>2. CASE body # <<>>
    <3>1. n \in Nat \ {0}
      BY <1>2, <2>2, EmptySeq
    <3> QED
      BY <1>1, <1>2, <1>3, <1>5, <2>2, <3>1 DEF Opened
  <2> QED
    BY <2>1, <2>2
<1>8. Opens(pushed, n + 1) \in Nat /\ Closes(pushed, n + 1) \in Nat
  BY <1>2, CountFinite DEF Opens, Closes
<1>9. \A i \in 1..n : Opens(pushed, i) > Closes(pushed, i)
  BY <1>2, <1>4, <1>5
<1>10. pushed # <<>>
  BY <1>2, <1>3, EmptySeq
<1> HIDE DEF pushed, n
<1>11. TypeOK'
  BY <1>1, <1>3, <1>7 DEF ParserInv, TypeOK
<1>12. LocationInv'
  BY <1>1, <1>7 DEF ParserInv, LocationInv
<1>13. BodyInv'
  <2>1. CASE level' <= 0
    <3>1. pc' # "functionBody"
      BY <1>1, <2>1
    <3>2. Block(pushed)
      BY <1>2, <1>3, <1>6, <1>7, <1>8, <1>9, <2>1 DEF Block
    <3> QED
      BY <1>1, <3>1, <3>2 DEF BodyInv, BodyIsBlock
  <2>2. CASE ~ (level' <= 0)
    <3>1. pc' = "functionBody" /\ level' > 0
      BY <1>1, <1>7, <2>2
    <3>2. \A i \in 1..n + 1 : Opens(pushed, i) > Closes(pushed, i)
      BY <1>2, <1>6, <1>8, <1>9, <3>1
    <3> QED
      BY <1>1, <1>3, <1>6, <1>7, <1>10, <3>1, <3>2 DEF BodyInv, BodyIsBlock
  <2> QED
    BY <2>1, <2>2
<1> QED
  BY <1>11, <1>12, <1>13 DEF ParserInv
-----------------------------------------------------------------------------
(* The theorems. *)

\* Nothing that ParserInv reads changes.
LEMMA ParserStutter ==
  ASSUME ParserInv, UNCHANGED vars
  PROVE  ParserInv'
<1>1. TypeOK' /\ LocationInv'
  BY DEF vars, ParserInv, TypeOK, LocationInv
<1>2. BodyInv'
  BY DEF vars, ParserInv, BodyInv, BodyIsBlock, Block, Opens, Closes, Count
<1> QED
  BY <1>1, <1>2 DEF ParserInv

\* Every state of the parser satisfies the inductive invariant: the types, where
\* a namespace can be on the location, and the brace count of the body being read
\* (generateMetadata() and what it calls, CompilerModule.hpp:71-247).
THEOREM ParserInvariant == Spec => []ParserInv
<1>1. ParserInv /\ [Next]_vars => ParserInv'
  BY OtherSteps, NamespaceSteps, OpenSteps, BodySteps, ParserStutter DEF Next, BodySpins
<1> QED
  BY ParserInit, <1>1, PTL DEF Spec

\* The parser's variables keep their types; in particular the level of braces
\* never goes below zero (parseFunctionBody, CompilerModule.hpp:236-246).
THEOREM TypeCorrect == Spec => []TypeOK
<1>1. ParserInv => TypeOK
  BY DEF ParserInv
<1> QED
  BY <1>1, ParserInvariant, PTL

\* The body kept for code generation is one balanced block, however long the
\* source and however deep its braces (parseFunctionBody, CompilerModule.hpp:236-246).
THEOREM BodyCorrect == Spec => []BodyIsBlock
<1>1. ParserInv => BodyIsBlock
  BY DEF ParserInv, BodyInv
<1> QED
  BY <1>1, ParserInvariant, PTL

\* Between two declarations of the file, and at its end, no namespace is left on
\* the location, however many the file opened (parseNamespace,
\* CompilerModule.hpp:145-162).
THEOREM LocationCorrect == Spec => []LocationRestored
<1>1. ParserInv => LocationRestored
  BY EmptySeq DEF ParserInv, LocationInv, LocationRestored, TypeOK
<1> QED
  BY <1>1, ParserInvariant, PTL
-----------------------------------------------------------------------------
(* Why parsing ends. *)

\* A token has been taken, or the end of the source has been met.
ReadOn == taken' > taken \/ (taken' = taken /\ token # "End" /\ token' = "End")

\* How many steps lie at most before the next that takes a token or the last.
Distance ==
  CASE pc \in {"start", "namespaceLoop"} -> 5
    [] pc = "top" -> 4
    [] pc = "modifiers" -> 3
    [] pc \in {"parseClass", "namespaceName", "namespaceOpen", "entrypointOpen"} -> 2
    [] pc \in {"functionBody", "import"} -> 1
    [] pc \in Final -> 0

Nearer == taken' = taken /\ token' = token /\ Distance' < Distance

Progress == ReadOn \/ Nearer \/ Unbalanced \/ Unclosed

\* moveNext() before and at the end of the source.
LEMMA MoveNextReadsOn ==
  ASSUME TypeOK, MoveNext
  PROVE  ReadOn \/ (token = "End" /\ token' = "End" /\ taken' = taken)
<1>1. taken \in Nat
  BY VocabularyAssumption DEF TypeOK
<1> QED
  BY <1>1 DEF MoveNext, ReadOn

LEMMA Distances ==
  /\ pc \in {"start", "namespaceLoop"} => Distance = 5
  /\ pc = "top" => Distance = 4
  /\ pc = "modifiers" => Distance = 3
  /\ pc \in {"parseClass", "namespaceName", "namespaceOpen", "entrypointOpen"} => Distance = 2
  /\ pc = "functionBody" => Distance = 1
  /\ pc \in Final => Distance = 0
BY DEF Distance, Final

LEMMA DistancesNext ==
  /\ pc' = "top" => Distance' = 4
  /\ pc' = "modifiers" => Distance' = 3
  /\ pc' = "parseClass" => Distance' = 2
  /\ pc' = "functionBody" => Distance' = 1
  /\ pc' \in Final => Distance' = 0
BY DEF Distance, Final

\* Between two calls of moveNext() the parser goes straight on.
LEMMA StraightOn ==
  ASSUME TypeOK,
         \/ Top \/ UnexpectedToken \/ ParseClass \/ GetObject \/ NamespaceError
         \/ NamespaceBody \/ EntrypointOpen \/ EntrypointError
  PROVE  Nearer
<1>1. taken' = taken /\ token' = token
  BY DEF Top, UnexpectedToken, ParseClass, GetObject, NamespaceError, NamespaceBody,
         EntrypointOpen, EntrypointError, LogError
<1>2. \/ pc = "namespaceLoop" /\ pc' = "modifiers"
      \/ pc = "top" /\ pc' \in {"done", "modifiers"}
      \/ pc = "modifiers" /\ pc' \in {"error", "parseClass"}
      \/ pc \in {"parseClass", "namespaceName", "namespaceOpen", "entrypointOpen"}
           /\ pc' \in {"functionBody", "error", "undefined"}
  BY DEF Top, UnexpectedToken, ParseClass, GetObject, NamespaceError, NamespaceBody,
         EntrypointOpen, EntrypointError, LogError
<1>3. CASE pc = "namespaceLoop" /\ pc' = "modifiers"
  BY <1>1, <1>3, Distances, DistancesNext DEF Nearer
<1>4. CASE pc = "top" /\ pc' \in {"done", "modifiers"}
  BY <1>1, <1>4, Distances, DistancesNext DEF Nearer, Final
<1>5. CASE pc = "modifiers" /\ pc' \in {"error", "parseClass"}
  BY <1>1, <1>5, Distances, DistancesNext DEF Nearer, Final
<1>6. CASE /\ pc \in {"parseClass", "namespaceName", "namespaceOpen", "entrypointOpen"}
           /\ pc' \in {"functionBody", "error", "undefined"}
  BY <1>1, <1>6, Distances, DistancesNext DEF Nearer, Final
<1> QED
  BY <1>2, <1>3, <1>4, <1>5, <1>6

\* The parser takes a token, meets the end of the source, or is at most five steps
\* from doing so or from its last step, except in the two loops that never test for
\* End; so a source of any length is parsed to its end or refused unless it ends
\* inside a body or an import (CompilerModule.hpp:71-85, 130-162, 236-265).
THEOREM ParserProgress == Spec => [][Progress]_vars
<1>1. ParserInv /\ [Next]_vars => [Progress]_vars
  <2> SUFFICES ASSUME ParserInv, Next PROVE Progress
    BY DEF Progress
  <2>1. TypeOK /\ LocationInv
    BY DEF ParserInv
  <2>2. CASE \/ ReadModifier \/ ParseNamespace \/ NamespaceName \/ NamespaceOpen
             \/ ParseEntrypoint \/ ReadBody \/ ParseImport
    <3>1. MoveNext /\ token # "End"
      BY <2>2, NameAssumption
      DEF ReadModifier, ParseNamespace, NamespaceName, NamespaceOpen, ParseEntrypoint, ReadBody,
          ParseImport, Modifier, Visibility
    <3> QED
      BY <2>1, <3>1, MoveNextReadsOn DEF Progress
  <2>3. CASE \/ Top \/ UnexpectedToken \/ ParseClass \/ GetObject \/ NamespaceError
             \/ NamespaceBody \/ EntrypointOpen \/ EntrypointError
    BY <2>1, <2>3, StraightOn DEF Progress
  <2>4. CASE Start
    <3>1. MoveNext /\ pc = "start" /\ pc' = "top"
      BY <2>4 DEF Start
    <3>2. Distance = 5 /\ Distance' = 4
      BY <3>1, Distances, DistancesNext
    <3> QED
      BY <2>1, <3>1, <3>2, MoveNextReadsOn DEF Progress, Nearer
  <2>5. CASE NamespaceEnd
    <3>1. MoveNext /\ pc = "namespaceLoop" /\ Return
      BY <2>5 DEF NamespaceEnd
    <3>2. nesting = 0 /\ pc' = "top"
      BY <2>1, <3>1 DEF LocationInv, Return, TypeOK
    <3>3. Distance = 5 /\ Distance' = 4
      BY <3>1, <3>2, Distances, DistancesNext
    <3> QED
      BY <2>1, <3>1, <3>3, MoveNextReadsOn DEF Progress, Nearer
  <2>6. CASE BodySpins
    BY <2>6 DEF BodySpins, Progress
  <2>7. CASE SkipImport
    BY <2>1, <2>7, MoveNextReadsOn DEF SkipImport, Progress, Unclosed
  <2> QED
    BY <2>2, <2>3, <2>4, <2>5, <2>6, <2>7 DEF Next
<1> QED
  BY <1>1, ParserInvariant, PTL DEF Spec
=============================================================================
