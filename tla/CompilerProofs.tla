--------------------------- MODULE CompilerProofs ---------------------------
(***************************************************************************)
(* For all alphabets, tables, keywords, command lines and files: type      *)
(* correctness of the lexer, how far it reads ahead, when it says End and  *)
(* why it gets there; and how a run of the compiler ends, for which the    *)
(* tokens read are related to the programs of the grammar.                 *)
(***************************************************************************)
EXTENDS Compiler, SequenceTheorems, FiniteSetTheorems, TLAPS

\* The shift keeps the register within its capacity.
LEMMA ShiftedType ==
  ASSUME NEW b \in Payload, Len(b) <= Capacity, NEW ch \in Char \cup {EOF}
  PROVE  Shifted(b, ch) \in Payload /\ Len(Shifted(b, ch)) <= Capacity
<1>1. CASE ch \in Blank
  BY <1>1 DEF Shifted
<1>2. CASE ch \notin Blank /\ Len(b) < Capacity
  <2>1. Append(b, ch) \in Payload /\ Len(Append(b, ch)) = Len(b) + 1
    BY AppendProperties DEF Payload
  <2>2. Len(b) \in Nat /\ Capacity \in Nat
    BY LenProperties, TableAssumption DEF Payload
  <2> QED
    BY <1>2, <2>1, <2>2 DEF Shifted
<1>3. CASE ch \notin Blank /\ ~ Len(b) < Capacity
  <2>1. Len(b) \in Nat /\ Capacity \in Nat \ {0} /\ Len(b) = Capacity /\ b # <<>>
    BY <1>3, LenProperties, EmptySeq, TableAssumption DEF Payload
  <2>2. Tail(b) \in Payload /\ Len(Tail(b)) = Len(b) - 1
    BY <2>1, HeadTailProperties DEF Payload
  <2>3. Append(Tail(b), ch) \in Payload /\ Len(Append(Tail(b), ch)) = Len(Tail(b)) + 1
    BY <2>2, AppendProperties DEF Payload
  <2> QED
    BY <1>3, <2>1, <2>2, <2>3 DEF Shifted
<1> QED
  BY <1>1, <1>2, <1>3

\* Dropping the oldest characters.
LEMMA RestType ==
  ASSUME NEW b \in Payload, NEW k \in 0..Len(b)
  PROVE  Rest(b, k) \in Payload /\ Len(Rest(b, k)) = Len(b) - k
<1>1. Len(b) \in Nat /\ \A i \in k+1..Len(b) : b[i] \in Char \cup {EOF}
  BY LenProperties, ElementOfSeq DEF Payload
<1>2. /\ SubSeq(b, k + 1, Len(b)) \in Seq(Char \cup {EOF})
      /\ Len(SubSeq(b, k + 1, Len(b))) = IF k + 1 <= Len(b) THEN Len(b) - (k + 1) + 1 ELSE 0
  BY <1>1, SubSeqProperties
<1> QED
  BY <1>1, <1>2 DEF Rest, Payload

\* What moveNext() reads is a character of the source or the end of a stream.
LEMMA MoveNextType ==
  ASSUME TypeOK, NEW b \in Payload, Len(b) <= Capacity, MoveNext(b)
  PROVE  /\ source' = source
         /\ stream' \in 1..Len(source) + 1
         /\ pos' \in Nat
         /\ ~ PastEnd' => pos' <= Len(source[stream'])
         /\ current' \in Char \cup {EOF}
         /\ buffer' \in Payload
         /\ Len(buffer') <= Capacity
<1>1. /\ source \in Seq(Seq(Char)) /\ Len(source) \in Nat
      /\ \A i \in 1..Len(source) : source[i] \in Seq(Char) /\ Len(source[i]) \in Nat
  BY LenProperties, ElementOfSeq DEF TypeOK
<1>2. stream \in 1..Len(source) /\ pos \in Nat /\ source' = source
  BY <1>1 DEF TypeOK, MoveNext, PastEnd
<1>3. CASE /\ pos < Len(source[stream])
           /\ current' = source[stream][pos + 1]
           /\ pos' = pos + 1
           /\ buffer' = Shifted(b, current')
           /\ UNCHANGED stream
  <2>1. pos + 1 \in 1..Len(source[stream]) /\ pos' <= Len(source[stream])
    BY <1>1, <1>2, <1>3
  <2>2. current' \in Char
    BY <1>1, <1>2, <1>3, <2>1, ElementOfSeq
  <2>3. buffer' \in Payload /\ Len(buffer') <= Capacity
    BY <1>3, <2>2, ShiftedType
  <2> QED
    BY <1>1, <1>2, <1>3, <2>1, <2>2, <2>3
<1>4. CASE /\ stream = Len(source)
           /\ stream' = stream + 1
           /\ pos' = 0
           /\ current' = EOF
           /\ buffer' = b
  BY <1>1, <1>2, <1>4 DEF PastEnd
<1>5. CASE /\ stream < Len(source)
           /\ stream' = stream + 1
           /\ pos' = IF source[stream + 1] = <<>> THEN 0 ELSE 1
           /\ current' = IF source[stream + 1] = <<>> THEN EOF
                                                      ELSE source[stream + 1][1]
           /\ buffer' = Shifted(b, current')
  <2>1. stream + 1 \in 1..Len(source)
    BY <1>1, <1>2, <1>5
  <2>2. source[stream + 1] # <<>> => Len(source[stream + 1]) >= 1
    BY <1>1, <2>1, EmptySeq
  <2>3. current' \in Char \cup {EOF} /\ pos' \in Nat /\ pos' <= Len(source[stream'])
    BY <1>1, <1>5, <2>1, <2>2, ElementOfSeq
  <2>4. buffer' \in Payload /\ Len(buffer') <= Capacity
    BY <1>5, <2>3, ShiftedType
  <2> QED
    BY <1>1, <1>2, <1>5, <2>1, <2>3, <2>4
<1> QED
  BY <1>3, <1>4, <1>5 DEF MoveNext

\* What clearBuffer() leaves fits, whatever it drops.
LEMMA ClearedType ==
  ASSUME TypeOK, NEW k \in Cleared(buffer)
  PROVE  Rest(buffer, k) \in Payload /\ Len(Rest(buffer, k)) <= Capacity
<1>1. k \in 0..Len(buffer) /\ buffer \in Payload /\ Len(buffer) <= Capacity
  BY DEF Cleared, TypeOK
<1>2. Len(buffer) \in Nat /\ Capacity \in Nat
  BY <1>1, LenProperties, TableAssumption DEF Payload
<1> QED
  BY <1>1, <1>2, RestType

\* The table of punctuation: each character with its type of token.
LEMMA PunctuationPairs ==
  ASSUME NEW p \in Punctuation
  PROVE  p[1] \in Punctuators /\ p[2] \in TokenType \ {"End", "String", "Keyword"} /\ p[1] # NUL
<1>1. \/ p = <<";", "CmdEnd">> \/ p = <<",", "Comma">> \/ p = <<":", "Colon">>
      \/ p = <<"{", "BraceOpen">> \/ p = <<"}", "BraceClose">>
  BY DEF Punctuation
<1>2. CASE p = <<";", "CmdEnd">>
  BY <1>2 DEF Punctuators, TokenType, NUL
<1>3. CASE p = <<",", "Comma">>
  BY <1>3 DEF Punctuators, TokenType, NUL
<1>4. CASE p = <<":", "Colon">>
  BY <1>4 DEF Punctuators, TokenType, NUL
<1>5. CASE p = <<"{", "BraceOpen">>
  BY <1>5 DEF Punctuators, TokenType, NUL
<1>6. CASE p = <<"}", "BraceClose">>
  BY <1>6 DEF Punctuators, TokenType, NUL
<1> QED
  BY <1>1, <1>2, <1>3, <1>4, <1>5, <1>6

\* A token returned is recorded, and the caller's turn comes.
LEMMA ReturnType ==
  ASSUME TypeOK, NEW tok \in Token, Return(tok)
  PROVE  token' \in Token /\ out' \in Seq(Token) /\ pc' \in Loop
<1>1. Append(out, tok) \in Seq(Token)
  BY AppendProperties DEF TypeOK
<1> QED
  BY <1>1 DEF Return, TypeOK, Loop

\* The payload grows by a character.
LEMMA CollectedType ==
  ASSUME TypeOK, NEW ch \in Char \cup {EOF}
  PROVE  [token EXCEPT !.data = Append(@, ch)] \in Token
<1>1. Append(token.data, ch) \in Payload
  BY AppendProperties DEF TypeOK, Token, Payload
<1> QED
  BY <1>1 DEF TypeOK, Token

\* The lexer begins with a state of the right type.
THEOREM TypeInit == Init => TypeOK
<1> SUFFICES ASSUME Init PROVE TypeOK
  OBVIOUS
<1>1. source \in Seq(Seq(Char)) \ {<<>>} /\ Len(source) \in Nat \ {0}
  BY SourceAssumption, EmptySeq DEF Init
<1>2. source[1] \in Seq(Char) /\ Len(source[1]) \in Nat
  BY <1>1, ElementOfSeq, LenProperties
<1>3. <<>> \in Payload /\ Len(<<>>) = 0 /\ <<>> \in Seq(Token)
  BY EmptySeq DEF Payload
<1>4. token \in Token
  BY <1>3 DEF Init, Token, TokenType
<1> QED
  BY <1>1, <1>2, <1>3, <1>4, TableAssumption DEF Init, TypeOK, PastEnd, Loop

\* The steps inside a call, which return nothing.
LEMMA TypeInside ==
  ASSUME TypeOK,
         \/ GetNextToken \/ SkipSpaces
         \/ BeginIdentifier \/ BeginNumber \/ BeginString \/ BeginOperators \/ BeginMatch
         \/ ReadIdentifier \/ ReadNumber \/ ReadString \/ StringAtEOF
         \/ ReadOperators \/ BeginComment \/ SkipUntil \/ SkipUntilSpins \/ EndComment
         \/ DereferenceEnd
  PROVE  TypeOK'
<1> USE DEF input
<1>1. buffer \in Payload /\ Len(buffer) <= Capacity
  BY DEF TypeOK
<1>2. <<>> \in Payload
  BY EmptySeq DEF Payload
<1>3. CASE GetNextToken
  BY <1>1, <1>3, MoveNextType DEF GetNextToken, TypeOK, Loop, PastEnd
<1>4. CASE SkipSpaces
  BY <1>1, <1>4, MoveNextType DEF SkipSpaces, TypeOK, PastEnd
<1>5. CASE BeginIdentifier \/ BeginNumber \/ BeginString
  <2>1. PICK ty \in {"Identifier", "Number", "String"},
             loop \in {"identifier", "number", "string"} :
          Begin(ty, loop)
    BY <1>5 DEF BeginIdentifier, BeginNumber, BeginString
  <2>2. [ty |-> ty, data |-> <<>>] \in Token
    BY <1>2 DEF Token, TokenType
  <2> QED
    BY <2>1, <2>2 DEF Begin, TypeOK, Loop, PastEnd
<1>6. CASE BeginOperators \/ BeginMatch \/ StringAtEOF \/ BeginComment \/ DereferenceEnd
  BY <1>6 DEF BeginOperators, BeginMatch, StringAtEOF, BeginComment, DereferenceEnd,
              TypeOK, Loop, PastEnd
<1>7. CASE ReadIdentifier \/ ReadNumber
  <2>1. current \in Char
    BY <1>7 DEF ReadIdentifier, ReadNumber, TypeOK, Char, Plain, NUL, EOF
  <2>2. [token EXCEPT !.data = Append(@, current)] \in Token
    BY <2>1, CollectedType
  <2> QED
    BY <1>1, <1>7, <2>2, MoveNextType DEF ReadIdentifier, ReadNumber, Collect, TypeOK, PastEnd
<1>8. CASE ReadString
  <2>1. MoveNext(buffer) /\ current' \in Char \cup {EOF}
    BY <1>1, <1>8, MoveNextType DEF ReadString
  <2>2. [token EXCEPT !.data = Append(@, current')] \in Token
    BY <2>1, CollectedType
  <2> QED
    BY <1>1, <1>8, <2>1, <2>2, MoveNextType DEF ReadString, TypeOK, Loop, PastEnd
<1>9. CASE ReadOperators
  BY <1>1, <1>9, MoveNextType DEF ReadOperators, TypeOK, Loop, PastEnd
<1>10. CASE SkipUntil
  <2>1. /\ stream \in 1..Len(source) /\ Len(source) \in Nat
        /\ pos < Len(source[stream]) /\ pos' = pos + 1
    BY <1>10, LenProperties DEF SkipUntil, TypeOK, PastEnd
  <2>2. Len(source[stream]) \in Nat
    BY <2>1, ElementOfSeq, LenProperties DEF TypeOK
  <2> QED
    BY <1>10, <2>1, <2>2 DEF SkipUntil, TypeOK, Loop, PastEnd
<1>11. CASE SkipUntilSpins
  BY <1>11 DEF SkipUntilSpins, vars, TypeOK, PastEnd
<1>12. CASE EndComment
  <2>1. PICK k \in Cleared(buffer) : MoveNext(Rest(buffer, k))
    BY <1>12 DEF EndComment
  <2>2. Rest(buffer, k) \in Payload /\ Len(Rest(buffer, k)) <= Capacity
    BY ClearedType
  <2> QED
    BY <1>12, <2>1, <2>2, MoveNextType DEF EndComment, TypeOK, Loop, PastEnd
<1> QED
  BY <1>3, <1>4, <1>5, <1>6, <1>7, <1>8, <1>9, <1>10, <1>11, <1>12

\* The steps that return a token.
LEMMA TypeReturn ==
  ASSUME TypeOK,
         \/ EndIdentifier \/ EndNumber \/ CloseString
         \/ ReturnPunctuation \/ ReturnOperator \/ ReturnEnd \/ ReturnUnknown
  PROVE  TypeOK'
<1> USE DEF input
<1>1. /\ buffer \in Payload /\ Len(buffer) <= Capacity
      /\ Len(buffer) \in Nat /\ Capacity \in Nat
  BY LenProperties, TableAssumption DEF TypeOK, Payload
<1>2. token \in Token
  BY DEF TypeOK
<1>3. CASE EndIdentifier \/ EndNumber
  <2>1. [token EXCEPT !.ty = IF token.data \in Keywords THEN "Keyword" ELSE @] \in Token
    BY <1>2 DEF Token, TokenType
  <2>2. PICK k \in Cleared(buffer) : buffer' = Rest(buffer, k)
    BY <1>3 DEF EndIdentifier, EndNumber
  <2>3. PICK tok \in Token : Return(tok)
    BY <1>2, <1>3, <2>1 DEF EndIdentifier, EndNumber
  <2>4. UNCHANGED <<source, stream, pos, current>>
    BY <1>3 DEF EndIdentifier, EndNumber
  <2> QED
    BY <2>2, <2>3, <2>4, ReturnType, ClearedType DEF TypeOK, PastEnd
<1>4. CASE CloseString
  <2>1. PICK k \in Cleared(buffer) : MoveNext(Rest(buffer, k))
    BY <1>4 DEF CloseString
  <2>2. Rest(buffer, k) \in Payload /\ Len(Rest(buffer, k)) <= Capacity
    BY ClearedType
  <2>3. Return(token)
    BY <1>4 DEF CloseString
  <2>4. token' \in Token /\ out' \in Seq(Token) /\ pc' \in Loop
    BY <1>2, <2>3, ReturnType
  <2> QED
    BY <2>1, <2>2, <2>4, MoveNextType DEF TypeOK, PastEnd
<1>5. CASE ReturnPunctuation
  <2>1. PICK p \in Punctuation : Oldest = p[1] /\ Return([token EXCEPT !.ty = p[2]])
    BY <1>5 DEF ReturnPunctuation
  <2>2. [token EXCEPT !.ty = p[2]] \in Token
    BY <1>2, PunctuationPairs DEF Token
  <2>3. buffer # <<>>
    BY <2>1, PunctuationPairs DEF Oldest
  <2>4. Tail(buffer) \in Payload /\ Len(Tail(buffer)) <= Capacity
    BY <1>1, <2>3, HeadTailProperties DEF Payload
  <2> QED
    BY <1>5, <2>1, <2>2, <2>4, ReturnType DEF ReturnPunctuation, TypeOK, PastEnd
<1>6. CASE ReturnOperator
  <2>1. PICK op \in Parsed(buffer) : /\ Return([ty |-> "Operator", data |-> op])
                                     /\ buffer' = Rest(buffer, Len(op))
    BY <1>6 DEF ReturnOperator
  <2>2. op \in Seq(Symbol) /\ Len(op) \in Nat /\ Len(op) <= Len(buffer)
    BY TableAssumption, LenProperties DEF Parsed, Spells
  <2>3. op \in Payload
    BY <2>2, SeqMonotonic DEF Payload, Char
  <2>4. Rest(buffer, Len(op)) \in Payload /\ Len(Rest(buffer, Len(op))) <= Capacity
    BY <1>1, <2>2, RestType
  <2>5. [ty |-> "Operator", data |-> op] \in Token
    BY <2>3 DEF Token, TokenType
  <2> QED
    BY <1>6, <2>1, <2>4, <2>5, ReturnType DEF ReturnOperator, TypeOK, PastEnd
<1>7. CASE ReturnEnd
  <2>1. [token EXCEPT !.ty = "End"] \in Token
    BY <1>2 DEF Token, TokenType
  <2> QED
    BY <1>7, <2>1, ReturnType DEF ReturnEnd, TypeOK, PastEnd
<1>8. CASE ReturnUnknown
  <2>1. [ty |-> "Unknown", data |-> buffer] \in Token
    BY <1>1 DEF Token, TokenType
  <2> QED
    BY <1>8, <2>1, ReturnType, ClearedType, MoveNextType DEF ReturnUnknown, TypeOK, PastEnd
<1> QED
  BY <1>3, <1>4, <1>5, <1>6, <1>7, <1>8

\* Each step of GetNextToken() keeps the type.
LEMMA TypeStep == TypeOK /\ [Next]_vars => TypeOK'
<1> SUFFICES ASSUME TypeOK, [Next]_vars PROVE TypeOK'
  OBVIOUS
<1>1. CASE UNCHANGED vars
  BY <1>1 DEF vars, TypeOK, PastEnd
<1>2. CASE Next
  BY <1>2, TypeInside, TypeReturn DEF Next
<1> QED
  BY <1>1, <1>2

\* The lexer's state keeps its shape: the register stays within its array and
\* no stream is read past its end (Lexer.hpp:162-176).
THEOREM TypeCorrect == Spec => []TypeOK
<1>1. Init => TypeOK
  BY TypeInit
<1>2. TypeOK /\ [Next]_vars => TypeOK'
  BY TypeStep
<1> QED
  BY <1>1, <1>2, PTL DEF Spec
-----------------------------------------------------------------------------
(* How far the lexer reads ahead *)

AllSymbols(b)    == \A i \in 1..Len(b) : isop(b[i])
ReadTooFar(b, c) == \A i \in 1..Len(b) : isop(b[i]) \/ (i = Len(b) /\ b[i] = c)
NoBlanks(b)      == \A i \in 1..Len(b) : b[i] \notin Blank

\* Where the lexer decides from the register, it holds symbols and then possibly
\* the character read last; in the operator loop it holds symbols only.
ReadAheadInv ==
  /\ NoBlanks(buffer)
  /\ current = NUL => buffer = <<>> /\ pc = "returned"
  /\ pc \in {"returned", "skipSpaces", "match", "fallThrough"} => ReadTooFar(buffer, current)
  /\ pc = "operators" => AllSymbols(buffer)

\* NUL and EOF are no characters of a source.
LEMMA Characters == NUL \notin Char \cup {EOF} /\ EOF \notin Char
  BY AlphabetAssumption DEF NUL, EOF

\* The parts of the register that are left when its oldest characters go.
LEMMA RestKeeps ==
  ASSUME NEW b \in Payload, NEW k \in 0..Len(b), NoBlanks(b)
  PROVE  /\ NoBlanks(Rest(b, k))
         /\ \A c : ReadTooFar(b, c) => ReadTooFar(Rest(b, k), c)
         /\ (\A i \in k + 1..Len(b) : isop(b[i])) => AllSymbols(Rest(b, k))
<1>1. Len(b) \in Nat /\ \A i \in k + 1..Len(b) : b[i] \in Char \cup {EOF}
  BY LenProperties, ElementOfSeq DEF Payload
<1>2. /\ Len(Rest(b, k)) = Len(b) - k
      /\ \A i \in 1..Len(b) - k : Rest(b, k)[i] = b[k + i]
  <2>1. /\ Len(SubSeq(b, k + 1, Len(b))) = IF k + 1 <= Len(b) THEN Len(b) - (k + 1) + 1 ELSE 0
        /\ \A i \in 1..Len(b) - (k + 1) + 1 : SubSeq(b, k + 1, Len(b))[i] = b[k + 1 + i - 1]
    BY <1>1, SubSeqProperties
  <2> QED
    BY <1>1, <2>1 DEF Rest
<1>3. \A i \in 1..Len(Rest(b, k)) : k + i \in k + 1..Len(b) /\ k + i \in 1..Len(b)
  BY <1>1, <1>2
<1>4. NoBlanks(Rest(b, k))
  BY <1>1, <1>2, <1>3 DEF NoBlanks
<1>5. ASSUME NEW c, ReadTooFar(b, c)
      PROVE  ReadTooFar(Rest(b, k), c)
  <2> SUFFICES ASSUME NEW i \in 1..Len(Rest(b, k))
               PROVE  isop(b[k + i]) \/ (i = Len(Rest(b, k)) /\ b[k + i] = c)
    BY <1>1, <1>2 DEF ReadTooFar
  <2>1. isop(b[k + i]) \/ (k + i = Len(b) /\ b[k + i] = c)
    BY <1>3, <1>5 DEF ReadTooFar
  <2> QED
    BY <1>1, <1>2, <2>1
<1>6. ASSUME \A i \in k + 1..Len(b) : isop(b[i])
      PROVE  AllSymbols(Rest(b, k))
  BY <1>1, <1>2, <1>3, <1>6 DEF AllSymbols
<1> QED
  BY <1>4, <1>5, <1>6

\* Tail is the case k = 1.
LEMMA TailKeeps ==
  ASSUME NEW b \in Payload, b # <<>>, NoBlanks(b)
  PROVE  /\ NoBlanks(Tail(b))
         /\ \A c : ReadTooFar(b, c) => ReadTooFar(Tail(b), c)
         /\ AllSymbols(b) => AllSymbols(Tail(b))
<1>1. Len(b) \in Nat /\ Len(b) >= 1
  BY LenProperties, EmptySeq DEF Payload
<1>2. /\ Len(Tail(b)) = Len(b) - 1
      /\ \A i \in 1..Len(Tail(b)) : Tail(b)[i] = b[i + 1]
  BY HeadTailProperties DEF Payload
<1>3. \A i \in 1..Len(Tail(b)) : i + 1 \in 1..Len(b) /\ i \in Nat
  BY <1>1, <1>2
<1>4. NoBlanks(Tail(b))
  BY <1>2, <1>3 DEF NoBlanks
<1>5. ASSUME NEW c, ReadTooFar(b, c)
      PROVE  ReadTooFar(Tail(b), c)
  <2> SUFFICES ASSUME NEW i \in 1..Len(Tail(b))
               PROVE  isop(b[i + 1]) \/ (i = Len(b) - 1 /\ b[i + 1] = c)
    BY <1>2 DEF ReadTooFar
  <2>1. isop(b[i + 1]) \/ (i + 1 = Len(b) /\ b[i + 1] = c)
    BY <1>3, <1>5 DEF ReadTooFar
  <2>2. i \in Nat
    BY <1>3
  <2>3. i + 1 = Len(b) => i = Len(b) - 1
    BY <1>1, <2>2
  <2> QED
    BY <2>1, <2>3
<1>6. AllSymbols(b) => AllSymbols(Tail(b))
  BY <1>2, <1>3 DEF AllSymbols
<1> QED
  BY <1>4, <1>5, <1>6

\* A character pushed after symbols is the only one read too far.
LEMMA AppendKeeps ==
  ASSUME NEW b \in Payload, NEW ch \in (Char \cup {EOF}) \ Blank, NoBlanks(b)
  PROVE  /\ NoBlanks(Append(b, ch))
         /\ AllSymbols(b) => ReadTooFar(Append(b, ch), ch)
<1>1. Len(b) \in Nat /\ b \in Seq(Char \cup {EOF})
  BY LenProperties DEF Payload
<1>2. /\ Len(Append(b, ch)) = Len(b) + 1
      /\ \A i \in 1..Len(b) : Append(b, ch)[i] = b[i]
      /\ Append(b, ch)[Len(b) + 1] = ch
  BY <1>1, AppendProperties
<1>3. \A i \in 1..Len(b) + 1 : i \in 1..Len(b) \/ i = Len(b) + 1
  BY <1>1
<1>4. NoBlanks(Append(b, ch))
  BY <1>2, <1>3 DEF NoBlanks
<1>5. AllSymbols(b) => ReadTooFar(Append(b, ch), ch)
  BY <1>2, <1>3 DEF AllSymbols, ReadTooFar
<1> QED
  BY <1>4, <1>5

\* The shift in moveNext().
LEMMA ShiftedKeeps ==
  ASSUME NEW b \in Payload, Len(b) <= Capacity, NEW ch \in Char \cup {EOF}, NoBlanks(b)
  PROVE  /\ NoBlanks(Shifted(b, ch))
         /\ AllSymbols(b) => ReadTooFar(Shifted(b, ch), ch)
<1>1. CASE ch \in Blank
  BY <1>1 DEF Shifted, AllSymbols, ReadTooFar
<1>2. CASE ch \notin Blank /\ Len(b) < Capacity
  BY <1>2, AppendKeeps DEF Shifted
<1>3. CASE ch \notin Blank /\ ~ Len(b) < Capacity
  <2>1. b # <<>>
    BY <1>3, LenProperties, EmptySeq, TableAssumption DEF Payload
  <2>2. Tail(b) \in Payload
    BY <2>1, HeadTailProperties DEF Payload
  <2>3. NoBlanks(Tail(b)) /\ (AllSymbols(b) => AllSymbols(Tail(b)))
    BY <2>1, TailKeeps
  <2> QED
    BY <1>3, <2>2, <2>3, AppendKeeps DEF Shifted
<1> QED
  BY <1>1, <1>2, <1>3

\* moveNext() after the symbols of an earlier read.
LEMMA MoveNextKeeps ==
  ASSUME TypeOK, NEW b \in Payload, Len(b) <= Capacity, NoBlanks(b), MoveNext(b)
  PROVE  /\ NoBlanks(buffer')
         /\ AllSymbols(b) => ReadTooFar(buffer', current')
         /\ current' # NUL
<1>1. current' \in Char \cup {EOF} /\ current' # NUL
  BY MoveNextType, Characters
<1>2. CASE buffer' = Shifted(b, current')
  BY <1>1, <1>2, ShiftedKeeps
<1>3. CASE buffer' = b
  BY <1>1, <1>3 DEF AllSymbols, ReadTooFar
<1> QED
  BY <1>1, <1>2, <1>3 DEF MoveNext

\* What clearBuffer() leaves are symbols, at every place it is called from.
LEMMA ClearedKeeps ==
  ASSUME TypeOK, NoBlanks(buffer), NEW k \in Cleared(buffer)
  PROVE  /\ Rest(buffer, k) \in Payload /\ Len(Rest(buffer, k)) <= Capacity
         /\ NoBlanks(Rest(buffer, k)) /\ AllSymbols(Rest(buffer, k))
<1>1. /\ buffer \in Payload /\ k \in 0..Len(buffer)
      /\ \A i \in k + 1..Len(buffer) : isop(buffer[i])
  BY DEF Cleared, TypeOK
<1> QED
  BY <1>1, ClearedType, RestKeeps

\* Symbols only are a special case.
LEMMA SymbolsReadTooFar ==
  ASSUME NEW b, NEW c, AllSymbols(b)
  PROVE  ReadTooFar(b, c)
BY DEF AllSymbols, ReadTooFar

\* Nothing is held at first.
LEMMA ReadAheadInit == Init => ReadAheadInv
BY EmptySeq DEF Init, ReadAheadInv, NoBlanks, ReadTooFar, AllSymbols

\* The steps that leave the register and the character read last alone.
LEMMA ReadAheadStill ==
  ASSUME TypeOK, ReadAheadInv,
         \/ BeginIdentifier \/ BeginNumber \/ BeginString \/ BeginOperators \/ BeginMatch
         \/ StringAtEOF \/ BeginComment \/ SkipUntil \/ ReturnEnd \/ DereferenceEnd
         \/ UNCHANGED vars
  PROVE  ReadAheadInv'
<1> USE DEF input
<1>1. buffer' = buffer /\ current' = current
  BY DEF BeginIdentifier, BeginNumber, BeginString, Begin, BeginOperators, BeginMatch,
         StringAtEOF, BeginComment, SkipUntil, ReturnEnd, DereferenceEnd, vars
<1>2. CASE UNCHANGED vars
  BY <1>2 DEF vars, ReadAheadInv
<1>3. CASE BeginOperators
  <2>1. ReadTooFar(buffer, current) /\ isop(current) /\ pc = "skipSpaces" /\ pc' = "operators"
    BY <1>3 DEF BeginOperators, ReadAheadInv
  <2>2. AllSymbols(buffer)
    BY <2>1 DEF ReadTooFar, AllSymbols
  <2> QED
    BY <1>1, <2>1, <2>2 DEF ReadAheadInv
<1>4. CASE BeginMatch \/ ReturnEnd
  <2>1. /\ pc \in {"skipSpaces", "match", "fallThrough"}
        /\ pc' \in {"match", "returned"}
    BY <1>4 DEF BeginMatch, ReturnEnd, Return, Unmatched, Matching
  <2> QED
    BY <1>1, <2>1 DEF ReadAheadInv
<1>5. CASE \/ BeginIdentifier \/ BeginNumber \/ BeginString
           \/ StringAtEOF \/ BeginComment \/ SkipUntil \/ DereferenceEnd
  <2>1. /\ pc # "returned"
        /\ pc' \in {"identifier", "number", "string", "closeString", "skipUntil",
                    "endComment", "undefined"}
    BY <1>5 DEF BeginIdentifier, BeginNumber, BeginString, Begin, StringAtEOF, BeginComment,
                SkipUntil, DereferenceEnd
  <2> QED
    BY <1>1, <2>1 DEF ReadAheadInv
<1> QED
  BY <1>2, <1>3, <1>4, <1>5

\* The steps that read a character.
LEMMA ReadAheadMoves ==
  ASSUME TypeOK, ReadAheadInv,
         \/ GetNextToken \/ SkipSpaces \/ ReadIdentifier \/ ReadNumber \/ ReadString
         \/ ReadOperators \/ CloseString \/ EndComment \/ ReturnUnknown
  PROVE  ReadAheadInv'
<1> USE DEF input
<1>1. buffer \in Payload /\ Len(buffer) <= Capacity /\ NoBlanks(buffer)
  BY DEF TypeOK, ReadAheadInv
<1>2. CASE GetNextToken
  <2>1. CASE current = NUL
    <3>1. MoveNext(buffer) /\ AllSymbols(buffer) /\ pc' = "skipSpaces"
      BY <1>2, <2>1, EmptySeq DEF GetNextToken, ReadAheadInv, AllSymbols
    <3> QED
      BY <1>1, <3>1, MoveNextKeeps DEF ReadAheadInv
  <2>2. CASE current # NUL
    BY <1>2, <2>2 DEF GetNextToken, ReadAheadInv
  <2> QED
    BY <2>1, <2>2
<1>3. CASE SkipSpaces
  <2>1. /\ pc = "skipSpaces" /\ pc' = pc /\ current \in Blank
        /\ MoveNext(buffer) /\ ReadTooFar(buffer, current)
    BY <1>3 DEF SkipSpaces, ReadAheadInv
  <2>2. AllSymbols(buffer)
    BY <1>1, <2>1 DEF AllSymbols, ReadTooFar, NoBlanks
  <2> QED
    BY <1>1, <2>1, <2>2, MoveNextKeeps DEF ReadAheadInv
<1>4. CASE ReadIdentifier \/ ReadNumber \/ ReadString
  <2>1. MoveNext(buffer) /\ pc' \in {"identifier", "number", "string", "closeString"}
    BY <1>4 DEF ReadIdentifier, ReadNumber, ReadString, Collect
  <2> QED
    BY <1>1, <2>1, MoveNextKeeps DEF ReadAheadInv
<1>5. CASE ReadOperators
  <2>1. /\ MoveNext(buffer) /\ AllSymbols(buffer)
        /\ pc' = IF isop(current') THEN "operators" ELSE "match"
    BY <1>5 DEF ReadOperators, ReadAheadInv
  <2>2. NoBlanks(buffer') /\ ReadTooFar(buffer', current') /\ current' # NUL
    BY <1>1, <2>1, MoveNextKeeps
  <2>3. isop(current') => AllSymbols(buffer')
    BY <2>2 DEF ReadTooFar, AllSymbols
  <2> QED
    BY <2>1, <2>2, <2>3 DEF ReadAheadInv
<1>6. CASE CloseString \/ EndComment \/ ReturnUnknown
  <2>1. PICK k \in Cleared(buffer) : MoveNext(Rest(buffer, k))
    BY <1>6 DEF CloseString, EndComment, ReturnUnknown
  <2>2. NoBlanks(buffer') /\ ReadTooFar(buffer', current') /\ current' # NUL
    BY <1>1, <2>1, ClearedKeeps, MoveNextKeeps
  <2>3. pc' \in {"returned", "skipSpaces", "fallThrough"}
    BY <1>6 DEF CloseString, EndComment, ReturnUnknown, Return
  <2> QED
    BY <2>2, <2>3 DEF ReadAheadInv
<1> QED
  BY <1>2, <1>3, <1>4, <1>5, <1>6

\* The steps that take characters out of the register.
LEMMA ReadAheadPops ==
  ASSUME TypeOK, ReadAheadInv,
         EndIdentifier \/ EndNumber \/ ReturnPunctuation \/ ReturnOperator
  PROVE  ReadAheadInv'
<1> USE DEF input
<1>1. buffer \in Payload /\ Len(buffer) <= Capacity /\ NoBlanks(buffer)
  BY DEF TypeOK, ReadAheadInv
<1>2. current' = current /\ current # NUL /\ pc' = "returned"
  BY DEF EndIdentifier, EndNumber, ReturnPunctuation, ReturnOperator, Return, Matching,
         ReadAheadInv
<1>3. CASE EndIdentifier \/ EndNumber
  <2>1. PICK k \in Cleared(buffer) : buffer' = Rest(buffer, k)
    BY <1>3 DEF EndIdentifier, EndNumber
  <2>2. NoBlanks(buffer') /\ ReadTooFar(buffer', current')
    BY <1>1, <2>1, ClearedKeeps, SymbolsReadTooFar
  <2> QED
    BY <1>2, <2>2 DEF ReadAheadInv
<1>4. CASE ReturnPunctuation
  <2>1. PICK p \in Punctuation : Oldest = p[1]
    BY <1>4 DEF ReturnPunctuation
  <2>2. buffer # <<>>
    BY <2>1, PunctuationPairs DEF Oldest
  <2>3. buffer' = Tail(buffer) /\ ReadTooFar(buffer, current)
    BY <1>4 DEF ReturnPunctuation, Matching, ReadAheadInv
  <2> QED
    BY <1>1, <1>2, <2>2, <2>3, TailKeeps DEF ReadAheadInv
<1>5. CASE ReturnOperator
  <2>1. PICK op \in Parsed(buffer) : buffer' = Rest(buffer, Len(op))
    BY <1>5 DEF ReturnOperator
  <2>2. Len(op) \in 0..Len(buffer)
    <3>1. Len(op) \in Nat /\ Len(op) <= Len(buffer)
      BY TableAssumption, LenProperties DEF Parsed, Spells
    <3> QED
      BY <1>1, <3>1, LenProperties DEF Payload
  <2>3. ReadTooFar(buffer, current)
    BY <1>5 DEF ReturnOperator, Matching, ReadAheadInv
  <2> QED
    BY <1>1, <1>2, <2>1, <2>2, <2>3, RestKeeps DEF ReadAheadInv
<1> QED
  BY <1>3, <1>4, <1>5

\* Each step keeps the bounds on what is held.
LEMMA ReadAheadStep == TypeOK /\ ReadAheadInv /\ [Next]_vars => ReadAheadInv'
<1> SUFFICES ASSUME TypeOK, ReadAheadInv, [Next]_vars PROVE ReadAheadInv'
  OBVIOUS
<1>1. CASE UNCHANGED vars
  BY <1>1, ReadAheadStill
<1>2. CASE Next
  BY <1>2, ReadAheadStill, ReadAheadMoves, ReadAheadPops DEF Next, SkipUntilSpins
<1> QED
  BY <1>1, <1>2

\* Between two calls at most one character has been read too far, for every
\* alphabet, table and source, with a full register too (Lexer.hpp:44, 162-190).
THEOREM ReadAheadCorrect == Spec => []ReadAhead
<1>1. Init => TypeOK /\ ReadAheadInv
  BY TypeInit, ReadAheadInit
<1>2. TypeOK /\ ReadAheadInv /\ [Next]_vars => (TypeOK /\ ReadAheadInv)'
  BY TypeStep, ReadAheadStep
<1>3. ReadAheadInv => ReadAhead
  BY DEF ReadAheadInv, ReadAhead, ReadTooFar
<1> QED
  BY <1>1, <1>2, <1>3, PTL DEF Spec

\* Symbols are matched against the table only when their run has been read to
\* its end: "match" is entered from the loop that ends it and from the test that
\* finds no run (Lexer.hpp:91-93).
THEOREM RunCompleteCorrect == Spec => []RunComplete
<1>1. Init => RunComplete
  BY DEF Init, RunComplete
<1>2. RunComplete /\ [Next]_vars => RunComplete'
  <2> SUFFICES ASSUME RunComplete, [Next]_vars, pc' = "match"
               PROVE  (isop(Oldest) => ~ isop(current))'
    BY DEF RunComplete
  <2>1. CASE UNCHANGED vars
    BY <2>1 DEF vars, RunComplete, Oldest
  <2>2. CASE BeginMatch
    BY <2>2 DEF BeginMatch, input, Oldest
  <2>3. CASE ReadOperators
    BY <2>3 DEF ReadOperators
  <2>4. CASE SkipUntilSpins
    BY <2>1, <2>4 DEF SkipUntilSpins
  <2>5. CASE \/ GetNextToken \/ SkipSpaces \/ BeginIdentifier \/ ReadIdentifier \/ EndIdentifier
             \/ BeginNumber \/ ReadNumber \/ EndNumber \/ BeginString \/ ReadString
             \/ StringAtEOF \/ CloseString \/ BeginOperators \/ BeginComment \/ SkipUntil
             \/ EndComment \/ ReturnPunctuation \/ ReturnOperator \/ ReturnEnd
             \/ ReturnUnknown \/ DereferenceEnd
    BY <2>5 DEF GetNextToken, SkipSpaces, BeginIdentifier, ReadIdentifier, EndIdentifier,
                BeginNumber, ReadNumber, EndNumber, BeginString, ReadString, StringAtEOF,
                CloseString, BeginOperators, BeginComment, SkipUntil, EndComment,
                ReturnPunctuation, ReturnOperator, ReturnEnd, ReturnUnknown, DereferenceEnd,
                Begin, Collect, Return
  <2> QED
    BY <2>1, <2>2, <2>3, <2>4, <2>5 DEF Next
<1> QED
  BY <1>1, <1>2, PTL DEF Spec
-----------------------------------------------------------------------------
(* What happens after End *)

\* The payload a loop fills belongs to a token of its type.
LoopTypes ==
  /\ pc = "identifier" => token.ty = "Identifier"
  /\ pc = "number" => token.ty = "Number"
  /\ pc \in {"string", "closeString"} => token.ty = "String"

\* At End nothing in the register can be matched any more, and nothing is read:
\* every later call takes the way of the one that returned End.
NothingLeft ==
  Finished =>
    /\ current = EOF
    /\ token.ty = "End"
    /\ Oldest \notin Punctuators
    /\ Parsed(buffer) = {}
    /\ pc \in {"returned", "skipSpaces", "match", "skipUntil", "undefined"}

\* EOF is read at the end of a stream.
AtEnd == current = EOF /\ ~ PastEnd => pos = Len(source[stream])

\* What EndIsFinal rests on: the types of the loops, and where End is said.
EndInv == LoopTypes /\ NothingLeft /\ AtEnd

\* moveNext() reads EOF only at an end.
LEMMA MoveNextAtEnd ==
  ASSUME TypeOK, NEW b, MoveNext(b)
  PROVE  AtEnd'
<1>1. /\ source \in Seq(Seq(Char)) /\ Len(source) \in Nat /\ source' = source
      /\ \A i \in 1..Len(source) : source[i] \in Seq(Char) /\ Len(source[i]) \in Nat
  BY LenProperties, ElementOfSeq DEF TypeOK, MoveNext
<1>2. stream \in 1..Len(source) /\ pos \in Nat
  BY <1>1 DEF TypeOK, MoveNext, PastEnd
<1>3. CASE pos < Len(source[stream]) /\ current' = source[stream][pos + 1]
  <2>1. source[stream][pos + 1] \in Char
    BY <1>1, <1>2, <1>3, ElementOfSeq
  <2> QED
    BY <1>3, <2>1, Characters DEF AtEnd
<1>4. CASE stream = Len(source) /\ stream' = stream + 1
  BY <1>1, <1>2, <1>4 DEF AtEnd, PastEnd
<1>5. CASE /\ stream < Len(source)
           /\ stream' = stream + 1
           /\ pos' = IF source[stream + 1] = <<>> THEN 0 ELSE 1
           /\ current' = IF source[stream + 1] = <<>> THEN EOF
                                                      ELSE source[stream + 1][1]
  <2>1. stream + 1 \in 1..Len(source)
    BY <1>1, <1>2, <1>5
  <2>2. CASE source[stream + 1] = <<>>
    BY <1>1, <1>5, <2>2, EmptySeq DEF AtEnd
  <2>3. CASE source[stream + 1] # <<>>
    <3>1. source[stream + 1][1] \in Char
      BY <1>1, <2>1, <2>3, EmptySeq, ElementOfSeq
    <3> QED
      BY <1>5, <2>3, <3>1, Characters DEF AtEnd
  <2> QED
    BY <2>2, <2>3
<1> QED
  BY <1>3, <1>4, <1>5 DEF MoveNext

\* Nothing has been said at first.
LEMMA EndInit == Init => EndInv
BY DEF Init, EndInv, LoopTypes, NothingLeft, AtEnd, Finished, NUL, EOF

\* While the history has no End, only a token of type End ends it.
LEMMA ReturnFinished ==
  ASSUME TypeOK, NEW tok \in Token, Return(tok), ~ Finished
  PROVE  Finished' => tok.ty = "End"
<1>1. out \in Seq(Token) /\ out' = Append(out, tok) /\ Len(out) \in Nat
  BY LenProperties DEF Return, TypeOK
<1>2. Len(out') = Len(out) + 1 /\ out'[Len(out) + 1] = tok
  BY <1>1, AppendProperties
<1> QED
  BY <1>2 DEF Finished

\* Each step keeps the types of the loops.
LEMMA LoopTypesStep == TypeOK /\ LoopTypes /\ [Next]_vars => LoopTypes'
<1> SUFFICES ASSUME TypeOK, LoopTypes, [Next]_vars PROVE LoopTypes'
  OBVIOUS
<1>1. CASE UNCHANGED vars
  BY <1>1 DEF vars, LoopTypes
<1>2. CASE BeginIdentifier \/ BeginNumber \/ BeginString
  <2>1. CASE BeginIdentifier
    <3>1. token'.ty = "Identifier" /\ pc' = "identifier"
      BY <2>1 DEF BeginIdentifier, Begin
    <3> QED
      BY <3>1 DEF LoopTypes
  <2>2. CASE BeginNumber
    <3>1. token'.ty = "Number" /\ pc' = "number"
      BY <2>2 DEF BeginNumber, Begin
    <3> QED
      BY <3>1 DEF LoopTypes
  <2>3. CASE BeginString
    <3>1. token'.ty = "String" /\ pc' = "string"
      BY <2>3 DEF BeginString, Begin
    <3> QED
      BY <3>1 DEF LoopTypes
  <2> QED
    BY <1>2, <2>1, <2>2, <2>3
<1>3. CASE ReadIdentifier \/ ReadNumber \/ ReadString \/ StringAtEOF
  <2>1. token'.ty = token.ty
    BY <1>3 DEF ReadIdentifier, ReadNumber, ReadString, StringAtEOF, Collect, TypeOK, Token
  <2>2. \/ pc' = pc /\ pc \in {"identifier", "number"}
        \/ pc = "string" /\ pc' \in {"string", "closeString"}
    BY <1>3 DEF ReadIdentifier, ReadNumber, ReadString, StringAtEOF, Collect
  <2> QED
    BY <2>1, <2>2 DEF LoopTypes
<1>4. CASE \/ GetNextToken \/ BeginOperators \/ ReadOperators \/ BeginMatch \/ BeginComment
           \/ SkipSpaces \/ SkipUntil \/ EndComment \/ DereferenceEnd
           \/ EndIdentifier \/ EndNumber \/ CloseString
           \/ ReturnPunctuation \/ ReturnOperator \/ ReturnEnd \/ ReturnUnknown
  <2>1. pc' \notin {"identifier", "number", "string", "closeString"}
    BY <1>4 DEF GetNextToken, BeginOperators, ReadOperators, BeginMatch, BeginComment,
                SkipSpaces, SkipUntil, EndComment, DereferenceEnd, EndIdentifier, EndNumber,
                CloseString, ReturnPunctuation, ReturnOperator, ReturnEnd, ReturnUnknown, Return
  <2> QED
    BY <2>1 DEF LoopTypes
<1> QED
  BY <1>1, <1>2, <1>3, <1>4 DEF Next, SkipUntilSpins

\* Each step keeps what is known of the end of the streams.
LEMMA AtEndStep == TypeOK /\ AtEnd /\ [Next]_vars => AtEnd'
<1> SUFFICES ASSUME TypeOK, AtEnd, [Next]_vars PROVE AtEnd'
  OBVIOUS
<1>1. CASE \E b : MoveNext(b)
  BY <1>1, MoveNextAtEnd
<1>2. CASE UNCHANGED input
  BY <1>2 DEF input, AtEnd, PastEnd
<1>3. CASE SkipUntil
  <2>1. stream \in 1..Len(source) /\ Len(source) \in Nat /\ pos \in Nat
    BY <1>3, LenProperties DEF SkipUntil, TypeOK, PastEnd
  <2>2. Len(source[stream]) \in Nat
    BY <2>1, ElementOfSeq, LenProperties DEF TypeOK
  <2>3. ~ PastEnd /\ pos < Len(source[stream]) /\ current' = current
    BY <1>3 DEF SkipUntil
  <2> QED
    BY <2>1, <2>2, <2>3 DEF AtEnd
<1>4. CASE \/ SkipSpaces \/ ReadIdentifier \/ ReadNumber \/ ReadString \/ ReadOperators
           \/ CloseString \/ EndComment \/ ReturnUnknown
  <2>1. \E b : MoveNext(b)
    BY <1>4 DEF SkipSpaces, ReadIdentifier, ReadNumber, ReadString, ReadOperators, Collect,
                CloseString, EndComment, ReturnUnknown
  <2> QED
    BY <1>1, <2>1
<1>5. CASE \/ BeginIdentifier \/ BeginNumber \/ BeginString \/ BeginOperators \/ BeginMatch
           \/ StringAtEOF \/ BeginComment \/ DereferenceEnd \/ EndIdentifier \/ EndNumber
           \/ ReturnPunctuation \/ ReturnOperator \/ ReturnEnd \/ SkipUntilSpins
           \/ UNCHANGED vars
  <2>1. UNCHANGED input
    BY <1>5 DEF BeginIdentifier, BeginNumber, BeginString, Begin, BeginOperators, BeginMatch,
                StringAtEOF, BeginComment, DereferenceEnd, EndIdentifier, EndNumber,
                ReturnPunctuation, ReturnOperator, ReturnEnd, SkipUntilSpins, vars, input
  <2> QED
    BY <1>2, <2>1
<1>6. CASE GetNextToken
  BY <1>1, <1>2, <1>6 DEF GetNextToken, input
<1> QED
  BY <1>3, <1>4, <1>5, <1>6 DEF Next

\* Before End is returned: the token a call returns has another type, unless
\* nothing can be matched and the input has been read.
LEMMA EndReached ==
  ASSUME TypeOK, LoopTypes, ~ Finished, [Next]_vars
  PROVE  NothingLeft'
<1> USE DEF input
<1>1. CASE \/ GetNextToken \/ SkipSpaces
           \/ BeginIdentifier \/ BeginNumber \/ BeginString \/ BeginOperators \/ BeginMatch
           \/ ReadIdentifier \/ ReadNumber \/ ReadString \/ StringAtEOF
           \/ ReadOperators \/ BeginComment \/ SkipUntil \/ SkipUntilSpins \/ EndComment
           \/ DereferenceEnd \/ UNCHANGED vars
  <2>1. out' = out
    BY <1>1 DEF GetNextToken, SkipSpaces, BeginIdentifier, BeginNumber, BeginString, Begin,
                BeginOperators, BeginMatch, ReadIdentifier, ReadNumber, Collect, ReadString,
                StringAtEOF, ReadOperators, BeginComment, SkipUntil, SkipUntilSpins, EndComment,
                DereferenceEnd, vars
  <2> QED
    BY <2>1 DEF NothingLeft, Finished
<1>2. CASE ReturnEnd
  <2>1. /\ current' = current /\ buffer' = buffer /\ current = EOF
        /\ Oldest \notin Punctuators /\ Parsed(buffer) = {}
        /\ token' = [token EXCEPT !.ty = "End"] /\ pc' = "returned"
    BY <1>2 DEF ReturnEnd, Unmatched, Return
  <2>2. token'.ty = "End"
    BY <2>1 DEF TypeOK, Token
  <2> QED
    BY <2>1, <2>2 DEF NothingLeft, Oldest
<1>3. CASE \/ EndIdentifier \/ EndNumber \/ CloseString
           \/ ReturnPunctuation \/ ReturnOperator \/ ReturnUnknown
  <2>1. \E tok \in Token : Return(tok) /\ tok.ty # "End"
    <3>1. CASE EndIdentifier \/ EndNumber \/ CloseString
      <4>1. /\ token \in Token /\ token.ty \in {"Identifier", "Number", "String"}
            /\ token.ty \in TokenType
        BY <3>1 DEF EndIdentifier, EndNumber, CloseString, LoopTypes, TypeOK, Token
      <4>2. CASE Return(token)
        BY <4>1, <4>2
      <4>3. CASE Return([token EXCEPT !.ty = IF token.data \in Keywords THEN "Keyword" ELSE @])
        <5> DEFINE tok == [token EXCEPT !.ty = IF token.data \in Keywords THEN "Keyword" ELSE @]
        <5>1. tok \in Token /\ tok.ty # "End"
          BY <4>1 DEF Token, TokenType
        <5> QED
          BY <4>3, <5>1
      <4> QED
        BY <3>1, <4>2, <4>3 DEF EndIdentifier, EndNumber, CloseString
    <3>2. CASE ReturnPunctuation
      <4>1. PICK p \in Punctuation : Return([token EXCEPT !.ty = p[2]])
        BY <3>2 DEF ReturnPunctuation
      <4>2. [token EXCEPT !.ty = p[2]] \in Token /\ [token EXCEPT !.ty = p[2]].ty # "End"
        BY PunctuationPairs DEF TypeOK, Token
      <4> QED
        BY <4>1, <4>2
    <3>3. CASE ReturnOperator
      <4>1. PICK op \in Parsed(buffer) : Return([ty |-> "Operator", data |-> op])
        BY <3>3 DEF ReturnOperator
      <4>2. op \in Payload
        BY TableAssumption, SeqMonotonic DEF Parsed, Payload, Char
      <4>3. [ty |-> "Operator", data |-> op] \in Token /\ "Operator" # "End"
        BY <4>2 DEF Token, TokenType
      <4> QED
        BY <4>1, <4>3
    <3>4. CASE ReturnUnknown
      <4>1. [ty |-> "Unknown", data |-> buffer] \in Token
        BY DEF Token, TokenType, TypeOK
      <4> QED
        BY <3>4, <4>1 DEF ReturnUnknown
    <3> QED
      BY <1>3, <3>1, <3>2, <3>3, <3>4
  <2>2. ~ Finished'
    BY <2>1, ReturnFinished
  <2> QED
    BY <2>2 DEF NothingLeft
<1> QED
  BY <1>1, <1>2, <1>3 DEF Next

\* After End a call finds what the call before it found; it may take the slashes
\* of a comment for the beginning of one, and never returns then.
LEMMA EndKept ==
  ASSUME TypeOK, NothingLeft, AtEnd, Finished, [Next]_vars
  PROVE  NothingLeft'
<1> USE DEF input
<1>1. /\ current = EOF /\ token.ty = "End" /\ Oldest \notin Punctuators /\ Parsed(buffer) = {}
      /\ pc \in {"returned", "skipSpaces", "match", "skipUntil", "undefined"}
  BY DEF NothingLeft
<1>2. EOF \notin Letter \cup Digit \cup Blank \cup {Quote, "_", "."} /\ EOF # NUL /\ ~ isop(EOF)
  BY Characters DEF isop, Char, Plain, EOF, NUL
<1>3. CASE GetNextToken \/ BeginMatch \/ BeginComment \/ DereferenceEnd \/ SkipUntilSpins
           \/ UNCHANGED vars
  <2>1. current' = current /\ token' = token /\ buffer' = buffer /\ out' = out
    BY <1>1, <1>2, <1>3 DEF GetNextToken, BeginMatch, BeginComment, DereferenceEnd,
                            SkipUntilSpins, vars
  <2>2. pc' \in {"returned", "skipSpaces", "match", "skipUntil", "undefined"}
    BY <1>1, <1>3 DEF GetNextToken, BeginMatch, BeginComment, DereferenceEnd, SkipUntilSpins, vars
  <2> QED
    BY <1>1, <2>1, <2>2 DEF NothingLeft, Oldest
<1>4. CASE ReturnEnd
  <2>1. current' = current /\ buffer' = buffer /\ pc' = "returned"
        /\ token' = [token EXCEPT !.ty = "End"]
    BY <1>4 DEF ReturnEnd, Return
  <2>2. token'.ty = "End"
    BY <2>1 DEF TypeOK, Token
  <2> QED
    BY <1>1, <2>1, <2>2 DEF NothingLeft, Oldest
<1>5. ~ SkipUntil
  <2>1. SkipUntil => /\ stream \in 1..Len(source) /\ Len(source) \in Nat /\ pos \in Nat
                     /\ ~ PastEnd /\ pos < Len(source[stream])
    BY LenProperties DEF SkipUntil, TypeOK, PastEnd
  <2> QED
    BY <1>1, <2>1 DEF AtEnd
<1>6. ~ (SkipSpaces \/ BeginIdentifier \/ BeginNumber \/ BeginString \/ BeginOperators)
  BY <1>1, <1>2 DEF SkipSpaces, BeginIdentifier, BeginNumber, BeginString, BeginOperators
<1>7. ~ (\/ ReadIdentifier \/ EndIdentifier \/ ReadNumber \/ EndNumber \/ ReadString
         \/ StringAtEOF \/ CloseString \/ ReadOperators \/ EndComment)
  BY <1>1 DEF ReadIdentifier, EndIdentifier, ReadNumber, EndNumber, ReadString, StringAtEOF,
              CloseString, ReadOperators, EndComment
<1>8. ~ (ReturnPunctuation \/ ReturnOperator \/ ReturnUnknown)
  <2>1. \A p \in Punctuation : Oldest # p[1]
    BY <1>1, PunctuationPairs
  <2> QED
    BY <1>1, <2>1 DEF ReturnPunctuation, ReturnOperator, ReturnUnknown
<1> QED
  BY <1>3, <1>4, <1>5, <1>6, <1>7, <1>8 DEF Next

\* Once End has been returned every later call returns End, whatever the register
\* still holds and for every table of operators (Lexer.hpp:139-141).
THEOREM EndIsFinalCorrect == Spec => []EndIsFinal
<1>1. Init => TypeOK /\ EndInv
  BY TypeInit, EndInit
<1>2. TypeOK /\ EndInv /\ [Next]_vars => (TypeOK /\ EndInv)'
  <2> SUFFICES ASSUME TypeOK, EndInv, [Next]_vars PROVE (TypeOK /\ EndInv)'
    OBVIOUS
  <2>1. NothingLeft'
    BY EndReached, EndKept DEF EndInv
  <2> QED
    BY <2>1, TypeStep, LoopTypesStep, AtEndStep DEF EndInv
<1>3. EndInv => EndIsFinal
  BY DEF EndInv, NothingLeft, EndIsFinal
<1> QED
  BY <1>1, <1>2, <1>3, PTL DEF Spec
-----------------------------------------------------------------------------
(* Where moveNext() is called, and that a call gets on *)

\* The loops of words and numbers have come to their end.
WordRead ==
  \/ pc = "identifier" /\ current \notin Letter \cup Digit \cup {"_"}
  \/ pc = "number" /\ current \notin Digit \cup {"."}

\* The code calls moveNext() next, and has not just closed a string.
ReadsNext ==
  \/ pc = "returned" /\ current = NUL
  \/ pc = "skipSpaces" /\ current \in Blank
  \/ pc \in {"identifier", "number"} /\ ~ WordRead
  \/ pc = "string" /\ current # EOF
  \/ pc \in {"operators", "endComment"}
  \/ Unmatched /\ current # EOF

\* Only the end of a string and a comment read without a look at the character
\* before, so only they may find no stream.
ReadsInside == ReadsNext => ~ PastEnd

\* Past the last stream `current' is EOF, which ends the loops.
PastEndInv ==
  /\ PastEnd => current = EOF
  /\ pc = "operators" => isop(current)
  /\ pc = "endComment" => ~ PastEnd

LEMMA EOFEndsLoops ==
  /\ EOF \notin Letter \cup Digit \cup Blank \cup {Quote, "_", "."}
  /\ EOF # NUL /\ ~ isop(EOF)
BY Characters DEF isop, Char, Plain, EOF, NUL

\* moveNext() and the end of the streams.
LEMMA MoveNextPastEnd ==
  ASSUME TypeOK, NEW b, MoveNext(b)
  PROVE  PastEnd' => current' = EOF
<1>1. /\ stream \in 1..Len(source) /\ Len(source) \in Nat /\ source' = source
  BY LenProperties DEF TypeOK, MoveNext, PastEnd
<1> QED
  BY <1>1 DEF MoveNext, PastEnd

\* Each step keeps what is known of reading past the end.
LEMMA PastEndStep == TypeOK /\ PastEndInv /\ [Next]_vars => PastEndInv'
<1> SUFFICES ASSUME TypeOK, PastEndInv, [Next]_vars PROVE PastEndInv'
  OBVIOUS
<1> USE DEF input
<1>1. CASE SkipSpaces \/ ReadIdentifier \/ ReadNumber \/ ReadString \/ CloseString \/ EndComment
           \/ ReturnUnknown
  <2>1. /\ \E b : MoveNext(b)
        /\ pc' \notin {"operators", "endComment"}
    BY <1>1 DEF SkipSpaces, ReadIdentifier, ReadNumber, ReadString, CloseString, EndComment,
                ReturnUnknown, Collect, Return
  <2> QED
    BY <2>1, MoveNextPastEnd DEF PastEndInv
<1>2. CASE ReadOperators
  <2>1. MoveNext(buffer) /\ pc' = IF isop(current') THEN "operators" ELSE "match"
    BY <1>2 DEF ReadOperators
  <2>2. (pc = "operators" => isop(current))' /\ pc' # "endComment"
    BY <2>1 DEF isop
  <2> QED
    BY <2>1, <2>2, MoveNextPastEnd DEF PastEndInv
<1>3. CASE GetNextToken
  <2>1. pc' = "skipSpaces" /\ (MoveNext(buffer) \/ UNCHANGED input)
    BY <1>3 DEF GetNextToken
  <2> QED
    BY <2>1, MoveNextPastEnd DEF PastEndInv, PastEnd
<1>4. CASE SkipUntil
  BY <1>4 DEF SkipUntil, PastEndInv, PastEnd
<1>5. CASE BeginOperators
  BY <1>5 DEF BeginOperators, PastEndInv, PastEnd, isop
<1>6. CASE \/ BeginIdentifier \/ BeginNumber \/ BeginString \/ BeginMatch \/ StringAtEOF
           \/ BeginComment \/ DereferenceEnd \/ EndIdentifier \/ EndNumber
           \/ ReturnPunctuation \/ ReturnOperator \/ ReturnEnd
  <2>1. UNCHANGED input /\ pc' \notin {"operators", "endComment"}
    BY <1>6 DEF BeginIdentifier, BeginNumber, BeginString, Begin, BeginMatch, StringAtEOF,
                BeginComment, DereferenceEnd, EndIdentifier, EndNumber, ReturnPunctuation,
                ReturnOperator, ReturnEnd, Return
  <2> QED
    BY <2>1 DEF PastEndInv, PastEnd
<1>7. CASE SkipUntilSpins \/ UNCHANGED vars
  BY <1>7 DEF SkipUntilSpins, vars, PastEndInv, PastEnd, isop
<1> QED
  BY <1>1, <1>2, <1>3, <1>4, <1>5, <1>6, <1>7 DEF Next

\* No loop reads on through streams.end(), nor does the first read or the one
\* after an unknown symbol; what is left are the two places at which the model
\* ends in "undefined" (Lexer.hpp:40, 52, 70, 81, 92, 100, 146, 159).
THEOREM ReadsInsideCorrect == Spec => []ReadsInside
<1>1. Init => TypeOK /\ PastEndInv
  <2>1. Init => Len(source) >= 1 /\ stream = 1 /\ pc = "returned" /\ Len(source) \in Nat
    BY SourceAssumption, EmptySeq, LenProperties DEF Init
  <2> QED
    BY <2>1, TypeInit DEF PastEndInv, PastEnd
<1>2. TypeOK /\ PastEndInv /\ [Next]_vars => (TypeOK /\ PastEndInv)'
  BY TypeStep, PastEndStep
<1>3. PastEndInv => ReadsInside
  BY EOFEndsLoops DEF PastEndInv, ReadsInside, ReadsNext, WordRead
<1> QED
  BY <1>1, <1>2, <1>3, PTL DEF Spec

\* The input has been read further.
ReadOn == stream' > stream \/ (stream' = stream /\ pos' > pos)

\* How far the next step is that reads, or takes a character out of the register,
\* or ends in undefined behaviour.
Distance ==
  CASE WordRead -> 5
    [] pc = "returned" -> 4
    [] pc = "skipSpaces" -> 3
    [] pc \in {"string", "operators", "match"} -> 2
    [] pc \in {"identifier", "number"} /\ ~ WordRead -> 2
    [] pc \in {"closeString", "skipUntil", "endComment", "fallThrough"} -> 1
    [] pc = "undefined" -> 0

\* A step reads on, or makes the register shorter, or comes nearer to one of these.
Nearer ==
  /\ UNCHANGED <<stream, pos>>
  /\ \/ Len(buffer') < Len(buffer)
     \/ Len(buffer') = Len(buffer) /\ Distance' < Distance

\* GetNextToken() says End.
ReturnsEnd == pc' = "returned" /\ token'.ty = "End"

\* What a step does for a call to end, unless a comment spins.
Progress == ReadOn \/ Nearer \/ ReturnsEnd \/ Spinning

\* moveNext() has read on, unless the streams are at their end.
LEMMA MoveNextReadsOn ==
  ASSUME TypeOK, NEW b, MoveNext(b)
  PROVE  ReadOn
<1>1. stream \in Nat /\ pos \in Nat
  BY LenProperties DEF TypeOK
<1> QED
  BY <1>1 DEF MoveNext, ReadOn

\* Distance by the place in the code.
LEMMA Distances ==
  /\ pc = "returned" => Distance = 4
  /\ pc = "skipSpaces" => Distance = 3
  /\ pc \in {"string", "operators", "match"} => Distance = 2
  /\ pc \in {"identifier", "number"} => Distance = IF WordRead THEN 5 ELSE 2
  /\ pc \in {"closeString", "skipUntil", "endComment", "fallThrough"} => Distance = 1
  /\ pc = "undefined" => Distance = 0
BY DEF Distance, WordRead

\* The distances after a step that reads nothing.
LEMMA DistancesNext ==
  /\ pc' = "returned" => Distance' = 4
  /\ pc' = "skipSpaces" => Distance' = 3
  /\ pc' \in {"string", "operators", "match"} => Distance' = 2
  /\ pc' \in {"identifier", "number"} => Distance' = IF WordRead' THEN 5 ELSE 2
  /\ pc' \in {"closeString", "skipUntil", "endComment", "fallThrough"} => Distance' = 1
  /\ pc' = "undefined" => Distance' = 0
BY DEF Distance, WordRead

\* A step inside a call that leaves the input and the register alone comes nearer.
LEMMA InsideNearer ==
  ASSUME TypeOK,
         \/ BeginIdentifier \/ BeginNumber \/ BeginString \/ BeginOperators \/ BeginMatch
         \/ StringAtEOF \/ BeginComment \/ DereferenceEnd
         \/ GetNextToken /\ UNCHANGED <<input, buffer>>
  PROVE  Nearer
<1>1. UNCHANGED <<stream, pos, current, buffer>>
  BY DEF BeginIdentifier, BeginNumber, BeginString, Begin, BeginOperators, BeginMatch, StringAtEOF,
         BeginComment, DereferenceEnd, input
<1>2. CASE BeginIdentifier
  <2>1. pc = "skipSpaces" /\ pc' = "identifier" /\ ~ WordRead'
    BY <1>1, <1>2 DEF BeginIdentifier, Begin, WordRead
  <2>2. Distance = 3 /\ Distance' = 2
    BY <2>1, Distances, DistancesNext
  <2> QED
    BY <1>1, <2>2 DEF Nearer
<1>3. CASE BeginNumber
  <2>1. pc = "skipSpaces" /\ pc' = "number" /\ ~ WordRead'
    BY <1>1, <1>3 DEF BeginNumber, Begin, WordRead
  <2>2. Distance = 3 /\ Distance' = 2
    BY <2>1, Distances, DistancesNext
  <2> QED
    BY <1>1, <2>2 DEF Nearer
<1>4. CASE BeginString \/ BeginOperators \/ BeginMatch
  <2>1. pc = "skipSpaces" /\ pc' \in {"string", "operators", "match"}
    BY <1>4 DEF BeginString, Begin, BeginOperators, BeginMatch
  <2>2. Distance = 3 /\ Distance' = 2
    BY <2>1, Distances, DistancesNext
  <2> QED
    BY <1>1, <2>2 DEF Nearer
<1>5. CASE StringAtEOF \/ BeginComment
  <2>1. pc \in {"string", "match"} /\ pc' \in {"closeString", "skipUntil"}
    BY <1>5 DEF StringAtEOF, BeginComment
  <2>2. Distance = 2 /\ Distance' = 1
    BY <2>1, Distances, DistancesNext
  <2> QED
    BY <1>1, <2>2 DEF Nearer
<1>6. CASE DereferenceEnd
  <2>1. pc \in {"closeString", "skipUntil"} /\ pc' = "undefined"
    BY <1>6 DEF DereferenceEnd
  <2>2. Distance = 1 /\ Distance' = 0
    BY <2>1, Distances, DistancesNext
  <2> QED
    BY <1>1, <2>2 DEF Nearer
<1>7. CASE GetNextToken
  <2>1. pc = "returned" /\ pc' = "skipSpaces"
    BY <1>7 DEF GetNextToken
  <2>2. Distance = 4 /\ Distance' = 3
    BY <2>1, Distances, DistancesNext
  <2> QED
    BY <1>1, <2>2 DEF Nearer
<1> QED
  BY <1>2, <1>3, <1>4, <1>5, <1>6, <1>7

\* A call that returns a token without reading has taken the token out of the
\* register, or has read it in a loop.
LEMMA ReturnNearer ==
  ASSUME TypeOK, EndIdentifier \/ EndNumber \/ ReturnPunctuation \/ ReturnOperator
  PROVE  Nearer
<1>1. UNCHANGED <<stream, pos, current>> /\ pc' = "returned"
  BY DEF EndIdentifier, EndNumber, ReturnPunctuation, ReturnOperator, Return, input
<1>2. buffer \in Payload /\ Len(buffer) \in Nat
  BY LenProperties DEF TypeOK, Payload
<1>3. CASE EndIdentifier \/ EndNumber
  <2>1. PICK k \in Cleared(buffer) : buffer' = Rest(buffer, k)
    BY <1>3 DEF EndIdentifier, EndNumber
  <2>2. k \in 0..Len(buffer) /\ Len(buffer') = Len(buffer) - k
    BY <1>2, <2>1, RestType DEF Cleared
  <2>3. pc \in {"identifier", "number"} /\ WordRead
    BY <1>3 DEF EndIdentifier, EndNumber, WordRead
  <2>4. Distance = 5 /\ Distance' = 4
    BY <1>1, <2>3, Distances, DistancesNext
  <2> QED
    BY <1>1, <1>2, <2>2, <2>4 DEF Nearer
<1>4. CASE ReturnPunctuation
  <2>1. PICK p \in Punctuation : Oldest = p[1]
    BY <1>4 DEF ReturnPunctuation
  <2>2. buffer # <<>> /\ buffer' = Tail(buffer)
    BY <1>4, <2>1, PunctuationPairs DEF Oldest, ReturnPunctuation
  <2>3. Len(buffer') = Len(buffer) - 1
    BY <1>2, <2>2, HeadTailProperties DEF Payload
  <2> QED
    BY <1>1, <1>2, <2>3 DEF Nearer
<1>5. CASE ReturnOperator
  <2>1. PICK op \in Parsed(buffer) : buffer' = Rest(buffer, Len(op))
    BY <1>5 DEF ReturnOperator
  <2>2. op \in Seq(Symbol) /\ op # <<>> /\ Len(op) \in Nat /\ Len(op) <= Len(buffer)
    BY TableAssumption, LenProperties DEF Parsed, Spells
  <2>3. Len(op) # 0
    BY <2>2, EmptySeq
  <2>4. Len(buffer') = Len(buffer) - Len(op)
    BY <1>2, <2>1, <2>2, RestType
  <2> QED
    BY <1>1, <1>2, <2>2, <2>3, <2>4 DEF Nearer
<1> QED
  BY <1>3, <1>4, <1>5

\* Why lexing ends: every step of a call reads on in the streams, of which there is
\* a last character, or takes something out of the register, or is one of at most
\* five that lead to such a step, but for the call that says End and for skipUntil()
\* at the end of a stream.  Whatever the tables and the sources are, no loop of
\* GetNextToken() but that one goes on for ever (Lexer.hpp:39-160).
THEOREM LexerProgress == Spec => [][Progress]_vars
<1>1. TypeOK /\ [Next]_vars => [Progress]_vars
  <2> SUFFICES ASSUME TypeOK, Next PROVE Progress
    BY DEF Progress
  <2>1. CASE \/ SkipSpaces \/ ReadIdentifier \/ ReadNumber \/ ReadString \/ ReadOperators
             \/ CloseString \/ EndComment \/ ReturnUnknown
    <3>1. \E b : MoveNext(b)
      BY <2>1 DEF SkipSpaces, ReadIdentifier, ReadNumber, Collect, ReadString, ReadOperators,
                  CloseString, EndComment, ReturnUnknown
    <3> QED
      BY <3>1, MoveNextReadsOn DEF Progress
  <2>2. CASE SkipUntil
    <3>1. pos \in Nat /\ pos' = pos + 1 /\ stream' = stream
      BY <2>2 DEF SkipUntil, TypeOK
    <3> QED
      BY <3>1 DEF Progress, ReadOn
  <2>3. CASE GetNextToken
    <3>1. MoveNext(buffer) \/ UNCHANGED <<input, buffer>>
      BY <2>3 DEF GetNextToken
    <3> QED
      BY <2>3, <3>1, MoveNextReadsOn, InsideNearer DEF Progress
  <2>4. CASE \/ BeginIdentifier \/ BeginNumber \/ BeginString \/ BeginOperators \/ BeginMatch
             \/ StringAtEOF \/ BeginComment \/ DereferenceEnd
    BY <2>4, InsideNearer DEF Progress
  <2>5. CASE EndIdentifier \/ EndNumber \/ ReturnPunctuation \/ ReturnOperator
    BY <2>5, ReturnNearer DEF Progress
  <2>6. CASE ReturnEnd
    <3>1. pc' = "returned" /\ token' = [token EXCEPT !.ty = "End"]
      BY <2>6 DEF ReturnEnd, Return
    <3>2. token'.ty = "End"
      BY <3>1 DEF TypeOK, Token
    <3> QED
      BY <3>1, <3>2 DEF Progress, ReturnsEnd
  <2>7. CASE SkipUntilSpins
    BY <2>7 DEF SkipUntilSpins, Progress
  <2> QED
    BY <2>1, <2>2, <2>3, <2>4, <2>5, <2>6, <2>7 DEF Next
<1> QED
  BY <1>1, TypeCorrect, PTL DEF Spec
-----------------------------------------------------------------------------
(* The words and the characters that the lexer hands on *)

\* A keyword has been looked up.
KeywordTokens == pc = "returned" /\ token.ty = "Keyword" => token.data \in Keywords

\* A word that is returned as a keyword is in the table.
LEMMA KeywordTokensStep == TypeOK /\ LoopTypes /\ KeywordTokens /\ [Next]_vars => KeywordTokens'
<1> SUFFICES ASSUME TypeOK, LoopTypes, KeywordTokens, [Next]_vars PROVE KeywordTokens'
  OBVIOUS
<1>1. CASE UNCHANGED vars
  BY <1>1 DEF vars, KeywordTokens
<1>2. CASE EndIdentifier
  <2>1. /\ token \in Token /\ token.ty = "Identifier"
        /\ token' = [token EXCEPT !.ty = IF token.data \in Keywords THEN "Keyword" ELSE @]
    BY <1>2 DEF EndIdentifier, Return, LoopTypes, TypeOK
  <2>2. token'.ty = "Keyword" => token'.data \in Keywords
    BY <2>1 DEF Token
  <2> QED
    BY <2>2 DEF KeywordTokens
<1>3. CASE EndNumber \/ CloseString
  <2>1. token' = token /\ token.ty \in { "Number", "String" }
    BY <1>3 DEF EndNumber, CloseString, Return, LoopTypes
  <2> QED
    BY <2>1 DEF KeywordTokens
<1>4. CASE ReturnPunctuation
  <2>1. PICK p \in Punctuation : token' = [token EXCEPT !.ty = p[2]]
    BY <1>4 DEF ReturnPunctuation, Return
  <2>2. p[2] # "Keyword"
    BY PunctuationPairs
  <2>3. token'.ty # "Keyword"
    BY <2>1, <2>2 DEF TypeOK, Token
  <2> QED
    BY <2>3 DEF KeywordTokens
<1>5. CASE ReturnOperator
  BY <1>5 DEF ReturnOperator, Return, KeywordTokens
<1>6. CASE ReturnEnd
  <2>1. token'.ty = "End"
    BY <1>6 DEF ReturnEnd, Return, TypeOK, Token
  <2> QED
    BY <2>1 DEF KeywordTokens
<1>7. CASE ReturnUnknown
  BY <1>7 DEF ReturnUnknown, Return, KeywordTokens
<1>8. CASE \/ GetNextToken \/ SkipSpaces \/ BeginIdentifier \/ ReadIdentifier
           \/ BeginNumber \/ ReadNumber \/ BeginString \/ ReadString \/ StringAtEOF
           \/ BeginOperators \/ ReadOperators \/ BeginMatch \/ BeginComment \/ SkipUntil
           \/ SkipUntilSpins \/ EndComment \/ DereferenceEnd
  <2>1. pc' # "returned"
    BY <1>8 DEF GetNextToken, SkipSpaces, BeginIdentifier, ReadIdentifier, BeginNumber, ReadNumber,
                BeginString, ReadString, StringAtEOF, BeginOperators, ReadOperators, BeginMatch,
                BeginComment, SkipUntil, SkipUntilSpins, EndComment, DereferenceEnd, Begin, Collect,
                Spinning, vars
  <2> QED
    BY <2>1 DEF KeywordTokens
<1> QED
  BY <1>1, <1>2, <1>3, <1>4, <1>5, <1>6, <1>7, <1>8 DEF Next

\* Nothing is done after undefined behaviour, and a step that returns nothing
\* leaves the tokens alone.
LEMMA StepReturns ==
  ASSUME Next
  PROVE  /\ pc # "undefined"
         /\ \/ out' = out /\ pc' # "returned"
            \/ Return(token')
<1>1. CASE \/ EndIdentifier \/ EndNumber \/ CloseString
  BY <1>1 DEF EndIdentifier, EndNumber, CloseString, Return
<1>2. CASE ReturnPunctuation \/ ReturnOperator \/ ReturnEnd \/ ReturnUnknown
  <2>1. pc # "undefined"
    BY <1>2 DEF ReturnPunctuation, ReturnOperator, ReturnEnd, ReturnUnknown, Unmatched, Matching
  <2>2. Return(token')
    BY <1>2 DEF ReturnPunctuation, ReturnOperator, ReturnEnd, ReturnUnknown, Return
  <2> QED
    BY <2>1, <2>2
<1>3. CASE \/ GetNextToken \/ SkipSpaces \/ BeginIdentifier \/ ReadIdentifier
           \/ BeginNumber \/ ReadNumber \/ BeginString \/ ReadString \/ StringAtEOF
           \/ BeginOperators \/ ReadOperators \/ BeginMatch \/ BeginComment \/ SkipUntil
           \/ SkipUntilSpins \/ EndComment \/ DereferenceEnd
  BY <1>3 DEF GetNextToken, SkipSpaces, BeginIdentifier, ReadIdentifier, BeginNumber, ReadNumber,
              BeginString, ReadString, StringAtEOF, BeginOperators, ReadOperators, BeginMatch,
              BeginComment, SkipUntil, SkipUntilSpins, Spinning, EndComment, DereferenceEnd, Begin,
              Collect, vars
<1> QED
  BY <1>1, <1>2, <1>3 DEF Next

\* The characters that the lexer can see are those of the source.
Known(b) == \A i \in 1..Len(b) : Occurs(b[i]) \/ b[i] = EOF

\* The lexer has come only upon characters of the source: the quote, when it is in
\* a string, and the slash, when it is in a comment.
KnownInv ==
  /\ Known(buffer)
  /\ Occurs(current) \/ current \in { NUL, EOF }
  /\ pc \in { "string", "closeString" } => Occurs(Quote)
  /\ pc = "skipUntil" => Occurs("/")
  /\ pc = "undefined" => Occurs(Quote) \/ Occurs("/")

\* The register holds characters of the source after a shift, a pop or a clear.
LEMMA ShiftedKnown ==
  ASSUME NEW b \in Payload, Known(b), NEW ch \in Char \cup {EOF}, Occurs(ch) \/ ch = EOF
  PROVE  Known(Shifted(b, ch))
<1>1. Len(b) \in Nat /\ b \in Seq(Char \cup {EOF})
  BY LenProperties DEF Payload
<1>2. Known(Append(b, ch))
  <2>1. /\ Len(Append(b, ch)) = Len(b) + 1
        /\ \A i \in 1..Len(b) : Append(b, ch)[i] = b[i]
        /\ Append(b, ch)[Len(b) + 1] = ch
    BY <1>1, AppendProperties
  <2>2. \A i \in 1..Len(b) + 1 : i \in 1..Len(b) \/ i = Len(b) + 1
    BY <1>1
  <2> QED
    BY <2>1, <2>2 DEF Known
<1>3. CASE Len(b) < Capacity \/ ch \in Blank
  BY <1>2, <1>3 DEF Shifted
<1>4. CASE ~ (Len(b) < Capacity \/ ch \in Blank)
  <2>1. b # <<>>
    BY <1>1, <1>4, EmptySeq, TableAssumption
  <2>2. /\ Tail(b) \in Seq(Char \cup {EOF}) /\ Len(Tail(b)) = Len(b) - 1
        /\ \A i \in 1..Len(Tail(b)) : Tail(b)[i] = b[i + 1]
    BY <1>1, <2>1, HeadTailProperties
  <2>3. Len(b) - 1 \in Nat
    BY <1>1, <2>1, EmptySeq
  <2>4. /\ Len(Append(Tail(b), ch)) = Len(b) - 1 + 1
        /\ \A i \in 1..Len(b) - 1 : Append(Tail(b), ch)[i] = b[i + 1]
        /\ Append(Tail(b), ch)[Len(b) - 1 + 1] = ch
    BY <2>2, AppendProperties
  <2>5. \A i \in 1..Len(b) - 1 + 1 :
          (i \in 1..Len(b) - 1 /\ i + 1 \in 1..Len(b)) \/ i = Len(b) - 1 + 1
    BY <1>1, <2>3
  <2>6. Known(Append(Tail(b), ch))
    BY <2>4, <2>5 DEF Known
  <2> QED
    BY <1>4, <2>6 DEF Shifted
<1> QED
  BY <1>3, <1>4

\* So does the register of which characters have been taken
LEMMA RestKnown ==
  ASSUME NEW b \in Payload, NEW k \in 0..Len(b), Known(b)
  PROVE  Known(Rest(b, k))
<1>1. Len(b) \in Nat /\ \A i \in k + 1..Len(b) : b[i] \in Char \cup {EOF}
  BY LenProperties, ElementOfSeq DEF Payload
<1>2. /\ Len(Rest(b, k)) = Len(b) - k
      /\ \A i \in 1..Len(b) - k : Rest(b, k)[i] = b[k + i]
  <2>1. /\ Len(SubSeq(b, k + 1, Len(b))) = IF k + 1 <= Len(b) THEN Len(b) - (k + 1) + 1 ELSE 0
        /\ \A i \in 1..Len(b) - (k + 1) + 1 : SubSeq(b, k + 1, Len(b))[i] = b[k + 1 + i - 1]
    BY <1>1, SubSeqProperties
  <2> QED
    BY <1>1, <2>1 DEF Rest
<1>3. \A i \in 1..Len(Rest(b, k)) : k + i \in 1..Len(b)
  BY <1>1, <1>2
<1> QED
  BY <1>2, <1>3 DEF Known

\* or the oldest one has been popped.
LEMMA TailKnown ==
  ASSUME NEW b \in Payload, b # <<>>, Known(b)
  PROVE  Known(Tail(b))
<1>1. /\ Len(b) \in Nat /\ Len(Tail(b)) = Len(b) - 1
      /\ \A i \in 1..Len(Tail(b)) : Tail(b)[i] = b[i + 1]
  BY HeadTailProperties, LenProperties DEF Payload
<1>2. \A i \in 1..Len(Tail(b)) : i + 1 \in 1..Len(b)
  BY <1>1
<1> QED
  BY <1>1, <1>2 DEF Known

\* moveNext() reads a character of the source, or none.
LEMMA MoveNextKnown ==
  ASSUME TypeOK, NEW b \in Payload, Len(b) <= Capacity, Known(b), MoveNext(b)
  PROVE  Known(buffer') /\ (Occurs(current') \/ current' = EOF)
<1>1. /\ source \in Seq(Seq(Char)) /\ Len(source) \in Nat
      /\ \A i \in 1..Len(source) : source[i] \in Seq(Char) /\ Len(source[i]) \in Nat
      /\ current' \in Char \cup {EOF}
  BY LenProperties, ElementOfSeq, MoveNextType DEF TypeOK
<1>2. stream \in 1..Len(source) /\ pos \in Nat /\ source' = source
  BY <1>1 DEF TypeOK, MoveNext, PastEnd
<1>3. CASE pos < Len(source[stream]) /\ current' = source[stream][pos + 1]
           /\ buffer' = Shifted(b, current')
  <2>1. pos + 1 \in 1..Len(source[stream])
    BY <1>1, <1>2, <1>3
  <2>2. Occurs(current')
    BY <1>2, <1>3, <2>1 DEF Occurs
  <2> QED
    BY <1>1, <1>3, <2>2, ShiftedKnown
<1>4. CASE current' = EOF /\ buffer' = b
  BY <1>4
<1>5. CASE /\ stream < Len(source)
           /\ current' = IF source[stream + 1] = <<>> THEN EOF ELSE source[stream + 1][1]
           /\ buffer' = Shifted(b, current')
  <2>1. stream + 1 \in 1..Len(source)
    BY <1>1, <1>2, <1>5
  <2>2. source[stream + 1] # <<>> => 1 \in 1..Len(source[stream + 1])
    BY <1>1, <2>1, EmptySeq
  <2>3. Occurs(current') \/ current' = EOF
    BY <1>5, <2>1, <2>2 DEF Occurs
  <2> QED
    BY <1>1, <1>5, <2>3, ShiftedKnown
<1> QED
  BY <1>3, <1>4, <1>5 DEF MoveNext

\* The text of the files does not change.
LEMMA SourceStays == [Next]_vars => source' = source
BY DEF Next, GetNextToken, SkipSpaces, BeginIdentifier, ReadIdentifier, EndIdentifier,
       BeginNumber, ReadNumber, EndNumber, BeginString, ReadString, StringAtEOF, CloseString,
       BeginOperators, ReadOperators, BeginMatch, BeginComment, SkipUntil, SkipUntilSpins,
       EndComment, ReturnPunctuation, ReturnOperator, ReturnEnd, ReturnUnknown, DereferenceEnd,
       Begin, Collect, MoveNext, input, vars

\* KnownInv of the next state.
LEMMA KnownNext ==
  ASSUME source' = source, Known(buffer'), Occurs(current') \/ current' \in { NUL, EOF },
         pc' \in { "string", "closeString" } => Occurs(Quote),
         pc' = "skipUntil" => Occurs("/"),
         pc' = "undefined" => Occurs(Quote) \/ Occurs("/")
  PROVE  KnownInv'
BY DEF KnownInv, Known, Occurs

\* Each step of the lexer keeps KnownInv.
LEMMA KnownStep == TypeOK /\ KnownInv /\ [Next]_vars => KnownInv'
<1> SUFFICES ASSUME TypeOK, KnownInv, [Next]_vars PROVE KnownInv'
  OBVIOUS
<1> USE DEF input
<1>1. /\ buffer \in Payload /\ Len(buffer) <= Capacity /\ Known(buffer) /\ source' = source
      /\ Len(buffer) \in Nat /\ Capacity \in Nat /\ (Occurs(current) \/ current \in { NUL, EOF })
  BY SourceStays, LenProperties, TableAssumption DEF TypeOK, KnownInv, Payload
<1>2. ASSUME NEW k \in Cleared(buffer)
      PROVE  /\ Rest(buffer, k) \in Payload /\ Len(Rest(buffer, k)) <= Capacity
             /\ Known(Rest(buffer, k))
  BY <1>1, ClearedType, RestKnown DEF Cleared
<1>3. CASE \/ SkipSpaces \/ ReadIdentifier \/ ReadNumber \/ ReadOperators
  <2>1. MoveNext(buffer) /\ pc' \notin { "string", "closeString", "skipUntil", "undefined" }
    BY <1>3 DEF SkipSpaces, ReadIdentifier, ReadNumber, ReadOperators, Collect
  <2> QED
    BY <1>1, <2>1, MoveNextKnown, KnownNext
<1>4. CASE GetNextToken
  <2>1. MoveNext(buffer) \/ UNCHANGED <<input, buffer>>
    BY <1>4 DEF GetNextToken
  <2>2. pc' = "skipSpaces"
    BY <1>4 DEF GetNextToken
  <2> QED
    BY <1>1, <2>1, <2>2, MoveNextKnown, KnownNext
<1>5. CASE ReadString
  <2>1. MoveNext(buffer) /\ pc' \in { "string", "closeString" } /\ Occurs(Quote)
    BY <1>5 DEF ReadString, KnownInv
  <2> QED
    BY <1>1, <2>1, MoveNextKnown, KnownNext
<1>6. CASE CloseString \/ EndComment \/ ReturnUnknown
  <2>1. PICK k \in Cleared(buffer) : MoveNext(Rest(buffer, k))
    BY <1>6 DEF CloseString, EndComment, ReturnUnknown
  <2>2. pc' \notin { "string", "closeString", "skipUntil", "undefined" }
    BY <1>6 DEF CloseString, EndComment, ReturnUnknown, Return
  <2> QED
    BY <1>1, <1>2, <2>1, <2>2, MoveNextKnown, KnownNext
<1>7. CASE EndIdentifier \/ EndNumber
  <2>1. PICK k \in Cleared(buffer) : buffer' = Rest(buffer, k)
    BY <1>7 DEF EndIdentifier, EndNumber
  <2>2. current' = current /\ pc' = "returned"
    BY <1>7 DEF EndIdentifier, EndNumber, Return
  <2> QED
    BY <1>1, <1>2, <2>1, <2>2, KnownNext
<1>8. CASE ReturnPunctuation
  <2>1. PICK p \in Punctuation : Oldest = p[1]
    BY <1>8 DEF ReturnPunctuation
  <2>2. buffer # <<>>
    BY <2>1, PunctuationPairs DEF Oldest
  <2>3. current' = current /\ pc' = "returned" /\ buffer' = Tail(buffer)
    BY <1>8 DEF ReturnPunctuation, Return
  <2> QED
    BY <1>1, <2>2, <2>3, TailKnown, KnownNext
<1>9. CASE ReturnOperator
  <2>1. PICK op \in Parsed(buffer) : buffer' = Rest(buffer, Len(op))
    BY <1>9 DEF ReturnOperator
  <2>2. Len(op) \in 0..Len(buffer)
    BY <1>1, TableAssumption, LenProperties DEF Parsed, Spells
  <2>3. current' = current /\ pc' = "returned"
    BY <1>9 DEF ReturnOperator, Return
  <2> QED
    BY <1>1, <2>1, <2>2, <2>3, RestKnown, KnownNext
<1>10. CASE \/ BeginIdentifier \/ BeginNumber \/ BeginOperators \/ BeginMatch \/ ReturnEnd
  <2>1. /\ current' = current /\ buffer' = buffer
        /\ pc' \notin { "string", "closeString", "skipUntil", "undefined" }
    BY <1>10 DEF BeginIdentifier, BeginNumber, Begin, BeginOperators, BeginMatch, ReturnEnd, Return
  <2> QED
    BY <1>1, <2>1, KnownNext
<1>11. CASE BeginString
  <2>1. current = Quote /\ current' = current /\ buffer' = buffer /\ pc' = "string"
    BY <1>11 DEF BeginString, Begin
  <2>2. Quote \notin { NUL, EOF }
    BY Characters DEF Char, Plain
  <2> QED
    BY <1>1, <2>1, <2>2, KnownNext
<1>12. CASE StringAtEOF
  <2>1. current' = current /\ buffer' = buffer /\ pc' = "closeString" /\ Occurs(Quote)
    BY <1>12 DEF StringAtEOF, KnownInv
  <2> QED
    BY <1>1, <2>1, KnownNext
<1>13. CASE BeginComment
  <2>1. current' = current /\ buffer' = buffer /\ pc' = "skipUntil"
        /\ Len(buffer) >= 2 /\ buffer[1] = "/"
    BY <1>13 DEF BeginComment, StartsComment
  <2>2. Occurs(buffer[1]) \/ buffer[1] = EOF
    BY <1>1, <2>1 DEF Known
  <2>3. Occurs("/")
    BY <2>1, <2>2 DEF EOF
  <2> QED
    BY <1>1, <2>1, <2>3, KnownNext
<1>14. CASE SkipUntil
  <2>1. current' = current /\ buffer' = buffer /\ pc' \in { "skipUntil", "endComment" }
        /\ Occurs("/")
    BY <1>14 DEF SkipUntil, KnownInv
  <2> QED
    BY <1>1, <2>1, KnownNext
<1>15. CASE DereferenceEnd
  <2>1. current' = current /\ buffer' = buffer /\ pc' = "undefined"
        /\ (Occurs(Quote) \/ Occurs("/"))
    BY <1>15 DEF DereferenceEnd, KnownInv
  <2> QED
    BY <1>1, <2>1, KnownNext
<1>16. CASE SkipUntilSpins \/ UNCHANGED vars
  <2>1. UNCHANGED vars
    BY <1>16 DEF SkipUntilSpins
  <2> QED
    BY <2>1 DEF KnownInv, Known, Occurs, vars
<1> QED
  BY <1>3, <1>4, <1>5, <1>6, <1>7, <1>8, <1>9, <1>10, <1>11, <1>12, <1>13, <1>14, <1>15, <1>16
  DEF Next

\* Nothing has been read at first.
LEMMA KnownInit == Init => KnownInv
<1>1. Init => Len(buffer) = 0 /\ current = NUL /\ pc = "returned"
  BY EmptySeq DEF Init
<1> QED
  BY <1>1 DEF KnownInv, Known

\* The lexer runs into undefined behaviour only with an open string or a comment:
\* the two characters that begin them are in the source (Lexer.hpp:80-86, 145-159).
THEOREM UndefinedCorrect == Spec => [](pc = "undefined" => Occurs(Quote) \/ Occurs("/"))
<1>1. Init => TypeOK /\ KnownInv
  BY TypeInit, KnownInit
<1>2. TypeOK /\ KnownInv /\ [Next]_vars => (TypeOK /\ KnownInv)'
  BY TypeStep, KnownStep
<1>3. KnownInv => (pc = "undefined" => Occurs(Quote) \/ Occurs("/"))
  BY DEF KnownInv
<1> QED
  BY <1>1, <1>2, <1>3, PTL DEF Spec
-----------------------------------------------------------------------------
(* The compiler does what its lexer and its parser do alone *)

\* The state of the lexer changes only within a call, and only as Lexer.tla says.
LEMMA CompilerLexes == [CNext]_cvars => [Next]_vars
<1> SUFFICES ASSUME [CNext]_cvars PROVE [Next]_vars
  OBVIOUS
<1>1. CASE Call
  BY <1>1 DEF Call, Next
<1>2. CASE Lex
  BY <1>2 DEF Lex
<1>3. CASE \/ ReadArgument \/ OutOfRange \/ NoValue \/ NotFound \/ Open \/ Take \/ Parse
           \/ Find \/ Walk \/ Unfound \/ Caught \/ Undefined \/ CodeGen \/ Generated
  BY <1>3 DEF ReadArgument, OutOfRange, NoValue, NotFound, Open, Take, Parse, Find, Walk, Unfound,
              Caught, Undefined, CodeGen, Generated, lexer, vars
<1>4. CASE UNCHANGED cvars
  BY <1>4 DEF cvars, vars
<1> QED
  BY <1>1, <1>2, <1>3, <1>4 DEF CNext

\* Within the compiler the lexer does only what it does alone: generateMetadata()
\* calls GetNextToken() again only when it has returned (CompilerModule.hpp:91-93).
\* So all that is proved of Spec holds of the compiler.
THEOREM CompilerImplementsLexer == CSpec => Spec
<1>1. CInit => Init
  BY DEF CInit
<1> QED
  BY <1>1, CompilerLexes, PTL DEF CSpec, Spec

\* and the state of the parser only as CompilerModule.tla says.
LEMMA CompilerParses == [CNext]_cvars => [P!Next]_(P!vars)
<1> SUFFICES ASSUME [CNext]_cvars PROVE [P!Next]_(P!vars)
  OBVIOUS
<1>1. CASE Take \/ Parse
  BY <1>1 DEF Take, Parse, P!Next
<1>2. CASE Unfound
  BY <1>2 DEF Unfound, P!Next
<1>3. CASE \/ ReadArgument \/ OutOfRange \/ NoValue \/ NotFound \/ Open \/ Call \/ Lex
           \/ Find \/ Walk \/ Caught \/ Undefined \/ CodeGen \/ Generated
  BY <1>3 DEF ReadArgument, OutOfRange, NoValue, NotFound, Open, Call, Lex, Find, Walk,
              Caught, Undefined, CodeGen, Generated, parser, P!vars
<1>4. CASE UNCHANGED cvars
  BY <1>4 DEF cvars, P!vars
<1> QED
  BY <1>1, <1>2, <1>3, <1>4 DEF CNext

\* The compiler implements the declaration parser that takes any token: the tokens
\* that the lexer returns bring generateMetadata() nowhere else
\* (CompilerModule.hpp:33-162).
THEOREM CompilerImplementsParser == CSpec => P!Spec
<1>1. CInit => P!Init
  BY DEF CInit
<1> QED
  BY <1>1, CompilerParses, PTL DEF CSpec, P!Spec
-----------------------------------------------------------------------------
(* Declarations do not overlap *)

\* The keywords that begin declarations are no modifiers.
LEMMA Beginners ==
  P!Modifier \cap { "import", "entrypoint", "namespace", "class", "name", "BraceOpen",
                    "BraceClose", "CmdEnd", "End", "Number" } = {}
BY DEF P!Modifier, P!Visibility

\* s and t have the same first n tokens.
Same(s, t, n) == \A i \in 1..n : s[i] = t[i]

\* What is counted among the first n tokens is up to them,
LEMMA CountSame ==
  ASSUME NEW s, NEW t, NEW n \in Nat, Same(s, t, n), NEW tok, NEW a \in Nat \ {0}, NEW b \in 0..n
  PROVE  Count(tok, s, a, b) = Count(tok, t, a, b)
<1>1. { i \in a..b : s[i] = tok } = { i \in a..b : t[i] = tok }
  BY DEF Same
<1> QED
  BY <1>1 DEF Count

\* as is what is inside of a brace.
LEMMA InsideSame ==
  ASSUME NEW s, NEW t, NEW n \in Nat, Same(s, t, n), NEW a \in Nat \ {0}, NEW b \in 0..n
  PROVE  Inside(s, a, b) <=> Inside(t, a, b)
BY CountSame DEF Inside

\* Whether tokens are a declaration, or begin one, is up to them.
LEMMA UnmodifiedSame ==
  ASSUME NEW s, NEW t, NEW n \in Nat, Same(s, t, n), NEW k \in 0..n - 1, Unmodified(s, k, n)
  PROVE  Unmodified(t, k, n)
<1>1. s[k + 1] = t[k + 1] /\ s[n] = t[n]
  BY DEF Same
<1>2. CASE s[k + 1] = "import" /\ n > k + 1 /\ s[n] = "CmdEnd"
           /\ \A i \in k + 2..n - 1 : s[i] # "CmdEnd"
  BY <1>1, <1>2 DEF Same, Unmodified
<1>3. CASE s[k + 1] = "entrypoint" /\ Block(s, k + 2, n)
  <2>1. k + 2 \in Nat \ {0} /\ k + 2 <= n
    BY <1>3 DEF Block
  <2>2. /\ Count("BraceOpen", s, k + 2, n) = Count("BraceOpen", t, k + 2, n)
        /\ Count("BraceClose", s, k + 2, n) = Count("BraceClose", t, k + 2, n)
    BY <2>1, CountSame
  <2>3. \A i \in k + 2..n - 1 : Inside(t, k + 2, i)
    BY <1>3, <2>1, InsideSame DEF Block
  <2>4. t[k + 2] = "BraceOpen"
    BY <1>3, <2>1 DEF Block, Same
  <2> QED
    BY <1>1, <1>3, <2>1, <2>2, <2>3, <2>4 DEF Block, Unmodified
<1>4. CASE s[k + 1] = "namespace" /\ n = k + 4
           /\ s[k + 2] = "name" /\ s[k + 3] = "BraceOpen" /\ s[n] # "BraceClose"
  BY <1>1, <1>4 DEF Same, Unmodified
<1> QED
  BY <1>2, <1>3, <1>4 DEF Unmodified

\* The same of a declaration with its modifiers.
LEMMA DeclarationSame ==
  ASSUME NEW s, NEW t, NEW n \in Nat, Same(s, t, n), NEW m \in Nat, Declaration(s, m, n)
  PROVE  Declaration(t, m, n)
<1>1. PICK k \in m..n - 1 : Modifiers(s, m, k) /\ Unmodified(s, k, n)
  BY DEF Declaration
<1>2. Modifiers(t, m, k)
  BY <1>1 DEF Modifiers, Same
<1>3. Unmodified(t, k, n)
  BY <1>1, UnmodifiedSame
<1> QED
  BY <1>2, <1>3 DEF Declaration

\* The modifiers end where they end.
LEMMA OneStart ==
  ASSUME NEW s, NEW m \in Nat, NEW k \in Nat, NEW l \in Nat, k >= m, l >= m,
         Modifiers(s, m, k), Modifiers(s, m, l), s[k + 1] \notin P!Modifier
  PROVE  l <= k
BY DEF Modifiers

\* Nothing that ends as a declaration may go on.
LEMMA EndIsNoBeginning ==
  ASSUME NEW s, NEW k \in Nat, NEW n \in Nat, NEW l \in Nat, k < n, n <= l,
         Unmodified(s, k, n), Begun(s, k, l)
  PROVE  FALSE
<1>1. CASE s[k + 1] = "import"
  BY <1>1 DEF Unmodified, Begun
<1>2. CASE s[k + 1] = "entrypoint"
  <2>1. Block(s, k + 2, n)
    BY <1>2 DEF Unmodified
  <2>2. Inside(s, k + 2, n)
    BY <1>2, <2>1 DEF Block, Begun
  <2>3. IsFiniteSet(k + 2..n)
    BY FS_Interval
  <2>4. Count("BraceClose", s, k + 2, n) \in Nat
    <3>1. IsFiniteSet({ i \in k + 2..n : s[i] = "BraceClose" })
      BY <2>3, FS_Subset
    <3> QED
      BY <3>1, FS_CardinalityType DEF Count
  <2> QED
    BY <2>1, <2>2, <2>4 DEF Block, Inside
<1>3. CASE s[k + 1] = "namespace"
  BY <1>3 DEF Unmodified, Begun
<1> QED
  BY <1>1, <1>2, <1>3 DEF Unmodified

\* The modifiers of a declaration end where it has a token that is none.
LEMMA UnmodifiedStart ==
  ASSUME NEW s, NEW k, NEW n, Unmodified(s, k, n)
  PROVE  s[k + 1] \notin P!Modifier
BY Beginners DEF Unmodified

\* A declaration does not begin one that is longer.
LEMMA Apart ==
  ASSUME NEW s, NEW m \in Nat, NEW n \in Nat, NEW l \in Nat, n <= l,
         Declaration(s, m, n), Beginning(s, m, l)
  PROVE  FALSE
<1>1. PICK k \in m..n - 1 : Modifiers(s, m, k) /\ Unmodified(s, k, n)
  BY DEF Declaration
<1>2. PICK j \in m..l : Modifiers(s, m, j) /\ Begun(s, j, l)
  BY DEF Beginning
<1>3. s[k + 1] \notin P!Modifier
  BY <1>1, UnmodifiedStart
<1>4. j <= k
  BY <1>1, <1>2, <1>3, OneStart
<1>5. j # l
  BY <1>1, <1>4
<1>6. s[j + 1] \notin P!Modifier
  BY <1>2, <1>5, Beginners DEF Begun
<1>7. k <= j
  BY <1>1, <1>2, <1>6, OneStart
<1>8. j = k
  BY <1>4, <1>7
<1> QED
  BY <1>1, <1>2, <1>8, EndIsNoBeginning

\* Without its last token a declaration is a beginning of one.
LEMMA BeforeEnd ==
  ASSUME NEW s, NEW m \in Nat, NEW n \in Nat, Declaration(s, m, n)
  PROVE  n > m /\ Beginning(s, m, n - 1)
<1>1. PICK k \in m..n - 1 : Modifiers(s, m, k) /\ Unmodified(s, k, n)
  BY DEF Declaration
<1>2. Begun(s, k, n - 1)
  BY <1>1 DEF Unmodified, Begun, Block
<1> QED
  BY <1>1, <1>2 DEF Beginning

\* At most one declaration begins at a token.
LEMMA OneEnd ==
  ASSUME NEW s, NEW m \in Nat, NEW n \in Nat, NEW l \in Nat,
         Declaration(s, m, n), Declaration(s, m, l)
  PROVE  n = l
<1>1. CASE n < l
  <2>1. l - 1 \in Nat /\ n <= l - 1
    BY <1>1
  <2> QED
    BY <2>1, BeforeEnd, Apart
<1>2. CASE l < n
  <2>1. n - 1 \in Nat /\ l <= n - 1
    BY <1>2
  <2> QED
    BY <2>1, BeforeEnd, Apart
<1> QED
  BY <1>1, <1>2
-----------------------------------------------------------------------------
(* Where declarations end. *)

LEMMA EndsType ==
  ASSUME NEW s, Len(s) \in Nat, NEW n \in Ends(s)
  PROVE  n \in Nat /\ n <= Len(s)
BY DEF Ends

\* A declaration may end before the first token
LEMMA FirstEnd ==
  ASSUME NEW s, Len(s) \in Nat
  PROVE  0 \in Ends(s)
<1>1. /\ 0 \in 0..Len(s) /\ {0} \in SUBSET (0..0) /\ {0, 0} \subseteq {0}
      /\ \A c \in {0} \ {0} : \E m \in {0} : m < c /\ Declaration(s, m, c)
  OBVIOUS
<1> QED
  BY <1>1 DEF Ends

\* and at the end of any that begins where one may end,
LEMMA NextEnd ==
  ASSUME NEW s, Len(s) \in Nat, NEW m \in Ends(s), NEW n \in 1..Len(s), m < n,
         Declaration(s, m, n)
  PROVE  n \in Ends(s)
<1>1. PICK cuts \in SUBSET (0..m) :
        /\ {0, m} \subseteq cuts
        /\ \A c \in cuts \ {0} : \E l \in cuts : l < c /\ Declaration(s, l, c)
  BY DEF Ends
<1> DEFINE more == cuts \cup {n}
<1>2. more \in SUBSET (0..n) /\ {0, n} \subseteq more
  BY <1>1, EndsType
<1>3. ASSUME NEW c \in more \ {0}
      PROVE  \E l \in more : l < c /\ Declaration(s, l, c)
  BY <1>1
<1> HIDE DEF more
<1> QED
  BY <1>2, <1>3 DEF Ends

\* and nowhere else.
LEMMA EndBefore ==
  ASSUME NEW s, Len(s) \in Nat, NEW n \in Ends(s), n # 0
  PROVE  \E m \in Ends(s) : m < n /\ Declaration(s, m, n)
<1>1. PICK cuts \in SUBSET (0..n) :
        /\ {0, n} \subseteq cuts
        /\ \A c \in cuts \ {0} : \E l \in cuts : l < c /\ Declaration(s, l, c)
  BY DEF Ends
<1>2. PICK m \in cuts : m < n /\ Declaration(s, m, n)
  BY <1>1
<1> DEFINE less == { c \in cuts : c <= m }
<1>3. m \in 0..Len(s) /\ less \in SUBSET (0..m) /\ {0, m} \subseteq less
  <2>1. n \in Nat /\ n <= Len(s) /\ m \in 0..n
    BY EndsType, <1>2
  <2>2. less \in SUBSET (0..m)
    <3>1. \A c \in cuts : c \in 0..n
      BY <1>1
    <3>2. \A c \in less : c \in 0..m
      BY <2>1, <3>1
    <3> QED
      BY <3>2
  <2>3. {0, m} \subseteq less
    BY <1>1, <2>1
  <2> QED
    BY <2>1, <2>2, <2>3
<1>4. ASSUME NEW c \in less \ {0}
      PROVE  \E l \in less : l < c /\ Declaration(s, l, c)
  <2>1. PICK l \in cuts : l < c /\ Declaration(s, l, c)
    BY <1>1
  <2>2. l \in less
    BY <1>1, <1>3, <2>1
  <2> QED
    BY <2>1, <2>2
<1> HIDE DEF less
<1>5. m \in Ends(s)
  BY <1>3, <1>4 DEF Ends
<1> QED
  BY <1>2, <1>5

\* Where declarations end among the first n tokens is up to them.
LEMMA EndsSame ==
  ASSUME NEW s, NEW t, Len(s) \in Nat, Len(t) \in Nat, NEW n \in Nat, n <= Len(t),
         Same(s, t, n), NEW e \in Ends(s), e <= n
  PROVE  e \in Ends(t)
<1>1. PICK cuts \in SUBSET (0..e) :
        /\ {0, e} \subseteq cuts
        /\ \A c \in cuts \ {0} : \E m \in cuts : m < c /\ Declaration(s, m, c)
  BY DEF Ends
<1>2. e \in 0..Len(t)
  BY EndsType
<1>3. ASSUME NEW c \in cuts \ {0}
      PROVE  \E m \in cuts : m < c /\ Declaration(t, m, c)
  <2>1. PICK m \in cuts : m < c /\ Declaration(s, m, c)
    BY <1>1
  <2>2. c \in Nat /\ m \in Nat /\ Same(s, t, c)
    BY <1>1, <1>2 DEF Same
  <2> QED
    BY <2>1, <2>2, DeclarationSame
<1> QED
  BY <1>1, <1>2, <1>3 DEF Ends
-----------------------------------------------------------------------------
(* Where the declaration begins that is being read. *)

\* Of the first n tokens of s: every end but c is followed by a declaration that
\* ends with c or before.
CurrentStart(s, n, c) ==
  /\ c \in Ends(s) /\ c <= n
  /\ \A m \in Ends(s) : m <= n /\ m # c => \E e \in m + 1..c : Declaration(s, m, e)

\* It is up to the first n tokens.
LEMMA StartSame ==
  ASSUME NEW s, NEW t, Len(s) \in Nat, Len(t) \in Nat, NEW n \in Nat, n <= Len(s), n <= Len(t),
         Same(s, t, n), NEW c, CurrentStart(s, n, c)
  PROVE  CurrentStart(t, n, c)
<1>1. Same(t, s, n)
  BY DEF Same
<1>2. c \in Ends(t) /\ c <= n /\ c \in Nat
  BY EndsSame, EndsType DEF CurrentStart
<1>3. ASSUME NEW m \in Ends(t), m <= n, m # c
      PROVE  \E e \in m + 1..c : Declaration(t, m, e)
  <2>1. m \in Nat /\ m \in Ends(s)
    BY <1>1, <1>3, EndsSame, EndsType
  <2>2. PICK e \in m + 1..c : Declaration(s, m, e)
    BY <1>3, <2>1 DEF CurrentStart
  <2>3. e \in Nat /\ Same(s, t, e)
    BY <1>2, <2>1, <2>2 DEF Same
  <2> QED
    BY <2>1, <2>2, <2>3, DeclarationSame
<1> QED
  BY <1>2, <1>3 DEF CurrentStart

\* c counts tokens.
LEMMA StartType ==
  ASSUME NEW s, Len(s) \in Nat, NEW n \in Nat, NEW c, CurrentStart(s, n, c)
  PROVE  c \in Nat /\ c <= n
BY EndsType DEF CurrentStart

\* A token more, with which no declaration ends.
LEMMA StartBegun ==
  ASSUME NEW s, Len(s) \in Nat, NEW n \in Nat, NEW c, CurrentStart(s, n, c), Beginning(s, c, n + 1)
  PROVE  CurrentStart(s, n + 1, c)
<1>1. c \in Nat /\ c <= n
  BY StartType
<1>2. ASSUME NEW m \in Ends(s), m <= n + 1, m # c
      PROVE  \E e \in m + 1..c : Declaration(s, m, e)
  <2>1. m \in Nat
    BY EndsType
  <2>2. CASE m <= n
    BY <1>2, <2>2 DEF CurrentStart
  <2>3. CASE m = n + 1
    <3>1. PICK l \in Ends(s) : l < n + 1 /\ Declaration(s, l, n + 1)
      BY <2>1, <2>3, EndBefore
    <3>2. l \in Nat /\ l <= n
      BY <3>1, EndsType
    <3>3. CASE l = c
      BY <1>1, <3>1, <3>3, Apart
    <3>4. CASE l # c
      <4>1. PICK e \in l + 1..c : Declaration(s, l, e)
        BY <3>2, <3>4 DEF CurrentStart
      <4>2. e = n + 1
        BY <1>1, <3>1, <3>2, <4>1, OneEnd
      <4> QED
        BY <1>1, <4>1, <4>2
    <3> QED
      BY <3>3, <3>4
  <2> QED
    BY <1>2, <2>1, <2>2, <2>3
<1> QED
  BY <1>1, <1>2 DEF CurrentStart

\* A token more, which ends the declaration.
LEMMA StartEnded ==
  ASSUME NEW s, Len(s) \in Nat, NEW n \in Nat, n < Len(s), NEW c, CurrentStart(s, n, c),
         Declaration(s, c, n + 1)
  PROVE  CurrentStart(s, n + 1, n + 1)
<1>1. c \in Ends(s) /\ c \in Nat /\ c <= n
  BY StartType DEF CurrentStart
<1>2. n + 1 \in Ends(s)
  BY <1>1, NextEnd
<1>3. ASSUME NEW m \in Ends(s), m <= n + 1, m # n + 1
      PROVE  \E e \in m + 1..n + 1 : Declaration(s, m, e)
  <2>1. m \in Nat /\ m <= n
    BY <1>3, EndsType
  <2>2. CASE m = c
    BY <1>1, <2>2
  <2>3. CASE m # c
    <3>1. PICK e \in m + 1..c : Declaration(s, m, e)
      BY <2>1, <2>3 DEF CurrentStart
    <3> QED
      BY <1>1, <2>1, <3>1
  <2> QED
    BY <2>2, <2>3
<1> QED
  BY <1>2, <1>3 DEF CurrentStart

\* A token more, with which no declaration ends or goes on.
LEMMA StartStuck ==
  ASSUME NEW s, Len(s) \in Nat, NEW n \in Nat, Len(s) = n + 1, NEW c, CurrentStart(s, n, c),
         ~ Beginning(s, c, n + 1), ~ Declaration(s, c, n + 1)
  PROVE  ~ Viable(s) /\ n + 1 \notin Ends(s) /\ (n \in Ends(s) => c = n)
<1>1. c \in Nat /\ c <= n
  BY StartType
<1>2. n + 1 \notin Ends(s)
  <2> SUFFICES ASSUME n + 1 \in Ends(s) PROVE FALSE
    OBVIOUS
  <2>1. PICK l \in Ends(s) : l < n + 1 /\ Declaration(s, l, n + 1)
    BY EndBefore
  <2>2. l \in Nat /\ l <= n /\ l # c
    BY <2>1, EndsType
  <2>3. PICK e \in l + 1..c : Declaration(s, l, e)
    BY <2>2 DEF CurrentStart
  <2>4. e = n + 1
    BY <1>1, <2>1, <2>2, <2>3, OneEnd
  <2> QED
    BY <1>1, <2>3, <2>4
<1>3. ASSUME NEW m \in Ends(s), m <= n, m # c, Beginning(s, m, n + 1)
      PROVE  FALSE
  <2>1. PICK e \in m + 1..c : Declaration(s, m, e)
    BY <1>3 DEF CurrentStart
  <2>2. m \in Nat
    BY EndsType
  <2> QED
    BY <1>1, <1>3, <2>1, <2>2, Apart
<1>4. ASSUME n \in Ends(s), n # c
      PROVE  FALSE
  <2>1. PICK e \in n + 1..c : Declaration(s, n, e)
    BY <1>4 DEF CurrentStart
  <2> QED
    BY <1>1, <2>1
<1>5. ASSUME NEW m \in Ends(s), Beginning(s, m, n + 1)
      PROVE  FALSE
  <2>1. m \in Nat /\ m <= n + 1 /\ m # n + 1 /\ m # c
    BY <1>2, <1>5, EndsType
  <2> QED
    BY <1>3, <1>5, <2>1
<1>6. ~ Viable(s)
  BY <1>5 DEF Viable
<1> QED
  BY <1>2, <1>4, <1>6
-----------------------------------------------------------------------------
(* What has been read of a declaration *)

\* Count() counts: a number,
LEMMA CountNat ==
  ASSUME NEW tok, NEW s, NEW a \in Nat, NEW b \in Nat
  PROVE  Count(tok, s, a, b) \in Nat
<1>1. IsFiniteSet(a..b)
  BY FS_Interval
<1>2. IsFiniteSet({ i \in a..b : s[i] = tok })
  BY <1>1, FS_Subset
<1> QED
  BY <1>2, FS_CardinalityType DEF Count

\* zero among no tokens,
LEMMA CountNone ==
  ASSUME NEW tok, NEW s, NEW a \in Nat, NEW b \in Nat, b < a
  PROVE  Count(tok, s, a, b) = 0
<1>1. { i \in a..b : s[i] = tok } = {}
  OBVIOUS
<1> QED
  BY <1>1, FS_EmptySet DEF Count

\* and one more with a token more that is tok.
LEMMA CountOne ==
  ASSUME NEW tok, NEW s, NEW a \in Nat, NEW b \in Nat, a <= b + 1
  PROVE  Count(tok, s, a, b + 1) = Count(tok, s, a, b) + IF s[b + 1] = tok THEN 1 ELSE 0
<1> DEFINE A == { i \in a..b : s[i] = tok }
           B == { i \in a..b + 1 : s[i] = tok }
<1>1. IsFiniteSet(A) /\ Cardinality(A) \in Nat
  <2>1. IsFiniteSet(a..b)
    BY FS_Interval
  <2> QED
    BY <2>1, FS_Subset, FS_CardinalityType
<1>2. b + 1 \notin A
  OBVIOUS
<1>3. B = IF s[b + 1] = tok THEN A \cup {b + 1} ELSE A
  OBVIOUS
<1> HIDE DEF A, B
<1>4. Cardinality(A \cup {b + 1}) = Cardinality(A) + 1
  BY <1>1, <1>2, FS_AddElement
<1>5. Cardinality(B) = Cardinality(A) + IF s[b + 1] = tok THEN 1 ELSE 0
  BY <1>1, <1>3, <1>4
<1> QED
  BY <1>5 DEF A, B, Count

\* The parser has taken the first n tokens of s and holds the last one, tok: where
\* the declaration begins, where its modifiers end, and what has been read of it.
BodyRead(s, k, n, tok, lvl) ==
  /\ n > k /\ s[k + 1] = "entrypoint"
  /\ lvl \in Nat
  /\ Count("BraceOpen", s, k + 2, n) = Count("BraceClose", s, k + 2, n) + lvl
  /\ n = k + 1 => tok = "BraceOpen"
  /\ n > k + 1 => s[k + 2] = "BraceOpen"
  /\ \A i \in k + 2..n : Inside(s, k + 2, i)

\* The tokens read of a declaration, by the place where the parser is.
Partial(s, k, n, at, tok, lvl, nest) ==
  /\ at = "modifiers" /\ nest = 0 => k = n
  /\ at \in { "parseClass", "undefined" } => k = n /\ tok = "class"
  /\ at \in { "namespaceName", "namespaceOpen", "namespaceLoop" } \/ nest # 0 =>
       s[k + 1] = "namespace"
  /\ at = "namespaceName" => n = k + 1
  /\ at = "namespaceOpen" => n = k + 2 /\ s[k + 2] = "name"
  /\ at = "namespaceLoop" \/ nest # 0 => n = k + 3 /\ s[k + 2] = "name" /\ s[k + 3] = "BraceOpen"
  /\ nest # 0 => at = "modifiers" /\ tok = "BraceClose"
  /\ at = "entrypointOpen" => n = k + 1 /\ s[k + 1] = "entrypoint"
  /\ at = "functionBody" => BodyRead(s, k, n, tok, lvl)
  /\ at = "import" => n > k /\ s[k + 1] = "import" /\ \A i \in k + 2..n : s[i] # "CmdEnd"

\* All of it: the first n tokens of s are declarations up to the c-th, modifiers
\* from there to the k-th, and the rest of what Partial says; the token in hand is
\* the last one.
Parsing(s, n, c, k, at, tok, lvl, nest) ==
  /\ n \in Nat /\ c \in Nat /\ k \in c..n
  /\ Len(s) = n + 1 \/ (Len(s) = n /\ tok = "End" /\ at \in { "top", "done", "import" })
  /\ Len(s) > 0 /\ s[Len(s)] = tok
  /\ CurrentStart(s, n, c)
  /\ Modifiers(s, c, k)
  /\ at \in { "top", "done" } => c = n
  /\ at = "done" => tok = "End"
  /\ at = "modifiers" /\ k = c => tok # "End"
  /\ Partial(s, k, n, at, tok, lvl, nest)

\* With a token more in hand, what has been taken begins a declaration.
LEMMA GrowBegun ==
  ASSUME NEW s, NEW t, NEW n \in Nat, Len(s) = n + 1, Len(t) \in Nat, Len(t) >= n + 1,
         Same(s, t, n + 1), NEW c, CurrentStart(s, n, c),
         NEW k \in c..n + 1, Modifiers(s, c, k), Begun(s, k, n + 1)
  PROVE  CurrentStart(t, n + 1, c) /\ Modifiers(t, c, k)
<1>1. c \in Nat /\ c <= n
  BY StartType
<1>2. Beginning(s, c, n + 1)
  BY <1>1 DEF Beginning
<1>3. CurrentStart(s, n + 1, c)
  BY <1>2, StartBegun
<1>4. CurrentStart(t, n + 1, c)
  BY <1>3, StartSame
<1>5. Modifiers(t, c, k)
  BY <1>1 DEF Modifiers, Same
<1> QED
  BY <1>4, <1>5

\* With a token more in hand, what has been taken ends a declaration.
LEMMA GrowEnded ==
  ASSUME NEW s, NEW t, NEW n \in Nat, Len(s) = n + 1, Len(t) \in Nat, Len(t) >= n + 1,
         Same(s, t, n + 1), NEW c, CurrentStart(s, n, c),
         NEW k \in c..n, Modifiers(s, c, k), Unmodified(s, k, n + 1)
  PROVE  CurrentStart(t, n + 1, n + 1) /\ Modifiers(t, n + 1, n + 1)
<1>1. c \in Nat /\ c <= n
  BY StartType
<1>2. Declaration(s, c, n + 1)
  BY <1>1 DEF Declaration
<1>3. CurrentStart(s, n + 1, n + 1)
  BY <1>2, StartEnded
<1>4. CurrentStart(t, n + 1, n + 1)
  BY <1>3, StartSame
<1> QED
  BY <1>4 DEF Modifiers

\* When the token in hand neither continues nor ends the declaration, nothing that
\* begins with these tokens is a program.
LEMMA Stuck ==
  ASSUME NEW s, NEW n \in Nat, Len(s) = n + 1, NEW c, CurrentStart(s, n, c),
         NEW k \in c..n, Modifiers(s, c, k), s[k + 1] \notin P!Modifier,
         ~ Begun(s, k, n + 1), ~ Unmodified(s, k, n + 1)
  PROVE  ~ Viable(s) /\ n + 1 \notin Ends(s) /\ (n \in Ends(s) => c = n)
<1>1. c \in Nat /\ c <= n /\ k \in Nat
  BY StartType
<1>2. ~ Beginning(s, c, n + 1)
  <2> SUFFICES ASSUME NEW j \in c..n + 1, Modifiers(s, c, j), Begun(s, j, n + 1) PROVE FALSE
    BY DEF Beginning
  <2>1. j <= k
    BY <1>1, OneStart
  <2>2. s[j + 1] \notin P!Modifier
    BY <1>1, <2>1, Beginners DEF Begun
  <2>3. k <= j
    BY <1>1, <2>2, OneStart
  <2> QED
    BY <1>1, <2>1, <2>3
<1>3. ~ Declaration(s, c, n + 1)
  <2> SUFFICES ASSUME NEW j \in c..n, Modifiers(s, c, j), Unmodified(s, j, n + 1) PROVE FALSE
    BY <1>1 DEF Declaration
  <2>1. s[j + 1] \notin P!Modifier
    BY UnmodifiedStart
  <2>2. j <= k /\ k <= j
    BY <1>1, <2>1, OneStart
  <2> QED
    BY <1>1, <2>2
<1> QED
  BY <1>1, <1>2, <1>3, StartStuck

\* A token is handed over: tokens are those taken, held the one in hand until then.
Gives(s, t, tok, new) ==
  /\ Len(t) \in Nat
  /\ IF tok = "End" THEN t = s /\ new = "End"
     ELSE Len(t) = Len(s) + 1 /\ Same(s, t, Len(s)) /\ t[Len(t)] = new

\* Some way the tokens may be read.
Brought(s, at, tok, lvl, nest) ==
  \E n, c, k \in Nat : Parsing(s, n, c, k, at, tok, lvl, nest)

\* A token that is not End is followed by another.
LEMMA GivesMore ==
  ASSUME NEW s, NEW t, NEW n \in Nat, NEW tok, NEW new, Len(s) = n + 1, tok # "End",
         Gives(s, t, tok, new)
  PROVE  Len(t) = n + 2 /\ Same(s, t, n + 1) /\ t[n + 2] = new /\ Len(t) \in Nat
BY DEF Gives

\* moveNext() after a modifier: the modifiers are one longer (CompilerModule.hpp:289-299).
LEMMA TakeModifier ==
  ASSUME NEW s, NEW t, NEW n, NEW c, NEW k, NEW tok, NEW new, NEW lvl,
         Parsing(s, n, c, k, "modifiers", tok, lvl, 0), tok \in P!Modifier,
         Gives(s, t, tok, new)
  PROVE  Parsing(t, n + 1, c, n + 1, "modifiers", new, lvl, 0)
<1>1. /\ n \in Nat /\ c \in Nat /\ k = n /\ c <= n /\ tok # "End" /\ Len(s) = n + 1
      /\ s[n + 1] = tok /\ CurrentStart(s, n, c) /\ Modifiers(s, c, n)
  BY Beginners DEF Parsing, Partial
<1>2. Len(t) = n + 2 /\ Same(s, t, n + 1) /\ t[n + 2] = new /\ Len(t) \in Nat
  <2>1. n \in Nat /\ Len(s) = n + 1 /\ tok # "End"
    BY <1>1
  <2> QED
    BY <2>1, GivesMore
<1>3. Modifiers(s, c, n + 1) /\ Begun(s, n + 1, n + 1)
  BY <1>1 DEF Modifiers, Begun
<1>4. CurrentStart(t, n + 1, c) /\ Modifiers(t, c, n + 1)
  BY <1>1, <1>2, <1>3, GrowBegun
<1> QED
  BY <1>1, <1>2, <1>4 DEF Parsing, Partial

\* The keyword that begins a declaration.
LEMMA TakeKeyword ==
  ASSUME NEW s, NEW t, NEW n, NEW c, NEW k, NEW tok, NEW new, NEW lvl,
         Parsing(s, n, c, k, "modifiers", tok, lvl, 0),
         tok \in { "namespace", "entrypoint", "import" },
         Gives(s, t, tok, new)
  PROVE  Parsing(t, n + 1, c, n,
                 CASE tok = "namespace" -> "namespaceName" [] tok = "entrypoint" -> "entrypointOpen"
                   [] tok = "import" -> "import", new, lvl, 0)
<1>1. /\ n \in Nat /\ c \in Nat /\ k = n /\ c <= n /\ tok # "End" /\ Len(s) = n + 1
      /\ s[n + 1] = tok /\ CurrentStart(s, n, c) /\ Modifiers(s, c, n)
  BY DEF Parsing, Partial
<1>2. Len(t) = n + 2 /\ Same(s, t, n + 1) /\ t[n + 2] = new /\ Len(t) \in Nat
  <2>1. n \in Nat /\ Len(s) = n + 1 /\ tok # "End"
    BY <1>1
  <2> QED
    BY <2>1, GivesMore
<1>3. Begun(s, n, n + 1)
  BY <1>1 DEF Begun
<1>4. CurrentStart(t, n + 1, c) /\ Modifiers(t, c, n)
  BY <1>1, <1>2, <1>3, GrowBegun
<1>5. t[n + 1] = tok
  BY <1>1, <1>2 DEF Same
<1>6. CASE tok = "namespace"
  BY <1>1, <1>2, <1>4, <1>5, <1>6 DEF Parsing, Partial
<1>7. CASE tok = "entrypoint"
  BY <1>1, <1>2, <1>4, <1>5, <1>7 DEF Parsing, Partial
<1>8. CASE tok = "import"
  BY <1>1, <1>2, <1>4, <1>5, <1>8 DEF Parsing, Partial
<1> QED
  BY <1>6, <1>7, <1>8

\* The name and the brace of a namespace.
LEMMA TakeName ==
  ASSUME NEW s, NEW t, NEW n, NEW c, NEW k, NEW new, NEW lvl,
         Parsing(s, n, c, k, "namespaceName", "name", lvl, 0),
         Gives(s, t, "name", new)
  PROVE  Parsing(t, n + 1, c, k, "namespaceOpen", new, lvl, 0)
<1>1. /\ n \in Nat /\ c \in Nat /\ k \in c..n /\ n = k + 1 /\ Len(s) = n + 1
      /\ s[n + 1] = "name" /\ s[k + 1] = "namespace" /\ CurrentStart(s, n, c) /\ Modifiers(s, c, k)
  BY DEF Parsing, Partial
<1>2. Len(t) = n + 2 /\ Same(s, t, n + 1) /\ t[n + 2] = new /\ Len(t) \in Nat
  <2>1. n \in Nat /\ Len(s) = n + 1 /\ "name" # "End"
    BY <1>1
  <2> QED
    BY <2>1, GivesMore
<1>3. Begun(s, k, n + 1)
  BY <1>1 DEF Begun
<1>4. CurrentStart(t, n + 1, c) /\ Modifiers(t, c, k)
  BY <1>1, <1>2, <1>3, GrowBegun
<1>5. t[k + 1] = "namespace" /\ t[k + 2] = "name"
  BY <1>1, <1>2 DEF Same
<1> QED
  BY <1>1, <1>2, <1>4, <1>5 DEF Parsing, Partial

\* moveNext() after the brace of a namespace.
LEMMA TakeBrace ==
  ASSUME NEW s, NEW t, NEW n, NEW c, NEW k, NEW new, NEW lvl,
         Parsing(s, n, c, k, "namespaceOpen", "BraceOpen", lvl, 0),
         Gives(s, t, "BraceOpen", new)
  PROVE  Parsing(t, n + 1, c, k, "namespaceLoop", new, lvl, 0)
<1>1. /\ n \in Nat /\ c \in Nat /\ k \in c..n /\ n = k + 2 /\ Len(s) = n + 1
      /\ s[n + 1] = "BraceOpen" /\ s[k + 1] = "namespace" /\ s[k + 2] = "name"
      /\ CurrentStart(s, n, c) /\ Modifiers(s, c, k)
  BY DEF Parsing, Partial
<1>2. Len(t) = n + 2 /\ Same(s, t, n + 1) /\ t[n + 2] = new /\ Len(t) \in Nat
  <2>1. n \in Nat /\ Len(s) = n + 1 /\ "BraceOpen" # "End"
    BY <1>1
  <2> QED
    BY <2>1, GivesMore
<1>3. Begun(s, k, n + 1)
  BY <1>1 DEF Begun
<1>4. CurrentStart(t, n + 1, c) /\ Modifiers(t, c, k)
  BY <1>1, <1>2, <1>3, GrowBegun
<1>5. t[k + 1] = "namespace" /\ t[k + 2] = "name" /\ t[k + 3] = "BraceOpen"
  BY <1>1, <1>2 DEF Same
<1> QED
  BY <1>1, <1>2, <1>4, <1>5 DEF Parsing, Partial

\* The token that ends a declaration has been followed by another, or by itself.
LEMMA GivesOn ==
  ASSUME NEW s, NEW t, NEW n \in Nat, NEW tok, NEW new, Len(s) = n + 1, s[n + 1] = tok,
         Gives(s, t, tok, new)
  PROVE  /\ Len(t) \in Nat /\ Len(t) >= n + 1 /\ Same(s, t, n + 1) /\ t[Len(t)] = new
         /\ Len(t) = n + 2 \/ (Len(t) = n + 1 /\ new = "End")
<1>1. CASE tok = "End"
  <2>1. t = s /\ new = "End"
    BY <1>1 DEF Gives
  <2> QED
    BY <1>1, <2>1 DEF Same
<1>2. CASE tok # "End"
  <2>1. Len(t) = n + 2 /\ Same(s, t, n + 1) /\ t[n + 2] = new
    BY <1>2, GivesMore
  <2>2. n + 2 \in Nat /\ n + 2 >= n + 1
    OBVIOUS
  <2> QED
    BY <2>1, <2>2, Zenon
<1> QED
  BY <1>1, <1>2

\* moveNext() after the one token in the braces of a namespace, which ends it
\* whatever it is.
LEMMA TakeLast ==
  ASSUME NEW s, NEW t, NEW n, NEW c, NEW k, NEW tok, NEW new, NEW lvl, NEW more,
         Parsing(s, n, c, k, "namespaceLoop", tok, lvl, 0), tok # "BraceClose",
         Gives(s, t, tok, new)
  PROVE  Parsing(t, n + 1, n + 1, n + 1, "top", new, more, 0)
<1>1. /\ n \in Nat /\ c \in Nat /\ k \in c..n /\ n = k + 3 /\ Len(s) = n + 1
      /\ s[n + 1] = tok /\ s[k + 1] = "namespace" /\ s[k + 2] = "name" /\ s[k + 3] = "BraceOpen"
      /\ CurrentStart(s, n, c) /\ Modifiers(s, c, k)
  BY DEF Parsing, Partial
<1>2. /\ Len(t) \in Nat /\ Len(t) >= n + 1 /\ Same(s, t, n + 1) /\ t[Len(t)] = new
      /\ Len(t) = n + 2 \/ (Len(t) = n + 1 /\ new = "End")
  <2>1. n \in Nat /\ Len(s) = n + 1 /\ s[n + 1] = tok
    BY <1>1
  <2> QED
    BY <2>1, GivesOn
<1>3. Unmodified(s, k, n + 1)
  BY <1>1 DEF Unmodified
<1>4. CurrentStart(t, n + 1, n + 1) /\ Modifiers(t, n + 1, n + 1)
  BY <1>1, <1>2, <1>3, GrowEnded
<1> QED
  BY <1>1, <1>2, <1>4 DEF Parsing, Partial

\* moveNext() within an import: it ends with the token after CmdEnd.
LEMMA TakeImport ==
  ASSUME NEW s, NEW t, NEW n, NEW c, NEW k, NEW tok, NEW new, NEW lvl,
         Parsing(s, n, c, k, "import", tok, lvl, 0), Gives(s, t, tok, new)
  PROVE  IF tok = "CmdEnd" THEN Parsing(t, n + 1, n + 1, n + 1, "top", new, lvl, 0)
         ELSE \/ Parsing(t, n, c, k, "import", new, lvl, 0)
              \/ Parsing(t, n + 1, c, k, "import", new, lvl, 0)
<1>1. /\ n \in Nat /\ c \in Nat /\ k \in c..n /\ s[Len(s)] = tok
      /\ n > k /\ s[k + 1] = "import" /\ \A i \in k + 2..n : s[i] # "CmdEnd"
      /\ CurrentStart(s, n, c) /\ Modifiers(s, c, k)
  BY DEF Parsing, Partial
<1>2. CASE Len(s) = n /\ tok = "End"
  <2>1. t = s /\ new = "End"
    BY <1>2 DEF Gives
  <2>2. Parsing(t, n, c, k, "import", new, lvl, 0)
    BY <1>2, <2>1
  <2> QED
    BY <1>2, <2>2
<1>3. CASE Len(s) = n + 1
  <2>1. /\ Len(t) \in Nat /\ Len(t) >= n + 1 /\ Same(s, t, n + 1) /\ t[Len(t)] = new
        /\ Len(t) = n + 2 \/ (Len(t) = n + 1 /\ new = "End")
    <3>1. n \in Nat /\ s[n + 1] = tok
      BY <1>1, <1>3
    <3> QED
      BY <1>3, <3>1, GivesOn
  <2>2. CASE tok = "CmdEnd"
    <3>1. Unmodified(s, k, n + 1)
      BY <1>1, <1>3, <2>2 DEF Unmodified
    <3>2. CurrentStart(t, n + 1, n + 1) /\ Modifiers(t, n + 1, n + 1)
      BY <1>1, <1>3, <2>1, <3>1, GrowEnded
    <3> QED
      BY <1>1, <2>1, <2>2, <3>2 DEF Parsing, Partial
  <2>3. CASE tok # "CmdEnd"
    <3>1. Begun(s, k, n + 1)
      BY <1>1, <1>3, <2>3 DEF Begun
    <3>2. CurrentStart(t, n + 1, c) /\ Modifiers(t, c, k)
      BY <1>1, <1>3, <2>1, <3>1, GrowBegun
    <3>3. t[k + 1] = "import" /\ \A i \in k + 2..n + 1 : t[i] # "CmdEnd"
      BY <1>1, <1>3, <2>1, <2>3 DEF Same
    <3>4. Parsing(t, n + 1, c, k, "import", new, lvl, 0)
      BY <1>1, <2>1, <3>2, <3>3 DEF Parsing, Partial
    <3> QED
      BY <2>3, <3>4
  <2> QED
    BY <2>2, <2>3
<1> QED
  BY <1>2, <1>3 DEF Parsing

\* One token of a body.
LEMMA TakeBody ==
  ASSUME NEW s, NEW t, NEW n, NEW c, NEW k, NEW tok, NEW new, NEW lvl,
         Parsing(s, n, c, k, "functionBody", tok, lvl, 0), tok # "End", Gives(s, t, tok, new)
  PROVE  IF P!Opened(lvl, tok) <= 0
           THEN Parsing(t, n + 1, n + 1, n + 1, "top", new, P!Opened(lvl, tok), 0)
         ELSE Parsing(t, n + 1, c, k, "functionBody", new, P!Opened(lvl, tok), 0)
<1>1. /\ n \in Nat /\ c \in Nat /\ k \in c..n /\ Len(s) = n + 1 /\ s[n + 1] = tok
      /\ CurrentStart(s, n, c) /\ Modifiers(s, c, k) /\ BodyRead(s, k, n, tok, lvl)
  BY DEF Parsing, Partial
<1> DEFINE opens(i)  == Count("BraceOpen", s, k + 2, i)
           closes(i) == Count("BraceClose", s, k + 2, i)
           next == P!Opened(lvl, tok)
<1>2. /\ n > k /\ s[k + 1] = "entrypoint" /\ lvl \in Nat /\ opens(n) = closes(n) + lvl
      /\ n = k + 1 => tok = "BraceOpen"
      /\ n > k + 1 => s[k + 2] = "BraceOpen"
      /\ \A i \in k + 2..n : Inside(s, k + 2, i)
  BY <1>1 DEF BodyRead
<1>3. \A i \in Nat : opens(i) \in Nat /\ closes(i) \in Nat
  BY <1>1, CountNat
<1>4. /\ opens(n + 1) = opens(n) + IF tok = "BraceOpen" THEN 1 ELSE 0
      /\ closes(n + 1) = closes(n) + IF tok = "BraceClose" THEN 1 ELSE 0
  <2>1. n \in Nat /\ k + 2 \in Nat /\ k + 2 <= n + 1 /\ s[n + 1] = tok
    BY <1>1, <1>2
  <2> QED
    BY <2>1, CountOne
<1>5. next = lvl + (IF tok = "BraceOpen" THEN 1 ELSE 0) - (IF tok = "BraceClose" THEN 1 ELSE 0)
  BY <1>2 DEF P!Opened
<1>6. n = k + 1 => opens(n) = 0 /\ closes(n) = 0 /\ lvl = 0
  BY <1>1, <1>2, <1>3, CountNone
<1>7. n > k + 1 => opens(n) > closes(n)
  BY <1>1, <1>2 DEF Inside
<1>8. next \in Nat /\ opens(n + 1) = closes(n + 1) + next /\ s[k + 2] = "BraceOpen"
  <2>1. opens(n) \in Nat /\ closes(n) \in Nat
    BY <1>1, <1>3
  <2> HIDE DEF opens, closes, next
  <2>2. CASE n = k + 1
    BY <1>1, <1>2, <1>4, <1>5, <1>6, <2>1, <2>2
  <2>3. CASE n > k + 1
    BY <1>1, <1>2, <1>4, <1>5, <1>7, <2>1, <2>3
  <2> QED
    BY <1>1, <1>2, <2>2, <2>3
<1>9. Len(t) = n + 2 /\ Same(s, t, n + 1) /\ t[n + 2] = new /\ Len(t) \in Nat
  <2>1. n \in Nat /\ Len(s) = n + 1 /\ tok # "End"
    BY <1>1
  <2> QED
    BY <2>1, GivesMore
<1>10. CASE next <= 0
  <2>1. next = 0 /\ opens(n + 1) = closes(n + 1)
    <3>1. closes(n + 1) \in Nat
      BY <1>1, <1>3
    <3> HIDE DEF opens, closes, next
    <3> QED
      BY <1>8, <1>10, <3>1
  <2>2. Block(s, k + 2, n + 1)
    BY <1>1, <1>2, <1>8, <2>1 DEF Block
  <2>3. Unmodified(s, k, n + 1)
    BY <1>2, <2>2 DEF Unmodified
  <2>4. CurrentStart(t, n + 1, n + 1) /\ Modifiers(t, n + 1, n + 1)
    BY <1>1, <1>9, <2>3, GrowEnded
  <2> HIDE DEF next
  <2>5. Parsing(t, n + 1, n + 1, n + 1, "top", new, next, 0)
    BY <1>1, <1>9, <2>4 DEF Parsing, Partial
  <2> QED
    BY <1>10, <2>5 DEF next
<1>11. CASE ~ (next <= 0)
  <2>1. opens(n + 1) > closes(n + 1)
    <3>1. closes(n + 1) \in Nat
      BY <1>1, <1>3
    <3> HIDE DEF opens, closes, next
    <3> QED
      BY <1>8, <1>11, <3>1
  <2>2. \A i \in k + 2..n + 1 : Inside(s, k + 2, i)
    BY <1>1, <1>2, <2>1 DEF Inside
  <2>3. Begun(s, k, n + 1)
    BY <1>1, <1>2, <2>2 DEF Begun
  <2>4. CurrentStart(t, n + 1, c) /\ Modifiers(t, c, k)
    BY <1>1, <1>2, <1>9, <2>3, GrowBegun
  <2>5. BodyRead(t, k, n + 1, new, next)
    <3>1. /\ Count("BraceOpen", t, k + 2, n + 1) = opens(n + 1)
          /\ Count("BraceClose", t, k + 2, n + 1) = closes(n + 1)
      BY <1>1, <1>9, CountSame
    <3>2. \A i \in k + 2..n + 1 : Inside(t, k + 2, i)
      BY <1>1, <1>9, <2>2, InsideSame
    <3>3. t[k + 1] = "entrypoint" /\ t[k + 2] = "BraceOpen"
      BY <1>1, <1>2, <1>8, <1>9 DEF Same
    <3>4. n + 1 > k /\ n + 1 # k + 1
      BY <1>1, <1>2
    <3> HIDE DEF next
    <3> QED
      BY <1>8, <3>1, <3>2, <3>3, <3>4 DEF BodyRead
  <2> HIDE DEF next
  <2>6. Parsing(t, n + 1, c, k, "functionBody", new, next, 0)
    BY <1>1, <1>9, <2>4, <2>5 DEF Parsing, Partial
  <2> QED
    BY <1>11, <2>6 DEF next
<1> QED
  BY <1>10, <1>11

\* The first token, before which there is no declaration.
LEMMA TakeFirst ==
  ASSUME NEW t, Len(t) = 1, NEW new, t[1] = new, NEW lvl
  PROVE  Parsing(t, 0, 0, 0, "top", new, lvl, 0)
<1>1. 0 \in Ends(t) /\ \A m \in Ends(t) : m \in Nat
  BY FirstEnd, EndsType
<1>2. CurrentStart(t, 0, 0)
  BY <1>1 DEF CurrentStart
<1>3. Modifiers(t, 0, 0)
  BY DEF Modifiers
<1> QED
  BY <1>2, <1>3 DEF Parsing, Partial

\* The steps of the parser that take a token.
LEMMA TakeParsing ==
  ASSUME NEW s, NEW t, NEW n, NEW c, NEW k,
         Parsing(s, n, c, k, place, held, level, nesting), Gives(s, t, held, held'),
         \/ P!ReadModifier \/ P!ParseNamespace \/ P!NamespaceName
         \/ P!NamespaceOpen \/ P!NamespaceEnd \/ P!ParseEntrypoint
         \/ P!ReadBody \/ P!BodySpins \/ P!ParseImport \/ P!SkipImport
  PROVE  /\ place' \notin { "start", "error" }
         /\ Brought(t, place', held', level', nesting')
<1>1. n \in Nat /\ c \in Nat /\ k \in Nat /\ n + 1 \in Nat
  BY DEF Parsing
<1>2. nesting # 0 => place = "modifiers" /\ held = "BraceClose"
  BY DEF Parsing, Partial
<1> SUFFICES /\ place' \notin { "start", "error" }
             /\ \E i, j, l \in Nat : Parsing(t, i, j, l, place', held', level', nesting')
  BY DEF Brought
<1>3. CASE P!ReadModifier
  <2>1. /\ place = "modifiers" /\ held \in P!Modifier /\ nesting = 0
        /\ place' = "modifiers" /\ level' = level /\ nesting' = 0
    BY <1>2, <1>3, Beginners DEF P!ReadModifier
  <2>2. Parsing(t, n + 1, c, n + 1, "modifiers", held', level, 0)
    BY <2>1, TakeModifier
  <2> QED
    BY <1>1, <2>1, <2>2
<1>4. CASE P!ParseNamespace \/ P!ParseEntrypoint \/ P!ParseImport
  <2>1. /\ place = "modifiers" /\ nesting = 0 /\ level' = level /\ nesting' = 0
        /\ \/ held = "namespace" /\ place' = "namespaceName"
           \/ held = "entrypoint" /\ place' = "entrypointOpen"
           \/ held = "import" /\ place' = "import"
    BY <1>2, <1>4 DEF P!ParseNamespace, P!ParseEntrypoint, P!ParseImport
  <2>2. Parsing(t, n + 1, c, n,
                CASE held = "namespace" -> "namespaceName"
                  [] held = "entrypoint" -> "entrypointOpen"
                  [] held = "import" -> "import", held', level, 0)
    BY <2>1, TakeKeyword
  <2>3. Parsing(t, n + 1, c, n, place', held', level', nesting')
    BY <2>1, <2>2
  <2> QED
    BY <1>1, <2>1, <2>3
<1>5. CASE P!NamespaceName
  <2>1. /\ place = "namespaceName" /\ held = "name" /\ nesting = 0
        /\ place' = "namespaceOpen" /\ level' = level /\ nesting' = 0
    BY <1>2, <1>5 DEF P!NamespaceName
  <2>2. Parsing(t, n + 1, c, k, "namespaceOpen", held', level, 0)
    BY <2>1, TakeName
  <2> QED
    BY <1>1, <2>1, <2>2
<1>6. CASE P!NamespaceOpen
  <2>1. /\ place = "namespaceOpen" /\ held = "BraceOpen" /\ nesting = 0
        /\ place' = "namespaceLoop" /\ level' = level /\ nesting' = 0
    BY <1>2, <1>6 DEF P!NamespaceOpen
  <2>2. Parsing(t, n + 1, c, k, "namespaceLoop", held', level, 0)
    BY <2>1, TakeBrace
  <2> QED
    BY <1>1, <2>1, <2>2
<1>7. CASE P!NamespaceEnd
  <2>1. /\ place = "namespaceLoop" /\ held # "BraceClose" /\ nesting = 0
        /\ place' = "top" /\ level' = level /\ nesting' = 0
    BY <1>2, <1>7 DEF P!NamespaceEnd, P!Return
  <2>2. Parsing(t, n + 1, n + 1, n + 1, "top", held', level, 0)
    BY <2>1, TakeLast
  <2> QED
    BY <1>1, <2>1, <2>2
<1>8. CASE P!ReadBody
  <2>1. /\ place = "functionBody" /\ held # "End" /\ nesting = 0 /\ nesting' = 0
        /\ level' = P!Opened(level, held)
        /\ place' = IF level' <= 0 THEN "top" ELSE "functionBody"
    BY <1>2, <1>8 DEF P!ReadBody, P!Return
  <2>2. IF level' <= 0 THEN Parsing(t, n + 1, n + 1, n + 1, "top", held', level', 0)
        ELSE Parsing(t, n + 1, c, k, "functionBody", held', level', 0)
    BY <2>1, TakeBody
  <2> QED
    BY <1>1, <2>1, <2>2
<1>9. CASE P!BodySpins
  <2>1. /\ place = "functionBody" /\ held = "End" /\ held' = held
        /\ place' = place /\ level' = level /\ nesting' = nesting
    BY <1>9 DEF P!BodySpins, P!Unbalanced, P!vars
  <2>2. t = s
    BY <2>1 DEF Gives
  <2> QED
    BY <1>1, <2>1, <2>2
<1>10. CASE P!SkipImport
  <2>1. /\ place = "import" /\ nesting = 0 /\ nesting' = 0 /\ level' = level
        /\ place' = IF held = "CmdEnd" THEN "top" ELSE "import"
    BY <1>2, <1>10 DEF P!SkipImport, P!Return
  <2>2. IF held = "CmdEnd" THEN Parsing(t, n + 1, n + 1, n + 1, "top", held', level, 0)
        ELSE \/ Parsing(t, n, c, k, "import", held', level, 0)
             \/ Parsing(t, n + 1, c, k, "import", held', level, 0)
    BY <2>1, TakeImport
  <2> QED
    BY <1>1, <2>1, <2>2
<1> QED
  BY <1>3, <1>4, <1>5, <1>6, <1>7, <1>8, <1>9, <1>10

\* The tokens in hand where the parser gives up.
LEMMA ErrorParsing ==
  ASSUME NEW s, NEW n, NEW c, NEW k,
         Parsing(s, n, c, k, place, held, level, nesting),
         P!UnexpectedToken \/ P!NamespaceError \/ P!EntrypointError
  PROVE  ~ Viable(s) /\ ~ Program(s)
<1>1. /\ n \in Nat /\ c \in Nat /\ k \in c..n /\ CurrentStart(s, n, c) /\ Modifiers(s, c, k)
      /\ Len(s) = n + 1 /\ s[n + 1] = held /\ Partial(s, k, n, place, held, level, nesting)
  BY DEF Parsing, P!UnexpectedToken, P!NamespaceError, P!EntrypointError
<1>2. /\ s[k + 1] \notin P!Modifier
      /\ ~ Begun(s, k, n + 1) /\ ~ Unmodified(s, k, n + 1)
  <2>1. CASE P!UnexpectedToken /\ nesting = 0
    <3>1. /\ k = n
          /\ held \notin P!Modifier \cup {"class", "namespace", "entrypoint", "import"}
      BY <1>1, <2>1 DEF P!UnexpectedToken, Partial
    <3> QED
      BY <1>1, <3>1 DEF Begun, Unmodified
  <2>2. CASE P!UnexpectedToken /\ nesting # 0
    <3>1. n = k + 3 /\ held = "BraceClose" /\ s[k + 1] = "namespace"
      BY <1>1, <2>2 DEF Partial
    <3>2. s[k + 1] \notin P!Modifier
      BY <3>1, Beginners
    <3> QED
      BY <1>1, <3>1, <3>2 DEF Begun, Unmodified
  <2>3. CASE P!NamespaceError
    <3>1. /\ s[k + 1] = "namespace"
          /\ \/ n = k + 1 /\ held # "name"
             \/ n = k + 2 /\ held # "BraceOpen"
      BY <1>1, <2>3 DEF P!NamespaceError, Partial
    <3>2. s[k + 1] \notin P!Modifier
      BY <3>1, Beginners
    <3> QED
      BY <1>1, <3>1, <3>2 DEF Begun, Unmodified
  <2>4. CASE P!EntrypointError
    <3>1. n = k + 1 /\ s[k + 1] = "entrypoint" /\ held # "BraceOpen" /\ s[k + 2] = held
      BY <1>1, <2>4 DEF P!EntrypointError, Partial
    <3>2. s[k + 1] \notin P!Modifier
      BY <3>1, Beginners
    <3>3. ~ Inside(s, k + 2, k + 2)
      <4>1. Count("BraceOpen", s, k + 2, k + 1) = 0
        BY <1>1, <3>1, CountNone
      <4>2. Count("BraceOpen", s, k + 2, k + 2) = 0
        <5>1. Count("BraceOpen", s, k + 2, k + 1 + 1)
                = Count("BraceOpen", s, k + 2, k + 1) + IF s[k + 1 + 1] = "BraceOpen" THEN 1 ELSE 0
          BY <1>1, CountOne
        <5> QED
          BY <1>1, <3>1, <4>1, <5>1
      <4>3. Count("BraceClose", s, k + 2, k + 2) \in Nat
        BY <1>1, CountNat
      <4> QED
        BY <4>2, <4>3 DEF Inside
    <3> QED
      BY <1>1, <3>1, <3>2, <3>3 DEF Begun, Unmodified, Block
  <2> QED
    BY <2>1, <2>2, <2>3, <2>4
<1>3. ~ Viable(s) /\ n + 1 \notin Ends(s) /\ (n \in Ends(s) => c = n)
  BY <1>1, <1>2, Stuck
<1>4. ASSUME c = n, held = "End"
      PROVE  FALSE
  <2>1. k = c /\ place # "modifiers"
    BY <1>1, <1>4 DEF Parsing
  <2> QED
    BY <1>1, <2>1, <1>4 DEF P!UnexpectedToken, P!NamespaceError, P!EntrypointError, Partial
<1> QED
  BY <1>1, <1>3, <1>4 DEF Program

\* The steps that take none.
LEMMA StillParsing ==
  ASSUME NEW s, NEW n, NEW c, NEW k,
         Parsing(s, n, c, k, place, held, level, nesting),
         P!Top \/ P!ParseClass \/ P!GetObject \/ P!NamespaceBody \/ P!EntrypointOpen
  PROVE  /\ place' \notin { "start", "error" }
         /\ Brought(s, place', held', level', nesting')
<1>1. /\ n \in Nat /\ c \in Nat /\ k \in c..n
      /\ Len(s) = n + 1 \/ (Len(s) = n /\ held = "End" /\ place \in { "top", "done", "import" })
      /\ Len(s) > 0 /\ s[Len(s)] = held /\ CurrentStart(s, n, c) /\ Modifiers(s, c, k)
      /\ place \in { "top", "done" } => c = n
      /\ nesting # 0 => place = "modifiers" /\ held = "BraceClose"
      /\ Partial(s, k, n, place, held, level, nesting)
  BY DEF Parsing, Partial
<1> SUFFICES /\ place' \notin { "start", "error" }
             /\ Parsing(s, n, c, k, place', held', level', nesting')
  BY <1>1 DEF Brought
<1>2. CASE P!Top
  <2>1. /\ place = "top" /\ held' = held /\ level' = level /\ nesting = 0 /\ nesting' = 0
        /\ place' = IF held = "End" THEN "done" ELSE "modifiers"
    BY <1>1, <1>2 DEF P!Top
  <2> QED
    BY <1>1, <2>1 DEF Parsing, Partial
<1>3. CASE P!ParseClass
  <2>1. /\ place = "modifiers" /\ held = "class" /\ held' = held /\ level' = level
        /\ nesting = 0 /\ nesting' = 0 /\ place' = "parseClass"
    BY <1>1, <1>3 DEF P!ParseClass
  <2> QED
    BY <1>1, <2>1 DEF Parsing, Partial
<1>4. CASE P!GetObject
  <2>1. /\ place = "parseClass" /\ held' = held /\ level' = level
        /\ nesting = 0 /\ nesting' = 0 /\ place' = "undefined"
    BY <1>1, <1>4 DEF P!GetObject
  <2> QED
    BY <1>1, <2>1 DEF Parsing, Partial
<1>5. CASE P!NamespaceBody
  <2>1. /\ place = "namespaceLoop" /\ held = "BraceClose" /\ held' = held /\ level' = level
        /\ nesting' = 1 /\ place' = "modifiers"
    BY <1>1, <1>5 DEF P!NamespaceBody
  <2> QED
    BY <1>1, <2>1 DEF Parsing, Partial
<1>6. CASE P!EntrypointOpen
  <2>1. /\ place = "entrypointOpen" /\ held = "BraceOpen" /\ held' = held /\ level' = 0
        /\ nesting = 0 /\ nesting' = 0 /\ place' = "functionBody"
    BY <1>1, <1>6 DEF P!EntrypointOpen
  <2>2. n = k + 1 /\ s[k + 1] = "entrypoint"
    BY <1>1, <2>1 DEF Partial
  <2>3. Count("BraceOpen", s, k + 2, n) = 0 /\ Count("BraceClose", s, k + 2, n) = 0
    BY <1>1, <2>2, CountNone
  <2>4. BodyRead(s, k, n, "BraceOpen", 0)
    BY <1>1, <2>2, <2>3 DEF BodyRead
  <2> QED
    BY <1>1, <2>1, <2>4 DEF Parsing, Partial
<1> QED
  BY <1>2, <1>3, <1>4, <1>5, <1>6
-----------------------------------------------------------------------------
(* The tokens that the parser has been handed *)

\* The token returned last has not been taken yet.
Untaken == asked /\ pc = "returned" /\ held # "End"

\* How many tokens the parser has been handed, and which.
Handed == IF Untaken THEN Len(out) - 1 ELSE Len(out)

\* As the parser understands them.
Read == [i \in 1..Handed |-> Spoken(out[i])]

\* The lexer works while it is asked, and its answer is the last of its tokens.
CallInv ==
  /\ IF asked THEN Wants ELSE pc = "returned"
  /\ Untaken => out # <<>> /\ out[Len(out)] = token
  /\ held = "End" => Finished

\* The parser is where the tokens it has been handed have brought it.
ReadInv ==
  /\ place = "start" => Handed = 0 /\ held = "Unknown" /\ nesting = 0
  /\ place = "error" => ~ Viable(Read) /\ ~ Program(Read)
  /\ place \notin { "start", "error" } => Brought(Read, place, held, level, nesting)

\* Only a token of type End is End to the parser.
LEMMA SpokenEnd ==
  ASSUME NEW tok, tok.ty = "Keyword" => tok.data \in Keywords
  PROVE  Spoken(tok) = "End" <=> tok.ty = "End"
<1>1. CASE tok.ty = "Keyword"
  <2>1. Reserved[tok.data] \in P!Keyword
    BY <1>1, ReservedAssumption
  <2>2. Spoken(tok) # "End"
    BY <1>1, <2>1 DEF Spoken, P!Keyword, P!Modifier, P!Visibility
  <2> QED
    BY <1>1, <2>2
<1>2. CASE tok.ty # "Keyword"
  BY <1>2 DEF Spoken
<1> QED
  BY <1>1, <1>2

\* The elements of a sequence with one more.
LEMMA AppendIs ==
  ASSUME NEW S, NEW s \in Seq(S), NEW x
  PROVE  /\ Len(Append(s, x)) = Len(s) + 1
         /\ \A i \in 1..Len(s) : Append(s, x)[i] = s[i]
         /\ Append(s, x)[Len(s) + 1] = x
BY LenProperties

\* The tokens read are the first that the lexer has returned.
LEMMA ReadType ==
  ASSUME TypeOK, CallInv
  PROVE  /\ Handed \in Nat /\ Handed <= Len(out) /\ Len(out) \in Nat
         /\ Len(Read) = Handed
         /\ \A i \in 1..Handed : Read[i] = Spoken(out[i])
<1>1. Len(out) \in Nat /\ (out # <<>> => Len(out) >= 1)
  BY LenProperties, EmptySeq DEF TypeOK
<1>2. Handed \in Nat /\ Handed <= Len(out)
  BY <1>1 DEF Handed, CallInv
<1> QED
  BY <1>1, <1>2 DEF Read

\* They change only with the number handed over.
LEMMA ReadSame ==
  ASSUME Handed' = Handed, \A i \in 1..Handed : out'[i] = out[i]
  PROVE  Read' = Read
<1>1. \A i \in 1..Handed : Spoken(out'[i]) = Spoken(out[i])
  BY DEF Spoken
<1> QED
  BY <1>1 DEF Read, Spoken

\* The lexer that is asked for a token has not said End, or the parser knows it.
LEMMA Unfinished ==
  ASSUME TypeOK, CallInv, ReadInv, asked, pc # "returned", held # "End"
  PROVE  ~ Finished
<1>1. Handed = Len(out) /\ Len(out) \in Nat /\ Len(Read) = Len(out)
      /\ \A i \in 1..Len(out) : Read[i] = Spoken(out[i])
  BY ReadType DEF Handed, Untaken
<1>2. CASE place = "start"
  <2>1. Len(out) = 0
    BY <1>1, <1>2 DEF ReadInv
  <2> QED
    BY <2>1, EmptySeq DEF Finished, TypeOK
<1>3. CASE place # "start"
  <2>1. place # "error"
    BY DEF CallInv, Wants
  <2>2. PICK n, c, k \in Nat : Parsing(Read, n, c, k, place, held, level, nesting)
    BY <1>3, <2>1 DEF ReadInv, Brought
  <2>3. Len(Read) > 0 /\ Read[Len(Read)] = held
    BY <2>2 DEF Parsing
  <2>4. Spoken(out[Len(out)]) # "End"
    BY <1>1, <2>3
  <2> QED
    BY <2>4 DEF Finished, Spoken
<1> QED
  BY <1>2, <1>3

\* What a step of the lexer returns is not read yet.
LEMMA LexReads ==
  ASSUME TypeOK, CallInv, ReadInv, Lex
  PROVE  Handed' = Handed /\ Read' = Read /\ CallInv'
<1>1. /\ asked /\ pc # "returned" /\ asked' = asked /\ held' = held /\ place' = place
      /\ Wants' = Wants /\ ~ Untaken
  BY DEF Lex, parser, Untaken, Wants
<1>2. (out' = out /\ pc' # "returned") \/ Return(token')
  BY StepReturns DEF Lex
<1>3. Len(out) \in Nat /\ out \in Seq(Token) /\ Handed = Len(out)
  BY <1>1, ReadType DEF TypeOK, Handed
<1>4. CASE out' = out /\ (pc' # "returned" \/ held = "End")
  <2>1. ~ Untaken' /\ Handed' = Handed
    BY <1>1, <1>4 DEF Untaken, Handed
  <2>2. Read' = Read
    BY <1>4, <2>1, ReadSame
  <2>3. Finished' = Finished
    BY <1>4 DEF Finished
  <2> QED
    BY <1>1, <2>1, <2>2, <2>3 DEF CallInv
<1>5. CASE Return(token') /\ held = "End"
  <2>1. Finished
    BY <1>5 DEF CallInv
  <2>2. out' = out
    BY <1>5, <2>1 DEF Return
  <2> QED
    BY <1>4, <1>5, <2>2
<1>6. CASE Return(token') /\ held # "End"
  <2>1. ~ Finished
    BY <1>1, <1>6, Unfinished
  <2>2. out' = Append(out, token') /\ pc' = "returned"
    BY <1>6, <2>1 DEF Return
  <2>3. /\ Len(out') = Len(out) + 1
        /\ \A i \in 1..Len(out) : out'[i] = out[i]
        /\ out'[Len(out) + 1] = token'
    BY <1>3, <2>2, AppendIs
  <2>4. Untaken' /\ Handed' = Handed
    BY <1>1, <1>3, <1>6, <2>2, <2>3 DEF Untaken, Handed
  <2>5. Read' = Read
    BY <1>3, <2>3, <2>4, ReadSame
  <2>6. out' # <<>> /\ out'[Len(out')] = token'
    BY <1>3, <2>3
  <2> QED
    BY <1>1, <1>6, <2>4, <2>5, <2>6 DEF CallInv
<1> QED
  BY <1>2, <1>4, <1>5, <1>6

\* The token that the parser takes is the one that the lexer has returned.
LEMMA TakeReads ==
  ASSUME TypeOK, KeywordTokens, CallInv, ReadInv, Take
  PROVE  CallInv' /\ Gives(Read, Read', held, held') /\ Handed' = Len(Read')
<1>1. /\ asked /\ pc = "returned" /\ ~ asked' /\ held' = Spoken(token)
      /\ out' = out /\ token' = token /\ pc' = pc
  BY DEF Take, lexer
<1>2. Len(out) \in Nat /\ Handed \in Nat /\ Len(Read) = Handed
      /\ \A i \in 1..Handed : Read[i] = Spoken(out[i])
  BY ReadType
<1>3. ~ Untaken' /\ Handed' = Len(out)
  BY <1>1 DEF Untaken, Handed
<1>4. \A i \in 1..Len(out) : Spoken(out'[i]) = Spoken(out[i])
  BY <1>1
<1>5. Read' = [i \in 1..Len(out) |-> Spoken(out[i])]
  BY <1>1, <1>3 DEF Read, Spoken
<1>6. Len(Read') = Len(out) /\ \A i \in 1..Len(out) : Read'[i] = Spoken(out[i])
  BY <1>2, <1>5
<1>7. held = "End" => held' = "End"
  BY DEF Take, P!Start, P!ReadModifier, P!ParseNamespace, P!NamespaceName, P!NamespaceOpen,
         P!NamespaceEnd, P!ParseEntrypoint, P!ReadBody, P!BodySpins, P!ParseImport, P!SkipImport,
         P!MoveNext, P!vars
<1>8. held # "End" => out # <<>> /\ out[Len(out)] = token /\ Handed = Len(out) - 1
  BY <1>1 DEF Untaken, CallInv, Handed
<1>9. held' = "End" => Finished'
  <2>1. CASE held = "End"
    BY <1>1, <2>1 DEF CallInv, Finished
  <2>2. CASE held # "End"
    <3>1. held' = "End" => token.ty = "End"
      BY <1>1, SpokenEnd DEF KeywordTokens
    <3> QED
      BY <1>1, <1>8, <2>2, <3>1 DEF Finished
  <2> QED
    BY <2>1, <2>2
<1>10. CallInv'
  BY <1>1, <1>3, <1>9 DEF CallInv
<1>11. Gives(Read, Read', held, held')
  <2>1. CASE held = "End"
    <3>1. Handed = Len(out)
      BY <2>1 DEF Handed, Untaken
    <3>2. Read' = Read
      BY <1>5, <3>1 DEF Read
    <3> QED
      BY <1>2, <1>7, <2>1, <3>1, <3>2 DEF Gives
  <2>2. CASE held # "End"
    <3>1. Len(Read') = Len(Read) + 1
      BY <1>2, <1>6, <1>8, <2>2
    <3>2. Same(Read, Read', Len(Read))
      BY <1>2, <1>6, <1>8, <2>2 DEF Same
    <3>3. Read'[Len(Read')] = held'
      <4>1. Len(out) \in 1..Len(out)
        BY <1>2, <1>8, <2>2
      <4> QED
        BY <1>1, <1>6, <1>8, <2>2, <4>1
    <3> QED
      BY <1>2, <1>6, <2>2, <3>1, <3>2, <3>3 DEF Gives
  <2> QED
    BY <2>1, <2>2
<1> QED
  BY <1>3, <1>6, <1>10, <1>11

\* Each place at which the parser takes a token keeps ReadInv.
LEMMA TakeKeeps ==
  ASSUME TypeOK, KeywordTokens, CallInv, ReadInv, Take
  PROVE  CallInv' /\ ReadInv'
<1>1. CallInv' /\ Gives(Read, Read', held, held') /\ Handed' = Len(Read')
  BY TakeReads
<1>2. CASE P!Start
  <2>1. place = "start" /\ place' = "top" /\ nesting = 0 /\ nesting' = 0 /\ held = "Unknown"
        /\ Handed = 0
    BY <1>2 DEF P!Start, ReadInv
  <2>2. Len(Read) = 0
    BY <2>1, ReadType
  <2>3. Len(Read') = 1 /\ Read'[1] = held'
    BY <1>1, <2>1, <2>2 DEF Gives
  <2>4. Parsing(Read', 0, 0, 0, "top", held', level', 0)
    BY <2>3, TakeFirst
  <2>5. Brought(Read', place', held', level', nesting')
    BY <2>1, <2>4 DEF Brought
  <2> QED
    BY <1>1, <2>1, <2>5 DEF ReadInv
<1>3. CASE \/ P!ReadModifier \/ P!ParseNamespace \/ P!NamespaceName
           \/ P!NamespaceOpen \/ P!NamespaceEnd \/ P!ParseEntrypoint
           \/ P!ReadBody \/ P!BodySpins \/ P!ParseImport \/ P!SkipImport
  <2>1. place \notin { "start", "error" }
    BY <1>3 DEF P!ReadModifier, P!ParseNamespace, P!NamespaceName, P!NamespaceOpen,
                P!NamespaceEnd, P!ParseEntrypoint, P!ReadBody, P!BodySpins, P!Unbalanced,
                P!ParseImport, P!SkipImport
  <2>2. PICK n, c, k \in Nat : Parsing(Read, n, c, k, place, held, level, nesting)
    BY <2>1 DEF ReadInv, Brought
  <2>3. /\ place' \notin { "start", "error" }
        /\ Brought(Read', place', held', level', nesting')
    BY <1>1, <1>3, <2>2, TakeParsing
  <2> QED
    BY <1>1, <2>3 DEF ReadInv
<1> QED
  BY <1>2, <1>3 DEF Take

\* The steps of the parser that take nothing.
LEMMA ParseKeeps ==
  ASSUME TypeOK, CallInv, ReadInv, Parse \/ Unfound
  PROVE  CallInv' /\ ReadInv'
<1>1. ~ asked /\ ~ asked' /\ out' = out /\ pc = "returned" /\ pc' = pc
  BY DEF Parse, Unfound, P!GetObject, CallInv, Wants, lexer
<1>2. held' = held
  BY DEF Parse, Unfound, P!Top, P!UnexpectedToken, P!ParseClass, P!GetObject, P!NamespaceError,
         P!NamespaceBody, P!EntrypointOpen, P!EntrypointError, P!LogError
<1>3. Handed' = Handed /\ Read' = Read
  <2>1. Handed' = Handed
    BY <1>1 DEF Handed, Untaken
  <2> QED
    BY <1>1, <2>1, ReadSame
<1>4. CallInv'
  BY <1>1, <1>2 DEF CallInv, Untaken, Finished
<1>5. CASE P!UnexpectedToken \/ P!NamespaceError \/ P!EntrypointError
  <2>1. place \notin { "start", "error" } /\ place' = "error"
    BY <1>5 DEF P!UnexpectedToken, P!NamespaceError, P!EntrypointError, P!LogError
  <2>2. PICK n, c, k \in Nat : Parsing(Read, n, c, k, place, held, level, nesting)
    BY <2>1 DEF ReadInv, Brought
  <2>3. ~ Viable(Read) /\ ~ Program(Read)
    BY <1>5, <2>2, ErrorParsing
  <2>4. ~ Viable(Read') /\ ~ Program(Read')
    BY <1>3, <2>3
  <2> QED
    BY <1>4, <2>1, <2>4 DEF ReadInv
<1>6. CASE P!Top \/ P!ParseClass \/ P!GetObject \/ P!NamespaceBody \/ P!EntrypointOpen
  <2>1. place \notin { "start", "error" }
    BY <1>6 DEF P!Top, P!ParseClass, P!GetObject, P!NamespaceBody, P!EntrypointOpen
  <2>2. PICK n, c, k \in Nat : Parsing(Read, n, c, k, place, held, level, nesting)
    BY <2>1 DEF ReadInv, Brought
  <2>3. place' \notin { "start", "error" } /\ Brought(Read, place', held', level', nesting')
    BY <1>6, <2>2, StillParsing
  <2>4. Brought(Read', place', held', level', nesting')
    BY <1>3, <2>3
  <2> QED
    BY <1>4, <2>3, <2>4 DEF ReadInv
<1> QED
  BY <1>5, <1>6 DEF Parse, Unfound

\* A call begins.
LEMMA CallKeeps ==
  ASSUME TypeOK, CallInv, ReadInv, Call
  PROVE  CallInv' /\ Handed' = Handed /\ Read' = Read
<1>1. /\ ~ asked /\ asked' /\ out' = out /\ pc' = "skipSpaces" /\ held' = held /\ Wants' = Wants
      /\ Wants
  BY DEF Call, GetNextToken, parser, Wants
<1>2. Handed' = Handed
  BY <1>1 DEF Handed, Untaken
<1>3. Read' = Read
  BY <1>1, <1>2, ReadSame
<1>4. Finished' = Finished
  BY <1>1 DEF Finished
<1> QED
  BY <1>1, <1>2, <1>3, <1>4 DEF CallInv, Untaken

\* Each step of the compiler keeps what is known of the tokens read.
LEMMA ReadStep ==
  ASSUME TypeOK, KeywordTokens, CallInv, ReadInv, [CNext]_cvars
  PROVE  CallInv' /\ ReadInv'
<1>1. CASE Take
  BY <1>1, TakeKeeps
<1>2. CASE Parse \/ Unfound
  BY <1>2, ParseKeeps
<1>3. CASE Call \/ Lex
  <2>1. CallInv' /\ Handed' = Handed /\ Read' = Read
    BY <1>3, CallKeeps, LexReads
  <2>2. UNCHANGED <<place, held, nesting, level>>
    BY <1>3 DEF Call, Lex, parser
  <2>3. (~ Viable(Read) /\ ~ Program(Read))' = (~ Viable(Read) /\ ~ Program(Read))
    BY <2>1
  <2>4. Brought(Read', place', held', level', nesting')
          = Brought(Read, place, held, level, nesting)
    BY <2>1, <2>2
  <2> QED
    BY <2>1, <2>2, <2>3, <2>4 DEF ReadInv
<1>4. CASE \/ ReadArgument \/ OutOfRange \/ NoValue \/ NotFound \/ Open \/ Find \/ Walk
           \/ Caught \/ Undefined \/ CodeGen \/ Generated \/ UNCHANGED cvars
  <2>1. UNCHANGED lexer /\ UNCHANGED parser /\ UNCHANGED asked
    BY <1>4 DEF ReadArgument, OutOfRange, NoValue, NotFound, Open, Find, Walk, Caught, Undefined,
                CodeGen, Generated, cvars, lexer, parser
  <2>2. UNCHANGED <<place, held, nesting, level, out, pc, token, asked>>
    BY <2>1 DEF lexer, parser
  <2>3. Handed' = Handed
    BY <2>2 DEF Handed, Untaken
  <2>4. Read' = Read
    BY <2>2, <2>3, ReadSame
  <2>5. CallInv'
    BY <2>2 DEF CallInv, Untaken, Finished, Wants
  <2>6. Brought(Read', place', held', level', nesting')
          = Brought(Read, place, held, level, nesting)
    BY <2>2, <2>4
  <2> QED
    BY <2>2, <2>3, <2>4, <2>5, <2>6 DEF ReadInv
<1> QED
  BY <1>1, <1>2, <1>3, <1>4 DEF CNext

\* No token has been read at first.
LEMMA ReadInit == CInit => CallInv /\ ReadInv
<1> SUFFICES ASSUME CInit PROVE CallInv /\ ReadInv
  OBVIOUS
<1>1. /\ out = <<>> /\ pc = "returned" /\ ~ asked /\ held = "Unknown" /\ place = "start"
      /\ nesting = 0 /\ Len(<<>>) = 0
  BY EmptySeq DEF CInit, Init, P!Init
<1> QED
  BY <1>1 DEF CallInv, ReadInv, Handed, Untaken
-----------------------------------------------------------------------------
(* The command line *)

\* -i
OptionI == [dash |-> TRUE, text |-> "i"]

\* The last -i of the first n arguments is the k-th, or there is none and k is 0.
LastOption(argv, k, n) ==
  /\ k \in 0..n
  /\ k > 0 => argv[k] = OptionI
  /\ \A j \in k + 1..n : argv[j] # OptionI

\* What the loop over the first n arguments has made of -i, the last of which is
\* the k-th.  Values are also given to "i" when that is what the command line
\* begins with, without a dash.
ValuesOfI(argv, params, name, k, n) ==
  /\ LastOption(argv, k, n)
  /\ "i" \in DOMAIN params <=> k > 0 \/ (n > 0 /\ ~ argv[1].dash /\ argv[1].text = "i")
  /\ "i" \in DOMAIN params =>
       /\ params["i"] \in Seq(STRING)
       /\ IF k < n /\ ~ argv[k + 1].dash
            THEN params["i"] # <<>> /\ params["i"][1] = argv[k + 1].text
            ELSE params["i"] = <<>>
  /\ n > 0 /\ name = "i" =>
       /\ k > 0 \/ argv[1].text = "i"
       /\ \A j \in k + 1..n : ~ argv[j].dash
  /\ k > 0 /\ k = n => name = "i"

\* What the loop of Run() has made of the arguments it has passed.
ArgumentInv ==
  /\ args \in Seq(Argument)
  /\ turn \in 1..Len(args) + 1
  /\ turn = 1 /\ args # <<>> => param_name = args[1].text
  /\ \E k \in 0..turn - 1 : ValuesOfI(args, parameters, param_name, k, turn - 1)

\* FileOf() in terms of the last -i, which is the k-th argument.
LEMMA FileOfIs ==
  ASSUME args \in Seq(Argument), NEW k, LastOption(args, k, Len(args))
  PROVE  FileOf(args) =
           IF k < Len(args) /\ ~ args[k + 1].dash /\ (k > 0 \/ args[1].text = "i")
             THEN args[k + 1].text
           ELSE IF k > 0 THEN "undefined" ELSE "out_of_range"
<1> DEFINE options == { j \in 1..Len(args) : args[j] = [dash |-> TRUE, text |-> "i"] }
           last == IF options = {} THEN 0 ELSE CHOOSE m \in options : \A n \in options : n <= m
<1>1. Len(args) \in Nat /\ k \in 0..Len(args)
  BY LenProperties DEF LastOption
<1>2. last = k
  <2>1. CASE k = 0
    <3>1. options = {}
      BY <1>1, <2>1 DEF LastOption, OptionI
    <3> QED
      BY <2>1, <3>1
  <2>2. CASE k > 0
    <3>1. k \in options /\ \A n \in options : n <= k
      BY <1>1, <2>2 DEF LastOption, OptionI
    <3>2. \A m \in options : (\A n \in options : n <= m) => m = k
      BY <1>1, <3>1
    <3> HIDE DEF options
    <3>3. last = CHOOSE m \in options : \A n \in options : n <= m
      BY <3>1
    <3> HIDE DEF last
    <3> QED
      BY <3>1, <3>2, <3>3
  <2>3. k = 0 \/ k > 0
    BY <1>1
  <2> HIDE DEF last
  <2> QED
    BY <2>1, <2>2, <2>3
<1>3. FileOf(args) =
           IF last < Len(args) /\ ~ args[last + 1].dash /\ (last > 0 \/ args[1].text = "i")
             THEN args[last + 1].text
           ELSE IF last > 0 THEN "undefined" ELSE "out_of_range"
  BY DEF FileOf
<1> HIDE DEF last
<1> QED
  BY <1>2, <1>3

\* Past the loop, the parameter is what the option says.
LEMMA FileFound ==
  ASSUME ArgumentInv, Programme
  PROVE  InputFile = FileOf(args)
<1>1. Len(args) \in Nat /\ turn = Len(args) + 1 /\ turn - 1 = Len(args)
  BY LenProperties DEF ArgumentInv, Programme
<1>2. PICK k \in 0..turn - 1 : ValuesOfI(args, parameters, param_name, k, Len(args))
  BY <1>1 DEF ArgumentInv
<1>3. FileOf(args) =
           IF k < Len(args) /\ ~ args[k + 1].dash /\ (k > 0 \/ args[1].text = "i")
             THEN args[k + 1].text
           ELSE IF k > 0 THEN "undefined" ELSE "out_of_range"
  BY <1>2, FileOfIs DEF ArgumentInv, ValuesOfI
<1>4. k \in Nat /\ k <= Len(args) /\ Len(args) \in Nat
  BY <1>1, <1>2
<1>5. "i" \in DOMAIN parameters <=>
        (k > 0 \/ (Len(args) > 0 /\ ~ args[1].dash /\ args[1].text = "i"))
  BY <1>2 DEF ValuesOfI
<1>6. CASE "i" \notin DOMAIN parameters
  <2>1. k = 0 /\ ~ (0 < Len(args) /\ ~ args[1].dash /\ args[1].text = "i")
    BY <1>4, <1>5, <1>6
  <2>2. FileOf(args) = "out_of_range"
    BY <1>3, <2>1
  <2> QED
    BY <1>6, <2>2 DEF InputFile
<1>7. CASE "i" \in DOMAIN parameters /\ k < Len(args) /\ ~ args[k + 1].dash
  <2>1. parameters["i"] # <<>> /\ parameters["i"][1] = args[k + 1].text
    BY <1>2, <1>7 DEF ValuesOfI
  <2>2. k > 0 \/ args[1].text = "i"
    BY <1>2, <1>7, <1>4 DEF ValuesOfI
  <2>3. FileOf(args) = args[k + 1].text
    BY <1>3, <1>7, <2>2
  <2> QED
    BY <1>7, <2>1, <2>3 DEF InputFile
<1>8. CASE "i" \in DOMAIN parameters /\ ~ (k < Len(args) /\ ~ args[k + 1].dash)
  <2>1. parameters["i"] = <<>>
    BY <1>2, <1>8 DEF ValuesOfI
  <2>2. k > 0
    <3>1. k = 0 => args[k + 1] = args[1] /\ (Len(args) > 0 <=> k < Len(args))
      OBVIOUS
    <3> QED
      BY <1>4, <1>8, <1>5, <3>1
  <2>3. FileOf(args) = "undefined"
    BY <1>3, <1>8, <2>2
  <2> QED
    BY <1>8, <2>1, <2>3 DEF InputFile
<1> QED
  BY <1>6, <1>7, <1>8

\* No argument has been passed at first.
LEMMA ArgumentInit == CInit => ArgumentInv
<1> SUFFICES ASSUME CInit PROVE ArgumentInv
  OBVIOUS
<1>1. args \in Seq(Argument) /\ Len(args) \in Nat
  BY CommandLineAssumption, SourceAssumption, LenProperties DEF CInit, Init
<1>2. turn = 1 /\ parameters = [p \in {} |-> <<>>] /\ (args # <<>> => param_name = args[1].text)
  BY DEF CInit
<1>3. ValuesOfI(args, parameters, param_name, 0, 0)
  BY <1>2 DEF ValuesOfI, LastOption
<1> QED
  BY <1>1, <1>2, <1>3 DEF ArgumentInv

\* An -i begins its values anew.
LEMMA OptionRead ==
  ASSUME NEW argv, NEW params, NEW n \in Nat, argv[n + 1] = OptionI
  PROVE  ValuesOfI(argv, Put(params, "i", <<>>), "i", n + 1, n + 1)
<1>1. LastOption(argv, n + 1, n + 1)
  BY DEF LastOption
<1>2. /\ "i" \in DOMAIN Put(params, "i", <<>>)
      /\ Put(params, "i", <<>>)["i"] = <<>>
  BY DEF Put
<1>3. <<>> \in Seq(STRING)
  BY EmptySeq
<1>4. n + 1 > 0 /\ ~ (n + 1 < n + 1) /\ \A j \in n + 1 + 1..n + 1 : FALSE
  OBVIOUS
<1> DEFINE m == n + 1
           more == Put(params, "i", <<>>)
<1> HIDE DEF m, more
<1> QED
  BY <1>1, <1>2, <1>3, <1>4 DEF ValuesOfI, m, more

\* Another option, or a value of another parameter, leaves them alone.
LEMMA OtherRead ==
  ASSUME NEW argv, NEW params, NEW n \in Nat, NEW k \in 0..n, NEW name, NEW new, NEW values,
         ValuesOfI(argv, params, name, k, n), argv[n + 1] # OptionI,
         argv[n + 1].dash \in BOOLEAN,
         n = 0 => name = argv[1].text,
         new # "i",
         argv[n + 1].dash \/ new = name
  PROVE  ValuesOfI(argv, Put(params, new, values), new, k, n + 1)
<1>1. LastOption(argv, k, n + 1)
  BY DEF ValuesOfI, LastOption
<1>2. /\ "i" \in DOMAIN Put(params, new, values) <=> "i" \in DOMAIN params
      /\ "i" \in DOMAIN params => Put(params, new, values)["i"] = params["i"]
  BY DEF Put
<1>3. k = n => argv[k + 1].dash \/ (k = 0 /\ argv[1].text # "i")
  BY DEF ValuesOfI
<1> QED
  BY <1>1, <1>2, <1>3 DEF ValuesOfI

\* A value of -i comes after those it has.
LEMMA ValueRead ==
  ASSUME NEW argv, NEW params, NEW n \in Nat, NEW k \in 0..n, NEW name,
         ValuesOfI(argv, params, name, k, n), argv[n + 1] # OptionI,
         ~ argv[n + 1].dash, argv[n + 1].text \in STRING,
         n = 0 => name = argv[1].text,
         name = "i"
  PROVE  ValuesOfI(argv, Put(params, "i", Append(Values(params, "i"), argv[n + 1].text)), "i",
                   k, n + 1)
<1> DEFINE new == Append(Values(params, "i"), argv[n + 1].text)
           more == Put(params, "i", new)
<1>1. LastOption(argv, k, n + 1)
  BY DEF ValuesOfI, LastOption
<1>2. "i" \in DOMAIN more /\ more["i"] = new
  BY DEF Put
<1>3. Values(params, "i") \in Seq(STRING)
  BY EmptySeq DEF Values, ValuesOfI
<1>4. new \in Seq(STRING) /\ new # <<>> /\ Len(new) = Len(Values(params, "i")) + 1
      /\ \A j \in 1..Len(Values(params, "i")) : new[j] = Values(params, "i")[j]
      /\ new[Len(Values(params, "i")) + 1] = argv[n + 1].text
  BY <1>3, AppendProperties
<1>5. k > 0 \/ argv[1].text = "i"
  BY DEF ValuesOfI
<1>6. \A j \in k + 1..n + 1 : ~ argv[j].dash
  BY DEF ValuesOfI
<1>7. new[1] = argv[k + 1].text
  <2>1. CASE k = n
    <3>1. Values(params, "i") = <<>>
      BY <2>1 DEF ValuesOfI, Values
    <3>2. Len(Values(params, "i")) = 0
      BY <3>1, EmptySeq
    <3> QED
      BY <1>4, <2>1, <3>2
  <2>2. CASE k # n
    <3>1. k < n /\ ~ argv[k + 1].dash /\ k + 1 \in k + 1..n
      BY <1>6, <2>2
    <3>2. "i" \in DOMAIN params
      <4>1. CASE k > 0
        BY <4>1 DEF ValuesOfI
      <4>2. CASE k = 0
        <5>1. n > 0 /\ ~ argv[1].dash /\ argv[1].text = "i"
          BY <1>5, <3>1, <4>2
        <5> QED
          BY <5>1 DEF ValuesOfI
      <4> QED
        BY <4>1, <4>2
    <3>3. Values(params, "i") # <<>> /\ Values(params, "i")[1] = argv[k + 1].text
      BY <3>1, <3>2 DEF ValuesOfI, Values
    <3>4. Len(Values(params, "i")) \in Nat /\ Len(Values(params, "i")) # 0
      BY <1>3, <3>3, EmptySeq, LenProperties
    <3>5. 1 \in 1..Len(Values(params, "i"))
      BY <3>4
    <3> QED
      BY <1>4, <3>3, <3>5
  <2> QED
    BY <2>1, <2>2
<1>8. k < n + 1 /\ n + 1 > 0 /\ k # n + 1 /\ ~ argv[k + 1].dash
  BY <1>6
<1>9. k > 0 \/ (n + 1 > 0 /\ ~ argv[1].dash /\ argv[1].text = "i")
  BY <1>5, <1>8
<1> HIDE DEF new, more
<1>10. ValuesOfI(argv, more, "i", k, n + 1)
  BY <1>1, <1>2, <1>4, <1>5, <1>6, <1>7, <1>8, <1>9 DEF ValuesOfI
<1> QED
  BY <1>10 DEF more, new

\* An argument is -i when it has the dash and the letter.
LEMMA OptionIs ==
  ASSUME NEW a \in Argument
  PROVE  /\ a.dash \in BOOLEAN /\ a.text \in STRING
         /\ a = OptionI <=> (a.dash /\ a.text = "i")
<1>1. /\ a.dash \in BOOLEAN /\ a.text \in STRING
      /\ a = [dash |-> a.dash, text |-> a.text]
  BY DEF Argument
<1>2. a = OptionI => a.dash /\ a.text = "i"
  BY DEF OptionI
<1>3. ASSUME a.dash, a.text = "i"
      PROVE  a = OptionI
  <2>1. a.dash = TRUE
    BY <1>1, <1>3
  <2> QED
    BY <1>1, <1>3, <2>1, Zenon DEF OptionI
<1> QED
  BY <1>1, <1>2, <1>3

\* A turn of the loop keeps ArgumentInv.
LEMMA ReadArgumentKeeps ==
  ASSUME ArgumentInv, ReadArgument
  PROVE  ArgumentInv'
<1>1. /\ args \in Seq(Argument) /\ Len(args) \in Nat /\ turn \in 1..Len(args) /\ turn' = turn + 1
      /\ args' = args /\ turn' - 1 = turn /\ args[turn] \in Argument
      /\ turn - 1 \in Nat /\ turn - 1 + 1 = turn /\ turn' # 1
  BY LenProperties, ElementOfSeq DEF ArgumentInv, ReadArgument
<1>2. /\ args[turn].dash \in BOOLEAN /\ args[turn].text \in STRING
      /\ args[turn] = OptionI <=> args[turn].dash /\ args[turn].text = "i"
      /\ turn - 1 = 0 => param_name = args[1].text
  <2>1. args # <<>>
    BY <1>1, EmptySeq
  <2>2. turn - 1 = 0 => param_name = args[1].text
    BY <1>1, <2>1 DEF ArgumentInv
  <2> QED
    BY <1>1, <2>2, OptionIs
<1>3. /\ param_name' = IF args[turn].dash THEN args[turn].text ELSE param_name
      /\ parameters' = Put(parameters, param_name',
                           IF args[turn].dash THEN <<>>
                           ELSE Append(Values(parameters, param_name'), args[turn].text))
  BY DEF ReadArgument
<1>4. PICK k \in 0..turn - 1 : ValuesOfI(args, parameters, param_name, k, turn - 1)
  BY DEF ArgumentInv
<1>5. SUFFICES \E l \in 0..turn : ValuesOfI(args, parameters', param_name', l, turn)
  BY <1>1 DEF ArgumentInv
<1>6. CASE args[turn] = OptionI
  <2>1. param_name' = "i" /\ parameters' = Put(parameters, "i", <<>>)
    BY <1>2, <1>3, <1>6
  <2>2. ValuesOfI(args, Put(parameters, "i", <<>>), "i", turn, turn)
    BY <1>1, <1>6, OptionRead
  <2> QED
    BY <1>1, <2>1, <2>2
<1>7. CASE args[turn] # OptionI /\ param_name' # "i"
  <2>1. args[turn].dash \/ param_name' = param_name
    BY <1>3
  <2>2. PICK values : parameters' = Put(parameters, param_name', values)
    BY <1>3
  <2>3. ValuesOfI(args, Put(parameters, param_name', values), param_name', k, turn)
    BY <1>1, <1>2, <1>4, <1>7, <2>1, OtherRead
  <2> QED
    BY <1>1, <1>4, <2>2, <2>3
<1>8. CASE args[turn] # OptionI /\ param_name' = "i"
  <2>1. ~ args[turn].dash /\ param_name = "i"
        /\ parameters' = Put(parameters, "i", Append(Values(parameters, "i"), args[turn].text))
    BY <1>2, <1>3, <1>8
  <2>2. ValuesOfI(args, Put(parameters, "i", Append(Values(parameters, "i"), args[turn].text)),
                  "i", k, turn)
    BY <1>1, <1>2, <1>4, <1>8, <2>1, ValueRead
  <2> QED
    BY <1>1, <1>4, <1>8, <2>1, <2>2
<1> QED
  BY <1>6, <1>7, <1>8

\* Nothing but the loop touches the parameters.
LEMMA ArgumentStep == ArgumentInv /\ [CNext]_cvars => ArgumentInv'
<1> SUFFICES ASSUME ArgumentInv, [CNext]_cvars PROVE ArgumentInv'
  OBVIOUS
<1>1. CASE ReadArgument
  BY <1>1, ReadArgumentKeeps
<1>2. CASE ~ ReadArgument
  <2>1. UNCHANGED app
    BY <1>2 DEF CNext, OutOfRange, NoValue, NotFound, Open, Call, Lex, Take, Parse, Find, Walk,
                Unfound, Caught, Undefined, CodeGen, Generated, cvars, app
  <2> QED
    BY <2>1 DEF ArgumentInv, app
<1> QED
  BY <1>1, <1>2
-----------------------------------------------------------------------------
(* The walk over the classes *)

\* The twelve basic types, of which bool is the first.
LEMMA LeavesAre ==
  /\ Len(Leaves) = 12 /\ Leaves[1] = "bool"
  /\ Leaf = { "bool", "sbyte", "byte", "sht", "usht", "int", "uint", "num", "unum",
              "flt", "dbl", "char" }
BY DEF Leaves, Leaf

\* The vector of twelve children has grown to sixteen places.
LEMMA RoomIs ==
  /\ Room[1] = 1
  /\ Room[12] = 16
<1> DEFINE P2(n) == IF n <= 2 THEN n ELSE IF n <= 4 THEN 4 ELSE IF n <= 8 THEN 8 ELSE 16
           room == [n \in 0..Len(Leaves) |-> P2(n)]
<1>1. room = [n \in 0..Len(Leaves) |->
                IF n <= 1 THEN n ELSE IF n <= room[n - 1] THEN room[n - 1] ELSE 2 * room[n - 1]]
  <2>1. ASSUME NEW n \in 0..Len(Leaves)
        PROVE  P2(n) = IF n <= 1 THEN n
                       ELSE IF n <= room[n - 1] THEN room[n - 1] ELSE 2 * room[n - 1]
    <3>1. n \in 0..12
      BY LeavesAre
    <3>2. n > 1 => room[n - 1] = P2(n - 1)
      BY <3>1, LeavesAre
    <3> QED
      BY <3>1, <3>2
  <2> QED
    BY <2>1
<1> HIDE DEF room
<1>2. Room = [n \in 0..Len(Leaves) |->
                IF n <= 1 THEN n
                ELSE LET r == Room[n - 1] IN IF n <= r THEN r ELSE 2 * r]
  BY <1>1 DEF Room
<1>3. ASSUME NEW n \in 0..12
      PROVE  Room[n] = IF n <= 1 THEN n
                       ELSE IF n <= Room[n - 1] THEN Room[n - 1] ELSE 2 * Room[n - 1]
  BY <1>2, LeavesAre
<1>4. Room[1] = 1 /\ Room[2] = 2 /\ Room[3] = 4 /\ Room[4] = 4
  BY <1>3
<1>5. Room[5] = 8 /\ Room[6] = 8 /\ Room[7] = 8 /\ Room[8] = 8
  BY <1>3, <1>4
<1>6. Room[9] = 16 /\ Room[10] = 16 /\ Room[11] = 16 /\ Room[12] = 16
  BY <1>3, <1>5
<1> QED
  BY <1>4, <1>6

\* The vector of ValueType has grown after bool was added: its iterator is not
\* valid any more (Metadata.hpp:15-28).
LEMMA FirstLeafDangles == "bool" \in Stale
<1>1. Leaves[1] \in Stale
  BY LeavesAre, RoomIs DEF Stale
<1> QED
  BY <1>1, LeavesAre

\* The two classes above the leaves.
LEMMA UpperClasses ==
  /\ {"Object", "ValueType", "bool"} \subseteq Names
  /\ nullptr \notin Names
  /\ Parent("Object") = nullptr /\ Parent("ValueType") = "Object" /\ Parent("bool") = "ValueType"
  /\ Children("Object") = <<"ValueType">> /\ Children("ValueType") = Leaves
  /\ Index("ValueType") = 1
  /\ "ValueType" \notin Stale
<1>1. "Object" \notin Leaf /\ "ValueType" \notin Leaf /\ "bool" \in Leaf
  BY LeavesAre
<1>2. nullptr \notin Names
  BY LeavesAre DEF Names, Classes, nullptr
<1>3. Stale \subseteq Leaf
  BY DEF Stale, Leaf
<1> QED
  BY <1>1, <1>2, <1>3 DEF Names, Classes, Parent, Children, Index

\* The walk of codeGen(): from the root to its child, down to the first leaf, and
\* from there through an iterator that dangles.
Walking(at, cur, nod, lvl) ==
  \/ at = "search" /\ cur \in { "Object", "ValueType", "bool" }
  \/ at = "climb" /\ lvl = 0 /\ nod \in { "ValueType", "bool" }
  \/ at = "descend" /\ nod = "ValueType" /\ lvl = 1
  \/ at = "descend" /\ nod = "bool" /\ lvl = 0
  \/ at = "undefined"

\* No class is looked for but by parseClass(), after which nothing is parsed.
StepsInv ==
  /\ place \notin { "parseClass", "undefined" } => target = nullptr
  /\ driver = "codeGen" => Walking(walk, cursor, node, depth)

\* The walk of codeGen() goes down to bool and ends there.
LEMMA WalkOn ==
  ASSUME target = nullptr, Walking(walk, cursor, node, depth), Built!Step
  PROVE  Walking(walk', cursor', node', depth')
<1>1. ~ Built!Match
  BY UpperClasses DEF Built!Match, Walking
<1>2. CASE Built!NextOfRoot
  BY <1>2, UpperClasses DEF Built!NextOfRoot, Walking
<1>3. CASE Built!GetNext
  BY <1>3, UpperClasses DEF Built!GetNext, Walking
<1>4. CASE Built!Climb \/ Built!NextSibling
  <2>1. walk = "climb" /\ depth = 0 /\ node \in { "ValueType", "bool" }
    BY <1>4 DEF Built!Climb, Built!NextSibling, Walking
  <2>2. node \notin Stale
    BY <1>4 DEF Built!Climb, Built!NextSibling
  <2>3. node = "ValueType"
    BY <2>1, <2>2, FirstLeafDangles
  <2>4. Built!IsLast(node)
    <3>1. [c \in Names |-> Parent(c)][node] = "Object"
      BY <2>3, UpperClasses
    <3>2. [c \in Names |-> Index(c)][node] = 1
      BY <2>3, UpperClasses
    <3>3. Len([c \in Names |-> Children(c)]["Object"]) = 1
      BY UpperClasses
    <3> QED
      BY <3>1, <3>2, <3>3 DEF Built!IsLast
  <2>5. Built!Climb
    BY <1>4, <2>4 DEF Built!NextSibling
  <2>6. walk' = "descend" /\ node' = "ValueType" /\ depth' = 1
    <3>1. [c \in Names |-> Parent(c)][node] = "Object"
      BY <2>3, UpperClasses
    <3>2. [c \in Names |-> Parent(c)]["Object"] = nullptr
      BY UpperClasses
    <3>3. [c \in Names |-> Children(c)]["Object"][1] = "ValueType"
      BY UpperClasses
    <3> QED
      BY <2>1, <2>5, <3>1, <3>2, <3>3 DEF Built!Climb
  <2> QED
    BY <2>6 DEF Walking
<1>5. CASE Built!Dangling
  BY <1>5 DEF Built!Dangling, Walking
<1>6. CASE Built!Descend \/ Built!NoChildren
  <2>1. walk = "descend" /\ node = "ValueType" /\ depth = 1
    BY <1>6 DEF Built!Descend, Built!NoChildren, Walking
  <2>2. [c \in Names |-> Children(c)][node] = Leaves
    BY <2>1, UpperClasses
  <2>3. Leaves # <<>> /\ Leaves[1] = "bool"
    BY DEF Leaves
  <2>4. Built!Descend
    BY <1>6, <2>2, <2>3 DEF Built!NoChildren
  <2>5. walk' = "descend" /\ node' = "bool" /\ depth' = 0
    BY <2>1, <2>2, <2>3, <2>4 DEF Built!Descend
  <2> QED
    BY <2>5 DEF Walking
<1>7. CASE Built!Arrive
  BY <1>7 DEF Built!Arrive, Walking
<1> QED
  BY <1>1, <1>2, <1>3, <1>4, <1>5, <1>6, <1>7 DEF Built!Step
-----------------------------------------------------------------------------
(* The end of a run *)

\* Where main() is follows from the file, the place of the parser and the walk.
DriverInv ==
  LET file == FileOf(args)
  IN /\ driver \in { "main", "terminated", "refused", "undefined", "generateMetadata", "codeGen" }
     /\ driver = "main" => place = "start" /\ ~ asked
     /\ driver = "terminated" => file = "out_of_range"
     /\ driver \in { "generateMetadata", "codeGen" } => file \in Files
     /\ driver = "refused" =>
          \/ file \notin Files \cup { "out_of_range", "undefined" }
          \/ file \in Files /\ place = "error"
     /\ driver = "undefined" =>
          \/ file = "undefined"
          \/ place = "undefined"
          \/ pc = "undefined"
          \/ place = "done" /\ walk = "undefined"
     /\ driver = "codeGen" => place = "done"

\* Each step of the compiler keeps StepsInv.
LEMMA StepsStep ==
  ASSUME CallInv, StepsInv, DriverInv, [CNext]_cvars
  PROVE  StepsInv'
<1>1. driver = "codeGen" => place = "done" /\ ~ asked
  BY DEF DriverInv, CallInv, Wants
<1>2. CASE Take \/ Parse \/ Unfound
  <2>1. target' = target /\ driver' = driver /\ driver # "codeGen"
    BY <1>1, <1>2 DEF Take, Parse, Unfound, walker
  <2>2. place' \notin { "parseClass", "undefined" } => place \notin { "parseClass", "undefined" }
    BY <1>2 DEF Take, Parse, Unfound, P!Start, P!ReadModifier, P!ParseNamespace, P!NamespaceName,
                P!NamespaceOpen, P!NamespaceEnd, P!ParseEntrypoint, P!ReadBody, P!BodySpins,
                P!Unbalanced, P!ParseImport, P!SkipImport, P!Top, P!UnexpectedToken, P!ParseClass,
                P!GetObject, P!NamespaceError, P!NamespaceBody, P!EntrypointOpen, P!EntrypointError
  <2> QED
    BY <2>1, <2>2 DEF StepsInv
<1>3. CASE Find
  <2>1. place' = place /\ place = "parseClass" /\ driver' = "generateMetadata"
    BY <1>3 DEF Find, parser
  <2> QED
    BY <2>1 DEF StepsInv
<1>4. CASE Walk
  <2>1. place' = place /\ driver' = driver /\ Built!Step
    BY <1>4 DEF Walk, parser
  <2>2. target' = target
    BY <2>1 DEF Built!Step, Built!Match, Built!NextOfRoot, Built!GetNext, Built!Climb,
                Built!NextSibling, Built!Dangling, Built!Descend, Built!NoChildren, Built!Arrive
  <2>3. driver = "codeGen" => Walking(walk', cursor', node', depth')
    BY <1>1, <2>1, WalkOn DEF StepsInv
  <2> QED
    BY <2>1, <2>2, <2>3 DEF StepsInv, Walking
<1>5. CASE CodeGen
  <2>1. /\ place' = place /\ place = "done" /\ target' = target
        /\ cursor' = "Object" /\ walk' = "search"
    BY <1>5 DEF CodeGen, parser
  <2> QED
    BY <2>1 DEF StepsInv, Walking
<1>6. CASE \/ ReadArgument \/ OutOfRange \/ NoValue \/ NotFound \/ Open \/ Call \/ Lex
           \/ Caught \/ Undefined \/ Generated \/ UNCHANGED cvars
  <2>1. /\ UNCHANGED <<place, target, walk, cursor, node, depth>>
        /\ driver' = "codeGen" => driver = "codeGen"
    BY <1>6 DEF ReadArgument, OutOfRange, NoValue, NotFound, Open, Call, Lex, Caught, Undefined,
                Generated, cvars, parser, walker
  <2> QED
    BY <2>1 DEF StepsInv, Walking
<1> QED
  BY <1>2, <1>3, <1>4, <1>5, <1>6 DEF CNext

\* Each step of the compiler keeps DriverInv.
LEMMA DriverStep ==
  ASSUME CallInv, ArgumentInv, StepsInv, DriverInv, [CNext]_cvars
  PROVE  DriverInv'
<1>1. args' = args
  BY DEF CNext, ReadArgument, OutOfRange, NoValue, NotFound, Open, Call, Lex, Take, Parse, Find,
         Walk, Unfound, Caught, Undefined, CodeGen, Generated, cvars, app
<1>2. FileOf(args)' = FileOf(args)
  BY <1>1
<1>3. CASE OutOfRange \/ NoValue \/ NotFound \/ Open
  <2>1. InputFile = FileOf(args)
    BY <1>3, FileFound DEF OutOfRange, NoValue, NotFound, Open
  <2>2. driver = "main" /\ place' = place /\ asked' = asked /\ place = "start" /\ ~ asked
    BY <1>3 DEF OutOfRange, NoValue, NotFound, Open, Programme, DriverInv, parser
  <2>3. \/ driver' = "terminated" /\ FileOf(args) = "out_of_range"
        \/ driver' = "undefined" /\ FileOf(args) = "undefined"
        \/ driver' = "refused" /\ FileOf(args) \notin Files \cup { "out_of_range", "undefined" }
        \/ driver' = "generateMetadata" /\ FileOf(args) \in Files
    BY <1>3, <2>1 DEF OutOfRange, NoValue, NotFound, Open
  <2> QED
    BY <1>2, <2>2, <2>3 DEF DriverInv
<1>4. CASE Take \/ Lex
  <2>1. /\ asked /\ Wants /\ driver' = driver
        /\ pc # "undefined" /\ place \notin { "error", "undefined", "done" }
    BY <1>4, StepReturns DEF Take, Lex, CallInv, Wants
  <2>2. driver # "main" /\ driver # "codeGen"
    BY <2>1 DEF DriverInv
  <2> QED
    BY <1>2, <2>1, <2>2 DEF DriverInv
<1>5. CASE Call \/ Parse \/ Unfound \/ Find
  <2>1. driver = "generateMetadata" /\ driver' = driver
    BY <1>5 DEF Call, Parse, Unfound, Find
  <2> QED
    BY <1>2, <2>1 DEF DriverInv
<1>6. CASE Walk
  <2>1. driver' = driver /\ driver \in { "generateMetadata", "codeGen" } /\ place' = place
    BY <1>6 DEF Walk, parser
  <2> QED
    BY <1>2, <2>1 DEF DriverInv
<1>7. CASE Caught \/ Undefined \/ CodeGen
  <2>1. driver = "generateMetadata" /\ FileOf(args) \in Files /\ place' = place /\ pc' = pc
    BY <1>7 DEF Caught, Undefined, CodeGen, DriverInv, parser, lexer
  <2>2. \/ driver' = "refused" /\ place = "error"
        \/ driver' = "undefined" /\ (place = "undefined" \/ pc = "undefined")
        \/ driver' = "codeGen" /\ place = "done"
    BY <1>7 DEF Caught, Undefined, CodeGen
  <2> QED
    BY <1>2, <2>1, <2>2 DEF DriverInv
<1>8. CASE Generated
  <2>1. /\ driver = "codeGen" /\ place = "done" /\ place' = place
        /\ walk' = walk /\ walk = "undefined"
    BY <1>8 DEF Generated, DriverInv, StepsInv, Walking, parser, walker
  <2>2. driver' = "undefined"
    BY <1>8, <2>1 DEF Generated
  <2> QED
    BY <1>2, <2>1, <2>2 DEF DriverInv
<1>9. CASE ReadArgument \/ UNCHANGED cvars
  <2>1. UNCHANGED <<driver, place, asked, pc, walk>>
    BY <1>9 DEF ReadArgument, cvars, parser, lexer, walker
  <2> QED
    BY <1>2, <2>1 DEF DriverInv
<1> QED
  BY <1>3, <1>4, <1>5, <1>6, <1>7, <1>8, <1>9 DEF CNext

\* The inductive invariant.
CompilerInv ==
  /\ TypeOK /\ LoopTypes /\ KeywordTokens /\ KnownInv
  /\ CallInv /\ ReadInv
  /\ ArgumentInv
  /\ StepsInv /\ DriverInv

\* It holds of the initial states
LEMMA CompilerInit == CInit => CompilerInv
<1> SUFFICES ASSUME CInit PROVE CompilerInv
  OBVIOUS
<1>1. Init
  BY DEF CInit
<1>2. TypeOK /\ LoopTypes /\ KnownInv
  BY <1>1, TypeInit, EndInit, KnownInit DEF EndInv
<1>3. KeywordTokens
  BY <1>1 DEF Init, KeywordTokens
<1>4. StepsInv /\ DriverInv
  BY DEF CInit, P!Init, StepsInv, DriverInv
<1> QED
  BY <1>2, <1>3, <1>4, ReadInit, ArgumentInit DEF CompilerInv

\* and each step keeps it.
LEMMA CompilerStep == CompilerInv /\ [CNext]_cvars => CompilerInv'
<1> SUFFICES ASSUME CompilerInv, [CNext]_cvars PROVE CompilerInv'
  OBVIOUS
<1>1. /\ TypeOK /\ LoopTypes /\ KeywordTokens /\ KnownInv
      /\ CallInv /\ ReadInv /\ ArgumentInv /\ StepsInv /\ DriverInv
  BY DEF CompilerInv
<1>2. [Next]_vars
  BY CompilerLexes
<1>3. TypeOK' /\ LoopTypes' /\ KeywordTokens' /\ KnownInv'
  BY <1>1, <1>2, TypeStep, LoopTypesStep, KeywordTokensStep, KnownStep
<1>4. CallInv' /\ ReadInv'
  BY <1>1, ReadStep
<1>5. ArgumentInv'
  BY <1>1, ArgumentStep
<1>6. StepsInv' /\ DriverInv'
  BY <1>1, StepsStep, DriverStep
<1> QED
  BY <1>3, <1>4, <1>5, <1>6 DEF CompilerInv

\* At all times the tokens handed to the parser have brought it where it is, the
\* values of -i are what the arguments passed so far say, and the driver is where
\* these two bring it (main.cpp:10-37, ConsoleApplication.hpp:16-32).
THEOREM CompilerInvariant == CSpec => []CompilerInv
<1> QED
  BY CompilerInit, CompilerStep, PTL DEF CSpec

\* All tokens have been read when nobody asks for one.
LEMMA AllRead == ~ asked => Read = AllHeard /\ Handed = Len(out)
BY DEF Read, Handed, Untaken, AllHeard

\* A class, which comes after modifiers, may go on to be a declaration.
LEMMA ClassViable ==
  ASSUME NEW s, NEW n, NEW c, NEW k, NEW tok, NEW lvl, NEW nest,
         Parsing(s, n, c, k, "undefined", tok, lvl, nest)
  PROVE  tok = "class" /\ Viable(s)
<1>1. /\ n \in Nat /\ c \in Nat /\ c <= n /\ k = n /\ tok = "class" /\ Len(s) = n + 1
      /\ s[n + 1] = tok /\ c \in Ends(s) /\ Modifiers(s, c, n)
  BY DEF Parsing, Partial, CurrentStart
<1>2. Begun(s, n, n + 1)
  BY <1>1 DEF Begun
<1>3. Beginning(s, c, Len(s))
  BY <1>1, <1>2 DEF Beginning
<1> QED
  BY <1>1, <1>3 DEF Viable

\* The parser is done only at the end of a program.
LEMMA DoneProgram ==
  ASSUME NEW s, NEW n, NEW c, NEW k, NEW tok, NEW lvl, NEW nest,
         Parsing(s, n, c, k, "done", tok, lvl, nest)
  PROVE  Program(s)
<1>1. /\ n \in Nat /\ n \in Ends(s) /\ (Len(s) = n + 1 \/ Len(s) = n)
      /\ Len(s) > 0 /\ s[Len(s)] = "End"
  BY DEF Parsing, CurrentStart
<1> QED
  BY <1>1 DEF Program

\* How a run ends, from the invariant.
LEMMA OutcomeHolds == CompilerInv => Outcome
<1> SUFFICES ASSUME CompilerInv PROVE Outcome
  OBVIOUS
<1>1. TypeOK /\ KnownInv /\ CallInv /\ ReadInv /\ DriverInv
  BY DEF CompilerInv
<1>2. place \in { "error", "undefined", "done" } => ~ asked
  BY <1>1 DEF CallInv, Wants
<1>3. place = "error" => ~ Viable(AllHeard) /\ ~ Program(AllHeard)
  BY <1>1, <1>2, AllRead DEF ReadInv
<1>4. place = "undefined" => held = "class" /\ Viable(AllHeard)
  <2> SUFFICES ASSUME place = "undefined" PROVE held = "class" /\ Viable(AllHeard)
    OBVIOUS
  <2>1. PICK n, c, k \in Nat : Parsing(Read, n, c, k, "undefined", held, level, nesting)
    BY <1>1 DEF ReadInv, Brought
  <2> QED
    BY <1>2, <2>1, AllRead, ClassViable
<1>5. place = "done" => Program(AllHeard)
  <2> SUFFICES ASSUME place = "done" PROVE Program(AllHeard)
    OBVIOUS
  <2>1. PICK n, c, k \in Nat : Parsing(Read, n, c, k, "done", held, level, nesting)
    BY <1>1 DEF ReadInv, Brought
  <2> QED
    BY <1>2, <2>1, AllRead, DoneProgram
<1>6. pc = "undefined" => Occurs(Quote) \/ Occurs("/")
  BY <1>1 DEF KnownInv
<1> DEFINE file == FileOf(args)
<1>7. /\ driver = "terminated" => file = "out_of_range"
      /\ driver = "refused" => \/ file \notin Files \cup { "out_of_range", "undefined" }
                               \/ file \in Files /\ ~ Viable(AllHeard) /\ ~ Program(AllHeard)
      /\ driver = "undefined" => \/ file = "undefined"
                                 \/ place = "undefined" /\ held = "class" /\ Viable(AllHeard)
                                 \/ pc = "undefined" /\ (Occurs(Quote) \/ Occurs("/"))
                                 \/ place = "done" /\ walk = "undefined" /\ Program(AllHeard)
      /\ driver = "codeGen" => Program(AllHeard)
      /\ driver \in { "main", "terminated", "refused", "undefined", "generateMetadata", "codeGen" }
  BY <1>1, <1>3, <1>4, <1>5, <1>6 DEF DriverInv
<1> HIDE DEF file
<1>8. CASE driver = "terminated"
  BY <1>7, <1>8 DEF Outcome, file
<1>9. CASE driver = "refused"
  BY <1>7, <1>9 DEF Outcome, file
<1>10. CASE driver = "undefined"
  BY <1>7, <1>10 DEF Outcome, file
<1>11. CASE driver = "codeGen"
  BY <1>7, <1>11 DEF Outcome
<1>12. CASE driver \in { "main", "generateMetadata" }
  BY <1>12 DEF Outcome
<1> QED
  BY <1>7, <1>8, <1>9, <1>10, <1>11, <1>12

\* For all sources, tables, keywords and command lines: a run ends as the command
\* line and the tokens of the file say, refused only when the file is missing or
\* the tokens read are no program and no beginning of one (main.cpp:10-37,
\* ConsoleApplication.hpp:16-32, CompilerModule.hpp:33-93).
THEOREM OutcomeCorrect == CSpec => []Outcome
<1> QED
  BY CompilerInvariant, OutcomeHolds, PTL
=============================================================================
