------------------------------- MODULE Lexer -------------------------------
(***************************************************************************)
(* The lexer of the Vacuum compiler (src/src/Lexer.hpp).                   *)
(*                                                                         *)
(* Characters come from a list of streams through moveNext(), which also   *)
(* shifts every non-blank character into `buffer', a fixed array used as a *)
(* shift register.  GetNextToken() looks at the OLDEST character of that   *)
(* register (last()) and at the character read last (current), so that the *)
(* punctuation and operator characters read too early stay pending between *)
(* two calls.  One step of the model is one iteration of a loop of the     *)
(* code, so loops that never end and calls that never return are visible.  *)
(***************************************************************************)
EXTENDS Naturals, Sequences

CONSTANTS
  Letter,     \* characters for which iswalpha() holds
  Digit,      \* characters for which iswdigit() holds
  Blank,      \* characters for which iswspace() holds
  Symbol,     \* every other character but the double quote
  Keywords,   \* Constant::keywords, each a sequence of characters
  Operators,  \* Constant::operators, each a sequence of symbols
  Capacity,   \* characters the register can hold: BUFFER_SIZE - 1
  Sources     \* the inputs: each a sequence of streams of characters

NUL     == "NUL"        \* current before the first read
EOF     == "EOF"        \* what get() returns at the end of a stream
Quote   == "\""
Newline == "\n"
Plain   == Letter \cup Digit \cup {Quote}
Char    == Plain \cup Blank \cup Symbol

\* The tokens that are one punctuation character, with that character.
Punctuation == { <<";", "CmdEnd">>, <<",", "Comma">>, <<":", "Colon">>,
                 <<"{", "BraceOpen">>, <<"}", "BraceClose">> }

Punctuators == { ";", ",", ":", "{", "}" }

TokenType == { "Unknown", "End", "Keyword", "Identifier", "Number", "String",
               "Operator", "CmdEnd", "Comma", "Colon", "BraceOpen", "BraceClose" }

ASSUME AlphabetAssumption ==
  /\ Letter \cap Digit = {}
  /\ (Letter \cup Digit) \cap Blank = {}
  /\ (Letter \cup Digit \cup Blank) \cap Symbol = {}
  /\ Char \cap {NUL, EOF} = {}
  /\ Quote \notin Letter \cup Digit \cup Blank \cup Symbol
  /\ (Punctuators \cup {"_", ".", "/"}) \cap (Plain \cup Blank) = {}
  /\ Newline \in Blank

ASSUME TableAssumption ==
  /\ Keywords \subseteq Seq(Char)
  /\ Operators \subseteq Seq(Symbol)
  /\ <<>> \notin Operators
  /\ Capacity \in Nat \ {0}

ASSUME SourceAssumption ==
  /\ Sources \subseteq Seq(Seq(Char))
  /\ <<>> \notin Sources

VARIABLES
  source,   \* the streams given to the constructor, never changed
  stream,   \* currentStream, as an index; Len(source) + 1 is streams.end()
  pos,      \* characters already taken from the current stream
  current,  \* the character read last
  buffer,   \* the shift register, oldest character first (reversedBuffer())
  token,    \* the member token: its type and payload
  out,      \* history: the tokens returned, up to the first End
  pc        \* where GetNextToken() is

input == <<source, stream, pos, current>>
vars  == <<source, stream, pos, current, buffer, token, out, pc>>
-----------------------------------------------------------------------------
(* Helpers *)

\* isop(): decided by exclusion, so it accepts '_' and '.' too.
isop(ch) == ch \notin Letter \cup Digit \cup Blank \cup {NUL, EOF, Quote}

\* last(): the oldest character of the register.
Oldest == IF buffer = <<>> THEN NUL ELSE Head(buffer)

\* Slip: the shift without the end of the array.
ShiftedUnbounded(b, ch) == IF ch \in Blank THEN b ELSE Append(b, ch)

\* The shift in moveNext(): blanks are not stored, and a full register loses
\* its oldest character.
Shifted(b, ch) ==
  IF ch \in Blank THEN b
  ELSE IF Len(b) < Capacity THEN Append(b, ch) ELSE Append(Tail(b), ch)

\* Slip: clearBuffer() that clears nothing.
ClearedNone(b) == { 0 }

\* Slip: clearBuffer() that clears the symbols too.
ClearedAll(b) == { Len(b) }

\* How many of the oldest characters clearBuffer() drops: all but the newest
\* unbroken run of symbols.  The set has exactly one element.
Cleared(b) ==
  { k \in 0..Len(b) : /\ \A i \in k+1..Len(b) : isop(b[i])
                      /\ k = 0 \/ ~ isop(b[k]) }

Rest(b, k) == SubSeq(b, k + 1, Len(b))

\* consist("//")
StartsComment == Len(buffer) >= 2 /\ buffer[1] = "/" /\ buffer[2] = "/"

Spells(op, b) == Len(op) <= Len(b) /\ SubSeq(b, 1, Len(op)) = op

\* Operator::TryParse(): the longest operator that is a prefix of b.
Parsed(b) ==
  { op \in Operators : /\ Spells(op, b)
                       /\ \A other \in Operators :
                            Spells(other, b) => Len(other) <= Len(op) }

\* The stream iterator equals streams.end(): reading through it is undefined.
PastEnd == stream > Len(source)

\* moveNext() when the register holds b.  At the end of a stream it goes to
\* the next one, but only once: an empty next stream yields EOF, stored in the
\* register like a character.
MoveNext(b) ==
  /\ ~ PastEnd
  /\ UNCHANGED source
  /\ \/ /\ pos < Len(source[stream])
        /\ current' = source[stream][pos + 1]
        /\ pos' = pos + 1
        /\ buffer' = Shifted(b, current')
        /\ UNCHANGED stream
     \/ /\ pos = Len(source[stream])
        /\ stream = Len(source)
        /\ stream' = stream + 1
        /\ pos' = 0
        /\ current' = EOF
        /\ buffer' = b
     \/ /\ pos = Len(source[stream])
        /\ stream < Len(source)
        /\ stream' = stream + 1
        /\ pos' = IF source[stream + 1] = <<>> THEN 0 ELSE 1
        /\ current' = IF source[stream + 1] = <<>> THEN EOF
                                                   ELSE source[stream + 1][1]
        /\ buffer' = Shifted(b, current')

Finished == out # <<>> /\ out[Len(out)].ty = "End"

\* Leaving GetNextToken() with tok.  A call made after End returns to the same
\* state, so the history stops there.
Return(tok) ==
  /\ token' = tok
  /\ out' = IF Finished THEN out ELSE Append(out, tok)
  /\ pc' = "returned"
-----------------------------------------------------------------------------
Init ==
  /\ source \in Sources
  /\ stream = 1
  /\ pos = 0
  /\ current = NUL
  /\ buffer = <<>>
  /\ token = [ty |-> "Unknown", data |-> <<>>]
  /\ out = <<>>
  /\ pc = "returned"

\* The caller asks for a token; the very first call reads a character.
GetNextToken ==
  /\ pc = "returned"
  /\ pc' = "skipSpaces"
  /\ IF current = NUL THEN MoveNext(buffer) ELSE UNCHANGED <<input, buffer>>
  /\ UNCHANGED <<token, out>>

\* Slip: the loop that tests `current' without reading.
SkipSpacesStuck == pc = "skipSpaces" /\ current \in Blank /\ UNCHANGED vars

SkipSpaces ==
  /\ pc = "skipSpaces"
  /\ current \in Blank
  /\ MoveNext(buffer)
  /\ UNCHANGED <<token, out, pc>>

\* The first test of GetNextToken() after the blanks: which loop to enter.
Begin(ty, loop) ==
  /\ pc = "skipSpaces"
  /\ ~ isop(Oldest)
  /\ token' = [ty |-> ty, data |-> <<>>]
  /\ pc' = loop
  /\ UNCHANGED <<input, buffer, out>>

BeginIdentifier == current \in Letter \cup {"_"} /\ Begin("Identifier", "identifier")
BeginNumber     == current \in Digit \cup {"."}  /\ Begin("Number", "number")
BeginString     == current = Quote               /\ Begin("String", "string")

BeginOperators ==
  /\ pc = "skipSpaces"
  /\ isop(Oldest)
  /\ isop(current)
  /\ pc' = "operators"
  /\ UNCHANGED <<input, buffer, token, out>>

BeginMatch ==
  /\ pc = "skipSpaces"
  /\ current \notin Blank
  /\ IF isop(Oldest) THEN ~ isop(current)
                     ELSE current \notin Plain \cup {"_", "."}
  /\ pc' = "match"
  /\ UNCHANGED <<input, buffer, token, out>>

\* push_back(current), then moveNext(): one turn of the identifier and number
\* loops.
Collect ==
  /\ token' = [token EXCEPT !.data = Append(@, current)]
  /\ MoveNext(buffer)
  /\ UNCHANGED <<out, pc>>

ReadIdentifier ==
  /\ pc = "identifier"
  /\ current \in Letter \cup Digit \cup {"_"}
  /\ Collect

EndIdentifier ==
  /\ pc = "identifier"
  /\ current \notin Letter \cup Digit \cup {"_"}
  /\ \E k \in Cleared(buffer) : buffer' = Rest(buffer, k)
  /\ Return([token EXCEPT !.ty = IF token.data \in Keywords THEN "Keyword" ELSE @])
  /\ UNCHANGED input

ReadNumber ==
  /\ pc = "number"
  /\ current \in Digit \cup {"."}
  /\ Collect

EndNumber ==
  /\ pc = "number"
  /\ current \notin Digit \cup {"."}
  /\ \E k \in Cleared(buffer) : buffer' = Rest(buffer, k)
  /\ Return(token)
  /\ UNCHANGED input

\* The string loop reads first and tests afterwards, so it also stores EOF.
ReadString ==
  /\ pc = "string"
  /\ current # EOF
  /\ MoveNext(buffer)
  /\ IF current' = Quote
       THEN pc' = "closeString" /\ UNCHANGED token
       ELSE pc' = "string" /\ token' = [token EXCEPT !.data = Append(@, current')]
  /\ UNCHANGED out

StringAtEOF ==
  /\ pc = "string"
  /\ current = EOF
  /\ pc' = "closeString"
  /\ UNCHANGED <<input, buffer, token, out>>

CloseString ==
  /\ pc = "closeString"
  /\ \E k \in Cleared(buffer) : MoveNext(Rest(buffer, k))
  /\ Return(token)

\* Slip: `if' for `while': one more symbol only.
ReadOneOperator ==
  /\ pc = "operators"
  /\ MoveNext(buffer)
  /\ pc' = "match"
  /\ UNCHANGED <<token, out>>

\* while (isop(moveNext())): the whole run of symbols, and one character more.
ReadOperators ==
  /\ pc = "operators"
  /\ MoveNext(buffer)
  /\ pc' = IF isop(current') THEN "operators" ELSE "match"
  /\ UNCHANGED <<token, out>>

BeginComment ==
  /\ pc = "match"
  /\ StartsComment
  /\ pc' = "skipUntil"
  /\ UNCHANGED <<input, buffer, token, out>>

\* skipUntil('\n') calls get() directly: neither current nor the register sees
\* what it skips, and it never leaves the stream it is in.
SkipUntil ==
  /\ pc = "skipUntil"
  /\ ~ PastEnd
  /\ pos < Len(source[stream])
  /\ pos' = pos + 1
  /\ pc' = IF source[stream][pos + 1] = Newline THEN "endComment" ELSE "skipUntil"
  /\ UNCHANGED <<source, stream, current, buffer, token, out>>

\* get() returns EOF again and again: the loop spins.
Spinning == pc = "skipUntil" /\ ~ PastEnd /\ pos = Len(source[stream])

SkipUntilSpins == Spinning /\ UNCHANGED vars

EndComment ==
  /\ pc = "endComment"
  /\ \E k \in Cleared(buffer) : MoveNext(Rest(buffer, k))
  /\ pc' = IF current' # EOF THEN "skipSpaces" ELSE "fallThrough"
  /\ UNCHANGED <<token, out>>

\* The tests after the comment.
Matching == pc = "fallThrough" \/ (pc = "match" /\ ~ StartsComment)

\* Slip: a punctuation token that stays in the register.
ReturnPunctuationUnpopped ==
  /\ Matching
  /\ \E p \in Punctuation : /\ Oldest = p[1]
                            /\ Return([token EXCEPT !.ty = p[2]])
  /\ UNCHANGED <<input, buffer>>

\* token = Token::X copies a type only: the payload of the token before stays.
ReturnPunctuation ==
  /\ Matching
  /\ \E p \in Punctuation : /\ Oldest = p[1]
                            /\ Return([token EXCEPT !.ty = p[2]])
  /\ buffer' = Tail(buffer)
  /\ UNCHANGED input

\* Slip: pop() where the code says pop(op->GetLen()).
ReturnOperatorPopOne ==
  /\ Matching
  /\ Oldest \notin Punctuators
  /\ \E op \in Parsed(buffer) : Return([ty |-> "Operator", data |-> op])
  /\ buffer' = Tail(buffer)
  /\ UNCHANGED input

ReturnOperator ==
  /\ Matching
  /\ Oldest \notin Punctuators
  /\ \E op \in Parsed(buffer) :
       /\ Return([ty |-> "Operator", data |-> op])
       /\ buffer' = Rest(buffer, Len(op))
  /\ UNCHANGED input

Unmatched == Matching /\ Oldest \notin Punctuators /\ Parsed(buffer) = {}

\* Slip: the end of file tested before the operators.
ReturnEndEagerly ==
  /\ Matching
  /\ current = EOF
  /\ Return([token EXCEPT !.ty = "End"])
  /\ UNCHANGED <<input, buffer>>

ReturnEnd ==
  /\ Unmatched
  /\ current = EOF
  /\ Return([token EXCEPT !.ty = "End"])
  /\ UNCHANGED <<input, buffer>>

ReturnUnknown ==
  /\ Unmatched
  /\ current # EOF
  /\ Return([ty |-> "Unknown", data |-> buffer])
  /\ \E k \in Cleared(buffer) : MoveNext(Rest(buffer, k))

\* get() through streams.end(): undefined behaviour, after which the model
\* says nothing.
DereferenceEnd ==
  /\ pc \in {"closeString", "skipUntil"}
  /\ PastEnd
  /\ pc' = "undefined"
  /\ UNCHANGED <<input, buffer, token, out>>

Next ==
  \/ GetNextToken \/ SkipSpaces
  \/ BeginIdentifier \/ ReadIdentifier \/ EndIdentifier
  \/ BeginNumber \/ ReadNumber \/ EndNumber
  \/ BeginString \/ ReadString \/ StringAtEOF \/ CloseString
  \/ BeginOperators \/ ReadOperators
  \/ BeginMatch \/ BeginComment \/ SkipUntil \/ SkipUntilSpins \/ EndComment
  \/ ReturnPunctuation \/ ReturnOperator \/ ReturnEnd \/ ReturnUnknown
  \/ DereferenceEnd

Spec == Init /\ [][Next]_vars

\* The lexer runs in the only thread of the compiler and waits for nothing, so
\* a step that is possible is taken.
FairSpec == Spec /\ WF_vars(Next)
-----------------------------------------------------------------------------
(* Properties *)

Payload == Seq(Char \cup {EOF})
Token   == [ty : TokenType, data : Payload]
Loop    == { "returned", "skipSpaces", "identifier", "number", "string",
             "closeString", "operators", "match", "skipUntil", "endComment",
             "fallThrough", "undefined" }

\* Every variable has its type; the register never overruns the array of
\* BUFFER_SIZE wide characters and a stream is never read past its end.
TypeOK ==
  /\ source \in Seq(Seq(Char)) \ {<<>>}
  /\ stream \in 1..Len(source) + 1
  /\ pos \in Nat
  /\ ~ PastEnd => pos <= Len(source[stream])
  /\ current \in Char \cup {NUL, EOF}
  /\ buffer \in Payload
  /\ Len(buffer) <= Capacity
  /\ token \in Token
  /\ out \in Seq(Token)
  /\ pc \in Loop

\* Between two calls at most one character has been read too far: the register
\* holds unmatched symbols and then possibly `current' itself.  This is what
\* lets GetNextToken() decide from last() and current alone (Lexer.hpp:44);
\* clearBuffer(), pop() and the shift in moveNext() must agree for it to hold.
ReadAhead ==
  pc = "returned" =>
    \A i \in 1..Len(buffer) : isop(buffer[i]) \/ (i = Len(buffer) /\ buffer[i] = current)

\* Symbols are matched against the operator table only when the whole run has
\* been read, so that an operator is never split (Lexer.hpp:91-93).
RunComplete == pc = "match" /\ isop(Oldest) => ~ isop(current)

Occurs(ch) == \E i \in 1..Len(source) : \E j \in 1..Len(source[i]) : source[i][j] = ch

\* Every input is read to its End, unless it leaves a string open (reading
\* through streams.end(), Lexer.hpp:80-86) or holds a comment (skipUntil() has
\* no test for the end of the stream, Lexer.hpp:154-156).
Terminates ==
  <>(\/ Finished
     \/ pc = "undefined" /\ (Occurs(Quote) \/ Occurs("/"))
     \/ Spinning /\ Occurs("/"))

\* After End the caller gets End again (main.cpp:26 stops at the first one, the
\* parser reads on): nothing is left over to be returned later.
EndIsFinal == Finished /\ pc = "returned" => token.ty = "End"

\* A comment ends with its line ("begin": "//", "end": "\\n" in the editor's
\* grammar, vacuumlang/syntaxes/vacuum.tmLanguage.json:18-19): when it has been
\* skipped, the slashes that opened it do not open another one.
CommentEndsWithLine == [][pc = "endComment" => ~ StartsComment']_vars
=============================================================================
