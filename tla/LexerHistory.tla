---------------------------- MODULE LexerHistory ----------------------------
(***************************************************************************)
(* The lexer with three observers that relate the characters it takes to   *)
(* the tokens it returns.  They apply to sources in which every character  *)
(* belongs to exactly one token: no comments, no '_' or '.' (both of which *)
(* belong to words and to isop()), no empty streams, and no symbol outside *)
(* the tables.                                                             *)
(***************************************************************************)
EXTENDS Lexer

VARIABLES
  seen,     \* the characters taken, blanks outside strings left out
  spelled,  \* what the tokens returned so far spell
  lost      \* the register has overflowed while it held a run of symbols

hvars == <<vars, seen, spelled, lost>>

ASSUME CleanAssumption ==
  /\ Symbol \cap {"_", ".", "/"} = {}
  /\ \A ch \in Symbol \ Punctuators : <<ch>> \in Operators
  /\ \A op \in Operators : op[1] \notin Punctuators
  /\ \A s \in Sources : \A i \in 1..Len(s) : s[i] # <<>>
  /\ Capacity > 1

\* The characters a token stands for.
Spelling(tok) ==
  IF tok.ty = "String" THEN <<Quote>> \o tok.data \o <<Quote>>
  ELSE IF \E p \in Punctuation : tok.ty = p[2]
    THEN <<(CHOOSE p \in Punctuation : tok.ty = p[2])[1]>>
  ELSE IF tok.ty = "End" THEN <<>> ELSE tok.data

InString == pc \in {"string", "closeString"}

\* A character was taken by this step, and is one to be spelled.  The read
\* that follows a closing quote is no part of the string.
Took == /\ <<stream, pos>>' # <<stream, pos>>
        /\ current' # EOF
        /\ current' \in Blank => pc = "string"

HInit == Init /\ seen = <<>> /\ spelled = <<>> /\ lost = FALSE

HNext ==
  /\ Next
  /\ seen' = IF Took THEN Append(seen, current') ELSE seen
  /\ spelled' = IF out' # out THEN spelled \o Spelling(token') ELSE spelled
  /\ lost' = (lost \/ (Took /\ Len(buffer) = Capacity /\ isop(Oldest) /\ ~ InString))

HSpec == HInit /\ [][HNext]_hvars
-----------------------------------------------------------------------------
\* The character read last, while a word is collected from those before it.
Ahead == IF current \in Blank \cup {NUL, EOF} THEN <<>> ELSE <<current>>

\* Read and not yet given out, at each place of GetNextToken().  Between two
\* calls it is the register, to which `current' is added when clearBuffer() has
\* removed it (Lexer.hpp:60, 72).
Pending ==
  IF current \in Plain /\ (buffer = <<>> \/ isop(buffer[Len(buffer)]))
    THEN Append(buffer, current) ELSE buffer

\* An open string: the loop has stored the EOF that ends it (Lexer.hpp:80-84).
OpenString ==
  <<Quote>> \o IF current = EOF THEN SubSeq(token.data, 1, Len(token.data) - 1)
                              ELSE token.data

Held ==
  CASE pc \in {"identifier", "number"} -> token.data \o Ahead
    [] pc \in {"string", "undefined"}  -> OpenString
    [] pc = "closeString" -> OpenString \o IF current = EOF THEN <<>> ELSE <<Quote>>
    [] OTHER              -> Pending

\* Nothing is lost, repeated or reordered: what the tokens spell, followed by
\* what is held, is what was taken, until a run of symbols longer than the
\* register has been read (Lexer.hpp:162-176, 196-215).
Lossless == ~ lost => seen = spelled \o Held

-----------------------------------------------------------------------------
(* Why it is so: the shape of the register at each place of the code. *)

\* Between words: unmatched symbols, then possibly the first character of a
\* word, which is then also the character read last.
Queued ==
  /\ \A i \in 1..Len(buffer) :
       buffer[i] \in Symbol \/ (i = Len(buffer) /\ buffer[i] = current /\ current \in Plain)
  /\ current \in Symbol => buffer # <<>>
  /\ current \in Symbol \cup Plain /\ buffer # <<>> => buffer[Len(buffer)] = current

\* In a word the only symbol in the register is the one read too far.
Collected ==
  /\ token.data \in Seq(Char)
  /\ token.ty \in { "Identifier", "Number" }
  /\ token.data = <<>> => current \in IF pc = "identifier" THEN Letter ELSE Digit
  /\ \A i \in 1..Len(buffer) :
       buffer[i] \in Symbol => i = Len(buffer) /\ buffer[i] = current
  /\ current \in Symbol => buffer # <<>> /\ buffer[Len(buffer)] = current

Quoted ==
  /\ token.ty = "String"
  /\ IF current = EOF THEN SubSeq(token.data, 1, Len(token.data) - 1) \in Seq(Char)
                      ELSE token.data \in Seq(Char)

Shape ==
  /\ TypeOK
  /\ \A i \in 1..Len(source) : source[i] # <<>>
  /\ current = EOF <=> PastEnd
  /\ current = NUL => pc = "returned" /\ buffer = <<>> /\ out = <<>>
  /\ pc \notin { "skipUntil", "endComment", "fallThrough" }
  /\ pc \in { "returned", "skipSpaces", "operators", "match" } => Queued
  /\ pc = "operators" => isop(Oldest) /\ isop(current)
  /\ pc = "match" => IF isop(Oldest) THEN ~ isop(current) ELSE current = EOF
  /\ pc \in { "identifier", "number" } => Collected
  /\ pc \in { "string", "closeString", "undefined" } => Quoted
  /\ pc = "closeString" =>
       current = EOF \/ (current = Quote /\ buffer # <<>> /\ buffer[Len(buffer)] = Quote)
  /\ pc = "undefined" => current = EOF
  /\ Finished => /\ pc \in { "returned", "skipSpaces", "match" }
                 /\ current = EOF
                 /\ buffer = <<>>

\* The inductive invariant: with it Lossless holds after every step.
HistoryInv ==
  /\ Shape
  /\ seen \in Seq(Char)
  /\ spelled \in Seq(Char)
  /\ lost \in BOOLEAN
  /\ Lossless

\* At End every character taken has been given out and none is left to read.
AllSpelled == Finished /\ ~ lost => spelled = seen /\ PastEnd

\* The lexer implements a queue of characters that loses only by overflow.
Fifo == INSTANCE CharFifo WITH Element <- Char, Bound <- Capacity,
                               queue <- Held, spelled <- spelled
FifoSpec == Fifo!Spec
=============================================================================
