------------------------------- MODULE Tokens -------------------------------
(***************************************************************************)
(* Tokens and the streams of tokens (src/src/Tokens.hpp,                   *)
(* src/src/TokenBufferStream.hpp, Function::setBody() in Types.hpp).       *)
(*                                                                         *)
(* A token is a type and a pointer to a payload.  The lexer makes payloads *)
(* with new; Token::copy() makes others with malloc() and memcpy(), which  *)
(* copies a String with its pointer to the characters and not the          *)
(* characters.  Only copy() frees, and only the payload the token had.     *)
(* There is no destructor: what is not freed there stays allocated for     *)
(* ever, and this is what keeps every copy readable.  Temporaries made and *)
(* leaked within one expression are left out, their contents being that of *)
(* the copy that is kept.                                                  *)
(***************************************************************************)
EXTENDS Naturals, Sequences, FiniteSets

CONSTANTS
  Block,      \* the addresses malloc() and new may return
  Null,       \* the null pointer
  Value,      \* payloads, told apart by what they spell
  TextType,   \* types whose payload is a String
  PlainType,  \* types whose payload has no pointer: Keyword and Operator
  BareType,   \* types without a payload, End and punctuation
  Holder,     \* the members `token' of the parser and of the driver
  Parser,     \* the holder whose token is collected
  MaxBody     \* bound on the length of a stream

ASSUME TokenAssumption ==
  /\ Null \notin Block \cup Value
  /\ TextType \cap (PlainType \cup BareType) = {}
  /\ PlainType \cap BareType = {}
  /\ "Unread" \notin TextType \cup PlainType \cup BareType
  /\ Parser \in Holder
  /\ MaxBody \in Nat

\* A payload in memory: the String its characters belong to, if it is one.
Payload == [text : Block \cup {Null}, value : Value]

ASSUME NullAssumption == Null \notin Payload

VARIABLES
  heap,    \* heap[b]: the payload at address b, or Free
  lexer,   \* Lexer::token
  held,    \* held[h]: the token each holder assigns what it reads to
  stream,  \* buffer of the TokenBufferStream that is being filled
  body,    \* buffer of the body of a function, <<>> before setBody()
  walked,  \* the vector the iterator of the body points into
  at,      \* currentTok of each, as an index; 0 when it points nowhere
  phase,   \* "idle", "filling" the stream, or the stream that is read
  answer   \* what the last read of a stream returned

vars == <<heap, lexer, held, stream, body, walked, at, phase, answer>>

Type    == TextType \cup PlainType \cup BareType \cup {"Unread"}
Free    == Null
Token   == [ty : Type, data : Block \cup {Null}]
Unread  == [ty |-> "Unread", data |-> Null]

Undefined == <<"undefined", Null>>

\* Between the copy of the first token of a body and that of its iterator.
Copying == body # <<>> /\ walked = <<>>

\* Tokens are still lexed, assigned and collected.
Collecting == phase \in {"idle", "filling"} /\ ~ Copying

\* Reading a stream changes nothing but its iterator, so that the model lets it
\* come after all the rest, one stream at a time.  After undefined behaviour it
\* says nothing.
Readable(s) == (Collecting \/ phase = s) /\ answer # Undefined

Live == { b \in Block : heap[b] # Free }
-----------------------------------------------------------------------------
(* Token::copy() *)

\* Slip: a copy that shares the payload, as the compiler would write it.
CopiedShared(other, b) == [ty |-> other.ty, data |-> other.data]

\* The copy constructor of a token when malloc() returns b.
Copied(other, b) ==
  [ty |-> other.ty, data |-> IF other.data = Null THEN Null ELSE b]

\* What the heap h is after memcpy() from `other' to b.
WithCopy(h, other, b) ==
  IF other.data = Null THEN h ELSE [h EXCEPT ![b] = h[other.data]]

\* free(data), when the other token has a payload.
Freed(h, t, other) ==
  IF other.data = Null \/ t.data = Null THEN h ELSE [h EXCEPT ![t.data] = Free]

\* Slip: a payload that is kept when there is one.
AssignedOnce(t, other, b) ==
  [ty |-> other.ty, data |-> IF other.data = Null \/ t.data # Null THEN t.data ELSE b]

\* t = other: a token without a payload leaves the one that t has.
Assigned(t, other, b) ==
  [ty |-> other.ty, data |-> IF other.data = Null THEN t.data ELSE b]
-----------------------------------------------------------------------------
Init ==
  /\ heap = [b \in Block |-> Free]
  /\ lexer = Unread
  /\ held = [h \in Holder |-> Unread]
  /\ stream = <<>> /\ body = <<>> /\ walked = <<>>
  /\ at = [s \in {"stream", "body"} |-> 0]
  /\ phase = "idle"
  /\ answer = <<"none", Null>>

\* Slip: setData() that frees the payload it replaces.
SetDataFreeing(ty, b, p) ==
  /\ heap' = [Freed(heap, lexer, [ty |-> ty, data |-> b]) EXCEPT ![b] = p]
  /\ lexer' = [ty |-> ty, data |-> b]

\* token.ty = ty; token.setData(new ...), which leaks the payload before.
SetData(ty, b, p) ==
  /\ heap' = [heap EXCEPT ![b] = p]
  /\ lexer' = [ty |-> ty, data |-> b]

\* GetNextToken(): a String has its characters in or behind its own block; the
\* assignment of a bare type changes nothing but the type.
GetNextToken ==
  /\ Collecting
  /\ \/ \E b \in Block \ Live, v \in Value :
          \/ \E ty \in TextType : SetData(ty, b, [text |-> b, value |-> v])
          \/ \E ty \in PlainType : SetData(ty, b, [text |-> Null, value |-> v])
     \/ \E ty \in BareType : lexer' = [lexer EXCEPT !.ty = ty] /\ UNCHANGED heap
  /\ UNCHANGED <<held, stream, body, walked, at, phase, answer>>

\* token = lexer->GetNextToken(): malloc() may return what free() has freed.
Take(h) ==
  LET freed == Freed(heap, held[h], lexer)
  IN /\ Collecting
     /\ \E b \in Block :
          /\ lexer.data # Null => freed[b] = Free
          /\ held' = [held EXCEPT ![h] = Assigned(@, lexer, b)]
          /\ heap' = WithCopy(freed, lexer, b)
     /\ UNCHANGED <<lexer, stream, body, walked, at, phase, answer>>

\* new TokenBufferStream(); the one before is never deleted.
NewStream ==
  /\ Collecting
  /\ stream' = <<>>
  /\ at' = [at EXCEPT !["stream"] = 0]
  /\ phase' = "filling"
  /\ UNCHANGED <<heap, lexer, held, body, walked, answer>>

\* push(): the tokens a growing vector moves are copies like the others.
Push ==
  /\ Collecting
  /\ phase = "filling" /\ Len(stream) < MaxBody
  /\ \E b \in Block :
       /\ held[Parser].data # Null => heap[b] = Free
       /\ stream' = Append(stream, Copied(held[Parser], b))
       /\ heap' = WithCopy(heap, held[Parser], b)
  /\ at' = [at EXCEPT !["stream"] = 1]
  /\ UNCHANGED <<lexer, held, body, walked, phase, answer>>

\* pop(): no destructor, so that the payload stays.
Pop ==
  /\ Collecting
  /\ phase = "filling" /\ stream # <<>>
  /\ stream' = SubSeq(stream, 1, Len(stream) - 1)
  /\ at' = [at EXCEPT !["stream"] = 1]
  /\ UNCHANGED <<heap, lexer, held, body, walked, phase, answer>>

\* Function::setBody(), body = stream: the vector copies token after token.
CopyToken ==
  /\ phase = "filling" /\ walked = <<>> /\ Len(body) < Len(stream)
  /\ LET other == stream[Len(body) + 1]
     IN \E b \in Block : /\ other.data # Null => heap[b] = Free
                         /\ body' = Append(body, Copied(other, b))
                         /\ heap' = WithCopy(heap, other, b)
  /\ UNCHANGED <<lexer, held, stream, walked, at, phase, answer>>

\* The iterator is copied as it is: it stays in the vector of the stream, which
\* nothing pushes to any more.
CopyIterator ==
  /\ phase = "filling" /\ walked = <<>> /\ body # <<>> /\ Len(body) = Len(stream)
  /\ walked' = stream
  /\ at' = [at EXCEPT !["body"] = at["stream"]]
  /\ phase' = "idle"
  /\ UNCHANGED <<heap, lexer, held, stream, body, answer>>
-----------------------------------------------------------------------------
(* Reading *)

\* The characters a payload leads to in the heap h.
Spelling(h, d) ==
  IF d = Null \/ h[d] = Free THEN "garbage"
  ELSE IF h[d].text = Null THEN h[d].value
  ELSE IF h[h[d].text] = Free THEN "garbage" ELSE h[h[d].text].value

\* What a token says to those who look at its payload only if its type has one.
Says(h, t) == <<t.ty, IF t.ty \in TextType \cup PlainType THEN Spelling(h, t.data) ELSE Null>>

\* *currentTok
At(tokens, i) == IF i \in 1..Len(tokens) THEN Says(heap, tokens[i]) ELSE Undefined

getCurrToken(s, tokens) ==
  /\ Readable(s)
  /\ phase' = s
  /\ answer' = At(tokens, at[s])
  /\ UNCHANGED <<heap, lexer, held, stream, body, walked, at>>

\* Slip: return *currentTok++.
moveNextPostfix(s, tokens) ==
  /\ Readable(s)
  /\ phase' = s
  /\ at' = [at EXCEPT ![s] = @ + 1]
  /\ answer' = At(tokens, at[s])
  /\ UNCHANGED <<heap, lexer, held, stream, body, walked>>

\* currentTok is never equal to end() of a copy: it is in another vector.
moveNext(s, tokens) ==
  /\ Readable(s)
  /\ phase' = s
  /\ at' = [at EXCEPT ![s] = @ + 1]
  /\ answer' = IF s = "stream" /\ at[s] > 0 /\ at'[s] = Len(tokens) + 1
                 THEN <<"End", Null>> ELSE At(tokens, at'[s])
  /\ UNCHANGED <<heap, lexer, held, stream, body, walked>>

Next ==
  \/ GetNextToken
  \/ \E h \in Holder : Take(h)
  \/ NewStream \/ Push \/ Pop
  \/ CopyToken \/ CopyIterator
  \/ getCurrToken("stream", stream) \/ getCurrToken("body", walked)
  \/ moveNext("stream", stream) \/ moveNext("body", walked)

Spec == Init /\ [][Next]_vars
-----------------------------------------------------------------------------
(* Properties *)

TypeOK ==
  /\ heap \in [Block -> Payload \cup {Free}]
  /\ lexer \in Token
  /\ held \in [Holder -> Token]
  /\ stream \in Seq(Token) /\ body \in Seq(Token) /\ walked \in Seq(Token)
  /\ at \in [{"stream", "body"} -> Nat]
  /\ phase \in { "idle", "filling", "stream", "body" }

Members(s) == { s[i] : i \in 1..Len(s) }

\* The tokens in memory, but for temporaries: those that are never assigned to
\* again or have their payload set, and those assigned to.
Kept   == {lexer} \cup Members(stream) \cup Members(body) \cup Members(walked)
Tokens == Kept \cup { held[h] : h \in Holder }

\* In the heap h, t has no payload, or one that can be read to its characters.
Sound(h, t) ==
  t.data # Null => /\ h[t.data] # Free
                   /\ h[t.data].text # Null => h[h[t.data].text] # Free

\* Every token in memory can be printed, whatever its type: its payload has not
\* been freed, and neither has the String its characters belong to, which may
\* be that of a token overwritten long ago (Tokens.hpp:115-124).
NoDangling == \A t \in Tokens : Sound(heap, t)

\* What an assignment frees belongs to the token assigned to and to no other,
\* neither as its payload nor as its characters (Tokens.hpp:117-119).
ExclusiveOwner ==
  \A h \in Holder : held[h].data # Null =>
    /\ \A t \in Kept : t.data # held[h].data
    /\ \A g \in Holder \ {h} : held[g].data # held[h].data
    /\ \A b \in Live : heap[b].text # held[h].data

\* Why: characters belong to a String that has not been freed.
TextInv == \A b \in Live : heap[b].text # Null => heap[heap[b].text] # Free

\* The inductive invariant of the heap.
OwnershipInv == TypeOK /\ NoDangling /\ ExclusiveOwner /\ TextInv

Said(s) == [i \in 1..Len(s) |-> Says(heap, s[i])]

\* Tokens are values: what is read from the body of a function is what the
\* lexer returned when the body was parsed, in that order (TokenBufferStream.hpp).
Values == INSTANCE TokenValues WITH
  Spelled <- ((TextType \cup PlainType) \X Value) \cup (BareType \X {Null}),
  Unread  <- <<"Unread", Null>>,
  lexer   <- Says(heap, lexer),
  held    <- [h \in Holder |-> Says(heap, held[h])],
  stream  <- Said(stream),
  body    <- IF Copying THEN <<>> ELSE Said(body)

ValuesSpec == Values!Spec
=============================================================================
