---------------------------- MODULE TokenValues ----------------------------
(***************************************************************************)
(* What the users of tokens rely on: a token is a value.  It is made by    *)
(* the lexer, assigned, collected in a stream, copied with the stream into *)
(* the body of a function and read back, and it spells the same all along. *)
(* Tokens.tla has the pointers and the heap with which the code does this. *)
(***************************************************************************)
EXTENDS Naturals, Sequences

CONSTANTS
  Spelled,   \* the tokens, as pairs of a type and a spelling
  Unread,    \* the token nothing has been assigned to
  Null,      \* the spelling of a token without a payload
  Holder,    \* the members `token' of the parser and of the driver
  Parser,    \* the holder whose token is collected
  MaxBody    \* bound on the length of a stream

VARIABLES
  lexer,     \* the token of the lexer
  held,      \* held[h]: the token of each holder
  stream,    \* the tokens of the stream that is being filled
  body,      \* the tokens of the body of a function, or <<>>
  at,        \* where each stream is read; 0 when it never had a token
  phase,     \* "idle", "filling" the stream, or the stream that is read
  answer     \* what the last read returned

vars == <<lexer, held, stream, body, at, phase, answer>>

Undefined == <<"undefined", Null>>

Init ==
  /\ lexer = Unread
  /\ held = [h \in Holder |-> Unread]
  /\ stream = <<>> /\ body = <<>>
  /\ at = [s \in {"stream", "body"} |-> 0]
  /\ phase = "idle"
  /\ answer = <<"none", Null>>

GetNextToken == lexer' \in Spelled /\ UNCHANGED <<held, stream, body, at, phase, answer>>

Take(h) ==
  /\ held' = [held EXCEPT ![h] = lexer]
  /\ UNCHANGED <<lexer, stream, body, at, phase, answer>>

NewStream ==
  /\ stream' = <<>>
  /\ at' = [at EXCEPT !["stream"] = 0]
  /\ phase' = "filling"
  /\ UNCHANGED <<lexer, held, body, answer>>

Push ==
  /\ phase = "filling" /\ Len(stream) < MaxBody
  /\ stream' = Append(stream, held[Parser])
  /\ at' = [at EXCEPT !["stream"] = 1]
  /\ UNCHANGED <<lexer, held, body, phase, answer>>

Pop ==
  /\ phase = "filling" /\ stream # <<>>
  /\ stream' = SubSeq(stream, 1, Len(stream) - 1)
  /\ at' = [at EXCEPT !["stream"] = 1]
  /\ UNCHANGED <<lexer, held, body, phase, answer>>

SetBody ==
  /\ phase = "filling" /\ stream # <<>> /\ body = <<>>
  /\ body' = stream
  /\ at' = [at EXCEPT !["body"] = at["stream"]]
  /\ phase' = "idle"
  /\ UNCHANGED <<lexer, held, stream, answer>>

\* Tokens come back in order.  After the last one the stream that was filled
\* says End once; its copy and a second call do not promise anything.
Read(s, tokens, i) ==
  /\ phase \in { "idle", "filling", s }
  /\ phase' = s
  /\ at' = [at EXCEPT ![s] = i]
  /\ answer' = IF i \in 1..Len(tokens) THEN tokens[i]
               ELSE IF s = "stream" /\ i = Len(tokens) + 1 /\ i = at[s] + 1 /\ at[s] > 0
                 THEN <<"End", Null>> ELSE Undefined
  /\ UNCHANGED <<lexer, held, stream, body>>

Next ==
  \/ /\ phase \in {"idle", "filling"}
     /\ \/ GetNextToken
        \/ \E h \in Holder : Take(h)
        \/ NewStream \/ Push \/ Pop \/ SetBody
  \/ /\ answer # Undefined
     /\ \E d \in {0, 1} : \/ Read("stream", stream, at["stream"] + d)
                          \/ Read("body", body, at["body"] + d)

Spec == Init /\ [][Next]_vars
=============================================================================
