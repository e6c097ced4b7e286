--------------------------- MODULE CompilerModule ---------------------------
(***************************************************************************)
(* The declaration parser of the Vacuum compiler: generateMetadata() and   *)
(* the functions it calls in src/src/CompilerModule.hpp.                   *)
(*                                                                         *)
(* Tokens come one at a time from Lexer::GetNextToken(), which goes on     *)
(* returning End after the first one.  parsePrimary() and parseNamespace() *)
(* call each other; the calls that have not returned are `nesting'.        *)
(* parseClass() asks the class tree for "object" before it reads anything. *)
(* No node has that name (the root is "Object", Metadata.hpp:14).  find()  *)
(* uses an invalid iterator before it comes to the end (Compiler.tla); if  *)
(* it did come there, Type::getInstance() would write through a null       *)
(* pointer (Types.hpp:439-440).  What follows in parseClass() is never     *)
(* reached.                                                                *)
(***************************************************************************)
EXTENDS Integers, Sequences, FiniteSets

CONSTANTS
  Name,        \* identifiers
  Vocabulary,  \* the tokens a source may contain
  MaxTokens    \* bound on the length of a source

Visibility == { "public", "private", "protected" }

\* Keyword::isModifier()
Modifier == Visibility \cup { "static", "const", "ref", "volatile" }

Keyword == Modifier \cup { "class", "namespace", "entrypoint", "import", "self" }

Token == Keyword \cup Name \cup { "BraceOpen", "BraceClose", "CmdEnd", "Number", "End" }

ASSUME NameAssumption ==
  Name \cap (Keyword \cup { "BraceOpen", "BraceClose", "CmdEnd", "Number", "End" }) = {}

ASSUME VocabularyAssumption ==
  /\ Vocabulary \subseteq Token \ {"End"}
  /\ MaxTokens \in Nat

VARIABLES
  token,     \* the member token
  taken,     \* tokens taken from the lexer, End not counted
  location,  \* currentLocation: the namespaces entered, outermost first
  nesting,   \* parseNamespace() calls that are running parsePrimary()
  written,   \* history: the modifiers of this declaration, as written
  body,      \* the TokenBufferStream filled last
  level,     \* braces open in body
  pc         \* where the parser is

vars == <<token, taken, location, nesting, written, body, level, pc>>

Final == { "done", "error", "undefined" }
-----------------------------------------------------------------------------
\* moveNext(): any token of the vocabulary while the source lasts, or its end,
\* which stays.
MoveNext ==
  \/ /\ token # "End"
     /\ taken < MaxTokens
     /\ token' \in Vocabulary
     /\ taken' = taken + 1
  \/ token' = "End" /\ UNCHANGED taken

\* Leaving parsePrimary(), for the loop that called it.
Return == pc' = IF nesting = 0 THEN "top" ELSE "namespaceLoop"

\* logError() throws; main() ends the program.
LogError ==
  /\ pc' = "error"
  /\ UNCHANGED <<token, taken, location, nesting, written, body, level>>

Init ==
  /\ token = "Unknown"
  /\ taken = 0
  /\ location = <<>>
  /\ nesting = 0
  /\ written = <<>>
  /\ body = <<>>
  /\ level = 0
  /\ pc = "start"

\* moveNext(); //init
Start ==
  /\ pc = "start"
  /\ MoveNext
  /\ pc' = "top"
  /\ UNCHANGED <<location, nesting, written, body, level>>

\* Slip: the end is left to parsePrimary(), which refuses it.
TopUntested ==
  /\ pc = "top"
  /\ pc' = "modifiers"
  /\ written' = <<>>
  /\ UNCHANGED <<token, taken, location, nesting, body, level>>

\* while (token.ty != Token::End) parsePrimary();
Top ==
  /\ pc = "top"
  /\ pc' = IF token = "End" THEN "done" ELSE "modifiers"
  /\ written' = <<>>
  /\ UNCHANGED <<token, taken, location, nesting, body, level>>

\* One turn of parseModifiers().  addModifier() compares the modifier with those
\* in mods but never adds it to mods, so that the comparison is with none.
ReadModifier ==
  /\ pc = "modifiers"
  /\ token \in Modifier
  /\ written' = Append(written, token)
  /\ MoveNext
  /\ UNCHANGED <<location, nesting, body, level, pc>>

\* Slip: no default case, so that the token stays.
UnexpectedTokenIgnored ==
  /\ pc = "modifiers"
  /\ token \notin Modifier \cup {"class", "namespace", "entrypoint", "import"}
  /\ Return
  /\ UNCHANGED <<token, taken, location, nesting, written, body, level>>

\* The rest of parsePrimary(): the switch on the keyword after the modifiers.
UnexpectedToken ==
  /\ pc = "modifiers"
  /\ token \notin Modifier \cup {"class", "namespace", "entrypoint", "import"}
  /\ LogError

ParseClass ==
  /\ pc = "modifiers"
  /\ token = "class"
  /\ pc' = "parseClass"
  /\ UNCHANGED <<token, taken, location, nesting, written, body, level>>

\* Type::getInstance(&metadata, Type::Object)
GetObject ==
  /\ pc = "parseClass"
  /\ pc' = "undefined"
  /\ UNCHANGED <<token, taken, location, nesting, written, body, level>>

ParseNamespace ==
  /\ pc = "modifiers"
  /\ token = "namespace"
  /\ MoveNext
  /\ pc' = "namespaceName"
  /\ UNCHANGED <<location, nesting, written, body, level>>

\* The name of the namespace is pushed on the location.
NamespaceName ==
  /\ pc = "namespaceName"
  /\ token \in Name
  /\ location' = Append(location, token)
  /\ MoveNext
  /\ pc' = "namespaceOpen"
  /\ UNCHANGED <<nesting, written, body, level>>

NamespaceOpen ==
  /\ pc = "namespaceOpen"
  /\ token = "BraceOpen"
  /\ MoveNext
  /\ pc' = "namespaceLoop"
  /\ UNCHANGED <<location, nesting, written, body, level>>

NamespaceError ==
  /\ \/ pc = "namespaceName" /\ token \notin Name
     \/ pc = "namespaceOpen" /\ token # "BraceOpen"
  /\ LogError

\* while (token.ty == Token::BraceClose) parsePrimary();
NamespaceBody ==
  /\ pc = "namespaceLoop"
  /\ token = "BraceClose"
  /\ nesting' = nesting + 1
  /\ pc' = "modifiers"
  /\ written' = <<>>
  /\ UNCHANGED <<token, taken, location, body, level>>

\* Slip: the name stays on the location.
NamespaceEndUnpopped ==
  /\ pc = "namespaceLoop"
  /\ token # "BraceClose"
  /\ MoveNext
  /\ Return
  /\ UNCHANGED <<location, nesting, written, body, level>>

\* --currentLocation; moveNext(); //skip '}'
NamespaceEnd ==
  /\ pc = "namespaceLoop"
  /\ token # "BraceClose"
  /\ location' = SubSeq(location, 1, Len(location) - 1)
  /\ MoveNext
  /\ Return
  /\ UNCHANGED <<nesting, written, body, level>>

ParseEntrypoint ==
  /\ pc = "modifiers"
  /\ token = "entrypoint"
  /\ MoveNext
  /\ pc' = "entrypointOpen"
  /\ UNCHANGED <<location, nesting, written, body, level>>

\* Slip: the body read without the test for its brace.
EntrypointOpenUnchecked ==
  /\ pc = "entrypointOpen"
  /\ body' = <<>>
  /\ level' = 0
  /\ pc' = "functionBody"
  /\ UNCHANGED <<token, taken, location, nesting, written>>

EntrypointOpen ==
  /\ pc = "entrypointOpen"
  /\ token = "BraceOpen"
  /\ body' = <<>>
  /\ level' = 0
  /\ pc' = "functionBody"
  /\ UNCHANGED <<token, taken, location, nesting, written>>

EntrypointError == pc = "entrypointOpen" /\ token # "BraceOpen" /\ LogError

\* What a token adds to the number of open braces.
Opened(n, tok) == CASE tok = "BraceOpen" -> n + 1 [] tok = "BraceClose" -> n - 1 [] OTHER -> n

\* At the end of the source the loop pushes End for ever.
Unbalanced == pc = "functionBody" /\ token = "End"

\* Slip: the level tested before the brace is counted.
ReadBodyLate ==
  /\ pc = "functionBody"
  /\ token # "End"
  /\ body' = Append(body, token)
  /\ level' = Opened(level, token)
  /\ MoveNext
  /\ IF body # <<>> /\ level <= 0 THEN Return ELSE UNCHANGED pc
  /\ UNCHANGED <<location, nesting, written>>

\* One turn of the loop of parseFunctionBody().
ReadBody ==
  /\ pc = "functionBody"
  /\ token # "End"
  /\ body' = Append(body, token)
  /\ level' = Opened(level, token)
  /\ MoveNext
  /\ IF level' <= 0 THEN Return ELSE UNCHANGED pc
  /\ UNCHANGED <<location, nesting, written>>

\* The buffer grows by one End a turn; the model stores none of them.
BodySpins == Unbalanced /\ UNCHANGED vars

\* while (moveNext().ty != Token::CmdEnd);
ParseImport ==
  /\ pc = "modifiers"
  /\ token = "import"
  /\ MoveNext
  /\ pc' = "import"
  /\ UNCHANGED <<location, nesting, written, body, level>>

Unclosed == pc = "import" /\ token = "End"

SkipImport ==
  /\ pc = "import"
  /\ MoveNext
  /\ IF token = "CmdEnd" THEN Return ELSE UNCHANGED pc
  /\ UNCHANGED <<location, nesting, written, body, level>>

Next ==
  \/ Start \/ Top \/ ReadModifier \/ UnexpectedToken
  \/ ParseClass \/ GetObject
  \/ ParseNamespace \/ NamespaceName \/ NamespaceOpen \/ NamespaceError
  \/ NamespaceBody \/ NamespaceEnd
  \/ ParseEntrypoint \/ EntrypointOpen \/ EntrypointError \/ ReadBody \/ BodySpins
  \/ ParseImport \/ SkipImport

Spec == Init /\ [][Next]_vars

\* One thread, which waits for nothing.
FairSpec == Spec /\ WF_vars(Next)
-----------------------------------------------------------------------------
(* Properties *)

\* How many of the first n tokens of s are tok.
Count(tok, s, n) == Cardinality({ i \in 1..n : s[i] = tok })

TypeOK ==
  /\ token \in Token \/ (pc = "start" /\ token = "Unknown")
  /\ taken \in 0..MaxTokens
  /\ location \in Seq(Name)
  /\ nesting \in Nat
  /\ written \in Seq(Modifier)
  /\ body \in Seq(Token \ {"End"})
  /\ level \in Nat
  /\ pc \in Final \cup { "start", "top", "modifiers", "parseClass", "namespaceName",
                         "namespaceOpen", "namespaceLoop", "entrypointOpen",
                         "functionBody", "import" }

Opens(s, n)  == Count("BraceOpen", s, n)
Closes(s, n) == Count("BraceClose", s, n)

\* A block: it opens with its first token and closes with its last and no other.
Block(s) ==
  /\ s[1] = "BraceOpen"
  /\ Opens(s, Len(s)) = Closes(s, Len(s))
  /\ \A n \in 1..Len(s) - 1 : Opens(s, n) > Closes(s, n)

\* The body captured for later code generation is exactly one balanced block,
\* however braces nest in it (CompilerModule.hpp:236-246).
BodyIsBlock == pc # "functionBody" /\ body # <<>> => Block(body)

\* Between two declarations of the file no namespace is left on the location,
\* which names every type and looks every name up (CompilerModule.hpp:145-162).
LocationRestored == pc \in {"top", "done"} => location = <<>> /\ nesting = 0

\* Why: a namespace is on the location exactly while its braces are read, and a
\* nested parsePrimary() has only a closing brace before it, at which it stops.
LocationInv ==
  /\ nesting > 0 => pc = "error" \/ (pc = "modifiers" /\ token = "BraceClose")
  /\ pc # "error" /\ nesting = 0 =>
       Len(location) = IF pc \in { "namespaceOpen", "namespaceLoop" } THEN 1 ELSE 0

\* Why: while a body is read, `level' counts the braces open in it.
BodyInv ==
  /\ pc = "functionBody" =>
       /\ level = Opens(body, Len(body)) - Closes(body, Len(body))
       /\ IF body = <<>> THEN token = "BraceOpen" ELSE level > 0 /\ body[1] = "BraceOpen"
       /\ \A n \in 1..Len(body) : Opens(body, n) > Closes(body, n)
  /\ BodyIsBlock

\* The inductive invariant of the parser, of which the three above are parts.
ParserInv == TypeOK /\ LocationInv /\ BodyInv

\* A source is parsed to its end or refused, unless it ends inside a body or an
\* import, whose loops never test for End (CompilerModule.hpp:83, 239-245).
Settles == <>(pc \in Final \/ Unbalanced \/ Unclosed)

\* The token parseNamespace() skips when it leaves is the brace that closes the
\* namespace (comment "//skip '}'", CompilerModule.hpp:157).
NamespaceEndsAtBrace ==
  [][location # <<>> /\ Len(location') < Len(location) => token = "BraceClose"]_vars

\* A declaration has one visibility modifier at most ("Multi visiblity modifiers
\* are not allowed!", CompilerModule.hpp:103).
OneVisibility ==
  \A i, j \in 1..Len(written) :
    written[i] \in Visibility /\ written[j] \in Visibility => written[i] = written[j]
=============================================================================
