------------------------------ MODULE Compiler ------------------------------
(***************************************************************************)
(* The compiler as main() runs it (src/src/main.cpp): the command line     *)
(* (src/src/ConsoleApplication.hpp), the file, the lexer and the           *)
(* declaration parser that calls it, the generation of classes, and the    *)
(* exit.                                                                   *)
(*                                                                         *)
(* The state of the lexer is that of Lexer.tla, the state of the parser    *)
(* that of CompilerModule.tla, with its token as `held' and its place as   *)
(* `place'.  Where CompilerModule takes any token, this module takes the   *)
(* one that GetNextToken() returns: the parser calls the lexer, waits, and *)
(* takes the token in one step of its own.                                 *)
(***************************************************************************)
EXTENDS Lexer, Metadata, FiniteSets

CONSTANTS
  Reserved,    \* the keyword that each spelling of Keywords stands for
  CommandLine, \* CommandLine[s]: argv without the program, for a file of text s
  Files,       \* the files that can be opened
  MaxTokens    \* more tokens than any source has

\* An argument is an option, with a dash, or a value.
Argument == [dash : BOOLEAN, text : STRING]

Keyword == { Reserved[w] : w \in Keywords }

ASSUME CommandLineAssumption == CommandLine \in [Sources -> SUBSET Seq(Argument)]

VARIABLES
  args,      \* argv[1], argv[2], ...
  turn,      \* the turn of the loop over them, i
  param_name,
  parameters,
  driver,    \* where main() is, or how it ended
  target, cursor, node, depth, visited,
  walk,      \* the walk over the classes, in find() and in codeGen()
  asked,     \* the parser is inside GetNextToken()
  held,      \* CompilerModule::token
  taken, location, nesting, written, body, level,
  place      \* where the parser is

lexer  == <<source, stream, pos, current, buffer, token, out, pc>>
app    == <<args, turn, param_name, parameters>>
walker == <<target, cursor, node, depth, visited, walk>>
parser == <<held, taken, location, nesting, written, body, level, place>>
cvars  == <<source, stream, pos, current, buffer, token, out, pc,
            args, turn, param_name, parameters, driver, asked,
            target, cursor, node, depth, visited, walk,
            held, taken, location, nesting, written, body, level, place>>

\* The tokens that CompilerModule tells apart; any other is to it what a number is.
Heard == Keyword \cup { "name", "BraceOpen", "BraceClose", "CmdEnd", "Number" }

P == INSTANCE CompilerModule WITH
  Name <- {"name"}, Vocabulary <- Heard, token <- held, pc <- place

\* All that no case of the parser tells apart are the same one.
ASSUME ReservedAssumption == Reserved \in [Keywords -> P!Keyword]

\* The tree of classes, which does not change, and the walk over it.
Built == INSTANCE Tree WITH
  Node     <- Names,
  Root     <- "Object",
  Null     <- nullptr,
  MaxRemovals <- 0,
  removals <- 0,
  parent   <- [c \in Names |-> Parent(c)],
  children <- [c \in Names |-> Children(c)],
  capacity <- [c \in Names |-> Room[Len(Children(c))]],
  place    <- [c \in Names |-> Index(c)],
  fresh    <- (Classes \ {"Object"}) \ Stale,
  level    <- depth,
  pc       <- walk

Spoken(tok) ==
  CASE tok.ty = "Keyword"    -> Reserved[tok.data]
    [] tok.ty = "Identifier" -> "name"
    [] tok.ty \in { "BraceOpen", "BraceClose", "CmdEnd", "End" } -> tok.ty
    [] OTHER -> "Number"
-----------------------------------------------------------------------------
(* ConsoleApplication *)

\* Slip: values that are kept when an option is given again.
PutKept(params, name, values) ==
  IF values = <<>> /\ name \in DOMAIN params THEN params
  ELSE [p \in DOMAIN params \cup {name} |-> IF p = name THEN values ELSE params[p]]

\* parameters[name] = values
Put(params, name, values) ==
  [p \in DOMAIN params \cup {name} |-> IF p = name THEN values ELSE params[p]]

Values(params, name) == IF name \in DOMAIN params THEN params[name] ELSE <<>>

\* One turn of the loop over argv.  param_name is argv[1] before the first, an
\* option or not, of which only Log() complains.
ReadArgument ==
  /\ driver = "main"
  /\ turn <= Len(args)
  /\ param_name' = IF args[turn].dash THEN args[turn].text ELSE param_name
  /\ parameters' = Put(parameters, param_name',
                       IF args[turn].dash THEN <<>>
                       ELSE Append(Values(parameters, param_name'), args[turn].text))
  /\ turn' = turn + 1
  /\ UNCHANGED <<lexer, parser, args, driver, walker, asked>>

\* getParameterValues("i")[0]: at() throws, [0] of an empty vector is undefined.
InputFile ==
  IF "i" \notin DOMAIN parameters THEN "out_of_range"
  ELSE IF parameters["i"] = <<>> THEN "undefined" ELSE parameters["i"][1]

\* Past the loop, in programme().
Programme == driver = "main" /\ turn > Len(args)
-----------------------------------------------------------------------------
(* main() *)

\* The source is the text of the file.
CInit ==
  /\ Init
  /\ args \in CommandLine[source]
  /\ turn = 1
  /\ param_name = IF args = <<>> THEN "" ELSE args[1].text
  /\ parameters = [p \in {} |-> <<>>]
  /\ driver = "main"
  /\ target = nullptr /\ cursor = nullptr /\ node = nullptr
  /\ depth = 0 /\ visited = {} /\ walk = "idle"
  /\ asked = FALSE
  /\ P!Init

\* std::out_of_range is not caught: catch(int i) is for the errors of the compiler.
OutOfRange ==
  /\ Programme
  /\ InputFile = "out_of_range"
  /\ driver' = "terminated"
  /\ UNCHANGED <<lexer, parser, app, walker, asked>>

NoValue ==
  /\ Programme
  /\ InputFile = "undefined"
  /\ driver' = "undefined"
  /\ UNCHANGED <<lexer, parser, app, walker, asked>>

\* logError("File not founded")
NotFound ==
  /\ Programme
  /\ InputFile \notin Files \cup { "out_of_range", "undefined" }
  /\ driver' = "refused"
  /\ UNCHANGED <<lexer, parser, app, walker, asked>>

Open ==
  /\ Programme
  /\ InputFile \in Files
  /\ driver' = "generateMetadata"
  /\ UNCHANGED <<lexer, parser, app, walker, asked>>
-----------------------------------------------------------------------------
(* generateMetadata() and GetNextToken() *)

\* The places of the parser at which it calls moveNext().
Wants ==
  \/ place \in { "start", "functionBody", "import" }
  \/ place = "modifiers" /\ held \in P!Modifier \cup { "namespace", "entrypoint", "import" }
  \/ place = "namespaceName" /\ held = "name"
  \/ place = "namespaceOpen" /\ held = "BraceOpen"
  \/ place = "namespaceLoop" /\ held # "BraceClose"

Call ==
  /\ driver = "generateMetadata" /\ ~ asked
  /\ Wants
  /\ GetNextToken
  /\ asked' = TRUE
  /\ UNCHANGED <<parser, app, driver, walker>>

\* A step of the lexer within the call.
Lex ==
  /\ asked /\ pc # "returned"
  /\ Next
  /\ UNCHANGED <<parser, app, driver, walker, asked>>

\* token = lexer->GetNextToken(), and what the parser does with it.
Take ==
  /\ asked /\ pc = "returned"
  /\ asked' = FALSE
  /\ held' = Spoken(token)
  /\ \/ P!Start \/ P!ReadModifier \/ P!ParseNamespace \/ P!NamespaceName
     \/ P!NamespaceOpen \/ P!NamespaceEnd \/ P!ParseEntrypoint
     \/ P!ReadBody \/ P!BodySpins \/ P!ParseImport \/ P!SkipImport
  /\ UNCHANGED <<lexer, app, driver, walker>>

\* A step of the parser that reads nothing.
Parse ==
  /\ driver = "generateMetadata" /\ ~ asked
  /\ \/ P!Top \/ P!UnexpectedToken \/ P!ParseClass
     \/ P!NamespaceError \/ P!NamespaceBody
     \/ P!EntrypointOpen \/ P!EntrypointError
  /\ UNCHANGED <<lexer, app, driver, walker, asked>>

\* Type::getInstance(&metadata, Type::Object): find("object").
Find ==
  /\ driver = "generateMetadata" /\ place = "parseClass"
  /\ target' = "object"
  /\ Built!Find
  /\ UNCHANGED <<lexer, parser, app, driver, asked>>

\* A step of find(), or of the loop of codeGen(): its body makes the LLVM type of
\* a class, which has no members.
Walk ==
  /\ driver \in { "generateMetadata", "codeGen" }
  /\ Built!Step
  /\ UNCHANGED <<lexer, parser, app, driver, asked>>

\* The walk ends at an iterator that is invalid, before it could miss the name.
Unfound ==
  /\ driver = "generateMetadata" /\ walk = "undefined"
  /\ P!GetObject
  /\ UNCHANGED <<lexer, app, driver, walker, asked>>

\* catch(int i): logError() has thrown -1.
Caught ==
  /\ driver = "generateMetadata" /\ place = "error"
  /\ driver' = "refused"
  /\ UNCHANGED <<lexer, parser, app, walker, asked>>

Undefined ==
  /\ driver = "generateMetadata"
  /\ \/ place = "undefined" \/ pc = "undefined"
  /\ driver' = "undefined"
  /\ UNCHANGED <<lexer, parser, app, walker, asked>>
-----------------------------------------------------------------------------
(* codeGen() *)

\* for (p = root; p != nullptr; p = p->getNext()): nothing is looked for.
CodeGen ==
  /\ driver = "generateMetadata" /\ place = "done"
  /\ driver' = "codeGen"
  /\ cursor' = "Object"
  /\ walk' = "search"
  /\ UNCHANGED <<lexer, parser, app, asked, target, node, depth, visited>>

\* After the loop main() would dump the tree and read the tokens that are left;
\* getNext() uses an iterator that has become invalid before that.
Generated ==
  /\ driver = "codeGen" /\ walk \in { "null", "undefined" }
  /\ driver' = IF walk = "null" THEN "generated" ELSE "undefined"
  /\ UNCHANGED <<lexer, parser, app, walker, asked>>

CNext ==
  \/ ReadArgument \/ OutOfRange \/ NoValue \/ NotFound \/ Open
  \/ Call \/ Lex \/ Take \/ Parse
  \/ Find \/ Walk \/ Unfound \/ Caught \/ Undefined
  \/ CodeGen \/ Generated

CSpec == CInit /\ [][CNext]_cvars

\* One thread, which waits for nothing.
CFairSpec == CSpec /\ WF_cvars(CNext)
-----------------------------------------------------------------------------
(* The programs the parser takes, as a grammar *)

\* How often tok occurs among the tokens of s from the a-th to the b-th.
Count(tok, s, a, b) == Cardinality({ i \in a..b : s[i] = tok })

\* The b-th token is inside of what the a-th opens.
Inside(s, a, b) == Count("BraceOpen", s, a, b) > Count("BraceClose", s, a, b)

Block(s, a, b) ==
  /\ a <= b
  /\ s[a] = "BraceOpen"
  /\ Count("BraceOpen", s, a, b) = Count("BraceClose", s, a, b)
  /\ \A n \in a..b - 1 : Inside(s, a, n)

Modifiers(s, m, k) == \A i \in m + 1..k : s[i] \in P!Modifier

\* A declaration without its modifiers, after the k-th token up to the n-th.  A
\* namespace is what parseNamespace() makes of it: a name, a brace, and one token
\* that is not a closing brace.
Unmodified(s, k, n) ==
  \/ /\ s[k + 1] = "import" /\ n > k + 1 /\ s[n] = "CmdEnd"
     /\ \A i \in k + 2..n - 1 : s[i] # "CmdEnd"
  \/ s[k + 1] = "entrypoint" /\ Block(s, k + 2, n)
  \/ /\ s[k + 1] = "namespace" /\ n = k + 4
     /\ s[k + 2] = "name" /\ s[k + 3] = "BraceOpen" /\ s[n] # "BraceClose"

\* A beginning of one, more of which may follow.
Begun(s, k, n) ==
  \/ n = k
  \/ n > k /\ s[k + 1] = "import" /\ \A i \in k + 2..n : s[i] # "CmdEnd"
  \/ n > k /\ s[k + 1] = "entrypoint" /\ \A i \in k + 2..n : Inside(s, k + 2, i)
  \/ /\ n \in k + 1..k + 3 /\ s[k + 1] = "namespace"
     /\ n >= k + 2 => s[k + 2] = "name"
     /\ n = k + 3 => s[k + 3] = "BraceOpen"
  \/ n = k + 1 /\ s[n] = "class"

\* The tokens of s after the m-th up to the n-th are a declaration, or begin one.
Declaration(s, m, n) == \E k \in m..n - 1 : Modifiers(s, m, k) /\ Unmodified(s, k, n)

Beginning(s, m, n) == \E k \in m..n : Modifiers(s, m, k) /\ Begun(s, k, n)

\* After how many tokens of s a declaration may end: s can be cut there, and before
\* so that there is a declaration before each cut.
Ends(s) ==
  { n \in 0..Len(s) :
      \E cuts \in SUBSET (0..n) :
        /\ {0, n} \subseteq cuts
        /\ \A c \in cuts \ {0} : \E m \in cuts : m < c /\ Declaration(s, m, c) }

\* The tokens are a beginning of a program, more of which may follow.
Viable(s) == \E m \in Ends(s) : Beginning(s, m, Len(s))

\* Declarations and End, which a namespace may have taken as its token.
Program(s) ==
  /\ Len(s) > 0 /\ s[Len(s)] = "End"
  /\ \E n \in { Len(s) - 1, Len(s) } : n \in Ends(s)
-----------------------------------------------------------------------------
(* Properties *)

\* The first value after the last -i, or what there is in its place.
FileOf(argv) ==
  LET options == { k \in 1..Len(argv) : argv[k] = [dash |-> TRUE, text |-> "i"] }
      k == IF options = {} THEN 0 ELSE CHOOSE m \in options : \A n \in options : n <= m
  IN IF k < Len(argv) /\ ~ argv[k + 1].dash /\ (k > 0 \/ argv[1].text = "i")
       THEN argv[k + 1].text
     ELSE IF k > 0 THEN "undefined" ELSE "out_of_range"

AllHeard == [i \in 1..Len(out) |-> Spoken(out[i])]

\* How a run ends follows from the command line and the text of the file: it is
\* refused when the file is not there, or when the tokens read are no program and
\* none begins with them; classes are generated when the tokens are a program, but
\* never all of them; nothing else ends it but a missing -i, a class, or an open
\* string (main.cpp:10-37, ConsoleApplication.hpp:16-32, CompilerModule.hpp:33-93).
Outcome ==
  LET file == FileOf(args)
  IN CASE driver = "terminated" -> file = "out_of_range"
       [] driver = "refused"    -> \/ file \notin Files \cup { "out_of_range", "undefined" }
                                   \/ file \in Files /\ ~ Viable(AllHeard) /\ ~ Program(AllHeard)
       [] driver = "undefined"  -> \/ file = "undefined"
                                   \/ place = "undefined" /\ held = "class" /\ Viable(AllHeard)
                                   \/ pc = "undefined" /\ (Occurs(Quote) \/ Occurs("/"))
                                   \/ place = "done" /\ walk = "undefined" /\ Program(AllHeard)
       [] driver = "codeGen"    -> Program(AllHeard)
       [] OTHER -> driver \in { "main", "generateMetadata" }

\* Every run ends, unless the source ends inside a body, an import or a comment.
Exits ==
  <>(\/ driver \in { "terminated", "refused", "undefined" }
     \/ P!Unbalanced \/ P!Unclosed
     \/ Spinning /\ Occurs("/"))
=============================================================================
