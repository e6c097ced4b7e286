# A verification model of the Vacuum compiler front end

This directory models the compiler of the Vacuum language (`src/src/`) in TLA+. TLC checks the
models on small instances; TLAPS proves the main safety properties for every instance. Paths are
written with the repository at `src/`, and `Lexer.hpp:44` is short for `src/src/Lexer.hpp:44`.

The repository has 1849 files, of which 1800 are LLVM headers (`src/include`). The program itself is
19 files in `src/src`, about 2900 lines of C++, nearly all of it in headers. It does not compile as a
whole at this commit (`Parser.hpp:79-80` is unfinished), but the lexer, the declaration parser and the
containers they use are complete, and behaviours of the lexer and of `Tree` described below were
compared with what the code of those classes does when compiled on its own.

## 1. Inventory

### How a compilation runs

`main.cpp` opens the source as a stream, makes a `Lexer` over it and a `CompilerModule` over the
lexer, and calls `generateMetadata()`. That pulls tokens from the lexer one at a time, keeps the
current namespace in a `Location`, defines classes in the class tree of `Metadata`, and stores the
tokens of each function body in a `TokenBufferStream`. `Parser` is meant to read those buffers later
and to build the syntax tree of `AST.hpp` in the scopes of `Enviroment`, from which LLVM code is
generated. Everything runs on one thread; components call each other directly. An error is an
exception that ends the program. Nothing is persisted.

So the hard behaviours are not races. They are protocols: what a component leaves in shared state
between two calls (the shift register, the current location, a stored iterator), loops that must end,
fixed capacities, and what happens where the input stops.

### Components

| component | state | operations | used by | correct when | here |
|---|---|---|---|---|---|
| Lexer (`Lexer.hpp`) | streams, read position, shift register of 255 characters, `current`, `token` | `GetNextToken`, `moveNext`, `pop`, `clearBuffer`, `skipSpaces`, `skipUntil` | declaration parser | each character belongs to one token, in order; `End` is last and comes | `Lexer`, `LexerHistory`, `CharFifo` |
| Tokens (`Tokens.hpp`) | type and pointer to a payload | `setData`, assignment, copy | all | a token reads the same wherever it has been copied to, and no payload is freed while another token uses it | `Tokens`, `TokenValues` |
| Keywords (`Keyword.hpp`) | constant table | `TryParse`, `isModifier`, ... | lexer, parser | whole words only; table agrees with the enumeration | `TableLookup`, `KeywordTable`; the tests in `CompilerModule` |
| Operators (`Operators.hpp`) | constant tables | `TryParse`, `GetLen`, `GetPriority` | lexer, code parser | longest match; table agrees with the enumeration; binary operators bind as expressions expect | `TableLookup`, `OperatorTable`; used in `Lexer` |
| Declaration parser (`CompilerModule.hpp`) | `token`, `currentLocation`, modifiers, body | `generateMetadata`, `parsePrimary`, `parseNamespace`, `parseFunctionBody`, ... | driver | location restored, bodies balanced, parsing ends | `CompilerModule` |
| Location (`Location.hpp`) | path of names | push, pop, spell | declaration parser, types | names of a path are distinct for distinct paths | push/pop in `CompilerModule` |
| Class tree (`Util.hpp`) | nodes, child vectors, stored iterators | `addChild`, `removeChild`, `getNext`, `find` | metadata | iterators designate their node; `find` finds | `Tree` |
| Metadata (`Metadata.hpp`) | tree of built-in classes | constructor, lookup | types, driver | the built-in classes can be walked and found | `Metadata`, used in `Compiler` |
| Token buffer (`TokenBufferStream.hpp`) | vector and iterator | `push`, `pop`, `getCurrToken`, `moveNext`, copy | parsers | what was pushed is read back in order, then `End` | `Tokens`; `push` in `CompilerModule` |
| Types and members (`Types.hpp`) | type, members, LLVM type, body of a function | `getLlvmType`, `getFieldIndex`, `setBody`, `getInstance` | parsers, code generation | each class is laid out once; the index of a field is that of its element | `ClassLayout`, `Tokens` (`setBody`), lookup in `Compiler` |
| Class factory (`ClassFactory.hpp`) | LLVM struct types | `getClassLlvmType`, `getClassSize` | types | a struct is complete when nobody works on it | `ClassLayout` |
| Environment (`Enviroment.hpp`) | stack of scopes, parameters, class and object | `beginScope`, `endScope`, `addLocal`, `addParam`, `setSelfContext`, `findVar` | AST | lexical scoping | `Enviroment`, `LexicalScoping` |
| AST (`AST.hpp`) | nodes owning scopes | `codegen` | code parser | ownership, conversions | not modelled; not reached |
| Code parser (`Parser.hpp`) | token, environment | `parseExpression` | nobody | precedence respected | not modelled; does not compile |
| Driver (`main.cpp`, `ConsoleApplication.hpp`) | options | `main` | user | the run ends as the command line and the text demand | `Compiler` |

Vendored LLVM, samples in the language (`src/vacuum`), the editor grammar (`src/vacuumlang`) and build
scripts are not modelled; the grammar is used as documentation of comments and strings.

`PROJECT.json` lists the hazards with their lines. The most telling:

* `GetNextToken()` decides from the *oldest* buffered character and the *last* one read; any branch
  that pops or clears one too many shifts all later tokens (`Lexer.hpp:44-148`).
* The character that ends a word is read too far, may be dropped from the register, and survives in
  `current` only (`Lexer.hpp:60, 72, 196-199`).
* A run of symbols longer than the register drops its oldest characters (`Lexer.hpp:172`).
* `skipUntil`, `parseFunctionBody` and `import` loop with no test for the end of the source.
* `currentLocation` names everything, is pushed before the braces are checked and popped after them.
* Each tree node stores an iterator into a vector that grows and erases (`Util.hpp:60-76`), which is
  why no loop over the built-in classes gets past the third of them (`Metadata.hpp:15-30`).
* A token is copied with `memcpy()` and freed by assignment only (`Tokens.hpp:115-124`): whether a copy
  can still be read depends on what everybody else has assigned since.
* The LLVM type of a class is published before it is complete (`ClassFactory.hpp:58`).

## 2. The models

### Lexer

`Lexer` keeps the source as a sequence of streams, each a sequence of characters, and the C++ state as
it is: `stream`/`pos` (the list of streams), `buffer` (the shift register without its NULs, newest
last), `current`, `token` (a record `ty`, `data`), plus `out`, the tokens returned up to the first End, and
`pc`, the place in `GetNextToken()`. A step is one turn of a loop or one straight piece of code; a
piece is an action with the branch conditions of the code as guard. The register has `Capacity`
places (255 in the code), `moveNext()` shifts the oldest out when it is full, reads the next stream
once if one ended, and pushes `EOF` like a character if that one is empty. Characters are abstracted to
classes that the code tells apart (`Letter`, `Digit`, `Blank`, `Symbol`, quote, `EOF`, `NUL`);
keywords and operators are constant sets of spellings. The value of a payload is kept because `token =
Token::CmdEnd` keeps it in the code.

`pc = "undefined"` is the read through `streams.end()` after an unterminated string: nothing follows.
`Spinning` is `skipUntil()` at the end of the input.

Definitions marked *Slip* are single plausible mistakes (a pop forgotten, a guard dropped). They are
unused by the specifications; each is what one property must be able to notice.

`LexerHistory` adds three observers (`seen`, `spelled`, `lost`) and states that nothing is lost,
repeated or reordered. `CharFifo` is the abstract specification: a queue of characters out of which
tokens take prefixes and which may lose its oldest element only beyond a bound. `FifoSpec` is the
refinement, with `queue <- Held`, the characters read and not yet spelled at each place of the code.
It assumes sources in which a character belongs to one token only (`CleanAssumption`): no comments, no
`_` or `.`, which the code counts both as part of words and as operators, no empty streams, every
other symbol in a table, and a register of at least two places.

### Declaration parser

`CompilerModule` models `generateMetadata()` and everything reachable from it. The lexer is a source of
arbitrary tokens from `Vocabulary`, at most `MaxTokens` of them, then `End` for ever. `pc` is the place
in the code; `nesting` counts the running `parseNamespace()` calls that have called `parsePrimary()`,
so it is the part of the call stack that matters. `location`, `body` and `level` are the C++ variables;
`written` records the modifiers of a declaration.

`parseClass()` begins with `Type::getInstance(&metadata, Type::Object)`, which searches "object" where
the root is called "Object". The search uses an invalid iterator at the third class; were that
repaired, it would end with null, and `Types.hpp:439-440` writes through null. The model ends in
`undefined` there. `parseMember()` and everything below `parseClass()` is therefore not reachable in
this commit.

### Tokens and their streams

`Tokens` keeps the heap: `heap[b]` is the payload at address `b`, or free. The lexer makes payloads with
`new` (`GetNextToken`, `SetData`), an assignment frees the payload of its target and copies the other's (`Take`), a
stream that grows copies, `Function::setBody()` copies token after token and then the iterator as it is
(`CopyToken`, `CopyIterator`). `memcpy()` copies a `String` with the pointer to its characters: the field `text`
of a payload is the block that owns them. Only `Token::copy()` frees, and there is no destructor, so what
is left behind leaks; that is exactly what keeps the copies readable. Reading through a pointer to freed memory
gives `"garbage"`, reading past a vector or through an iterator that points nowhere gives `Undefined`. The
temporaries of one expression are left out (they are made and leaked in it, with the contents of the copy kept).

`TokenValues` is the abstract specification, in which a token is a value and `setBody()` one step.
`ValuesSpec` is the refinement. What the code does not promise is in the abstract specification too: the copy
of a stream never says `End`, and a stream says it once.

### LLVM types

`ClassLayout` models `getLlvmType()` and `getClassLlvmType()` as they call each other: `stack` is the list of calls
with the loop counter and the vector `fields` of each, `llvm_type` and `body` are what has been published. The
members of the classes are arbitrary (`Lists`), as `createDefinition()` takes them. `Char` has no case in
`getLlvmType()` and ends the layout of every class that is waiting (`UnknownType`). `isNativeP` is not set by
any constructor, so the model takes both values. `getFieldIndex()` is an operator beside it.

### The compiler

`Compiler` extends `Lexer` and has `CompilerModule` as the instance `P`: `main()` reads the command line (`ReadArgument` is one turn of the
loop over `argv`, with the map of parameters as the code overwrites it), opens the file or not, and calls `generateMetadata()`. Where `CompilerModule` takes an arbitrary token, the
parser here calls the lexer (`Call`), waits for it (`Lex`, any step of `Lexer`), and takes the token returned together with its own step
(`Take`); steps that read nothing are `Parse`. `Spoken` translates a token: keywords by the table `Reserved`,
every identifier to one name, and what the parser never tests to one other token. After the parser, `codeGen()` goes over
the classes. `Metadata` is their tree as the constructor leaves it, computed from the order of the insertions and the growth of the
vector; nothing that can be reached adds to it. Both the loop of `codeGen()` and the `find()` of an unknown class (`Find`) walk
it by the actions of `Tree` over that constant tree (`Walk`, which is `Built!Step`). `getNext()` at `bool`
uses an iterator that became invalid when `sbyte` was added, so no run gets beyond; the lines after `codeGen()` in
`main()` (the dump and the loop that prints the tokens left) are not in the model. An exception of `logError()` is
`refused` (the exit status is -1), one that `main()` does not catch is `terminated`.

### Class tree

`Tree` models `Tree<T>`: parents, child vectors with their capacity (which decides when iterators
dangle), the stored iterator as `place` plus membership in `fresh`, and `find()` with the loops of
`getNext()` turn by turn: `Match` is the test of `find()`; `Climb` one level up while the node is a last child, `level` counting;
`Descend` one level down along first children; `NextSibling`, `NextOfRoot`, `Arrive` and `NoChildren` are the four ways in
which `getNext()` returns. `find()` is called for any data, also data that no node of the tree has. A use of a dangling iterator, of `front()` of an empty vector, or `node++` on a pointer to a
single node leads to `undefined`. Removed nodes keep their fields, as in the code. `children`
vectors double their capacity, as the common standard libraries do.

### Tables

`Operator::TryParse()` and `Keyword::TryParse()` are the same loop over two tables, so `TableLookup` models it
once, for a table and an attitude to prefixes (`Strict`) for each `Kind`. One step is one turn of the loop.
`OperatorTable` and `KeywordTable` are the tables, the enumerations and what is computed from them; the strings
are sequences of symbols, and keywords are divided only where one begins with another (`native`, `native_p`).
What comes of the index found is `EnumAt`, the cast into the enumeration; `OwnSpelling` compares it with a list
of how each operator is written that follows neither the table nor the enumeration.
`MCTables` looks both tables up. `Lexer` uses the result of the lookup, the longest spelling, as an operator.

### Environment

`Enviroment` keeps the C++ state: the stack of maps, the map of parameters, the class and the object. A map is a
function which is `None` where it has no entry. `findVar()` is modelled turn by turn; `at()` that throws is the
guard of the next branch. `back()` or `pop_back()` on an empty stack, and reading `self_context` before it is
set where the environment is not created zeroed, lead to `undefined`. Loading a field needs the LLVM type of the class;
where `getLlvmType()` has none, its `logError()` throws an `int` that `findVar()` does not catch, and the compiler ends
(`UnknownType`). Which classes those are, `ClassLayout` says; here they are the constant `Unlaid`. `LexicalScoping` is the abstract
specification. It knows no search: each block carries what it sees, entering a block copies that, leaving it
brings back the previous one. The refinement maps the k-th block to what the innermost of the first k maps
binds (`Bound`), and the object to none in a static class, although `setSelfContext()` keeps the old pointer.
At this commit only `addParam()` and `findVar()` have callers (`AST.hpp:210, 377`), so the model calls the operations
in any order.

### Checks

| run | question | instance | distinct states |
|---|---|---|---|
| `lexer` | shape of the register, whole operator runs, nothing after `End`, termination | every text to 4 characters over 10, to 6 over those of comments and strings, two and three streams | 685 000 |
| `lexer_history` | nothing lost; inductive invariant; refinement of `CharFifo` | every text to 5 over 7 characters, and pairs of streams to 2 | 391 000 |
| `parser` | balanced bodies, location restored, inductive invariant, parsing ends | every sequence of up to 7 of 10 tokens | 253 000 |
| `tree` | valid iterators, order of the walk, meaning of null, termination | up to 5 nodes, 2 removals, searches for each of them, allocated or not | 150 000 |
| `tables` | longest match, whole keywords, each operator and keyword parsed as its own enumerator, binary operators bind | every string to 3 of 19 symbols, every word of 2 of the 30 parts of keywords, every keyword | 334 000 |
| `tokens` | no payload freed under a token, nothing freed that is shared, refinement of token values | 4 blocks, 2 values, 2 holders, streams of 2 (symmetric) | 386 000 |
| `types` | laid out once, opaque only while somebody works on it or after an error, complete otherwise, indices agree, layout ends | 3 classes, 2 names, 8 lists of members, any order of requests | 169 000 |
| `compiler` | how a run ends, and that it ends | every source of up to 5 words of 7, bodies to 6, namespaces to 5, texts to 3 of 8 characters; every command line to 4 arguments | 389 000 |
| `scopes` | the walk of `findVar()`, refinement of lexical scoping | 3 scopes, 2 names, 2 values (symmetric), a class, a static one, one without an LLVM type | 707 000 |
| `comment_line`, `namespace_end`, `visibility` | what a comment or doc claims and the code does not do | as above | stop at the violation |

Why the bounds suffice. *Lexer*: the register has three places, so that a run of four symbols
overflows it; the longest operator is two symbols, a keyword two letters, so a run of symbols contains
an operator, a rest, and a symbol that starts the next; every branch of `GetNextToken()` fires and every
pair of consecutive tokens of the chosen classes occurs. *Parser*: seven tokens hold a namespace, a nested brace,
a body with a brace inside, and an import; braces of a body nest to depth three. *Tree*: five nodes
make vectors grow at sizes 1, 2 and 4, so that iterators dangle with and without a removal, and a third
level exists. *Tables*: the longest operator has three symbols, and no keyword has more than three parts, so
every table entry, every prefix of one and every entry with something after it is looked up. *Scopes*: a name can be
bound at three levels, as a parameter and as a field at once; `NextLevel` can pass one level between two others.
*Tokens*: with four blocks two holders, the lexer and two tokens of a stream have payloads at once only by reusing what
has been freed, and every read of a stream to two places past its end occurs. *Types*: three classes reach each
other in a cycle of three, two of them in a cycle of their own, and each itself, with members before, between and
after the fields, and two fields of one name. *Compiler*: five words hold a body with a nested brace, a namespace and what follows it, an
import and a declaration after it; four arguments hold an option given twice, each time with a value. Deadlock is not checked anywhere because each system stops: the lexer after `End` (or in
undefined behaviour), the parser in `done`, `error` or `undefined`, the tree and the
environment in `undefined`, a lookup when it returns, the tokens when a stream has been read past its end, the types when
every one has been asked for, the compiler when it exits.

Fairness. There is one thread, which waits for nothing, so `WF_vars(Next)` for the lexer, the
parser and the compiler. The tree is only called: additions and removals need not happen, a `find()` that has begun
goes on: `WF_vars(Step)`. Types are only asked for, too: `WF_vars(Work)` covers a call
that has begun and leaves out `Ask`.

Liveness holds with its true exceptions named in the property: `Terminates` excludes the states of
`Spinning` and `undefined`; `Settles` excludes a source that ends inside a body or import, and `Exits` both.

`Outcome` says how a run of the compiler ends by a reference for each of its two inputs. `FileOf` is the first value after the last `-i`; the
code gets there by a map that it overwrites. `Declaration` is the grammar of the declarations as the parser takes them, stated by positions in
the tokens instead of by recursion: a body is a block whose braces are counted, and `Ends` are the places at which the tokens can be cut
so that a declaration stands before each cut. `Program` (cut before or after the last token, which is End) and `Viable` (what follows a cut begins a
declaration) are defined from it. `Outcome` says that classes are generated only for a program, that a file is refused only when its
tokens are neither a program nor the beginning of one, and that a class is met only where one may stand. The command lines are a function of the source
(`CommandLine`) only to keep the instance small: every command line meets one source, and every source one command line that opens the file.

### Where the code and its comments disagree

* `comment_line`: after `//` followed at once by a blank or the end of the line the slashes stay in the
  register and comment out the next line as well. `clearBuffer()` does nothing when the register
  holds only symbols.
* `namespace_end`: the loop in `parseNamespace()` has its condition inverted; the first token of the body
  ends the namespace and is skipped "as '}'". As a consequence a nested `parsePrimary()` is
  only ever called on a closing brace, which it refuses.
* `visibility`: `addModifier()` never stores a modifier, so several visibilities are accepted.

Seen while modelling, without a document that contradicts them: the table of keywords lists `constuctor`,
`destuctor`, `var` where the enumeration has `Var`, `Constructor`, `Destructor`, and `native_pp` has no
enumerator (the declaration parser tests none of them, which is what `ParserKeywords` shows); `/=` has a binary form
but no case in `GetPriority()`, whose default is the negated enumerator, so that it binds weaker than any expression asks
for (`BinaryBinds` says that it is the only one); a string left open takes the end of the file into its payload and then reads through
`streams.end()`; `find()` goes level by level along first children and gives up at a level whose first node has none, which is
reached only after a removal, since the walk runs into an invalid iterator first otherwise
(`NullMeansAbsent`); a field of type `Char` ends every layout; `1.;` gives a number and a spurious
`Dot`; `a_;b` loses tokens; a symbol outside the tables is returned twice as `Unknown`;
operators combine across blanks when a punctuation is pending (`;= =` gives `==`); an empty second stream
puts an `EOF` into the register and ends lexing early; a comment in the last line leaves `Div` tokens.
The dot after a number, `a_;b` and the comment in the last line are why `CleanAssumption` is needed.

## 3. Proofs

Checked by TLAPS, for every value of the constants (eight modules; `PROJECT.json` lists the 46 results a reader should know of):

* `CompilerProofs`, the lexer: `TypeCorrect`: `Spec => []TypeOK`. One step per action; the register stays within `Capacity`
  and no stream is read past its end. For *every* source, comments and empty streams included. Under the same
  assumptions: `ReadAheadCorrect`, from the invariant `ReadAheadInv` that follows the register through the loops (it is
  strengthened by `NoBlanks`: a blank is never stored, so the character that `SkipSpaces` replaces is not in the register);
  `RunCompleteCorrect`, which is inductive as it stands; and `EndIsFinalCorrect`, from `EndInv`: at End nothing in the
  register can be matched (`NothingLeft`), the stream is used up (`AtEnd`), and no other return gives a token the type
  `End` (`LoopTypes`). What is left open by it is whether a call returns at all: one made after End may take leftover
  slashes for a comment. `ReadsInsideCorrect` shows that only the end of a string and `skipUntil()` can go through
  `streams.end()`: past the last stream `current` is `EOF`, at which every loop that looks at it ends (`PastEndInv`).
  `UndefinedCorrect` adds that the source then has a quote or a slash (`KnownInv`: the lexer has only come upon characters of the source).
* `CompilerProofs`, the whole compiler. First the two parts: `CompilerImplementsLexer` (`CSpec => Spec`) and
  `CompilerImplementsParser` (`CSpec => P!Spec`), so that what is proved of the lexer and of the declaration parser alone holds of them
  in the compiler (of the parser by instantiating its theorems, which `tlapm` cannot cite through `INSTANCE`; hence no theorem says so). Then `OutcomeCorrect`: `CSpec => []Outcome`, for all files, tables, keywords and command lines, from `CompilerInvariant`.
  Besides what it keeps of the lexer (`TypeOK`, `LoopTypes`, `KeywordTokens`, `KnownInv`), `CompilerInv` has four parts:
  * *The tokens* (`CallInv`, `ReadInv`). `Read` are the tokens handed over, which lag one behind `out` while a call returns. `Parsing` relates them to the place of the
    parser: they are declarations up to the c-th, modifiers up to the k-th, and from there what `Partial` says for each place (in a
    body, every prefix has more opening than closing braces, and `level` is the difference). The grammar is not deterministic on its face, since
    `Ends` allows any cuts; that the parser is right to commit to one start rests on `OneEnd` (at most one declaration begins at a token), `Apart` (none begins
    a longer one) and `OneStart`, from which `CurrentStart`: from every other cut a declaration leads on, so that only the
    last can go on. Where the parser gives up (`ErrorParsing`), what it holds neither ends nor continues that one, so nothing does (`StartStuck`).
  * *The command line* (`ArgumentInv`). After each turn, `ValuesOfI` says what is under `i` in terms of the last `-i` so far (the k-th argument): it is
    there, its first value is the argument after it, or there is none. `FileFound` is the result for the whole of `argv`.
  * *The walk of* `codeGen()` (`StepsInv`). `Room` follows the capacity of the vector of children to 16, so the iterator of `bool` is stale
    (`FirstLeafDangles`), and a walk from the root gets to `bool` and no further (`Walking`).
  * *The driver* (`DriverInv`), which the other three determine.
* `LexerHistoryProofs`, which extends `CompilerProofs` for the types of the lexer: `HistoryInvariant` proves
  `HSpec => []HistoryInv`. `Lossless` is not inductive: what the
  code does next depends on where in the register a symbol may stand. `Shape` says so for each place of
  the code (`Queued` between words, `Collected` in a word, `Quoted` in a string). The lemma
  `StepEffect` classifies each action by what it does to `Held` (kept, a character taken, the oldest dropped
  by an overflow, a prefix spelled, or both), and `BalanceKept` derives `Lossless` from that effect alone; `FifoStep`
  derives from the same effect that the step is one of `CharFifo`. The results: `LosslessCorrect`,
  `AllSpelledCorrect`, and the refinement `FifoCorrect`: `HSpec => FifoSpec`.
* `CompilerModuleProofs`: `ParserInvariant` proves `Spec => []ParserInv`, the conjunction of the types,
  `LocationInv` (a namespace is on the location exactly while its braces are read, and a nested call
  stands before a closing brace) and `BodyInv` (`level` is the number of open braces of the tokens captured so
  far, and no proper prefix is balanced). From it `TypeCorrect`, `BodyCorrect` and `LocationCorrect`.
* `TreeProofs`: `FreshIteratorsCorrect`: `Spec => []FreshIterators`, by the types of the tree and the effect of
  `addChild()` and `removeChild()` on each surviving iterator. `TreeTypesCorrect` adds the types of the search. The order of the
  walk and the meaning of null are `DownwardWalkCorrect` and `NullMeansAbsentCorrect`, from `WalkInvariant`:
  `Spec => []Inv`. `Inv` says of the tree (`Shape`) that it has depths, that is, a function which is 0 at the root and grows by one
  from a node to its children, and that nobody is listed twice; an action that changes the tree gives a new such
  function (`Growth`). Of the walk it says that it is on the *spine*, the first child of the first child of the root and so
  on, or among the siblings of a node of it: whatever was passed is less deep than the cursor or an earlier
  sibling (`Walk`), and climbing by as many levels as `level` counts and going down again along first children arrives one level
  deeper (`Climbing`, `Descending`). That is why no node is met twice. Null is right without removals because a vector that
  has got a second child has grown and its first child's iterator dangles for good (`Growth`): a search that meets a node with
  two children ends in `undefined`, and one that reaches a level without children has passed the whole tree
  (`NoChildrenAbsent`).
* `TableLookupProofs`: `LookupInvariant` and `LongestMatchCorrect`: `Spec => []LongestMatch`, for every table
  without empty entries: after each turn the entry kept is the longest of those seen. From it, for the table of the
  keywords looked up strictly, `ExactWordCorrect` and `ParserKeywordsCorrect`, in which no two of the words tested are equal
  and all stand where table and enumeration agree. `OwnSpellingCorrect` does the same for the operators: the two lists name the same
  operators at the same places (`PlaceIs`) and no two are written alike (`WrittenApart`), so that the longest entry and the longest
  operator a string begins with are one. `BinaryBindsCorrect` is computed from the constant tables, entry by entry.
* `EnviromentProofs`: `WalkInvariant` (`findVar()` passes only levels without the name) and the refinement
  `ScopingCorrect`: `Spec => ScopingSpec`, for stacks of any depth. `Bound` chooses the last level that
  binds a name; that there is one follows from the well-foundedness of `<` (`LastLevel`), and from it that
  an empty map adds nothing (`BoundBelow`) and that `Bound` depends on the levels below only (`BoundSame`).

* `TokensProofs`: `OwnershipCorrect` proves `Spec => []OwnershipInv`. A payload is owned by one holder or by nobody who
  will ever assign again, and the characters of a payload belong to a block that no holder owns (`Owned`). The lemmas
  say what writing to a free block and freeing a holder's payload do to that; since an assignment frees before it
  copies, each action is the composition of the two. `NeverDangling` and `AlwaysExclusive` are its
  parts. `TokensAreValues` is the refinement `Spec => ValuesSpec`: what a token says depends on
  two blocks, which no step touches unless it is the holder's own.
* `ClassLayoutProofs`: `LayoutInvariant` proves `Spec => []LayoutInv`. `NoBadRecursion` rests on `OpaqueOnStack`: a class is asked for only while
  nobody has its struct, and whoever is on the stack has published one. `FramesInv` says what a call has pushed: as many elements as
  there are fields among the members passed (`Fields`, counted by cardinality: the lemmas `FieldsZero`, `FieldsStep`, `FieldsGrow`).
  From it `LayoutAgrees`; that there is a first field of a name follows from the well-foundedness of `<`
  (`FirstExists`). `RecursionCorrect`, `OpaqueCorrect`, `LeftOpaqueCorrect`, `ClosedCorrect` and `IndicesCorrect` are the results.

Why the components end is proved as far as it is safety. Each of these theorems is an action property, which says that a step
lessens a well-founded measure, or is one of the named exceptions of the liveness property:

| theorem | measure, in the order of its parts | exceptions |
|---|---|---|
| `CompilerProofs!LexerProgress` | what is left in the streams; the length of the register; the `Distance` to the next step that changes one of these | the call that says End; `Spinning` |
| `CompilerModuleProofs!ParserProgress` | what is left of the source; the `Distance` to the next token taken | `Unbalanced`, `Unclosed` |
| `TreeProofs!SearchProgress` | the nodes not passed; the loop of `getNext()`; in it the depth of the node, or the levels to descend | none |
| `ClassLayoutProofs!LayoutProgress` | the types nobody has asked for; the members left in the calls, the innermost first | the error |

They need the inductive invariants: a node is passed once (`DownwardWalk`), a namespace ends in `top` since no call is nested
there (`LocationInv`), a call that returns publishes nothing new (`FramesInv`). With the fairness assumed, and as long as some
action is possible, which the prover cannot speak of, they give the liveness that TLC checks on the instances. `DepthCorrect`
bounds the C++ stack that the recursion of `getClassLlvmType()` takes by the number of classes (from `NoBadRecursion`).

The assumptions are the named ones of the modules (`NameAssumption`, `NodeAssumption`, `CleanAssumption`, ...), which TLC
evaluates in the runs. `ParserInv` and `HistoryInv` are invariants of runs too, so that the proofs and the
checks speak of the same formulas.

Only model-checked: liveness itself (`Terminates`, `Settles`, `SearchEnds`, `Returns`, `Exits`), since fairness and ENABLED are
out of the prover's reach; of the first four the measures above are proved. Every other property of a passing run is a
theorem.

## 4. Not modelled

* `Parser.hpp` does not compile (lines 79-80), and `CompilerModule::codeGen()` names `codeParser` without calling it. As
  written, `parseScope()` and `parsePrimary()` call each other without taking a token, and `ParseBinOpRHS()` holds
  a reference to an operator inside a token that `GetNextToken()` replaces. `tryGetInstance()` is called from there only.
* `AST.hpp`: no node is ever built. `CastAST` uses a parameter after moving it, `FunctionAST` moves its body onto itself,
  `ScopeAST::codeGen()` returns null. The instructions are LLVM's.
* `parseMember()` and the functions below it: unreachable behind the lookup of "object".
* `getClassSize()` and `getByteSize()` serve printing. The test there ("Cycle definition is not allowed", `ClassFactory.hpp:45`)
  sees a field of the class's own type only: two classes with fields of each other's type would recurse for ever.
* The three spellings of a `Location` are formatting, and only that of the empty one is ever asked for.
* Opening and printing files, string conversion (`Util.hpp`, `stdafx.hpp`), the LLVM headers under `src/include`,
  the samples and the editor's grammar.

What is left to do depends on the code: when `parseClass()` works, `Metadata` grows with the program and `Compiler`
needs `Tree` with its variables, and `ClassLayout` its member lists from `parseMember()`; when `Parser.hpp` compiles, its
precedence climbing is to be checked against a grammar with the priorities of `OperatorTable`.

## 5. Running

    tlc -config lexer.cfg MCLexer.tla        # likewise for the other runs of PROJECT.json
    tlapm CompilerProofs.tla                 # two minutes, like LexerHistoryProofs; most others take seconds
