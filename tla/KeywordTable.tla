---------------------------- MODULE KeywordTable ----------------------------
(***************************************************************************)
(* The table of keywords and its enumeration (src/src/Keyword.hpp).  The   *)
(* words are divided only where one begins with another, as "native_p"     *)
(* with "native".                                                          *)
(***************************************************************************)
EXTENDS TableLookup

\* The entries of Constant::keywords.
Words == <<
  <<"native">>, <<"import">>, <<"entrypoint">>, <<"namespace">>, <<"class">>, <<"self">>,
  <<"super">>, <<"public">>, <<"private">>, <<"protected">>, <<"friend">>, <<"interface">>,
  <<"const", "uctor">>, <<"destuctor">>, <<"var">>, <<"as">>, <<"is">>, <<"get">>, <<"set">>,
  <<"null">>, <<"const">>, <<"static">>, <<"volatile">>, <<"ref">>, <<"sizeof">>, <<"addrof">>,
  <<"typeof">>, <<"unroll">>, <<"native", "_p">>, <<"native", "_p", "p">> >>

FirstEnum == <<
  "Native", "Import", "Entrypoint", "Namespace", "Class", "Self", "Super", "Public",
  "Private", "Protected", "Friend", "Interface" >>

RestEnum == <<
  "As", "Is", "Get", "Set", "Null", "Const", "Static", "Volatile", "Ref", "Sizeof",
  "Addrof", "Typeof", "Unroll", "NativePointer" >>

\* Slip: an enumerator forgotten.
KeywordEnumWithoutVar == FirstEnum \o <<"Constructor", "Destructor">> \o RestEnum

\* Keyword::Enum, from Native = 0.  Var, Constructor and Destructor do not stand in
\* the order of the table, and its last entry has no enumerator.
KeywordEnum == FirstEnum \o <<"Var", "Constructor", "Destructor">> \o RestEnum
-----------------------------------------------------------------------------
(* Properties *)

\* A word is a keyword when it is one whole: names that begin with a keyword, or
\* keywords that begin with another, are not cut (Keyword.hpp:148, Lexer.hpp:56).
ExactWord ==
  kind = "keyword" /\ pc = "returned" =>
    IF ty = 0 THEN \A n \in 1..Len(Words) : Words[n] # str ELSE Words[ty] = str

\* The enumerators that the declaration parser distinguishes.
Spelled == [
  Static |-> "static", Const |-> "const", Ref |-> "ref", Public |-> "public",
  Private |-> "private", Protected |-> "protected", Volatile |-> "volatile",
  Class |-> "class", Namespace |-> "namespace", Entrypoint |-> "entrypoint",
  Import |-> "import", Get |-> "get", Set |-> "set" ]

\* Although the table and the enumeration disagree about three words, each keyword
\* that the declaration parser distinguishes is recognised for its own word and no
\* other (Keyword.hpp:4-133, CompilerModule.hpp:69-85, 252-265).
ParserKeywords ==
  kind = "keyword" /\ pc = "returned" =>
    \A e \in DOMAIN Spelled :
      (ty \in 1..Len(KeywordEnum) /\ KeywordEnum[ty] = e) <=> str = <<Spelled[e]>>
=============================================================================
