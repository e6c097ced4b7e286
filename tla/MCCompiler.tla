----------------------------- MODULE MCCompiler -----------------------------
(* One letter for each keyword, sources made of few words, and every short   *)
(* command line.                                                             *)
EXTENDS Compiler
LOCAL SE == INSTANCE SequencesExt

MCReserved == [ w \in { <<"e">>, <<"n">>, <<"i">>, <<"p">>, <<"c">> } |->
                CASE w = <<"e">> -> "entrypoint" [] w = <<"n">> -> "namespace"
                  [] w = <<"i">> -> "import"     [] w = <<"p">> -> "public"
                  [] w = <<"c">> -> "class" ]
MCKeywords  == DOMAIN MCReserved
MCLetter    == { "a", "c", "e", "i", "n", "p" }
MCDigit     == { "1" }
MCBlank     == { "\n" }
MCSymbol    == { ";", "{", "}", "/", "." }
MCOperators == { <<"/">>, <<".">> }

\* Words of one character, with blanks between them or without.
Spaced(s) == [i \in 1..2 * Len(s) |-> IF i % 2 = 1 THEN s[(i + 1) \div 2] ELSE "\n"]

MCSources == { <<Spaced(s)>> : s \in SE!BoundedSeq({ "e", "n", "i", "a", ";", "{", "}" }, 5) }
        \cup { <<Spaced(<<"e", "{">> \o s)>> : s \in SE!BoundedSeq({ "p", "a", "{", "}" }, 4) }
        \cup { <<Spaced(<<"n", "a", "{">> \o s)>> : s \in SE!BoundedSeq({ "p", "c", "a", "}" }, 2) }
        \cup { <<s>> : s \in SE!BoundedSeq({ "a", "p", "c", "1", "/", ".", Quote, "\n" }, 3) }

MCArgument    == [dash : BOOLEAN, text : { "i", "o", "f" }]

\* Every command line meets the empty text; with the others the file is opened.
MCCommandLine ==
  [ s \in MCSources |->
      IF s = << <<>> >> THEN SE!BoundedSeq(MCArgument, 4)
      ELSE { <<[dash |-> TRUE, text |-> "i"], [dash |-> FALSE, text |-> "f"]>> } ]
=============================================================================
