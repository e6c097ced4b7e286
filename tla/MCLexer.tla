------------------------------ MODULE MCLexer ------------------------------
(* Small alphabets and sources for model-checking the lexer. *)
EXTENDS Lexer
LOCAL SE == INSTANCE SequencesExt

\* A word and a number character, the quote and every symbol the lexer treats
\* in a way of its own: '_' and '.' belong to words and to isop(), '/' opens
\* comments, ';' is punctuation, '@' is in no table, '=' has a two-symbol form.
MCLetter    == { "a" }
MCDigit     == { "1" }
MCBlank     == { "\n" }
MCSymbol    == { ";", "=", "/", "_", ".", "@" }
MCKeywords  == { <<"a", "a">> }
MCOperators == { <<"=">>, <<"=", "=">>, <<"/">>, <<"/", "=">>, <<".">> }

Texts(n) == SE!BoundedSeq(Char, n)

\* Two and three streams, empty ones among them.
MCStreams == { <<t, u>> : t \in Texts(2), u \in Texts(2) } \cup
             { <<t, u, v>> : t \in Texts(1), u \in Texts(1), v \in Texts(1) }

\* Longer texts over what comments and strings are made of.
MCLong == { <<t>> : t \in SE!BoundedSeq({ "a", "/", ";", Quote, Newline }, 6) }

\* One stream, as main.cpp opens it, or several.
MCSources == { <<t>> : t \in Texts(4) } \cup MCLong \cup MCStreams
=============================================================================
