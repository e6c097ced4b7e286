-------------------------- MODULE MCLexerHistory --------------------------
(* Small alphabets and sources for model-checking the lexer's history. *)
EXTENDS LexerHistory
LOCAL SE == INSTANCE SequencesExt

MCLetter    == { "a" }
MCDigit     == { "1" }
MCBlank     == { "\n" }
MCSymbol    == { ";", "=", "+" }
MCKeywords  == { <<"a", "a">> }
MCOperators == { <<"=">>, <<"=", "=">>, <<"+">>, <<"+", "=">>, <<"+", "+">> }

\* Every text of up to five characters, and every short text split over two
\* streams.
MCSources ==
  { <<t>> : t \in SE!BoundedSeq(Char, 5) \ {<<>>} } \cup
  { <<t, u>> : t \in SE!BoundedSeq(Char, 2) \ {<<>>}, u \in SE!BoundedSeq(Char, 2) \ {<<>>} }
===========================================================================
