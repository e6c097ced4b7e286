------------------------------ MODULE MCTokens ------------------------------
(* A small heap for model-checking tokens and their streams. *)
EXTENDS Tokens, TLC

CONSTANTS b1, b2, b3, b4, x, y

MCBlock     == { b1, b2, b3, b4 }
MCValue     == { x, y }
MCTextType  == { "Identifier" }
MCPlainType == { "Keyword" }
MCBareType  == { "CmdEnd" }
MCHolder    == { "parser", "main" }
Symmetry    == Permutations(MCBlock) \cup Permutations(MCValue)
=============================================================================
