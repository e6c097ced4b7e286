-------------------------- MODULE MCCompilerModule --------------------------
(* A small vocabulary for model-checking the declaration parser. *)
EXTENDS CompilerModule

MCName       == { "a" }
MCVocabulary == { "public", "private", "class", "namespace", "entrypoint", "import",
                  "a", "BraceOpen", "BraceClose", "CmdEnd" }
=============================================================================
