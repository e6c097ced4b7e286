------------------------------ MODULE MCTables ------------------------------
(* The two tables: every string of up to three of the symbols of operators, *)
(* and every word made of one or two of the parts of keywords.              *)
EXTENDS OperatorTable, KeywordTable
LOCAL SE == INSTANCE SequencesExt

Parts(entries) == UNION { SE!ToSet(entries[n]) : n \in 1..Len(entries) }

MCKind == { "operator", "keyword" }
MCSymbol == Parts(Spellings) \cup Parts(Words)
MCTable == [operator |-> Spellings, keyword |-> Words]
MCInputs == [operator |-> SE!BoundedSeq(Parts(Spellings), 3),
             keyword |-> SE!BoundedSeq(Parts(Words), 2) \cup SE!ToSet(Words)]
=============================================================================
