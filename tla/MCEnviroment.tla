---------------------------- MODULE MCEnviroment ----------------------------
(* Two names, two values, a class with one of the names as a field, a       *)
(* static class, and a class with the other name, which has no LLVM type.   *)
(* The values are interchangeable.                                          *)
EXTENDS Enviroment, TLC

CONSTANTS x, y, A, S, U

MCFields == [c \in {A, S, U} |-> CASE c = A -> {x} [] c = S -> {x, y} [] c = U -> {y}]
MCSymmetry == Permutations(Value)
=============================================================================
