------------------------------ MODULE Metadata ------------------------------
(***************************************************************************)
(* The tree of built-in classes as the constructor of Metadata leaves it   *)
(* (src/src/Metadata.hpp).  Nothing else is added to it before parseClass() *)
(* works, so that it is a constant here.  A node is named by its class.    *)
(***************************************************************************)
EXTENDS Naturals, Sequences

\* The children of ValueType, in the order in which they are added.
Leaves == << "bool", "sbyte", "byte", "sht", "usht", "int", "uint", "num", "unum",
             "flt", "dbl", "char" >>

Leaf    == { Leaves[i] : i \in 1..Len(Leaves) }
Classes == {"Object", "ValueType"} \cup Leaf
nullptr == "nullptr"

\* What a vector into which n children have been inserted can hold.
Room[n \in 0..Len(Leaves)] ==
  IF n <= 1 THEN n
  ELSE LET room == Room[n - 1] IN IF n <= room THEN room ELSE 2 * room

\* The leaves after which an insertion made the vector grow: their iterators dangle.
Stale == { Leaves[i] : i \in { k \in 1..Len(Leaves) : Room[k] # Room[Len(Leaves)] } }

\* The names that may be looked for: "object" is that of no node.
Names == Classes \cup {"object"}

Parent(c) == IF c \in Leaf THEN "ValueType" ELSE IF c = "ValueType" THEN "Object" ELSE nullptr

Children(c) ==
  IF c = "Object" THEN <<"ValueType">> ELSE IF c = "ValueType" THEN Leaves ELSE <<>>

Index(c) == IF c \in Leaf THEN CHOOSE i \in 1..Len(Leaves) : Leaves[i] = c ELSE 1
=============================================================================
