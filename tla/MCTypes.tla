------------------------------- MODULE MCTypes -------------------------------
(* Three classes that refer to each other and to themselves in every way    *)
(* the lists allow, with fields of the same name and members between them.  *)
EXTENDS ClassLayout

CONSTANTS A, B, C, f, g

MCClass == {A, B, C}
MCName  == {f, g}
MCBasic == {"Byte", "Int"}

Field(n, t) == [name |-> n, mem_ty |-> "Field", ty |-> t]
Function(n) == [name |-> n, mem_ty |-> "Function", ty |-> "Int"]
Property(n) == [name |-> n, mem_ty |-> "Property", ty |-> "Byte"]

MCLists == { <<>>, <<Field(f, "Char")>>, <<Function(f), Field(g, A)>>,
             <<Field(f, "Byte"), Field(f, B)>>, <<Field(g, C), Property(g), Field(f, B)>> }
           \cup { <<Field(f, t)>> : t \in MCClass }
=============================================================================
