----------------------------- MODULE ClassLayout -----------------------------
(***************************************************************************)
(* The LLVM types of classes: Type::getLlvmType() and getFieldIndex()      *)
(* (src/src/Types.hpp), ClassFactory::getClassLlvmType()                   *)
(* (src/src/ClassFactory.hpp).                                             *)
(*                                                                         *)
(* The type of a class is a struct with one element for each field, whose  *)
(* types are asked for in turn.  Classes may refer to each other and to    *)
(* themselves; the struct is published before its fields are known, "avoid *)
(* the bad recursion", so that whoever asks for it meanwhile gets an       *)
(* opaque one.  The calls that have not returned are `stack'.              *)
(***************************************************************************)
EXTENDS Integers, Sequences, FiniteSets

CONSTANTS
  Class,     \* types of Type::Class
  Name,      \* names of members
  Lists,     \* the member lists a class may be defined with
  Basic,     \* the other types that are used, but for Char
  Null       \* an llvm_type that has not been asked for, and no body

\* The case labels of getLlvmType(), but for Class and for those that no type
\* has (Object and Void: createPrototype() makes classes of those two).
basic == [ Bool |-> "i1", SByte |-> "i8", Byte |-> "i8", Short |-> "i16", UShort |-> "i16",
           Int |-> "i32", UInt |-> "i32", Num |-> "i64", UNum |-> "i64",
           Flt |-> "float", Dbl |-> "double" ]

\* Char is a type like the others (Types.hpp:65), with no case in that switch.
Type == Class \cup Basic \cup {"Char"}

Member == [name : Name, mem_ty : {"Field", "Property", "Function"}, ty : Type]

Llvm    == Class \cup { basic[t] : t \in Basic }
Element == [of : Llvm, pointer : BOOLEAN]

ASSUME LayoutAssumption ==
  /\ Basic \subseteq DOMAIN basic
  /\ Lists \subseteq Seq(Member)
  /\ Class \cap (Basic \cup {"Char"} \cup { basic[t] : t \in Basic }) = {}
  /\ Null \notin Class \cup { basic[t] : t \in Basic } \cup Seq(Element)

VARIABLES
  members,    \* members[c], since createDefinition()
  llvm_type,  \* llvm_type[t], of a class the struct, named as the class
  body,       \* body[c]: the elements of that struct, or Opaque
  stack,      \* calls of getClassLlvmType(), the outermost first
  thrown      \* logError() has ended the compiler

vars == <<members, llvm_type, body, stack, thrown>>

Opaque  == Null

\* A call: the class, the next member of its loop and the vector `fields'.
Frame == [class : Class, next : Nat \ {0}, fields : Seq(Element)]

Top == stack[Len(stack)]
-----------------------------------------------------------------------------
(* getLlvmType() *)

Init ==
  /\ members \in [Class -> Lists]
  /\ llvm_type = [t \in Type |-> Null]
  /\ body = [c \in Class |-> Opaque]
  /\ stack = <<>>
  /\ thrown = FALSE

\* Slip: the struct published when it is complete.
GetClassLlvmTypeLate(c) ==
  /\ c \in Class
  /\ stack' = Append(stack, [class |-> c, next |-> 1, fields |-> <<>>])
  /\ UNCHANGED <<members, llvm_type, body, thrown>>

\* StructType::create(), llvm_type = struct_ty
GetClassLlvmType(c) ==
  /\ c \in Class
  /\ llvm_type' = [llvm_type EXCEPT ![c] = c]
  /\ stack' = Append(stack, [class |-> c, next |-> 1, fields |-> <<>>])
  /\ UNCHANGED <<members, body, thrown>>

GetBasicLlvmType(t) ==
  /\ t \in Basic
  /\ llvm_type' = [llvm_type EXCEPT ![t] = basic[t]]
  /\ UNCHANGED <<members, body, stack, thrown>>

\* default: logError() unwinds the calls and leaves what they have published.
UnknownType(t) ==
  /\ t = "Char"
  /\ thrown' = TRUE
  /\ stack' = <<>>
  /\ UNCHANGED <<members, llvm_type, body>>

\* A type that has been asked for is returned as it is, opaque or not.
getLlvmType(t) ==
  /\ llvm_type[t] = Null
  /\ GetClassLlvmType(t) \/ GetBasicLlvmType(t) \/ UnknownType(t)

\* The loops of codeGen() and the expressions ask for one type after the other.
Ask ==
  /\ stack = <<>> /\ ~ thrown
  /\ \E t \in Type : getLlvmType(t)
-----------------------------------------------------------------------------
(* The loop of getClassLlvmType() *)

\* The call runs, and mem is its next member.
AtMember(mem) ==
  /\ stack # <<>>
  /\ Top.next <= Len(members[Top.class])
  /\ mem = members[Top.class][Top.next]

\* The calls when the one on top goes on to the member after, with these fields.
Passed(fields) ==
  [stack EXCEPT ![Len(stack)] = [class |-> Top.class, next |-> Top.next + 1, fields |-> fields]]

\* Slip: `continue' in a loop that counts in its body.
SkipMemberStuck ==
  /\ \E mem \in Member : AtMember(mem) /\ mem.mem_ty # "Field"
  /\ UNCHANGED vars

SkipMember ==
  /\ \E mem \in Member : AtMember(mem) /\ mem.mem_ty # "Field"
  /\ stack' = Passed(Top.fields)
  /\ UNCHANGED <<members, llvm_type, body, thrown>>

\* mem->getType()->getLlvmType(context), for a type nobody has asked for yet.
AskField == \E mem \in Member : AtMember(mem) /\ mem.mem_ty = "Field" /\ getLlvmType(mem.ty)

\* Slip: the pointer read, instead of the function called.
PushFieldUnasked ==
  \E mem \in Member, isNativeP \in BOOLEAN :
    /\ AtMember(mem) /\ mem.mem_ty = "Field"
    /\ stack' = Passed(Append(Top.fields, [of |-> llvm_type[mem.ty], pointer |-> isNativeP]))
    /\ UNCHANGED <<members, llvm_type, body, thrown>>

\* fields.push_back(t).  No constructor sets isNativeP, which makes t a pointer.
PushField ==
  \E mem \in Member, isNativeP \in BOOLEAN :
    /\ AtMember(mem) /\ mem.mem_ty = "Field"
    /\ llvm_type[mem.ty] # Null
    /\ stack' = Passed(Append(Top.fields, [of |-> llvm_type[mem.ty], pointer |-> isNativeP]))
    /\ UNCHANGED <<members, llvm_type, body, thrown>>

\* Slip: a struct without fields left without a body.
SetBodyIfAny ==
  /\ stack # <<>> /\ Top.next = Len(members[Top.class]) + 1
  /\ body' = [body EXCEPT ![Top.class] = IF Top.fields = <<>> THEN @ ELSE Top.fields]
  /\ llvm_type' = [llvm_type EXCEPT ![Top.class] = Top.class]
  /\ stack' = SubSeq(stack, 1, Len(stack) - 1)
  /\ UNCHANGED <<members, thrown>>

\* struct_ty->setBody(fields); return struct_ty.
SetBody ==
  /\ stack # <<>> /\ Top.next = Len(members[Top.class]) + 1
  /\ body' = [body EXCEPT ![Top.class] = Top.fields]
  /\ llvm_type' = [llvm_type EXCEPT ![Top.class] = Top.class]
  /\ stack' = SubSeq(stack, 1, Len(stack) - 1)
  /\ UNCHANGED <<members, thrown>>

Work == SkipMember \/ AskField \/ PushField \/ SetBody

Next == Ask \/ SkipMember \/ AskField \/ PushField \/ SetBody

Spec == Init /\ [][Next]_vars

\* One thread: a call that has been made goes on.
FairSpec == Spec /\ WF_vars(Work)
-----------------------------------------------------------------------------
(* getFieldIndex() *)

\* How many of the first n members are fields.
Fields(list, n) == Cardinality({ k \in 1..n : list[k].mem_ty = "Field" })

\* The places of the fields with a name.
Named(list, name) ==
  { k \in 1..Len(list) : list[k].mem_ty = "Field" /\ list[k].name = name }

First(S) == CHOOSE k \in S : \A j \in S : k <= j

\* Slip: getMemberIndex(), which looks at members of every kind.
getMemberIndex(list, name) ==
  LET named == { k \in 1..Len(list) : list[k].name = name }
  IN IF named = {} THEN -1 ELSE First(named) - 1

\* idx counts the fields before the first one with the name.
getFieldIndex(list, name) ==
  IF Named(list, name) = {} THEN -1 ELSE Fields(list, First(Named(list, name)) - 1)
-----------------------------------------------------------------------------
(* Properties *)

OnStack == { stack[i].class : i \in 1..Len(stack) }

TypeOK ==
  /\ members \in [Class -> Lists]
  /\ llvm_type \in [Type -> Llvm \cup {Null}]
  /\ body \in [Class -> Seq(Element) \cup {Opaque}]
  /\ stack \in Seq(Frame)
  /\ thrown \in BOOLEAN

\* A class is laid out once, however classes refer to each other: no call for a
\* class runs inside another call for it ("avoid the bad recursion",
\* ClassFactory.hpp:58).
NoBadRecursion ==
  \A i, j \in 1..Len(stack) : stack[i].class = stack[j].class => i = j

\* The price of it: a struct that has been handed out is opaque exactly while the
\* call that lays it out runs.
OpaqueOnStack ==
  ~ thrown => \A c \in Class : (llvm_type[c] # Null /\ body[c] = Opaque) <=> c \in OnStack

\* After an error a struct is opaque only for a reason: a field is of a type that
\* has no LLVM type, or of a class whose struct is opaque (Types.hpp:228-229).
LeftOpaque ==
  thrown => \A c \in Class : llvm_type[c] # Null /\ body[c] = Opaque =>
    \E k \in 1..Len(members[c]) :
      LET mem == members[c][k]
      IN /\ mem.mem_ty = "Field"
         /\ mem.ty = "Char" \/ (mem.ty \in Class /\ llvm_type[mem.ty] # Null /\ body[mem.ty] = Opaque)

\* No struct has an element whose type was not there when it was pushed, and
\* between calls none has an opaque one (ClassFactory.hpp:61-67).
Closed ==
  \A c \in Class : body[c] # Opaque =>
    \A k \in 1..Len(body[c]) : body[c][k].of \in Class =>
      /\ llvm_type[body[c][k].of] # Null
      /\ stack = <<>> /\ ~ thrown => body[body[c][k].of] # Opaque

\* The index with which a field of `self' is addressed is that of its element
\* in the struct: the loops of getFieldIndex() and of getClassLlvmType() pass
\* over the same members (Types.hpp:402-414, Enviroment.hpp:78-83).
LayoutAgrees ==
  \A c \in Class, name \in Name : body[c] # Opaque =>
    LET idx == getFieldIndex(members[c], name)
    IN IF Named(members[c], name) = {} THEN idx = -1
       ELSE /\ idx \in 0..Len(body[c]) - 1
            /\ body[c][idx + 1].of = llvm_type[members[c][First(Named(members[c], name))].ty]

\* What the loop has pushed when it has passed over n members of c.
Pushed(c, fields, n) ==
  /\ Len(fields) = Fields(members[c], n)
  /\ \A k \in 1..n : members[c][k].mem_ty = "Field" =>
       fields[Fields(members[c], k)].of = llvm_type[members[c][k].ty]
  /\ \A k \in 1..Len(fields) : fields[k].of \in Class => llvm_type[fields[k].of] # Null

\* Why: each call has published its struct and pushed what it passed over, and
\* waits for the call above it at a field of that class.
FramesInv ==
  /\ \A i \in 1..Len(stack) :
       /\ llvm_type[stack[i].class] # Null /\ body[stack[i].class] = Opaque
       /\ stack[i].next \in 1..Len(members[stack[i].class]) + 1
       /\ Pushed(stack[i].class, stack[i].fields, stack[i].next - 1)
       /\ i < Len(stack) =>
            /\ stack[i].next <= Len(members[stack[i].class])
            /\ members[stack[i].class][stack[i].next].mem_ty = "Field"
            /\ members[stack[i].class][stack[i].next].ty = stack[i + 1].class
  /\ \A c \in Class : body[c] # Opaque =>
       llvm_type[c] # Null /\ Pushed(c, body[c], Len(members[c]))
  /\ thrown => stack = <<>>

\* The inductive invariant.  What has been published is the struct of the class.
LayoutInv ==
  /\ TypeOK /\ NoBadRecursion /\ OpaqueOnStack /\ LeftOpaque /\ FramesInv
  /\ \A c \in Class : llvm_type[c] \in {c, Null}
  /\ \A t \in Basic : llvm_type[t] \in {basic[t], Null}
  /\ llvm_type["Char"] = Null

\* Classes that refer to each other are laid out in the end.
Returns == stack # <<>> ~> stack = <<>>
=============================================================================
