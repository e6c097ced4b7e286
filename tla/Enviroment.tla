----------------------------- MODULE Enviroment -----------------------------
(***************************************************************************)
(* The environment in which code is generated (src/src/Enviroment.hpp): a  *)
(* stack of maps for the locals, a map for the parameters, and the class   *)
(* and object of a member function.  findVar() walks the stack from its    *)
(* top.  A map is a function that is None where it has no entry; the map   *)
(* of statics is never filled, so that looking one up always throws.       *)
(***************************************************************************)
EXTENDS Naturals, Sequences

CONSTANTS
  Name,      \* variable names
  Value,     \* llvm values
  None,      \* nullptr, and the absence of an entry
  Class,     \* the classes setSelfContext() may be given
  Static,    \* those that are static
  Fields,    \* Fields[c]: the names of the fields of c
  Unlaid,    \* the classes for which getLlvmType() ends in logError()
  MaxDepth   \* bound on the depth of the stack

ASSUME EnviromentAssumption ==
  /\ None \notin Name
  /\ None \notin Value
  /\ Static \subseteq Class
  /\ Fields \in [Class -> SUBSET Name]
  /\ Unlaid \subseteq Class
  /\ None \notin Class
  /\ MaxDepth \in Nat

\* The value loaded from a field of an object.
Load == [object : Value, field : Name]

ASSUME LoadAssumption == None \notin Load

VARIABLES
  paramMap,
  localVarMap,
  self_context,  \* None while setSelfContext() has not been called
  self,
  name,          \* the parameter of findVar(), None outside of it
  i,             \* levels that findVar() has still to look into
  result,        \* what findVar() returned last
  pc             \* "idle", "locals", "self", "thrown" or "undefined"

vars == <<paramMap, localVarMap, self_context, self, name, i, result, pc>>

Empty == [n \in Name |-> None]
-----------------------------------------------------------------------------
Init ==
  /\ paramMap = Empty
  /\ localVarMap = <<>>
  /\ self_context = None
  /\ self = None
  /\ name = None
  /\ i = 0
  /\ result = None
  /\ pc = "idle"

beginScope ==
  /\ pc = "idle"
  /\ Len(localVarMap) < MaxDepth
  /\ localVarMap' = Append(localVarMap, Empty)
  /\ UNCHANGED <<paramMap, self_context, self, name, i, result, pc>>

\* Slip: the outermost scope is removed.
endScopeOutermost ==
  /\ pc = "idle"
  /\ localVarMap # <<>>
  /\ localVarMap' = Tail(localVarMap)
  /\ UNCHANGED <<paramMap, self_context, self, name, i, result, pc>>

endScope ==
  /\ pc = "idle"
  /\ localVarMap # <<>>
  /\ localVarMap' = SubSeq(localVarMap, 1, Len(localVarMap) - 1)
  /\ UNCHANGED <<paramMap, self_context, self, name, i, result, pc>>

addLocal(n, v) ==
  /\ pc = "idle"
  /\ localVarMap # <<>>
  /\ localVarMap' = [localVarMap EXCEPT ![Len(localVarMap)][n] = v]
  /\ UNCHANGED <<paramMap, self_context, self, name, i, result, pc>>

\* pop_back() or back() of an empty vector.
NoScope ==
  /\ pc = "idle"
  /\ localVarMap = <<>>
  /\ pc' = "undefined"
  /\ UNCHANGED <<paramMap, localVarMap, self_context, self, name, i, result>>

addParam(n, v) ==
  /\ pc = "idle"
  /\ paramMap' = [paramMap EXCEPT ![n] = v]
  /\ UNCHANGED <<localVarMap, self_context, self, name, i, result, pc>>

\* A static class leaves the object of the class before it.
setSelfContext(ty, self_param) ==
  /\ pc = "idle"
  /\ self_context' = ty
  /\ self' = IF ty \in Static THEN self ELSE self_param
  /\ UNCHANGED <<paramMap, localVarMap, name, i, result, pc>>
-----------------------------------------------------------------------------
(* findVar() *)

findVar ==
  /\ pc = "idle"
  /\ name' \in Name
  /\ i' = Len(localVarMap)
  /\ pc' = "locals"
  /\ UNCHANGED <<paramMap, localVarMap, self_context, self, result>>

ReturnValue(v) ==
  /\ result' = v
  /\ pc' = "idle"
  /\ i' = 0
  /\ name' = None
  /\ UNCHANGED <<paramMap, localVarMap, self_context, self>>

\* localVarMap[i].at(name), which throws where there is no entry.
FoundLocal ==
  /\ pc = "locals"
  /\ i > 0
  /\ localVarMap[i][name] # None
  /\ ReturnValue(localVarMap[i][name])

\* Slip: the loop leaves out the outermost scope.
NextLevelShort ==
  /\ pc = "locals"
  /\ i > 0
  /\ localVarMap[i][name] = None
  /\ i' = IF i = 2 THEN 0 ELSE i - 1
  /\ UNCHANGED <<paramMap, localVarMap, self_context, self, name, result, pc>>

\* catch (outofr) { continue; }
NextLevel ==
  /\ pc = "locals"
  /\ i > 0
  /\ localVarMap[i][name] = None
  /\ i' = i - 1
  /\ UNCHANGED <<paramMap, localVarMap, self_context, self, name, result, pc>>

FoundParam ==
  /\ pc = "locals"
  /\ i = 0
  /\ paramMap[name] # None
  /\ ReturnValue(paramMap[name])

NoParam ==
  /\ pc = "locals"
  /\ i = 0
  /\ paramMap[name] = None
  /\ pc' = "self"
  /\ UNCHANGED <<paramMap, localVarMap, self_context, self, name, i, result>>

\* Slip: the object is used whatever the class.
FieldOfAny(n) ==
  IF self_context # None /\ self # None /\ n \in Fields[self_context]
    THEN [object |-> self, field |-> n] ELSE None

\* The field of the object, if the class has an object and such a field.
FieldOf(n) ==
  IF self_context = None \/ self_context \in Static \/ self = None THEN None
  ELSE IF n \in Fields[self_context] THEN [object |-> self, field |-> n] ELSE None

\* There is a field to load, and no LLVM type to load it from.
NoLlvmType == FieldOf(name) # None /\ self_context \in Unlaid

FindField ==
  /\ pc = "self"
  /\ ~ NoLlvmType
  /\ ReturnValue(FieldOf(name))

\* logError() throws an int, which findVar() does not catch: it ends the compiler.
UnknownType ==
  /\ pc = "self"
  /\ NoLlvmType
  /\ pc' = "thrown"
  /\ UNCHANGED <<paramMap, localVarMap, self_context, self, name, i, result>>

\* self_context has no initializer: where the environment is not created zeroed,
\* it is read uninitialized.
Uninitialized ==
  /\ pc = "self"
  /\ self_context = None
  /\ pc' = "undefined"
  /\ UNCHANGED <<paramMap, localVarMap, self_context, self, name, i, result>>

Next ==
  \/ beginScope \/ endScope \/ NoScope
  \/ \E n \in Name, v \in Value : addLocal(n, v) \/ addParam(n, v)
  \/ \E ty \in Class, self_param \in Value \cup {None} : setSelfContext(ty, self_param)
  \/ findVar \/ FoundLocal \/ NextLevel \/ FoundParam \/ NoParam
  \/ FindField \/ UnknownType \/ Uninitialized

Spec == Init /\ [][Next]_vars
-----------------------------------------------------------------------------
(* Properties *)

Map == [Name -> Value \cup {None}]

TypeOK ==
  /\ paramMap \in Map
  /\ localVarMap \in Seq(Map)
  /\ self_context \in Class \cup {None}
  /\ self \in Value \cup {None}
  /\ name \in Name \cup {None}
  /\ i \in 0..Len(localVarMap)
  /\ result \in Value \cup Load \cup {None}
  /\ pc \in { "idle", "locals", "self", "thrown", "undefined" }

\* Why: the levels that findVar() has passed do not bind the name.
Passed ==
  pc \in { "locals", "self" } =>
    \A k \in i + 1..Len(localVarMap) : localVarMap[k][name] = None

\* Past the levels there are none left, and self is asked for no parameter.
WalkEnded ==
  /\ pc \in { "idle", "self" } => i = 0
  /\ pc \in { "locals", "self" } => name \in Name
  /\ pc = "self" => paramMap[name] = None

\* The inductive invariant of the walk.
WalkInv == TypeOK /\ Passed /\ WalkEnded

\* The level of the stack st at which a look for n from level k ends.
Innermost(st, k, n) ==
  CHOOSE j \in 1..k : st[j][n] # None /\ \A l \in j + 1..k : st[l][n] = None

\* What n is bound to where only the first k scopes are open.
Bound(st, k, n) ==
  IF \E j \in 1..k : st[j][n] # None THEN st[Innermost(st, k, n)][n] ELSE None

Visible ==
  [k \in 1..Len(localVarMap) |-> [n \in Name |-> Bound(localVarMap, k, n)]]

\* The environment implements lexical scoping: findVar() answers with the binding of
\* the innermost open scope, and ending a scope brings back what its names meant
\* before; what no scope and no parameter binds is a field of the object given with the
\* class, and nothing in a static class (Enviroment.hpp:22-87).
Scoping == INSTANCE LexicalScoping WITH
             visible <- Visible, params <- paramMap, class <- self_context,
             object <- IF self_context \in Class \ Static THEN self ELSE None,
             answer <- result
ScopingSpec == Scoping!Spec
=============================================================================
