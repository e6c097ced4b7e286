--------------------------- MODULE LexicalScoping ---------------------------
(***************************************************************************)
(* What an environment promises: a block sees what was visible where it    *)
(* was entered, changed by its own declarations; leaving it brings back    *)
(* what was visible before.  A name that no block declares is a parameter, *)
(* and else a member of the object there is, if any.                       *)
(***************************************************************************)
EXTENDS Naturals, Sequences

CONSTANTS
  Name,     \* variable names
  Value,    \* what variables are bound to
  None,     \* nothing
  Class,    \* classes of objects
  Fields    \* Fields[c]: the names of the members of c

VARIABLES
  visible,  \* the blocks entered, outermost first: what each name is bound to
  params,   \* what each name is bound to as a parameter
  class,    \* the class whose code it is
  object,   \* its object, None where it has none
  answer    \* what was looked up last

vars == <<visible, params, class, object, answer>>

Unbound == [n \in Name |-> None]

\* What the innermost block sees.
Here == IF visible = <<>> THEN Unbound ELSE visible[Len(visible)]

Member(n) ==
  IF object # None /\ n \in Fields[class] THEN [object |-> object, field |-> n] ELSE None

Meaning(n) ==
  IF Here[n] # None THEN Here[n]
  ELSE IF params[n] # None THEN params[n] ELSE Member(n)

Init ==
  /\ visible = <<>>
  /\ params = Unbound
  /\ class = None
  /\ object = None
  /\ answer = None

Enter ==
  /\ visible' = Append(visible, Here)
  /\ UNCHANGED <<params, class, object, answer>>

Leave ==
  /\ visible # <<>>
  /\ visible' = SubSeq(visible, 1, Len(visible) - 1)
  /\ UNCHANGED <<params, class, object, answer>>

Declare ==
  /\ visible # <<>>
  /\ \E n \in Name, v \in Value : visible' = [visible EXCEPT ![Len(visible)][n] = v]
  /\ UNCHANGED <<params, class, object, answer>>

DeclareParam ==
  /\ \E n \in Name, v \in Value : params' = [params EXCEPT ![n] = v]
  /\ UNCHANGED <<visible, class, object, answer>>

SetObject ==
  /\ class' \in Class
  /\ object' \in Value \cup {None}
  /\ UNCHANGED <<visible, params, answer>>

LookUp ==
  /\ \E n \in Name : answer' = Meaning(n)
  /\ UNCHANGED <<visible, params, class, object>>

Next == Enter \/ Leave \/ Declare \/ DeclareParam \/ SetObject \/ LookUp

Spec == Init /\ [][Next]_vars
=============================================================================
