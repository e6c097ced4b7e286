-------------------------- MODULE ClassLayoutProofs --------------------------
(***************************************************************************)
(* Classes are laid out once, completely and in a recursion that ends, and *)
(* the index of a field is that of its element, for any number of classes  *)
(* that refer to each other in any way and for member lists of any length. *)
(***************************************************************************)
EXTENDS ClassLayout, FiniteSetTheorems, SequenceTheorems, WellFoundedInduction, TLAPS

LEMMA Constants ==
  /\ \A l \in Lists : l \in Seq(Member)
  /\ Null \notin Class /\ Null \notin Seq(Element) /\ Null \notin Llvm
  /\ \A t \in Basic : basic[t] \in Llvm /\ basic[t] # Null /\ basic[t] \notin Class
  /\ Class \cap Basic = {} /\ "Char" \notin Class /\ "Char" \notin Basic
<1>1. "Char" \notin Basic
  BY LayoutAssumption DEF basic
<1> QED
  BY <1>1, LayoutAssumption DEF Llvm
-----------------------------------------------------------------------------
(* Counting fields *)

LEMMA FieldsType ==
  ASSUME NEW list, NEW n \in Nat
  PROVE  /\ IsFiniteSet({ k \in 1..n : list[k].mem_ty = "Field" })
         /\ Fields(list, n) \in Nat
<1>1. IsFiniteSet(1..n)
  BY FS_Interval
<1>2. IsFiniteSet({ k \in 1..n : list[k].mem_ty = "Field" })
  BY <1>1, FS_Subset
<1> QED
  BY <1>2, FS_CardinalityType DEF Fields

LEMMA FieldsZero == ASSUME NEW list PROVE Fields(list, 0) = 0
<1>1. { k \in 1..0 : list[k].mem_ty = "Field" } = {}
  OBVIOUS
<1> QED
  BY <1>1, FS_EmptySet DEF Fields

LEMMA FieldsStep ==
  ASSUME NEW list, NEW n \in Nat
  PROVE  Fields(list, n + 1) = IF list[n + 1].mem_ty = "Field" THEN Fields(list, n) + 1
                                                               ELSE Fields(list, n)
<1> DEFINE S(m) == { k \in 1..m : list[k].mem_ty = "Field" }
<1>1. CASE list[n + 1].mem_ty = "Field"
  <2>0. \A k : k \in 1..n + 1 <=> k \in 1..n \/ k = n + 1
    OBVIOUS
  <2>1. S(n + 1) = S(n) \cup {n + 1}
    <3>1. \A k : k \in S(n + 1) <=> k \in S(n) \/ k = n + 1
      BY <1>1, <2>0
    <3> QED
      BY <3>1, Zenon
  <2>3. n + 1 \notin S(n)
    OBVIOUS
  <2>4. IsFiniteSet(S(n))
    BY FieldsType
  <2>2. Cardinality(S(n) \cup {n + 1}) = Cardinality(S(n)) + 1
    <3> HIDE DEF S
    <3> QED
      BY <2>3, <2>4, FS_AddElement
  <2> QED
    BY <1>1, <2>1, <2>2 DEF Fields
<1>2. CASE list[n + 1].mem_ty # "Field"
  <2>0. \A k : k \in 1..n + 1 <=> k \in 1..n \/ k = n + 1
    OBVIOUS
  <2>1. S(n + 1) = S(n)
    BY <1>2, <2>0
  <2> QED
    BY <1>2, <2>1 DEF Fields
<1> QED
  BY <1>1, <1>2

LEMMA FieldsGrow ==
  ASSUME NEW list, NEW n \in Nat, NEW k \in 0..n
  PROVE  Fields(list, k) <= Fields(list, n)
<1>1. { j \in 1..k : list[j].mem_ty = "Field" } \subseteq { j \in 1..n : list[j].mem_ty = "Field" }
  OBVIOUS
<1>2. IsFiniteSet({ j \in 1..n : list[j].mem_ty = "Field" })
  BY FieldsType
<1> QED
  BY <1>1, <1>2, FS_Subset DEF Fields

\* A field is counted with those up to it, and those before it are one less.
LEMMA FieldCounted ==
  ASSUME NEW list, NEW n \in Nat, NEW k \in 1..n, list[k].mem_ty = "Field"
  PROVE  /\ Fields(list, k) \in 1..Fields(list, n)
         /\ Fields(list, k - 1) = Fields(list, k) - 1
<1>1. PICK m \in Nat : m = k - 1 /\ m + 1 = k
  OBVIOUS
<1>2. Fields(list, k) = Fields(list, m) + 1 /\ Fields(list, m) \in Nat
  <2>1. list[m + 1].mem_ty = "Field"
    BY <1>1
  <2>2. Fields(list, m + 1) = Fields(list, m) + 1
    BY <2>1, FieldsStep
  <2> QED
    BY <1>1, <2>2, FieldsType
<1>3. Fields(list, k) <= Fields(list, n) /\ Fields(list, n) \in Nat
  <2>1. k \in 0..n
    OBVIOUS
  <2> QED
    BY <2>1, FieldsGrow, FieldsType
<1> QED
  BY <1>1, <1>2, <1>3

\* There is a first one.
LEMMA FirstExists ==
  ASSUME NEW S \in SUBSET Nat, S # {}
  PROVE  First(S) \in S
<1> DEFINE R == OpToRel(<, Nat)
<1>1. PICK m \in S : \A y \in S : ~ (<<y, m>> \in R)
  BY NatLessThanWellFounded, WFMin
<1>2. \A y \in S : ~ (y < m)
  BY <1>1 DEF OpToRel
<1>3. \A y \in S : m <= y
  <2> SUFFICES ASSUME NEW y \in S PROVE m <= y
    OBVIOUS
  <2>1. y \in Nat /\ m \in Nat
    OBVIOUS
  <2> QED
    BY <1>2, <2>1
<1> QED
  BY <1>3 DEF First
-----------------------------------------------------------------------------
(* What the loop has pushed *)

\* Pushed() of the members in `list' when the types are ty.
PushedIn(list, ty, fields, n) ==
  /\ Len(fields) = Fields(list, n)
  /\ \A k \in 1..n : list[k].mem_ty = "Field" =>
       fields[Fields(list, k)].of = ty[list[k].ty]
  /\ \A k \in 1..Len(fields) : fields[k].of \in Class => ty[fields[k].of] # Null

LlvmTypes == [Type -> Llvm \cup {Null}]

Published(ty) ==
  /\ \A c \in Class : ty[c] \in {c, Null}
  /\ \A t \in Basic : ty[t] \in {basic[t], Null}
  /\ ty["Char"] = Null

LEMMA PushedNothing ==
  ASSUME NEW list, NEW ty
  PROVE  PushedIn(list, ty, <<>>, 0)
<1>1. Fields(list, 0) = 0
  BY FieldsZero
<1> QED
  BY <1>1 DEF PushedIn

\* A type that gets its LLVM type had none, so that it has not been pushed.
LEMMA PushedBefore ==
  ASSUME NEW list \in Seq(Member), NEW ty, NEW ty2, NEW fields \in Seq(Element),
         NEW n \in 0..Len(list),
         \A t \in Type : ty[t] # Null => ty2[t] = ty[t],
         PushedIn(list, ty, fields, n)
  PROVE  PushedIn(list, ty2, fields, n)
<1>1. ASSUME NEW k \in 1..n, list[k].mem_ty = "Field"
      PROVE  fields[Fields(list, k)].of = ty2[list[k].ty]
  <2>1. Fields(list, k) \in 1..Len(fields)
    BY <1>1, FieldCounted DEF PushedIn
  <2>2. fields[Fields(list, k)] \in Element
    BY <2>1, ElementOfSeq
  <2>3. fields[Fields(list, k)].of # Null
    BY <2>2, Constants DEF Element
  <2>4. list[k] \in Member
    BY ElementOfSeq
  <2>5. list[k].ty \in Type
    BY <2>4 DEF Member
  <2> QED
    BY <1>1, <2>3, <2>5 DEF PushedIn
<1>2. ASSUME NEW k \in 1..Len(fields), fields[k].of \in Class
      PROVE  ty2[fields[k].of] # Null
  <2>1. fields[k].of \in Type
    BY <1>2 DEF Type
  <2> QED
    BY <1>2, <2>1 DEF PushedIn
<1> QED
  BY <1>1, <1>2 DEF PushedIn

LEMMA PushedSkip ==
  ASSUME NEW list, NEW ty, NEW fields, NEW n \in Nat,
         list[n + 1].mem_ty # "Field", PushedIn(list, ty, fields, n)
  PROVE  PushedIn(list, ty, fields, n + 1)
<1>1. Fields(list, n + 1) = Fields(list, n)
  BY FieldsStep
<1>2. \A k : k \in 1..n + 1 <=> k \in 1..n \/ k = n + 1
  OBVIOUS
<1> QED
  BY <1>1, <1>2 DEF PushedIn

LEMMA PushedField ==
  ASSUME NEW list \in Seq(Member), NEW ty \in LlvmTypes, Published(ty),
         NEW fields \in Seq(Element), NEW n \in Nat, n + 1 \in 1..Len(list),
         list[n + 1].mem_ty = "Field", NEW elem \in Element,
         elem.of = ty[list[n + 1].ty],
         PushedIn(list, ty, fields, n)
  PROVE  PushedIn(list, ty, Append(fields, elem), n + 1)
<1> DEFINE longer == Append(fields, elem)
<1>1. Fields(list, n + 1) = Len(fields) + 1
  BY FieldsStep DEF PushedIn
<1>2. /\ Len(longer) = Len(fields) + 1 /\ Len(fields) \in Nat
      /\ longer[Len(fields) + 1] = elem
      /\ \A k \in 1..Len(fields) : longer[k] = fields[k]
  BY AppendProperties, LenProperties
<1>3. ASSUME NEW k \in 1..n + 1, list[k].mem_ty = "Field"
      PROVE  longer[Fields(list, k)].of = ty[list[k].ty]
  <2>1. CASE k = n + 1
    BY <1>1, <1>2, <2>1
  <2>2. CASE k \in 1..n
    <3>1. Fields(list, k) \in 1..Len(fields)
      BY <1>3, <2>2, FieldCounted DEF PushedIn
    <3> QED
      BY <1>2, <1>3, <2>2, <3>1 DEF PushedIn
  <2>3. k = n + 1 \/ k \in 1..n
    OBVIOUS
  <2> QED
    BY <2>1, <2>2, <2>3
<1>4. elem.of \in Class => ty[elem.of] # Null
  <2>1. list[n + 1] \in Member
    BY ElementOfSeq
  <2>2. list[n + 1].ty \in Class \cup Basic \cup {"Char"}
    BY <2>1 DEF Member, Type
  <2> QED
    BY <2>2, Constants DEF Published
<1>5. ASSUME NEW k \in 1..Len(longer), longer[k].of \in Class
      PROVE  ty[longer[k].of] # Null
  <2>1. CASE k = Len(fields) + 1
    BY <1>2, <1>4, <1>5, <2>1
  <2>2. CASE k \in 1..Len(fields)
    BY <1>2, <1>5, <2>2 DEF PushedIn
  <2> QED
    BY <1>2, <1>5, <2>1, <2>2
<1> HIDE DEF longer
<1>6. Len(longer) = Fields(list, n + 1)
  BY <1>1, <1>2
<1>7. PushedIn(list, ty, longer, n + 1)
  BY <1>3, <1>5, <1>6 DEF PushedIn
<1> QED
  BY <1>7 DEF longer
-----------------------------------------------------------------------------
(* The invariant as a property of the members ms, the types ty, the bodies bd *)
(* and the calls st.                                                          *)

FrameOK(ms, ty, bd, fr) ==
  /\ ty[fr.class] # Null /\ bd[fr.class] = Opaque
  /\ fr.next \in 1..Len(ms[fr.class]) + 1
  /\ PushedIn(ms[fr.class], ty, fr.fields, fr.next - 1)

\* The call fr waits for the call gr.
Waits(ms, fr, gr) ==
  /\ fr.next <= Len(ms[fr.class])
  /\ ms[fr.class][fr.next].mem_ty = "Field"
  /\ ms[fr.class][fr.next].ty = gr.class

Calls(ms, ty, bd, st) ==
  /\ \A i \in 1..Len(st) : FrameOK(ms, ty, bd, st[i])
  /\ \A i \in 1..Len(st) : i < Len(st) => Waits(ms, st[i], st[i + 1])
  /\ \A i, j \in 1..Len(st) : st[i].class = st[j].class => i = j

Bodies(ms, ty, bd) ==
  \A c \in Class : bd[c] # Opaque => ty[c] # Null /\ PushedIn(ms[c], ty, bd[c], Len(ms[c]))

Opaques(ty, bd, st) ==
  \A c \in Class : (ty[c] # Null /\ bd[c] = Opaque) <=> \E i \in 1..Len(st) : st[i].class = c

Defined(ms, ty, bd) ==
  /\ ms \in [Class -> Lists]
  /\ ty \in LlvmTypes /\ Published(ty)
  /\ bd \in [Class -> Seq(Element) \cup {Opaque}]

\* Everything while no error has been thrown.
State(ms, ty, bd, st) ==
  /\ Defined(ms, ty, bd)
  /\ st \in Seq(Frame)
  /\ Calls(ms, ty, bd, st) /\ Bodies(ms, ty, bd) /\ Opaques(ty, bd, st)

\* LayoutInv says State() of the variables.
LEMMA StateHolds ==
  ASSUME LayoutInv, ~ thrown
  PROVE  State(members, llvm_type, body, stack)
<1>1. Defined(members, llvm_type, body) /\ stack \in Seq(Frame)
  BY DEF LayoutInv, TypeOK, Defined, LlvmTypes, Published
<1>2. \A i \in 1..Len(stack) : FrameOK(members, llvm_type, body, stack[i])
  BY DEF LayoutInv, FramesInv, FrameOK, Pushed, PushedIn
<1>3. \A i \in 1..Len(stack) : i < Len(stack) => Waits(members, stack[i], stack[i + 1])
  BY DEF LayoutInv, FramesInv, Waits
<1>4. \A i, j \in 1..Len(stack) : stack[i].class = stack[j].class => i = j
  BY DEF LayoutInv, NoBadRecursion
<1>5. Bodies(members, llvm_type, body)
  BY DEF LayoutInv, FramesInv, Bodies, Pushed, PushedIn
<1>6. Opaques(llvm_type, body, stack)
  BY DEF LayoutInv, OpaqueOnStack, OnStack, Opaques
<1> QED
  BY <1>1, <1>2, <1>3, <1>4, <1>5, <1>6 DEF State, Calls

LEMMA StateNext ==
  ASSUME State(members', llvm_type', body', stack'), thrown' = FALSE
  PROVE  LayoutInv'
<1>1. TypeOK'
  BY DEF State, Defined, TypeOK, LlvmTypes
<1>2. FramesInv'
  <2>1. ASSUME NEW i \in 1..Len(stack')
        PROVE  /\ llvm_type'[stack'[i].class] # Null /\ body'[stack'[i].class] = Opaque
               /\ stack'[i].next \in 1..Len(members'[stack'[i].class]) + 1
               /\ Pushed(stack[i].class, stack[i].fields, stack[i].next - 1)'
               /\ i < Len(stack') => Waits(members', stack'[i], stack'[i + 1])
    BY DEF State, Calls, FrameOK, Pushed, PushedIn
  <2>2. ASSUME NEW c \in Class, body'[c] # Opaque
        PROVE  llvm_type'[c] # Null /\ Pushed(c, body[c], Len(members[c]))'
    BY <2>2 DEF State, Bodies, Pushed, PushedIn
  <2> QED
    BY <2>1, <2>2 DEF FramesInv, Waits
<1>3. NoBadRecursion'
  BY DEF State, Calls, NoBadRecursion
<1>4. OpaqueOnStack'
  BY DEF State, Opaques, OpaqueOnStack, OnStack
<1>5. LeftOpaque'
  BY DEF LeftOpaque
<1>6. /\ \A c \in Class : llvm_type'[c] \in {c, Null}
      /\ \A t \in Basic : llvm_type'[t] \in {basic[t], Null}
      /\ llvm_type'["Char"] = Null
  BY DEF State, Defined, Published
<1> QED
  BY <1>1, <1>2, <1>3, <1>4, <1>5, <1>6 DEF LayoutInv

\* Types are only ever added.
Grows(ty, ty2) == \A t \in Type : ty[t] # Null => ty2[t] = ty[t]

LEMMA ListOf == ASSUME NEW ms \in [Class -> Lists], NEW c \in Class PROVE ms[c] \in Seq(Member)
BY Constants

LEMMA FrameGrows ==
  ASSUME NEW ms \in [Class -> Lists], NEW ty, NEW ty2, Grows(ty, ty2), NEW bd,
         NEW fr \in Frame, FrameOK(ms, ty, bd, fr)
  PROVE  FrameOK(ms, ty2, bd, fr)
<1>1. fr.class \in Class /\ fr.fields \in Seq(Element)
  BY DEF Frame
<1>2. ms[fr.class] \in Seq(Member) /\ Len(ms[fr.class]) \in Nat
  BY <1>1, ListOf, LenProperties
<1>3. fr.next - 1 \in 0..Len(ms[fr.class])
  BY <1>2 DEF FrameOK
<1>4. PushedIn(ms[fr.class], ty2, fr.fields, fr.next - 1)
  BY <1>1, <1>2, <1>3, PushedBefore DEF FrameOK, Grows
<1>5. fr.class \in Type
  BY <1>1 DEF Type
<1> QED
  BY <1>4, <1>5 DEF FrameOK, Grows

LEMMA BodiesGrow ==
  ASSUME NEW ms \in [Class -> Lists], NEW ty, NEW ty2, Grows(ty, ty2),
         NEW bd \in [Class -> Seq(Element) \cup {Opaque}], Bodies(ms, ty, bd)
  PROVE  Bodies(ms, ty2, bd)
<1> SUFFICES ASSUME NEW c \in Class, bd[c] # Opaque
             PROVE  ty2[c] # Null /\ PushedIn(ms[c], ty2, bd[c], Len(ms[c]))
  BY DEF Bodies
<1>1. ms[c] \in Seq(Member) /\ Len(ms[c]) \in Nat /\ bd[c] \in Seq(Element) /\ c \in Type
  BY ListOf, LenProperties DEF Type
<1>2. Len(ms[c]) \in 0..Len(ms[c])
  BY <1>1
<1> QED
  BY <1>1, <1>2, PushedBefore DEF Bodies, Grows
-----------------------------------------------------------------------------
(* The steps *)

LEMMA BasicStep ==
  ASSUME NEW ms, NEW ty, NEW bd, NEW st, State(ms, ty, bd, st),
         NEW t \in Basic, ty[t] = Null
  PROVE  State(ms, [ty EXCEPT ![t] = basic[t]], bd, st)
<1> DEFINE ty2 == [ty EXCEPT ![t] = basic[t]]
<1>1. Defined(ms, ty, bd) /\ st \in Seq(Frame)
  BY DEF State
<1>2. t \in Type /\ t \notin Class /\ t # "Char" /\ ty \in LlvmTypes
  BY <1>1, Constants DEF Type, Defined
<1>3. Grows(ty, ty2)
  BY <1>2 DEF Grows, LlvmTypes
<1>4. \A c \in Class : ty2[c] = ty[c]
  BY <1>2 DEF LlvmTypes, Type
<1>5. Defined(ms, ty2, bd)
  <2>1. ty2 \in LlvmTypes
    BY <1>2, Constants DEF LlvmTypes
  <2>2. Published(ty2)
    BY <1>1, <1>2, <1>4 DEF Published, Defined, LlvmTypes, Type
  <2> QED
    BY <1>1, <2>1, <2>2 DEF Defined
<1>6. \A i \in 1..Len(st) : FrameOK(ms, ty2, bd, st[i])
  <2>1. ASSUME NEW i \in 1..Len(st)
        PROVE  FrameOK(ms, ty2, bd, st[i])
    <3>1. st[i] \in Frame /\ FrameOK(ms, ty, bd, st[i])
      BY <1>1, ElementOfSeq DEF State, Calls
    <3> QED
      BY <1>1, <1>3, <3>1, FrameGrows DEF Defined
  <2> QED
    BY <2>1
<1>7. Bodies(ms, ty2, bd)
  BY <1>1, <1>3, BodiesGrow DEF Defined, State
<1>8. Opaques(ty2, bd, st)
  BY <1>4 DEF Opaques, State
<1> HIDE DEF ty2
<1>9. State(ms, ty2, bd, st)
  BY <1>1, <1>5, <1>6, <1>7, <1>8 DEF State, Calls
<1> QED
  BY <1>9 DEF ty2

\* A call for a class that has no type yet, from outside or from the call that
\* waits for it.
LEMMA CallStep ==
  ASSUME NEW ms, NEW ty, NEW bd, NEW st, State(ms, ty, bd, st),
         NEW c \in Class, ty[c] = Null, NEW fr,
         fr = [class |-> c, next |-> 1, fields |-> <<>>],
         st # <<>> => Waits(ms, st[Len(st)], fr)
  PROVE  State(ms, [ty EXCEPT ![c] = c], bd, Append(st, fr))
<1> DEFINE ty2 == [ty EXCEPT ![c] = c]
           st2 == Append(st, fr)
<1>1. /\ Defined(ms, ty, bd) /\ st \in Seq(Frame) /\ Len(st) \in Nat
      /\ ty \in LlvmTypes /\ c \in Type
  BY LenProperties DEF State, Type, Defined
<1>2. Grows(ty, ty2)
  BY <1>1 DEF Grows, LlvmTypes
<1>3. ty2[c] = c /\ c # Null /\ \A d \in Class : d # c => ty2[d] = ty[d]
  BY <1>1, Constants DEF LlvmTypes, Type
<1>4. Defined(ms, ty2, bd)
  <2>1. ty2 \in LlvmTypes
    BY <1>1 DEF LlvmTypes, Llvm
  <2>2. Published(ty2)
    BY <1>1, Constants DEF Published, Defined, LlvmTypes, Type
  <2> QED
    BY <1>1, <2>1, <2>2 DEF Defined
<1>5. bd[c] = Opaque
  BY DEF State, Bodies
<1>6. fr \in Frame
  BY EmptySeq DEF Frame
<1>7. /\ st2 \in Seq(Frame) /\ Len(st2) = Len(st) + 1
      /\ st2[Len(st) + 1] = fr /\ \A i \in 1..Len(st) : st2[i] = st[i]
  BY <1>1, <1>6, AppendProperties
<1>8. FrameOK(ms, ty2, bd, fr)
  <2>1. Len(ms[c]) \in Nat
    BY <1>1, ListOf, LenProperties DEF Defined
  <2>2. PushedIn(ms[c], ty2, <<>>, 0)
    BY PushedNothing
  <2> HIDE DEF ty2
  <2> QED
    BY <1>3, <1>5, <2>1, <2>2 DEF FrameOK
<1>9. \A i \in 1..Len(st) : FrameOK(ms, ty2, bd, st[i]) /\ st[i].class # c
  <2>1. ASSUME NEW i \in 1..Len(st)
        PROVE  FrameOK(ms, ty2, bd, st[i]) /\ st[i].class # c
    <3>1. st[i] \in Frame /\ FrameOK(ms, ty, bd, st[i])
      BY <1>1, ElementOfSeq DEF State, Calls
    <3>2. st[i].class # c
      BY <3>1 DEF FrameOK
    <3> QED
      BY <1>1, <1>2, <3>1, <3>2, FrameGrows DEF Defined
  <2> QED
    BY <2>1
<1>10. Bodies(ms, ty2, bd)
  BY <1>1, <1>2, BodiesGrow DEF Defined, State
<1> HIDE DEF ty2, st2
<1>11. \A i : i \in 1..Len(st2) <=> i \in 1..Len(st) \/ i = Len(st) + 1
  BY <1>1, <1>7
<1>12. Calls(ms, ty2, bd, st2)
  <2>1. \A i \in 1..Len(st2) : FrameOK(ms, ty2, bd, st2[i])
    BY <1>7, <1>8, <1>9, <1>11
  <2>2. ASSUME NEW i \in 1..Len(st2), i < Len(st2)
        PROVE  Waits(ms, st2[i], st2[i + 1])
    <3>1. i \in 1..Len(st) /\ st2[i] = st[i]
      BY <1>1, <1>7, <1>11, <2>2
    <3>2. CASE i = Len(st)
      <4>1. st # <<>>
        BY <3>1, <3>2
      <4> QED
        BY <1>7, <3>1, <3>2, <4>1
    <3>3. CASE i < Len(st)
      <4>1. i + 1 \in 1..Len(st) /\ Waits(ms, st[i], st[i + 1])
        BY <1>1, <3>1, <3>3 DEF State, Calls
      <4> QED
        BY <1>7, <3>1, <4>1
    <3> QED
      BY <1>1, <3>1, <3>2, <3>3
  <2>3. ASSUME NEW i \in 1..Len(st2), NEW j \in 1..Len(st2), st2[i].class = st2[j].class
        PROVE  i = j
    BY <1>7, <1>9, <1>11, <2>3 DEF State, Calls
  <2> QED
    BY <2>1, <2>2, <2>3 DEF Calls
<1>13. Opaques(ty2, bd, st2)
  <2>1. ASSUME NEW d \in Class
        PROVE  (ty2[d] # Null /\ bd[d] = Opaque) <=> \E i \in 1..Len(st2) : st2[i].class = d
    <3>1. (\E i \in 1..Len(st2) : st2[i].class = d) <=>
            d = c \/ \E i \in 1..Len(st) : st[i].class = d
      <4>1. fr.class = c
        OBVIOUS
      <4> QED
        BY <1>1, <1>7, <1>11, <4>1
    <3>2. CASE d = c
      BY <1>3, <1>5, <3>1, <3>2
    <3>3. CASE d # c
      BY <1>3, <3>1, <3>3 DEF State, Opaques
    <3> QED
      BY <3>2, <3>3
  <2> QED
    BY <2>1 DEF Opaques
<1>14. State(ms, ty2, bd, st2)
  BY <1>4, <1>7, <1>10, <1>12, <1>13 DEF State
<1> QED
  BY <1>14 DEF ty2, st2

\* The call on top goes on.
LEMMA TopStep ==
  ASSUME NEW ms, NEW ty, NEW bd, NEW st, State(ms, ty, bd, st), st # <<>>,
         NEW fr \in Frame, fr.class = st[Len(st)].class, FrameOK(ms, ty, bd, fr)
  PROVE  State(ms, ty, bd, [st EXCEPT ![Len(st)] = fr])
<1> DEFINE n   == Len(st)
           st2 == [st EXCEPT ![n] = fr]
<1>1. st \in Seq(Frame) /\ n \in 1..Len(st) /\ n \in Nat
  BY EmptySeq DEF State
<1>2. /\ st2 \in Seq(Frame) /\ Len(st2) = n
      /\ \A j \in 1..n : st2[j] = IF j = n THEN fr ELSE st[j]
  BY <1>1, ExceptSeq
<1>3. \A j \in 1..n : st2[j].class = st[j].class
  BY <1>2
<1>4. ASSUME NEW j \in 1..n, j < n
      PROVE  st2[j] = st[j]
  <2>1. j # n
    BY <1>1, <1>4
  <2> QED
    BY <1>2, <2>1
<1>5. st2[n] = fr
  BY <1>1, <1>2
<1> HIDE DEF st2
<1>6. \A j \in 1..n : FrameOK(ms, ty, bd, st2[j])
  BY <1>1, <1>2 DEF State, Calls
<1>7. ASSUME NEW j \in 1..n, j < n
      PROVE  Waits(ms, st2[j], st2[j + 1])
  <2>1. Waits(ms, st[j], st[j + 1]) /\ j + 1 \in 1..n
    BY <1>1, <1>7 DEF State, Calls
  <2>2. st2[j] = st[j] /\ st2[j + 1].class = st[j + 1].class
    BY <1>3, <1>4, <1>7, <2>1
  <2> QED
    BY <2>1, <2>2 DEF Waits
<1>8. \A i, j \in 1..n : st2[i].class = st2[j].class => i = j
  BY <1>3 DEF State, Calls
<1>9. Opaques(ty, bd, st2)
  BY <1>2, <1>3 DEF State, Opaques
<1>10. State(ms, ty, bd, st2)
  BY <1>2, <1>6, <1>7, <1>8, <1>9 DEF State, Calls
<1> QED
  BY <1>10 DEF st2

\* The call on top returns, with the body of its class.
LEMMA ReturnStep ==
  ASSUME NEW ms, NEW ty, NEW bd, NEW st, State(ms, ty, bd, st), st # <<>>,
         NEW fr, fr = st[Len(st)], fr.next = Len(ms[fr.class]) + 1
  PROVE  State(ms, [ty EXCEPT ![fr.class] = fr.class], [bd EXCEPT ![fr.class] = fr.fields],
               SubSeq(st, 1, Len(st) - 1))
<1> DEFINE n   == Len(st)
           c   == fr.class
           ty2 == [ty EXCEPT ![c] = c]
           bd2 == [bd EXCEPT ![c] = fr.fields]
           st2 == SubSeq(st, 1, n - 1)
<1>1. st \in Seq(Frame) /\ n \in 1..Len(st) /\ n \in Nat /\ Defined(ms, ty, bd)
  BY EmptySeq DEF State
<1>2. /\ fr \in Frame /\ c \in Class /\ fr.fields \in Seq(Element) /\ FrameOK(ms, ty, bd, fr)
      /\ fr.fields # Opaque
  <2>1. fr \in Frame
    BY <1>1, ElementOfSeq
  <2> QED
    BY <1>1, <2>1, Constants DEF Frame, State, Calls, Opaque
<1>3. ty2 = ty
  <2>1. ty[c] = c /\ ty \in LlvmTypes
    BY <1>1, <1>2 DEF FrameOK, Defined, Published
  <2> QED
    BY <2>1 DEF LlvmTypes
<1>4. /\ bd2 \in [Class -> Seq(Element) \cup {Opaque}] /\ bd2[c] = fr.fields
      /\ \A d \in Class : d # c => bd2[d] = bd[d]
  BY <1>1, <1>2 DEF Defined
<1>5. st2 \in Seq(Frame) /\ Len(st2) = n - 1 /\ \A i \in 1..n - 1 : st2[i] = st[i]
  <2>1. \A i \in 1..n - 1 : st[i] \in Frame
    BY <1>1, ElementOfSeq
  <2>2. 1 \in Int /\ n - 1 \in Int /\ n - 1 >= 0
    BY <1>1
  <2>3. /\ SubSeq(st, 1, n - 1) \in Seq(Frame)
        /\ Len(SubSeq(st, 1, n - 1)) = IF 1 <= n - 1 THEN (n - 1) - 1 + 1 ELSE 0
        /\ \A i \in 1..(n - 1) - 1 + 1 : SubSeq(st, 1, n - 1)[i] = st[1 + i - 1]
    <3> HIDE DEF n
    <3> QED
      BY <2>1, <2>2, SubSeqProperties
  <2> HIDE DEF n, c
  <2>4. Len(st2) = n - 1
    BY <2>2, <2>3
  <2>5. ASSUME NEW i \in 1..n - 1
        PROVE  st2[i] = st[i]
    <3>1. i \in 1..(n - 1) - 1 + 1 /\ 1 + i - 1 = i
      BY <2>2
    <3> QED
      BY <2>3, <3>1
  <2> QED
    BY <2>3, <2>4, <2>5
<1>6. Len(ms[c]) \in Nat /\ PushedIn(ms[c], ty, fr.fields, Len(ms[c]))
  <2>1. Len(ms[c]) \in Nat
    BY <1>1, <1>2, ListOf, LenProperties DEF Defined
  <2>2. fr.next - 1 = Len(ms[c])
    BY <2>1
  <2> QED
    BY <1>2, <2>1, <2>2 DEF FrameOK
<1> HIDE DEF bd2, st2
<1>7. \A i \in 1..n - 1 : st[i].class # c /\ i \in 1..Len(st) /\ st[i].class \in Class
  <2>1. \A i \in 1..n - 1 : i \in 1..Len(st) /\ i # n
    BY <1>1
  <2>2. \A i \in 1..n - 1 : st[i].class # st[n].class
    BY <1>1, <2>1 DEF State, Calls
  <2>3. \A i \in 1..n - 1 : st[i] \in Frame
    BY <1>1, <2>1, ElementOfSeq
  <2> QED
    BY <2>1, <2>2, <2>3 DEF Frame
<1>8. ASSUME NEW i \in 1..n - 1
      PROVE  FrameOK(ms, ty, bd2, st2[i])
  <2>1. FrameOK(ms, ty, bd, st[i])
    BY <1>7 DEF State, Calls
  <2>2. bd2[st[i].class] = bd[st[i].class] /\ st2[i] = st[i]
    BY <1>4, <1>5, <1>7
  <2> QED
    BY <2>1, <2>2 DEF FrameOK
<1>9. ASSUME NEW i \in 1..n - 1, i < n - 1
      PROVE  Waits(ms, st2[i], st2[i + 1])
  <2>1. i + 1 \in 1..n - 1 /\ i \in 1..Len(st) /\ i < Len(st)
    BY <1>1, <1>9
  <2> QED
    BY <1>5, <2>1 DEF State, Calls
<1>10. \A i, j \in 1..n - 1 : st2[i].class = st2[j].class => i = j
  BY <1>5, <1>7 DEF State, Calls
<1>11. Bodies(ms, ty, bd2)
  <2>1. ASSUME NEW d \in Class, bd2[d] # Opaque
        PROVE  ty[d] # Null /\ PushedIn(ms[d], ty, bd2[d], Len(ms[d]))
    <3>1. CASE d = c
      BY <1>2, <1>4, <1>6, <3>1 DEF FrameOK
    <3>2. CASE d # c
      BY <1>4, <2>1, <3>2 DEF State, Bodies
    <3> QED
      BY <3>1, <3>2
  <2> QED
    BY <2>1 DEF Bodies
<1>12. Opaques(ty, bd2, st2)
  <2>1. ASSUME NEW d \in Class
        PROVE  (ty[d] # Null /\ bd2[d] = Opaque) <=> \E i \in 1..Len(st2) : st2[i].class = d
    <3>1. CASE d = c
      BY <1>2, <1>4, <1>5, <1>7, <3>1
    <3>2. CASE d # c
      <4>1. (ty[d] # Null /\ bd2[d] = Opaque) <=> \E i \in 1..n : st[i].class = d
        BY <1>4, <3>2 DEF State, Opaques
      <4>2. \A i \in 1..n : st[i].class = d => i \in 1..n - 1
        BY <1>1, <3>2
      <4> QED
        BY <1>5, <1>7, <4>1, <4>2
    <3> QED
      BY <3>1, <3>2
  <2> QED
    BY <2>1 DEF Opaques
<1>13. State(ms, ty, bd2, st2)
  BY <1>1, <1>4, <1>5, <1>8, <1>9, <1>10, <1>11, <1>12 DEF State, Calls, Defined
<1> QED
  BY <1>3, <1>13 DEF bd2, st2

\* An error leaves a struct opaque for the field at which its call was.
LEMMA ThrowStep ==
  ASSUME NEW ms, NEW ty, NEW bd, NEW st, State(ms, ty, bd, st),
         st # <<>> => LET c == st[Len(st)].class
                      IN \E k \in 1..Len(ms[c]) : ms[c][k].mem_ty = "Field" /\ ms[c][k].ty = "Char",
         NEW c \in Class, ty[c] # Null, bd[c] = Opaque
  PROVE  \E k \in 1..Len(ms[c]) :
           /\ ms[c][k].mem_ty = "Field"
           /\ \/ ms[c][k].ty = "Char"
              \/ ms[c][k].ty \in Class /\ ty[ms[c][k].ty] # Null /\ bd[ms[c][k].ty] = Opaque
<1>1. PICK i \in 1..Len(st) : st[i].class = c
  BY DEF State, Opaques
<1>2. st \in Seq(Frame) /\ Len(st) \in Nat
  BY LenProperties DEF State
<1>3. CASE i = Len(st)
  BY <1>1, <1>2, <1>3
<1>4. CASE i < Len(st)
  <2>1. /\ Waits(ms, st[i], st[i + 1]) /\ FrameOK(ms, ty, bd, st[i])
        /\ i + 1 \in 1..Len(st) /\ FrameOK(ms, ty, bd, st[i + 1])
    BY <1>1, <1>2, <1>4 DEF State, Calls
  <2>2. st[i + 1].class \in Class
    <3>1. st[i + 1] \in Frame
      BY <1>2, <2>1, ElementOfSeq
    <3> QED
      BY <3>1 DEF Frame
  <2>3. Len(ms[c]) \in Nat
    BY <1>1, ListOf, LenProperties DEF State, Defined
  <2>4. st[i].next \in 1..Len(ms[c])
    BY <1>1, <2>1, <2>3 DEF Waits, FrameOK
  <2> QED
    BY <1>1, <2>1, <2>2, <2>4 DEF Waits, FrameOK
<1> QED
  BY <1>1, <1>2, <1>3, <1>4
-----------------------------------------------------------------------------
(* The invariant *)

LEMMA InitHolds == Init => LayoutInv
<1> SUFFICES ASSUME Init PROVE LayoutInv
  OBVIOUS
<1>1. members \in [Class -> Lists] /\ llvm_type = [t \in Type |-> Null]
      /\ body = [c \in Class |-> Opaque] /\ stack = <<>> /\ thrown = FALSE
  BY DEF Init
<1>2. TypeOK
  BY <1>1, EmptySeq DEF TypeOK
<1>3. /\ \A c \in Class : llvm_type[c] = Null /\ body[c] = Opaque
      /\ \A t \in Basic : llvm_type[t] = Null
      /\ llvm_type["Char"] = Null /\ Len(stack) = 0
  BY <1>1 DEF Type
<1>4. OpaqueOnStack /\ LeftOpaque /\ NoBadRecursion
  BY <1>1, <1>3 DEF OpaqueOnStack, LeftOpaque, NoBadRecursion, OnStack
<1>5. FramesInv
  BY <1>1, <1>3 DEF FramesInv
<1> QED
  BY <1>2, <1>3, <1>4, <1>5 DEF LayoutInv

\* logError() in getLlvmType(), from outside or for the field of the call on top.
LEMMA UnknownStep ==
  ASSUME LayoutInv, ~ thrown, NEW t, UnknownType(t),
         stack # <<>> => \E mem \in Member : AtMember(mem) /\ mem.mem_ty = "Field" /\ mem.ty = t
  PROVE  LayoutInv'
<1>1. State(members, llvm_type, body, stack)
  BY StateHolds
<1>2. /\ t = "Char" /\ thrown' = TRUE /\ stack' = <<>>
      /\ members' = members /\ llvm_type' = llvm_type /\ body' = body
  BY DEF UnknownType
<1>3. stack # <<>> => LET c == stack[Len(stack)].class
                      IN \E k \in 1..Len(members[c]) :
                           members[c][k].mem_ty = "Field" /\ members[c][k].ty = "Char"
  <2> SUFFICES ASSUME stack # <<>>
               PROVE  LET c == stack[Len(stack)].class
                      IN \E k \in 1..Len(members[c]) :
                           members[c][k].mem_ty = "Field" /\ members[c][k].ty = "Char"
    OBVIOUS
  <2>1. Top.next <= Len(members[Top.class]) /\ members[Top.class][Top.next].mem_ty = "Field"
        /\ members[Top.class][Top.next].ty = "Char"
    BY <1>2 DEF AtMember
  <2>2. stack \in Seq(Frame) /\ Len(stack) \in 1..Len(stack)
    BY <1>1, EmptySeq DEF State
  <2>3. FrameOK(members, llvm_type, body, Top)
    BY <1>1, <2>2 DEF State, Calls, Top
  <2>4. Top.next \in 1..Len(members[Top.class])
    <3>1. Top \in Frame
      BY <2>2, ElementOfSeq DEF Top
    <3>2. Len(members[Top.class]) \in Nat
      BY <1>1, <3>1, ListOf, LenProperties DEF State, Defined, Frame
    <3> QED
      BY <2>1, <2>3, <3>2 DEF FrameOK
  <2> QED
    BY <2>1, <2>4 DEF Top
<1>4. LeftOpaque'
  <2>1. ASSUME NEW c \in Class, llvm_type[c] # Null, body[c] = Opaque
        PROVE  \E k \in 1..Len(members[c]) :
                 /\ members[c][k].mem_ty = "Field"
                 /\ \/ members[c][k].ty = "Char"
                    \/ /\ members[c][k].ty \in Class /\ llvm_type[members[c][k].ty] # Null
                       /\ body[members[c][k].ty] = Opaque
    BY <1>1, <1>3, <2>1, ThrowStep
  <2> QED
    BY <1>2, <2>1 DEF LeftOpaque
<1>5. TypeOK'
  BY <1>2, EmptySeq DEF LayoutInv, TypeOK
<1>6. Len(stack') = 0
  BY <1>2
<1>7. NoBadRecursion' /\ OpaqueOnStack'
  BY <1>2, <1>6 DEF NoBadRecursion, OpaqueOnStack
<1>8. FramesInv'
  <2>1. \A c \in Class : body[c] # Opaque =>
          llvm_type[c] # Null /\ PushedIn(members[c], llvm_type, body[c], Len(members[c]))
    BY <1>1 DEF State, Bodies
  <2> QED
    BY <1>2, <1>6, <2>1 DEF FramesInv, Pushed, PushedIn
<1>9. /\ \A c \in Class : llvm_type'[c] \in {c, Null}
      /\ \A u \in Basic : llvm_type'[u] \in {basic[u], Null}
      /\ llvm_type'["Char"] = Null
  BY <1>2 DEF LayoutInv
<1> QED
  BY <1>4, <1>5, <1>7, <1>8, <1>9 DEF LayoutInv

\* getLlvmType(), from outside or for the field of the call on top.
LEMMA AskStep ==
  ASSUME LayoutInv, ~ thrown, NEW t, getLlvmType(t),
         stack # <<>> => \E mem \in Member : AtMember(mem) /\ mem.mem_ty = "Field" /\ mem.ty = t
  PROVE  LayoutInv'
<1>1. State(members, llvm_type, body, stack) /\ llvm_type[t] = Null
  BY StateHolds DEF getLlvmType
<1>2. ASSUME GetClassLlvmType(t)
      PROVE  LayoutInv'
  <2> DEFINE fr == [class |-> t, next |-> 1, fields |-> <<>>]
  <2>1. stack # <<>> => Waits(members, stack[Len(stack)], fr)
    BY DEF AtMember, Waits, Top
  <2>2. t \in Class
    BY <1>2 DEF GetClassLlvmType
  <2>3. State(members, [llvm_type EXCEPT ![t] = t], body, Append(stack, fr))
    <3> HIDE DEF fr
    <3>1. fr = [class |-> t, next |-> 1, fields |-> <<>>]
      BY DEF fr
    <3> QED
      BY <1>1, <2>1, <2>2, <3>1, CallStep
  <2>4. State(members', llvm_type', body', stack') /\ thrown' = FALSE
    BY <1>2, <2>3 DEF GetClassLlvmType, LayoutInv, TypeOK
  <2> QED
    BY <2>4, StateNext
<1>3. ASSUME GetBasicLlvmType(t)
      PROVE  LayoutInv'
  <2>1. t \in Basic
    BY <1>3 DEF GetBasicLlvmType
  <2>2. State(members, [llvm_type EXCEPT ![t] = basic[t]], body, stack)
    BY <1>1, <2>1, BasicStep
  <2>3. State(members', llvm_type', body', stack') /\ thrown' = FALSE
    BY <1>3, <2>2 DEF GetBasicLlvmType, LayoutInv, TypeOK
  <2> QED
    BY <2>3, StateNext
<1>4. ASSUME UnknownType(t)
      PROVE  LayoutInv'
  BY <1>4, UnknownStep
<1> QED
  BY <1>2, <1>3, <1>4 DEF getLlvmType

\* The call on top has passed over its next member with the fields `pushed'.
LEMMA PassStep ==
  ASSUME LayoutInv, ~ thrown, stack # <<>>, NEW pushed \in Seq(Element),
         Top.next <= Len(members[Top.class]),
         PushedIn(members[Top.class], llvm_type, pushed, Top.next),
         stack' = Passed(pushed),
         UNCHANGED <<members, llvm_type, body, thrown>>
  PROVE  LayoutInv'
<1> DEFINE fr == [class |-> Top.class, next |-> Top.next + 1, fields |-> pushed]
<1>1. State(members, llvm_type, body, stack)
  BY StateHolds
<1>2. Top \in Frame /\ FrameOK(members, llvm_type, body, Top)
  <2>1. stack \in Seq(Frame) /\ Len(stack) \in 1..Len(stack)
    BY <1>1, EmptySeq DEF State
  <2> QED
    BY <1>1, <2>1, ElementOfSeq DEF State, Calls, Top
<1>3. Len(members[Top.class]) \in Nat /\ Top.next \in Nat \ {0} /\ Top.class \in Class
  BY <1>1, <1>2, ListOf, LenProperties DEF State, Defined, Frame
<1>4. fr \in Frame
  BY <1>3 DEF Frame
<1>5. FrameOK(members, llvm_type, body, fr)
  <2>1. fr.next - 1 = Top.next /\ fr.next \in 1..Len(members[Top.class]) + 1
    BY <1>3
  <2> QED
    BY <1>2, <2>1 DEF FrameOK
<1>6. fr.class = stack[Len(stack)].class /\ stack' = [stack EXCEPT ![Len(stack)] = fr]
  BY DEF Top, Passed
<1> HIDE DEF fr
<1>7. State(members, llvm_type, body, [stack EXCEPT ![Len(stack)] = fr])
  BY <1>1, <1>4, <1>5, <1>6, TopStep
<1>8. State(members', llvm_type', body', stack') /\ thrown' = FALSE
  BY <1>6, <1>7 DEF LayoutInv, TypeOK
<1> QED
  BY <1>8, StateNext

\* The call on top, as the steps below need it.
LEMMA TopHolds ==
  ASSUME LayoutInv, stack # <<>>
  PROVE  /\ ~ thrown /\ State(members, llvm_type, body, stack)
         /\ Top \in Frame /\ FrameOK(members, llvm_type, body, Top)
         /\ members[Top.class] \in Seq(Member)
         /\ PushedIn(members[Top.class], llvm_type, Top.fields, Top.next - 1)
<1>1. ~ thrown
  BY DEF LayoutInv, FramesInv
<1>2. State(members, llvm_type, body, stack)
  BY <1>1, StateHolds
<1>3. stack \in Seq(Frame) /\ Len(stack) \in 1..Len(stack)
  BY <1>2, EmptySeq DEF State
<1>4. Top \in Frame /\ FrameOK(members, llvm_type, body, Top)
  BY <1>2, <1>3, ElementOfSeq DEF State, Calls, Top
<1> QED
  BY <1>1, <1>2, <1>4, ListOf DEF State, Defined, Frame, FrameOK

LEMMA LayoutStep == LayoutInv /\ [Next]_vars => LayoutInv'
<1> SUFFICES ASSUME LayoutInv, [Next]_vars PROVE LayoutInv'
  OBVIOUS
<1>1. CASE Ask
  BY <1>1, AskStep DEF Ask
<1>2. CASE SkipMember
  <2>1. PICK mem \in Member : AtMember(mem) /\ mem.mem_ty # "Field"
    BY <1>2 DEF SkipMember
  <2>2. stack # <<>> /\ Top.next <= Len(members[Top.class])
        /\ members[Top.class][Top.next].mem_ty # "Field"
    BY <2>1 DEF AtMember
  <2>3. PICK n \in Nat : n + 1 = Top.next /\ n = Top.next - 1
    BY <2>2, TopHolds DEF Frame
  <2>4. PushedIn(members[Top.class], llvm_type, Top.fields, Top.next)
    <3>1. members[Top.class][n + 1].mem_ty # "Field" /\ PushedIn(members[Top.class], llvm_type, Top.fields, n)
      BY <2>2, <2>3, TopHolds
    <3>2. PushedIn(members[Top.class], llvm_type, Top.fields, n + 1)
      BY <3>1, PushedSkip
    <3> QED
      BY <2>3, <3>2
  <2>6. Top.fields \in Seq(Element) /\ ~ thrown
    BY <2>2, TopHolds DEF Frame
  <2> QED
    BY <1>2, <2>2, <2>4, <2>6, PassStep DEF SkipMember
<1>3. CASE AskField
  <2>1. PICK mem \in Member : AtMember(mem) /\ mem.mem_ty = "Field" /\ getLlvmType(mem.ty)
    BY <1>3 DEF AskField
  <2>2. ~ thrown
    BY <2>1, TopHolds DEF AtMember
  <2> QED
    BY <2>1, <2>2, AskStep
<1>4. CASE PushField
  <2>1. PICK mem \in Member, isNativeP \in BOOLEAN :
          /\ AtMember(mem) /\ mem.mem_ty = "Field" /\ llvm_type[mem.ty] # Null
          /\ stack' = Passed(Append(Top.fields, [of |-> llvm_type[mem.ty], pointer |-> isNativeP]))
    BY <1>4 DEF PushField
  <2> DEFINE elem == [of |-> llvm_type[mem.ty], pointer |-> isNativeP]
  <2>2. stack # <<>> /\ Top.next <= Len(members[Top.class])
        /\ members[Top.class][Top.next] = mem
    BY <2>1 DEF AtMember
  <2>3. PICK n \in Nat : n + 1 = Top.next /\ n = Top.next - 1
    BY <2>2, TopHolds DEF Frame
  <2>4. /\ ~ thrown /\ Top.fields \in Seq(Element) /\ members[Top.class] \in Seq(Member)
        /\ llvm_type \in LlvmTypes /\ Published(llvm_type)
        /\ PushedIn(members[Top.class], llvm_type, Top.fields, n)
    BY <2>2, <2>3, TopHolds DEF Frame, State, Defined
  <2>5. elem \in Element
    BY <2>1, <2>4 DEF Element, Member, LlvmTypes
  <2>6. n + 1 \in 1..Len(members[Top.class])
    BY <2>2, <2>3, <2>4, LenProperties
  <2>7. PushedIn(members[Top.class], llvm_type, Append(Top.fields, elem), Top.next)
    <3>1. elem.of = llvm_type[members[Top.class][n + 1].ty]
          /\ members[Top.class][n + 1].mem_ty = "Field"
      BY <2>1, <2>2, <2>3
    <3> HIDE DEF elem
    <3>2. PushedIn(members[Top.class], llvm_type, Append(Top.fields, elem), n + 1)
      BY <2>4, <2>5, <2>6, <3>1, PushedField
    <3> QED
      BY <2>3, <3>2
  <2>8. stack' = Passed(Append(Top.fields, elem))
    BY <2>1
  <2>9. Append(Top.fields, elem) \in Seq(Element)
    BY <2>4, <2>5, AppendProperties
  <2> HIDE DEF elem
  <2> QED
    BY <1>4, <2>2, <2>4, <2>7, <2>8, <2>9, PassStep DEF PushField
<1>5. CASE SetBody
  <2>1. stack # <<>> /\ Top.next = Len(members[Top.class]) + 1 /\ ~ thrown
        /\ State(members, llvm_type, body, stack)
    BY <1>5, TopHolds DEF SetBody
  <2>2. State(members, [llvm_type EXCEPT ![Top.class] = Top.class],
              [body EXCEPT ![Top.class] = Top.fields], SubSeq(stack, 1, Len(stack) - 1))
    BY <2>1, ReturnStep DEF Top
  <2>3. State(members', llvm_type', body', stack') /\ thrown' = FALSE
    BY <1>5, <2>1, <2>2 DEF SetBody, LayoutInv, TypeOK
  <2> QED
    BY <2>3, StateNext
<1>6. CASE UNCHANGED vars
  BY <1>6 DEF vars, LayoutInv, TypeOK, NoBadRecursion, OpaqueOnStack, OnStack, LeftOpaque, FramesInv, Pushed
<1> QED
  BY <1>1, <1>2, <1>3, <1>4, <1>5, <1>6 DEF Next
-----------------------------------------------------------------------------
(* The results *)

\* Every class is laid out as LayoutInv says, whatever refers to what
\* (ClassFactory.hpp:54-69, Types.hpp:197-232).
THEOREM LayoutInvariant == Spec => []LayoutInv
<1>1. Init => LayoutInv
  BY InitHolds
<1>2. LayoutInv /\ [Next]_vars => LayoutInv'
  BY LayoutStep
<1> QED
  BY <1>1, <1>2, PTL DEF Spec

\* No class is laid out inside its own layout (ClassFactory.hpp:58).
THEOREM RecursionCorrect == Spec => []NoBadRecursion
<1>1. LayoutInv => NoBadRecursion
  BY DEF LayoutInv
<1> QED
  BY <1>1, LayoutInvariant, PTL

\* Opaque structs are those being laid out (ClassFactory.hpp:58, 67).
THEOREM OpaqueCorrect == Spec => []OpaqueOnStack
<1>1. LayoutInv => OpaqueOnStack
  BY DEF LayoutInv
<1> QED
  BY <1>1, LayoutInvariant, PTL

\* An error leaves opaque only what could not be laid out (Types.hpp:228-229).
THEOREM LeftOpaqueCorrect == Spec => []LeftOpaque
<1>1. LayoutInv => LeftOpaque
  BY DEF LayoutInv
<1> QED
  BY <1>1, LayoutInvariant, PTL

\* Between calls no struct has an opaque element (ClassFactory.hpp:61-67).
THEOREM ClosedCorrect == Spec => []Closed
<1>1. LayoutInv => Closed
  <2> SUFFICES ASSUME LayoutInv, NEW c \in Class, body[c] # Opaque,
                      NEW k \in 1..Len(body[c]), body[c][k].of \in Class
               PROVE  /\ llvm_type[body[c][k].of] # Null
                      /\ stack = <<>> /\ ~ thrown => body[body[c][k].of] # Opaque
    BY DEF Closed
  <2>1. llvm_type[body[c][k].of] # Null
    BY DEF LayoutInv, FramesInv, Pushed
  <2>2. stack = <<>> => OnStack = {}
    BY DEF OnStack
  <2> QED
    BY <2>1, <2>2 DEF LayoutInv, OpaqueOnStack
<1> QED
  BY <1>1, LayoutInvariant, PTL

\* The index of a field is that of its element (Types.hpp:402-414,
\* Enviroment.hpp:78-83).
THEOREM IndicesCorrect == Spec => []LayoutAgrees
<1>1. LayoutInv => LayoutAgrees
  <2> SUFFICES ASSUME LayoutInv, NEW c \in Class, NEW name \in Name, body[c] # Opaque
               PROVE  LET idx == getFieldIndex(members[c], name)
                      IN IF Named(members[c], name) = {} THEN idx = -1
                         ELSE /\ idx \in 0..Len(body[c]) - 1
                              /\ body[c][idx + 1].of
                                   = llvm_type[members[c][First(Named(members[c], name))].ty]
    BY DEF LayoutAgrees
  <2>1. CASE Named(members[c], name) = {}
    BY <2>1 DEF getFieldIndex
  <2>2. CASE Named(members[c], name) # {}
    <3> DEFINE p == First(Named(members[c], name))
    <3>1. Len(members[c]) \in Nat
      BY ListOf, LenProperties DEF LayoutInv, TypeOK
    <3>2. p \in Named(members[c], name)
      <4>1. Named(members[c], name) \in SUBSET Nat
        BY DEF Named
      <4> QED
        BY <2>2, <4>1, FirstExists
    <3>3. p \in 1..Len(members[c]) /\ members[c][p].mem_ty = "Field"
      BY <3>2 DEF Named
    <3>4. getFieldIndex(members[c], name) = Fields(members[c], p - 1)
      BY <2>2 DEF getFieldIndex
    <3> HIDE DEF p
    <3>5. /\ Fields(members[c], p) \in 1..Fields(members[c], Len(members[c]))
          /\ Fields(members[c], p - 1) = Fields(members[c], p) - 1
      BY <3>1, <3>3, FieldCounted
    <3>6. /\ Len(body[c]) = Fields(members[c], Len(members[c])) /\ Len(body[c]) \in Nat
          /\ body[c][Fields(members[c], p)].of = llvm_type[members[c][p].ty]
      BY <3>1, <3>3, FieldsType DEF LayoutInv, FramesInv, Pushed
    <3>7. PICK m \in Nat : m = Fields(members[c], p) /\ getFieldIndex(members[c], name) = m - 1
      BY <3>4, <3>5, <3>6
    <3> QED
      BY <2>2, <3>5, <3>6, <3>7 DEF p
  <2> QED
    BY <2>1, <2>2
<1> QED
  BY <1>1, LayoutInvariant, PTL
-----------------------------------------------------------------------------
(* Why the recursion ends *)

\* The types that nobody has asked for.
Unpublished == { t \in Type : llvm_type[t] = Null }

\* A step publishes another type.
Publishes == Unpublished' \subseteq Unpublished /\ Unpublished' # Unpublished

\* The call on top passes a member, and those that wait for it stay where they are.
Onward ==
  /\ stack # <<>> /\ Len(stack') = Len(stack)
  /\ \A i \in 1..Len(stack) - 1 : stack'[i] = stack[i]
  /\ stack'[Len(stack)].class = Top.class
  /\ stack'[Len(stack)].next = Top.next + 1
  /\ Top.next <= Len(members[Top.class])

CallReturns == stack # <<>> /\ stack' = SubSeq(stack, 1, Len(stack) - 1)

Progress ==
  \/ thrown'
  \/ Publishes
  \/ Unpublished' = Unpublished /\ (Onward \/ CallReturns)

LEMMA AskPublishes ==
  ASSUME LayoutInv, NEW t \in Type, getLlvmType(t)
  PROVE  thrown' \/ Publishes
<1>1. llvm_type \in [Type -> Llvm \cup {Null}] /\ llvm_type[t] = Null
  BY DEF LayoutInv, TypeOK, getLlvmType
<1>2. ASSUME NEW v, v # Null, llvm_type' = [llvm_type EXCEPT ![t] = v]
      PROVE  Publishes
  <2>1. llvm_type'[t] # Null /\ \A u \in Type \ {t} : llvm_type'[u] = llvm_type[u]
    BY <1>1, <1>2
  <2>2. t \in Unpublished /\ t \notin Unpublished' /\ Unpublished' \subseteq Unpublished
    BY <1>1, <2>1 DEF Unpublished
  <2> QED
    BY <2>2 DEF Publishes
<1>3. CASE GetClassLlvmType(t)
  <2>1. t # Null /\ llvm_type' = [llvm_type EXCEPT ![t] = t]
    BY <1>3, Constants DEF GetClassLlvmType
  <2> QED
    BY <1>2, <2>1
<1>4. CASE GetBasicLlvmType(t)
  <2>1. basic[t] # Null /\ llvm_type' = [llvm_type EXCEPT ![t] = basic[t]]
    BY <1>4, Constants DEF GetBasicLlvmType
  <2> QED
    BY <1>2, <2>1
<1>5. CASE UnknownType(t)
  BY <1>5 DEF UnknownType
<1> QED
  BY <1>3, <1>4, <1>5 DEF getLlvmType

\* The loop of getClassLlvmType() goes on to the next member.
LEMMA PassedOnward ==
  ASSUME LayoutInv, NEW mem, AtMember(mem), NEW fields, stack' = Passed(fields)
  PROVE  Onward
<1>1. stack # <<>> /\ Top.next <= Len(members[Top.class])
  BY DEF AtMember
<1>2. stack \in Seq(Frame) /\ Len(stack) \in 1..Len(stack)
  BY <1>1, EmptySeq, LenProperties DEF LayoutInv, TypeOK
<1> DEFINE fr == [class |-> Top.class, next |-> Top.next + 1, fields |-> fields]
<1>3. stack' = [stack EXCEPT ![Len(stack)] = fr]
  BY DEF Passed
<1>4. fr.class = Top.class /\ fr.next = Top.next + 1
  OBVIOUS
<1> HIDE DEF fr
<1>5. /\ Len(stack') = Len(stack)
      /\ \A i \in 1..Len(stack) - 1 : stack'[i] = stack[i]
      /\ stack'[Len(stack)] = fr
  <2>1. stack \in Seq(Frame \cup {fr}) /\ fr \in Frame \cup {fr}
    BY <1>2, SeqMonotonic
  <2>2. /\ Len([stack EXCEPT ![Len(stack)] = fr]) = Len(stack)
        /\ \A i \in 1..Len(stack) :
             [stack EXCEPT ![Len(stack)] = fr][i] = IF i = Len(stack) THEN fr ELSE stack[i]
    BY <1>2, <2>1, ExceptSeq
  <2>3. \A i \in 1..Len(stack) - 1 : i \in 1..Len(stack) /\ i # Len(stack)
    BY <1>2, LenProperties
  <2> QED
    BY <1>2, <1>3, <2>2, <2>3
<1> QED
  BY <1>1, <1>4, <1>5 DEF Onward

\* Why a layout ends: each step asks for a type that nobody has asked for, or passes
\* one of the finitely many members of the call on top, or returns from it, or is
\* the error that ends the compiler.  The classes may refer to each other in any
\* cycles, since a class that is asked for again is not laid out again
\* (ClassFactory.hpp:54-69, Types.hpp:197-232).
THEOREM LayoutProgress == Spec => [][Progress]_vars
<1>1. LayoutInv /\ [Next]_vars => [Progress]_vars
  <2> SUFFICES ASSUME LayoutInv, Next PROVE Progress
    BY DEF Progress
  <2>1. CASE Ask
    BY <2>1, AskPublishes DEF Ask, Progress
  <2>2. CASE AskField
    BY <2>2, AskPublishes DEF AskField, Progress, Member
  <2>3. CASE SkipMember \/ PushField
    <3>1. Unpublished' = Unpublished
      BY <2>3 DEF SkipMember, PushField, Unpublished
    <3>2. Onward
      BY <2>3, PassedOnward DEF SkipMember, PushField
    <3> QED
      BY <3>1, <3>2 DEF Progress
  <2>4. CASE SetBody
    <3>1. stack # <<>> /\ CallReturns
      BY <2>4 DEF SetBody, CallReturns
    <3>2. Top.class \in Class /\ llvm_type[Top.class] # Null
      BY <3>1, TopHolds DEF FrameOK, Frame
    <3>3. llvm_type' = [llvm_type EXCEPT ![Top.class] = Top.class] /\ Top.class # Null
      BY <2>4, <3>2, Constants DEF SetBody
    <3>4. Unpublished' = Unpublished
      BY <3>2, <3>3 DEF Unpublished, LayoutInv, TypeOK
    <3> QED
      BY <3>1, <3>4 DEF Progress
  <2> QED
    BY <2>1, <2>2, <2>3, <2>4 DEF Next
<1> QED
  BY <1>1, LayoutInvariant, PTL DEF Spec

\* Calls of getClassLlvmType() wait for each other at most as deep as there are
\* classes, which is how much of the C++ stack the recursion can take
\* (ClassFactory.hpp:58-64).
DepthBounded == IsFiniteSet(Class) => Len(stack) <= Cardinality(Class)

THEOREM DepthCorrect == Spec => []DepthBounded
<1>1. ASSUME LayoutInv, IsFiniteSet(Class)
      PROVE  Len(stack) <= Cardinality(Class)
  <2> DEFINE call == [i \in 1..Len(stack) |-> stack[i].class]
  <2>1. stack \in Seq(Frame) /\ Len(stack) \in Nat
    BY <1>1, LenProperties DEF LayoutInv, TypeOK
  <2>2. \A i \in 1..Len(stack) : stack[i].class \in Class
    <3>1. \A i \in 1..Len(stack) : stack[i] \in Frame
      BY <2>1, ElementOfSeq
    <3> QED
      BY <3>1 DEF Frame
  <2>3. \A i, j \in 1..Len(stack) : call[i] = call[j] => i = j
    BY <1>1 DEF LayoutInv, NoBadRecursion
  <2>4. call \in Injection(1..Len(stack), Class)
    BY <2>2, <2>3 DEF Injection, IsInjective
  <2>5. Cardinality(1..Len(stack)) <= Cardinality(Class)
    BY <1>1, <2>4, FS_Injection
  <2>6. Cardinality(1..Len(stack)) = Len(stack)
    BY <2>1, FS_Interval, SMTT(30)
  <2> QED
    BY <2>5, <2>6
<1>2. LayoutInv => DepthBounded
  BY <1>1 DEF DepthBounded
<1> QED
  BY <1>2, LayoutInvariant, PTL
=============================================================================
