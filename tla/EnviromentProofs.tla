-------------------------- MODULE EnviromentProofs --------------------------
(***************************************************************************)
(* The environment implements lexical scoping, for stacks of any depth.    *)
(* The walk of findVar() passes only levels without the name (WalkInv), so *)
(* that the level it stops at is the innermost one that binds it.          *)
(***************************************************************************)
EXTENDS Enviroment, SequenceTheorems, WellFoundedInduction, TLAPS

\* A non-empty set of levels has a last one.
LEMMA LastLevel ==
  ASSUME NEW k \in Nat, NEW T \in SUBSET (1..k), T # {}
  PROVE  \E m \in T : \A l \in T : l <= m
<1> DEFINE R == OpToRel(<, Nat)
           D == { k - j : j \in T }
<1>0. \A j \in T : j \in 1..k /\ j \in Int /\ k - j \in Nat
  OBVIOUS
<1>1. D \subseteq Nat /\ D # {}
  <2>1. ASSUME NEW e \in D
        PROVE  e \in Nat
    <3>1. PICK j \in T : e = k - j
      BY <2>1
    <3> QED
      BY <1>0, <3>1
  <2>2. PICK j \in T : TRUE
    OBVIOUS
  <2>3. k - j \in D
    BY <2>2
  <2> QED
    BY <2>1, <2>3
<1>2. PICK d \in D : \A e \in D : ~ (<<e, d>> \in R)
  BY <1>1, NatLessThanWellFounded, WFMin
<1>3. \A e \in D : ~ (e < d)
  BY <1>1, <1>2 DEF OpToRel
<1>4. PICK m \in T : d = k - m
  BY <1>2
<1>5. \A l \in T : k - l \in D /\ l \in Int /\ m \in Int
  <2>1. ASSUME NEW l \in T
        PROVE  k - l \in D
    BY <2>1
  <2> QED
    BY <1>0, <2>1
<1> HIDE DEF D
<1> QED
  BY <1>3, <1>4, <1>5
-----------------------------------------------------------------------------
(* What a name is bound to on a stack of maps. *)

LEMMA BoundAt ==
  ASSUME NEW st, NEW k \in Nat, NEW n, NEW j \in 1..k,
         st[j][n] # None, \A l \in j + 1..k : st[l][n] = None
  PROVE  Bound(st, k, n) = st[j][n]
<1> DEFINE P(h) == st[h][n] # None /\ \A l \in h + 1..k : st[l][n] = None
<1>1. \A h \in 1..k : P(h) => h = j
  <2> SUFFICES ASSUME NEW h \in 1..k, P(h)
               PROVE  h = j
    OBVIOUS
  <2>1. ~ (h < j) /\ ~ (j < h)
    OBVIOUS
  <2> QED
    BY <2>1
<1>2. P(j)
  OBVIOUS
<1>3. Innermost(st, k, n) = j
  BY <1>1, <1>2 DEF Innermost
<1> QED
  BY <1>3 DEF Bound

LEMMA BoundNowhere ==
  ASSUME NEW st, NEW k, NEW n, \A j \in 1..k : st[j][n] = None
  PROVE  Bound(st, k, n) = None
BY DEF Bound

\* A name is bound at some innermost level, or at none.
LEMMA BoundCases ==
  ASSUME NEW st, NEW k \in Nat, NEW n
  PROVE  \/ \A j \in 1..k : st[j][n] = None
         \/ \E j \in 1..k : st[j][n] # None /\ \A l \in j + 1..k : st[l][n] = None
<1> DEFINE T == { j \in 1..k : st[j][n] # None }
<1>1. CASE T = {}
  BY <1>1
<1>2. CASE T # {}
  <2>1. PICK m \in T : \A l \in T : l <= m
    BY <1>2, LastLevel
  <2>2. \A l \in m + 1..k : l \in 1..k /\ ~ (l <= m)
    BY <2>1
  <2> QED
    BY <2>1, <2>2
<1> QED
  BY <1>1, <1>2

\* It depends on the levels up to k only.
LEMMA BoundSame ==
  ASSUME NEW st, NEW ts, NEW k \in Nat, NEW n,
         \A j \in 1..k : st[j][n] = ts[j][n]
  PROVE  Bound(st, k, n) = Bound(ts, k, n)
<1>1. CASE \A j \in 1..k : st[j][n] = None
  BY <1>1, BoundNowhere
<1>2. CASE \E j \in 1..k : st[j][n] # None /\ \A l \in j + 1..k : st[l][n] = None
  <2>1. PICK j \in 1..k : st[j][n] # None /\ \A l \in j + 1..k : st[l][n] = None
    BY <1>2
  <2>2. ts[j][n] # None /\ \A l \in j + 1..k : ts[l][n] = None
    BY <2>1
  <2> QED
    BY <2>1, <2>2, BoundAt
<1> QED
  BY <1>1, <1>2, BoundCases

\* A level without the name adds nothing to the levels below.
LEMMA BoundBelow ==
  ASSUME NEW st, NEW k \in Nat, NEW n, st[k + 1][n] = None
  PROVE  Bound(st, k + 1, n) = Bound(st, k, n)
<1>1. \A l \in 1..k + 1 : l \in 1..k \/ l = k + 1
  OBVIOUS
<1>2. CASE \A j \in 1..k : st[j][n] = None
  BY <1>1, <1>2, BoundNowhere
<1>3. CASE \E j \in 1..k : st[j][n] # None /\ \A l \in j + 1..k : st[l][n] = None
  <2>1. PICK j \in 1..k : st[j][n] # None /\ \A l \in j + 1..k : st[l][n] = None
    BY <1>3
  <2>2. j \in 1..k + 1 /\ \A l \in j + 1..k + 1 : st[l][n] = None
    BY <2>1
  <2> QED
    BY <2>1, <2>2, BoundAt
<1> QED
  BY <1>2, <1>3, BoundCases
-----------------------------------------------------------------------------
(* The walk of findVar(). *)

LEMMA WalkInit == Init => WalkInv
<1> SUFFICES ASSUME Init PROVE WalkInv
  OBVIOUS
<1>1. Empty \in Map /\ Len(localVarMap) = 0 /\ localVarMap \in Seq(Map)
  BY EmptySeq DEF Init, Empty, Map
<1> QED
  BY <1>1 DEF Init, WalkInv, TypeOK, Passed, WalkEnded

\* No step changes the type of the stack.
LEMMA StackType ==
  ASSUME WalkInv, [Next]_vars
  PROVE  localVarMap' \in Seq(Map)
<1>1. localVarMap \in Seq(Map) /\ Empty \in Map /\ Len(localVarMap) \in Nat
  BY LenProperties DEF WalkInv, TypeOK, Empty, Map
<1>2. CASE beginScope
  BY <1>1, <1>2, AppendProperties DEF beginScope
<1>3. CASE endScope
  <2>1. Len(localVarMap) \in Nat \ {0}
    BY <1>1, <1>3, EmptySeq DEF endScope
  <2>2. \A k \in 1..Len(localVarMap) - 1 : localVarMap[k] \in Map
    BY <1>1, <2>1, ElementOfSeq
  <2> QED
    BY <1>3, <2>1, <2>2, SubSeqProperties DEF endScope
<1>4. CASE \E n \in Name, v \in Value : addLocal(n, v)
  <2>1. PICK n \in Name, v \in Value : addLocal(n, v)
    BY <1>4
  <2> DEFINE last == Len(localVarMap)
             top == [localVarMap[last] EXCEPT ![n] = v]
  <2>2. last \in 1..Len(localVarMap)
    BY <1>1, <2>1, EmptySeq DEF addLocal
  <2>3. localVarMap[last] \in Map
    BY <1>1, <2>2, ElementOfSeq
  <2>4. top \in Map
    BY <2>3 DEF Map
  <2>5. localVarMap' = [localVarMap EXCEPT ![last] = top]
    BY <2>1 DEF addLocal
  <2> HIDE DEF top, last
  <2> QED
    BY <1>1, <2>2, <2>4, <2>5, ExceptSeq
<1>5. CASE UNCHANGED localVarMap
  BY <1>1, <1>5
<1> QED
  BY <1>2, <1>3, <1>4, <1>5
  DEF Next, vars, NoScope, addParam, setSelfContext, findVar, FoundLocal, NextLevel,
      FoundParam, NoParam, FindField, UnknownType, Uninitialized, ReturnValue

\* The operations, between two calls of findVar().
LEMMA OperationStep ==
  ASSUME WalkInv, localVarMap' \in Seq(Map),
         \/ beginScope \/ endScope \/ NoScope
         \/ \E n \in Name, v \in Value : addLocal(n, v) \/ addParam(n, v)
         \/ \E ty \in Class, self_param \in Value \cup {None} : setSelfContext(ty, self_param)
         \/ UNCHANGED vars
  PROVE  WalkInv'
<1>1. TypeOK /\ Len(localVarMap') \in Nat
  BY LenProperties DEF WalkInv
<1>2. CASE UNCHANGED vars
  BY <1>2 DEF vars, WalkInv, TypeOK, Passed, WalkEnded
<1>3. CASE NoScope
  BY <1>3 DEF NoScope, WalkInv, TypeOK, Passed, WalkEnded
<1>4. CASE \E ty \in Class, self_param \in Value \cup {None} : setSelfContext(ty, self_param)
  BY <1>4 DEF setSelfContext, WalkInv, TypeOK, Passed, WalkEnded
<1>5. CASE \E n \in Name, v \in Value : addParam(n, v)
  BY <1>5 DEF addParam, WalkInv, TypeOK, Passed, WalkEnded, Map
<1>6. CASE \/ beginScope \/ endScope
           \/ \E n \in Name, v \in Value : addLocal(n, v)
  <2>1. /\ pc = "idle" /\ pc' = "idle"
        /\ UNCHANGED <<paramMap, self_context, self, name, i, result>>
    BY <1>6 DEF beginScope, endScope, addLocal
  <2>2. i = 0
    BY <2>1 DEF WalkInv, WalkEnded
  <2> QED
    BY <1>1, <2>1, <2>2 DEF WalkInv, TypeOK, Passed, WalkEnded
<1> QED
  BY <1>2, <1>3, <1>4, <1>5, <1>6

\* The steps of findVar().
LEMMA WalkStep ==
  ASSUME WalkInv,
         \/ findVar \/ FoundLocal \/ NextLevel \/ FoundParam \/ NoParam
         \/ FindField \/ UnknownType \/ Uninitialized
  PROVE  WalkInv'
<1> USE DEF WalkInv, TypeOK
<1>1. Len(localVarMap) \in Nat
  BY LenProperties
<1>2. CASE findVar
  BY <1>1, <1>2 DEF findVar, Passed, WalkEnded
<1>3. CASE FoundLocal
  <2>1. localVarMap[i] \in Map /\ name \in Name
    BY <1>1, <1>3, ElementOfSeq DEF FoundLocal, WalkEnded
  <2>2. localVarMap[i][name] \in Value \cup {None}
    BY <2>1 DEF Map
  <2> QED
    BY <1>1, <1>3, <2>2 DEF FoundLocal, ReturnValue, Passed, WalkEnded
<1>4. CASE NextLevel
  <2>1. \A k \in (i - 1) + 1..Len(localVarMap) : k = i \/ k \in i + 1..Len(localVarMap)
    BY <1>1
  <2> QED
    BY <1>1, <1>4, <2>1 DEF NextLevel, Passed, WalkEnded
<1>5. CASE FoundParam
  <2>1. paramMap[name] \in Value \cup {None}
    BY <1>5 DEF FoundParam, Map, WalkEnded
  <2> QED
    BY <1>1, <1>5, <2>1 DEF FoundParam, ReturnValue, Passed, WalkEnded
<1>6. CASE NoParam
  BY <1>1, <1>6 DEF NoParam, Passed, WalkEnded
<1>7. CASE FindField
  <2>1. FieldOf(name) \in Load \cup {None}
    BY <1>7 DEF FindField, FieldOf, Load, WalkEnded
  <2> QED
    BY <1>1, <1>7, <2>1 DEF FindField, ReturnValue, Passed, WalkEnded
<1>8. CASE UnknownType \/ Uninitialized
  BY <1>1, <1>8 DEF UnknownType, Uninitialized, Passed, WalkEnded
<1> QED
  BY <1>2, <1>3, <1>4, <1>5, <1>6, <1>7, <1>8

\* findVar() passes a level only when it does not bind the name, on stacks of any
\* depth (Enviroment.hpp:58-87).
THEOREM WalkInvariant == Spec => []WalkInv
<1>1. WalkInv /\ [Next]_vars => WalkInv'
  BY StackType, OperationStep, WalkStep DEF Next
<1> QED
  BY WalkInit, <1>1, PTL DEF Spec
-----------------------------------------------------------------------------
(* The refinement of lexical scoping. *)

\* What the innermost block sees is what the whole stack binds.
LEMMA HereIs ==
  ASSUME localVarMap \in Seq(Map)
  PROVE  /\ Len(localVarMap) \in Nat
         /\ Len(Visible) = Len(localVarMap)
         /\ Scoping!Here = [n \in Name |-> Bound(localVarMap, Len(localVarMap), n)]
<1>1. Len(localVarMap) \in Nat
  BY LenProperties
<1>2. Len(Visible) = Len(localVarMap)
  BY <1>1 DEF Visible
<1>3. CASE Len(localVarMap) = 0
  <2>1. \A n \in Name : Bound(localVarMap, Len(localVarMap), n) = None
    BY <1>3, BoundNowhere
  <2>2. Visible = <<>>
    BY <1>3 DEF Visible
  <2> QED
    BY <1>1, <1>2, <2>1, <2>2 DEF Scoping!Here, Scoping!Unbound
<1>4. CASE Len(localVarMap) # 0
  <2>1. Len(localVarMap) \in 1..Len(localVarMap)
    BY <1>1, <1>4
  <2>2. Visible # <<>>
    BY <1>1, <1>2, <1>4
  <2> QED
    BY <1>1, <1>2, <2>1, <2>2 DEF Scoping!Here, Visible
<1> QED
  BY <1>1, <1>2, <1>3, <1>4
LEMMA SequenceIs ==
  ASSUME NEW n \in Nat, NEW S, NEW f, f = [k \in 1..n |-> f[k]],
         \A k \in 1..n : f[k] \in S
  PROVE  f \in Seq(S) /\ Len(f) = n
<1>1. f \in [1..n -> S]
  OBVIOUS
<1>2. f \in Seq(S)
  BY <1>1, SeqDef
<1>3. DOMAIN f = 1..n /\ DOMAIN f = 1..Len(f) /\ Len(f) \in Nat
  BY <1>1, <1>2, LenProperties
<1>4. Len(f) = n
  BY <1>3
<1> QED
  BY <1>2, <1>4

\* A sequence that continues another by one element.
LEMMA AppendIs ==
  ASSUME NEW n \in Nat, NEW f, NEW g, NEW e,
         f = [k \in 1..n |-> f[k]], g = [k \in 1..n + 1 |-> g[k]],
         g[n + 1] = e, \A k \in 1..n : g[k] = f[k]
  PROVE  g = Append(f, e)
<1> DEFINE S == { g[k] : k \in 1..n + 1 }
<1>1. /\ \A k \in 1..n + 1 : g[k] \in S
      /\ \A k \in 1..n : f[k] \in S
      /\ e \in S
      /\ \A k \in 1..n + 1 : k = n + 1 \/ k \in 1..n
  OBVIOUS
<1> HIDE DEF S
<1>2. f \in Seq(S) /\ Len(f) = n /\ g \in Seq(S) /\ Len(g) = n + 1
  BY <1>1, SequenceIs
<1>3. /\ Append(f, e) \in Seq(S) /\ Len(Append(f, e)) = n + 1
      /\ Append(f, e)[n + 1] = e /\ \A k \in 1..n : Append(f, e)[k] = f[k]
  BY <1>1, <1>2, AppendProperties
<1>4. \A k \in 1..n + 1 : g[k] = Append(f, e)[k]
  BY <1>1, <1>3
<1> QED
  BY <1>2, <1>3, <1>4, SeqEqual

\* Opening a scope enters a block.
LEMMA EnterStep ==
  ASSUME WalkInv, beginScope
  PROVE  Scoping!Enter
<1> DEFINE L == Len(localVarMap)
<1>1. /\ localVarMap \in Seq(Map) /\ L \in Nat /\ Len(Visible) = L
      /\ Scoping!Here = [n \in Name |-> Bound(localVarMap, L, n)]
  BY HereIs DEF WalkInv, TypeOK
<1>2. /\ Len(localVarMap') = L + 1
      /\ localVarMap'[L + 1] = Empty
      /\ \A k \in 1..L : localVarMap'[k] = localVarMap[k]
  BY <1>1, AppendProperties DEF beginScope, Empty, Map
<1>3. \A n \in Name : Bound(localVarMap', L + 1, n) = Bound(localVarMap, L, n)
  <2> SUFFICES ASSUME NEW n \in Name
               PROVE  Bound(localVarMap', L + 1, n) = Bound(localVarMap, L, n)
    OBVIOUS
  <2>1. Bound(localVarMap', L + 1, n) = Bound(localVarMap', L, n)
    BY <1>1, <1>2, BoundBelow DEF Empty
  <2>2. Bound(localVarMap', L, n) = Bound(localVarMap, L, n)
    BY <1>1, <1>2, BoundSame
  <2> QED
    BY <2>1, <2>2
<1>4. \A k \in 1..L : \A n \in Name : Bound(localVarMap', k, n) = Bound(localVarMap, k, n)
  <2> SUFFICES ASSUME NEW k \in 1..L, NEW n \in Name
               PROVE  Bound(localVarMap', k, n) = Bound(localVarMap, k, n)
    OBVIOUS
  <2> QED
    BY <1>1, <1>2, BoundSame
<1>5. Visible' = [k \in 1..L + 1 |-> [n \in Name |-> Bound(localVarMap', k, n)]]
  BY <1>2 DEF Visible
<1>6. Visible'[L + 1] = Scoping!Here
  BY <1>1, <1>3, <1>5
<1>7. \A k \in 1..L : Visible'[k] = Visible[k]
  BY <1>1, <1>4, <1>5 DEF Visible
<1>8. /\ Visible = [k \in 1..L |-> Visible[k]]
      /\ Visible' = [k \in 1..L + 1 |-> Visible'[k]]
  BY <1>5 DEF Visible
<1>9. Visible' = Append(Visible, Scoping!Here)
  <2> DEFINE V == Visible
             W == Visible'
             H == Scoping!Here
  <2>1. /\ L \in Nat /\ V = [k \in 1..L |-> V[k]] /\ W = [k \in 1..L + 1 |-> W[k]]
        /\ W[L + 1] = H /\ \A k \in 1..L : W[k] = V[k]
    BY <1>1, <1>6, <1>7, <1>8
  <2> HIDE DEF V, W, H, L
  <2>2. W = Append(V, H)
    BY <2>1, AppendIs, SMTT(120)
  <2> QED
    BY <2>2 DEF V, W, H
<1> QED
  BY <1>9 DEF Scoping!Enter, beginScope
\* Closing a scope leaves a block.
LEMMA LeaveStep ==
  ASSUME WalkInv, endScope
  PROVE  Scoping!Leave
<1> DEFINE L == Len(localVarMap)
<1>1. /\ localVarMap \in Seq(Map) /\ L \in Nat \ {0} /\ Len(Visible) = L
  BY HereIs, EmptySeq DEF WalkInv, TypeOK, endScope
<1>2. /\ Len(localVarMap') = L - 1
      /\ \A k \in 1..L - 1 : localVarMap'[k] = localVarMap[k]
  <2>1. \A k \in 1..L - 1 : localVarMap[k] \in Map
    BY <1>1, ElementOfSeq
  <2> QED
    BY <1>1, <2>1, SubSeqProperties DEF endScope
<1>3. \A k \in 1..L - 1 : \A n \in Name : Bound(localVarMap', k, n) = Bound(localVarMap, k, n)
  <2> SUFFICES ASSUME NEW k \in 1..L - 1, NEW n \in Name
               PROVE  Bound(localVarMap', k, n) = Bound(localVarMap, k, n)
    OBVIOUS
  <2> QED
    BY <1>1, <1>2, BoundSame
<1>4. Visible' = [k \in 1..L - 1 |-> Visible[k]]
  BY <1>1, <1>2, <1>3 DEF Visible
<1>5. SubSeq(Visible, 1, L - 1) = [k \in 1..L - 1 |-> Visible[k]]
  BY <1>1
<1>6. Visible # <<>>
  BY <1>1
<1> QED
  BY <1>1, <1>4, <1>5, <1>6 DEF Scoping!Leave, endScope

\* A local is declared in the innermost block only.
LEMMA DeclareStep ==
  ASSUME WalkInv, NEW n \in Name, NEW v \in Value, addLocal(n, v)
  PROVE  Scoping!Declare
<1> DEFINE L == Len(localVarMap)
<1>1. /\ localVarMap \in Seq(Map) /\ L \in Nat \ {0} /\ Len(Visible) = L /\ Visible # <<>>
  BY HereIs, EmptySeq DEF WalkInv, TypeOK, addLocal
<1>2. localVarMap[L] \in Map
  BY <1>1, ElementOfSeq
<1>3. /\ Len(localVarMap') = L
      /\ \A k \in 1..L - 1 : localVarMap'[k] = localVarMap[k]
      /\ localVarMap'[L] = [localVarMap[L] EXCEPT ![n] = v]
  BY <1>1, LenProperties DEF addLocal
<1>4. \A k \in 1..L - 1 : \A m \in Name : Bound(localVarMap', k, m) = Bound(localVarMap, k, m)
  <2> SUFFICES ASSUME NEW k \in 1..L - 1, NEW m \in Name
               PROVE  Bound(localVarMap', k, m) = Bound(localVarMap, k, m)
    OBVIOUS
  <2> QED
    BY <1>1, <1>3, BoundSame
<1>5. Bound(localVarMap', L, n) = v
  <2>1. localVarMap'[L][n] = v /\ v # None /\ L \in 1..L /\ \A l \in L + 1..L : FALSE
    BY <1>1, <1>2, <1>3, EnviromentAssumption DEF Map
  <2> QED
    BY <1>1, <2>1, BoundAt
<1>6. \A m \in Name \ {n} : Bound(localVarMap', L, m) = Bound(localVarMap, L, m)
  <2> SUFFICES ASSUME NEW m \in Name \ {n}
               PROVE  Bound(localVarMap', L, m) = Bound(localVarMap, L, m)
    OBVIOUS
  <2>1. localVarMap'[L][m] = localVarMap[L][m]
    BY <1>2, <1>3 DEF Map
  <2>2. \A k \in 1..L : k = L \/ k \in 1..L - 1
    BY <1>1
  <2>3. \A k \in 1..L : localVarMap'[k][m] = localVarMap[k][m]
    BY <1>3, <2>1, <2>2
  <2> QED
    BY <1>1, <2>3, BoundSame
<1>7. Visible' = [Visible EXCEPT ![L] = [Visible[L] EXCEPT ![n] = v]]
  <2>1. Visible' = [k \in 1..L |-> [m \in Name |-> Bound(localVarMap', k, m)]]
    BY <1>3 DEF Visible
  <2>2. \A k \in 1..L - 1 : Visible'[k] = Visible[k]
    BY <1>1, <1>4, <2>1 DEF Visible
  <2>3. Visible'[L] = [Visible[L] EXCEPT ![n] = v]
    <3>1. L \in 1..L
      BY <1>1
    <3>2. /\ Visible'[L] = [m \in Name |-> Bound(localVarMap', L, m)]
          /\ Visible[L] = [m \in Name |-> Bound(localVarMap, L, m)]
      BY <2>1, <3>1 DEF Visible
    <3> HIDE DEF L
    <3> QED
      BY <1>5, <1>6, <3>2
  <2>4. \A k \in 1..L : k = L \/ k \in 1..L - 1
    BY <1>1
  <2>5. Visible = [k \in 1..L |-> Visible[k]] /\ Visible' = [k \in 1..L |-> Visible'[k]]
    BY <2>1 DEF Visible
  <2> HIDE DEF L
  <2> QED
    BY <2>2, <2>3, <2>4, <2>5
<1> QED
  BY <1>1, <1>7 DEF Scoping!Declare, addLocal
\* The fields of the object are the members.
LEMMA FieldIs ==
  ASSUME WalkInv, NEW n \in Name
  PROVE  FieldOf(n) = Scoping!Member(n)
BY EnviromentAssumption DEF WalkInv, TypeOK, FieldOf, Scoping!Member

\* findVar() answers with what the name means.
LEMMA LookUpStep ==
  ASSUME WalkInv, FoundLocal \/ FoundParam \/ FindField
  PROVE  Scoping!LookUp
<1> DEFINE L == Len(localVarMap)
<1>1. /\ L \in Nat
      /\ Scoping!Here = [n \in Name |-> Bound(localVarMap, L, n)]
      /\ name \in Name /\ i \in 0..L
      /\ \A k \in i + 1..L : localVarMap[k][name] = None
  BY HereIs DEF WalkInv, TypeOK, Passed, WalkEnded, FoundLocal, FoundParam, FindField
<1>2. UNCHANGED <<paramMap, localVarMap, self_context, self>>
  BY DEF FoundLocal, FoundParam, FindField, ReturnValue
<1>3. UNCHANGED <<Visible, paramMap, self_context,
                  IF self_context \in Class \ Static THEN self ELSE None>>
  BY <1>2 DEF Visible
<1>4. CASE FoundLocal
  <2>1. Bound(localVarMap, L, name) = localVarMap[i][name]
    BY <1>1, <1>4, BoundAt DEF FoundLocal
  <2>2. result' = Scoping!Meaning(name)
    BY <1>1, <1>4, <2>1 DEF FoundLocal, ReturnValue, Scoping!Meaning
  <2> QED
    BY <1>1, <1>3, <2>2 DEF Scoping!LookUp
<1>5. CASE FoundParam \/ FindField
  <2>1. i = 0
    BY <1>5 DEF FoundParam, FindField, WalkInv, WalkEnded
  <2>2. Bound(localVarMap, L, name) = None
    BY <1>1, <2>1, BoundNowhere
  <2>3. FieldOf(name) = Scoping!Member(name)
    BY <1>1, FieldIs
  <2>4. result' = Scoping!Meaning(name)
    BY <1>1, <1>5, <2>2, <2>3
    DEF FoundParam, FindField, ReturnValue, Scoping!Meaning, WalkInv, WalkEnded
  <2> QED
    BY <1>1, <1>3, <2>4 DEF Scoping!LookUp
<1> QED
  BY <1>4, <1>5

LEMMA ScopingInit == Init => Scoping!Init
<1> SUFFICES ASSUME Init PROVE Scoping!Init
  OBVIOUS
<1>1. Visible = <<>>
  BY DEF Visible, Init
<1>2. self_context = None /\ self = None
  BY DEF Init
<1> QED
  BY <1>1, <1>2 DEF Init, Empty, Scoping!Init, Scoping!Unbound

LEMMA ScopingStep ==
  ASSUME WalkInv, WalkInv', [Next]_vars
  PROVE  [Scoping!Next]_(Scoping!vars)
<1>1. CASE beginScope
  BY <1>1, EnterStep DEF Scoping!Next
<1>2. CASE endScope
  BY <1>2, LeaveStep DEF Scoping!Next
<1>3. CASE \E n \in Name, v \in Value : addLocal(n, v)
  BY <1>3, DeclareStep DEF Scoping!Next
<1>4. CASE \E n \in Name, v \in Value : addParam(n, v)
  <2>1. PICK n \in Name, v \in Value : addParam(n, v)
    BY <1>4
  <2>2. Scoping!DeclareParam
    BY <2>1 DEF addParam, Scoping!DeclareParam, Visible
  <2> QED
    BY <2>2 DEF Scoping!Next
<1>5. CASE \E ty \in Class, self_param \in Value \cup {None} : setSelfContext(ty, self_param)
  <2>1. UNCHANGED <<Visible, paramMap, result>>
    BY <1>5 DEF setSelfContext, Visible
  <2>2. /\ self_context' \in Class
        /\ (IF self_context \in Class \ Static THEN self ELSE None)' \in Value \cup {None}
    BY <1>5 DEF setSelfContext, WalkInv, TypeOK
  <2>3. Scoping!SetObject
    BY <2>1, <2>2 DEF Scoping!SetObject
  <2> QED
    BY <2>3 DEF Scoping!Next
<1>6. CASE FoundLocal \/ FoundParam \/ FindField
  BY <1>6, LookUpStep DEF Scoping!Next
<1>7. CASE NoScope \/ findVar \/ NextLevel \/ NoParam \/ UnknownType \/ Uninitialized \/ UNCHANGED vars
  <2>1. UNCHANGED <<paramMap, localVarMap, self_context, self, result>>
    BY <1>7 DEF NoScope, findVar, NextLevel, NoParam, UnknownType, Uninitialized, vars
  <2> QED
    BY <2>1 DEF Scoping!vars, Visible
<1> QED
  BY <1>1, <1>2, <1>3, <1>4, <1>5, <1>6, <1>7 DEF Next

\* The environment implements lexical scoping, for every stack depth, every name
\* and every class: whatever is opened, closed and declared, findVar() answers with
\* the innermost binding (Enviroment.hpp:22-87).
THEOREM ScopingCorrect == Spec => ScopingSpec
<1>1. WalkInv /\ WalkInv' /\ [Next]_vars => [Scoping!Next]_(Scoping!vars)
  BY ScopingStep
<1> QED
  BY ScopingInit, WalkInvariant, <1>1, PTL DEF Spec, ScopingSpec, Scoping!Spec
=============================================================================
