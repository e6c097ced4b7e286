------------------------------ MODULE TreeProofs ------------------------------
(***************************************************************************)
(* The iterators that the nodes of the tree store, and the walk of find()  *)
(* through the tree, for every set of nodes and every number of removals.  *)
(***************************************************************************)
EXTENDS Tree, SequenceTheorems, TLAPS

TreeInv == TreeTypeOK /\ FreshIterators

\* Erasing an element leaves those before it where they were.
LEMMA WithoutProperties ==
  ASSUME NEW s \in Seq(Node), NEW i \in 1..Len(s)
  PROVE  /\ Without(s, i) \in Seq(Node)
         /\ Len(Without(s, i)) = Len(s) - 1
         /\ \A k \in 1..i - 1 : Without(s, i)[k] = s[k]
         /\ \A k \in i..Len(s) - 1 : Without(s, i)[k] = s[k + 1]
<1> DEFINE before == SubSeq(s, 1, i - 1)
           after  == SubSeq(s, i + 1, Len(s))
<1>1. Len(s) \in Nat /\ i \in Nat /\ i >= 1 /\ i <= Len(s)
  BY LenProperties
<1>2. /\ before \in Seq(Node) /\ Len(before) = i - 1
      /\ \A k \in 1..i - 1 : before[k] = s[k]
  <2>1. \A k \in 1..i - 1 : s[k] \in Node
    BY <1>1, ElementOfSeq
  <2> QED
    BY <1>1, <2>1, SubSeqProperties
<1>3. /\ after \in Seq(Node) /\ Len(after) = Len(s) - i
      /\ \A k \in 1..Len(s) - i : after[k] = s[i + k]
  <2>1. \A k \in i + 1..Len(s) : s[k] \in Node
    BY <1>1, ElementOfSeq
  <2>2. /\ after \in Seq(Node)
        /\ Len(after) = IF i + 1 <= Len(s) THEN Len(s) - (i + 1) + 1 ELSE 0
        /\ \A k \in 1..Len(s) - (i + 1) + 1 : after[k] = s[i + 1 + k - 1]
    BY <1>1, <2>1, SubSeqProperties
  <2> HIDE DEF after
  <2>3. Len(after) = Len(s) - i
    BY <1>1, <2>2
  <2>4. ASSUME NEW k \in 1..Len(s) - i
        PROVE  after[k] = s[i + k]
    <3>1. k \in 1..Len(s) - (i + 1) + 1 /\ i + 1 + k - 1 = i + k
      BY <1>1
    <3> QED
      BY <2>2, <3>1
  <2> QED
    BY <2>2, <2>3, <2>4
<1>4. Without(s, i) = before \o after
  BY DEF Without
<1> HIDE DEF before, after
<1>5. /\ before \o after \in Seq(Node)
      /\ Len(before \o after) = Len(before) + Len(after)
      /\ \A k \in 1..Len(before) + Len(after) :
           (before \o after)[k] = IF k <= Len(before) THEN before[k] ELSE after[k - Len(before)]
  BY <1>2, <1>3, ConcatProperties
<1>6. \A k \in i..Len(s) - 1 : Without(s, i)[k] = s[k + 1]
  <2> TAKE k \in i..Len(s) - 1
  <2>1. /\ k \in 1..Len(before) + Len(after) /\ ~ (k <= Len(before))
        /\ k - Len(before) = k - i + 1 /\ k - i + 1 \in 1..Len(s) - i /\ i + (k - i + 1) = k + 1
    BY <1>1, <1>2, <1>3
  <2>2. Without(s, i)[k] = after[k - i + 1]
    BY <1>4, <1>5, <2>1
  <2> QED
    BY <1>3, <2>1, <2>2
<1> QED
  BY <1>1, <1>2, <1>3, <1>4, <1>5, <1>6

LEMMA TreeInit == Init => TreeInv
BY EmptySeq, NodeAssumption DEF Init, TreeInv, TreeTypeOK, FreshIterators

\* A new child is at the end of its parent's vector; the iterators into that
\* vector stay only if it does not grow.
LEMMA AddChildStep ==
  ASSUME TreeInv, NEW n \in Node, AddChild(n)
  PROVE  TreeInv'
<1> USE DEF TreeInv
<1>1. PICK c \in Node \ Allocated :
        /\ parent' = [parent EXCEPT ![c] = n]
        /\ children' = [children EXCEPT ![n] = Append(@, c)]
        /\ place' = [place EXCEPT ![c] = Len(children[n]) + 1]
        /\ IF Len(children[n]) < capacity[n]
             THEN fresh' = fresh \cup {c} /\ UNCHANGED capacity
             ELSE /\ fresh' = (fresh \ Members(children[n])) \cup {c}
                  /\ capacity' = [capacity EXCEPT ![n] = IF @ = 0 THEN 1 ELSE 2 * @]
  BY DEF AddChild
<1>2. c \in Node /\ parent[c] = Null /\ removals' = removals
  BY <1>1 DEF Allocated, AddChild
<1>3. c \notin fresh /\ fresh' \subseteq fresh \cup {c}
  BY <1>1, <1>2 DEF FreshIterators
<1>4. /\ Append(children[n], c) \in Seq(Node)
      /\ Len(Append(children[n], c)) = Len(children[n]) + 1
      /\ Append(children[n], c)[Len(children[n]) + 1] = c
      /\ \A k \in 1..Len(children[n]) : Append(children[n], c)[k] = children[n][k]
  BY <1>2, AppendProperties DEF TreeTypeOK
<1>5. \A m \in Node : Len(children[m]) \in Nat
  BY LenProperties DEF TreeTypeOK
<1>6. TreeTypeOK'
  <2>1. parent' \in [Node -> Node \cup {Null}] /\ place' \in [Node -> Nat]
    BY <1>1, <1>2, <1>5 DEF TreeTypeOK
  <2>2. children' \in [Node -> Seq(Node)]
    BY <1>1, <1>4 DEF TreeTypeOK
  <2>3. capacity' \in [Node -> Nat] /\ \A m \in Node : Len(children'[m]) <= capacity'[m]
    <3>1. /\ capacity \in [Node -> Nat] /\ capacity[n] \in Nat
          /\ \A m \in Node : Len(children[m]) <= capacity[m] /\ capacity[m] \in Nat
      BY DEF TreeTypeOK
    <3>2. /\ Len(children'[n]) = Len(children[n]) + 1
          /\ \A m \in Node \ {n} : children'[m] = children[m]
      BY <1>1, <1>4 DEF TreeTypeOK
    <3>3. CASE Len(children[n]) < capacity[n]
      <4>1. capacity' = capacity
        BY <1>1, <3>3
      <4> QED
        BY <1>5, <3>1, <3>2, <3>3, <4>1
    <3>4. CASE ~ (Len(children[n]) < capacity[n])
      <4>1. capacity' = [capacity EXCEPT ![n] = IF capacity[n] = 0 THEN 1 ELSE 2 * capacity[n]]
        BY <1>1, <3>4
      <4>2. /\ capacity' \in [Node -> Nat]
            /\ capacity'[n] = IF capacity[n] = 0 THEN 1 ELSE 2 * capacity[n]
            /\ \A m \in Node \ {n} : capacity'[m] = capacity[m]
        BY <3>1, <4>1
      <4>3. Len(children'[n]) <= capacity'[n]
        <5>1. Len(children[n]) = capacity[n] /\ capacity[n] \in Nat
          BY <1>5, <3>1, <3>4
        <5> QED
          BY <3>2, <4>2, <5>1
      <4>4. \A m \in Node \ {n} : Len(children'[m]) <= capacity'[m]
        BY <3>1, <3>2, <4>2
      <4> QED
        BY <4>2, <4>3, <4>4
    <3> QED
      BY <3>3, <3>4
  <2>4. fresh' \subseteq Node
    BY <1>2, <1>3 DEF TreeTypeOK
  <2> QED
    BY <1>2, <2>1, <2>2, <2>3, <2>4 DEF TreeTypeOK
<1>7. FreshIterators'
  <2> SUFFICES ASSUME NEW d \in fresh'
               PROVE  /\ parent'[d] # Null
                      /\ place'[d] \in 1..Len(children'[parent'[d]])
                      /\ children'[parent'[d]][place'[d]] = d
    BY DEF FreshIterators
  <2>1. CASE d = c
    <3>1. parent'[d] = n /\ place'[d] = Len(children[n]) + 1
      BY <1>1, <1>2, <2>1 DEF TreeTypeOK
    <3>2. children'[n] = Append(children[n], c)
      BY <1>1 DEF TreeTypeOK
    <3> QED
      BY <1>4, <1>5, <2>1, <3>1, <3>2, NodeAssumption
  <2>2. CASE d # c
    <3>1. d \in fresh /\ d \in Node
      BY <1>3, <2>2 DEF TreeTypeOK
    <3>2. parent'[d] = parent[d] /\ place'[d] = place[d]
      BY <1>1, <2>2, <3>1 DEF TreeTypeOK
    <3>3. /\ parent[d] \in Node /\ parent[d] # Null
          /\ place[d] \in 1..Len(children[parent[d]])
          /\ children[parent[d]][place[d]] = d
      BY <3>1 DEF TreeTypeOK, FreshIterators
    <3>4. CASE parent[d] = n
      <4>1. children'[n] = Append(children[n], c)
        BY <1>1 DEF TreeTypeOK
      <4> QED
        BY <1>4, <1>5, <3>2, <3>3, <3>4, <4>1
    <3>5. CASE parent[d] # n
      BY <1>1, <3>2, <3>3, <3>5 DEF TreeTypeOK
    <3> QED
      BY <3>4, <3>5
  <2> QED
    BY <2>1, <2>2
<1> QED
  BY <1>6, <1>7

\* Only the iterators before the erased element stay valid, and they designate
\* what they did.
LEMMA RemoveChildStep ==
  ASSUME TreeInv, NEW n \in Node, RemoveChild(n)
  PROVE  TreeInv'
<1> USE DEF TreeInv
<1>1. PICK i \in 1..Len(children[n]) :
        /\ children' = [children EXCEPT ![n] = Without(@, i)]
        /\ fresh' = fresh \ { children[n][j] : j \in i..Len(children[n]) }
  BY DEF RemoveChild
<1>2. /\ removals < MaxRemovals /\ removals' = removals + 1
      /\ parent' = parent /\ capacity' = capacity /\ place' = place
  BY DEF RemoveChild
<1>3. children[n] \in Seq(Node) /\ \A m \in Node : Len(children[m]) \in Nat
  BY LenProperties DEF TreeTypeOK
<1>4. /\ Without(children[n], i) \in Seq(Node)
      /\ Len(Without(children[n], i)) = Len(children[n]) - 1
      /\ \A k \in 1..i - 1 : Without(children[n], i)[k] = children[n][k]
  BY <1>1, <1>3, WithoutProperties
<1>5. children'[n] = Without(children[n], i)
      /\ \A m \in Node \ {n} : children'[m] = children[m]
  BY <1>1 DEF TreeTypeOK
<1>6. TreeTypeOK'
  <2>1. children' \in [Node -> Seq(Node)]
    BY <1>1, <1>4 DEF TreeTypeOK
  <2>2. \A m \in Node : Len(children'[m]) <= capacity[m]
    <3> TAKE m \in Node
    <3>1. Len(children[m]) <= capacity[m] /\ capacity[m] \in Nat
      BY DEF TreeTypeOK
    <3>2. CASE m = n
      <4>1. Len(children'[m]) = Len(children[m]) - 1
        BY <1>4, <1>5, <3>2
      <4> QED
        BY <1>3, <3>1, <4>1
    <3>3. CASE m # n
      BY <1>5, <3>1, <3>3
    <3> QED
      BY <3>2, <3>3
  <2> QED
    BY <1>1, <1>2, <2>1, <2>2, NodeAssumption DEF TreeTypeOK
<1>7. FreshIterators'
  <2> SUFFICES ASSUME NEW d \in fresh'
               PROVE  /\ parent[d] # Null
                      /\ place[d] \in 1..Len(children'[parent[d]])
                      /\ children'[parent[d]][place[d]] = d
    BY <1>2 DEF FreshIterators
  <2>1. d \in fresh /\ d \in Node
    BY <1>1 DEF TreeTypeOK
  <2>2. /\ parent[d] \in Node /\ parent[d] # Null
        /\ place[d] \in 1..Len(children[parent[d]])
        /\ children[parent[d]][place[d]] = d
    BY <2>1 DEF TreeTypeOK, FreshIterators
  <2>3. CASE parent[d] = n
    <3>1. place[d] \in 1..i - 1
      BY <1>1, <1>3, <2>2, <2>3
    <3> QED
      BY <1>3, <1>4, <1>5, <2>2, <2>3, <3>1
  <2>4. CASE parent[d] # n
    BY <1>5, <2>2, <2>4
  <2> QED
    BY <2>3, <2>4
<1> QED
  BY <1>6, <1>7

\* A search only reads the tree.
LEMMA OtherSteps ==
  ASSUME TreeInv, Find \/ Resume \/ Step \/ UNCHANGED vars
  PROVE  TreeInv'
<1>1. UNCHANGED tree
  BY DEF Find, Resume, Step, Match, NextOfRoot, GetNext, Climb, NextSibling, Dangling,
         Descend, NoChildren, Arrive, vars, tree
<1> QED
  BY <1>1 DEF tree, TreeInv, TreeTypeOK, FreshIterators

\* The tree keeps its types, no vector outgrows its capacity, and every iterator
\* that has not been invalidated designates the node that stores it
\* (addChild() and removeChild(), Util.hpp:60-76).
THEOREM TreeInvariant == Spec => []TreeInv
<1>1. TreeInv /\ [Next]_vars => TreeInv'
  BY AddChildStep, RemoveChildStep, OtherSteps DEF Next, Step
<1> QED
  BY TreeInit, <1>1, PTL DEF Spec

\* An iterator that has not been invalidated designates the node that stores it,
\* in trees of any size and after any number of removals (Util.hpp:60-76).
THEOREM FreshIteratorsCorrect == Spec => []FreshIterators
<1>1. TreeInv => FreshIterators
  BY DEF TreeInv
<1> QED
  BY <1>1, TreeInvariant, PTL
-----------------------------------------------------------------------------
(* The types of a search *)

LEMMA SearchTypeStep ==
  ASSUME TreeInv, SearchTypeOK, [Next]_vars
  PROVE  SearchTypeOK'
<1>1. \A n \in Node : \A i \in 1..Len(children[n]) : children[n][i] \in Node
  BY ElementOfSeq DEF TreeInv, TreeTypeOK
<1>2. \A n \in Node : children[n] # <<>> => 1 \in 1..Len(children[n])
  BY EmptySeq, LenProperties DEF TreeInv, TreeTypeOK
<1>3. \A n \in Node : parent[n] # Null => parent[n] \in Node
  BY DEF TreeInv, TreeTypeOK
<1>4. ASSUME NEW n \in Node, AddChild(n) \/ RemoveChild(n)
      PROVE  SearchTypeOK'
  BY <1>4 DEF SearchTypeOK, AddChild, RemoveChild, search
<1>5. ASSUME Find \/ Resume
      PROVE  SearchTypeOK'
  BY <1>5, NodeAssumption DEF SearchTypeOK, Find, Resume
<1>6. ASSUME Match
      PROVE  SearchTypeOK'
  BY <1>6 DEF SearchTypeOK, Match
<1>7. ASSUME NextOfRoot
      PROVE  SearchTypeOK'
  BY <1>1, <1>2, <1>7 DEF SearchTypeOK, NextOfRoot, Passed
<1>8. ASSUME GetNext
      PROVE  SearchTypeOK'
  BY <1>8 DEF SearchTypeOK, GetNext, Passed, tree
<1>9. ASSUME Climb
      PROVE  SearchTypeOK'
  <2>1. /\ node \in Node /\ cursor \in Node
        /\ 1 \in 1..Len(children[parent[node]]) /\ parent[node] \in Node
    BY <1>3, <1>9, LenProperties DEF Climb, SearchTypeOK, TreeInv, TreeTypeOK, FreshIterators
  <2>2. children[parent[node]][1] \in Node
    BY <1>1, <2>1
  <2> QED
    BY <1>9, <2>1, <2>2 DEF SearchTypeOK, Climb, tree
<1>10. ASSUME NextSibling
       PROVE  SearchTypeOK'
  <2>1. /\ node \in Node /\ cursor \in Node
        /\ place[node] \in 1..Len(children[parent[node]]) /\ parent[node] \in Node
        /\ place[node] # Len(children[parent[node]])
    BY <1>3, <1>10 DEF NextSibling, IsLast, SearchTypeOK, TreeInv, TreeTypeOK, FreshIterators
  <2>2. place[node] + 1 \in 1..Len(children[parent[node]])
    <3>1. Len(children[parent[node]]) \in Nat
      BY <2>1, LenProperties DEF TreeInv, TreeTypeOK
    <3> QED
      BY <2>1, <3>1
  <2>3. children[parent[node]][place[node] + 1] \in Node
    BY <1>1, <2>1, <2>2
  <2> QED
    BY <1>10, <2>1, <2>3 DEF SearchTypeOK, NextSibling, tree
<1>11. ASSUME Dangling \/ NoChildren \/ Arrive
       PROVE  SearchTypeOK'
  BY <1>11 DEF SearchTypeOK, Dangling, NoChildren, Arrive, tree
<1>12. ASSUME Descend
       PROVE  SearchTypeOK'
  BY <1>1, <1>2, <1>12 DEF SearchTypeOK, Descend, tree
<1>13. ASSUME UNCHANGED vars
       PROVE  SearchTypeOK'
  BY <1>13 DEF SearchTypeOK, vars
<1> QED
  BY <1>4, <1>5, <1>6, <1>7, <1>8, <1>9, <1>10, <1>11, <1>12, <1>13 DEF Next

\* No vector outgrows its capacity, and a search has a node in hand wherever it
\* uses one: the constants may be any set of nodes (Util.hpp:60-102, 127-147).
THEOREM TreeTypesCorrect == Spec => []TypeOK
<1>1. Init => SearchTypeOK
  BY DEF Init, SearchTypeOK
<1>2. TreeInv /\ SearchTypeOK /\ [Next]_vars => SearchTypeOK'
  BY SearchTypeStep
<1>3. TreeInv /\ SearchTypeOK => TypeOK
  BY DEF TreeInv, TypeOK
<1> QED
  BY <1>1, <1>2, <1>3, TreeInvariant, PTL DEF Spec
-----------------------------------------------------------------------------
(* The shape of the tree *)

Shape ==
  /\ parent[Root] = Null
  /\ \A n \in Node : \A i \in 1..Len(children[n]) : parent[children[n][i]] = n
  /\ \A n \in Node : \A i, j \in 1..Len(children[n]) : children[n][i] = children[n][j] => i = j
  /\ \A n \in Node : parent[n] # Null => parent[n] \in Allocated

\* While nothing has been removed, a vector of one element is full, so that the
\* second child makes it grow and the iterator of the first one dangle for good.
Growth ==
  removals = 0 =>
    \A n \in Node : /\ Len(children[n]) = 0 => capacity[n] = 0
                    /\ Len(children[n]) = 1 => capacity[n] = 1
                    /\ Len(children[n]) > 1 => children[n][1] \notin fresh

\* d measures how far a node is from the root: nodes that have been removed
\* keep their parents, and with them their depth.
Depth(d) ==
  /\ d[Root] = 0
  /\ \A n \in Node : parent[n] # Null => d[n] = d[parent[n]] + 1

ShapeInv == Shape /\ Growth /\ \E d \in [Node -> Nat] : Depth(d)

LEMMA ShapeInit == Init => ShapeInv
<1> SUFFICES ASSUME Init PROVE ShapeInv
  OBVIOUS
<1>1. \A n \in Node : children[n] = <<>> /\ Len(children[n]) = 0 /\ parent[n] = Null
  BY EmptySeq DEF Init
<1>2. Shape
  BY <1>1, NodeAssumption DEF Shape
<1>3. Growth
  BY <1>1 DEF Growth, Init
<1>4. Depth([n \in Node |-> 0])
  BY <1>1, NodeAssumption DEF Depth
<1> QED
  BY <1>2, <1>3, <1>4 DEF ShapeInv

\* A child is added as a leaf: nothing has it for its parent yet.
LEMMA AddChildShape ==
  ASSUME TreeInv, ShapeInv, NEW n \in Node, AddChild(n)
  PROVE  ShapeInv'
<1>1. PICK c \in Node \ Allocated :
        /\ parent' = [parent EXCEPT ![c] = n]
        /\ children' = [children EXCEPT ![n] = Append(@, c)]
        /\ place' = [place EXCEPT ![c] = Len(children[n]) + 1]
        /\ IF Len(children[n]) < capacity[n]
             THEN fresh' = fresh \cup {c} /\ UNCHANGED capacity
             ELSE /\ fresh' = (fresh \ Members(children[n])) \cup {c}
                  /\ capacity' = [capacity EXCEPT ![n] = IF @ = 0 THEN 1 ELSE 2 * @]
  BY DEF AddChild
<1>2. /\ c \in Node /\ parent[c] = Null /\ c # Root /\ n \in Allocated /\ c # n
      /\ removals' = removals
  BY <1>1 DEF Allocated, AddChild
<1>3. /\ parent'[c] = n /\ n # Null
      /\ \A m \in Node \ {c} : parent'[m] = parent[m]
  BY <1>1, <1>2, NodeAssumption DEF TreeInv, TreeTypeOK
<1>4. \A m \in Node : Len(children[m]) \in Nat /\ \A i \in 1..Len(children[m]) : children[m][i] \in Node
  BY LenProperties, ElementOfSeq DEF TreeInv, TreeTypeOK
<1>5. /\ Len(children'[n]) = Len(children[n]) + 1
      /\ children'[n][Len(children[n]) + 1] = c
      /\ \A k \in 1..Len(children[n]) : children'[n][k] = children[n][k]
      /\ \A m \in Node \ {n} : children'[m] = children[m]
  BY <1>1, <1>2, AppendProperties DEF TreeInv, TreeTypeOK
<1>6. \A m \in Node : \A i \in 1..Len(children[m]) : parent[children[m][i]] = m /\ children[m][i] # c
  BY <1>2, NodeAssumption DEF ShapeInv, Shape
<1>7. Shape'
  <2>1. parent'[Root] = Null
    BY <1>2, <1>3, NodeAssumption DEF ShapeInv, Shape
  <2>2. ASSUME NEW m \in Node, NEW i \in 1..Len(children'[m])
        PROVE  parent'[children'[m][i]] = m
    <3>1. CASE m = n /\ i = Len(children[n]) + 1
      BY <1>3, <1>5, <3>1
    <3>2. CASE ~ (m = n /\ i = Len(children[n]) + 1)
      <4>1. i \in 1..Len(children[m]) /\ children'[m][i] = children[m][i]
        BY <1>4, <1>5, <2>2, <3>2
      <4> QED
        BY <1>3, <1>4, <1>6, <4>1
    <3> QED
      BY <3>1, <3>2
  <2>3. ASSUME NEW m \in Node, NEW i \in 1..Len(children'[m]), NEW j \in 1..Len(children'[m]),
               children'[m][i] = children'[m][j]
        PROVE  i = j
    <3>1. CASE m # n
      BY <1>5, <2>3, <3>1 DEF ShapeInv, Shape
    <3>2. CASE m = n
      <4>1. \A k \in 1..Len(children'[n]) : k \in 1..Len(children[n]) \/ k = Len(children[n]) + 1
        BY <1>4, <1>5
      <4>2. \A k \in 1..Len(children[n]) : children'[n][k] # c
        BY <1>5, <1>6
      <4>3. \A k, l \in 1..Len(children[n]) : children'[n][k] = children'[n][l] => k = l
        BY <1>5 DEF ShapeInv, Shape
      <4> QED
        BY <1>5, <2>3, <3>2, <4>1, <4>2, <4>3
    <3> QED
      BY <3>1, <3>2
  <2>4. ASSUME NEW m \in Node, parent'[m] # Null
        PROVE  parent'[m] \in Allocated'
    <3>1. \A p \in Allocated : p \in Allocated'
      BY <1>3 DEF Allocated
    <3> QED
      BY <1>2, <1>3, <2>4, <3>1 DEF ShapeInv, Shape
  <2> QED
    BY <2>1, <2>2, <2>3, <2>4 DEF Shape
<1>8. Growth'
  <2> SUFFICES ASSUME removals = 0, NEW m \in Node
               PROVE  /\ Len(children'[m]) = 0 => capacity'[m] = 0
                      /\ Len(children'[m]) = 1 => capacity'[m] = 1
                      /\ Len(children'[m]) > 1 => children'[m][1] \notin fresh'
    BY <1>2 DEF Growth
  <2>1. /\ Len(children[m]) = 0 => capacity[m] = 0
        /\ Len(children[m]) = 1 => capacity[m] = 1
        /\ Len(children[m]) > 1 => children[m][1] \notin fresh
    BY DEF ShapeInv, Growth
  <2>2. \A x \in Node : x # c /\ x \notin fresh => x \notin fresh'
    BY <1>1
  <2>3. CASE m # n
    <3>1. children'[m] = children[m] /\ capacity'[m] = capacity[m]
      BY <1>1, <1>5, <2>3 DEF TreeInv, TreeTypeOK
    <3>2. Len(children[m]) > 1 => children[m][1] # c /\ children[m][1] \in Node
      BY <1>4, <1>6
    <3> QED
      BY <2>1, <2>2, <3>1, <3>2
  <2>4. CASE m = n
    <3>1. CASE Len(children[n]) = 0
      <4>1. capacity[n] = 0 /\ ~ (Len(children[n]) < capacity[n])
        BY <2>1, <2>4, <3>1
      <4>2. capacity' = [capacity EXCEPT ![n] = IF capacity[n] = 0 THEN 1 ELSE 2 * capacity[n]]
        BY <1>1, <4>1
      <4>3. capacity'[n] = 1
        BY <4>1, <4>2 DEF TreeInv, TreeTypeOK
      <4>4. Len(children'[n]) = 1
        BY <1>5, <3>1
      <4> QED
        BY <2>4, <4>3, <4>4
    <3>2. CASE Len(children[n]) = 1
      <4>1. capacity[n] = 1 /\ ~ (Len(children[n]) < capacity[n])
        BY <2>1, <2>4, <3>2
      <4>2. fresh' = (fresh \ Members(children[n])) \cup {c}
        BY <1>1, <4>1
      <4>3. children'[n][1] = children[n][1] /\ children[n][1] # c
        BY <1>5, <1>6, <3>2
      <4>4. children[n][1] \in Members(children[n])
        BY <3>2 DEF Members
      <4> QED
        BY <1>5, <2>4, <3>2, <4>2, <4>3, <4>4
    <3>3. CASE Len(children[n]) > 1
      <4>1. children'[n][1] = children[n][1] /\ children[n][1] # c /\ children[n][1] \in Node
        BY <1>4, <1>5, <1>6, <3>3
      <4>2. children[n][1] \notin fresh'
        BY <2>1, <2>2, <2>4, <3>3, <4>1
      <4>3. ~ (Len(children'[n]) = 0) /\ ~ (Len(children'[n]) = 1)
        BY <1>4, <1>5, <3>3
      <4> QED
        BY <2>4, <4>1, <4>2, <4>3
    <3>4. Len(children[n]) = 0 \/ Len(children[n]) = 1 \/ Len(children[n]) > 1
      <4>1. \A k \in Nat : k = 0 \/ k = 1 \/ k > 1
        OBVIOUS
      <4> QED
        BY <1>4, <4>1
    <3> QED
      BY <3>1, <3>2, <3>3, <3>4
  <2> QED
    BY <2>3, <2>4
<1>9. \E d \in [Node -> Nat] : Depth(d)'
  <2>1. PICK d \in [Node -> Nat] : Depth(d)
    BY DEF ShapeInv
  <2> DEFINE e == [d EXCEPT ![c] = d[n] + 1]
  <2>2. e \in [Node -> Nat]
    BY <1>2, <2>1
  <2>3. \A m \in Node : parent[m] # Null => parent[m] # c /\ parent[m] \in Node
    BY <1>1 DEF ShapeInv, Shape, Allocated
  <2>4. Depth(e)'
    <3>1. e[Root] = 0
      BY <1>2, <2>1, NodeAssumption DEF Depth
    <3>2. ASSUME NEW m \in Node, parent'[m] # Null
          PROVE  e[m] = e[parent'[m]] + 1
      <4>1. CASE m = c
        BY <1>2, <1>3, <2>1, <4>1
      <4>2. CASE m # c
        <5>1. parent'[m] = parent[m] /\ parent[m] # Null /\ e[m] = d[m]
          BY <1>3, <2>1, <3>2, <4>2
        <5>2. e[parent[m]] = d[parent[m]]
          BY <2>1, <2>3, <5>1
        <5> QED
          BY <2>1, <5>1, <5>2 DEF Depth
      <4> QED
        BY <4>1, <4>2
    <3> QED
      BY <3>1, <3>2 DEF Depth
  <2> QED
    BY <2>2, <2>4
<1> QED
  BY <1>7, <1>8, <1>9 DEF ShapeInv

\* A child that is removed keeps its parent.
LEMMA RemoveChildShape ==
  ASSUME TreeInv, ShapeInv, NEW n \in Node, RemoveChild(n)
  PROVE  ShapeInv'
<1>1. PICK i \in 1..Len(children[n]) : children' = [children EXCEPT ![n] = Without(@, i)]
  BY DEF RemoveChild
<1>2. removals < MaxRemovals /\ removals' = removals + 1 /\ parent' = parent
  BY DEF RemoveChild
<1>3. children[n] \in Seq(Node) /\ Len(children[n]) \in Nat /\ i \in Nat /\ i <= Len(children[n])
  BY <1>1, LenProperties DEF TreeInv, TreeTypeOK
<1>4. /\ children'[n] = Without(children[n], i)
      /\ \A m \in Node \ {n} : children'[m] = children[m]
  BY <1>1 DEF TreeInv, TreeTypeOK
<1> DEFINE old(k) == IF k < i THEN k ELSE k + 1
<1>5. /\ Len(children'[n]) = Len(children[n]) - 1
      /\ \A k \in 1..i - 1 : children'[n][k] = children[n][k]
      /\ \A k \in i..Len(children[n]) - 1 : children'[n][k] = children[n][k + 1]
  BY <1>1, <1>3, <1>4, WithoutProperties
<1>6. ASSUME NEW k \in 1..Len(children'[n])
      PROVE  old(k) \in 1..Len(children[n]) /\ children'[n][k] = children[n][old(k)]
  <2>1. CASE k < i
    BY <1>3, <1>5, <2>1
  <2>2. CASE ~ (k < i)
    BY <1>3, <1>5, <2>2
  <2> QED
    BY <2>1, <2>2
<1>7. \A k, l \in 1..Len(children'[n]) : old(k) = old(l) => k = l
  BY <1>3, <1>5
<1> HIDE DEF old
<1>8. Shape'
  <2>1. ASSUME NEW m \in Node
        PROVE  /\ \A k \in 1..Len(children'[m]) : parent[children'[m][k]] = m
               /\ \A k, l \in 1..Len(children'[m]) : children'[m][k] = children'[m][l] => k = l
    <3>1. CASE m = n
      <4>1. /\ \A k \in 1..Len(children[n]) : parent[children[n][k]] = n
            /\ \A k, l \in 1..Len(children[n]) : children[n][k] = children[n][l] => k = l
        BY DEF ShapeInv, Shape
      <4>2. \A k \in 1..Len(children'[n]) : parent[children'[n][k]] = n
        BY <1>6, <4>1
      <4>3. ASSUME NEW k \in 1..Len(children'[n]), NEW l \in 1..Len(children'[n]),
                   children'[n][k] = children'[n][l]
            PROVE  k = l
        <5>1. children[n][old(k)] = children[n][old(l)]
          BY <1>6, <4>3
        <5>2. old(k) = old(l)
          BY <1>6, <4>1, <5>1
        <5> QED
          BY <1>7, <5>2
      <4> QED
        BY <3>1, <4>2, <4>3
    <3>2. CASE m # n
      BY <1>4, <3>2 DEF ShapeInv, Shape
    <3> QED
      BY <3>1, <3>2
  <2> QED
    BY <1>2, <2>1 DEF ShapeInv, Shape, Allocated
<1>9. Growth'
  BY <1>2 DEF Growth, TreeInv, TreeTypeOK
<1>10. \E d \in [Node -> Nat] : Depth(d)'
  BY <1>2 DEF ShapeInv, Depth
<1> QED
  BY <1>8, <1>9, <1>10 DEF ShapeInv

LEMMA ShapeOtherSteps ==
  ASSUME ShapeInv, Find \/ Resume \/ Step \/ UNCHANGED vars
  PROVE  ShapeInv'
<1>1. UNCHANGED tree
  BY DEF Find, Resume, Step, Match, NextOfRoot, GetNext, Climb, NextSibling, Dangling,
         Descend, NoChildren, Arrive, vars, tree
<1> QED
  BY <1>1 DEF tree, ShapeInv, Shape, Growth, Depth, Allocated
-----------------------------------------------------------------------------
(* The walk level by level *)

\* f descends from the root through first children.
Spine(d, f, D) ==
  /\ f[0] = Root
  /\ \A j \in 1..D : /\ children[f[j - 1]] # <<>>
                     /\ f[j] = children[f[j - 1]][1]
                     /\ d[f[j]] = j
                     /\ InTree(f[j])

\* x stands before c among the children of one node.
Before(x, c) ==
  \E i, j \in 1..Len(children[parent[c]]) :
    i < j /\ children[parent[c]][i] = x /\ children[parent[c]][j] = c

\* The cursor c of a search for t is a child of a node of the spine, all of which has
\* been passed (v), and nothing has been passed below c or after it.
Walk(d, f, t, c, v) ==
  /\ c \in Allocated /\ InTree(c)
  /\ Spine(d, f, d[c])
  /\ d[c] > 0 => parent[c] = f[d[c] - 1]
  /\ \A j \in 0..d[c] : f[j] \in v \cup {c}
  /\ \A x \in v : d[x] <= d[c] /\ (d[x] = d[c] /\ x # c => Before(x, c))
  /\ t \notin v
  /\ removals = 0 => c = f[d[c]]

\* After l turns of the loop that climbs from c, at depth D, the node n is l levels
\* above c; without removals every level left had one child only, or its first
\* child would not have had a valid iterator.
Climbing(D, f, c, n, l) ==
  /\ l < D
  /\ n = IF l = 0 THEN c ELSE f[D - l]
  /\ removals = 0 => \A j \in D - l + 1..D : f[j] \in fresh

\* With l levels left to go down, the node n is on the spine, l levels above the
\* first child of its last node.
Descending(D, f, n, l) ==
  /\ 0 < D /\ l <= D
  /\ IF l = 0 THEN children[f[D]] # <<>> /\ n = children[f[D]][1] ELSE n = f[D + 1 - l]
  /\ removals = 0 => \A j \in 1..D : f[j] \in fresh

\* What holds at the place p of find() and getNext().
At(d, f, c, n, l, v, p) ==
  /\ p = "search" => c \notin v
  /\ p \in { "climb", "descend" } => c \in v
  /\ p = "climb" => Climbing(d[c], f, c, n, l)
  /\ p = "descend" => Descending(d[c], f, n, l)

Search(d, f, t, c, n, l, v, p) ==
  Depth(d) /\ Walk(d, f, t, c, v) /\ At(d, f, c, n, l, v, p)

Busy == { "search", "climb", "descend" }

Searching ==
  pc \in Busy =>
    \E d \in [Node -> Nat], f \in [Nat -> Node] :
      Search(d, f, target, cursor, node, level, visited, pc)

WalkInv == Searching /\ NullMeansAbsent

Inv == TreeInv /\ ShapeInv /\ SearchTypeOK /\ WalkInv

\* The search has moved and the tree is what it was.
LEMMA InTreeUnchanged ==
  ASSUME UNCHANGED tree, NEW n
  PROVE  InTree(n)' <=> InTree(n)
BY DEF tree, InTree, Closed, Members

LEMMA SearchUnchanged ==
  ASSUME UNCHANGED tree, NEW d \in [Node -> Nat], NEW f \in [Nat -> Node],
         Search(d, f, target', cursor', node', level', visited', pc')
  PROVE  Searching'
<1>1. Depth(d)'
  BY DEF tree, Search, Depth
<1>2. ASSUME NEW t, NEW c, NEW v, Walk(d, f, t, c, v)
      PROVE  Walk(d, f, t, c, v)'
  <2>1. \A n : InTree(n)' <=> InTree(n)
    BY InTreeUnchanged
  <2>2. Spine(d, f, d[c])'
    BY <1>2, <2>1 DEF Walk, Spine, tree
  <2>3. \A x \in v : d[x] <= d[c] /\ (d[x] = d[c] /\ x # c => Before(x, c)')
    BY <1>2, ZenonT(40) DEF Walk, Before, tree
  <2>4. c \in Allocated'
    BY <1>2 DEF Walk, Allocated, tree
  <2> QED
    BY <1>2, <2>1, <2>2, <2>3, <2>4 DEF Walk, tree
<1>3. ASSUME NEW c, NEW n, NEW l, NEW v, NEW p, At(d, f, c, n, l, v, p)
      PROVE  At(d, f, c, n, l, v, p)'
  BY <1>3 DEF At, Climbing, Descending, tree
<1>4. Search(d, f, target, cursor, node, level, visited, pc)'
  BY <1>1, <1>2, <1>3 DEF Search
<1> QED
  BY <1>4 DEF Searching

LEMMA ChildFacts ==
  ASSUME TreeInv, ShapeInv
  PROVE  /\ \A n \in Node : \A i \in 1..Len(children[n]) :
              /\ children[n][i] \in Node
              /\ parent[children[n][i]] = n
              /\ children[n][i] \in Allocated
         /\ \A n \in Node : Len(children[n]) \in Nat
         /\ \A n \in Node : children[n] # <<>> => 1 \in 1..Len(children[n])
         /\ \A n \in Allocated : parent[n] = Null <=> n = Root
         /\ \A n \in Allocated : parent[n] # Null => parent[n] \in Allocated
         /\ \A n \in Allocated : n \in Node
<1>1. \A n \in Node : \A i \in 1..Len(children[n]) : children[n][i] \in Node
  BY ElementOfSeq DEF TreeInv, TreeTypeOK
<1>2. \A n \in Node : \A i \in 1..Len(children[n]) :
        parent[children[n][i]] = n /\ children[n][i] \in Allocated
  BY <1>1, NodeAssumption DEF ShapeInv, Shape, Allocated
<1>3. \A n \in Node : Len(children[n]) \in Nat
  BY LenProperties DEF TreeInv, TreeTypeOK
<1>4. \A n \in Node : children[n] # <<>> => 1 \in 1..Len(children[n])
  BY EmptySeq, LenProperties DEF TreeInv, TreeTypeOK
<1> QED
  BY <1>1, <1>2, <1>3, <1>4 DEF ShapeInv, Shape, Allocated

LEMMA DepthFacts ==
  ASSUME TreeInv, ShapeInv, NEW d \in [Node -> Nat], Depth(d)
  PROVE  /\ \A n \in Allocated : d[n] = 0 <=> n = Root
         /\ \A n \in Node : \A i \in 1..Len(children[n]) : d[children[n][i]] = d[n] + 1
<1>1. ASSUME NEW n \in Allocated
      PROVE  d[n] = 0 <=> n = Root
  <2>1. CASE n = Root
    BY <2>1 DEF Depth
  <2>2. CASE n # Root
    <3>1. n \in Node /\ parent[n] # Null /\ parent[n] \in Node
      BY <2>2, ChildFacts
    <3>2. d[n] = d[parent[n]] + 1 /\ d[parent[n]] \in Nat
      BY <3>1 DEF Depth
    <3> QED
      BY <2>2, <3>2
  <2> QED
    BY <2>1, <2>2
<1>2. \A n \in Node : \A i \in 1..Len(children[n]) : d[children[n][i]] = d[n] + 1
  BY ChildFacts, NodeAssumption DEF Depth
<1> QED
  BY <1>1, <1>2

LEMMA InTreeFacts ==
  /\ InTree(Root)
  /\ \A n \in Node : \A i \in 1..Len(children[n]) : InTree(n) => InTree(children[n][i])
<1>1. InTree(Root)
  BY DEF InTree, Closed
<1>2. ASSUME NEW n \in Node, NEW i \in 1..Len(children[n]), InTree(n)
      PROVE  InTree(children[n][i])
  <2> SUFFICES ASSUME NEW S \in SUBSET Node, Closed(S)
               PROVE  children[n][i] \in S
    BY DEF InTree
  <2>1. n \in S
    BY <1>2 DEF InTree
  <2> QED
    BY <2>1 DEF Closed, Members
<1> QED
  BY <1>1, <1>2

\* The nodes of the spine, the root first, are each the first child of the one before.
LEMMA SpineFacts ==
  ASSUME TreeInv, ShapeInv, NEW d \in [Node -> Nat], Depth(d), NEW f \in [Nat -> Node],
         NEW D \in Nat, Spine(d, f, D)
  PROVE  /\ \A j \in 0..D : d[f[j]] = j /\ InTree(f[j])
         /\ \A j \in 1..D : parent[f[j]] = f[j - 1] /\ parent[f[j]] # Null
         /\ f[0] = Root
<1>1. ASSUME NEW j \in 0..D
      PROVE  d[f[j]] = j /\ InTree(f[j])
  <2>1. CASE j = 0
    BY <2>1, InTreeFacts DEF Spine, Depth
  <2>2. CASE j # 0
    BY <2>2 DEF Spine
  <2> QED
    BY <2>1, <2>2
<1>2. ASSUME NEW j \in 1..D
      PROVE  parent[f[j]] = f[j - 1] /\ parent[f[j]] # Null
  <2>1. f[j - 1] \in Node
    OBVIOUS
  <2>2. 1 \in 1..Len(children[f[j - 1]]) /\ f[j] = children[f[j - 1]][1]
    BY <2>1, ChildFacts DEF Spine
  <2>3. parent[children[f[j - 1]][1]] = f[j - 1]
    BY <2>1, <2>2, ChildFacts
  <2>4. f[j - 1] # Null
    BY <2>1, NodeAssumption
  <2> QED
    BY <2>2, <2>3, <2>4
<1> QED
  BY <1>1, <1>2 DEF Spine

\* What a step of the search finds.
OnSpine(d, f, c, v) ==
  /\ c \in Node /\ d[c] \in Nat
  /\ \A j \in 0..d[c] : f[j] \in Node /\ d[f[j]] = j /\ InTree(f[j])
  /\ \A j \in 1..d[c] : parent[f[j]] = f[j - 1] /\ parent[f[j]] # Null
  /\ f[0] = Root
  /\ \A j \in 1..d[c] : children[f[j - 1]] # <<>> /\ f[j] = children[f[j - 1]][1]
  /\ d[c] = 0 <=> c = Root
  /\ parent[c] = Null <=> c = Root
  /\ d[c] > 0 => parent[c] = f[d[c] - 1]
  /\ c # Root => parent[c] \in v

LEMMA WalkFacts ==
  ASSUME TreeInv, ShapeInv, NEW d \in [Node -> Nat], NEW f \in [Nat -> Node], Depth(d),
         NEW t, NEW c, NEW v, Walk(d, f, t, c, v)
  PROVE  OnSpine(d, f, c, v)
<1>1. c \in Node /\ c \in Allocated /\ Spine(d, f, d[c])
  BY DEF Walk, Allocated
<1>2. d[c] \in Nat
  BY <1>1
<1>3. \A j \in 0..d[c] : f[j] \in Node /\ d[f[j]] = j /\ InTree(f[j])
  BY <1>1, <1>2, SpineFacts
<1>4. (d[c] = 0 <=> c = Root) /\ (parent[c] = Null <=> c = Root)
  BY <1>1, ChildFacts, DepthFacts
<1>5. c # Root => parent[c] \in v
  <2> SUFFICES ASSUME c # Root PROVE parent[c] \in v
    OBVIOUS
  <2>1. d[c] > 0 /\ d[c] - 1 \in 0..d[c]
    BY <1>2, <1>4
  <2>2. parent[c] = f[d[c] - 1] /\ f[d[c] - 1] \in v \cup {c}
    BY <2>1 DEF Walk
  <2>3. d[f[d[c] - 1]] # d[c]
    BY <1>2, <1>3, <2>1
  <2> QED
    BY <2>2, <2>3
<1>6. \A j \in 1..d[c] : parent[f[j]] = f[j - 1] /\ parent[f[j]] # Null
  BY <1>1, <1>2, SpineFacts
<1>7. f[0] = Root /\ \A j \in 1..d[c] : children[f[j - 1]] # <<>> /\ f[j] = children[f[j - 1]][1]
  BY <1>1 DEF Spine
<1> QED
  BY <1>1, <1>2, <1>3, <1>4, <1>5, <1>6, <1>7 DEF Walk, OnSpine

LEMMA FindWalk ==
  ASSUME TreeInv, ShapeInv, Find
  PROVE  Searching'
<1>1. PICK d \in [Node -> Nat] : Depth(d)
  BY DEF ShapeInv
<1> DEFINE f == [j \in Nat |-> Root]
<1>2. f \in [Nat -> Node]
  BY NodeAssumption
<1>3. d[Root] = 0 /\ Root \in Allocated /\ InTree(Root)
  BY <1>1, NodeAssumption, InTreeFacts DEF Depth, Allocated
<1>4. target' \in Node /\ cursor' = Root /\ visited' = {} /\ pc' = "search" /\ UNCHANGED tree
  BY DEF Find
<1>5. Walk(d, f, target', Root, {})
  BY <1>3 DEF Walk, Spine
<1>6. At(d, f, Root, node', level', {}, "search")
  BY DEF At
<1> HIDE DEF f
<1> QED
  BY <1>1, <1>2, <1>4, <1>5, <1>6, SearchUnchanged DEF Search

\* From the root to its first child, or up the spine.
LEMMA AwayWalk ==
  ASSUME TreeInv, ShapeInv, SearchTypeOK, Searching, NextOfRoot \/ GetNext
  PROVE  Searching'
<1>1. /\ pc = "search" /\ cursor # target /\ visited' = visited \cup {cursor}
      /\ UNCHANGED tree /\ target' = target
  BY DEF NextOfRoot, GetNext, Passed
<1>2. PICK d \in [Node -> Nat], f \in [Nat -> Node] :
        Search(d, f, target, cursor, node, level, visited, pc)
  BY <1>1 DEF Searching, Busy
<1>3. /\ Depth(d) /\ Walk(d, f, target, cursor, visited) /\ cursor \notin visited
  BY <1>1, <1>2 DEF Search, At
<1>4. /\ cursor \in Node /\ d[cursor] \in Nat /\ f[0] = Root
      /\ d[cursor] = 0 <=> cursor = Root
      /\ parent[cursor] = Null <=> cursor = Root
  BY <1>3, WalkFacts DEF OnSpine
<1>5. CASE GetNext
  <2>1. Walk(d, f, target', cursor', visited')
    <3>1. /\ target' = target /\ cursor' = cursor
          /\ target \notin visited \cup {cursor}
      BY <1>1, <1>3, <1>5 DEF GetNext, Walk
    <3>2. \A x \in visited \cup {cursor} :
            d[x] <= d[cursor] /\ (d[x] = d[cursor] /\ x # cursor => Before(x, cursor))
      BY <1>3, <1>4 DEF Walk
    <3>3. \A j \in 0..d[cursor] : f[j] \in (visited \cup {cursor}) \cup {cursor}
      BY <1>3 DEF Walk
    <3> QED
      BY <1>1, <1>3, <3>1, <3>2, <3>3 DEF Walk
  <2>2. d[cursor] \in Nat /\ d[cursor] # 0
    BY <1>5, <1>4 DEF GetNext
  <2>3. Climbing(d[cursor], f, cursor, cursor, 0)
    BY <2>2 DEF Climbing
  <2>4. At(d, f, cursor', node', level', visited', pc')
    BY <1>1, <1>5, <2>3 DEF At, GetNext
  <2> QED
    BY <1>1, <1>3, <2>1, <2>4, SearchUnchanged DEF Search
<1>6. CASE NextOfRoot
  <2>1. cursor = Root /\ d[cursor] = 0
    BY <1>6, <1>4 DEF NextOfRoot
  <2>2. CASE children[cursor] = <<>>
    BY <1>6, <2>2 DEF NextOfRoot, Searching, Busy
  <2>3. CASE children[cursor] # <<>>
    <3> DEFINE c == children[Root][1]
               g == [f EXCEPT ![1] = c]
    <3>1. cursor' = c /\ pc' = "search"
      BY <1>6, <2>1, <2>3 DEF NextOfRoot
    <3>2. /\ 1 \in 1..Len(children[Root]) /\ c \in Node /\ c \in Allocated
          /\ parent[c] = Root /\ InTree(c) /\ d[c] = 1
      <4>1. 1 \in 1..Len(children[Root])
        BY <2>1, <2>3, ChildFacts, NodeAssumption
      <4>2. c \in Node /\ c \in Allocated /\ parent[c] = Root
        BY <4>1, ChildFacts, NodeAssumption
      <4>3. InTree(c)
        BY <4>1, InTreeFacts, NodeAssumption
      <4>4. d[c] = d[Root] + 1
        BY <1>3, <4>1, DepthFacts, NodeAssumption
      <4> QED
        BY <2>1, <4>1, <4>2, <4>3, <4>4
    <3> HIDE DEF c
    <3>4. g \in [Nat -> Node] /\ g[0] = Root /\ g[1] = c
      BY <1>4, <3>2
    <3> HIDE DEF g
    <3>5. \A x \in visited' : d[x] <= 0
      BY <1>1, <1>3, <2>1 DEF Walk
    <3>6. Spine(d, g, 1)
      <4>1. children[Root] # <<>> /\ c = children[Root][1]
        BY <2>1, <2>3 DEF c
      <4>2. \A j \in 1..1 : j = 1 /\ j - 1 = 0
        OBVIOUS
      <4> QED
        BY <3>2, <3>4, <4>1, <4>2 DEF Spine
    <3>7. \A j \in 0..1 : g[j] \in visited' \cup {c}
      BY <1>1, <2>1, <3>4
    <3>8. target' \notin visited'
      BY <1>1, <1>3 DEF Walk
    <3>9. \A x \in visited' : d[x] <= 1 /\ d[x] # 1
      <4>1. \A x \in visited' : d[x] \in Nat
        BY <1>1, <1>3, <2>1, NodeAssumption DEF SearchTypeOK
      <4> QED
        BY <3>5, <4>1
    <3>10. Walk(d, g, target', c, visited')
      BY <3>2, <3>4, <3>6, <3>7, <3>8, <3>9, SMTT(30) DEF Walk
    <3>11. At(d, g, c, node', level', visited', "search")
      BY <3>2, <3>9 DEF At
    <3> QED
      BY <1>1, <1>3, <3>1, <3>4, <3>10, <3>11, SearchUnchanged DEF Search
  <2> QED
    BY <2>2, <2>3
<1> QED
  BY <1>5, <1>6

LEMMA ClimbWalk ==
  ASSUME TreeInv, ShapeInv, SearchTypeOK, Searching, Climb
  PROVE  Searching'
<1>1. /\ pc = "climb" /\ node \in fresh /\ level' = level + 1 /\ level \in Nat
      /\ UNCHANGED <<tree, target, cursor, visited>>
  BY DEF Climb, SearchTypeOK
<1>2. PICK d \in [Node -> Nat], f \in [Nat -> Node] :
        Search(d, f, target, cursor, node, level, visited, pc)
  BY <1>1 DEF Searching, Busy
<1>3. /\ Depth(d) /\ Walk(d, f, target, cursor, visited) /\ cursor \in visited
      /\ Climbing(d[cursor], f, cursor, node, level)
  BY <1>1, <1>2 DEF Search, At
<1>4. PICK D \in Nat : D = d[cursor] /\ OnSpine(d, f, cursor, visited)
  <2>1. OnSpine(d, f, cursor, visited)
    BY <1>3, WalkFacts
  <2>2. d[cursor] \in Nat
    BY <2>1 DEF OnSpine
  <2> QED
    BY <2>1, <2>2
<1>5. /\ \A j \in 1..D : parent[f[j]] = f[j - 1] /\ parent[f[j]] # Null
      /\ \A j \in 1..D : children[f[j - 1]] # <<>> /\ f[j] = children[f[j - 1]][1]
      /\ f[0] = Root /\ parent[Root] = Null
      /\ D > 0 => parent[cursor] = f[D - 1]
  BY <1>4 DEF OnSpine, ShapeInv, Shape
<1>6. /\ level < D
      /\ node = IF level = 0 THEN cursor ELSE f[D - level]
      /\ removals = 0 => \A j \in D - level + 1..D : f[j] \in fresh
      /\ removals = 0 => cursor = f[D]
  BY <1>3, <1>4 DEF Climbing, Walk
<1>7. PICK k \in 0..D - 1 : level = D - 1 - k
  BY <1>1, <1>6
<1>8. parent[node] = f[k]
  <2>1. CASE level = 0
    <3>1. k = D - 1 /\ D > 0
      BY <1>6, <1>7, <2>1
    <3> QED
      BY <1>5, <1>6, <2>1, <3>1
  <2>2. CASE level # 0
    <3>1. node = f[k + 1] /\ k + 1 \in 1..D /\ (k + 1) - 1 = k
      BY <1>6, <1>7, <2>2
    <3> QED
      BY <1>5, <3>1
  <2> QED
    BY <2>1, <2>2
<1>9. removals = 0 => \A j \in k + 1..D : f[j] \in fresh
  <2> SUFFICES ASSUME removals = 0, NEW j \in k + 1..D
               PROVE  f[j] \in fresh
    OBVIOUS
  <2>1. CASE j = k + 1
    <3>1. node = f[j]
      BY <1>6, <1>7, <2>1
    <3> QED
      BY <1>1, <3>1
  <2>2. CASE j # k + 1
    BY <1>6, <1>7, <2>2
  <2> QED
    BY <2>1, <2>2
<1>10. parent[f[k]] = Null <=> k = 0
  <2>1. CASE k = 0
    BY <1>5, <2>1
  <2>2. CASE k # 0
    BY <1>5, <1>7, <2>2
  <2> QED
    BY <2>1, <2>2
<1>11. At(d, f, cursor, node', level', visited, pc')
  <2>1. CASE k = 0
    <3>1. level' = D /\ 0 < D
      BY <1>1, <1>7, <2>1
    <3>2. node' = children[Root][1] /\ pc' = "descend"
      BY <1>5, <1>8, <1>10, <2>1 DEF Climb
    <3>3. children[Root][1] = f[D + 1 - D]
      <4>1. 1 \in 1..D /\ 1 - 1 = 0 /\ D + 1 - D = 1
        BY <3>1
      <4> QED
        BY <1>5, <4>1
    <3>4. Descending(D, f, node', level')
      BY <1>9, <2>1, <3>1, <3>2, <3>3 DEF Descending
    <3> QED
      BY <1>3, <1>4, <3>2, <3>4 DEF At
  <2>2. CASE k # 0
    <3>1. level' < D /\ level' # 0 /\ D - level' = k /\ D - level' + 1 = k + 1
      BY <1>1, <1>7, <2>2
    <3>2. node' = f[k] /\ pc' = pc
      BY <1>8, <1>10, <2>2 DEF Climb
    <3>3. Climbing(D, f, cursor, node', level')
      BY <1>9, <3>1, <3>2 DEF Climbing
    <3> QED
      BY <1>1, <1>3, <1>4, <3>2, <3>3 DEF At
  <2> QED
    BY <2>1, <2>2
<1> QED
  BY <1>1, <1>3, <1>11, SearchUnchanged DEF Search

\* The next sibling has not been passed: what the search has passed on this level
\* stands before the node it comes from.
LEMMA NextSiblingWalk ==
  ASSUME TreeInv, ShapeInv, SearchTypeOK, Searching, NextSibling
  PROVE  Searching'
<1>1. /\ pc = "climb" /\ node \in fresh /\ ~ IsLast(node)
      /\ UNCHANGED <<tree, target, node, level, visited>>
  BY DEF NextSibling
<1>2. CASE level # 0
  BY <1>2 DEF NextSibling, Searching, Busy
<1>3. CASE level = 0
  <2>1. PICK d \in [Node -> Nat], f \in [Nat -> Node] :
          Search(d, f, target, cursor, node, level, visited, pc)
    BY <1>1 DEF Searching, Busy
  <2>2. /\ Depth(d) /\ Walk(d, f, target, cursor, visited) /\ cursor \in visited
        /\ node = cursor /\ 0 < d[cursor] /\ cursor \in Node
        /\ OnSpine(d, f, cursor, visited)
    BY <1>1, <1>3, <2>1, WalkFacts DEF Search, At, Climbing, SearchTypeOK
  <2>3. PICK p \in Node : p = parent[cursor]
    BY <1>1, <2>2 DEF TreeInv, TreeTypeOK, FreshIterators
  <2>4. PICK k \in 1..Len(children[p]) : k = place[cursor] /\ children[p][k] = cursor
    BY <1>1, <2>2, <2>3 DEF TreeInv, FreshIterators
  <2>5. Len(children[p]) \in Nat /\ k \in Nat /\ k < k + 1 /\ k # k + 1
    BY <2>4, ChildFacts, SMTT(30)
  <2>6. k # Len(children[p])
    BY <1>1, <2>2, <2>3, <2>4 DEF IsLast
  <2>7. k + 1 \in 1..Len(children[p]) /\ Len(children[p]) > 1
    BY <2>5, <2>6
  <2>8. PICK c \in Node : c = children[p][k + 1]
    BY <2>7, ChildFacts
  <2>9. cursor' = c /\ pc' = "search"
    BY <1>3, <2>2, <2>3, <2>4, <2>8 DEF NextSibling
  <2>10. parent[c] = p /\ c \in Allocated
    BY <2>7, <2>8, ChildFacts
  <2>11. d[c] = d[cursor]
    <3>1. \A i \in 1..Len(children[p]) : d[children[p][i]] = d[p] + 1
      BY <2>2, DepthFacts
    <3>2. d[cursor] = d[p] + 1
      BY <2>4, <3>1
    <3>3. d[c] = d[p] + 1
      BY <2>7, <2>8, <3>1
    <3> QED
      BY <3>2, <3>3
  <2>12. p = f[d[cursor] - 1] /\ InTree(c)
    <3>1. d[cursor] \in Nat
      BY <2>2 DEF OnSpine
    <3>2. d[cursor] - 1 \in 0..d[cursor]
      <4>1. \A m \in Nat : 0 < m => m - 1 \in 0..m
        OBVIOUS
      <4> QED
        BY <2>2, <3>1, <4>1
    <3>3. p = f[d[cursor] - 1] /\ InTree(p)
      BY <2>2, <2>3, <3>2 DEF OnSpine
    <3> QED
      BY <2>7, <2>8, <3>3, InTreeFacts
  <2>13. \A i \in 1..Len(children[p]) :
           (children[p][i] = cursor => i = k) /\ (children[p][i] = c => i = k + 1)
    BY <2>4, <2>7, <2>8 DEF ShapeInv, Shape
  <2>14. ASSUME NEW x \in visited, d[x] = d[c], x # cursor
         PROVE  \E i \in 1..Len(children[p]) : i < k /\ children[p][i] = x
    <3>1. Before(x, cursor)
      BY <2>2, <2>11, <2>14 DEF Walk
    <3> QED
      BY <2>3, <2>13, <3>1 DEF Before
  <2>15. c \notin visited
    <3> SUFFICES ASSUME c \in visited PROVE FALSE
      OBVIOUS
    <3>1. c # cursor
      <4>1. children[p][k] = cursor /\ (children[p][k] = c => k = k + 1)
        BY <2>4, <2>13
      <4> QED
        BY <2>5, <4>1
    <3>2. \E i \in 1..Len(children[p]) : i < k /\ i = k + 1
      BY <2>13, <2>14, <3>1
    <3> QED
      BY <2>5, <3>2
  <2>16. \A x \in visited : d[x] <= d[c] /\ (d[x] = d[c] /\ x # c => Before(x, c))
    <3>1. \A x \in visited : d[x] <= d[c]
      BY <2>2, <2>11 DEF Walk
    <3>2. Before(cursor, c)
      <4>1. \E i, j \in 1..Len(children[p]) :
              i < j /\ children[p][i] = cursor /\ children[p][j] = c
        <5>1. \A m \in 1..Len(children[p]) :
                k < m /\ children[p][m] = c =>
                  \E i, j \in 1..Len(children[p]) :
                    i < j /\ children[p][i] = cursor /\ children[p][j] = c
          BY <2>4
        <5> QED
          BY <2>5, <2>7, <2>8, <5>1
      <4> QED
        BY <2>10, <4>1 DEF Before
    <3>3. ASSUME NEW x \in visited, d[x] = d[c], x # cursor
          PROVE  Before(x, c)
      <4>1. PICK i \in 1..Len(children[p]) : i < k /\ children[p][i] = x
        BY <2>14, <3>3
      <4>2. i < k + 1
        BY <2>5, <4>1
      <4> QED
        BY <2>7, <2>8, <2>10, <4>1, <4>2 DEF Before
    <3> QED
      BY <3>1, <3>2, <3>3
  <2>17. removals # 0
    <3> SUFFICES ASSUME removals = 0 PROVE FALSE
      OBVIOUS
    <3>1. d[cursor] \in 1..d[cursor]
      BY <2>2 DEF OnSpine
    <3>2. cursor = f[d[cursor]] /\ f[d[cursor]] = children[p][1]
      BY <2>2, <2>12, <3>1 DEF Walk, OnSpine
    <3> QED
      BY <1>1, <2>2, <2>7, <3>2 DEF ShapeInv, Growth
  <2>18. Walk(d, f, target, c, visited)
    <3>1. \A j \in 0..d[c] : f[j] \in visited \cup {c}
      BY <2>2, <2>11 DEF Walk
    <3>2. Spine(d, f, d[c]) /\ target \notin visited
      BY <2>2, <2>11 DEF Walk
    <3> QED
      BY <2>10, <2>11, <2>12, <2>16, <2>17, <3>1, <3>2 DEF Walk
  <2>19. At(d, f, c, node, level, visited, "search")
    BY <2>15 DEF At
  <2> QED
    BY <1>1, <2>2, <2>9, <2>18, <2>19, SearchUnchanged DEF Search
<1> QED
  BY <1>2, <1>3

LEMMA DescendWalk ==
  ASSUME TreeInv, ShapeInv, SearchTypeOK, Searching, Descend
  PROVE  Searching'
<1>1. /\ pc = "descend" /\ level > 0 /\ level \in Nat /\ children[node] # <<>>
      /\ node' = children[node][1] /\ level' = level - 1
      /\ UNCHANGED <<tree, target, cursor, visited, pc>>
  BY DEF Descend, SearchTypeOK
<1>2. PICK d \in [Node -> Nat], f \in [Nat -> Node] :
        Search(d, f, target, cursor, node, level, visited, pc)
  BY <1>1 DEF Searching, Busy
<1>3. /\ Depth(d) /\ Walk(d, f, target, cursor, visited) /\ cursor \in visited
      /\ Descending(d[cursor], f, node, level)
  BY <1>1, <1>2 DEF Search, At
<1>4. PICK D \in Nat : D = d[cursor] /\ OnSpine(d, f, cursor, visited)
  <2>1. OnSpine(d, f, cursor, visited)
    BY <1>3, WalkFacts
  <2>2. d[cursor] \in Nat
    BY <2>1 DEF OnSpine
  <2> QED
    BY <2>1, <2>2
<1>5. \A j \in 1..D : f[j] = children[f[j - 1]][1]
  BY <1>4 DEF OnSpine
<1>6. /\ 0 < D /\ level <= D /\ node = f[D + 1 - level]
      /\ removals = 0 => \A j \in 1..D : f[j] \in fresh
  BY <1>1, <1>3, <1>4 DEF Descending
<1>7. Descending(D, f, node', level')
  <2>1. CASE level = 1
    <3>1. node = f[D] /\ level' = 0
      BY <1>1, <1>6, <2>1
    <3> QED
      BY <1>1, <1>6, <3>1 DEF Descending
  <2>2. CASE level # 1
    <3>1. /\ D + 1 - level' \in 1..D /\ (D + 1 - level') - 1 = D + 1 - level
          /\ level' # 0 /\ level' <= D
      BY <1>1, <1>6, <2>2
    <3>2. node' = f[D + 1 - level']
      BY <1>1, <1>5, <1>6, <3>1
    <3> QED
      BY <1>6, <3>1, <3>2 DEF Descending
  <2> QED
    BY <2>1, <2>2
<1>8. At(d, f, cursor, node', level', visited, pc)
  BY <1>1, <1>3, <1>4, <1>7 DEF At
<1> QED
  BY <1>1, <1>3, <1>8, SearchUnchanged DEF Search

\* The spine grows by the first node of the next level.
LEMMA ArriveWalk ==
  ASSUME TreeInv, ShapeInv, SearchTypeOK, Searching, Arrive
  PROVE  Searching'
<1>1. /\ pc = "descend" /\ level = 0 /\ cursor' = node /\ pc' = "search"
      /\ UNCHANGED <<tree, target, node, level, visited>>
  BY DEF Arrive
<1>2. PICK d \in [Node -> Nat], f \in [Nat -> Node] :
        Search(d, f, target, cursor, node, level, visited, pc)
  BY <1>1 DEF Searching, Busy
<1>3. /\ Depth(d) /\ Walk(d, f, target, cursor, visited) /\ cursor \in visited
      /\ Descending(d[cursor], f, node, level)
  BY <1>1, <1>2 DEF Search, At
<1>4. PICK D \in Nat : D = d[cursor] /\ OnSpine(d, f, cursor, visited)
  <2>1. OnSpine(d, f, cursor, visited)
    BY <1>3, WalkFacts
  <2>2. d[cursor] \in Nat
    BY <2>1 DEF OnSpine
  <2> QED
    BY <2>1, <2>2
<1>5. /\ f[D] \in Node /\ d[f[D]] = D /\ InTree(f[D])
      /\ children[f[D]] # <<>> /\ node = children[f[D]][1]
      /\ f[D] \in visited
  <2>1. D \in 0..D /\ 0 < D
    BY <1>3, <1>4 DEF Descending
  <2>2. f[D] \in Node /\ d[f[D]] = D /\ InTree(f[D])
    BY <1>4, <2>1 DEF OnSpine
  <2>3. children[f[D]] # <<>> /\ node = children[f[D]][1]
    BY <1>1, <1>3, <1>4 DEF Descending
  <2>4. f[D] \in visited
    BY <1>3, <1>4, <2>1 DEF Walk
  <2> QED
    BY <2>2, <2>3, <2>4
<1>6. 1 \in 1..Len(children[f[D]])
  BY <1>5, ChildFacts
<1>7. /\ node \in Node /\ node \in Allocated /\ parent[node] = f[D]
      /\ InTree(node) /\ d[node] = D + 1
  <2>1. node \in Node /\ node \in Allocated /\ parent[node] = f[D]
    BY <1>5, <1>6, ChildFacts
  <2>2. InTree(node)
    BY <1>5, <1>6, InTreeFacts
  <2>3. d[node] = D + 1
    BY <1>3, <1>5, <1>6, DepthFacts, ZenonT(40)
  <2> QED
    BY <2>1, <2>2, <2>3
<1>8. \A x \in visited : d[x] \in Nat /\ d[x] <= D
  BY <1>3, <1>4 DEF Walk, SearchTypeOK
<1>9. \A x \in visited : d[x] <= D + 1 /\ d[x] # D + 1
  BY <1>8
<1> DEFINE g == [f EXCEPT ![D + 1] = node]
<1>10. g \in [Nat -> Node] /\ g[D + 1] = node /\ \A j \in 0..D : g[j] = f[j]
  BY <1>7
<1> HIDE DEF g
<1>11. Spine(d, g, D + 1)
  <2>1. g[0] = Root
    BY <1>4, <1>10 DEF OnSpine
  <2>2. ASSUME NEW j \in 1..D + 1
        PROVE  /\ children[g[j - 1]] # <<>>
               /\ g[j] = children[g[j - 1]][1]
               /\ d[g[j]] = j
               /\ InTree(g[j])
    <3>1. CASE j = D + 1
      <4>1. j - 1 = D /\ D \in 0..D
        BY <3>1
      <4>2. g[j - 1] = f[D] /\ g[j] = node
        BY <1>10, <3>1, <4>1
      <4> QED
        BY <1>5, <1>7, <3>1, <4>2
    <3>2. CASE j # D + 1
      <4>1. j \in 1..D /\ g[j] = f[j] /\ g[j - 1] = f[j - 1]
        BY <1>10, <3>2
      <4> QED
        BY <1>3, <1>4, <4>1 DEF Walk, Spine
    <3> QED
      BY <3>1, <3>2
  <2> QED
    BY <2>1, <2>2 DEF Spine
<1>12. \A j \in 0..D + 1 : g[j] \in visited \cup {node}
  <2>1. \A j \in 0..D : g[j] \in visited
    BY <1>3, <1>4, <1>10 DEF Walk
  <2> QED
    BY <1>10, <2>1
<1>13. Walk(d, g, target, node, visited)
  <2>1. target \notin visited
    BY <1>3 DEF Walk
  <2>2. g[d[node] - 1] = f[D] /\ g[d[node]] = node
    BY <1>7, <1>10
  <2> QED
    BY <1>7, <1>9, <1>11, <1>12, <2>1, <2>2 DEF Walk
<1>14. At(d, g, node, node, level, visited, "search")
  BY <1>7, <1>9 DEF At
<1> QED
  BY <1>1, <1>3, <1>10, <1>13, <1>14, SearchUnchanged DEF Search

\* nullptr: the nodes passed are the root, its only child, the only child of that,
\* and so on down to a node without children, and nothing else is in the tree.
LEMMA NoChildrenAbsent ==
  ASSUME TreeInv, ShapeInv, SearchTypeOK, Searching, NoChildren, removals = 0
  PROVE  ~ InTree(target)
<1>1. pc = "descend" /\ level > 0 /\ level \in Nat /\ children[node] = <<>>
  BY DEF NoChildren, SearchTypeOK
<1>2. PICK d \in [Node -> Nat], f \in [Nat -> Node] :
        Search(d, f, target, cursor, node, level, visited, pc)
  BY <1>1 DEF Searching, Busy
<1>3. /\ Depth(d) /\ Walk(d, f, target, cursor, visited) /\ cursor \in visited
      /\ Descending(d[cursor], f, node, level)
  BY <1>1, <1>2 DEF Search, At
<1>4. PICK D \in Nat : D = d[cursor] /\ OnSpine(d, f, cursor, visited)
  <2>1. OnSpine(d, f, cursor, visited)
    BY <1>3, WalkFacts
  <2>2. d[cursor] \in Nat
    BY <2>1 DEF OnSpine
  <2> QED
    BY <2>1, <2>2
<1>5. /\ \A j \in 1..D : children[f[j - 1]] # <<>> /\ f[j] = children[f[j - 1]][1]
      /\ f[0] = Root
  BY <1>4 DEF OnSpine
<1>6. /\ 0 < D /\ level <= D /\ node = f[D + 1 - level]
      /\ removals = 0 => \A j \in 1..D : f[j] \in fresh
  <2>1. Descending(D, f, node, level)
    BY <1>3, <1>4
  <2>2. level # 0
    BY <1>1
  <2> QED
    BY <2>1, <2>2 DEF Descending
<1>7. node = f[D]
  <2>1. CASE level = 1
    BY <1>6, <2>1
  <2>2. CASE level # 1
    <3>1. D + 2 - level \in 1..D /\ (D + 2 - level) - 1 = D + 1 - level
      BY <1>1, <1>6, <2>2
    <3> QED
      BY <1>1, <1>5, <1>6, <3>1
  <2> QED
    BY <2>1, <2>2
<1> DEFINE S == { f[j] : j \in 0..D }
<1>8. ASSUME NEW j \in 0..D
      PROVE  Members(children[f[j]]) \subseteq S
  <2>1. CASE j = D
    <3>1. Len(children[f[j]]) = 0
      BY <1>1, <1>7, <2>1, EmptySeq
    <3> QED
      BY <3>1 DEF Members
  <2>2. CASE j # D
    <3>1. j + 1 \in 1..D /\ (j + 1) - 1 = j /\ j + 1 \in 0..D
      BY <2>2
    <3>2. f[j + 1] = children[f[j]][1] /\ f[j + 1] \in fresh
      BY <1>5, <1>6, <3>1
    <3>3. f[j] \in Node /\ Len(children[f[j]]) \in Nat
      BY ChildFacts
    <3>4. ~ (Len(children[f[j]]) > 1)
      BY <3>2, <3>3 DEF ShapeInv, Growth
    <3>5. \A i \in 1..Len(children[f[j]]) : i = 1
      BY <3>3, <3>4
    <3>6. Members(children[f[j]]) \subseteq {f[j + 1]}
      BY <3>2, <3>5 DEF Members
    <3> QED
      BY <3>1, <3>6
  <2> QED
    BY <2>1, <2>2
<1>9. S \in SUBSET Node /\ Root \in S
  <2>1. 0 \in 0..D
    OBVIOUS
  <2> QED
    BY <1>5, <2>1
<1>10. Closed(S)
  BY <1>8, <1>9 DEF Closed
<1>11. target \notin S
  BY <1>3, <1>4 DEF Walk
<1> QED
  BY <1>9, <1>10, <1>11 DEF InTree

LEMMA MatchPresent ==
  ASSUME Searching, Match
  PROVE  InTree(target)
BY DEF Searching, Match, Busy, Search, Walk

LEMMA SearchingStep ==
  ASSUME Inv, [Next]_vars
  PROVE  Searching'
<1> USE DEF Inv, WalkInv
<1>1. ASSUME NEW n \in Node, AddChild(n) \/ RemoveChild(n)
      PROVE  Searching'
  BY <1>1 DEF AddChild, RemoveChild, search, Searching, Busy
<1>2. ASSUME Resume \/ Match \/ Dangling \/ NoChildren
      PROVE  Searching'
  BY <1>2 DEF Resume, Match, Dangling, NoChildren, Searching, Busy
<1>3. ASSUME UNCHANGED vars
      PROVE  Searching'
  <2>1. UNCHANGED <<tree, target, cursor, node, level, visited, pc>>
    BY <1>3 DEF vars, tree
  <2>2. CASE pc \in Busy
    <3>1. PICK d \in [Node -> Nat], f \in [Nat -> Node] :
            Search(d, f, target, cursor, node, level, visited, pc)
      BY <2>2 DEF Searching
    <3> QED
      BY <2>1, <3>1, SearchUnchanged
  <2>3. CASE pc \notin Busy
    BY <2>1, <2>3 DEF Searching
  <2> QED
    BY <2>2, <2>3
<1> QED
  BY <1>1, <1>2, <1>3, FindWalk, AwayWalk, ClimbWalk, NextSiblingWalk, DescendWalk, ArriveWalk
  DEF Next

LEMMA AnswerStep ==
  ASSUME Inv, [Next]_vars
  PROVE  NullMeansAbsent'
<1> USE DEF Inv, WalkInv
<1>1. ASSUME NEW n \in Node, AddChild(n) \/ RemoveChild(n)
      PROVE  NullMeansAbsent'
  BY <1>1 DEF AddChild, RemoveChild, search, NullMeansAbsent
<1>2. ASSUME Find \/ NextOfRoot \/ GetNext \/ Climb \/ NextSibling \/ Dangling
             \/ Descend \/ Arrive \/ Resume
      PROVE  NullMeansAbsent'
  BY <1>2 DEF Find, NextOfRoot, GetNext, Climb, NextSibling, Dangling, Descend, Arrive, Resume,
              NullMeansAbsent
<1>3. ASSUME Match
      PROVE  NullMeansAbsent'
  <2>1. UNCHANGED tree /\ target' = target /\ pc' = "found"
    BY <1>3 DEF Match
  <2>2. InTree(target)'
    BY <1>3, <2>1, MatchPresent, InTreeUnchanged
  <2> QED
    BY <2>1, <2>2 DEF NullMeansAbsent
<1>4. ASSUME NoChildren
      PROVE  NullMeansAbsent'
  <2>1. UNCHANGED tree /\ target' = target /\ pc' = "null" /\ removals' = removals
    BY <1>4 DEF NoChildren, tree
  <2>2. removals = 0 => ~ InTree(target)'
    BY <1>4, <2>1, NoChildrenAbsent, InTreeUnchanged
  <2> QED
    BY <2>1, <2>2 DEF NullMeansAbsent
<1>5. ASSUME UNCHANGED vars
      PROVE  NullMeansAbsent'
  <2>1. UNCHANGED tree /\ target' = target /\ pc' = pc /\ removals' = removals
    BY <1>5 DEF vars, tree
  <2>2. InTree(target)' <=> InTree(target)
    BY <2>1, InTreeUnchanged
  <2> QED
    BY <2>1, <2>2 DEF NullMeansAbsent
<1> QED
  BY <1>1, <1>2, <1>3, <1>4, <1>5 DEF Next

\* The inductive invariant of the tree and of the walk over it.
THEOREM WalkInvariant == Spec => []Inv
<1>1. Init => Inv
  BY TreeInit, ShapeInit DEF Inv, Init, SearchTypeOK, WalkInv, Searching, Busy, NullMeansAbsent
<1>2. ASSUME Inv, [Next]_vars
      PROVE  Inv'
  <2>1. TreeInv'
    BY <1>2, AddChildStep, RemoveChildStep, OtherSteps DEF Inv, Next, Step
  <2>2. ShapeInv'
    BY <1>2, AddChildShape, RemoveChildShape, ShapeOtherSteps DEF Inv, Next, Step
  <2>3. SearchTypeOK'
    BY <1>2, SearchTypeStep DEF Inv
  <2> QED
    BY <1>2, <2>1, <2>2, <2>3, SearchingStep, AnswerStep DEF Inv, WalkInv
<1> QED
  BY <1>1, <1>2, PTL DEF Spec

LEMMA InvDownwardWalk == Inv => DownwardWalk
<1> SUFFICES ASSUME Inv, pc = "search"
             PROVE  /\ cursor \notin visited
                    /\ cursor # Root => parent[cursor] \in visited
  BY DEF DownwardWalk
<1>1. PICK d \in [Node -> Nat], f \in [Nat -> Node] :
        Search(d, f, target, cursor, node, level, visited, pc)
  BY DEF Inv, WalkInv, Searching, Busy
<1>2. OnSpine(d, f, cursor, visited) /\ cursor \notin visited
  BY <1>1, WalkFacts DEF Inv, Search, At
<1> QED
  BY <1>2 DEF OnSpine

\* A search comes to a node once and only below nodes it has passed, in trees of
\* any size and shape, whatever has been removed from them (Util.hpp:78-102).
THEOREM DownwardWalkCorrect == Spec => []DownwardWalk
  BY InvDownwardWalk, WalkInvariant, PTL

\* find() returns only what is in the tree, and nullptr only for what is not, as
\* long as nothing has been removed: the walk level by level may stop short, but
\* then it has met an invalid iterator before (Util.hpp:78-102, 127-147).
THEOREM NullMeansAbsentCorrect == Spec => []NullMeansAbsent
<1>1. Inv => NullMeansAbsent
  BY DEF Inv, WalkInv
<1> QED
  BY <1>1, WalkInvariant, PTL
-----------------------------------------------------------------------------
(* Why a search ends *)

\* m is nearer to the root than n.
Higher(m, n) == \A d \in [Node -> Nat] : Depth(d) => d[m] < d[n]

\* The loops of getNext() in their order, and the test of find().
Stage == CASE pc = "climb" -> 2 [] pc = "descend" -> 1 [] pc = "search" -> 0

\* A search returns, or passes a node that it has not passed before, or is nearer to
\* the next node it comes to.
Progress ==
  pc \in Busy =>
    \/ pc' \notin Busy
    \/ cursor \in Node \ visited /\ visited' = visited \cup {cursor}
    \/ /\ visited' = visited
       /\ \/ Stage' < Stage
          \/ pc = "climb" /\ pc' = "climb" /\ Higher(node', node)
          \/ pc = "descend" /\ pc' = "descend" /\ level' < level

LEMMA Stages ==
  /\ pc = "climb" => Stage = 2
  /\ pc = "descend" => Stage = 1
  /\ pc = "search" => Stage = 0
BY DEF Stage

LEMMA StagesNext ==
  /\ pc' = "climb" => Stage' = 2
  /\ pc' = "descend" => Stage' = 1
  /\ pc' = "search" => Stage' = 0
BY DEF Stage

LEMMA ClimbHigher ==
  ASSUME Inv, Climb, pc' = "climb"
  PROVE  Higher(node', node)
<1>1. node \in Node /\ parent[node] # Null /\ node' = parent[node]
  BY DEF Climb, Inv, SearchTypeOK
<1>2. parent[node] \in Node
  BY <1>1 DEF Inv, TreeInv, TreeTypeOK
<1>3. ASSUME NEW d \in [Node -> Nat], Depth(d)
      PROVE  d[node'] < d[node]
  <2>1. d[node] = d[parent[node]] + 1 /\ d[parent[node]] \in Nat
    BY <1>1, <1>2, <1>3 DEF Depth
  <2> QED
    BY <1>1, <2>1
<1> QED
  BY <1>3 DEF Higher

\* Why find() returns, in trees of any size and shape and after any removals: each
\* step passes a node that the search has not passed, of which there is a last one
\* in a finite tree, or climbs to a node that is less deep, or goes down one of the
\* levels it has climbed, or returns; the depths are there, since no node is above
\* itself (Util.hpp:78-102, 141-147).
THEOREM SearchProgress ==
  Spec => /\ [](\E d \in [Node -> Nat] : Depth(d))
          /\ [][Progress]_vars
<1>1. Inv => \E d \in [Node -> Nat] : Depth(d)
  BY DEF Inv, ShapeInv
<1>2. Inv /\ [Next]_vars => [Progress]_vars
  <2> SUFFICES ASSUME Inv, Next, pc \in Busy PROVE Progress
    BY DEF Progress
  <2>1. SearchTypeOK /\ DownwardWalk
    BY InvDownwardWalk DEF Inv
  <2>2. CASE Match \/ Dangling \/ NoChildren
    BY <2>2 DEF Match, Dangling, NoChildren, Progress, Busy
  <2>3. CASE NextOfRoot \/ GetNext
    <3>1. cursor \in Node \ visited /\ visited' = visited \cup {cursor}
      BY <2>1, <2>3 DEF NextOfRoot, GetNext, Passed, SearchTypeOK, DownwardWalk
    <3> QED
      BY <3>1 DEF Progress
  <2>4. CASE Climb
    <3>1. visited' = visited /\ pc = "climb" /\ pc' \in {"climb", "descend"}
      BY <2>4 DEF Climb
    <3>2. CASE pc' = "climb"
      BY <2>4, <3>1, <3>2, ClimbHigher DEF Progress
    <3>3. CASE pc' = "descend"
      BY <3>1, <3>3, Stages, StagesNext DEF Progress
    <3> QED
      BY <3>1, <3>2, <3>3
  <2>5. CASE NextSibling
    <3>1. visited' = visited /\ pc = "climb" /\ pc' \in {"search", "undefined"}
      BY <2>5 DEF NextSibling
    <3>2. CASE pc' = "search"
      BY <3>1, <3>2, Stages, StagesNext DEF Progress
    <3>3. CASE pc' = "undefined"
      BY <3>3 DEF Progress, Busy
    <3> QED
      BY <3>1, <3>2, <3>3
  <2>6. CASE Descend
    <3>1. /\ visited' = visited /\ pc = "descend" /\ pc' = "descend"
          /\ level \in Nat /\ level' = level - 1
      BY <2>1, <2>6 DEF Descend, SearchTypeOK
    <3> QED
      BY <3>1 DEF Progress
  <2>7. CASE Arrive
    <3>1. visited' = visited /\ pc = "descend" /\ pc' = "search"
      BY <2>7 DEF Arrive
    <3> QED
      BY <3>1, Stages, StagesNext DEF Progress
  <2>8. CASE Find \/ Resume \/ \E n \in Node : AddChild(n) \/ RemoveChild(n)
    BY <2>8 DEF Find, Resume, AddChild, RemoveChild, Busy
  <2> QED
    BY <2>2, <2>3, <2>4, <2>5, <2>6, <2>7, <2>8 DEF Next
<1> QED
  BY <1>1, <1>2, WalkInvariant, PTL DEF Spec
=============================================================================
