-------------------------------- MODULE Tree --------------------------------
(***************************************************************************)
(* Tree<T> (src/src/Util.hpp:44-152), which holds the classes of a program. *)
(*                                                                         *)
(* A node remembers its place among its siblings as an iterator into the   *)
(* vector of its parent: here an index and, for the nodes in `fresh', the  *)
(* fact that the vector has not invalidated it.  It does when it grows and *)
(* when it erases.  A use of an invalid iterator, of an empty vector or of *)
(* a pointer past its object leads to "undefined".                         *)
(***************************************************************************)
EXTENDS Naturals, Sequences

CONSTANTS
  Node,         \* the nodes that may be allocated
  Root,         \* the root
  Null,         \* the null pointer
  MaxRemovals   \* bound on the calls of removeChild()

ASSUME NodeAssumption ==
  /\ Root \in Node
  /\ Null \notin Node
  /\ MaxRemovals \in Nat

VARIABLES
  parent,    \* parent[n]: Null for the root and for nodes not allocated
  children,  \* children[n]: the vector of child pointers
  capacity,  \* capacity[n]: elements that vector can hold before it grows
  place,     \* place[n]: the index `it' designated when it was stored
  fresh,     \* the nodes whose iterator `it' is valid
  removals,  \* calls of removeChild() so far
  target,    \* the node whose data find() looks for; not allocated: no node has it
  cursor,    \* the pointer p of find()
  node,      \* the local variable of getNext()
  level,     \* the levels it has climbed, then those it has still to descend
  visited,   \* history: the nodes this search has moved past
  pc         \* "idle", "search", "climb", "descend", "found", "null" or "undefined"

tree   == <<parent, children, capacity, place, fresh, removals>>
search == <<target, cursor, node, level, visited, pc>>
vars   == <<parent, children, capacity, place, fresh, removals,
            target, cursor, node, level, visited, pc>>

Members(s)  == { s[i] : i \in 1..Len(s) }
Allocated   == { n \in Node : n = Root \/ parent[n] # Null }
-----------------------------------------------------------------------------
Init ==
  /\ parent = [n \in Node |-> Null]
  /\ children = [n \in Node |-> <<>>]
  /\ capacity = [n \in Node |-> 0]
  /\ place = [n \in Node |-> 0]
  /\ fresh = {}
  /\ removals = 0
  /\ target = Null
  /\ cursor = Null
  /\ node = Null
  /\ level = 0
  /\ visited = {}
  /\ pc = "idle"

\* Slip: the growth of the vector left out.
AddChildInPlace(n) ==
  /\ pc = "idle"
  /\ n \in Allocated
  /\ \E c \in Node \ Allocated :
       /\ parent' = [parent EXCEPT ![c] = n]
       /\ children' = [children EXCEPT ![n] = Append(@, c)]
       /\ place' = [place EXCEPT ![c] = Len(children[n]) + 1]
       /\ fresh' = fresh \cup {c}
  /\ UNCHANGED <<capacity, removals, search>>

\* addChild(): insert() returns a valid iterator; a full vector moves to an
\* array twice the size, and every iterator stored before dangles.
AddChild(n) ==
  /\ pc = "idle"
  /\ n \in Allocated
  /\ \E c \in Node \ Allocated :
       /\ parent' = [parent EXCEPT ![c] = n]
       /\ children' = [children EXCEPT ![n] = Append(@, c)]
       /\ place' = [place EXCEPT ![c] = Len(children[n]) + 1]
       /\ IF Len(children[n]) < capacity[n]
            THEN fresh' = fresh \cup {c} /\ UNCHANGED capacity
            ELSE /\ fresh' = (fresh \ Members(children[n])) \cup {c}
                 /\ capacity' = [capacity EXCEPT ![n] = IF @ = 0 THEN 1 ELSE 2 * @]
  /\ UNCHANGED <<removals, search>>

Without(s, i) == SubSeq(s, 1, i - 1) \o SubSeq(s, i + 1, Len(s))

\* Slip: only the iterator of the erased element is taken for invalid.
RemoveChildKeepsLater(n) ==
  /\ pc = "idle"
  /\ removals < MaxRemovals
  /\ \E i \in 1..Len(children[n]) :
       /\ children' = [children EXCEPT ![n] = Without(@, i)]
       /\ fresh' = fresh \ {children[n][i]}
  /\ removals' = removals + 1
  /\ UNCHANGED <<parent, capacity, place, search>>

\* removeChild(): erase() shifts the later siblings and invalidates their
\* iterators too; the node removed keeps its own fields.
RemoveChild(n) ==
  /\ pc = "idle"
  /\ removals < MaxRemovals
  /\ \E i \in 1..Len(children[n]) :
       /\ children' = [children EXCEPT ![n] = Without(@, i)]
       /\ fresh' = fresh \ { children[n][j] : j \in i..Len(children[n]) }
  /\ removals' = removals + 1
  /\ UNCHANGED <<parent, capacity, place, search>>

\* find(): for (PNode p = root; ...)
Find ==
  /\ pc = "idle"
  /\ target' \in Node
  /\ cursor' = Root
  /\ visited' = {}
  /\ pc' = "search"
  /\ UNCHANGED <<tree, node, level>>

Match ==
  /\ pc = "search"
  /\ cursor = target
  /\ pc' = "found"
  /\ UNCHANGED <<tree, target, cursor, node, level, visited>>
-----------------------------------------------------------------------------
(* p = p->getNext(): up while the node is a last child, then either to the next *)
(* sibling or, from the root, down the first children.                          *)

Passed == visited' = visited \cup {cursor}

\* front() of a root without children is undefined.
NextOfRoot ==
  /\ pc = "search"
  /\ cursor # target
  /\ parent[cursor] = Null
  /\ Passed
  /\ IF children[cursor] = <<>>
       THEN pc' = "undefined" /\ UNCHANGED cursor
       ELSE cursor' = children[cursor][1] /\ UNCHANGED pc
  /\ UNCHANGED <<tree, target, node, level>>

GetNext ==
  /\ pc = "search"
  /\ cursor # target
  /\ parent[cursor] # Null
  /\ Passed
  /\ node' = cursor
  /\ level' = 0
  /\ pc' = "climb"
  /\ UNCHANGED <<tree, target, cursor>>

\* node->it + 1 == node->parent->children.end()
IsLast(n) == place[n] = Len(children[parent[n]])

\* One turn of the loop; out of it at the root, whose first child is next.
Climb ==
  /\ pc = "climb"
  /\ node \in fresh
  /\ IsLast(node)
  /\ level' = level + 1
  /\ IF parent[parent[node]] = Null
       THEN node' = children[parent[node]][1] /\ pc' = "descend"
       ELSE node' = parent[node] /\ UNCHANGED pc
  /\ UNCHANGED <<tree, target, cursor, visited>>

\* *(node->it + 1), if the loop has not been entered; otherwise the code goes on
\* from node++, a pointer past its object.
NextSibling ==
  /\ pc = "climb"
  /\ node \in fresh
  /\ ~ IsLast(node)
  /\ IF level = 0
       THEN cursor' = children[parent[node]][place[node] + 1] /\ pc' = "search"
       ELSE pc' = "undefined" /\ UNCHANGED cursor
  /\ UNCHANGED <<tree, target, node, level, visited>>

\* The iterator that the test reads is invalid.
Dangling ==
  /\ pc = "climb"
  /\ node \notin fresh
  /\ pc' = "undefined"
  /\ UNCHANGED <<tree, target, cursor, node, level, visited>>

\* Slip: `node = root' where the loop goes down.
DescendAgain ==
  /\ pc = "descend"
  /\ level > 0
  /\ children[node] # <<>>
  /\ node' = Root
  /\ level' = level - 1
  /\ UNCHANGED <<tree, target, cursor, visited, pc>>

Descend ==
  /\ pc = "descend"
  /\ level > 0
  /\ children[node] # <<>>
  /\ node' = children[node][1]
  /\ level' = level - 1
  /\ UNCHANGED <<tree, target, cursor, visited, pc>>

\* if (node->children.empty()) return nullptr;
NoChildren ==
  /\ pc = "descend"
  /\ level > 0
  /\ children[node] = <<>>
  /\ cursor' = Null
  /\ pc' = "null"
  /\ UNCHANGED <<tree, target, node, level, visited>>

\* Slip: a loop that goes down one level too few.
ArriveEarly ==
  /\ pc = "descend"
  /\ level <= 1
  /\ cursor' = node
  /\ pc' = "search"
  /\ UNCHANGED <<tree, target, node, level, visited>>

Arrive ==
  /\ pc = "descend"
  /\ level = 0
  /\ cursor' = node
  /\ pc' = "search"
  /\ UNCHANGED <<tree, target, node, level, visited>>
-----------------------------------------------------------------------------
\* The caller goes on with what find() returned.
Resume ==
  /\ pc \in {"found", "null"}
  /\ pc' = "idle"
  /\ target' = Null
  /\ cursor' = Null
  /\ node' = Null
  /\ level' = 0
  /\ visited' = {}
  /\ UNCHANGED tree

\* A step of find() and getNext().
Step == Match \/ NextOfRoot \/ GetNext \/ Climb \/ NextSibling \/ Dangling
        \/ Descend \/ NoChildren \/ Arrive

Next ==
  \/ \E n \in Node : AddChild(n) \/ RemoveChild(n)
  \/ Find \/ Resume
  \/ Match \/ NextOfRoot \/ GetNext
  \/ Climb \/ NextSibling \/ Dangling
  \/ Descend \/ NoChildren \/ Arrive

Spec == Init /\ [][Next]_vars

\* find() runs to its end once it is called.
FairSpec == Spec /\ WF_vars(Step)
-----------------------------------------------------------------------------
(* Properties *)

TreeTypeOK ==
  /\ parent \in [Node -> Node \cup {Null}]
  /\ children \in [Node -> Seq(Node)]
  /\ capacity \in [Node -> Nat]
  /\ \A n \in Node : Len(children[n]) <= capacity[n]
  /\ place \in [Node -> Nat]
  /\ fresh \subseteq Node
  /\ removals \in 0..MaxRemovals

SearchTypeOK ==
  /\ target \in Node \cup {Null}
  /\ cursor \in Node \cup {Null}
  /\ node \in Node \cup {Null}
  /\ level \in Nat
  /\ visited \subseteq Node
  /\ pc \in { "idle", "search", "climb", "descend", "found", "null", "undefined" }
  /\ pc \in { "search", "climb", "descend", "found" } => cursor \in Node
  /\ pc \in { "climb", "descend" } => node \in Node
  /\ pc = "climb" => parent[node] # Null

\* No vector holds more children than its capacity, and find() and getNext() have
\* a node in hand wherever they use one (Util.hpp:60-102, 127-147).
TypeOK == TreeTypeOK /\ SearchTypeOK

\* An iterator that the vector has not invalidated designates the node that
\* stores it, whatever was added and removed around it (Util.hpp:60-76).
FreshIterators ==
  \A c \in fresh : /\ parent[c] # Null
                   /\ place[c] \in 1..Len(children[parent[c]])
                   /\ children[parent[c]][place[c]] = c

\* The sets that hold the root and, with a node, its children.
Closed(S) == Root \in S /\ \A n \in S : Members(children[n]) \subseteq S

\* n can be reached from the root through vectors of children.
InTree(n) == \A S \in SUBSET Node : Closed(S) => n \in S

\* A search comes to a node once, and only below nodes it has passed: getNext()
\* goes down level by level and never back (Util.hpp:78-102).
DownwardWalk ==
  pc = "search" => /\ cursor \notin visited
                   /\ cursor # Root => parent[cursor] \in visited

\* What find() returns is in the tree, although nodes have been removed with what
\* is below them.  While nothing has been removed, it answers nullptr only for what
\* is not in the tree: a search that would miss a node has undefined behaviour first.
NullMeansAbsent ==
  /\ pc = "found" => InTree(target)
  /\ pc = "null" /\ removals = 0 => ~ InTree(target)

\* Every search ends (Util.hpp:141-144).
SearchEnds == (pc \in { "search", "climb", "descend" }) ~> (pc \in { "found", "null", "undefined" })
=============================================================================
