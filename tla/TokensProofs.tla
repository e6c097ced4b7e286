---------------------------- MODULE TokensProofs ----------------------------
(***************************************************************************)
(* No token of the compiler is ever printed from freed memory, and tokens  *)
(* behave as the values of TokenValues, for heaps of any size.             *)
(*                                                                         *)
(* The argument is about ownership: an assignment frees the payload of the *)
(* token assigned to (`held'), which no other token shares, and never a    *)
(* String that characters belong to, because such a String was made by the *)
(* lexer, which frees nothing.                                             *)
(***************************************************************************)
EXTENDS Tokens, SequenceTheorems, TLAPS

Heap == [Block -> Payload \cup {Free}]

\* The ownership part of OwnershipInv, for a heap h, tokens K and holders hd.
Owned(h, K, hd) ==
  /\ \A t \in K : Sound(h, t)
  /\ \A g \in Holder : Sound(h, hd[g])
  /\ \A g \in Holder : hd[g].data # Null =>
       /\ \A t \in K : t.data # hd[g].data
       /\ \A f \in Holder \ {g} : hd[f].data # hd[g].data
       /\ \A b \in Block : h[b] # Free => h[b].text # hd[g].data
  /\ \A b \in Block : h[b] # Free => (h[b].text # Null => h[h[b].text] # Free)

\* k is the heap h with the payload p written to b, which was free.
Puts(h, k, b, p) == h \in Heap /\ b \in Block /\ h[b] = Free /\ k = [h EXCEPT ![b] = p]

\* f is the heap h when the holder x has freed its payload.
Frees(h, f, hd, x) ==
  h \in Heap /\ x \in Holder /\ hd[x].data \in Block /\ f = [h EXCEPT ![hd[x].data] = Free]

\* The holders e are hd, but that x has no payload.
Emptied(hd, e, x) == (\A g \in Holder : g # x => e[g] = hd[g]) /\ e[x].data = Null

Pointers(K, hd) == /\ \A t \in K : t.data \in Block \cup {Null}
                   /\ \A g \in Holder : hd[g].data \in Block \cup {Null}

LEMMA Constants == Null \notin Block /\ Null \notin Payload /\ Parser \in Holder
                   /\ "Unread" \notin TextType \cup PlainType /\ MaxBody \in Nat
BY TokenAssumption, NullAssumption

LEMMA InvariantIs == OwnershipInv <=> TypeOK /\ Owned(heap, Kept, held)
<1> DEFINE Texts(B) == /\ \A g \in Holder : held[g].data # Null =>
                            \A b \in B : heap[b].text # held[g].data
                       /\ \A b \in B : heap[b].text # Null => heap[heap[b].text] # Free
<1>1. Texts(Live) <=> \A b \in Block : heap[b] # Free =>
        /\ \A g \in Holder : held[g].data # Null => heap[b].text # held[g].data
        /\ heap[b].text # Null => heap[heap[b].text] # Free
  BY DEF Live
<1>2. NoDangling <=> /\ \A t \in Kept : Sound(heap, t)
                     /\ \A g \in Holder : Sound(heap, held[g])
  BY DEF NoDangling, Tokens
<1> QED
  BY <1>1, <1>2 DEF OwnershipInv, ExclusiveOwner, TextInv, Owned, Live
-----------------------------------------------------------------------------
(* The heap *)

\* Fewer tokens, or tokens that have no payload or share that of others, change
\* nothing.
LEMMA SharedOwned ==
  ASSUME NEW h, NEW K, NEW hd, NEW L, Owned(h, K, hd),
         \A t \in L : t.data = Null \/ \E u \in K : t.data = u.data
  PROVE  Owned(h, L, hd)
<1>1. \A t \in L : Sound(h, t)
  BY DEF Owned, Sound
<1>2. \A g \in Holder : hd[g].data # Null => \A t \in L : t.data # hd[g].data
  BY DEF Owned
<1> QED
  BY <1>1, <1>2 DEF Owned

\* A token says the same, and stays readable, when its payload and the String
\* behind it are left alone.
LEMMA Untouched ==
  ASSUME NEW h, NEW k, NEW t, Sound(h, t),
         t.data # Null => k[t.data] = h[t.data],
         t.data # Null /\ h[t.data].text # Null => k[h[t.data].text] = h[h[t.data].text]
  PROVE  Sound(k, t) /\ Says(k, t) = Says(h, t)
<1>1. Sound(k, t)
  BY DEF Sound
<1>2. Spelling(k, t.data) = Spelling(h, t.data)
  <2>1. CASE t.data = Null
    BY <2>1 DEF Spelling
  <2>2. CASE t.data # Null
    BY <2>2 DEF Spelling
  <2> QED
    BY <2>1, <2>2
<1> QED
  BY <1>1, <1>2 DEF Says

\* What is written to a block that was free is seen by no token.
LEMMA FreshSame ==
  ASSUME NEW h, NEW k, NEW K, NEW hd, NEW t, NEW b, NEW p,
         Puts(h, k, b, p), Owned(h, K, hd), Sound(h, t), t.data \in Block \cup {Null}
  PROVE  Sound(k, t) /\ Says(k, t) = Says(h, t)
<1> USE DEF Puts
<1>1. \A d \in Block : d # b => k[d] = h[d]
  BY DEF Heap
<1>2. t.data # Null => t.data # b
  BY DEF Sound
<1>3. ASSUME t.data # Null, h[t.data].text # Null
      PROVE  h[t.data].text # b /\ h[t.data].text \in Block
  <2>1. h[t.data] \in Payload
    BY <1>3 DEF Sound, Heap
  <2> QED
    BY <1>3, <2>1 DEF Sound, Payload
<1>4. t.data # Null => k[t.data] = h[t.data]
  BY <1>1, <1>2
<1>5. t.data # Null /\ h[t.data].text # Null => k[h[t.data].text] = h[h[t.data].text]
  BY <1>1, <1>3
<1> QED
  BY ONLY Sound(h, t), <1>4, <1>5, Untouched

\* A payload in a free block: the lexer's new, or the copy of another payload.
LEMMA FreshOwned ==
  ASSUME NEW h \in Heap, NEW K, NEW hd, NEW b \in Block, NEW p \in Payload, NEW u,
         Owned(h, K, hd), h[b] = Free, u.data = b,
         \A g \in Holder : hd[g].data \in Block \cup {Null},
         \A t \in K : t.data \in Block \cup {Null},
         p.text = b \/ p.text = Null \/
           (/\ p.text \in Block /\ h[p.text] # Free
            /\ \A g \in Holder : hd[g].data # Null => p.text # hd[g].data)
  PROVE  Owned([h EXCEPT ![b] = p], K \cup {u}, hd)
<1> DEFINE k == [h EXCEPT ![b] = p]
<1>0. k[b] = p /\ p # Free /\ b # Null
  BY Constants DEF Heap, Free
<1>1. \A d \in Block : d # b => k[d] = h[d]
  BY DEF Heap
<1>p. Puts(h, k, b, p)
  BY DEF Puts
<1>2. ASSUME NEW t \in K
      PROVE  Sound(k, t)
  <2>1. Sound(h, t)
    BY DEF Owned
  <2> QED
    BY <1>p, <2>1, FreshSame
<1>3. ASSUME NEW g \in Holder
      PROVE  Sound(k, hd[g])
  <2>1. Sound(h, hd[g])
    BY DEF Owned
  <2> QED
    BY <1>p, <2>1, FreshSame
<1>4. p.text # Null => k[p.text] # Free
  BY <1>0, <1>1
<1>5. Sound(k, u)
  BY <1>0, <1>4 DEF Sound
<1>6. \A g \in Holder : hd[g].data # Null => hd[g].data # b
  BY <1>3 DEF Owned, Sound
<1>7. ASSUME NEW g \in Holder, hd[g].data # Null
      PROVE  /\ \A t \in K \cup {u} : t.data # hd[g].data
             /\ \A f \in Holder \ {g} : hd[f].data # hd[g].data
             /\ \A c \in Block : k[c] # Free => k[c].text # hd[g].data
  <2>1. \A t \in K : t.data # hd[g].data
    BY <1>7 DEF Owned
  <2>2. \A f \in Holder \ {g} : hd[f].data # hd[g].data
    BY <1>7 DEF Owned
  <2>3. ASSUME NEW c \in Block, k[c] # Free
        PROVE  k[c].text # hd[g].data
    <3>1. CASE c = b
      BY <3>1, <1>0, <1>6, <1>7
    <3>2. CASE c # b
      BY <3>2, <1>1, <1>7, <2>3 DEF Owned
    <3> QED
      BY <3>1, <3>2
  <2> QED
    BY <1>6, <1>7, <2>1, <2>2, <2>3
<1>8. ASSUME NEW c \in Block, k[c] # Free, k[c].text # Null
      PROVE  k[k[c].text] # Free
  <2>1. CASE c = b
    BY <2>1, <1>0, <1>4, <1>8
  <2>2. CASE c # b
    <3>1. k[c] = h[c]
      BY <2>2, <1>1
    <3>2. h[h[c].text] # Free
      BY <3>1, <1>8 DEF Owned
    <3>3. h[c].text \in Block
      BY <3>1, <1>8 DEF Heap, Payload
    <3> QED
      BY <3>1, <3>2, <3>3, <1>0, <1>1
  <2> QED
    BY <2>1, <2>2
<1> HIDE DEF k
<1>9. \A t \in K \cup {u} : Sound(k, t)
  BY <1>2, <1>5
<1> QED
  BY <1>3, <1>7, <1>8, <1>9 DEF Owned, k

\* A token whose payload is not the one freed says what it said.
LEMMA FreedSame ==
  ASSUME NEW h, NEW f, NEW K, NEW hd, NEW x, NEW t,
         Frees(h, f, hd, x), Owned(h, K, hd), Sound(h, t),
         t.data \in Block \cup {Null}, t.data # hd[x].data
  PROVE  Sound(f, t) /\ Says(f, t) = Says(h, t)
<1> USE DEF Frees
<1>0. hd[x].data # Null
  BY Constants
<1>1. \A d \in Block : d # hd[x].data => f[d] = h[d]
  BY DEF Heap
<1>2. ASSUME t.data # Null, h[t.data].text # Null
      PROVE  h[t.data].text \in Block /\ h[t.data].text # hd[x].data
  <2>1. t.data \in Block /\ h[t.data] \in Payload /\ h[t.data] # Free
    BY <1>2 DEF Sound, Heap
  <2> QED
    BY <1>0, <1>2, <2>1 DEF Payload, Owned
<1>3. t.data # Null => f[t.data] = h[t.data]
  BY <1>1
<1>4. t.data # Null /\ h[t.data].text # Null => f[h[t.data].text] = h[h[t.data].text]
  BY <1>1, <1>2
<1> QED
  BY ONLY Sound(h, t), <1>3, <1>4, Untouched

\* free(data): the holder owns nothing for a moment.
LEMMA FreedOwned ==
  ASSUME NEW h, NEW f, NEW K, NEW hd, NEW e, NEW x,
         Frees(h, f, hd, x), Owned(h, K, hd), Pointers(K, hd), Emptied(hd, e, x)
  PROVE  Owned(f, K, e)
<1>f. Frees(h, f, hd, x)
  OBVIOUS
<1> USE DEF Frees, Pointers, Emptied
<1>0. hd[x].data # Null
  BY Constants
<1>1. /\ \A d \in Block : d # hd[x].data => f[d] = h[d]
      /\ f[hd[x].data] = Free
  BY DEF Heap
<1>2. ASSUME NEW t \in K
      PROVE  Sound(f, t)
  <2>1. Sound(h, t) /\ t.data # hd[x].data /\ t.data \in Block \cup {Null}
    BY <1>0 DEF Owned
  <2> QED
    BY ONLY <1>f, <2>1, Owned(h, K, hd), FreedSame
<1>3. ASSUME NEW g \in Holder
      PROVE  Sound(f, e[g])
  <2>1. CASE g = x
    BY <2>1 DEF Sound
  <2>2. CASE g # x
    <3>1. Sound(h, hd[g]) /\ hd[g].data # hd[x].data /\ hd[g].data \in Block \cup {Null}
      BY <1>0, <2>2 DEF Owned
    <3>2. e[g] = hd[g]
      BY <2>2
    <3> QED
      BY ONLY <1>f, <3>1, <3>2, Owned(h, K, hd), FreedSame
  <2> QED
    BY <2>1, <2>2
<1>4. ASSUME NEW g \in Holder, e[g].data # Null
      PROVE  /\ \A t \in K : t.data # e[g].data
             /\ \A i \in Holder \ {g} : e[i].data # e[g].data
             /\ \A b \in Block : f[b] # Free => f[b].text # e[g].data
  <2>1. g # x /\ e[g] = hd[g]
    BY <1>4
  <2>2. \A t \in K : t.data # hd[g].data
    BY <1>4, <2>1 DEF Owned
  <2>3. \A i \in Holder \ {g} : e[i].data # e[g].data
    <3>1. \A i \in Holder \ {g} : hd[i].data # hd[g].data
      BY <1>4, <2>1 DEF Owned
    <3> QED
      BY <1>4, <2>1, <3>1
  <2>4. \A b \in Block : f[b] # Free => f[b].text # e[g].data
    <3>1. \A b \in Block : h[b] # Free => h[b].text # hd[g].data
      BY <1>4, <2>1 DEF Owned
    <3> QED
      BY <1>1, <2>1, <3>1
  <2> QED
    BY <2>1, <2>2, <2>3, <2>4
<1>5. ASSUME NEW b \in Block, f[b] # Free, f[b].text # Null
      PROVE  f[f[b].text] # Free
  <2>1. f[b] = h[b] /\ h[b] \in Payload
    BY <1>1, <1>5 DEF Heap
  <2>2. h[b].text \in Block /\ h[b].text # hd[x].data /\ h[h[b].text] # Free
    BY <1>0, <1>5, <2>1 DEF Payload, Owned
  <2> QED
    BY <1>1, <2>1, <2>2
<1> QED
  BY <1>2, <1>3, <1>4, <1>5 DEF Owned

\* malloc() and memcpy(): the copy says what the other token says.
LEMMA CopySays ==
  ASSUME NEW f, NEW k, NEW K, NEW hd, NEW b, NEW u, NEW other,
         Puts(f, k, b, f[other.data]), Owned(f, K, hd), Sound(f, other),
         other.data \in Block, u.ty = other.ty, u.data = b
  PROVE  Says(k, u) = Says(f, other) /\ Sound(k, u)
<1> USE DEF Puts
<1>0. other.data # Null /\ b # Null
  BY Constants
<1>1. f[other.data] # Free /\ f[other.data] \in Payload
  BY <1>0 DEF Sound, Heap
<1>2. k[b] = f[other.data] /\ \A d \in Block : d # b => k[d] = f[d]
  BY DEF Heap
<1>3. ASSUME f[other.data].text # Null
      PROVE  k[f[other.data].text] = f[f[other.data].text] /\ f[f[other.data].text] # Free
  <2>1. f[other.data].text \in Block /\ f[f[other.data].text] # Free
    BY <1>0, <1>1, <1>3 DEF Payload, Sound
  <2> QED
    BY <1>2, <2>1
<1>4. Spelling(k, b) = Spelling(f, other.data)
  <2>1. CASE f[other.data].text = Null
    BY <1>0, <1>1, <1>2, <2>1 DEF Spelling
  <2>2. CASE f[other.data].text # Null
    BY <1>0, <1>1, <1>2, <1>3, <2>2 DEF Spelling
  <2> QED
    BY <2>1, <2>2
<1> QED
  BY <1>0, <1>1, <1>2, <1>3, <1>4 DEF Says, Sound

\* A copy that is kept: in a stream or in a body.
LEMMA CopyOwned ==
  ASSUME NEW h \in Heap, NEW K, NEW hd, NEW b \in Block, NEW u, NEW other,
         Owned(h, K, hd), Sound(h, other), other.data \in Block, h[b] = Free, u.data = b,
         \A g \in Holder : hd[g].data \in Block \cup {Null},
         \A t \in K : t.data \in Block \cup {Null}
  PROVE  Owned([h EXCEPT ![b] = h[other.data]], K \cup {u}, hd)
<1> DEFINE p == h[other.data]
<1>1. p # Free /\ p \in Payload
  BY Constants DEF Sound, Heap
<1>2. p.text = Null \/
        (/\ p.text \in Block /\ h[p.text] # Free
         /\ \A g \in Holder : hd[g].data # Null => p.text # hd[g].data)
  <2>1. CASE p.text = Null
    BY <2>1
  <2>2. CASE p.text # Null
    <3>1. p.text \in Block /\ h[p.text] # Free
      BY <1>1, <2>2 DEF Owned, Payload
    <3>2. \A g \in Holder : hd[g].data # Null => p.text # hd[g].data
      BY <1>1 DEF Owned
    <3> QED
      BY <3>1, <3>2
  <2> QED
    BY <2>1, <2>2
<1> HIDE DEF p
<1>3. Owned([h EXCEPT ![b] = p], K \cup {u}, hd)
  BY <1>1, <1>2, FreshOwned
<1> QED
  BY <1>3 DEF p

\* A copy that is assigned to a holder without a payload, which then owns it.
LEMMA GivenOwned ==
  ASSUME NEW f, NEW k, NEW K, NEW e, NEW hd, NEW x \in Holder, NEW b,
         NEW other \in K,
         Puts(f, k, b, f[other.data]), Owned(f, K, e), other.data \in Block,
         Pointers(K, e), Emptied(hd, e, x), hd[x].data = b
  PROVE  Owned(k, K, hd)
<1> USE DEF Puts, Pointers, Emptied
<1>0. b # Null /\ other.data # Null /\ Sound(f, other)
  BY Constants DEF Owned
<1>1. Owned(k, K \cup {hd[x]}, e)
  BY <1>0, CopyOwned
<1>2. /\ \A t \in K : Sound(k, t)
      /\ \A g \in Holder : Sound(k, hd[g])
      /\ \A c \in Block : k[c] # Free => (k[c].text # Null => k[k[c].text] # Free)
  BY <1>1 DEF Owned
<1>3. \A t \in K : t.data # b
  BY <1>0 DEF Owned, Sound
<1>4. \A g \in Holder : g # x => hd[g].data # b
  BY <1>0 DEF Owned, Sound
<1>5. ASSUME NEW c \in Block, k[c] # Free
      PROVE  k[c].text # b
  <2>1. \A d \in Block : d # b => k[d] = f[d]
    BY DEF Heap
  <2>2. k[b] = f[other.data] /\ f[other.data] # Free
    BY <1>0 DEF Heap, Sound
  <2>3. \E d \in Block : f[d] # Free /\ k[c] = f[d]
    BY <1>5, <2>1, <2>2
  <2>4. PICK d \in Block : f[d] # Free /\ k[c] = f[d]
    BY <2>3
  <2>5. f[d].text # Null => f[f[d].text] # Free
    BY <2>4 DEF Owned
  <2> QED
    BY <1>0, <2>4, <2>5
<1>6. ASSUME NEW g \in Holder, hd[g].data # Null
      PROVE  /\ \A t \in K : t.data # hd[g].data
             /\ \A i \in Holder \ {g} : hd[i].data # hd[g].data
             /\ \A c \in Block : k[c] # Free => k[c].text # hd[g].data
  <2>1. CASE g = x
    BY <1>3, <1>4, <1>5, <2>1
  <2>2. CASE g # x
    <3>1. e[g] = hd[g] /\ e[g].data # Null
      BY <1>6, <2>2
    <3>2. /\ \A t \in K : t.data # hd[g].data
          /\ \A i \in Holder \ {g} : e[i].data # hd[g].data
          /\ \A c \in Block : k[c] # Free => k[c].text # hd[g].data
      BY <1>1, <3>1 DEF Owned
    <3>3. \A i \in Holder \ {g} : hd[i].data # hd[g].data
      BY <1>4, <2>2, <3>2
    <3> QED
      BY <3>2, <3>3
  <2> QED
    BY <2>1, <2>2
<1> QED
  BY <1>2, <1>6 DEF Owned
-----------------------------------------------------------------------------
(* The actions *)

LEMMA TokenType ==
  ASSUME TypeOK
  PROVE  /\ heap \in Heap
         /\ \A t \in Kept : t \in Token /\ t.data \in Block \cup {Null}
         /\ \A g \in Holder : held[g] \in Token /\ held[g].data \in Block \cup {Null}
<1>1. \A s \in Seq(Token) : \A t \in Members(s) : t \in Token
  BY ElementOfSeq DEF Members
<1> QED
  BY <1>1 DEF TypeOK, Kept, Heap, Token

\* What a step leaves of the memory: the tokens that are kept and those of the
\* holders in H say what they said.
Preserved(H) ==
  /\ heap' \in Heap
  /\ Owned(heap', Kept', held')
  /\ \A t \in Kept : Says(heap', t) = Says(heap, t)
  /\ \A g \in H : Says(heap', held[g]) = Says(heap, held[g])

\* Steps that write no payload.
LEMMA QuietStep ==
  ASSUME OwnershipInv, heap' = heap, held' = held,
         \A t \in Kept' : t.data = Null \/ \E u \in Kept : t.data = u.data
  PROVE  Preserved(Holder)
<1>1. Owned(heap, Kept, held)
  BY InvariantIs
<1>2. Owned(heap, Kept', held)
  BY <1>1, SharedOwned
<1> QED
  BY <1>2, TokenType DEF OwnershipInv, Preserved

\* Steps that copy a token into a stream or a body.
LEMMA CopyStep ==
  ASSUME OwnershipInv, NEW other, NEW b \in Block, NEW u,
         other \in Kept \/ other \in { held[g] : g \in Holder },
         u = Copied(other, b), heap' = WithCopy(heap, other, b),
         other.data # Null => heap[b] = Free,
         held' = held, \A t \in Kept' : t \in Kept \cup {u}
  PROVE  Preserved(Holder) /\ Says(heap', u) = Says(heap, other)
<1>1. TypeOK /\ Owned(heap, Kept, held)
  BY InvariantIs
<1>0. /\ heap \in Heap
      /\ \A t \in Kept : t.data \in Block \cup {Null}
      /\ \A g \in Holder : held[g].data \in Block \cup {Null}
  BY <1>1, TokenType
<1>2. Sound(heap, other) /\ other.data \in Block \cup {Null}
  BY <1>1, TokenType DEF Owned
<1>3. CASE other.data = Null
  <2>1. heap' = heap /\ u.data = Null /\ u.ty = other.ty
    BY <1>3 DEF Copied, WithCopy
  <2> QED
    BY <1>3, <2>1, QuietStep DEF Says
<1>4. CASE other.data # Null
  <2>1. /\ u.ty = other.ty /\ u.data = b /\ heap[b] = Free /\ other.data \in Block
        /\ heap' = [heap EXCEPT ![b] = heap[other.data]]
    BY <1>2, <1>4 DEF Copied, WithCopy
  <2>p. Puts(heap, heap', b, heap[other.data])
    BY <1>0, <2>1 DEF Puts
  <2>2. heap[other.data] \in Payload \cup {Free}
    BY <1>1, <2>1, TokenType DEF Heap
  <2>3. heap' \in Heap
    BY <1>1, <2>1, <2>2, TokenType DEF Heap
  <2>4. Owned(heap', Kept \cup {u}, held)
    BY ONLY <1>0, <1>1, <1>2, <2>1, CopyOwned, b \in Block
  <2>5. Owned(heap', Kept', held)
    BY <2>4, SharedOwned
  <2>6. ASSUME NEW t, Sound(heap, t), t.data \in Block \cup {Null}
        PROVE  Says(heap', t) = Says(heap, t)
    BY <1>1, <2>p, <2>6, FreshSame
  <2>7. /\ \A t \in Kept : Says(heap', t) = Says(heap, t)
        /\ \A g \in Holder : Says(heap', held[g]) = Says(heap, held[g])
    BY <1>0, <1>1, <2>6 DEF Owned
  <2>8. Says(heap', u) = Says(heap, other)
    BY <1>1, <1>2, <2>1, <2>p, CopySays
  <2> QED
    BY <2>3, <2>5, <2>7, <2>8 DEF Preserved
<1> QED
  BY <1>3, <1>4

\* A new payload of the lexer: token.setData(new ...).
LEMMA SetStep ==
  ASSUME OwnershipInv, NEW b \in Block, NEW ty, NEW p \in Payload,
         SetData(ty, b, p), heap[b] = Free, p.text \in {b, Null},
         UNCHANGED <<held, stream, body, walked>>
  PROVE  Preserved(Holder)
<1>1. /\ TypeOK /\ Owned(heap, Kept, held) /\ heap \in Heap
      /\ \A t \in Kept : t.data \in Block \cup {Null}
      /\ \A g \in Holder : held[g].data \in Block \cup {Null}
  BY InvariantIs, TokenType
<1>2. heap' = [heap EXCEPT ![b] = p] /\ lexer'.data = b
  BY DEF SetData
<1>3. heap' \in Heap
  BY <1>1, <1>2 DEF Heap
<1>4. Owned(heap', Kept \cup {lexer'}, held)
  BY ONLY <1>1, <1>2, FreshOwned, b \in Block, p \in Payload, heap[b] = Free,
          p.text \in {b, Null}
<1>5. \A t \in Kept' : t \in Kept \cup {lexer'}
  BY DEF Kept, Members
<1>6. Owned(heap', Kept', held')
  BY <1>4, <1>5, SharedOwned
<1>7. ASSUME NEW t, Sound(heap, t), t.data \in Block \cup {Null}
      PROVE  Says(heap', t) = Says(heap, t)
  <2>1. Puts(heap, heap', b, p)
    BY <1>1, <1>2 DEF Puts
  <2> QED
    BY <1>1, <1>7, <2>1, FreshSame
<1>8. /\ \A t \in Kept : Says(heap', t) = Says(heap, t)
      /\ \A g \in Holder : Says(heap', held[g]) = Says(heap, held[g])
  BY <1>1, <1>7 DEF Owned
<1> QED
  BY <1>3, <1>6, <1>8 DEF Preserved

\* A bare type assigned to the lexer's token or to a holder: the payload stays,
\* and the type says not to look at it.
LEMMA SameHolders ==
  ASSUME NEW h, NEW K, NEW hd, NEW e, Owned(h, K, hd),
         \A g \in Holder : e[g].data = hd[g].data
  PROVE  Owned(h, K, e)
BY DEF Owned, Sound

\* Only types that say so have a payload to look at.
Filled == lexer.ty \in TextType \cup PlainType => lexer.data # Null

\* The kept tokens and the holders in H say in the heap k what they said in h.
Alike(h, k, K, hd, H) == /\ \A t \in K : Says(k, t) = Says(h, t)
                         /\ \A g \in H : Says(k, hd[g]) = Says(h, hd[g])

Freeing(h, f, hd, x) == (hd[x].data = Null /\ f = h) \/ Frees(h, f, hd, x)

\* What the heap is when a holder's payload has been freed, if it had one.
LEMMA FreeingStep ==
  ASSUME NEW h \in Heap, NEW f, NEW K, NEW hd, NEW e, NEW x \in Holder,
         Owned(h, K, hd), Pointers(K, hd), Emptied(hd, e, x),
         Freeing(h, f, hd, x)
  PROVE  f \in Heap /\ Owned(f, K, e) /\ Alike(h, f, K, hd, Holder \ {x})
<1>1. CASE hd[x].data = Null /\ f = h
  <2>1. f = h /\ \A g \in Holder : e[g].data = hd[g].data
    BY <1>1 DEF Emptied
  <2> QED
    BY <2>1, SameHolders DEF Alike
<1>2. CASE Frees(h, f, hd, x)
  <2>1. hd[x].data # Null /\ f \in Heap
    BY <1>2, Constants DEF Frees, Heap
  <2>3. Owned(f, K, e)
    BY <1>2, FreedOwned
  <2>4. ASSUME NEW t, Sound(h, t), t.data \in Block \cup {Null}, t.data # hd[x].data
        PROVE  Says(f, t) = Says(h, t)
    BY <1>2, <2>4, FreedSame
  <2>5. \A t \in K : Sound(h, t) /\ t.data # hd[x].data
    BY <2>1 DEF Owned
  <2>6. \A g \in Holder \ {x} : Sound(h, hd[g]) /\ hd[g].data # hd[x].data
    BY <2>1 DEF Owned
  <2> QED
    BY <2>1, <2>3, <2>4, <2>5, <2>6 DEF Pointers, Alike
<1> QED
  BY <1>1, <1>2 DEF Freeing

\* token = other, for a token of the lexer.
LEMMA TakeStep ==
  ASSUME OwnershipInv, NEW x \in Holder, Take(x)
  PROVE  /\ Preserved(Holder \ {x})
         /\ held' \in [Holder -> Token]
         /\ \A g \in Holder \ {x} : held'[g] = held[g]
         /\ Filled => Says(heap', held'[x]) = Says(heap, lexer)
<1> DEFINE f == Freed(heap, held[x], lexer)
           e == [held EXCEPT ![x] = [ty |-> held[x].ty, data |-> Null]]
<1>1. /\ TypeOK /\ Owned(heap, Kept, held) /\ heap \in Heap
      /\ Pointers(Kept, held) /\ lexer \in Kept
  BY InvariantIs, TokenType DEF Kept, Pointers
<1>2. Kept' = Kept
  BY DEF Take, Kept
<1>3. PICK b \in Block :
        /\ lexer.data # Null => f[b] = Free
        /\ held' = [held EXCEPT ![x] = Assigned(held[x], lexer, b)]
        /\ heap' = WithCopy(f, lexer, b)
  BY DEF Take
<1>4. /\ held' \in [Holder -> Token]
      /\ held'[x] = Assigned(held[x], lexer, b)
      /\ \A g \in Holder \ {x} : held'[g] = held[g]
  BY <1>1, <1>3 DEF TypeOK, Token, Assigned
<1>5. CASE lexer.data = Null
  <2>1. heap' = heap /\ held'[x].data = held[x].data /\ held'[x].ty = lexer.ty
    BY <1>3, <1>4, <1>5 DEF WithCopy, Freed, Assigned
  <2>2. Owned(heap', Kept', held')
    BY <1>1, <1>2, <1>4, <2>1, SameHolders
  <2>3. Filled => Says(heap', held'[x]) = Says(heap, lexer)
    BY <1>5, <2>1 DEF Says, Filled
  <2> QED
    BY <1>1, <1>4, <2>1, <2>2, <2>3 DEF Preserved
<1>6. CASE lexer.data # Null
  <2>1. Freeing(heap, f, held, x)
    BY <1>1, <1>6 DEF Freed, Freeing, Frees, Pointers
  <2>2. Emptied(held, e, x)
    BY <1>1 DEF TypeOK, Emptied
  <2> HIDE DEF f, e
  <2>3. f \in Heap /\ Owned(f, Kept, e) /\ Alike(heap, f, Kept, held, Holder \ {x})
    BY <1>1, <2>1, <2>2, FreeingStep
  <2>4. /\ heap' = [f EXCEPT ![b] = f[lexer.data]] /\ f[b] = Free
        /\ held'[x].data = b /\ held'[x].ty = lexer.ty
        /\ Emptied(held', e, x) /\ Pointers(Kept, e) /\ lexer.data \in Block
    BY <1>1, <1>3, <1>4, <1>6, <2>2 DEF WithCopy, Assigned, Emptied, Pointers
  <2>p. Puts(f, heap', b, f[lexer.data])
    BY <2>3, <2>4 DEF Puts
  <2>5. Owned(heap', Kept, held')
    BY <1>1, <2>3, <2>4, <2>p, GivenOwned
  <2>6. f[lexer.data] \in Payload \cup {Free} /\ heap' \in Heap
    BY <2>3, <2>4 DEF Heap
  <2>7. ASSUME NEW t, Sound(f, t), t.data \in Block \cup {Null}
        PROVE  Says(heap', t) = Says(f, t)
    BY <2>3, <2>7, <2>p, FreshSame
  <2>8. /\ \A t \in Kept : Says(heap', t) = Says(heap, t)
        /\ \A g \in Holder \ {x} : Says(heap', held[g]) = Says(heap, held[g])
    <3>1. \A t \in Kept : Sound(f, t)
      BY <2>3 DEF Owned
    <3>2. \A g \in Holder \ {x} : Sound(f, held[g])
      BY <2>2, <2>3 DEF Owned, Emptied
    <3> QED
      BY <1>1, <2>3, <2>7, <3>1, <3>2 DEF Pointers, Alike
  <2>9. Says(heap', held'[x]) = Says(f, lexer)
    <3>1. Sound(f, lexer)
      BY <1>1, <2>3 DEF Owned
    <3> QED
      BY <2>3, <2>4, <2>p, <3>1, CopySays
  <2> QED
    BY <1>1, <1>2, <1>4, <2>3, <2>5, <2>6, <2>8, <2>9 DEF Preserved, Alike
<1> QED
  BY <1>5, <1>6
-----------------------------------------------------------------------------
(* The invariant of the heap *)

\* InvariantIs, after a step.
LEMMA InvariantNext ==
  ASSUME TypeOK', Owned(heap', Kept', held')
  PROVE  OwnershipInv'
<1>1. NoDangling'
  BY DEF NoDangling, Tokens, Owned
<1>2. ExclusiveOwner'
  BY DEF ExclusiveOwner, Owned, Live
<1>3. TextInv'
  BY DEF TextInv, Owned, Live
<1> QED
  BY <1>1, <1>2, <1>3 DEF OwnershipInv

\* The sequences of tokens.
LEMMA Collected ==
  ASSUME NEW s \in Seq(Token), NEW u \in Token
  PROVE  /\ Append(s, u) \in Seq(Token)
         /\ \A t \in Members(Append(s, u)) : t \in Members(s) \cup {u}
         /\ s # <<>> => /\ SubSeq(s, 1, Len(s) - 1) \in Seq(Token)
                        /\ \A t \in Members(SubSeq(s, 1, Len(s) - 1)) : t \in Members(s)
<1>1. Append(s, u) \in Seq(Token) /\ Len(Append(s, u)) = Len(s) + 1
      /\ (\A i \in 1..Len(s) : Append(s, u)[i] = s[i]) /\ Append(s, u)[Len(s) + 1] = u
      /\ Len(s) \in Nat
  BY AppendProperties, LenProperties
<1>2. \A i \in 1..Len(s) + 1 : i \in 1..Len(s) \/ i = Len(s) + 1
  BY <1>1
<1>3. \A t \in Members(Append(s, u)) : t \in Members(s) \cup {u}
  BY <1>1, <1>2 DEF Members
<1>4. ASSUME s # <<>>
      PROVE  /\ SubSeq(s, 1, Len(s) - 1) \in Seq(Token)
             /\ Len(SubSeq(s, 1, Len(s) - 1)) = Len(s) - 1
             /\ \A i \in 1..Len(s) - 1 : SubSeq(s, 1, Len(s) - 1)[i] = s[i]
  <2>1. Len(s) \in Nat /\ Len(s) > 0
    BY <1>1, <1>4, EmptySeq
  <2>2. PICK n \in Nat : n = Len(s) - 1
    BY <2>1
  <2>3. \A i \in 1..n : s[i] \in Token
    BY <2>1, <2>2, ElementOfSeq
  <2>4. /\ SubSeq(s, 1, n) \in Seq(Token)
        /\ Len(SubSeq(s, 1, n)) = IF 1 <= n THEN n - 1 + 1 ELSE 0
        /\ \A i \in 1..n - 1 + 1 : SubSeq(s, 1, n)[i] = s[1 + i - 1]
    BY <2>3, SubSeqProperties
  <2> QED
    BY <2>2, <2>4
<1>5. ASSUME s # <<>>
      PROVE  \A t \in Members(SubSeq(s, 1, Len(s) - 1)) : t \in Members(s)
  <2>1. 1..Len(s) - 1 \subseteq 1..Len(s)
    BY <1>1
  <2> QED
    BY <1>4, <1>5, <2>1 DEF Members
<1> QED
  BY <1>1, <1>3, <1>4, <1>5

LEMMA CopiedType ==
  ASSUME NEW other \in Token, NEW b \in Block
  PROVE  Copied(other, b) \in Token
BY DEF Copied, Token

\* What every action does to the memory.  Reading and CopyIterator are quiet.
LEMMA OwnershipInit == ASSUME Init PROVE OwnershipInv
<1>1. Members(<<>>) = {}
  BY DEF Members
<1>2. Kept = {lexer}
  BY <1>1 DEF Init, Kept
<1>3. TypeOK
  BY DEF Init, TypeOK, Token, Unread, Type, Free
<1>4. Owned(heap, Kept, held)
  BY <1>2 DEF Init, Owned, Sound, Unread, Free
<1> QED
  BY <1>3, <1>4, InvariantIs

LEMMA LexerStep ==
  ASSUME OwnershipInv, GetNextToken
  PROVE  OwnershipInv' /\ Preserved(Holder)
<1>1. TypeOK
  BY DEF OwnershipInv
<1>2. ASSUME NEW b \in Block \ Live, NEW ty \in TextType \cup PlainType, NEW p \in Payload,
             SetData(ty, b, p), p.text \in {b, Null}
      PROVE  OwnershipInv' /\ Preserved(Holder)
  <2>1. heap[b] = Free /\ UNCHANGED <<held, stream, body, walked, at, phase>>
    BY DEF Live, GetNextToken
  <2>2. Preserved(Holder)
    BY <1>2, <2>1, SetStep
  <2>3. TypeOK'
    BY <1>1, <1>2, <2>1, <2>2 DEF Preserved, TypeOK, Heap, SetData, Token, Type
  <2> QED
    BY <2>2, <2>3, InvariantNext DEF Preserved
<1>3. ASSUME NEW ty \in BareType, lexer' = [lexer EXCEPT !.ty = ty], UNCHANGED heap
      PROVE  OwnershipInv' /\ Preserved(Holder)
  <2>1. UNCHANGED <<held, stream, body, walked, at, phase>>
    BY DEF GetNextToken
  <2>2. TypeOK' /\ lexer'.data = lexer.data
    BY <1>1, <1>3, <2>1 DEF TypeOK, Token, Type
  <2>3. \A t \in Kept' : t.data = Null \/ \E u \in Kept : t.data = u.data
    BY <2>1, <2>2 DEF Kept, Members
  <2>4. Preserved(Holder)
    BY <1>3, <2>1, <2>3, QuietStep
  <2> QED
    BY <2>2, <2>4, InvariantNext DEF Preserved
<1>4. \A b \in Block, v \in Value : [text |-> b, value |-> v] \in Payload
                                    /\ [text |-> Null, value |-> v] \in Payload
  BY DEF Payload
<1> QED
  BY <1>2, <1>3, <1>4 DEF GetNextToken

LEMMA HolderStep ==
  ASSUME OwnershipInv, NEW x \in Holder, Take(x)
  PROVE  OwnershipInv'
<1>1. Preserved(Holder \ {x}) /\ held' \in [Holder -> Token]
  BY TakeStep
<1>2. TypeOK'
  BY <1>1 DEF OwnershipInv, Preserved, TypeOK, Heap, Take
<1> QED
  BY <1>1, <1>2, InvariantNext DEF Preserved

LEMMA PushStep ==
  ASSUME OwnershipInv, Push
  PROVE  /\ OwnershipInv' /\ Preserved(Holder)
         /\ \E u \in Token : stream' = Append(stream, u)
                            /\ Says(heap', u) = Says(heap, held[Parser])
<1>1. PICK b \in Block :
        /\ held[Parser].data # Null => heap[b] = Free
        /\ stream' = Append(stream, Copied(held[Parser], b))
        /\ heap' = WithCopy(heap, held[Parser], b)
  BY DEF Push
<1>2. TypeOK /\ held[Parser] \in Token /\ Parser \in Holder
  BY Constants DEF OwnershipInv, TypeOK
<1> DEFINE u == Copied(held[Parser], b)
<1>3. u \in Token
  BY <1>2, CopiedType
<1>4. UNCHANGED <<lexer, held, body, walked>>
  BY DEF Push
<1> HIDE DEF u
<1>5. stream' \in Seq(Token) /\ \A t \in Members(stream)' : t \in Members(stream) \cup {u}
  BY <1>1, <1>2, <1>3, Collected DEF u, TypeOK, Members
<1>6. \A t \in Kept' : t \in Kept \cup {u}
  BY <1>4, <1>5 DEF Kept, Members
<1>7. Preserved(Holder) /\ Says(heap', u) = Says(heap, held[Parser])
  BY <1>1, <1>2, <1>4, <1>6, CopyStep DEF u
<1>8. TypeOK'
  BY <1>2, <1>4, <1>5, <1>7 DEF Preserved, TypeOK, Heap, Push
<1> QED
  BY <1>1, <1>3, <1>7, <1>8, InvariantNext DEF Preserved, u

LEMMA CopyTokenStep ==
  ASSUME OwnershipInv, CopyToken
  PROVE  /\ OwnershipInv' /\ Preserved(Holder)
         /\ \E u \in Token :
              body' = Append(body, u)
              /\ Says(heap', u) = Says(heap, stream[Len(body) + 1])
<1> DEFINE other == stream[Len(body) + 1]
<1>1. PICK b \in Block :
        /\ other.data # Null => heap[b] = Free
        /\ body' = Append(body, Copied(other, b))
        /\ heap' = WithCopy(heap, other, b)
  BY DEF CopyToken
<1>2. TypeOK /\ Len(body) \in Nat /\ Len(stream) \in Nat /\ Len(body) + 1 \in 1..Len(stream)
  BY LenProperties DEF OwnershipInv, TypeOK, CopyToken
<1>3. other \in Token /\ other \in Kept
  BY <1>2, ElementOfSeq DEF TypeOK, Kept, Members
<1> HIDE DEF other
<1> DEFINE u == Copied(other, b)
<1>4. u \in Token
  BY <1>3, CopiedType
<1>5. UNCHANGED <<lexer, held, stream, walked>>
  BY DEF CopyToken
<1> HIDE DEF u
<1>6. body' \in Seq(Token) /\ \A t \in Members(body)' : t \in Members(body) \cup {u}
  BY <1>1, <1>2, <1>4, Collected DEF u, TypeOK, Members
<1>7. \A t \in Kept' : t \in Kept \cup {u}
  BY <1>5, <1>6 DEF Kept, Members
<1>8. Preserved(Holder) /\ Says(heap', u) = Says(heap, other)
  BY <1>1, <1>3, <1>5, <1>7, CopyStep DEF u
<1>9. TypeOK'
  BY <1>2, <1>5, <1>6, <1>8 DEF Preserved, TypeOK, Heap, CopyToken
<1> QED
  BY <1>1, <1>4, <1>8, <1>9, InvariantNext DEF Preserved, u, other

\* The steps that neither write a payload nor copy a token.
Quietly == NewStream \/ Pop \/ CopyIterator \/ UNCHANGED vars
           \/ getCurrToken("stream", stream) \/ getCurrToken("body", walked)
           \/ moveNext("stream", stream) \/ moveNext("body", walked)

LEMMA QuietlyStep ==
  ASSUME OwnershipInv, Quietly
  PROVE  OwnershipInv' /\ Preserved(Holder)
<1>1. TypeOK
  BY DEF OwnershipInv
<1>2. UNCHANGED <<heap, lexer, held, body>>
  BY DEF Quietly, NewStream, Pop, CopyIterator, vars, getCurrToken, moveNext
<1>3. /\ stream' \in Seq(Token)
      /\ \A t \in Members(stream)' : t \in Members(stream)
  <2>1. CASE NewStream
    BY <2>1 DEF NewStream, Members
  <2>2. CASE Pop
    <3>1. stream # <<>> /\ stream' = SubSeq(stream, 1, Len(stream) - 1)
      BY <2>2 DEF Pop
    <3>2. lexer \in Token /\ stream \in Seq(Token)
      BY <1>1 DEF TypeOK
    <3> QED
      BY <3>1, <3>2, Collected DEF Members
  <2>3. CASE UNCHANGED stream
    BY <1>1, <2>3 DEF TypeOK, Members
  <2> QED
    BY <2>1, <2>2, <2>3 DEF Quietly, CopyIterator, vars, getCurrToken, moveNext
<1>4. /\ walked' \in Seq(Token)
      /\ \A t \in Members(walked)' : t \in Members(walked) \cup Members(stream)
  <2>1. walked' = walked \/ walked' = stream
    BY DEF Quietly, NewStream, Pop, CopyIterator, vars, getCurrToken, moveNext
  <2> QED
    BY <1>1, <2>1 DEF TypeOK, Members
<1>5. at' \in [{"stream", "body"} -> Nat] /\ phase' \in {"idle", "filling", "stream", "body"}
  BY <1>1 DEF TypeOK, Quietly, NewStream, Pop, CopyIterator, vars, getCurrToken, moveNext
<1>6. \A t \in Kept' : t \in Kept
  BY <1>2, <1>3, <1>4 DEF Kept, Members
<1>7. Preserved(Holder)
  BY <1>2, <1>6, QuietStep
<1>8. TypeOK'
  BY <1>1, <1>2, <1>3, <1>4, <1>5 DEF TypeOK
<1> QED
  BY <1>7, <1>8, InvariantNext DEF Preserved

LEMMA OwnershipStep == ASSUME OwnershipInv, [Next]_vars PROVE OwnershipInv'
BY LexerStep, HolderStep, PushStep, CopyTokenStep, QuietlyStep DEF Next, Quietly

\* Tokens share payloads only where nothing frees them: the heap of the compiler
\* never has a token of the lexer, of the parser, of the driver, of a stream or
\* of a body that points to freed memory (Tokens.hpp:115-124).
THEOREM OwnershipCorrect == Spec => []OwnershipInv
<1>1. Init => OwnershipInv
  BY OwnershipInit
<1>2. OwnershipInv /\ [Next]_vars => OwnershipInv'
  BY OwnershipStep
<1> QED
  BY <1>1, <1>2, PTL DEF Spec

THEOREM NeverDangling == Spec => []NoDangling
<1>1. OwnershipInv => NoDangling
  BY DEF OwnershipInv
<1> QED
  BY <1>1, OwnershipCorrect, PTL

THEOREM AlwaysExclusive == Spec => []ExclusiveOwner
<1>1. OwnershipInv => ExclusiveOwner
  BY DEF OwnershipInv
<1> QED
  BY <1>1, OwnershipCorrect, PTL
-----------------------------------------------------------------------------
(* Tokens are values *)

\* What the iterator of the body walks over, or will.
From == IF walked = <<>> THEN stream ELSE walked

\* A body says what the stream said that it was copied from, as far as it has
\* been copied, and its iterator walks over tokens that say the same.
BodyInv ==
  /\ Len(body) <= Len(From)
  /\ walked # <<>> => Len(body) = Len(walked)
  /\ \A i \in 1..Len(body) : Says(heap, body[i]) = Says(heap, From[i])
  /\ Copying => phase = "filling"

ValueInv == OwnershipInv /\ Filled /\ BodyInv

LEMMA KeptSame ==
  ASSUME NEW H, Preserved(H)
  PROVE  /\ Says(heap', lexer) = Says(heap, lexer)
         /\ \A i \in 1..Len(stream) : Says(heap', stream[i]) = Says(heap, stream[i])
         /\ \A i \in 1..Len(body) : Says(heap', body[i]) = Says(heap, body[i])
         /\ \A i \in 1..Len(walked) : Says(heap', walked[i]) = Says(heap, walked[i])
BY DEF Preserved, Kept, Members

LEMMA Lengths ==
  ASSUME TypeOK
  PROVE  /\ Len(stream) \in Nat /\ Len(body) \in Nat /\ Len(walked) \in Nat
         /\ stream = <<>> <=> Len(stream) = 0
         /\ body = <<>> <=> Len(body) = 0
         /\ walked = <<>> <=> Len(walked) = 0
BY EmptySeq, LenProperties DEF TypeOK

LEMMA FilledStep == ASSUME OwnershipInv, Filled, [Next]_vars PROVE Filled'
<1>1. CASE GetNextToken
  <2>1. ASSUME NEW b \in Block \ Live, NEW ty, NEW p, SetData(ty, b, p)
        PROVE  Filled'
    BY <2>1, Constants DEF SetData, Filled
  <2>2. ASSUME NEW ty \in BareType, lexer' = [lexer EXCEPT !.ty = ty]
        PROVE  Filled'
    BY <2>2, TokenAssumption DEF OwnershipInv, TypeOK, Token, Filled
  <2> QED
    BY <1>1, <2>1, <2>2 DEF GetNextToken
<1>2. CASE UNCHANGED lexer
  BY <1>2 DEF Filled
<1> QED
  BY <1>1, <1>2 DEF Next, Take, NewStream, Push, Pop, CopyToken, CopyIterator,
     getCurrToken, moveNext, vars

\* The body when the streams are left alone, and the memory says what it said.
LEMMA BodySame ==
  ASSUME OwnershipInv, OwnershipInv', BodyInv, NEW H, Preserved(H),
         UNCHANGED <<body, walked>>,
         walked # <<>> \/ body = <<>> \/ UNCHANGED <<stream, phase>>
  PROVE  BodyInv'
<1>1. TypeOK
  BY DEF OwnershipInv
<1>2. CASE walked # <<>>
  BY <1>1, <1>2, Lengths, KeptSame DEF BodyInv, From, Copying
<1>3. CASE walked = <<>> /\ body = <<>>
  <2>1. Len(stream') \in Nat
    BY LenProperties DEF OwnershipInv, TypeOK
  <2> QED
    BY <1>1, <1>3, <2>1, Lengths DEF BodyInv, From, Copying
<1>4. CASE walked = <<>> /\ UNCHANGED <<stream, phase>>
  <2>1. \A i \in 1..Len(body) : i \in 1..Len(stream)
    BY <1>1, <1>4, Lengths DEF BodyInv, From
  <2>2. \A i \in 1..Len(body) : Says(heap', body[i]) = Says(heap', stream[i])
    BY <1>4, <2>1, KeptSame DEF BodyInv, From
  <2> QED
    BY <1>4, <2>2 DEF BodyInv, From, Copying
<1> QED
  BY <1>2, <1>3, <1>4

LEMMA BodyStep == ASSUME OwnershipInv, BodyInv, [Next]_vars PROVE BodyInv'
<1>1. TypeOK /\ OwnershipInv' /\ TypeOK'
  BY OwnershipStep DEF OwnershipInv
<1>2. CASE Collecting /\ UNCHANGED <<body, walked>>
           /\ (GetNextToken \/ (\E x \in Holder : Take(x)) \/ NewStream \/ Push \/ Pop)
  <2>1. \E H : Preserved(H)
    BY <1>2, LexerStep, TakeStep, PushStep, QuietlyStep DEF Quietly
  <2>2. walked # <<>> \/ body = <<>>
    BY <1>2 DEF Collecting, Copying
  <2> QED
    BY <1>1, <1>2, <2>1, <2>2, BodySame
<1>3. CASE CopyToken
  <2>1. Preserved(Holder)
    BY <1>3, CopyTokenStep
  <2>2. PICK u \in Token : body' = Append(body, u)
                 /\ Says(heap', u) = Says(heap, stream[Len(body) + 1])
    BY <1>3, CopyTokenStep
  <2>3. /\ walked = <<>> /\ phase = "filling" /\ UNCHANGED <<stream, walked, phase>>
        /\ Len(body) < Len(stream)
    BY <1>3 DEF CopyToken
  <2>4. Len(body') = Len(body) + 1 /\ body'[Len(body) + 1] = u
        /\ \A i \in 1..Len(body) : body'[i] = body[i]
    BY <1>1, <2>2, AppendProperties DEF TypeOK
  <2>5. ASSUME NEW i \in 1..Len(body')
        PROVE  Says(heap', body'[i]) = Says(heap', stream[i])
    <3>1. i \in 1..Len(stream) /\ (i \in 1..Len(body) \/ i = Len(body) + 1)
      BY <1>1, <2>3, <2>4, Lengths
    <3>2. Says(heap', stream[i]) = Says(heap, stream[i])
      BY <2>1, <3>1, KeptSame
    <3>3. CASE i = Len(body) + 1
      BY <2>2, <2>4, <3>2, <3>3
    <3>4. CASE i \in 1..Len(body)
      BY <2>1, <2>3, <2>4, <3>2, <3>4, KeptSame DEF BodyInv, From
    <3> QED
      BY <3>1, <3>3, <3>4
  <2> QED
    BY <1>1, <2>3, <2>4, <2>5, Lengths DEF BodyInv, From
<1>4. CASE CopyIterator
  BY <1>4 DEF CopyIterator, BodyInv, From, Copying
<1>5. CASE UNCHANGED vars
  BY <1>5 DEF vars, BodyInv, From, Copying
<1>6. ASSUME NEW s \in {"stream", "body"}, NEW tokens,
             getCurrToken(s, tokens) \/ moveNext(s, tokens)
      PROVE  BodyInv'
  <2>1. Readable(s) /\ phase' = s /\ UNCHANGED <<heap, lexer, held, stream, body, walked>>
    BY <1>6 DEF getCurrToken, moveNext
  <2>2. ~ Copying
    BY <2>1 DEF Readable, Collecting, BodyInv
  <2> QED
    BY <2>1, <2>2 DEF BodyInv, From, Copying
<1> QED
  BY <1>2, <1>3, <1>4, <1>5, <1>6 DEF Next, GetNextToken, Take, NewStream, Push, Pop

LEMMA SaidIs ==
  ASSUME TypeOK, NEW s \in {stream, body, walked}
  PROVE  /\ Said(s) \in Seq({ Says(heap, s[i]) : i \in 1..Len(s) })
         /\ Len(Said(s)) = Len(s) /\ Len(s) \in Nat
         /\ \A i \in 1..Len(s) : Said(s)[i] = Says(heap, s[i])
<1> DEFINE S == { Says(heap, s[i]) : i \in 1..Len(s) }
<1>1. Len(s) \in Nat
  BY Lengths
<1>2. Said(s) \in [1..Len(s) -> S]
  BY DEF Said
<1>3. Said(s) \in Seq(S)
  BY <1>1, <1>2, SeqDef
<1>4. DOMAIN Said(s) = 1..Len(s) /\ DOMAIN Said(s) = 1..Len(Said(s)) /\ Len(Said(s)) \in Nat
  BY <1>2, <1>3, LenProperties
<1>5. Len(Said(s)) = Len(s)
  BY <1>1, <1>4
<1> QED
  BY <1>1, <1>3, <1>5 DEF Said

\* A sequence that continues another by one element.
LEMMA AppendIs ==
  ASSUME NEW n \in Nat, NEW S, NEW f \in [1..n -> S], NEW g \in [1..n + 1 -> S],
         \A k \in 1..n : g[k] = f[k]
  PROVE  g = Append(f, g[n + 1])
<1>1. f \in Seq(S) /\ g \in Seq(S) /\ g[n + 1] \in S
  BY SeqDef
<1>2. Len(f) = n /\ Len(g) = n + 1
  <2>1. DOMAIN f = 1..n /\ DOMAIN f = 1..Len(f) /\ Len(f) \in Nat
    BY <1>1, LenProperties
  <2>2. DOMAIN g = 1..n + 1 /\ DOMAIN g = 1..Len(g) /\ Len(g) \in Nat
    BY <1>1, LenProperties
  <2> QED
    BY <2>1, <2>2
<1>3. /\ Append(f, g[n + 1]) \in Seq(S) /\ Len(Append(f, g[n + 1])) = n + 1
      /\ Append(f, g[n + 1])[n + 1] = g[n + 1]
      /\ \A k \in 1..n : Append(f, g[n + 1])[k] = f[k]
  BY <1>1, <1>2, AppendProperties
<1>4. \A k \in 1..n + 1 : g[k] = Append(f, g[n + 1])[k]
  <2>1. \A k \in 1..n + 1 : k = n + 1 \/ k \in 1..n
    OBVIOUS
  <2> QED
    BY <1>3, <2>1
<1> QED
  BY <1>1, <1>2, <1>3, <1>4, SeqEqual

\* What a step leaves alone it leaves alone in TokenValues.
LEMMA ViewSame ==
  ASSUME NEW H, Preserved(H)
  PROVE  /\ UNCHANGED lexer => Says(heap, lexer)' = Says(heap, lexer)
         /\ UNCHANGED stream => Said(stream)' = Said(stream)
         /\ UNCHANGED body => Said(body)' = Said(body)
         /\ UNCHANGED held /\ H = Holder =>
              [g \in Holder |-> Says(heap, held[g])]' = [g \in Holder |-> Says(heap, held[g])]
<1>1. /\ UNCHANGED lexer => Says(heap, lexer)' = Says(heap, lexer)
      /\ UNCHANGED stream => Said(stream)' = Said(stream)
      /\ UNCHANGED body => Said(body)' = Said(body)
  BY KeptSame DEF Said
<1>2. ASSUME UNCHANGED held, H = Holder
      PROVE  [g \in Holder |-> Says(heap, held[g])]' = [g \in Holder |-> Says(heap, held[g])]
  BY <1>2 DEF Preserved
<1> QED
  BY <1>1, <1>2

\* The body as TokenValues has it.
Shown == IF Copying THEN <<>> ELSE Said(body)

LEMMA ShownSame ==
  ASSUME NEW H, Preserved(H), UNCHANGED <<body, walked>>
  PROVE  Shown' = Shown
BY ViewSame DEF Shown, Copying

LEMMA ValuesInit == ASSUME Init PROVE Values!Init
<1>1. TypeOK /\ stream = <<>> /\ body = <<>>
  BY OwnershipInit DEF OwnershipInv, Init
<1>2. Len(Said(stream)) = 0 /\ Said(stream) = <<>> /\ Said(body) = <<>>
  BY <1>1, SaidIs, EmptySeq, Lengths
<1>3. Says(heap, lexer) = <<"Unread", Null>>
      /\ \A g \in Holder : Says(heap, held[g]) = <<"Unread", Null>>
  BY Constants DEF Init, Says, Unread
<1>4. ~ Copying
  BY <1>1 DEF Copying
<1> QED
  BY <1>2, <1>3, <1>4 DEF Init, Values!Init, Undefined, Values!Undefined

LEMMA ValuesLex == ASSUME ValueInv, GetNextToken PROVE Values!GetNextToken
<1>1. Preserved(Holder) /\ TypeOK
  BY LexerStep DEF ValueInv, OwnershipInv
<1>2. UNCHANGED <<held, stream, body, walked, at, phase, answer>>
  BY DEF GetNextToken
<1>3. ASSUME NEW b \in Block, NEW v \in Value, NEW ty \in TextType \cup PlainType, NEW c,
             SetData(ty, b, [text |-> c, value |-> v]), c \in {b, Null}
      PROVE  Says(heap', lexer') = <<ty, v>>
  <2>1. heap'[b] = [text |-> c, value |-> v] /\ lexer' = [ty |-> ty, data |-> b]
    BY <1>1, <1>3 DEF TypeOK, SetData
  <2>2. heap'[b] # Free /\ b # Null
    BY <1>3, <2>1, Constants DEF Payload, Free
  <2>3. Spelling(heap', b) = v
    BY <1>3, <2>1, <2>2 DEF Spelling
  <2> QED
    BY <2>1, <2>3 DEF Says
<1>4. ASSUME NEW ty \in BareType, lexer' = [lexer EXCEPT !.ty = ty]
      PROVE  Says(heap', lexer') = <<ty, Null>>
  <2>1. lexer'.ty = ty
    BY <1>1, <1>4 DEF TypeOK, Token
  <2>2. ty \notin TextType \cup PlainType
    BY TokenAssumption
  <2> QED
    BY <2>1, <2>2 DEF Says
<1>5. Says(heap', lexer') \in ((TextType \cup PlainType) \X Value) \cup (BareType \X {Null})
  <2>1. CASE \E b \in Block \ Live, v \in Value :
                \/ \E ty \in TextType : SetData(ty, b, [text |-> b, value |-> v])
                \/ \E ty \in PlainType : SetData(ty, b, [text |-> Null, value |-> v])
    <3>1. PICK b \in Block \ Live, v \in Value :
                \/ \E ty \in TextType : SetData(ty, b, [text |-> b, value |-> v])
                \/ \E ty \in PlainType : SetData(ty, b, [text |-> Null, value |-> v])
      BY <2>1
    <3>2. \E ty \in TextType \cup PlainType : Says(heap', lexer') = <<ty, v>>
      BY <1>3, <3>1
    <3> QED
      BY <3>2
  <2>2. CASE \E ty \in BareType : lexer' = [lexer EXCEPT !.ty = ty]
    BY <1>4, <2>2
  <2> QED
    BY <2>1, <2>2 DEF GetNextToken
<1>6. Shown' = Shown
  BY <1>1, <1>2, ShownSame
<1> QED
  BY <1>1, <1>2, <1>5, <1>6, ViewSame DEF Values!GetNextToken, Shown

LEMMA ValuesTake ==
  ASSUME ValueInv, NEW x \in Holder, Take(x)
  PROVE  Values!Take(x)
<1> DEFINE view == [g \in Holder |-> Says(heap, held[g])]
<1>1. /\ Preserved(Holder \ {x}) /\ held' \in [Holder -> Token]
      /\ \A g \in Holder \ {x} : held'[g] = held[g]
      /\ Says(heap', held'[x]) = Says(heap, lexer)
  BY TakeStep DEF ValueInv
<1>2. UNCHANGED <<lexer, stream, body, walked, at, phase, answer>>
  BY DEF Take
<1>3. \A g \in Holder \ {x} : Says(heap', held'[g]) = Says(heap, held[g])
  BY <1>1 DEF Preserved
<1>4. view' = [view EXCEPT ![x] = Says(heap, lexer)]
  BY <1>1, <1>3
<1>5. Shown' = Shown
  BY <1>1, <1>2, ShownSame
<1> QED
  BY <1>1, <1>2, <1>4, <1>5, ViewSame DEF Values!Take, Shown

LEMMA ValuesNew == ASSUME ValueInv, NewStream PROVE Values!NewStream
<1>1. Preserved(Holder) /\ TypeOK'
  BY QuietlyStep DEF ValueInv, Quietly, OwnershipInv
<1>2. UNCHANGED <<heap, lexer, held, body, walked, answer>> /\ stream' = <<>>
  BY DEF NewStream
<1>3. Said(stream)' = <<>>
  <2>1. Said(stream)' = [i \in 1..0 |-> Says(heap', stream'[i])]
    BY <1>2, EmptySeq DEF Said
  <2>2. Said(stream)' \in [1..0 -> {}]
    BY <2>1
  <2>3. Said(stream)' \in Seq({}) /\ DOMAIN Said(stream)' = 1..0
    BY <2>2, SeqDef
  <2> QED
    BY <2>3, EmptySeq, LenProperties
<1>4. Shown' = Shown
  BY <1>1, <1>2, ShownSame
<1> QED
  BY <1>1, <1>2, <1>3, <1>4, ViewSame DEF NewStream, Values!NewStream, Shown

LEMMA ValuesPush == ASSUME ValueInv, Push PROVE Values!Push
<1>1. Preserved(Holder) /\ TypeOK /\ TypeOK'
  BY PushStep DEF ValueInv, OwnershipInv
<1>2. PICK u \in Token : stream' = Append(stream, u)
                         /\ Says(heap', u) = Says(heap, held[Parser])
  BY PushStep DEF ValueInv
<1>3. UNCHANGED <<lexer, held, body, walked, phase, answer>>
      /\ phase = "filling" /\ Len(stream) < MaxBody /\ at' = [at EXCEPT !["stream"] = 1]
  BY DEF Push
<1>4. Said(stream)' = Append(Said(stream), Says(heap, held[Parser]))
  <2>0. PICK n \in Nat : n = Len(stream)
    BY <1>1, Lengths
  <2>1. /\ Len(stream') = n + 1 /\ stream'[n + 1] = u
        /\ \A i \in 1..n : stream'[i] = stream[i]
    BY <1>1, <1>2, <2>0, AppendProperties DEF TypeOK
  <2>2. Said(stream) = [i \in 1..n |-> Says(heap, stream[i])]
        /\ Said(stream)' = [i \in 1..n + 1 |-> Says(heap', stream'[i])]
    BY <2>0, <2>1 DEF Said
  <2>3. \A i \in 1..n : Said(stream)'[i] = Said(stream)[i]
    BY <1>1, <2>0, <2>1, <2>2, KeptSame
  <2>4. Said(stream)'[n + 1] = Says(heap, held[Parser])
    BY <1>2, <2>1, <2>2
  <2>5. PICK f : f = Said(stream)
    OBVIOUS
  <2>6. PICK g : g = Said(stream)'
    OBVIOUS
  <2> DEFINE S == { Says(heap, stream[k]) : k \in 1..n } \cup {Says(heap, held[Parser])}
  <2>7. \A k \in 1..n + 1 : k = n + 1 \/ k \in 1..n
    OBVIOUS
  <2>8. \A k \in 1..n + 1 : Says(heap', stream'[k]) \in S
    BY <2>2, <2>3, <2>4, <2>7
  <2>9. f \in [1..n -> S] /\ g \in [1..n + 1 -> S]
    BY <2>2, <2>5, <2>6, <2>8
  <2>10. g = Append(f, g[n + 1])
    <3>1. \A k \in 1..n : g[k] = f[k]
      BY <2>3, <2>5, <2>6
    <3> HIDE DEF S
    <3> QED
      BY ONLY <2>9, <3>1, AppendIs, n \in Nat
  <2> QED
    BY <2>4, <2>5, <2>6, <2>10
<1>5. Shown' = Shown
  BY <1>1, <1>3, ShownSame
<1>6. [g \in Holder |-> Says(heap, held[g])][Parser] = Says(heap, held[Parser])
  BY Constants
<1>7. Len(Said(stream)) = Len(stream)
  BY <1>1, SaidIs
<1> QED
  BY <1>1, <1>3, <1>4, <1>5, <1>6, <1>7, ViewSame DEF Values!Push, Shown

LEMMA ValuesPop == ASSUME ValueInv, Pop PROVE Values!Pop
<1>1. Preserved(Holder) /\ TypeOK /\ TypeOK'
  BY QuietlyStep DEF ValueInv, Quietly, OwnershipInv
<1>2. /\ UNCHANGED <<heap, lexer, held, body, walked, phase, answer>>
      /\ phase = "filling" /\ stream # <<>> /\ at' = [at EXCEPT !["stream"] = 1]
      /\ stream' = SubSeq(stream, 1, Len(stream) - 1)
  BY DEF Pop
<1>3. Len(Said(stream)) = Len(stream) /\ Said(stream) # <<>> /\ Len(stream) \in Nat \ {0}
  BY <1>1, <1>2, SaidIs, Lengths, EmptySeq
<1>4. Said(stream)' = SubSeq(Said(stream), 1, Len(Said(stream)) - 1)
  <2>1. PICK n \in Nat : n = Len(stream) - 1
    BY <1>3
  <2>2. /\ Len(stream') = n /\ \A i \in 1..n : stream'[i] = stream[i]
    <3>1. \A i \in 1..n : stream[i] \in Token
      BY <1>1, <2>1, ElementOfSeq DEF TypeOK
    <3>2. /\ Len(SubSeq(stream, 1, n)) = IF 1 <= n THEN n - 1 + 1 ELSE 0
          /\ \A i \in 1..n - 1 + 1 : SubSeq(stream, 1, n)[i] = stream[1 + i - 1]
      BY <3>1, SubSeqProperties
    <3> QED
      BY <1>2, <2>1, <3>2
  <2> DEFINE S == { Says(heap, stream[i]) : i \in 1..Len(stream) }
  <2>3. /\ SubSeq(Said(stream), 1, n) \in Seq(S)
        /\ Len(SubSeq(Said(stream), 1, n)) = n
        /\ \A i \in 1..n : SubSeq(Said(stream), 1, n)[i] = Said(stream)[i]
    <3>1. \A i \in 1..n : Said(stream)[i] \in S
      BY <1>1, <2>1, SaidIs, SMTT(30)
    <3> HIDE DEF S
    <3>2. /\ SubSeq(Said(stream), 1, n) \in Seq(S)
          /\ Len(SubSeq(Said(stream), 1, n)) = IF 1 <= n THEN n - 1 + 1 ELSE 0
          /\ \A i \in 1..n - 1 + 1 : SubSeq(Said(stream), 1, n)[i] = Said(stream)[1 + i - 1]
      BY <3>1, SubSeqProperties
    <3> QED
      BY <3>2
  <2>4. Said(stream)' = [i \in 1..n |-> Said(stream)[i]]
    <3>1. \A i \in 1..n : Said(stream)[i] = Says(heap, stream[i])
      BY <1>1, <2>1, SaidIs
    <3>2. Said(stream)' = [i \in 1..n |-> Says(heap, stream[i])]
      BY <1>2, <2>2 DEF Said
    <3> QED
      BY ONLY <3>1, <3>2
  <2>5. SubSeq(Said(stream), 1, n) = [i \in 1..n |-> SubSeq(Said(stream), 1, n)[i]]
    BY <2>3, LenProperties
  <2> QED
    BY <1>3, <2>1, <2>3, <2>4, <2>5
<1>5. Shown' = Shown
  BY <1>1, <1>2, ShownSame
<1> QED
  BY <1>1, <1>2, <1>3, <1>4, <1>5, ViewSame DEF Values!Pop, Shown

\* setBody() is one step there, the one in which the iterator is copied.
LEMMA ValuesBody == ASSUME ValueInv, CopyIterator PROVE Values!SetBody
<1>1. Preserved(Holder) /\ TypeOK /\ BodyInv
  BY QuietlyStep DEF ValueInv, Quietly, OwnershipInv
<1>2. /\ UNCHANGED <<heap, lexer, held, stream, body, answer>> /\ walked' = stream
      /\ phase = "filling" /\ walked = <<>> /\ body # <<>> /\ Len(body) = Len(stream)
      /\ at' = [at EXCEPT !["body"] = at["stream"]] /\ phase' = "idle"
  BY DEF CopyIterator
<1>3. stream # <<>> /\ Said(stream) # <<>>
  BY <1>1, <1>2, Lengths, SaidIs, EmptySeq
<1>4. Shown = <<>> /\ Shown' = Said(body)'
  BY <1>2, <1>3 DEF Shown, Copying
<1>5. Said(body)' = Said(stream)
  BY <1>1, <1>2 DEF Said, BodyInv, From
<1> QED
  BY <1>1, <1>2, <1>3, <1>4, <1>5, ViewSame DEF Values!SetBody, Shown

\* The copies before it are not seen.
LEMMA ValuesCopy ==
  ASSUME ValueInv, CopyToken
  PROVE  UNCHANGED Values!vars
<1>1. Preserved(Holder) /\ TypeOK /\ TypeOK'
  BY CopyTokenStep DEF ValueInv, OwnershipInv
<1>2. UNCHANGED <<lexer, held, stream, walked, at, phase, answer>> /\ walked = <<>>
  BY DEF CopyToken
<1>3. body' # <<>>
  <2>1. PICK u \in Token : body' = Append(body, u)
    BY CopyTokenStep DEF ValueInv
  <2> QED
    BY <1>1, <2>1, AppendProperties, Lengths, EmptySeq DEF TypeOK
<1>4. Shown' = <<>>
  BY <1>2, <1>3 DEF Shown, Copying
<1>5. Shown = <<>>
  <2>1. CASE body = <<>>
    BY <1>1, <2>1, SaidIs, Lengths, EmptySeq DEF Shown
  <2>2. CASE body # <<>>
    BY <1>2, <2>2 DEF Shown, Copying
  <2> QED
    BY <2>1, <2>2
<1> QED
  BY <1>1, <1>2, <1>4, <1>5, ViewSame DEF Values!vars, Shown

\* Reading: what is walked over says what is shown.
LEMMA ReadIs ==
  ASSUME ValueInv, NEW s \in {"stream", "body"}, Readable(s), NEW tokens, NEW shown,
         (s = "stream" /\ tokens = stream /\ shown = Said(stream))
           \/ (s = "body" /\ tokens = walked /\ shown = Shown)
  PROVE  /\ phase \in {"idle", "filling", s} /\ answer # Undefined
         /\ Len(tokens) = Len(shown) /\ Len(tokens) \in Nat
         /\ \A i : At(tokens, i) = IF i \in 1..Len(shown) THEN shown[i] ELSE Undefined
<1>1. TypeOK /\ BodyInv
  BY DEF ValueInv, OwnershipInv
<1>2. phase \in {"idle", "filling", s} /\ answer # Undefined /\ ~ Copying
  BY <1>1 DEF Readable, Collecting, BodyInv
<1>3. CASE s = "stream"
  BY <1>1, <1>2, <1>3, SaidIs DEF At
<1>4. CASE s = "body"
  <2>1. tokens = walked /\ shown = Said(body)
    BY <1>2, <1>4 DEF Shown
  <2>2. Len(body) = Len(walked)
    BY <1>1, <1>2, Lengths DEF BodyInv, Copying
  <2>3. \A i \in 1..Len(walked) : Says(heap, body[i]) = Says(heap, walked[i])
    BY <1>1, <2>2, Lengths DEF BodyInv, From
  <2> QED
    BY <1>1, <1>2, <2>1, <2>2, <2>3, SaidIs DEF At
<1> QED
  BY <1>2, <1>3, <1>4

LEMMA ValuesRead ==
  ASSUME ValueInv, NEW s \in {"stream", "body"}, NEW tokens, NEW shown,
         getCurrToken(s, tokens) \/ moveNext(s, tokens),
         (s = "stream" /\ tokens = stream /\ shown = Said(stream))
           \/ (s = "body" /\ tokens = walked /\ shown = Shown)
  PROVE  \E d \in {0, 1} : Values!Read(s, shown, at[s] + d)
<1>1. /\ Readable(s) /\ phase' = s
      /\ UNCHANGED <<heap, lexer, held, stream, body, walked>>
  BY DEF getCurrToken, moveNext
<1>2. /\ phase \in {"idle", "filling", s} /\ answer # Undefined
      /\ Len(tokens) = Len(shown) /\ Len(tokens) \in Nat
      /\ \A i : At(tokens, i) = IF i \in 1..Len(shown) THEN shown[i] ELSE Undefined
  BY <1>1, ReadIs
<1>3. at \in [{"stream", "body"} -> Nat] /\ at[s] \in Nat
  BY DEF ValueInv, OwnershipInv, TypeOK
<1>4. UNCHANGED <<Says(heap, lexer), Said(stream), Shown>>
      /\ UNCHANGED [g \in Holder |-> Says(heap, held[g])]
  BY <1>1 DEF Said, Shown, Copying
<1>5. CASE getCurrToken(s, tokens)
  <2>1. at' = at /\ at' = [at EXCEPT ![s] = at[s] + 0] /\ answer' = At(tokens, at[s])
    BY <1>3, <1>5 DEF getCurrToken
  <2>2. at[s] + 0 = at[s] /\ at[s] # at[s] + 1
    BY <1>3
  <2>3. answer' = IF at[s] + 0 \in 1..Len(shown) THEN shown[at[s] + 0]
                  ELSE IF s = "stream" /\ at[s] + 0 = Len(shown) + 1
                          /\ at[s] + 0 = at[s] + 1 /\ at[s] > 0
                    THEN <<"End", Null>> ELSE Values!Undefined
    BY <1>2, <2>1, <2>2 DEF Undefined, Values!Undefined
  <2>4. Values!Read(s, shown, at[s] + 0)
    BY <1>1, <1>2, <1>4, <2>1, <2>3 DEF Values!Read, Shown
  <2> QED
    BY <2>4
<1>6. CASE moveNext(s, tokens)
  <2>1. /\ at' = [at EXCEPT ![s] = at[s] + 1] /\ at'[s] = at[s] + 1
        /\ answer' = IF s = "stream" /\ at[s] > 0 /\ at[s] + 1 = Len(tokens) + 1
                       THEN <<"End", Null>> ELSE At(tokens, at[s] + 1)
    BY <1>3, <1>6 DEF moveNext
  <2>2. Values!Read(s, shown, at[s] + 1)
    BY <1>1, <1>2, <1>3, <1>4, <2>1 DEF Values!Read, Shown, Undefined, Values!Undefined
  <2> QED
    BY <2>2
<1> QED
  BY <1>5, <1>6

LEMMA ValuesStep == ASSUME ValueInv, [Next]_vars PROVE [Values!Next]_(Values!vars)
<1>1. CASE GetNextToken
  BY <1>1, ValuesLex DEF Values!Next, GetNextToken, Collecting
<1>2. ASSUME NEW x \in Holder, Take(x)
      PROVE  Values!Next
  BY <1>2, ValuesTake DEF Values!Next, Take, Collecting
<1>3. CASE NewStream \/ Push \/ Pop
  BY <1>3, ValuesNew, ValuesPush, ValuesPop
     DEF Values!Next, NewStream, Push, Pop, Collecting
<1>4. CASE CopyToken
  BY <1>4, ValuesCopy
<1>5. CASE CopyIterator
  BY <1>5, ValuesBody DEF Values!Next, CopyIterator
<1>6. CASE getCurrToken("stream", stream) \/ moveNext("stream", stream)
  <2>1. \E d \in {0, 1} : Values!Read("stream", Said(stream), at["stream"] + d)
    BY <1>6, ValuesRead
  <2>2. answer # Values!Undefined
    BY <1>6 DEF getCurrToken, moveNext, Readable, Undefined, Values!Undefined
  <2> QED
    BY <2>1, <2>2 DEF Values!Next
<1>7. CASE getCurrToken("body", walked) \/ moveNext("body", walked)
  <2>1. \E d \in {0, 1} : Values!Read("body", Shown, at["body"] + d)
    BY <1>7, ValuesRead
  <2>2. answer # Values!Undefined
    BY <1>7 DEF getCurrToken, moveNext, Readable, Undefined, Values!Undefined
  <2> QED
    BY <2>1, <2>2 DEF Values!Next, Shown
<1>8. CASE UNCHANGED vars
  BY <1>8 DEF vars, Values!vars, Said, Copying
<1> QED
  BY <1>1, <1>2, <1>3, <1>4, <1>5, <1>6, <1>7, <1>8 DEF Next

\* A token of this compiler, a pointer that is freed here and leaked there, is
\* a value: what the body of a function says is what the lexer said when it was
\* parsed (TokenBufferStream.hpp, Types.hpp:349-351).
THEOREM TokensAreValues == Spec => ValuesSpec
<1>1. Init => ValueInv /\ Values!Init
  <2>1. Init => Filled
    BY Constants DEF Init, Filled, Unread
  <2>2. ASSUME Init
        PROVE  BodyInv
    <3>1. TypeOK /\ body = <<>> /\ walked = <<>>
      BY <2>2, OwnershipInit DEF OwnershipInv, Init
    <3> QED
      BY <3>1, Lengths DEF BodyInv, From, Copying
  <2> QED
    BY <2>1, <2>2, OwnershipInit, ValuesInit DEF ValueInv
<1>2. ValueInv /\ [Next]_vars => ValueInv'
  BY OwnershipStep, FilledStep, BodyStep DEF ValueInv
<1>3. ValueInv /\ [Next]_vars => [Values!Next]_(Values!vars)
  BY ValuesStep
<1> QED
  BY <1>1, <1>2, <1>3, PTL DEF Spec, ValuesSpec, Values!Spec

=============================================================================
