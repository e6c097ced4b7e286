------------------------- MODULE LexerHistoryProofs -------------------------
(***************************************************************************)
(* The lexer loses, repeats and reorders no character, for all alphabets,  *)
(* tables, capacities and sources of LexerHistory; and it implements the   *)
(* queue of CharFifo.  Both follow from what one step does to the          *)
(* characters held (StepEffect), which needs the shape of the register.    *)
(***************************************************************************)
EXTENDS LexerHistory, CompilerProofs, WellFoundedInduction

\* Of the characters a register can hold, isop() holds for the symbols.
LEMMA IsopSymbol ==
  ASSUME NEW ch \in Char \cup {EOF}
  PROVE  /\ isop(ch) <=> ch \in Symbol
         /\ ch \in Plain <=> ch \in Char \ (Symbol \cup Blank)
         /\ ch \in Symbol => ch \notin Plain \cup Blank \cup {EOF}
         /\ ch \notin {"_", ".", "/"}
<1>1. ch \in Symbol => ch \notin Letter \cup Digit \cup Blank \cup {NUL, EOF, Quote}
  BY AlphabetAssumption DEF Char
<1>2. ch \notin Symbol => ch \in Letter \cup Digit \cup Blank \cup {NUL, EOF, Quote}
  BY DEF Char, Plain
<1>3. ch \in Plain => ch \notin Blank \cup {EOF}
  BY AlphabetAssumption DEF Char, Plain
<1>4. ch \notin {"_", ".", "/"}
  <2>1. {"_", ".", "/"} \cap Char = {}
    BY AlphabetAssumption, CleanAssumption DEF Char
  <2>2. EOF \notin {"_", ".", "/"}
    BY DEF EOF
  <2> QED
    BY <2>1, <2>2
<1> QED
  BY <1>1, <1>2, <1>3, <1>4 DEF isop, Plain, Char

LEMMA IsopNUL == ~ isop(NUL) /\ NUL \notin Char \cup {EOF} /\ EOF \notin Char
  BY AlphabetAssumption DEF isop, NUL, EOF

\* A sequence over a set, all of whose elements belong to another.
LEMMA Narrow ==
  ASSUME NEW S, NEW T, NEW s \in Seq(S), \A i \in 1..Len(s) : s[i] \in T
  PROVE  s \in Seq(T)
<1>1. Len(s) \in Nat /\ SubSeq(s, 1, Len(s)) = s
  BY LenProperties, SubSeqFull
<1>2. SubSeq(s, 1, Len(s)) \in Seq(T)
  BY <1>1, SubSeqProperties
<1> QED
  BY <1>1, <1>2

LEMMA Associative ==
  \A s, t, u \in Seq(Char) : (s \o t) \o u = s \o (t \o u)
BY ConcatAssociative

\* The two parts of a concatenation.
LEMMA Parts ==
  ASSUME NEW S, NEW s \in Seq(S), NEW t \in Seq(S)
  PROVE  /\ SubSeq(s \o t, 1, Len(s)) = s
         /\ SubSeq(s \o t, Len(s) + 1, Len(s \o t)) = t
<1>1. /\ s \o t \in Seq(S) /\ Len(s \o t) = Len(s) + Len(t)
      /\ Len(s) \in Nat /\ Len(t) \in Nat
      /\ \A i \in 1..Len(s) + Len(t) : (s \o t)[i] = IF i <= Len(s) THEN s[i] ELSE t[i - Len(s)]
      /\ \A i \in 1..Len(s) + Len(t) : (s \o t)[i] \in S
  <2>1. s \o t \in Seq(S) /\ Len(s \o t) = Len(s) + Len(t)
    BY ConcatProperties
  <2> QED
    BY <2>1, ConcatProperties, LenProperties, ElementOfSeq
<1>2. /\ SubSeq(s \o t, 1, Len(s)) \in Seq(S)
      /\ Len(SubSeq(s \o t, 1, Len(s))) = Len(s)
      /\ \A i \in 1..Len(s) : SubSeq(s \o t, 1, Len(s))[i] = (s \o t)[i]
  <2>1. \A i \in 1..Len(s) : (s \o t)[i] \in S
    BY <1>1
  <2>2. /\ SubSeq(s \o t, 1, Len(s)) \in Seq(S)
        /\ Len(SubSeq(s \o t, 1, Len(s))) = IF 1 <= Len(s) THEN Len(s) - 1 + 1 ELSE 0
        /\ \A i \in 1..Len(s) - 1 + 1 : SubSeq(s \o t, 1, Len(s))[i] = (s \o t)[1 + i - 1]
    BY <1>1, <2>1, SubSeqProperties
  <2> QED
    BY <1>1, <2>2
<1>3. SubSeq(s \o t, 1, Len(s)) = s
  BY <1>1, <1>2, SeqEqual
<1>4. /\ SubSeq(s \o t, Len(s) + 1, Len(s) + Len(t)) \in Seq(S)
      /\ Len(SubSeq(s \o t, Len(s) + 1, Len(s) + Len(t))) = Len(t)
      /\ \A i \in 1..Len(t) : SubSeq(s \o t, Len(s) + 1, Len(s) + Len(t))[i] = (s \o t)[Len(s) + i]
  <2> DEFINE m == Len(s) + 1
             n == Len(s) + Len(t)
  <2>1. m \in Int /\ n \in Int /\ \A i \in m..n : (s \o t)[i] \in S
    BY <1>1
  <2>2. /\ SubSeq(s \o t, m, n) \in Seq(S)
        /\ Len(SubSeq(s \o t, m, n)) = IF m <= n THEN n - m + 1 ELSE 0
        /\ \A i \in 1..n - m + 1 : SubSeq(s \o t, m, n)[i] = (s \o t)[m + i - 1]
    BY <2>1, SubSeqProperties
  <2> QED
    BY <1>1, <2>2
<1>5. SubSeq(s \o t, Len(s) + 1, Len(s) + Len(t)) = t
  BY <1>1, <1>4, SeqEqual
<1> QED
  BY <1>1, <1>3, <1>5

\* One element of a sequence.
LEMMA Single ==
  ASSUME NEW S, NEW s \in Seq(S), NEW i \in 1..Len(s)
  PROVE  SubSeq(s, i, i) = <<s[i]>>
<1> DEFINE one == SubSeq(s, i, i)
           two == <<s[i]>>
<1>1. i \in Int /\ \A j \in i..i : s[j] \in S
  BY LenProperties, ElementOfSeq
<1>2. one \in Seq(S) /\ Len(one) = 1 /\ one[1] = s[i]
  BY <1>1, SubSeqProperties
<1>3. two \in Seq(S) /\ Len(two) = 1 /\ two[1] = s[i]
  BY <1>1
<1>4. \A j \in 1..Len(one) : one[j] = two[j]
  BY <1>2, <1>3
<1> HIDE DEF one, two
<1>5. one = two
  BY <1>2, <1>3, <1>4, SeqEqual
<1> QED
  BY <1>5 DEF one, two

\* A nonempty set of numbers has a least one.
LEMMA Least ==
  ASSUME NEW T, T \subseteq Nat, T # {}
  PROVE  \E x \in T : \A y \in T : x <= y
<1>1. PICK x \in T : \A y \in T : ~ (<<y, x>> \in OpToRel(<, Nat))
  BY WFMin, NatLessThanWellFounded
<1>2. \A y \in T : ~ (y < x)
  BY <1>1 DEF OpToRel
<1> QED
  BY <1>2

\* A symbol that is no punctuation always begins an operator.
LEMMA ParsedNonempty ==
  ASSUME NEW b \in Payload, b # <<>>, b[1] \in Symbol \ Punctuators
  PROVE  Parsed(b) # {}
<1> DEFINE T == { Len(b) - Len(op) : op \in { o \in Operators : Spells(o, b) } }
<1>1. Len(b) \in Nat \ {0} /\ \A i \in 1..Len(b) : b[i] \in Char \cup {EOF}
  BY EmptySeq, ElementOfSeq DEF Payload
<1>2. <<b[1]>> \in Operators /\ Spells(<<b[1]>>, b)
  <2>1. SubSeq(b, 1, 1) = <<b[1]>>
    BY <1>1, Single DEF Payload
  <2>2. Len(<<b[1]>>) = 1
    OBVIOUS
  <2>3. Spells(<<b[1]>>, b)
    BY <1>1, <2>1, <2>2 DEF Spells
  <2> QED
    BY <2>3, CleanAssumption
<1>3. \A op \in Operators : Len(op) \in Nat
  BY TableAssumption, LenProperties
<1>4. T \subseteq Nat /\ T # {}
  <2>1. \A op \in Operators : Spells(op, b) => Len(b) - Len(op) \in Nat
    BY <1>1, <1>3 DEF Spells
  <2>2. Len(b) - Len(<<b[1]>>) \in T
    BY <1>2
  <2> QED
    BY <2>1, <2>2
<1>5. PICK x \in T : \A y \in T : x <= y
  <2> HIDE DEF T
  <2> QED
    BY <1>4, Least
<1>6. PICK op \in Operators : Spells(op, b) /\ x = Len(b) - Len(op)
  BY <1>5
<1>7. ASSUME NEW other \in Operators, Spells(other, b)
      PROVE  Len(other) <= Len(op)
  <2>1. Len(b) - Len(other) \in T
    BY <1>7
  <2>2. x <= Len(b) - Len(other)
    BY <1>5, <2>1
  <2> QED
    BY <1>1, <1>3, <1>6, <2>2
<1> QED
  BY <1>6, <1>7 DEF Parsed
-----------------------------------------------------------------------------
(* What one operation does. *)

\* The shift of a character that fits.
LEMMA ShiftedCases ==
  ASSUME NEW b \in Payload, Len(b) <= Capacity, NEW ch \in Char
  PROVE  \/ ch \in Blank /\ Shifted(b, ch) = b
         \/ ch \notin Blank /\ Len(b) < Capacity /\ Shifted(b, ch) = Append(b, ch)
         \/ /\ ch \notin Blank /\ Len(b) = Capacity /\ Len(b) > 1
            /\ Shifted(b, ch) = Append(Tail(b), ch)
<1>1. Len(b) \in Nat /\ Capacity \in Nat /\ Capacity > 1
  BY LenProperties, TableAssumption, CleanAssumption DEF Payload
<1> QED
  BY <1>1 DEF Shifted

\* moveNext() on sources without empty streams: EOF is read once, at the end,
\* and never enters the register.
LEMMA Reading ==
  ASSUME Shape, NEW b \in Payload, Len(b) <= Capacity, MoveNext(b)
  PROVE  /\ source' = source
         /\ current # EOF
         /\ current' \in Char \cup {EOF}
         /\ current' = EOF <=> PastEnd'
         /\ buffer' = IF current' = EOF THEN b ELSE Shifted(b, current')
         /\ <<stream, pos>>' # <<stream, pos>>
<1>1. /\ source \in Seq(Seq(Char)) /\ Len(source) \in Nat
      /\ \A i \in 1..Len(source) : /\ source[i] \in Seq(Char) /\ Len(source[i]) \in Nat
                                   /\ source[i] # <<>>
  BY LenProperties, ElementOfSeq DEF Shape, TypeOK
<1>2. /\ stream \in 1..Len(source) /\ pos \in Nat /\ source' = source
      /\ current # EOF /\ current' \in Char \cup {EOF}
  BY <1>1, MoveNextType DEF Shape, TypeOK, MoveNext, PastEnd
<1>3. CASE /\ pos < Len(source[stream])
           /\ current' = source[stream][pos + 1]
           /\ pos' = pos + 1
           /\ buffer' = Shifted(b, current')
           /\ UNCHANGED stream
  <2>1. pos + 1 \in 1..Len(source[stream])
    BY <1>1, <1>2, <1>3
  <2>2. current' \in Char
    BY <1>1, <1>2, <1>3, <2>1, ElementOfSeq
  <2> QED
    BY <1>1, <1>2, <1>3, <2>2, IsopNUL DEF PastEnd
<1>4. CASE /\ stream = Len(source)
           /\ stream' = stream + 1
           /\ pos' = 0
           /\ current' = EOF
           /\ buffer' = b
  BY <1>1, <1>2, <1>4 DEF PastEnd
<1>5. CASE /\ stream < Len(source)
           /\ stream' = stream + 1
           /\ pos' = IF source[stream + 1] = <<>> THEN 0 ELSE 1
           /\ current' = IF source[stream + 1] = <<>> THEN EOF
                                                      ELSE source[stream + 1][1]
           /\ buffer' = Shifted(b, current')
  <2>1. stream + 1 \in 1..Len(source) /\ source[stream + 1] # <<>>
    BY <1>1, <1>2, <1>5
  <2>2. Len(source[stream + 1]) >= 1
    BY <1>1, <2>1, EmptySeq
  <2>3. current' \in Char
    BY <1>1, <1>5, <2>1, <2>2, ElementOfSeq
  <2> QED
    BY <1>1, <1>2, <1>5, <2>1, <2>3, IsopNUL DEF PastEnd
<1> QED
  BY <1>3, <1>4, <1>5 DEF MoveNext

\* What a read shows to the history.
LEMMA TookReading ==
  ASSUME Shape, NEW b \in Payload, Len(b) <= Capacity, MoveNext(b), HNext
  PROVE  seen' = IF current' # EOF /\ (current' \in Blank => pc = "string")
                   THEN Append(seen, current') ELSE seen
<1>1. <<stream, pos>>' # <<stream, pos>>
  BY Reading
<1> QED
  BY <1>1 DEF HNext, Took

LEMMA TookNothing ==
  ASSUME UNCHANGED input, HNext
  PROVE  seen' = seen /\ (lost' <=> lost)
  BY DEF HNext, Took, input

\* Reading behind a register that holds symbols only.
LEMMA QueueReading ==
  ASSUME Shape, NEW b \in Seq(Symbol), Len(b) <= Capacity, MoveNext(b)
  PROVE  /\ Queued'
         /\ Pending' = buffer'
         /\ \/ current' \in Blank \cup {EOF} /\ buffer' = b
            \/ /\ current' \in Symbol \cup Plain
               /\ Len(b) < Capacity /\ buffer' = Append(b, current')
            \/ /\ current' \in Symbol \cup Plain
               /\ Len(b) = Capacity /\ Len(b) > 1 /\ buffer' = Append(Tail(b), current')
         /\ b # <<>> => isop(Oldest)'
<1>1. b \in Payload /\ Len(b) \in Nat /\ \A i \in 1..Len(b) : b[i] \in Symbol
  BY SeqMonotonic, LenProperties, ElementOfSeq DEF Payload, Char
<1>2. /\ current' \in Char \cup {EOF}
      /\ buffer' = IF current' = EOF THEN b ELSE Shifted(b, current')
  BY <1>1, Reading
<1>3. /\ isop(current') <=> current' \in Symbol
      /\ current' \in Plain <=> current' \in Char \ (Symbol \cup Blank)
      /\ current' \in Symbol => current' \notin Plain \cup Blank \cup {EOF}
      /\ EOF \notin Char
  BY <1>2, IsopSymbol, IsopNUL
<1>4. \A ch \in Symbol : isop(ch)
  BY IsopSymbol DEF Char
<1>5. CASE current' \in Blank \cup {EOF}
  <2>1. buffer' = b
    BY <1>2, <1>5, <1>3 DEF Shifted
  <2>2. current' \notin Symbol \cup Plain
    BY <1>3, <1>5
  <2> QED
    BY <1>1, <1>4, <1>5, <2>1, <2>2, EmptySeq DEF Queued, Pending, Oldest
<1>6. CASE current' \notin Blank \cup {EOF}
  <2>1. current' \in Symbol \cup Plain /\ current' \in Char
    BY <1>2, <1>3, <1>6
  <2>2. PICK q \in Seq(Symbol) :
          /\ buffer' = Append(q, current')
          /\ b # <<>> => q # <<>>
          /\ \/ Len(b) < Capacity /\ q = b
             \/ Len(b) = Capacity /\ Len(b) > 1 /\ q = Tail(b)
    <3>1. CASE Len(b) < Capacity
      BY <1>1, <1>2, <1>6, <2>1, <3>1, ShiftedCases
    <3>2. CASE ~ Len(b) < Capacity
      <4>1. Len(b) = Capacity /\ Len(b) > 1 /\ buffer' = Append(Tail(b), current')
        BY <1>1, <1>2, <1>6, <2>1, <3>2, ShiftedCases
      <4>2. b # <<>>
        BY <4>1, EmptySeq
      <4>3. Tail(b) \in Seq(Symbol) /\ Len(Tail(b)) = Len(b) - 1
        BY <4>2, HeadTailProperties
      <4>4. Tail(b) # <<>>
        BY <1>1, <4>1, <4>3, EmptySeq
      <4> QED
        BY <4>1, <4>3, <4>4
    <3> QED
      BY <3>1, <3>2
  <2>3. /\ q \in Seq(Char \cup {EOF}) /\ Len(q) \in Nat
        /\ \A i \in 1..Len(q) : q[i] \in Symbol
        /\ q # <<>> => Len(q) >= 1
    BY SeqMonotonic, LenProperties, ElementOfSeq, EmptySeq DEF Char
  <2>4. /\ buffer' # <<>> /\ Len(buffer') = Len(q) + 1
        /\ \A i \in 1..Len(q) : buffer'[i] = q[i]
        /\ buffer'[Len(q) + 1] = current'
        /\ buffer' \in Seq(Char \cup {EOF})
    BY <2>1, <2>2, <2>3, AppendProperties
  <2>5. Queued'
    BY <2>1, <2>3, <2>4, <1>3 DEF Queued
  <2>6. Pending' = buffer'
    BY <1>3, <2>1, <2>3, <2>4 DEF Pending
  <2>7. b # <<>> => isop(Oldest)'
    <3>1. Oldest' = buffer'[1]
      BY <2>4 DEF Oldest
    <3>2. q # <<>> => buffer'[1] = q[1] /\ q[1] \in Symbol
      BY <2>3, <2>4
    <3> QED
      BY <1>4, <2>2, <3>1, <3>2 DEF isop
  <2> QED
    BY <2>1, <2>2, <2>5, <2>6, <2>7
<1> QED
  BY <1>5, <1>6
-----------------------------------------------------------------------------
(* What one step does to the characters held and spelled. *)

Kept == UNCHANGED <<Held, spelled, seen>>

Taken ==
  /\ current' \in Char
  /\ Held' = Append(Held, current')
  /\ seen' = Append(seen, current')
  /\ UNCHANGED spelled

Dropped ==
  /\ current' \in Char
  /\ Len(Held) >= Capacity
  /\ Held' = Append(Tail(Held), current')
  /\ seen' = Append(seen, current')
  /\ UNCHANGED spelled
  /\ lost'

Spelt ==
  \E n \in 1..Len(Held) :
    /\ spelled' = spelled \o SubSeq(Held, 1, n)
    /\ Held' = SubSeq(Held, n + 1, Len(Held))
    /\ UNCHANGED seen

SpeltTaken ==
  \E n \in 1..Len(Held) :
    /\ current' \in Char
    /\ spelled' = spelled \o SubSeq(Held, 1, n)
    /\ Held' = Append(SubSeq(Held, n + 1, Len(Held)), current')
    /\ seen' = Append(seen, current')

Effect == Kept \/ Taken \/ Dropped \/ Spelt \/ SpeltTaken

\* The places where the register is a queue.
AtQueue == { "returned", "skipSpaces", "operators", "match" }

\* What the queue holds there.
LEMMA HeldQueue ==
  ASSUME Shape, pc \in AtQueue
  PROVE  /\ buffer \in Seq(Char) /\ Len(buffer) \in Nat /\ Len(buffer) <= Capacity
         /\ Held = IF buffer = <<>> THEN Ahead ELSE buffer
         /\ Held = Pending
         /\ Held \in Seq(Char)
         /\ ~ isop(Oldest) => Held = Ahead
         /\ isop(Oldest) => buffer # <<>> /\ buffer[1] \in Symbol /\ Oldest = buffer[1]
         /\ current \notin Plain => buffer \in Seq(Symbol) /\ Held = buffer
<1>1. /\ buffer \in Payload /\ Len(buffer) \in Nat /\ Len(buffer) <= Capacity
      /\ current \in Char \cup {NUL, EOF} /\ Queued
      /\ buffer # <<>> => Len(buffer) >= 1
  BY LenProperties, EmptySeq DEF Shape, TypeOK, AtQueue, Payload
<1>2. Held = Pending
  BY DEF Held, AtQueue
<1>3. ASSUME NEW i \in 1..Len(buffer)
      PROVE  buffer[i] \in Char /\ (isop(buffer[i]) <=> buffer[i] \in Symbol)
  <2>1. buffer[i] \in Symbol \cup Plain
    BY <1>1 DEF Queued
  <2>2. buffer[i] \in Char
    BY <2>1 DEF Char
  <2> QED
    BY <2>2, IsopSymbol
<1>4. buffer \in Seq(Char)
  BY <1>1, <1>3, Narrow DEF Payload
<1>5. /\ current \in Plain => current \notin Blank \cup {NUL, EOF} \cup Symbol
      /\ current \notin Plain \cup Symbol => current \in Blank \cup {NUL, EOF}
      /\ current \in Symbol => current \notin Plain
  BY <1>1, IsopSymbol, IsopNUL, AlphabetAssumption DEF Plain, Char
<1>6. Held = IF buffer = <<>> THEN Ahead ELSE buffer
  <2>1. CASE buffer = <<>>
    <3>1. current \notin Symbol /\ (current \notin Plain => current \in Blank \cup {NUL, EOF})
      BY <1>1, <1>5, <2>1 DEF Queued
    <3>2. Append(<<>>, current) = <<current>>
      OBVIOUS
    <3> QED
      BY <1>2, <1>5, <2>1, <3>1, <3>2 DEF Pending, Ahead
  <2>2. CASE buffer # <<>>
    <3>1. Len(buffer) \in 1..Len(buffer)
      BY <1>1, <2>2
    <3>2. current \in Plain => ~ isop(buffer[Len(buffer)])
      BY <1>1, <1>3, <1>5, <2>2, <3>1 DEF Queued
    <3> QED
      BY <1>2, <2>2, <3>2 DEF Pending
  <2> QED
    BY <2>1, <2>2
<1>7. Ahead \in Seq(Char)
  BY <1>1, EmptySeq DEF Ahead
<1>8. isop(Oldest) => buffer # <<>> /\ buffer[1] \in Symbol /\ Oldest = buffer[1]
  BY <1>1, <1>3, IsopNUL DEF Oldest
<1>9. ASSUME ~ isop(Oldest) PROVE Held = Ahead
  <2>1. CASE buffer = <<>>
    BY <1>6, <2>1
  <2>2. CASE buffer # <<>>
    <3>1. 1 \in 1..Len(buffer) /\ buffer[1] \notin Symbol
      BY <1>1, <1>3, <1>9, <2>2 DEF Oldest
    <3>2. Len(buffer) = 1 /\ buffer[1] = current /\ current \in Plain
      BY <1>1, <3>1 DEF Queued
    <3>3. buffer = <<current>>
      BY <1>4, <3>1, <3>2, Single, SubSeqFull
    <3> QED
      BY <1>5, <1>6, <2>2, <3>2, <3>3 DEF Ahead
  <2> QED
    BY <2>1, <2>2
<1>10. ASSUME current \notin Plain PROVE buffer \in Seq(Symbol) /\ Held = buffer
  <2>1. \A i \in 1..Len(buffer) : buffer[i] \in Symbol
    BY <1>1, <1>10 DEF Queued
  <2>2. buffer \in Seq(Symbol)
    BY <1>4, <2>1, Narrow
  <2>3. buffer = <<>> => Ahead = <<>>
    BY <1>1, <1>5, <1>10 DEF Queued, Ahead
  <2> QED
    BY <1>6, <2>2, <2>3
<1> QED
  BY <1>1, <1>2, <1>4, <1>6, <1>7, <1>8, <1>9, <1>10

\* A read between tokens appends to the queue, or replaces its oldest symbol.
LEMMA QueueStep ==
  ASSUME Shape, HNext, pc \in AtQueue, pc' \in AtQueue, current \notin Plain,
         MoveNext(buffer), UNCHANGED out
  PROVE  Effect /\ Queued' /\ (buffer # <<>> => isop(Oldest)')
<1>1. /\ buffer \in Seq(Symbol) /\ buffer \in Payload /\ Len(buffer) \in Nat
      /\ Len(buffer) <= Capacity /\ Held = buffer /\ Capacity \in Nat
  BY HeldQueue, TableAssumption DEF Shape, TypeOK
<1>2. /\ Queued' /\ (buffer # <<>> => isop(Oldest)')
      /\ Held' = buffer'
  <2>1. Held' = Pending'
    BY DEF Held, AtQueue
  <2> QED
    BY <1>1, <2>1, QueueReading
<1>3. spelled' = spelled
  BY DEF HNext
<1>4. seen' = IF current' # EOF /\ current' \notin Blank THEN Append(seen, current') ELSE seen
  BY <1>1, TookReading DEF AtQueue
<1>5. /\ current' \in Symbol \cup Plain => current' \in Char /\ current' \notin Blank \cup {EOF}
      /\ current' \in Char \cup {EOF}
  <2>1. current' \in Char \cup {EOF}
    BY <1>1, Reading
  <2> QED
    BY <2>1, IsopSymbol, IsopNUL DEF Char
<1>6. CASE current' \in Blank \cup {EOF} /\ buffer' = buffer
  BY <1>1, <1>2, <1>3, <1>4, <1>6 DEF Effect, Kept
<1>7. CASE current' \in Symbol \cup Plain /\ Len(buffer) < Capacity /\ buffer' = Append(buffer, current')
  BY <1>1, <1>2, <1>3, <1>4, <1>5, <1>7 DEF Effect, Taken
<1>8. CASE /\ current' \in Symbol \cup Plain
           /\ Len(buffer) = Capacity /\ Len(buffer) > 1 /\ buffer' = Append(Tail(buffer), current')
  <2>1. buffer # <<>> /\ Oldest = buffer[1] /\ buffer[1] \in Symbol
    BY <1>1, <1>8, EmptySeq, ElementOfSeq DEF Oldest
  <2>2. isop(Oldest)
    BY <2>1, IsopSymbol DEF Char
  <2>3. <<stream, pos>>' # <<stream, pos>>
    BY <1>1, Reading
  <2>4. lost'
    BY <1>5, <1>8, <2>2, <2>3 DEF HNext, Took, InString, AtQueue
  <2> QED
    BY <1>1, <1>2, <1>3, <1>4, <1>5, <1>8, <2>4 DEF Effect, Dropped
<1> QED
  BY <1>1, <1>6, <1>7, <1>8, QueueReading
\* The parts of Shape that a read settles, wherever it happens.
LEMMA ReadShape ==
  ASSUME Shape, NEW b \in Payload, Len(b) <= Capacity, MoveNext(b)
  PROVE  /\ \A i \in 1..Len(source') : source'[i] # <<>>
         /\ current' = EOF <=> PastEnd'
         /\ current' # NUL
         /\ ~ Finished
         /\ out' = out => ~ Finished'
<1>1. source' = source /\ current # EOF /\ (current' = EOF <=> PastEnd') /\ current' # NUL
  BY Reading, IsopNUL
<1> QED
  BY <1>1 DEF Shape, Finished

\* The parts of Shape that hold when nothing is read.
LEMMA StillShape ==
  ASSUME Shape, UNCHANGED input
  PROVE  /\ \A i \in 1..Len(source') : source'[i] # <<>>
         /\ current' = EOF <=> PastEnd'
         /\ current' = current
         /\ out' = out => (Finished' <=> Finished)
  BY DEF Shape, input, PastEnd, Finished

LEMMA TypeKept ==
  ASSUME Shape, HNext
  PROVE  TypeOK'
  BY TypeStep DEF Shape, HNext

\* Reads between tokens, and the choices that read nothing.
LEMMA QueueInside ==
  ASSUME Shape, HNext,
         GetNextToken \/ SkipSpaces \/ ReadOperators \/ BeginOperators \/ BeginMatch
  PROVE  Shape' /\ Effect
<1>1. TypeOK' /\ TypeOK
  BY TypeKept DEF Shape
<1>2. buffer \in Payload /\ Len(buffer) <= Capacity /\ current \in Char \cup {NUL, EOF}
  BY <1>1 DEF TypeOK
<1>3. ASSUME MoveNext(buffer), pc \in AtQueue, pc' \in {"skipSpaces", "operators", "match"},
             current \notin Plain, UNCHANGED out,
             pc' \in {"operators", "match"} => buffer # <<>> /\ (pc' = "operators" <=> isop(current)')
      PROVE  Shape' /\ Effect
  <2>1. /\ \A i \in 1..Len(source') : source'[i] # <<>>
        /\ current' = EOF <=> PastEnd'
        /\ current' # NUL
        /\ ~ Finished'
    BY <1>2, <1>3, ReadShape
  <2>2. Effect /\ Queued' /\ (buffer # <<>> => isop(Oldest)')
    BY <1>3, QueueStep DEF AtQueue
  <2> QED
    BY <1>1, <1>3, <2>1, <2>2 DEF Shape
<1>4. CASE GetNextToken /\ current = NUL
  BY <1>2, <1>3, <1>4, IsopNUL DEF GetNextToken, AtQueue, Plain, Char
<1>5. CASE SkipSpaces
  <2>1. current \notin Plain
    BY <1>5, AlphabetAssumption DEF SkipSpaces, Plain
  <2> QED
    BY <1>3, <1>5, <2>1 DEF SkipSpaces, AtQueue
<1>6. CASE ReadOperators
  <2>1. current \in Char \cup {EOF} /\ isop(current) /\ isop(Oldest)
    BY <1>2, <1>6 DEF ReadOperators, Shape
  <2>2. current \notin Plain
    BY <2>1, IsopSymbol
  <2>3. buffer # <<>>
    BY <2>1, IsopNUL DEF Oldest
  <2> QED
    BY <1>3, <1>6, <2>2, <2>3 DEF ReadOperators, AtQueue, isop
<1>7. ASSUME UNCHANGED <<input, buffer, token, out>>, pc \in AtQueue,
             pc' \in {"skipSpaces", "operators", "match"}, current # NUL,
             pc' = "operators" => isop(Oldest) /\ isop(current),
             pc' = "match" => IF isop(Oldest) THEN ~ isop(current) ELSE current = EOF,
             pc' = "operators" => current # EOF
      PROVE  Shape' /\ Effect
  <2>1. /\ \A i \in 1..Len(source') : source'[i] # <<>>
        /\ current' = EOF <=> PastEnd'
        /\ current' = current
        /\ Finished' <=> Finished
    BY <1>7, StillShape
  <2>2. Held = Pending /\ Held' = Pending'
    BY <1>7 DEF Held, AtQueue
  <2>3. seen' = seen /\ spelled' = spelled
    BY <1>7, TookNothing DEF HNext
  <2>4. Effect
    BY <1>7, <2>1, <2>2, <2>3 DEF Effect, Kept, Pending, isop
  <2>5. Queued' /\ buffer' = buffer /\ Oldest' = Oldest
    BY <1>7, <2>1 DEF Shape, AtQueue, Queued, Oldest
  <2> QED
    BY <1>1, <1>7, <2>1, <2>4, <2>5 DEF Shape, isop
<1>8. CASE GetNextToken /\ current # NUL
  BY <1>7, <1>8 DEF GetNextToken, AtQueue
<1>9. CASE BeginOperators
  <2>1. current # NUL /\ current # EOF
    BY <1>9, IsopNUL DEF BeginOperators, isop
  <2> QED
    BY <1>7, <1>9, <2>1 DEF BeginOperators, AtQueue
<1>10. CASE BeginMatch
  <2>1. current # NUL /\ pc = "skipSpaces"
    BY <1>10 DEF BeginMatch, Shape
  <2>2. ASSUME ~ isop(Oldest) PROVE current = EOF
    <3>1. current \notin Plain \cup Blank /\ current \in Char \cup {EOF}
      BY <1>2, <1>10, <2>1, <2>2 DEF BeginMatch
    <3>2. buffer \in Seq(Symbol)
      BY <2>1, <3>1, HeldQueue DEF AtQueue
    <3>3. current \in Symbol => buffer # <<>>
      BY <2>1 DEF Shape, Queued
    <3>4. buffer = <<>>
      <4>1. ASSUME buffer # <<>> PROVE FALSE
        <5>1. buffer[1] \in Symbol /\ Oldest = buffer[1]
          BY <3>2, <4>1, EmptySeq, ElementOfSeq DEF Oldest
        <5> QED
          BY <2>2, <5>1, IsopSymbol DEF Char
      <4> QED
        BY <4>1
    <3> QED
      BY <3>1, <3>3, <3>4 DEF Char
  <2>3. isop(Oldest) => ~ isop(current)
    BY <1>10 DEF BeginMatch
  <2> QED
    BY <1>7, <1>10, <2>1, <2>2, <2>3 DEF BeginMatch, AtQueue
<1> QED
  BY <1>4, <1>5, <1>6, <1>8, <1>9, <1>10
-----------------------------------------------------------------------------
(* Words: identifiers, keywords and numbers. *)

LEMMA AheadCases ==
  ASSUME NEW S, current \in Char \cup {EOF}
  PROVE  /\ Ahead \in Seq(Char)
         /\ current \in Blank \cup {EOF} => Ahead = <<>>
         /\ current \notin Blank \cup {EOF} => Ahead = <<current>> /\ current \in Char
BY EmptySeq, IsopNUL DEF Ahead

LEMMA BeginWord ==
  ASSUME Shape, HNext, BeginIdentifier \/ BeginNumber
  PROVE  Shape' /\ Effect
<1>1. /\ TypeOK' /\ UNCHANGED <<input, buffer, out>> /\ pc = "skipSpaces"
      /\ pc' = IF BeginIdentifier THEN "identifier" ELSE "number"
      /\ token'.data = <<>> /\ token'.ty \in {"Identifier", "Number"}
      /\ ~ isop(Oldest) /\ current \in Char \cup {EOF}
      /\ current \in IF BeginIdentifier THEN Letter \cup {"_"} ELSE Digit \cup {"."}
  <2>1. TypeOK' /\ (current # NUL => current \in Char \cup {EOF})
    BY TypeKept DEF Shape, TypeOK
  <2>2. pc = "skipSpaces" => current # NUL
    BY DEF Shape
  <2>3. CASE BeginIdentifier
    <3>1. Begin("Identifier", "identifier") /\ current \in Letter \cup {"_"}
      BY <2>3 DEF BeginIdentifier
    <3>2. token'.data = <<>> /\ token'.ty = "Identifier"
      BY <3>1 DEF Begin
    <3> QED
      BY <2>1, <2>2, <2>3, <3>1, <3>2 DEF Begin
  <2>4. CASE ~ BeginIdentifier
    <3>1. Begin("Number", "number") /\ current \in Digit \cup {"."}
      BY <2>4 DEF BeginNumber
    <3>2. token'.data = <<>> /\ token'.ty = "Number"
      BY <3>1 DEF Begin
    <3> QED
      BY <2>1, <2>2, <2>4, <3>1, <3>2 DEF Begin
  <2> QED
    BY <2>3, <2>4
<1>2. /\ current \in Plain /\ current # EOF /\ current \notin Blank \cup Symbol
      /\ current \in IF BeginIdentifier THEN Letter ELSE Digit
  BY <1>1, IsopSymbol, AlphabetAssumption DEF Plain
<1>3. /\ \A i \in 1..Len(source') : source'[i] # <<>>
      /\ current' = EOF <=> PastEnd'
      /\ current' = current
      /\ Finished' <=> Finished
  BY <1>1, StillShape
<1>4. Held = Ahead
  BY <1>1, HeldQueue DEF AtQueue
<1>5. Held' = Ahead
  <2>1. Ahead \in Seq(Char)
    BY <1>1, AheadCases
  <2>2. Held' = <<>> \o Ahead'
    BY <1>1 DEF Held
  <2>3. Ahead' = Ahead
    BY <1>3 DEF Ahead
  <2> QED
    BY <2>1, <2>2, <2>3, ConcatEmptySeq
<1>6. Effect
  BY <1>1, <1>4, <1>5, TookNothing DEF Effect, Kept, HNext
<1>7. \A i \in 1..Len(buffer) : buffer[i] \in Symbol => i = Len(buffer) /\ buffer[i] = current
  <2>1. buffer = <<>> \/ (Len(buffer) \in Nat /\ buffer[1] \notin Symbol)
    <3>1. Len(buffer) \in Nat /\ (buffer # <<>> => 1 \in 1..Len(buffer)) /\ buffer \in Payload
      BY EmptySeq, LenProperties DEF Shape, TypeOK, Payload
    <3>2. buffer # <<>> => ~ isop(buffer[1]) /\ buffer[1] \in Char \cup {EOF}
      <4>1. buffer # <<>> => buffer[1] \in Char \cup {EOF}
        BY <3>1, ElementOfSeq DEF Payload
      <4>2. buffer # <<>> => Oldest = buffer[1]
        BY DEF Oldest
      <4> QED
        BY <1>1, <4>1, <4>2
    <3> QED
      BY <3>1, <3>2, IsopSymbol
  <2>2. Queued
    BY <1>1 DEF Shape
  <2>3. \A i \in 1..Len(buffer) : buffer[i] \notin Symbol
    <3>1. CASE buffer = <<>>
      BY <3>1
    <3>2. CASE Len(buffer) \in Nat /\ buffer[1] \notin Symbol /\ buffer # <<>>
      <4>1. Len(buffer) >= 1
        BY <3>2, EmptySeq DEF Shape, TypeOK, Payload
      <4>2. Len(buffer) = 1
        BY <2>2, <3>2, <4>1 DEF Queued
      <4> QED
        BY <3>2, <4>2
    <3> QED
      BY <2>1, <3>1, <3>2
  <2> QED
    BY <2>3
<1>8. <<>> \in Seq(Char)
  BY EmptySeq
<1>9. Collected'
  BY <1>1, <1>2, <1>3, <1>7, <1>8 DEF Collected
<1>10. ~ Finished
  BY <1>2 DEF Shape
<1> QED
  BY <1>1, <1>2, <1>3, <1>6, <1>9, <1>10, IsopNUL DEF Shape

LEMMA ReadWord ==
  ASSUME Shape, HNext, ReadIdentifier \/ ReadNumber
  PROVE  Shape' /\ Effect
<1>1. /\ TypeOK /\ TypeOK' /\ buffer \in Payload /\ Len(buffer) <= Capacity
      /\ MoveNext(buffer) /\ token' = [token EXCEPT !.data = Append(@, current)]
      /\ UNCHANGED <<out, pc>> /\ pc \in {"identifier", "number"}
      /\ Collected /\ current \in Char \cup {NUL, EOF} /\ Len(buffer) \in Nat
      /\ current \in Letter \cup Digit \cup {"_", "."}
      /\ token \in Token
  BY TypeKept, LenProperties DEF Shape, TypeOK, ReadIdentifier, ReadNumber, Collect, Payload
<1>2. current \in Char /\ current \in Plain /\ current \notin Blank \cup Symbol \cup {EOF}
  <2>1. current # NUL
    BY <1>1 DEF Shape
  <2> QED
    BY <1>1, <2>1, IsopSymbol, AlphabetAssumption DEF Plain, Char
<1>3. /\ token'.data = Append(token.data, current) /\ token'.ty = token.ty
      /\ Append(token.data, current) \in Seq(Char) /\ Append(token.data, current) # <<>>
      /\ Append(token.data, current) = token.data \o <<current>>
      /\ token.data \in Seq(Char)
  <2>1. token'.data = Append(token.data, current) /\ token'.ty = token.ty
    BY <1>1 DEF Token
  <2>2. token.data \in Seq(Char)
    BY <1>1 DEF Collected
  <2> QED
    BY <1>2, <2>1, <2>2, AppendProperties, AppendIsConcat
<1>4. /\ \A i \in 1..Len(source') : source'[i] # <<>>
      /\ current' = EOF <=> PastEnd'
      /\ current' # NUL
      /\ ~ Finished'
      /\ current' \in Char \cup {EOF}
      /\ buffer' = IF current' = EOF THEN buffer ELSE Shifted(buffer, current')
  BY <1>1, ReadShape, Reading
<1>5. Effect
  <2>1. seen' = IF current' \in Blank \cup {EOF} THEN seen ELSE Append(seen, current')
    BY <1>1, <1>4, TookReading
  <2>2. Held = token.data \o Ahead /\ Held' = token'.data \o Ahead'
    BY <1>1 DEF Held
  <2>3. Held = Append(token.data, current)
    BY <1>2, <1>3, <2>2, AheadCases
  <2>4. CASE current' \in Blank \cup {EOF}
    <3>1. Ahead' = <<>>
      BY <2>4 DEF Ahead
    <3>2. Held' = Held
      BY <1>3, <2>2, <2>3, <3>1, ConcatEmptySeq
    <3>3. spelled' = spelled
      BY <1>1 DEF HNext
    <3> QED
      BY <2>1, <2>4, <3>2, <3>3 DEF Effect, Kept
  <2>5. CASE current' \notin Blank \cup {EOF}
    <3>1. Ahead' = <<current'>> /\ current' \in Char
      BY <1>4, <2>5 DEF Ahead
    <3>2. Held' = Append(Held, current')
      BY <1>3, <2>2, <2>3, <3>1, AppendIsConcat
    <3>3. spelled' = spelled
      BY <1>1 DEF HNext
    <3> QED
      BY <2>1, <2>5, <3>1, <3>2, <3>3 DEF Effect, Taken
  <2> QED
    BY <2>4, <2>5
<1>6. \A i \in 1..Len(buffer) : buffer[i] \notin Symbol
  BY <1>1, <1>2 DEF Collected
<1>7. /\ \A i \in 1..Len(buffer') : buffer'[i] \in Symbol => i = Len(buffer') /\ buffer'[i] = current'
      /\ current' \in Symbol => buffer' # <<>> /\ buffer'[Len(buffer')] = current'
  <2>1. CASE current' \in Blank \cup {EOF}
    <3>1. buffer' = buffer /\ current' \notin Symbol
      BY <1>4, <2>1, IsopSymbol DEF Shifted
    <3> QED
      BY <1>6, <3>1
  <2>2. CASE current' \notin Blank \cup {EOF}
    <3>1. PICK q \in Payload : /\ buffer' = Append(q, current')
                               /\ \A i \in 1..Len(q) : q[i] \notin Symbol
      <4>0. current' \in Char /\ buffer' = Shifted(buffer, current')
        BY <1>4, <2>2
      <4>1. CASE Len(buffer) < Capacity
        <5>1. buffer' = Append(buffer, current')
          BY <1>1, <2>2, <4>0, <4>1 DEF Shifted
        <5> QED
          BY <1>1, <1>6, <5>1
      <4>2. CASE ~ Len(buffer) < Capacity
        <5>1. Len(buffer) > 1 /\ buffer' = Append(Tail(buffer), current')
          BY <1>1, <1>4, <2>2, <4>2, ShiftedCases
        <5>2. buffer # <<>>
          BY <5>1, EmptySeq
        <5>3. /\ Tail(buffer) \in Payload /\ Len(Tail(buffer)) = Len(buffer) - 1
              /\ \A i \in 1..Len(Tail(buffer)) : Tail(buffer)[i] = buffer[i + 1]
          BY <1>1, <5>2, HeadTailProperties DEF Payload
        <5>4. \A i \in 1..Len(Tail(buffer)) : Tail(buffer)[i] \notin Symbol
          <6> DEFINE t == Tail(buffer)
          <6>1. Len(t) = Len(buffer) - 1 /\ \A i \in 1..Len(t) : t[i] = buffer[i + 1]
            BY <5>3
          <6> HIDE DEF t
          <6>2. Len(buffer) \in Nat
            BY <1>1
          <6>3. ASSUME NEW i \in 1..Len(t) PROVE t[i] \notin Symbol
            <7>1. i + 1 \in 1..Len(buffer)
              BY <6>1, <6>2
            <7> QED
              BY <1>6, <6>1, <7>1
          <6> QED
            BY <6>3 DEF t
        <5> QED
          BY <5>1, <5>3, <5>4
      <4> QED
        BY <4>1, <4>2
    <3>2. /\ buffer' # <<>> /\ Len(buffer') = Len(q) + 1 /\ Len(q) \in Nat
          /\ \A i \in 1..Len(q) : buffer'[i] = q[i]
          /\ buffer'[Len(q) + 1] = current'
      BY <1>4, <3>1, AppendProperties, LenProperties DEF Payload
    <3> QED
      BY <3>1, <3>2
  <2> QED
    BY <2>1, <2>2
<1>8. Collected'
  BY <1>1, <1>3, <1>7 DEF Collected
<1> QED
  BY <1>1, <1>4, <1>5, <1>8 DEF Shape
\* clearBuffer() after a word leaves the symbol that ended it, if one did.
LEMMA ClearedWord ==
  ASSUME buffer \in Payload, current \in Char \cup {EOF},
         \A i \in 1..Len(buffer) : buffer[i] \in Symbol => i = Len(buffer) /\ buffer[i] = current,
         current \in Symbol => buffer # <<>> /\ buffer[Len(buffer)] = current,
         NEW k \in Cleared(buffer)
  PROVE  Rest(buffer, k) = IF current \in Symbol THEN <<current>> ELSE <<>>
<1>1. /\ Len(buffer) \in Nat /\ k \in 0..Len(buffer)
      /\ \A i \in k+1..Len(buffer) : isop(buffer[i])
      /\ k = 0 \/ ~ isop(buffer[k])
  BY LenProperties DEF Cleared, Payload
<1>2. ASSUME NEW i \in 1..Len(buffer)
      PROVE  buffer[i] \in Char \cup {EOF} /\ (isop(buffer[i]) <=> buffer[i] \in Symbol)
  <2>1. buffer[i] \in Char \cup {EOF}
    BY ElementOfSeq DEF Payload
  <2> QED
    BY <2>1, IsopSymbol
<1>3. \A i \in k+1..Len(buffer) : i = Len(buffer) /\ buffer[i] = current /\ current \in Symbol
  <2> TAKE i \in k+1..Len(buffer)
  <2>1. i \in 1..Len(buffer) /\ isop(buffer[i])
    BY <1>1
  <2> QED
    BY <1>2, <2>1
<1>4. CASE current \in Symbol
  <2>1. Len(buffer) \in 1..Len(buffer) /\ buffer[Len(buffer)] = current
    BY <1>1, <1>4, EmptySeq DEF Payload
  <2>2. isop(buffer[Len(buffer)])
    BY <1>2, <1>4, <2>1
  <2>3. k # Len(buffer)
    BY <1>1, <2>1, <2>2
  <2>4. k + 1 \in k+1..Len(buffer)
    BY <1>1, <2>3
  <2>5. k + 1 = Len(buffer)
    BY <1>3, <2>4
  <2>6. SubSeq(buffer, Len(buffer), Len(buffer)) = <<current>>
    BY <2>1, Single DEF Payload
  <2> QED
    BY <1>4, <2>5, <2>6 DEF Rest
<1>5. CASE current \notin Symbol
  <2>1. k = Len(buffer)
    <3>1. ASSUME k < Len(buffer) PROVE FALSE
      <4>1. k + 1 \in k+1..Len(buffer)
        BY <1>1, <3>1
      <4> QED
        BY <1>3, <1>5, <4>1
    <3> QED
      BY <1>1, <3>1
  <2>2. SubSeq(buffer, k + 1, Len(buffer)) = <<>>
    BY <1>1, <2>1, SubSeqEmpty
  <2> QED
    BY <1>5, <2>2 DEF Rest
<1> QED
  BY <1>4, <1>5

\* A register that holds `current' if it is a symbol and nothing else.
LEMMA FreshQueue ==
  ASSUME current' \in Char \cup {EOF},
         buffer' = IF current' \in Symbol THEN <<current'>> ELSE <<>>
  PROVE  Queued' /\ Pending' = Ahead'
<1>1. /\ current' \in Symbol => current' \notin Plain \cup Blank \cup {NUL, EOF}
      /\ current' \in Plain => current' \notin Symbol \cup Blank \cup {NUL, EOF}
      /\ current' \notin Symbol \cup Plain => current' \in Blank \cup {EOF}
  BY IsopSymbol, IsopNUL, AlphabetAssumption DEF Char, Plain
<1>2. CASE current' \in Symbol
  <2>1. buffer' = <<current'>> /\ Len(buffer') = 1 /\ buffer'[1] = current' /\ buffer' # <<>>
    BY <1>2
  <2> QED
    BY <1>1, <1>2, <2>1 DEF Queued, Pending, Ahead
<1>3. CASE current' \notin Symbol
  <2>1. buffer' = <<>> /\ Len(buffer') = 0 /\ Append(<<>>, current') = <<current'>>
    BY <1>3
  <2> QED
    BY <1>1, <1>3, <2>1 DEF Queued, Pending, Ahead
<1> QED
  BY <1>2, <1>3

\* What Return() records.
LEMMA Returned ==
  ASSUME TypeOK, HNext, NEW tok \in Token, Return(tok)
  PROVE  /\ pc' = "returned" /\ token' = tok
         /\ Finished => out' = out /\ spelled' = spelled
         /\ ~ Finished => /\ out' # out /\ spelled' = spelled \o Spelling(tok)
                          /\ Finished' <=> tok.ty = "End"
<1>1. /\ Append(out, tok) # out /\ Append(out, tok) # <<>>
      /\ Len(Append(out, tok)) = Len(out) + 1
      /\ Append(out, tok)[Len(out) + 1] = tok
  BY AppendProperties, LenProperties DEF TypeOK
<1>2. pc' = "returned" /\ token' = tok /\ out' = IF Finished THEN out ELSE Append(out, tok)
  BY DEF Return
<1>3. Spelling(token') = Spelling(tok)
  BY <1>2
<1> QED
  BY <1>1, <1>2, <1>3 DEF HNext, Finished

\* Each type of punctuation token stands for one character.
LEMMA PunctuationRow ==
  ASSUME NEW p \in Punctuation
  PROVE  /\ p[2] \in {"CmdEnd", "Comma", "Colon", "BraceOpen", "BraceClose"}
         /\ p[2] = "CmdEnd" => p = <<";", "CmdEnd">>
         /\ p[2] = "Comma" => p = <<",", "Comma">>
         /\ p[2] = "Colon" => p = <<":", "Colon">>
         /\ p[2] = "BraceOpen" => p = <<"{", "BraceOpen">>
         /\ p[2] = "BraceClose" => p = <<"}", "BraceClose">>
<1>1. \/ p = <<";", "CmdEnd">> \/ p = <<",", "Comma">> \/ p = <<":", "Colon">>
      \/ p = <<"{", "BraceOpen">> \/ p = <<"}", "BraceClose">>
  BY DEF Punctuation
<1>2. CASE p = <<";", "CmdEnd">>
  BY <1>2
<1>3. CASE p = <<",", "Comma">>
  BY <1>3
<1>4. CASE p = <<":", "Colon">>
  BY <1>4
<1>5. CASE p = <<"{", "BraceOpen">>
  BY <1>5
<1>6. CASE p = <<"}", "BraceClose">>
  BY <1>6
<1> QED
  BY <1>1, <1>2, <1>3, <1>4, <1>5, <1>6

LEMMA PunctuationUnique ==
  ASSUME NEW p \in Punctuation
  PROVE  /\ p[2] \in {"CmdEnd", "Comma", "Colon", "BraceOpen", "BraceClose"}
         /\ \A q \in Punctuation : q[2] = p[2] => q = p
<1>1. p[2] \in {"CmdEnd", "Comma", "Colon", "BraceOpen", "BraceClose"}
  BY PunctuationRow
<1>2. ASSUME NEW q \in Punctuation, q[2] = p[2] PROVE q = p
  BY <1>1, <1>2, PunctuationRow
<1> QED
  BY <1>1, <1>2

LEMMA SpellingWord ==
  ASSUME NEW tok, tok.ty \in {"Identifier", "Keyword", "Number", "Operator"}
  PROVE  Spelling(tok) = tok.data
BY PunctuationUnique DEF Spelling

LEMMA SpellingPunctuation ==
  ASSUME NEW tok, NEW p \in Punctuation, tok.ty = p[2]
  PROVE  Spelling(tok) = <<p[1]>>
<1>1. (CHOOSE q \in Punctuation : tok.ty = q[2]) = p
  BY PunctuationUnique
<1>2. tok.ty # "String"
  BY PunctuationUnique
<1> QED
  BY <1>1, <1>2 DEF Spelling
\* A word is returned; what ended it stays.
LEMMA EndWord ==
  ASSUME Shape, HNext, EndIdentifier \/ EndNumber
  PROVE  Shape' /\ Effect
<1>1. /\ TypeOK /\ TypeOK' /\ buffer \in Payload /\ token \in Token
      /\ pc \in {"identifier", "number"} /\ Collected
      /\ current \in Char \cup {NUL, EOF} /\ current # NUL
  BY TypeKept DEF Shape, TypeOK, EndIdentifier, EndNumber
<1>2. /\ token.data \in Seq(Char) /\ token.data # <<>> /\ Len(token.data) \in Nat \ {0}
  <2>1. token.data \in Seq(Char) /\ token.data # <<>>
    BY <1>1 DEF Collected, EndIdentifier, EndNumber
  <2> QED
    BY <2>1, EmptySeq
<1>3. PICK tok \in Token :
        Return(tok) /\ tok.data = token.data /\ tok.ty \in {"Identifier", "Keyword", "Number"}
  <2>1. CASE EndIdentifier
    <3> DEFINE word == [token EXCEPT !.ty = IF token.data \in Keywords THEN "Keyword" ELSE @]
    <3>1. word \in Token /\ word.data = token.data /\ word.ty \in {"Identifier", "Keyword", "Number"}
      BY <1>1 DEF Collected, Token, TokenType
    <3>2. Return(word)
      BY <2>1 DEF EndIdentifier
    <3> HIDE DEF word
    <3> QED
      BY <3>1, <3>2
  <2>2. CASE EndNumber
    BY <1>1, <2>2 DEF EndNumber, Collected
  <2> QED
    BY <2>1, <2>2
<1>4. UNCHANGED input /\ \E k \in Cleared(buffer) : buffer' = Rest(buffer, k)
  BY DEF EndIdentifier, EndNumber
<1>5. /\ \A i \in 1..Len(source') : source'[i] # <<>>
      /\ current' = EOF <=> PastEnd'
      /\ current' = current
  BY <1>4, StillShape
<1>6. buffer' = IF current \in Symbol THEN <<current>> ELSE <<>>
  BY <1>1, <1>4, ClearedWord DEF Collected
<1>7. Queued' /\ Pending' = Ahead'
  BY <1>1, <1>5, <1>6, FreshQueue
<1>8. ~ Finished
  BY <1>1 DEF Shape
<1>9. /\ pc' = "returned" /\ token' = tok /\ ~ Finished'
      /\ spelled' = spelled \o token.data
  BY <1>1, <1>3, <1>8, Returned, SpellingWord
<1>10. Effect
  <2>1. Ahead \in Seq(Char) /\ Ahead' = Ahead
    BY <1>1, <1>5, AheadCases DEF Ahead
  <2>2. Held = token.data \o Ahead /\ Held' = Ahead
    BY <1>1, <1>7, <1>9, <2>1 DEF Held
  <2>3. /\ SubSeq(Held, 1, Len(token.data)) = token.data
        /\ SubSeq(Held, Len(token.data) + 1, Len(Held)) = Ahead
    BY <1>2, <2>1, <2>2, Parts
  <2>4. Len(token.data) \in 1..Len(Held)
    <3>1. Len(Held) = Len(token.data) + Len(Ahead) /\ Len(Ahead) \in Nat
      BY <1>2, <2>1, <2>2, ConcatProperties, LenProperties
    <3> QED
      BY <1>2, <3>1
  <2>5. seen' = seen
    BY <1>4, TookNothing
  <2> QED
    BY <1>9, <2>2, <2>3, <2>4, <2>5 DEF Effect, Spelt
<1> QED
  BY <1>1, <1>5, <1>7, <1>9, <1>10 DEF Shape
-----------------------------------------------------------------------------
(* Strings. *)

LEMMA QuoteFacts == Quote \in Char /\ Quote \in Plain /\ Quote \notin Blank \cup Symbol \cup {EOF}
<1>1. Quote \in Plain /\ Quote \in Char
  BY DEF Plain, Char
<1> QED
  BY <1>1, IsopSymbol, IsopNUL DEF Char

LEMMA BeginQuote ==
  ASSUME Shape, HNext, BeginString
  PROVE  Shape' /\ Effect
<1>1. /\ TypeOK' /\ UNCHANGED <<input, buffer, out>> /\ pc = "skipSpaces" /\ pc' = "string"
      /\ token'.data = <<>> /\ token'.ty = "String" /\ ~ isop(Oldest) /\ current = Quote
  BY TypeKept DEF BeginString, Begin
<1>2. /\ \A i \in 1..Len(source') : source'[i] # <<>>
      /\ current' = EOF <=> PastEnd'
      /\ current' = Quote
      /\ Finished' <=> Finished
  BY <1>1, StillShape
<1>3. Held = <<Quote>>
  BY <1>1, HeldQueue, QuoteFacts, IsopNUL DEF AtQueue, Ahead
<1>4. Held' = <<Quote>>
  <2>1. <<Quote>> \in Seq(Char)
    BY QuoteFacts
  <2>2. Held' = <<Quote>> \o <<>>
    BY <1>1, <1>2, QuoteFacts DEF Held, OpenString
  <2> QED
    BY <2>1, <2>2, ConcatEmptySeq
<1>5. Effect
  BY <1>1, <1>3, <1>4, TookNothing DEF Effect, Kept, HNext
<1>6. Quoted' /\ ~ Finished
  BY <1>1, <1>2, QuoteFacts, EmptySeq DEF Quoted, Shape
<1> QED
  BY <1>1, <1>2, <1>5, <1>6, QuoteFacts, IsopNUL DEF Shape

\* The open string, before its end.
LEMMA OpenFacts ==
  ASSUME Quoted, token \in Token, current # EOF
  PROVE  /\ token.data \in Seq(Char) /\ OpenString = <<Quote>> \o token.data
         /\ <<Quote>> \in Seq(Char) /\ OpenString \in Seq(Char)
<1>1. token.data \in Seq(Char) /\ OpenString = <<Quote>> \o token.data /\ <<Quote>> \in Seq(Char)
  BY QuoteFacts DEF Quoted, OpenString
<1> QED
  BY <1>1, ConcatProperties

LEMMA ReadQuoted ==
  ASSUME Shape, HNext, ReadString
  PROVE  Shape' /\ Effect
<1>1. /\ TypeOK /\ TypeOK' /\ buffer \in Payload /\ Len(buffer) <= Capacity /\ token \in Token
      /\ pc = "string" /\ current # EOF /\ Quoted /\ MoveNext(buffer) /\ out' = out
      /\ Len(buffer) \in Nat
  BY TypeKept, LenProperties DEF Shape, TypeOK, ReadString, Payload
<1>2. /\ \A i \in 1..Len(source') : source'[i] # <<>>
      /\ current' = EOF <=> PastEnd'
      /\ current' # NUL
      /\ ~ Finished'
      /\ current' \in Char \cup {EOF}
      /\ buffer' = IF current' = EOF THEN buffer ELSE Shifted(buffer, current')
  BY <1>1, ReadShape, Reading
<1>3. /\ token.data \in Seq(Char) /\ OpenString = <<Quote>> \o token.data
      /\ <<Quote>> \in Seq(Char) /\ OpenString \in Seq(Char)
  BY <1>1, OpenFacts
<1>4. Held = OpenString /\ spelled' = spelled
  BY <1>1 DEF Held, HNext
<1>5. seen' = IF current' # EOF THEN Append(seen, current') ELSE seen
  BY <1>1, TookReading
<1>6. CASE current' = Quote
  <2>1. pc' = "closeString" /\ token' = token
    BY <1>6 DEF ReadString
  <2>2. buffer' # <<>> /\ buffer'[Len(buffer')] = Quote
    <3>1. PICK q \in Payload : buffer' = Append(q, Quote)
      <4>1. CASE Len(buffer) < Capacity
        BY <1>1, <1>2, <1>6, <4>1, QuoteFacts DEF Shifted
      <4>2. CASE ~ Len(buffer) < Capacity
        <5>1. Len(buffer) > 1 /\ buffer' = Append(Tail(buffer), Quote)
          BY <1>1, <1>2, <1>6, <4>2, QuoteFacts, ShiftedCases
        <5>2. buffer # <<>>
          BY <5>1, EmptySeq
        <5> QED
          BY <1>1, <5>1, <5>2, HeadTailProperties DEF Payload
      <4> QED
        BY <4>1, <4>2
    <3>2. Quote \in Char \cup {EOF}
      BY QuoteFacts
    <3>3. /\ Append(q, Quote) # <<>> /\ Len(Append(q, Quote)) = Len(q) + 1
          /\ Append(q, Quote)[Len(q) + 1] = Quote
      BY <3>2, AppendProperties DEF Payload
    <3> QED
      BY <3>1, <3>3
  <2>3. Held' = Append(Held, current')
    <3>1. OpenString' = OpenString
      BY <1>1, <1>6, <2>1, QuoteFacts DEF OpenString
    <3>2. Held' = OpenString \o <<Quote>>
      BY <1>6, <2>1, <3>1, QuoteFacts DEF Held
    <3>3. Append(OpenString, Quote) = OpenString \o <<Quote>>
      BY <1>3, QuoteFacts, AppendIsConcat
    <3> QED
      BY <1>4, <1>6, <3>2, <3>3
  <2>4. Quoted'
    BY <1>1, <1>3, <1>6, <2>1, QuoteFacts DEF Quoted
  <2>5. Effect
    BY <1>4, <1>5, <1>6, <2>3, QuoteFacts DEF Effect, Taken
  <2> QED
    BY <1>1, <1>2, <1>6, <2>1, <2>2, <2>4, <2>5 DEF Shape
<1>7. CASE current' # Quote
  <2>1. /\ pc' = "string"
        /\ token'.data = Append(token.data, current') /\ token'.ty = token.ty
    BY <1>1, <1>7 DEF ReadString, Token
  <2>2. CASE current' = EOF
    <3>1. SubSeq(token'.data, 1, Len(token'.data) - 1) = token.data
      <4>1. token.data \in Payload /\ <<EOF>> \in Payload
        BY <1>3, SeqMonotonic DEF Payload
      <4>2. token'.data = token.data \o <<EOF>>
        BY <2>1, <2>2, <4>1, AppendIsConcat DEF Payload
      <4>3. Len(token'.data) - 1 = Len(token.data)
        BY <2>1, <2>2, <4>1, AppendProperties, LenProperties DEF Payload
      <4> QED
        BY <4>1, <4>2, <4>3, Parts DEF Payload
    <3>2. Held' = OpenString /\ Quoted'
      BY <1>1, <1>3, <2>1, <2>2, <3>1 DEF Held, OpenString, Quoted
    <3>3. Effect
      BY <1>4, <1>5, <2>2, <3>2 DEF Effect, Kept
    <3> QED
      BY <1>1, <1>2, <2>1, <3>2, <3>3 DEF Shape
  <2>3. CASE current' # EOF
    <3>1. /\ current' \in Char /\ token'.data \in Seq(Char)
          /\ token'.data = token.data \o <<current'>> /\ <<current'>> \in Seq(Char)
      BY <1>2, <1>3, <2>1, <2>3, AppendProperties, AppendIsConcat
    <3>2. Held' = <<Quote>> \o token'.data /\ Quoted'
      BY <1>1, <2>1, <2>3, <3>1 DEF Held, OpenString, Quoted
    <3>3. Held' = Append(Held, current')
      <4>1. Append(OpenString, current') = OpenString \o <<current'>>
        BY <1>3, <3>1, AppendIsConcat
      <4>2. (<<Quote>> \o token.data) \o <<current'>> = <<Quote>> \o (token.data \o <<current'>>)
        <5> DEFINE one == <<Quote>>
                   two == token.data
                   three == <<current'>>
        <5>1. one \in Seq(Char) /\ two \in Seq(Char) /\ three \in Seq(Char)
          BY <1>3, <3>1
        <5> HIDE DEF one, two, three
        <5>2. (one \o two) \o three = one \o (two \o three)
          BY <5>1, Associative
        <5> QED
          BY <5>2 DEF one, two, three
      <4> QED
        BY <1>3, <1>4, <3>1, <3>2, <4>1, <4>2
    <3>4. Effect
      BY <1>4, <1>5, <2>3, <3>1, <3>3 DEF Effect, Taken
    <3> QED
      BY <1>1, <1>2, <2>1, <3>2, <3>4 DEF Shape
  <2> QED
    BY <2>2, <2>3
<1> QED
  BY <1>6, <1>7

\* The places where an open string is left, at its quote or at the end.
LEMMA LeaveString ==
  ASSUME Shape, HNext, StringAtEOF \/ DereferenceEnd
  PROVE  Shape' /\ Effect
<1>1. /\ TypeOK' /\ UNCHANGED <<input, buffer, token, out>> /\ current = EOF /\ PastEnd
      /\ \/ pc = "string" /\ pc' = "closeString"
         \/ pc = "closeString" /\ pc' = "undefined"
  BY TypeKept DEF StringAtEOF, DereferenceEnd, Shape
<1>2. /\ \A i \in 1..Len(source') : source'[i] # <<>>
      /\ current' = EOF <=> PastEnd'
      /\ current' = current
      /\ Finished' <=> Finished
  BY <1>1, StillShape
<1>3. token \in Token /\ Quoted
  BY <1>1 DEF Shape, TypeOK
<1>4. OpenString \in Seq(Char) /\ OpenString' = OpenString
  <2>1. <<Quote>> \in Seq(Char) /\ SubSeq(token.data, 1, Len(token.data) - 1) \in Seq(Char)
    BY <1>1, <1>3, QuoteFacts DEF Quoted
  <2>2. OpenString = <<Quote>> \o SubSeq(token.data, 1, Len(token.data) - 1)
    BY <1>1 DEF OpenString
  <2> QED
    BY <1>1, <1>2, <2>1, <2>2, ConcatProperties DEF OpenString
<1>5. Held = OpenString /\ Held' = OpenString
  <2>1. OpenString \o <<>> = OpenString
    BY <1>4, ConcatEmptySeq
  <2> QED
    BY <1>1, <1>2, <1>4, <2>1 DEF Held
<1>6. Effect
  BY <1>1, <1>5, TookNothing DEF Effect, Kept, HNext
<1>7. Quoted' /\ ~ Finished
  BY <1>1, <1>2, <1>3 DEF Quoted, Shape
<1> QED
  BY <1>1, <1>2, <1>6, <1>7, IsopNUL DEF Shape

LEMMA CloseQuoted ==
  ASSUME Shape, HNext, CloseString
  PROVE  Shape' /\ Effect
<1>1. /\ TypeOK /\ TypeOK' /\ buffer \in Payload /\ Len(buffer) \in Nat /\ token \in Token
      /\ pc = "closeString" /\ Quoted /\ Return(token)
  BY TypeKept, LenProperties DEF Shape, TypeOK, CloseString, Payload
<1>2. PICK k \in Cleared(buffer) : MoveNext(Rest(buffer, k))
  BY DEF CloseString
<1>3. current # EOF
  BY <1>2 DEF MoveNext, Shape
<1>4. current = Quote /\ buffer # <<>> /\ buffer[Len(buffer)] = Quote
  BY <1>1, <1>3 DEF Shape
<1>5. Rest(buffer, k) = <<>>
  <2>1. /\ k \in 0..Len(buffer)
        /\ \A i \in k+1..Len(buffer) : isop(buffer[i])
    BY DEF Cleared
  <2>2. ~ isop(Quote)
    BY QuoteFacts, IsopSymbol
  <2>3. ~ k < Len(buffer)
    BY <1>1, <1>4, <2>1, <2>2
  <2>4. SubSeq(buffer, k + 1, Len(buffer)) = <<>>
    BY <1>1, <2>1, <2>3, SubSeqEmpty
  <2> QED
    BY <2>4 DEF Rest
<1>6. /\ MoveNext(<<>>) /\ <<>> \in Payload /\ <<>> \in Seq(Symbol) /\ Len(<<>>) = 0
      /\ Len(<<>>) <= Capacity /\ 0 < Capacity
  BY <1>2, <1>5, EmptySeq, TableAssumption DEF Payload
<1>7. /\ \A i \in 1..Len(source') : source'[i] # <<>>
      /\ current' = EOF <=> PastEnd'
      /\ current' # NUL
      /\ ~ Finished
      /\ current' \in Char \cup {EOF}
  BY <1>6, ReadShape, Reading
<1>8. /\ pc' = "returned" /\ token' = token /\ ~ Finished'
      /\ spelled' = spelled \o Spelling(token)
  BY <1>1, <1>7, Returned DEF Quoted
<1>9. /\ Queued' /\ Held' = buffer'
      /\ \/ current' \in Blank \cup {EOF} /\ buffer' = <<>>
         \/ current' \in Symbol \cup Plain /\ buffer' = Append(<<>>, current')
  <2>1. Held' = Pending'
    BY <1>8 DEF Held
  <2> DEFINE none == <<>>
  <2>2. /\ none \in Seq(Symbol) /\ Len(none) <= Capacity /\ MoveNext(none)
        /\ ~ Len(none) > 1
    BY <1>6
  <2> HIDE DEF none
  <2>3. /\ Queued' /\ Pending' = buffer'
        /\ \/ current' \in Blank \cup {EOF} /\ buffer' = none
           \/ current' \in Symbol \cup Plain /\ buffer' = Append(none, current')
    BY <2>2, QueueReading
  <2> QED
    BY <2>1, <2>3 DEF none
<1>10. seen' = IF current' \in Blank \cup {EOF} THEN seen ELSE Append(seen, current')
  BY <1>1, <1>6, TookReading
<1>11. /\ OpenString = <<Quote>> \o token.data
       /\ <<Quote>> \in Seq(Char) /\ OpenString \in Seq(Char)
  BY <1>1, <1>3, OpenFacts
<1>12. Held = OpenString \o <<Quote>> /\ Spelling(token) = Held
  BY <1>1, <1>3, <1>11 DEF Held, Spelling, Quoted
<1>13. Held \in Seq(Char) /\ Len(Held) \in Nat \ {0}
  <2>1. Held = Append(OpenString, Quote)
    BY <1>11, <1>12, QuoteFacts, AppendIsConcat
  <2>2. Held \in Seq(Char) /\ Held # <<>>
    BY <1>11, <2>1, QuoteFacts, AppendProperties
  <2> QED
    BY <2>2, EmptySeq
<1>14. SubSeq(Held, 1, Len(Held)) = Held /\ SubSeq(Held, Len(Held) + 1, Len(Held)) = <<>>
  BY <1>13, SubSeqFull, SubSeqEmpty
<1>15. Effect
  <2>0. Len(Held) \in 1..Len(Held) /\ spelled' = spelled \o SubSeq(Held, 1, Len(Held))
    BY <1>8, <1>12, <1>13, <1>14
  <2>1. CASE current' \in Blank \cup {EOF} /\ buffer' = <<>>
    <3>1. Held' = SubSeq(Held, Len(Held) + 1, Len(Held)) /\ seen' = seen
      BY <1>9, <1>10, <1>14, <2>1
    <3> QED
      BY <2>0, <3>1 DEF Effect, Spelt
  <2>2. CASE current' \in Symbol \cup Plain /\ buffer' = Append(<<>>, current')
    <3>1. current' \in Char /\ current' \notin Blank \cup {EOF}
      BY <1>7, <2>2, IsopSymbol, IsopNUL DEF Char
    <3>2. /\ Held' = Append(SubSeq(Held, Len(Held) + 1, Len(Held)), current')
          /\ seen' = Append(seen, current')
      BY <1>9, <1>10, <1>14, <2>2, <3>1
    <3> QED
      BY <2>0, <3>1, <3>2 DEF Effect, SpeltTaken
  <2> QED
    BY <1>9, <2>1, <2>2
<1> QED
  BY <1>1, <1>7, <1>8, <1>9, <1>15 DEF Shape
-----------------------------------------------------------------------------
(* Tokens taken from the queue. *)

\* No comment begins, for '/' is not a character of these sources.
LEMMA NoComment ==
  ASSUME Shape, pc = "match"
  PROVE  ~ StartsComment
<1>1. buffer \in Seq(Char) /\ Len(buffer) \in Nat
  BY HeldQueue DEF AtQueue
<1>2. Len(buffer) >= 2 => buffer[1] \in Char
  BY <1>1, ElementOfSeq
<1> QED
  BY <1>2, IsopSymbol DEF StartsComment

\* pop(): symbols taken from the front of the queue.
LEMMA QueueSpell ==
  ASSUME Shape, HNext, pc = "match", UNCHANGED input,
         NEW n \in 1..Len(buffer), \A i \in 1..n : buffer[i] \in Symbol,
         buffer' = SubSeq(buffer, n + 1, Len(buffer)),
         NEW tok \in Token, Return(tok), Spelling(tok) = SubSeq(buffer, 1, n), tok.ty # "End"
  PROVE  Shape' /\ Effect
<1>1. /\ TypeOK /\ TypeOK' /\ Queued
      /\ buffer \in Seq(Char) /\ Len(buffer) \in Nat /\ buffer # <<>>
      /\ Held = buffer /\ current \in Char \cup {EOF} /\ current # NUL
  <2>1. TypeOK /\ TypeOK' /\ Queued /\ current # NUL /\ current \in Char \cup {NUL, EOF}
    BY TypeKept DEF Shape, TypeOK
  <2>2. buffer \in Seq(Char) /\ Len(buffer) \in Nat /\ Held = IF buffer = <<>> THEN Ahead ELSE buffer
    BY HeldQueue DEF AtQueue
  <2> QED
    BY <2>1, <2>2, EmptySeq
<1>2. current \notin Symbol /\ ~ Finished
  <2>1. buffer[1] \in Symbol /\ Oldest = buffer[1]
    BY <1>1 DEF Oldest
  <2>2. isop(Oldest)
    BY <2>1, IsopSymbol DEF Char
  <2> QED
    BY <1>1, <2>2, IsopSymbol DEF Shape
<1>3. /\ \A i \in 1..Len(source') : source'[i] # <<>>
      /\ current' = EOF <=> PastEnd'
      /\ current' = current
  BY StillShape
<1>4. /\ buffer' \in Seq(Char) /\ Len(buffer') = Len(buffer) - n /\ Len(buffer') \in Nat
      /\ \A i \in 1..Len(buffer') : buffer'[i] = buffer[n + i]
  <2> DEFINE m == n + 1
  <2>1. m \in Int /\ Len(buffer) \in Int /\ \A i \in m..Len(buffer) : buffer[i] \in Char
    BY <1>1, ElementOfSeq
  <2>2. /\ buffer' \in Seq(Char)
        /\ Len(buffer') = IF m <= Len(buffer) THEN Len(buffer) - m + 1 ELSE 0
        /\ \A i \in 1..Len(buffer) - m + 1 : buffer'[i] = buffer[m + i - 1]
    BY <2>1, SubSeqProperties
  <2>3. Len(buffer') = Len(buffer) - n /\ Len(buffer') \in Nat
    BY <1>1, <2>2
  <2> QED
    BY <1>1, <2>2, <2>3
<1>5. /\ Queued'
      /\ current \in Plain => buffer' # <<>> /\ buffer'[Len(buffer')] = current
  <2>1. ASSUME NEW i \in 1..Len(buffer')
        PROVE  buffer'[i] \in Symbol \/ (i = Len(buffer') /\ buffer'[i] = current /\ current \in Plain)
    <3>1. n + i \in 1..Len(buffer) /\ buffer'[i] = buffer[n + i]
      BY <1>1, <1>4
    <3>2. buffer[n + i] \in Symbol \/ (n + i = Len(buffer) /\ buffer[n + i] = current /\ current \in Plain)
      BY <1>1, <3>1 DEF Queued
    <3> QED
      BY <1>1, <1>4, <3>1, <3>2
  <2>2. ASSUME current \in Plain
        PROVE  buffer' # <<>> /\ buffer'[Len(buffer')] = current
    <3>1. buffer[Len(buffer)] = current
      BY <1>1, <2>2 DEF Queued
    <3>2. n < Len(buffer)
      BY <1>1, <1>2, <3>1
    <3>3. Len(buffer') \in 1..Len(buffer') /\ n + Len(buffer') = Len(buffer)
      BY <1>1, <1>4, <3>2
    <3>4. buffer'[Len(buffer')] = buffer[n + Len(buffer')]
      BY <1>4, <3>3
    <3>5. buffer' # <<>>
      <4>1. Len(buffer') # 0
        BY <3>3
      <4>2. Len(<<>>) = 0
        OBVIOUS
      <4> QED
        BY <4>1, <4>2
    <3> QED
      BY <3>1, <3>3, <3>4, <3>5
  <2> QED
    BY <1>2, <1>3, <2>1, <2>2 DEF Queued
<1>6. /\ pc' = "returned" /\ ~ Finished'
      /\ spelled' = spelled \o SubSeq(Held, 1, n)
  BY <1>1, <1>2, Returned
<1>7. Held' = SubSeq(Held, n + 1, Len(Held))
  <2>1. Held' = Pending'
    BY <1>6 DEF Held
  <2>2. current \in Plain => ~ isop(current)
    BY <1>1, IsopSymbol
  <2>3. Pending' = buffer'
    BY <1>3, <1>5, <2>2 DEF Pending, isop
  <2> QED
    BY <1>1, <2>1, <2>3
<1>8. Effect
  BY <1>1, <1>6, <1>7, TookNothing DEF Effect, Spelt
<1> QED
  BY <1>1, <1>3, <1>5, <1>6, <1>8 DEF Shape

LEMMA SpellSymbols ==
  ASSUME Shape, HNext, ReturnPunctuation \/ ReturnOperator
  PROVE  Shape' /\ Effect
<1>1. /\ pc = "match" /\ UNCHANGED input /\ token \in Token
      /\ buffer \in Seq(Char) /\ buffer \in Payload /\ Len(buffer) \in Nat
      /\ buffer # <<>> => 1 \in 1..Len(buffer)
  <2>1. pc = "match" /\ UNCHANGED input /\ token \in Token
    BY DEF Shape, TypeOK, Matching, ReturnPunctuation, ReturnOperator
  <2> QED
    BY <2>1, HeldQueue, EmptySeq DEF AtQueue, Shape, TypeOK
<1>2. CASE ReturnPunctuation
  <2>1. PICK p \in Punctuation : Oldest = p[1] /\ Return([token EXCEPT !.ty = p[2]])
    BY <1>2 DEF ReturnPunctuation
  <2> DEFINE tok == [token EXCEPT !.ty = p[2]]
  <2>2. tok \in Token /\ tok.ty = p[2] /\ tok.ty # "End"
    BY <1>1, PunctuationPairs DEF Token
  <2>3. buffer # <<>> /\ buffer[1] = p[1]
    BY <2>1, PunctuationPairs DEF Oldest
  <2>4. buffer[1] \in Symbol
    <3>1. buffer[1] \in Char /\ buffer[1] \in Punctuators
      BY <1>1, <2>3, PunctuationPairs, ElementOfSeq
    <3> QED
      BY <3>1, AlphabetAssumption DEF Char
  <2>5. Spelling(tok) = SubSeq(buffer, 1, 1)
    <3> HIDE DEF tok
    <3>1. Spelling(tok) = <<p[1]>>
      BY <2>2, SpellingPunctuation
    <3>2. SubSeq(buffer, 1, 1) = <<buffer[1]>>
      BY <1>1, <2>3, Single
    <3> QED
      BY <2>3, <3>1, <3>2
  <2>6. buffer' = SubSeq(buffer, 1 + 1, Len(buffer))
    BY <1>1, <1>2, <2>3, TailIsSubSeq DEF ReturnPunctuation
  <2>7. \A i \in 1..1 : buffer[i] \in Symbol
    BY <2>4
  <2>8. Return(tok) /\ 1 \in 1..Len(buffer)
    BY <1>1, <2>1, <2>3
  <2> HIDE DEF tok
  <2> QED
    BY <1>1, <2>2, <2>5, <2>6, <2>7, <2>8, QueueSpell
<1>3. CASE ReturnOperator
  <2>1. PICK op \in Parsed(buffer) : /\ Return([ty |-> "Operator", data |-> op])
                                     /\ buffer' = Rest(buffer, Len(op))
    BY <1>3 DEF ReturnOperator
  <2> DEFINE tok == [ty |-> "Operator", data |-> op]
  <2>2. /\ op \in Seq(Symbol) /\ Len(op) \in 1..Len(buffer)
        /\ SubSeq(buffer, 1, Len(op)) = op
    <3>1. op \in Seq(Symbol) /\ op # <<>> /\ Len(op) <= Len(buffer) /\ SubSeq(buffer, 1, Len(op)) = op
      BY TableAssumption DEF Parsed, Spells
    <3> QED
      BY <1>1, <3>1, EmptySeq
  <2>3. op \in Payload
    BY <2>2, SeqMonotonic DEF Payload, Char
  <2>4. tok \in Token /\ tok.ty # "End" /\ Spelling(tok) = op
    BY <2>3, SpellingWord DEF Token, TokenType
  <2>5. \A i \in 1..Len(op) : buffer[i] \in Symbol
    <3>1. \A i \in 1..Len(op) : buffer[i] \in Char
      BY <1>1, <2>2, ElementOfSeq
    <3>2. \A i \in 1..Len(op) : SubSeq(buffer, 1, Len(op))[i] = buffer[i]
      <4>1. Len(op) \in Int /\ \A i \in 1..Len(op) - 1 + 1 :
              SubSeq(buffer, 1, Len(op))[i] = buffer[1 + i - 1]
        BY <1>1, <2>2, <3>1, SubSeqProperties
      <4> QED
        BY <4>1
    <3> QED
      BY <2>2, <3>2, ElementOfSeq
  <2>6. buffer' = SubSeq(buffer, Len(op) + 1, Len(buffer)) /\ Return(tok)
    BY <2>1 DEF Rest
  <2> HIDE DEF tok
  <2> QED
    BY <1>1, <2>2, <2>4, <2>5, <2>6, QueueSpell
<1> QED
  BY <1>2, <1>3

\* When nothing matches, nothing is left.
LEMMA ReturnNothing ==
  ASSUME Shape, HNext, spelled \in Seq(Char), ReturnEnd \/ ReturnUnknown
  PROVE  Shape' /\ Effect
<1>1. /\ TypeOK /\ TypeOK' /\ pc = "match" /\ token \in Token
      /\ Oldest \notin Punctuators /\ Parsed(buffer) = {}
      /\ buffer \in Payload
  BY TypeKept DEF Shape, TypeOK, Matching, Unmatched, ReturnEnd, ReturnUnknown
<1>2. ~ isop(Oldest)
  <2>1. isop(Oldest) => buffer # <<>> /\ buffer[1] \in Symbol \ Punctuators
    BY <1>1, HeldQueue DEF AtQueue
  <2> QED
    BY <1>1, <2>1, ParsedNonempty
<1>3. current = EOF
  BY <1>1, <1>2 DEF Shape
<1>4. buffer = <<>> /\ Held = <<>>
  <2>1. buffer \in Seq(Symbol) /\ Held = buffer
    BY <1>1, <1>3, HeldQueue, IsopNUL DEF AtQueue, Char
  <2>2. ASSUME buffer # <<>> PROVE FALSE
    <3>1. buffer[1] \in Symbol /\ Oldest = buffer[1]
      BY <2>1, <2>2, EmptySeq, ElementOfSeq DEF Oldest
    <3> QED
      BY <1>2, <3>1, IsopSymbol DEF Char
  <2> QED
    BY <2>1, <2>2
<1>5. ReturnEnd
  BY <1>3 DEF ReturnUnknown
<1> DEFINE tok == [token EXCEPT !.ty = "End"]
<1>6. /\ tok \in Token /\ tok.ty = "End" /\ Return(tok)
      /\ UNCHANGED <<input, buffer>>
  BY <1>1, <1>5 DEF ReturnEnd, Token, TokenType
<1> HIDE DEF tok
<1>7. Spelling(tok) = <<>>
  BY <1>6, PunctuationUnique DEF Spelling
<1>8. pc' = "returned" /\ Finished' /\ spelled' = spelled
  <2>1. spelled \o <<>> = spelled
    BY ConcatEmptySeq
  <2>2. Finished /\ out' = out => Finished'
    BY DEF Finished
  <2> QED
    BY <1>1, <1>6, <1>7, <2>1, <2>2, Returned
<1>9. /\ \A i \in 1..Len(source') : source'[i] # <<>>
      /\ current' = EOF <=> PastEnd'
      /\ current' = EOF /\ buffer' = <<>>
  BY <1>3, <1>4, <1>6, StillShape
<1>10. Queued' /\ Pending' = <<>>
  <2>1. EOF \notin Symbol \cup Plain /\ Len(<<>>) = 0
    BY IsopNUL DEF Char
  <2> QED
    BY <1>9, <2>1 DEF Queued, Pending
<1>11. Effect
  <2>1. Held' = <<>>
    BY <1>8, <1>10 DEF Held
  <2> QED
    BY <1>4, <1>6, <1>8, <2>1, TookNothing DEF Effect, Kept
<1> QED
  BY <1>1, <1>8, <1>9, <1>10, <1>11, IsopNUL DEF Shape
-----------------------------------------------------------------------------
(* The theorems. *)

\* Every step keeps the shape of the register and moves characters only in the
\* ways listed in Effect.
LEMMA StepEffect ==
  ASSUME Shape, spelled \in Seq(Char), HNext
  PROVE  Shape' /\ Effect
<1>1. pc \notin { "skipUntil", "endComment", "fallThrough" }
  BY DEF Shape
<1>2. ~ BeginComment
  BY NoComment DEF BeginComment
<1>3. ~ SkipUntil /\ ~ SkipUntilSpins /\ ~ EndComment
  BY <1>1 DEF SkipUntil, SkipUntilSpins, Spinning, EndComment
<1> QED
  BY <1>2, <1>3, QueueInside, BeginWord, ReadWord, EndWord, BeginQuote, ReadQuoted,
     LeaveString, CloseQuoted, SpellSymbols, ReturnNothing DEF HNext, Next

LEMMA HeldType ==
  ASSUME Shape
  PROVE  Held \in Seq(Char)
<1>1. CASE pc \in AtQueue
  BY <1>1, HeldQueue
<1>2. CASE pc \in {"identifier", "number"}
  <2>1. token.data \in Seq(Char) /\ current \in Char \cup {EOF}
    BY <1>2 DEF Shape, Collected, TypeOK
  <2>2. Held = token.data \o Ahead /\ Ahead \in Seq(Char)
    BY <1>2, <2>1, AheadCases DEF Held
  <2> QED
    BY <2>1, <2>2, ConcatProperties
<1>3. CASE pc \in {"string", "closeString", "undefined"}
  <2>1. <<Quote>> \in Seq(Char) /\ <<>> \in Seq(Char)
    BY QuoteFacts, EmptySeq
  <2>2. OpenString \in Seq(Char)
    <3> DEFINE part == IF current = EOF THEN SubSeq(token.data, 1, Len(token.data) - 1)
                                        ELSE token.data
    <3>1. part \in Seq(Char) /\ OpenString = <<Quote>> \o part
      BY <1>3 DEF Shape, Quoted, OpenString
    <3> HIDE DEF part
    <3> QED
      BY <2>1, <3>1, ConcatProperties
  <2>3. OpenString \o <<>> \in Seq(Char) /\ OpenString \o <<Quote>> \in Seq(Char)
    BY <2>1, <2>2, ConcatProperties
  <2> QED
    BY <1>3, <2>2, <2>3 DEF Held
<1>4. pc \in Loop
  BY DEF Shape, TypeOK
<1> QED
  BY <1>1, <1>2, <1>3, <1>4 DEF Shape, Loop, AtQueue

\* What Effect does to the balance of characters.
LEMMA BalanceKept ==
  ASSUME HistoryInv, HNext, Effect, Held \in Seq(Char)
  PROVE  seen' \in Seq(Char) /\ spelled' \in Seq(Char) /\ lost' \in BOOLEAN /\ Lossless'
<1>1. /\ seen \in Seq(Char) /\ spelled \in Seq(Char)
      /\ ~ lost => seen = spelled \o Held
  BY DEF HistoryInv, Lossless
<1>2. lost' \in BOOLEAN /\ (~ lost' => ~ lost)
  BY DEF HNext, HistoryInv
<1>3. CASE Kept
  BY <1>1, <1>2, <1>3 DEF Kept, Lossless
<1>4. ASSUME NEW s \in Seq(Char), NEW h \in Seq(Char), NEW ch \in Char
      PROVE  Append(s \o h, ch) = s \o Append(h, ch) /\ Append(s, ch) \in Seq(Char)
  <2> DEFINE one == <<ch>>
  <2>1. one \in Seq(Char) /\ s \o h \in Seq(Char)
    BY ConcatProperties
  <2>2. Append(s \o h, ch) = (s \o h) \o one /\ Append(h, ch) = h \o one
    BY <2>1, AppendIsConcat
  <2> HIDE DEF one
  <2>3. (s \o h) \o one = s \o (h \o one)
    BY <2>1, Associative
  <2> QED
    BY <2>2, <2>3, AppendProperties
<1>5. CASE Taken
  <2>1. /\ current' \in Char /\ Held' = Append(Held, current')
        /\ seen' = Append(seen, current') /\ spelled' = spelled
    BY <1>5 DEF Taken
  <2>2. Append(spelled \o Held, current') = spelled \o Append(Held, current')
    BY <1>1, <1>4, <2>1
  <2>3. seen' \in Seq(Char)
    BY <1>1, <1>4, <2>1
  <2> QED
    BY <1>1, <1>2, <2>1, <2>2, <2>3 DEF Lossless
<1>6. CASE Dropped
  BY <1>1, <1>2, <1>4, <1>6 DEF Dropped, Lossless
<1>7. ASSUME NEW n \in 1..Len(Held)
      PROVE  /\ SubSeq(Held, 1, n) \in Seq(Char)
             /\ SubSeq(Held, n + 1, Len(Held)) \in Seq(Char)
             /\ spelled \o SubSeq(Held, 1, n) \in Seq(Char)
             /\ (spelled \o SubSeq(Held, 1, n)) \o SubSeq(Held, n + 1, Len(Held)) = spelled \o Held
  <2> DEFINE front == SubSeq(Held, 1, n)
             back  == SubSeq(Held, n + 1, Len(Held))
  <2>1. Len(Held) \in Nat /\ n \in Nat /\ \A i \in 1..Len(Held) : Held[i] \in Char
    BY LenProperties, ElementOfSeq
  <2>2. front \in Seq(Char)
    BY <2>1, SubSeqProperties
  <2>3. back \in Seq(Char)
    <3>1. n + 1 \in Int /\ \A i \in n+1..Len(Held) : Held[i] \in Char
      BY <2>1
    <3> QED
      BY <2>1, <3>1, SubSeqProperties
  <2>4. front \o back = Held
    <3>1. 1 \in 1..Len(Held)+1 /\ n \in 0..Len(Held) /\ Len(Held) \in n..Len(Held)
      BY <2>1
    <3>2. SubSeq(Held, 1, n) \o SubSeq(Held, n + 1, Len(Held)) = SubSeq(Held, 1, Len(Held))
      BY <2>1, <3>1, ConcatAdjacentSubSeq
    <3> QED
      BY <3>2, SubSeqFull
  <2> HIDE DEF front, back
  <2>5. spelled \o front \in Seq(Char) /\ (spelled \o front) \o back = spelled \o Held
    BY <1>1, <2>2, <2>3, <2>4, Associative, ConcatProperties, ZenonT(40)
  <2> QED
    BY <2>2, <2>3, <2>5 DEF front, back
<1>8. CASE Spelt
  BY <1>1, <1>2, <1>7, <1>8 DEF Spelt, Lossless
<1>9. CASE SpeltTaken
  <2>1. PICK n \in 1..Len(Held) :
          /\ current' \in Char
          /\ spelled' = spelled \o SubSeq(Held, 1, n)
          /\ Held' = Append(SubSeq(Held, n + 1, Len(Held)), current')
          /\ seen' = Append(seen, current')
    BY <1>9 DEF SpeltTaken
  <2>2. /\ spelled' \in Seq(Char) /\ SubSeq(Held, n + 1, Len(Held)) \in Seq(Char)
        /\ spelled' \o SubSeq(Held, n + 1, Len(Held)) = spelled \o Held
    BY <1>7, <2>1
  <2> DEFINE rest == SubSeq(Held, n + 1, Len(Held))
  <2> HIDE DEF rest
  <2>3. spelled' \o Held' = Append(spelled \o Held, current')
    <3>1. rest \in Seq(Char) /\ Held' = Append(rest, current') /\ spelled' \o rest = spelled \o Held
      BY <2>1, <2>2 DEF rest
    <3>2. Append(spelled' \o rest, current') = spelled' \o Append(rest, current')
      BY <1>4, <2>1, <2>2, <3>1
    <3> QED
      BY <3>1, <3>2
  <2> QED
    BY <1>1, <1>2, <1>4, <2>1, <2>2, <2>3 DEF Lossless
<1> QED
  BY <1>3, <1>5, <1>6, <1>8, <1>9 DEF Effect

LEMMA HistoryInit == HInit => HistoryInv
<1> SUFFICES ASSUME HInit PROVE HistoryInv
  OBVIOUS
<1>1. TypeOK /\ Init /\ seen = <<>> /\ spelled = <<>> /\ lost = FALSE
  BY TypeInit DEF HInit
<1>2. source \in Sources /\ source \in Seq(Seq(Char)) \ {<<>>} /\ Len(source) \in Nat \ {0}
  BY <1>1, EmptySeq DEF TypeOK, Init
<1>3. /\ current = NUL /\ current # EOF /\ ~ PastEnd /\ buffer = <<>> /\ out = <<>>
      /\ pc = "returned" /\ ~ Finished
  BY <1>1, <1>2 DEF Init, NUL, EOF, PastEnd, Finished
<1>4. NUL \notin Symbol \cup Plain /\ Len(<<>>) = 0 /\ <<>> \in Seq(Char)
  BY IsopNUL, EmptySeq DEF Char
<1>5. Queued /\ Held = <<>>
  BY <1>3, <1>4 DEF Queued, Held, Pending
<1>6. Shape
  BY <1>1, <1>2, <1>3, <1>5, CleanAssumption DEF Shape
<1>7. Lossless
  BY <1>1, <1>4, <1>5, ConcatEmptySeq DEF Lossless
<1> QED
  BY <1>1, <1>4, <1>6, <1>7 DEF HistoryInv

LEMMA HistoryStutter ==
  ASSUME HistoryInv, UNCHANGED hvars
  PROVE  HistoryInv' /\ UNCHANGED <<Held, spelled>>
<1>1. /\ UNCHANGED <<source, stream, pos, current, buffer, token, out, pc>>
      /\ UNCHANGED <<seen, spelled, lost>>
  BY DEF hvars, vars
<1>2. Held' = Held
  BY <1>1 DEF Held, Pending, Ahead, OpenString, isop
<1>3. TypeOK' /\ (PastEnd' <=> PastEnd) /\ (Finished' <=> Finished) /\ Oldest' = Oldest
  BY <1>1 DEF HistoryInv, Shape, TypeOK, PastEnd, Finished, Oldest
<1>4. (Queued' <=> Queued) /\ (Collected' <=> Collected) /\ (Quoted' <=> Quoted)
  BY <1>1 DEF Queued, Collected, Quoted
<1>5. Shape'
  BY <1>1, <1>3, <1>4 DEF HistoryInv, Shape, isop
<1> QED
  BY <1>1, <1>2, <1>5 DEF HistoryInv, Lossless

LEMMA HistoryStep == HistoryInv /\ [HNext]_hvars => HistoryInv'
<1> SUFFICES ASSUME HistoryInv, HNext PROVE HistoryInv'
  BY HistoryStutter
<1>1. Shape' /\ Effect /\ Held \in Seq(Char)
  BY StepEffect, HeldType DEF HistoryInv
<1> QED
  BY <1>1, BalanceKept DEF HistoryInv

\* The register has, at each place of GetNextToken(), the shape that makes the
\* decision from its oldest and newest character right (Lexer.hpp:44-148).
THEOREM HistoryInvariant == HSpec => []HistoryInv
<1>1. HInit => HistoryInv
  BY HistoryInit
<1>2. HistoryInv /\ [HNext]_hvars => HistoryInv'
  BY HistoryStep
<1> QED
  BY <1>1, <1>2, PTL DEF HSpec

\* No character is lost, repeated or reordered before the register overflows.
THEOREM LosslessCorrect == HSpec => []Lossless
<1>1. HistoryInv => Lossless
  BY DEF HistoryInv
<1> QED
  BY <1>1, HistoryInvariant, PTL

\* At End the tokens spell the whole text.
THEOREM AllSpelledCorrect == HSpec => []AllSpelled
<1>1. HistoryInv => AllSpelled
  <2> SUFFICES ASSUME HistoryInv, Finished, ~ lost PROVE spelled = seen /\ PastEnd
    BY DEF AllSpelled
  <2>1. /\ pc \in {"returned", "skipSpaces", "match"} /\ current = EOF /\ buffer = <<>> /\ PastEnd
    BY DEF HistoryInv, Shape
  <2>2. Held = <<>>
    BY <2>1, HeldQueue DEF HistoryInv, AtQueue, Ahead
  <2> QED
    BY <2>1, <2>2, ConcatEmptySeq DEF HistoryInv, Lossless
<1> QED
  BY <1>1, HistoryInvariant, PTL

\* Every step of the lexer is a step of the queue of CharFifo, or none.
LEMMA FifoStep == HistoryInv /\ [HNext]_hvars => [Fifo!Next]_<<Held, spelled>>
<1> SUFFICES ASSUME HistoryInv, HNext PROVE [Fifo!Next]_<<Held, spelled>>
  BY HistoryStutter
<1>1. Effect
  BY StepEffect DEF HistoryInv
<1>2. Kept => UNCHANGED <<Held, spelled>>
  BY DEF Kept
<1>3. Taken => Fifo!Take
  BY DEF Taken, Fifo!Take
<1>4. Dropped => Fifo!Overflow
  BY DEF Dropped, Fifo!Overflow
<1>5. Spelt => Fifo!Spell
  BY DEF Spelt, Fifo!Spell
<1>6. SpeltTaken => Fifo!SpellThenTake
  BY DEF SpeltTaken, Fifo!SpellThenTake
<1> QED
  BY <1>1, <1>2, <1>3, <1>4, <1>5, <1>6 DEF Effect, Fifo!Next

\* The lexer implements a first-in first-out queue of characters that loses only
\* by overflow (Lexer.hpp:162-176, 196-215).
THEOREM FifoCorrect == HSpec => FifoSpec
<1>1. HInit => Fifo!Init
  <2> SUFFICES ASSUME HInit PROVE Held = <<>> /\ spelled = <<>>
    BY DEF Fifo!Init
  <2>1. NUL \notin Plain
    BY IsopNUL DEF Char
  <2> QED
    BY <2>1 DEF HInit, Init, Held, Pending
<1>2. HistoryInv /\ [HNext]_hvars => [Fifo!Next]_<<Held, spelled>>
  BY FifoStep
<1> QED
  BY <1>1, <1>2, HistoryInvariant, PTL DEF HSpec, FifoSpec, Fifo!Spec
=============================================================================
