------------------------------ MODULE CharFifo ------------------------------
(***************************************************************************)
(* What the lexer promises about characters, whatever it makes of them:    *)
(* they come out, spelled by the tokens, in the order in which they came   *)
(* in and each exactly once, from a queue of which it may lose only the    *)
(* oldest character and only when the fixed register is full.              *)
(***************************************************************************)
EXTENDS Naturals, Sequences

CONSTANTS
  Element,   \* the characters
  Bound      \* length from which a character may be lost

VARIABLES
  queue,     \* taken and not yet spelled
  spelled    \* the spelling of the tokens given out

Init == queue = <<>> /\ spelled = <<>>

Take ==
  /\ \E ch \in Element : queue' = Append(queue, ch)
  /\ UNCHANGED spelled

\* A token spells the n oldest characters.
Spell ==
  \E n \in 1..Len(queue) :
    /\ spelled' = spelled \o SubSeq(queue, 1, n)
    /\ queue' = SubSeq(queue, n + 1, Len(queue))

\* A closing quote is taken and its string spelled in one step of the lexer,
\* which reads one character further in the same step.
SpellThenTake ==
  \E n \in 1..Len(queue), ch \in Element :
    /\ spelled' = spelled \o SubSeq(queue, 1, n)
    /\ queue' = Append(SubSeq(queue, n + 1, Len(queue)), ch)

Overflow ==
  /\ Len(queue) >= Bound
  /\ \E ch \in Element : queue' = Append(Tail(queue), ch)
  /\ UNCHANGED spelled

Next == Take \/ Spell \/ SpellThenTake \/ Overflow

Spec == Init /\ [][Next]_<<queue, spelled>>
=============================================================================
