---------------------------- MODULE OperatorTable ----------------------------
(***************************************************************************)
(* The table of operators, its enumeration, and what Operator says of each *)
(* enumerator (src/src/Operators.hpp).  TryParse() casts the index of an   *)
(* entry to the enumeration, so that the two lists must agree line by line.*)
(***************************************************************************)
EXTENDS TableLookup, Integers

\* The entries of Constant::operators.
Spellings == <<
  <<"+">>, <<"-">>, <<"*">>, <<"/">>, <<"%">>, <<"+", "+">>, <<"-", "-">>,
  <<"<", "<">>, <<">", ">">>, <<"&">>, <<"|">>, <<"~">>, <<"^">>,
  <<"&", "&">>, <<"|", "|">>, <<"!">>,
  <<">">>, <<"<">>, <<"=", "=">>, <<">", "=">>, <<"<", "=">>, <<"!", "=">>,
  <<"=">>, <<"+", "=">>, <<"-", "=">>, <<"*", "=">>, <<"/", "=">>, <<"%", "=">>,
  <<"<", "<", "=">>, <<">", ">", "=">>, <<"&", "=">>, <<"|", "=">>, <<"~", "=">>, <<"^", "=">>,
  <<"(">>, <<")">>, <<"[">>, <<"]">>, <<".">>, <<"?">> >>

\* Operator::Enum, from Add = 0.
OperatorEnum == <<
  "Add", "Sub", "Mul", "Div", "Mod", "Incr", "Decr",
  "BitMoveL", "BitMoveR", "BitAnd", "BitOr", "BitNot", "BitXor", "And", "Or", "Not",
  "Greater", "Less", "Equal", "GreaterEqual", "LessEqual", "NotEqual",
  "Assign", "AssignAdd", "AssignSub", "AssignMul", "AssignDiv", "AssignMod",
  "AssignBitMoveL", "AssignBitMoveR", "AssignBitAnd", "AssignBitOr", "AssignBitNot",
  "AssignBitXor", "BracketOpen", "BracketClose", "SqBracketOpen", "SqBracketClose",
  "Dot", "Ternar" >>

\* Slip: no value given to Unknown, which is then 0.
EnumAtShifted(n) == IF n <= 1 THEN "Unknown" ELSE OperatorEnum[n - 1]

\* What is made of the entry found, n = 0 for none: ty = (Enum)i.
EnumAt(n) == IF n = 0 THEN "Unknown" ELSE OperatorEnum[n]

\* hasBinaryForm()
BinaryForm == {
  "Add", "Sub", "Mul", "Div", "Mod", "BitMoveL", "BitMoveR", "BitAnd", "BitOr", "BitXor",
  "And", "Or", "Assign", "AssignAdd", "AssignSub", "AssignMul", "AssignDiv", "AssignMod",
  "AssignBitMoveL", "AssignBitMoveR", "AssignBitAnd", "AssignBitOr", "AssignBitNot",
  "AssignBitXor", "Dot" }

\* The cases of GetPriority(), the loosest first.
Levels == <<
  { "Assign", "AssignAdd", "AssignSub", "AssignMul", "AssignMod", "AssignBitMoveL",
    "AssignBitMoveR", "AssignBitAnd", "AssignBitOr", "AssignBitNot", "AssignBitXor" },
  { "Ternar" }, { "Or" }, { "And" }, { "BitOr" }, { "BitXor" }, { "BitAnd" },
  { "Equal", "NotEqual" }, { "Greater", "GreaterEqual", "Less", "LessEqual" },
  { "BitMoveL", "BitMoveR" }, { "Add", "Sub" }, { "Mul", "Div", "Mod" },
  { "Incr", "Decr", "Not", "BitNot" }, { "Dot" },
  { "SqBracketOpen", "SqBracketClose" }, { "BracketOpen", "BracketClose" } >>

\* The levels whose cases have an enumerator: one or none.
LevelsOf(e) == { p \in 1..Len(Levels) : e \in Levels[p] }

\* Slip: the tightest level the least.
GetPriorityReversed(n) ==
  LET levels == LevelsOf(OperatorEnum[n])
  IN IF levels = {} THEN -(n - 1) ELSE Len(Levels) + 1 - CHOOSE p \in levels : TRUE

\* GetPriority() of the enumerator at an entry; by default minus its value.
GetPriority(n) ==
  LET levels == LevelsOf(OperatorEnum[n])
  IN IF levels = {} THEN -(n - 1) ELSE CHOOSE p \in levels : TRUE
-----------------------------------------------------------------------------
(* Properties *)

Found == kind = "operator" /\ pc = "returned" /\ ty > 0

\* How the operator that an enumerator is named for is written, in the order of
\* neither list.
WrittenAs == [
  Assign |-> <<"=">>, Not |-> <<"!">>, Ternar |-> <<"?">>, Dot |-> <<".">>,
  Equal |-> <<"=", "=">>, NotEqual |-> <<"!", "=">>,
  Less |-> <<"<">>, LessEqual |-> <<"<", "=">>,
  Greater |-> <<">">>, GreaterEqual |-> <<">", "=">>,
  Add |-> <<"+">>, Incr |-> <<"+", "+">>, AssignAdd |-> <<"+", "=">>,
  Sub |-> <<"-">>, Decr |-> <<"-", "-">>, AssignSub |-> <<"-", "=">>,
  Mul |-> <<"*">>, AssignMul |-> <<"*", "=">>,
  Div |-> <<"/">>, AssignDiv |-> <<"/", "=">>,
  Mod |-> <<"%">>, AssignMod |-> <<"%", "=">>,
  BitAnd |-> <<"&">>, And |-> <<"&", "&">>, AssignBitAnd |-> <<"&", "=">>,
  BitOr |-> <<"|">>, Or |-> <<"|", "|">>, AssignBitOr |-> <<"|", "=">>,
  BitNot |-> <<"~">>, AssignBitNot |-> <<"~", "=">>,
  BitXor |-> <<"^">>, AssignBitXor |-> <<"^", "=">>,
  BitMoveL |-> <<"<", "<">>, AssignBitMoveL |-> <<"<", "<", "=">>,
  BitMoveR |-> <<">", ">">>, AssignBitMoveR |-> <<">", ">", "=">>,
  BracketOpen |-> <<"(">>, BracketClose |-> <<")">>,
  SqBracketOpen |-> <<"[">>, SqBracketClose |-> <<"]">> ]

\* s begins with the operator that e is named for, and with no longer one.
BeginsWith(s, e) ==
  /\ StartsWith(s, WrittenAs[e])
  /\ \A d \in DOMAIN WrittenAs :
       StartsWith(s, WrittenAs[d]) => Len(WrittenAs[d]) <= Len(WrittenAs[e])

\* The loop over one list and the cast of its index into the other end in the
\* right operator: TryParse() makes an enumerator of exactly those strings that
\* begin with the operator it is named for and with no longer one
\* (Operators.hpp:298-312, the entries 4-60, the enumerators 65-123).
OwnSpelling ==
  kind = "operator" /\ pc = "returned" =>
    \A e \in DOMAIN WrittenAs : EnumAt(ty) = e <=> BeginsWith(str, e)

\* Every operator with a binary form binds at least as tightly as the 0 that
\* ParseExpression() starts from, and Dot tighter than any other; the one without
\* a case, /=, gets the default, with which no expression takes it
\* (Operators.hpp:171-248, Parser.hpp:122, 174).
BinaryBinds ==
  Found /\ OperatorEnum[ty] \in BinaryForm =>
    /\ GetPriority(ty) < 0 <=> OperatorEnum[ty] = "AssignDiv"
    /\ \A n \in 1..Len(OperatorEnum) :
         OperatorEnum[ty] = "Dot" /\ OperatorEnum[n] \in BinaryForm => GetPriority(n) <= GetPriority(ty)
=============================================================================
