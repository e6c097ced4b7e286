-------------------------- MODULE TableLookupProofs --------------------------
(***************************************************************************)
(* The lookup finds the longest entry in any table and for any string; and *)
(* what follows for the tables of the keywords and of the operators.       *)
(***************************************************************************)
EXTENDS OperatorTable, KeywordTable, SequenceTheorems, TLAPS

LEMMA LookupInit == Init => LookupInv
BY TableAssumption, EmptySeq, LenProperties DEF Init, LookupInv, TypeOK

\* A turn of the loop takes one more entry into account.
LEMMA CompareStep ==
  ASSUME LookupInv, Compare
  PROVE  LookupInv'
<1> DEFINE w == Table[kind][i]
<1>0. kind \in Kind /\ Table[kind] \in Seq(Seq(Symbol)) /\ Len(Table[kind]) \in Nat
  BY TableAssumption, LenProperties DEF LookupInv, TypeOK
<1>1. /\ TypeOK /\ pc = "loop" /\ pc' = "loop" /\ str' = str /\ kind' = kind /\ i' = i + 1
      /\ Len(Table[kind]) \in Nat /\ i \in 1..Len(Table[kind])
      /\ Longest(kind, str, ty, len, i - 1)
  BY <1>0 DEF LookupInv, Compare, TypeOK
<1>2. /\ \A j \in 1..Len(Table[kind]) : Len(Table[kind][j]) \in Nat \ {0}
      /\ i - 1 \in Nat /\ len \in Nat
  <2>1. \A j \in 1..Len(Table[kind]) : Table[kind][j] \in Seq(Symbol)
    BY <1>0, ElementOfSeq
  <2> QED
    BY <1>0, <1>1, <2>1, TableAssumption, LenProperties, EmptySeq DEF TypeOK
<1>3. \A j \in 1..i : j = i \/ j \in 1..i - 1
  BY <1>1
<1>4. CASE len < Len(w) /\ Accepts(kind, str, w)
  <2>1. len' = Len(w) /\ ty' = i
    BY <1>4 DEF Compare
  <2>2. \A j \in 1..i - 1 : Accepts(kind, str, Table[kind][j]) => Len(Table[kind][j]) <= len
    BY <1>1 DEF Longest
  <2>3. \A j \in 1..i : Accepts(kind, str, Table[kind][j]) => Len(Table[kind][j]) <= Len(w)
    <3> SUFFICES ASSUME NEW j \in 1..i, Accepts(kind, str, Table[kind][j])
                 PROVE  Len(Table[kind][j]) <= Len(w)
      OBVIOUS
    <3>1. CASE j = i
      BY <1>1, <1>2, <3>1
    <3>2. CASE j \in 1..i - 1
      <4>1. Len(Table[kind][j]) <= len /\ Len(Table[kind][j]) \in Nat /\ Len(w) \in Nat
        BY <1>1, <1>2, <2>2, <3>2
      <4> QED
        BY <1>2, <1>4, <4>1
    <3> QED
      BY <1>3, <3>1, <3>2
  <2>4. Longest(kind, str, i, Len(w), i)
    BY <1>1, <1>4, <2>3 DEF Longest
  <2> HIDE DEF w
  <2> QED
    BY <1>1, <1>2, <2>1, <2>4 DEF LookupInv, TypeOK, w
<1>5. CASE ~ (len < Len(w) /\ Accepts(kind, str, w))
  <2>1. len' = len /\ ty' = ty
    BY <1>5 DEF Compare
  <2>2. Accepts(kind, str, w) => Len(w) <= len /\ ty # 0
    BY <1>1, <1>2, <1>5 DEF Longest
  <2>3. Longest(kind, str, ty, len, i)
    BY <1>1, <1>3, <2>2 DEF Longest
  <2> QED
    BY <1>1, <1>2, <2>1, <2>3 DEF LookupInv, TypeOK
<1> QED
  BY <1>4, <1>5

LEMMA OtherSteps ==
  ASSUME LookupInv, TryParse \/ Return \/ UNCHANGED vars
  PROVE  LookupInv'
<1>1. Len(Table[kind]) \in Nat /\ TypeOK
  BY TableAssumption, LenProperties DEF LookupInv
<1>2. CASE TryParse
  BY <1>1, <1>2, TableAssumption DEF TryParse, LookupInv, TypeOK, Longest
<1>3. CASE Return
  BY <1>1, <1>3 DEF Return, LookupInv, TypeOK
<1>4. CASE UNCHANGED vars
  BY <1>4 DEF vars, LookupInv, TypeOK
<1> QED
  BY <1>2, <1>3, <1>4

\* After every turn the entry kept is the longest of those seen
\* (Operators.hpp:303-309, Keyword.hpp:146-153).
THEOREM LookupInvariant == Spec => []LookupInv
<1>1. LookupInv /\ [Next]_vars => LookupInv'
  BY CompareStep, OtherSteps DEF Next
<1> QED
  BY LookupInit, <1>1, PTL DEF Spec

\* The lookup returns the longest entry that the string begins with, for every
\* table without empty entries and every string, strict or not (Operators.hpp:298-312,
\* Keyword.hpp:142-156).
THEOREM LongestMatchCorrect == Spec => []LongestMatch
<1>1. LookupInv => LongestMatch
  BY TableAssumption, LenProperties DEF LookupInv, LongestMatch
<1> QED
  BY <1>1, LookupInvariant, PTL
-----------------------------------------------------------------------------
(* The two tables of the source *)

\* Compared strictly, an entry that the string begins with is the string.
LEMMA StrictMatch ==
  ASSUME NEW k \in Strict, NEW s \in Seq(Symbol), NEW w \in Seq(Symbol)
  PROVE  Accepts(k, s, w) <=> s = w
<1>1. SubSeq(s, 1, Len(s)) = s /\ SubSeq(w, 1, Len(w)) = w
  BY SubSeqFull
<1>2. ASSUME Accepts(k, s, w)
      PROVE  s = w
  <2>1. Len(s) = Len(w) /\ SubSeq(s, 1, Len(w)) = w
    BY <1>2 DEF Accepts, StartsWith
  <2> QED
    BY <1>1, <2>1
<1>3. ASSUME s = w
      PROVE  Accepts(k, s, w)
  <2>1. Len(s) = Len(w) /\ Len(w) <= Len(s)
    BY <1>3, LenProperties
  <2>2. SubSeq(s, 1, Len(w)) = w
    BY <1>1, <1>3
  <2> QED
    BY <2>1, <2>2 DEF Accepts, StartsWith
<1> QED
  BY <1>2, <1>3

\* A word is a keyword when it is one whole, for every string: no word is cut where
\* a keyword ends in it (Keyword.hpp:142-156).
THEOREM ExactWordCorrect ==
  ASSUME "keyword" \in Strict, Table["keyword"] = Words
  PROVE  Spec => []ExactWord
<1>1. ASSUME LookupInv
      PROVE  ExactWord
  <2> SUFFICES ASSUME kind = "keyword", pc = "returned"
               PROVE  IF ty = 0 THEN \A n \in 1..Len(Words) : Words[n] # str
                      ELSE Words[ty] = str
    BY DEF ExactWord
  <2>1. str \in Seq(Symbol) /\ Words \in Seq(Seq(Symbol)) /\ "keyword" \in Kind
    BY <1>1, TableAssumption DEF LookupInv, TypeOK
  <2>2. \A n \in 1..Len(Words) : Words[n] \in Seq(Symbol)
    BY <2>1, ElementOfSeq
  <2>3. \A n \in 1..Len(Words) : Accepts("keyword", str, Words[n]) <=> str = Words[n]
    BY <2>1, <2>2, StrictMatch
  <2>4. i - 1 = Len(Words)
    <3>1. Len(Words) \in Nat /\ i = Len(Words) + 1
      BY <1>1, <2>1, LenProperties DEF LookupInv
    <3> QED
      BY <3>1
  <2>5. Longest("keyword", str, ty, len, Len(Words))
    BY <1>1, <2>4 DEF LookupInv
  <2> QED
    BY <2>3, <2>5 DEF Longest
<1> QED
  BY <1>1, LookupInvariant, PTL

\* Where each enumerator stands, and its spelling with it.
Place == [
  Add |-> 1, Sub |-> 2, Mul |-> 3, Div |-> 4, Mod |-> 5, Incr |-> 6, Decr |-> 7,
  BitMoveL |-> 8, BitMoveR |-> 9, BitAnd |-> 10, BitOr |-> 11, BitNot |-> 12, BitXor |-> 13,
  And |-> 14, Or |-> 15, Not |-> 16, Greater |-> 17, Less |-> 18, Equal |-> 19,
  GreaterEqual |-> 20, LessEqual |-> 21, NotEqual |-> 22, Assign |-> 23, AssignAdd |-> 24,
  AssignSub |-> 25, AssignMul |-> 26, AssignDiv |-> 27, AssignMod |-> 28,
  AssignBitMoveL |-> 29, AssignBitMoveR |-> 30, AssignBitAnd |-> 31, AssignBitOr |-> 32,
  AssignBitNot |-> 33, AssignBitXor |-> 34, BracketOpen |-> 35, BracketClose |-> 36,
  SqBracketOpen |-> 37, SqBracketClose |-> 38, Dot |-> 39, Ternar |-> 40 ]

\* The two lists name the same operators at the same places, and none twice.
LEMMA PlaceIs ==
  /\ Len(Spellings) = 40
  /\ \A e \in DOMAIN WrittenAs : /\ Place[e] \in 1..40
                                 /\ OperatorEnum[Place[e]] = e
                                 /\ Spellings[Place[e]] = WrittenAs[e]
  /\ \A n \in 1..40 : OperatorEnum[n] \in DOMAIN WrittenAs /\ Place[OperatorEnum[n]] = n
  /\ "Unknown" \notin DOMAIN WrittenAs
<1>1. Len(Spellings) = 40
  BY DEF Spellings
<1>2. ASSUME NEW e \in DOMAIN WrittenAs
      PROVE  Place[e] \in 1..40 /\ OperatorEnum[Place[e]] = e
  BY <1>2 DEF WrittenAs, Place, OperatorEnum
<1>3. ASSUME NEW e \in DOMAIN WrittenAs
      PROVE  Spellings[Place[e]] = WrittenAs[e]
  <2> DEFINE W == WrittenAs
  <2>1. Spellings = <<
      W.Add, W.Sub, W.Mul, W.Div, W.Mod, W.Incr, W.Decr, W.BitMoveL, W.BitMoveR, W.BitAnd,
      W.BitOr, W.BitNot, W.BitXor, W.And, W.Or, W.Not, W.Greater, W.Less, W.Equal,
      W.GreaterEqual, W.LessEqual, W.NotEqual, W.Assign, W.AssignAdd, W.AssignSub,
      W.AssignMul, W.AssignDiv, W.AssignMod, W.AssignBitMoveL, W.AssignBitMoveR,
      W.AssignBitAnd, W.AssignBitOr, W.AssignBitNot, W.AssignBitXor, W.BracketOpen,
      W.BracketClose, W.SqBracketOpen, W.SqBracketClose, W.Dot, W.Ternar >>
    BY DEF Spellings, WrittenAs
  <2> HIDE DEF W
  <2>2. \A n \in 1..40 : Spellings[n] = W[OperatorEnum[n]]
    BY <2>1 DEF OperatorEnum
  <2> QED
    BY <1>2, <1>3, <2>2 DEF W
<1>4. ASSUME NEW n \in 1..40
      PROVE  OperatorEnum[n] \in DOMAIN WrittenAs /\ Place[OperatorEnum[n]] = n
  BY <1>4 DEF WrittenAs, Place, OperatorEnum
<1>5. "Unknown" \notin DOMAIN WrittenAs
  BY DEF WrittenAs
<1> QED
  BY <1>1, <1>2, <1>3, <1>4, <1>5

\* Two operators are not written alike.
LEMMA WrittenApart ==
  ASSUME NEW d \in DOMAIN WrittenAs, NEW e \in DOMAIN WrittenAs, WrittenAs[d] = WrittenAs[e]
  PROVE  d = e
<1> DEFINE One == { "Assign", "Not", "Ternar", "Dot", "Less", "Greater", "Add", "Sub", "Mul", "Div",
                    "Mod", "BitAnd", "BitOr", "BitNot", "BitXor", "BracketOpen", "BracketClose",
                    "SqBracketOpen", "SqBracketClose" }
           Three == { "AssignBitMoveL", "AssignBitMoveR" }
           Two == DOMAIN WrittenAs \ (One \cup Three)
<1>1. /\ \A c \in One : Len(WrittenAs[c]) = 1
      /\ \A c \in Two : Len(WrittenAs[c]) = 2
      /\ \A c \in Three : Len(WrittenAs[c]) = 3
  BY DEF WrittenAs
<1>2. CASE d \in One
  <2>1. e \in One /\ WrittenAs[d][1] = WrittenAs[e][1]
    BY <1>1, <1>2
  <2> QED
    BY <1>2, <2>1 DEF WrittenAs
<1>3. CASE d \in Two
  <2>1. e \in Two /\ WrittenAs[d][1] = WrittenAs[e][1] /\ WrittenAs[d][2] = WrittenAs[e][2]
    BY <1>1, <1>3
  <2> QED
    BY <1>3, <2>1 DEF WrittenAs
<1>4. CASE d \in Three
  <2>1. e \in Three /\ WrittenAs[d][1] = WrittenAs[e][1]
    BY <1>1, <1>4
  <2> QED
    BY <1>4, <2>1 DEF WrittenAs
<1> QED
  BY <1>2, <1>3, <1>4

\* TryParse() makes an enumerator of exactly those strings that begin with the
\* operator it is named for and with no longer one, for every set of strings looked
\* up (Operators.hpp:298-312, 4-60, 65-123).
THEOREM OwnSpellingCorrect ==
  ASSUME "operator" \notin Strict, Table["operator"] = Spellings
  PROVE  Spec => []OwnSpelling
<1>1. ASSUME LookupInv
      PROVE  OwnSpelling
  <2> SUFFICES ASSUME kind = "operator", pc = "returned", NEW e \in DOMAIN WrittenAs
               PROVE  EnumAt(ty) = e <=> BeginsWith(str, e)
    BY DEF OwnSpelling, BeginsWith
  <2>1. Longest("operator", str, ty, len, 40)
    <3>1. Longest(kind, str, ty, len, i - 1) /\ i = Len(Table[kind]) + 1
      BY <1>1 DEF LookupInv
    <3>2. Table[kind] = Spellings /\ i - 1 = 40
      BY <3>1, PlaceIs
    <3> QED
      BY <3>1, <3>2
  <2>2. /\ str \in Seq(Symbol)
        /\ \A d \in DOMAIN WrittenAs : WrittenAs[d] \in Seq(Symbol) /\ Len(WrittenAs[d]) \in Nat
    <3>1. str \in Seq(Symbol) /\ Spellings \in Seq(Seq(Symbol))
      BY <1>1, TableAssumption DEF LookupInv, TypeOK
    <3>2. \A n \in 1..40 : Spellings[n] \in Seq(Symbol)
      BY <3>1, PlaceIs, ElementOfSeq
    <3> QED
      BY <3>1, <3>2, PlaceIs, LenProperties
  <2>3. \A d \in DOMAIN WrittenAs :
          Accepts("operator", str, Spellings[Place[d]]) <=> StartsWith(str, WrittenAs[d])
    BY PlaceIs DEF Accepts
  <2>4. ASSUME EnumAt(ty) = e
        PROVE  BeginsWith(str, e)
    <3>1. ty # 0 /\ OperatorEnum[ty] = e
      BY <2>4, PlaceIs DEF EnumAt
    <3>2. /\ ty \in 1..40 /\ len = Len(Spellings[ty])
          /\ Accepts("operator", str, Spellings[ty])
          /\ \A j \in 1..40 : Accepts("operator", str, Spellings[j]) => Len(Spellings[j]) <= len
      BY <2>1, <3>1 DEF Longest
    <3>3. Spellings[ty] = WrittenAs[e] /\ Place[e] = ty
      BY <3>1, <3>2, PlaceIs
    <3>4. ASSUME NEW d \in DOMAIN WrittenAs, StartsWith(str, WrittenAs[d])
          PROVE  Len(WrittenAs[d]) <= Len(WrittenAs[e])
      <4>1. Place[d] \in 1..40 /\ Spellings[Place[d]] = WrittenAs[d]
        BY PlaceIs
      <4> QED
        BY <2>3, <3>2, <3>3, <3>4, <4>1
    <3>5. StartsWith(str, WrittenAs[e])
      BY <2>3, <3>2, <3>3
    <3> QED
      BY <3>4, <3>5 DEF BeginsWith
  <2>5. ASSUME BeginsWith(str, e)
        PROVE  EnumAt(ty) = e
    <3>1. Accepts("operator", str, Spellings[Place[e]]) /\ Place[e] \in 1..40
      BY <2>3, <2>5, PlaceIs DEF BeginsWith
    <3>2. /\ ty # 0 /\ ty \in 1..40 /\ len = Len(Spellings[ty])
          /\ Accepts("operator", str, Spellings[ty])
          /\ Len(Spellings[Place[e]]) <= len
      BY <2>1, <3>1 DEF Longest
    <3> DEFINE d == OperatorEnum[ty]
    <3>3. d \in DOMAIN WrittenAs /\ Place[d] = ty /\ WrittenAs[d] = Spellings[ty]
      BY <3>2, PlaceIs
    <3> HIDE DEF d
    <3>4. StartsWith(str, WrittenAs[d]) /\ StartsWith(str, WrittenAs[e])
      BY <2>3, <2>5, <3>2, <3>3 DEF BeginsWith
    <3>5. Len(WrittenAs[d]) = Len(WrittenAs[e])
      <4>1. Len(WrittenAs[d]) <= Len(WrittenAs[e])
        BY <2>5, <3>3, <3>4 DEF BeginsWith
      <4>2. Len(WrittenAs[e]) <= Len(WrittenAs[d])
        BY <3>2, <3>3, PlaceIs
      <4> QED
        BY <2>2, <3>3, <4>1, <4>2
    <3>6. WrittenAs[d] = WrittenAs[e]
      BY <3>4, <3>5 DEF StartsWith
    <3>7. d = e
      BY <3>3, <3>6, WrittenApart
    <3> QED
      BY <3>2, <3>7 DEF EnumAt, d
  <2> QED
    BY <2>4, <2>5
<1> QED
  BY <1>1, LookupInvariant, PTL

\* The levels of the operators with a binary form.
LEMMA BinaryLevels ==
  /\ Len(Levels) = 16
  /\ \A e \in BinaryForm \ {"AssignDiv"} : LevelsOf(e) # {}
  /\ LevelsOf("AssignDiv") = {}
  /\ LevelsOf("Dot") = {14}
  /\ \A e \in BinaryForm : \A p \in LevelsOf(e) : p \in 1..14
<1>1. Len(Levels) = 16
  BY DEF Levels
<1>2. ASSUME NEW e \in BinaryForm \ {"AssignDiv"}
      PROVE  \E p \in 1..16 : e \in Levels[p]
  <2>1. \/ e \in { "Assign", "AssignAdd", "AssignSub", "AssignMul", "AssignMod", "AssignBitMoveL",
                   "AssignBitMoveR", "AssignBitAnd", "AssignBitOr", "AssignBitNot", "AssignBitXor" }
        \/ e \in { "Or", "And", "BitOr", "BitXor", "BitAnd" }
        \/ e \in { "BitMoveL", "BitMoveR", "Add", "Sub", "Mul", "Div", "Mod", "Dot" }
    BY <1>2 DEF BinaryForm
  <2> QED
    BY <2>1 DEF Levels
<1>3. \A p \in 1..16 : "AssignDiv" \notin Levels[p]
  BY DEF Levels
<1>4. \A p \in 1..16 : "Dot" \in Levels[p] <=> p = 14
  BY DEF Levels
<1>5. \A e \in BinaryForm : e \notin Levels[15] /\ e \notin Levels[16]
  BY DEF Levels, BinaryForm
<1> QED
  BY <1>1, <1>2, <1>3, <1>4, <1>5 DEF LevelsOf

\* Every operator with a binary form but /= is taken by ParseExpression(), and Dot
\* binds tightest, whatever has been looked up (Operators.hpp:171-248).
THEOREM BinaryBindsCorrect == Spec => []BinaryBinds
<1>1. ASSUME NEW n, OperatorEnum[n] \in BinaryForm, OperatorEnum[n] # "AssignDiv"
      PROVE  GetPriority(n) \in 1..14
  <2>1. LevelsOf(OperatorEnum[n]) # {}
    BY <1>1, BinaryLevels
  <2>2. GetPriority(n) = CHOOSE p \in LevelsOf(OperatorEnum[n]) : TRUE
    BY <2>1 DEF GetPriority
  <2>3. GetPriority(n) \in LevelsOf(OperatorEnum[n])
    BY <2>1, <2>2
  <2> QED
    BY <1>1, <2>3, BinaryLevels
<1>2. ASSUME NEW n \in Nat, n > 0, OperatorEnum[n] = "AssignDiv"
      PROVE  GetPriority(n) < 0
  <2>1. OperatorEnum[1] = "Add"
    BY DEF OperatorEnum
  <2>2. n # 1
    BY <1>2, <2>1
  <2>3. GetPriority(n) = -(n - 1)
    BY <1>2, BinaryLevels DEF GetPriority
  <2> QED
    BY <1>2, <2>2, <2>3
<1>3. ASSUME NEW n, OperatorEnum[n] = "Dot"
      PROVE  GetPriority(n) = 14
  <2>1. LevelsOf(OperatorEnum[n]) = {14}
    BY <1>3, BinaryLevels
  <2> QED
    BY <2>1 DEF GetPriority
<1>4. ASSUME LookupInv
      PROVE  BinaryBinds
  <2> SUFFICES ASSUME ty > 0, OperatorEnum[ty] \in BinaryForm
               PROVE  /\ GetPriority(ty) < 0 <=> OperatorEnum[ty] = "AssignDiv"
                      /\ \A n \in 1..Len(OperatorEnum) :
                           OperatorEnum[ty] = "Dot" /\ OperatorEnum[n] \in BinaryForm =>
                             GetPriority(n) <= GetPriority(ty)
    BY DEF BinaryBinds, Found
  <2>1. ty \in Nat
    <3>1. ty \in 0..Len(Table[kind]) /\ Len(Table[kind]) \in Nat
      BY <1>4, TableAssumption, LenProperties DEF LookupInv, TypeOK
    <3> QED
      BY <3>1
  <2>2. GetPriority(ty) < 0 <=> OperatorEnum[ty] = "AssignDiv"
    BY <1>1, <1>2, <2>1
  <2>3. ASSUME NEW n \in 1..Len(OperatorEnum),
               OperatorEnum[ty] = "Dot", OperatorEnum[n] \in BinaryForm
        PROVE  GetPriority(n) <= GetPriority(ty)
    <3>1. GetPriority(ty) = 14
      BY <1>3, <2>3
    <3>2. n \in Nat /\ n > 0
      BY DEF OperatorEnum
    <3>3. CASE OperatorEnum[n] = "AssignDiv"
      <4>1. GetPriority(n) = -(n - 1)
        BY <3>3, BinaryLevels DEF GetPriority
      <4> QED
        BY <3>1, <3>2, <4>1
    <3>4. CASE OperatorEnum[n] # "AssignDiv"
      BY <1>1, <2>3, <3>1, <3>4
    <3> QED
      BY <3>3, <3>4
  <2> QED
    BY <2>2, <2>3
<1> QED
  BY <1>4, LookupInvariant, PTL

\* Where the enumerators that the declaration parser distinguishes stand.
Standing == [
  Static |-> 22, Const |-> 21, Ref |-> 24, Public |-> 8, Private |-> 9, Protected |-> 10,
  Volatile |-> 23, Class |-> 5, Namespace |-> 4, Entrypoint |-> 3, Import |-> 2,
  Get |-> 18, Set |-> 19 ]

\* KeywordEnum, put together.
Enumerators == <<
  "Native", "Import", "Entrypoint", "Namespace", "Class", "Self", "Super", "Public",
  "Private", "Protected", "Friend", "Interface", "Var", "Constructor", "Destructor",
  "As", "Is", "Get", "Set", "Null", "Const", "Static", "Volatile", "Ref", "Sizeof",
  "Addrof", "Typeof", "Unroll", "NativePointer" >>

LEMMA KeywordEnumIs ==
  Len(KeywordEnum) = 29 /\ \A n \in 1..29 : KeywordEnum[n] = Enumerators[n]
<1> DEFINE middle == <<"Var", "Constructor", "Destructor">>
           Name == { Enumerators[n] : n \in 1..29 }
<1>1. /\ FirstEnum \in Seq(Name) /\ RestEnum \in Seq(Name) /\ middle \in Seq(Name)
      /\ Len(FirstEnum) = 12 /\ Len(RestEnum) = 14 /\ Len(middle) = 3
  <2>1. \A n \in 1..29 : Enumerators[n] \in Name
    OBVIOUS
  <2> HIDE DEF Name
  <2>2. FirstEnum \in Seq(Name) /\ Len(FirstEnum) = 12
    BY <2>1 DEF FirstEnum, Enumerators
  <2>3. RestEnum \in Seq(Name) /\ Len(RestEnum) = 14
    BY <2>1 DEF RestEnum, Enumerators
  <2>4. middle \in Seq(Name) /\ Len(middle) = 3
    BY <2>1 DEF Enumerators
  <2> QED
    BY <2>2, <2>3, <2>4
<1>2. /\ \A n \in 1..12 : FirstEnum[n] = Enumerators[n]
      /\ \A n \in 1..3 : middle[n] = Enumerators[12 + n]
      /\ \A n \in 1..14 : RestEnum[n] = Enumerators[15 + n]
  BY DEF FirstEnum, RestEnum, Enumerators
<1> HIDE DEF middle, Name
<1> DEFINE front == FirstEnum \o middle
<1>3. /\ front \in Seq(Name) /\ Len(front) = 12 + 3
      /\ \A n \in 1..12 + 3 : front[n] = IF n <= 12 THEN FirstEnum[n] ELSE middle[n - 12]
  <2>1. /\ front \in Seq(Name) /\ Len(front) = Len(FirstEnum) + Len(middle)
        /\ \A n \in 1..Len(FirstEnum) + Len(middle) :
             front[n] = IF n <= Len(FirstEnum) THEN FirstEnum[n] ELSE middle[n - Len(FirstEnum)]
    BY <1>1, ConcatProperties
  <2> QED
    BY <1>1, <2>1
<1>4. KeywordEnum = front \o RestEnum
  BY DEF KeywordEnum, middle
<1> HIDE DEF front
<1>5. /\ Len(KeywordEnum) = 15 + 14
      /\ \A n \in 1..15 + 14 : KeywordEnum[n] = IF n <= 15 THEN front[n] ELSE RestEnum[n - 15]
  <2>1. Len(front) = 15
    BY <1>3
  <2>2. /\ Len(KeywordEnum) = Len(front) + Len(RestEnum)
        /\ \A n \in 1..Len(front) + Len(RestEnum) :
             KeywordEnum[n] = IF n <= Len(front) THEN front[n] ELSE RestEnum[n - Len(front)]
    BY <1>1, <1>3, <1>4, ConcatProperties
  <2> QED
    BY <1>1, <2>1, <2>2
<1>6. ASSUME NEW n \in 1..29
      PROVE  KeywordEnum[n] = Enumerators[n]
  <2>1. CASE n <= 12
    <3>1. KeywordEnum[n] = front[n] /\ n \in 1..12 + 3 /\ n \in 1..12
      BY <1>5, <2>1
    <3>2. front[n] = FirstEnum[n]
      BY <1>3, <2>1, <3>1
    <3>3. FirstEnum[n] = Enumerators[n]
      BY <1>2, <3>1
    <3> QED
      BY <3>1, <3>2, <3>3
  <2>2. CASE n > 12 /\ n <= 15
    <3>1. n - 12 \in 1..3 /\ 12 + (n - 12) = n /\ n \in 1..12 + 3 /\ ~ (n <= 12)
      BY <2>2
    <3>2. KeywordEnum[n] = front[n]
      BY <1>5, <2>2
    <3>3. front[n] = middle[n - 12]
      BY <1>3, <3>1
    <3>4. middle[n - 12] = Enumerators[12 + (n - 12)]
      BY <1>2, <3>1
    <3> QED
      BY <3>1, <3>2, <3>3, <3>4
  <2>3. CASE n > 15
    <3>1. n - 15 \in 1..14 /\ 15 + (n - 15) = n
      BY <2>3
    <3> QED
      BY <1>2, <1>5, <2>3, <3>1
  <2> QED
    BY <2>1, <2>2, <2>3
<1> QED
  BY <1>5, <1>6

LEMMA SpelledStanding ==
  /\ DOMAIN Spelled = DOMAIN Standing
  /\ \A e \in DOMAIN Spelled : /\ Standing[e] \in 1..29
                               /\ Enumerators[Standing[e]] = e
                               /\ Words[Standing[e]] = <<Spelled[e]>>
  /\ \A e \in DOMAIN Spelled : \A n \in 1..29 : Enumerators[n] = e => n = Standing[e]
  /\ \A e \in DOMAIN Spelled : \A n \in 1..30 : Words[n] = <<Spelled[e]>> => n = Standing[e]
<1>1. DOMAIN Spelled = DOMAIN Standing
  BY DEF Spelled, Standing
<1>2. ASSUME NEW e \in DOMAIN Spelled
      PROVE  /\ Standing[e] \in 1..29
             /\ Enumerators[Standing[e]] = e
             /\ Words[Standing[e]] = <<Spelled[e]>>
  BY <1>2 DEF Spelled, Standing, Enumerators, Words
<1>3. ASSUME NEW e \in DOMAIN Spelled, NEW n \in 1..29, Enumerators[n] = e
      PROVE  n = Standing[e]
  BY <1>3 DEF Spelled, Standing, Enumerators
<1>4. ASSUME NEW e \in DOMAIN Spelled, NEW n \in 1..30, Words[n] = <<Spelled[e]>>
      PROVE  n = Standing[e]
  BY <1>4, SMTT(30) DEF Spelled, Standing, Words
<1> QED
  BY <1>1, <1>2, <1>3, <1>4

\* Each keyword that the declaration parser distinguishes is recognised for its own
\* word and for no other string, although the table and the enumeration disagree
\* about three words (Keyword.hpp:4-133, 142-156, CompilerModule.hpp:69-85, 252-265).
THEOREM ParserKeywordsCorrect ==
  ASSUME "keyword" \in Strict, Table["keyword"] = Words
  PROVE  Spec => []ParserKeywords
<1>1. ASSUME LookupInv, ExactWord
      PROVE  ParserKeywords
  <2> SUFFICES ASSUME kind = "keyword", pc = "returned", NEW e \in DOMAIN Spelled
               PROVE  (ty \in 1..Len(KeywordEnum) /\ KeywordEnum[ty] = e) <=> str = <<Spelled[e]>>
    BY DEF ParserKeywords
  <2>1. Len(Words) = 30
    BY DEF Words
  <2>2. ty \in 0..30
    BY <1>1, <2>1 DEF LookupInv, TypeOK
  <2>3. ASSUME ty \in 1..Len(KeywordEnum), KeywordEnum[ty] = e
        PROVE  str = <<Spelled[e]>>
    <3>1. ty \in 1..29 /\ ty # 0 /\ Enumerators[ty] = e
      BY <2>3, KeywordEnumIs
    <3>2. ty = Standing[e]
      BY <3>1, SpelledStanding
    <3>3. Words[ty] = str
      BY <1>1, <3>1 DEF ExactWord
    <3> QED
      BY <3>2, <3>3, SpelledStanding
  <2>4. ASSUME str = <<Spelled[e]>>
        PROVE  ty \in 1..Len(KeywordEnum) /\ KeywordEnum[ty] = e
    <3>1. Standing[e] \in 1..29 /\ Words[Standing[e]] = str /\ Enumerators[Standing[e]] = e
      BY <2>4, SpelledStanding
    <3>2. ty # 0
      <4>1. Standing[e] \in 1..Len(Words)
        BY <2>1, <3>1
      <4> QED
        BY <1>1, <3>1, <4>1 DEF ExactWord
    <3>3. Words[ty] = <<Spelled[e]>> /\ ty \in 1..30
      BY <1>1, <2>2, <2>4, <3>2 DEF ExactWord
    <3>4. ty = Standing[e]
      BY <3>3, SpelledStanding
    <3> QED
      BY <3>1, <3>4, KeywordEnumIs
  <2> QED
    BY <2>3, <2>4
<1> QED
  BY <1>1, LookupInvariant, ExactWordCorrect, PTL
=============================================================================
