CONSTANTS
  b1 = b1
  b2 = b2
  b3 = b3
  b4 = b4
  x = x
  y = y
  Null = null
  Block <- MCBlock
  Value <- MCValue
  TextType <- MCTextType
  PlainType <- MCPlainType
  BareType <- MCBareType
  Holder <- MCHolder
  Parser = "parser"
  MaxBody = 2
SYMMETRY Symmetry
SPECIFICATION Spec
INVARIANTS NoDangling ExclusiveOwner OwnershipInv
PROPERTY ValuesSpec
CHECK_DEADLOCK FALSE
