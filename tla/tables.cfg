CONSTANTS
  Symbol <- MCSymbol
  Kind <- MCKind
  Table <- MCTable
  Strict = {"keyword"}
  Inputs <- MCInputs
SPECIFICATION Spec
INVARIANTS LongestMatch LookupInv OwnSpelling ExactWord ParserKeywords BinaryBinds
CHECK_DEADLOCK FALSE
