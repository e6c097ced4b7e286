CONSTANTS
  Letter <- MCLetter
  Digit <- MCDigit
  Blank <- MCBlank
  Symbol <- MCSymbol
  Keywords <- MCKeywords
  Operators <- MCOperators
  Capacity = 3
  Sources <- MCSources
  Reserved <- MCReserved
  CommandLine <- MCCommandLine
  Files = {"f"}
  MaxTokens = 12
SPECIFICATION CFairSpec
INVARIANTS Outcome
PROPERTY Exits
CHECK_DEADLOCK FALSE
