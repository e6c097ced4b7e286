CONSTANTS
  Letter <- MCLetter
  Digit <- MCDigit
  Blank <- MCBlank
  Symbol <- MCSymbol
  Keywords <- MCKeywords
  Operators <- MCOperators
  Capacity = 3
  Sources <- MCSources
SPECIFICATION FairSpec
INVARIANTS TypeOK ReadAhead RunComplete EndIsFinal
PROPERTY Terminates
CHECK_DEADLOCK FALSE
