CONSTANTS
  Letter <- MCLetter
  Digit <- MCDigit
  Blank <- MCBlank
  Symbol <- MCSymbol
  Keywords <- MCKeywords
  Operators <- MCOperators
  Capacity = 3
  Sources <- MCSources
SPECIFICATION HSpec
INVARIANTS Lossless AllSpelled HistoryInv
PROPERTY FifoSpec
CHECK_DEADLOCK FALSE
