CONSTANTS
  Letter <- MCLetter
  Digit <- MCDigit
  Blank <- MCBlank
  Symbol <- MCSymbol
  Keywords <- MCKeywords
  Operators <- MCOperators
  Capacity = 3
  Sources <- MCSources
SPECIFICATION Spec
PROPERTY CommentEndsWithLine
CHECK_DEADLOCK FALSE
