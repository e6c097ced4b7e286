CONSTANTS
  Name <- MCName
  Vocabulary <- MCVocabulary
  MaxTokens = 6
SPECIFICATION Spec
INVARIANT OneVisibility
CHECK_DEADLOCK FALSE
