CONSTANTS
  Name <- MCName
  Vocabulary <- MCVocabulary
  MaxTokens = 6
SPECIFICATION Spec
PROPERTY NamespaceEndsAtBrace
CHECK_DEADLOCK FALSE
