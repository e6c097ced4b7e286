CONSTANTS
  Name <- MCName
  Vocabulary <- MCVocabulary
  MaxTokens = 7
SPECIFICATION FairSpec
INVARIANTS TypeOK BodyIsBlock LocationRestored ParserInv
PROPERTY Settles
CHECK_DEADLOCK FALSE
