CONSTANTS
  A = A
  B = B
  C = C
  f = f
  g = g
  Null = Null
  Class <- MCClass
  Name <- MCName
  Basic <- MCBasic
  Lists <- MCLists
SPECIFICATION FairSpec
INVARIANTS
  LayoutInv
  NoBadRecursion
  OpaqueOnStack
  LeftOpaque
  Closed
  LayoutAgrees
PROPERTIES
  Returns
CHECK_DEADLOCK FALSE
