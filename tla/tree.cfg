CONSTANTS
  Node = {r, n1, n2, n3, n4}
  Root = r
  Null = null
  MaxRemovals = 2
SPECIFICATION FairSpec
INVARIANTS TypeOK FreshIterators DownwardWalk NullMeansAbsent
PROPERTY SearchEnds
CHECK_DEADLOCK FALSE
