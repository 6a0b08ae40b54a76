SPECIFICATION FairSpec
CONSTANTS
  a = a
  b = b
  NoNode = NoNode
  Nodes <- TwoNodes
  Sizes = {1, 2}
  MaxCalls = 3
  MaxDuplicates = 0
INVARIANT TypeOK
INVARIANT AuthorityIsBacked
PROPERTY ChangeIsAnnounced
PROPERTY Converges
CHECK_DEADLOCK FALSE
