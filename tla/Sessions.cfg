SPECIFICATION FairSpec
CONSTANTS
  a = a
  b = b
  NoNode = NoNode
  Nodes <- TwoNodes
  Names = {"x"}
  Ids = {1, 2}
  MaxCalls = 3
  MaxDuplicates = 1
INVARIANT TypeOK
INVARIANT HostIsOwner
PROPERTY SearchersConverge
CHECK_DEADLOCK FALSE
