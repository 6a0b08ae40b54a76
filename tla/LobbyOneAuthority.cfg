SPECIFICATION Spec
CONSTANTS
  a = a
  b = b
  NoNode = NoNode
  Nodes <- TwoNodes
  Sizes = {2}
  MaxCalls = 6
  MaxDuplicates = 1
INVARIANT OneAuthority
CONSTRAINT FewDatagrams
CHECK_DEADLOCK FALSE
