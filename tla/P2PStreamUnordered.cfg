SPECIFICATION Spec
CONSTANTS
  Ordered = FALSE
  Half = 3
  SackBits = 1
  Size = 1
  QueueSizes = {}
  Window = 2
  MaxSeq = 6
  MaxForeign = 0
INVARIANTS
  ExactlyOnce
CONSTRAINT FewDatagrams
