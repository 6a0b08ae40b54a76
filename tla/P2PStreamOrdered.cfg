SPECIFICATION Spec
CONSTANTS
  Ordered = TRUE
  Half = 8
  SackBits = 1
  Size = 1
  QueueSizes <- ChangingQueue
  Window = 7
  MaxSeq = 3
  MaxForeign = 1
INVARIANTS
  TypeOK
  NoAckedLoss
  OrderedDelivery
  InboxAccounting
  BlockedIsNotified
PROPERTIES
  RefinesChannel
  QueueLimit
