SPECIFICATION FairSpec
CONSTANTS
  Ordered = TRUE
  Half = 8
  SackBits = 1
  Size = 1
  QueueSizes = {1}
  Window = 7
  MaxSeq = 2
  MaxForeign = 0
PROPERTIES
  AllDelivered
  AllAcknowledged
