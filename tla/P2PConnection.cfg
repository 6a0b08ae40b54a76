SPECIFICATION Spec
CONSTANTS
  a = a
  b = b
  Nodes <- Peers
  Senders <- OneSender
  MaxTransmits = 2
  MaxPackets = 2
INVARIANTS
  TypeOK
  RecvStreamHasConnection
  InterruptedHasCause
  EstablishedOnce
  ReliableUntilCleared
CONSTRAINT FewDatagrams
