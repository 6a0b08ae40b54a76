SPECIFICATION FairSpec
CONSTANTS
  one = one
  Peers <- OnePeer
  Nobody = Nobody
  Local = Local
  Presences = {"menu", "game"}
  StartPresence = "menu"
  PeerTimeoutSeconds = 1
  SearchLatency = 1
  MaxCalls = 1
  MaxPlatforms = 1
  MaxPosted = 2
INVARIANT TypeOK
INVARIANT PresenceSettled
INVARIANT PresenceAnnounced
PROPERTY FIFO
PROPERTY FrameEnds
PROPERTY SilentIsSeen
CHECK_DEADLOCK FALSE
