SPECIFICATION Spec
CONSTANTS
  SteamPinned = FALSE
  NoStatus = NoStatus
  Stats = {"kills"}
  SeedValue = 1
  Amounts = {2}
  StatLimit = 4
  Achievements = {"first", "second"}
  Seeded = {"second"}
  Observers = {"hud", "log"}
  Threads = {1, 2}
  NotUnlocking = NotUnlocking
  Entitlements = {"dlc"}
  Mods = {"map", "skin"}
  ConfigMods = {"map"}
  MaxReports = 1
  MaxAlign = 16
  HeaderSize = 16
  NodeSize = 8
  Sizes = {0, 5}
  Alignments = {0, 32}
  MaxUnits = 5
  MaxBlocks = 1
  MaxAttachments = 2
  MaxCalls = 4
  MaxPlatforms = 2
INVARIANT TypeOK
INVARIANT StatusTold
INVARIANT UnlockToldOnce
INVARIANT BlocksStayInside
CHECK_DEADLOCK FALSE
