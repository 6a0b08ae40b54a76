SPECIFICATION StorageSpec
CONSTANTS
  Names <- DotNames
  NameMax = 2
  Capital <- CapitalLetters
  Devices <- DeviceNames
  Bytes = {0}
  MaxFileBytes = 1
  NoTransfer = NoTransfer
  MaxStorageCalls = 2
  Absent = Absent
  MaxRequests = 2
  MaxFileCalls = 2
  MaxFaults = 2
  TitleNames = {"news", "../news"}
  UnsafeNames = {"../news"}
  MaxTitleCalls = 2
INVARIANT WritesAreMirrored
CHECK_DEADLOCK FALSE
