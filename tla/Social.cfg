SPECIFICATION Spec
CONSTANTS
  Games = {"g"}
  NoInvite = NoInvite
  MaxInvites = 1
  Pids = {"me", "peer"}
  LocalPid = "me"
  CustomRooms = {"squad"}
  NoRoom = NoRoom
  Combos <- KeyCombos
  NoCombo <- Unset
  DefaultToggle <- ShiftF3
  Observers = {"hud"}
  AutoAccept = TRUE
  AutoJoin = TRUE
  Nothing = Nothing
  MaxCalls = 4
INVARIANT TypeOK
INVARIANT DisplayTold
INVARIANT ShownIsVisible
INVARIANT RoomsReported
INVARIANT InvitesSettle
CHECK_DEADLOCK FALSE
