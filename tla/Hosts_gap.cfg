SPECIFICATION HostSpec
CONSTANTS
  HostValidators = {"v"}
  FirstScanned = 2
  LastHeight = 5
  RetryEvery = 2
  SaveEvery = 2
  GapHeights = {3, 4}
  Troubles = {"unread"}
  SeedTips = {}
  MaxCrashes = 0
CHECK_DEADLOCK FALSE
INVARIANTS
  GapIsUnknown
