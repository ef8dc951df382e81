SPECIFICATION ScanSpec
CONSTANTS
  EndOfBlock = 9
  PubIds = {"p1"}
  ParamValues <- TwoValues
  StartHeight = 2
  MaxHeight = 4
  RecEvery = 2
  CheckpointEvery = 3
  EventTx = 1
  PubTxs = {0, 2}
  ChangeKinds = {"tx", "finalize", "silent"}
  FaultKinds = {"crash", "read", "write", "gap"}
  MaxFaults = 2
  PartialWrites = FALSE
  HostValidators = {"v"}
  FirstScanned = 2
  LastHeight = 5
  RetryEvery = 2
  SaveEvery = 2
  GapHeights = {3}
  Troubles = {"unread", "pruned"}
  SeedTips = {2}
  MaxCrashes = 1
CHECK_DEADLOCK FALSE
INVARIANTS
  HistoryNeverAheadOfRecord
  PublicationsExactlyOnce
  RangesDisjointWithoutCrash
  StampNeverLate
  
