SPECIFICATION CollectorSpec
CONSTANTS
  EndOfBlock = 9
  PubIds = {"p1", "p2"}
  Points = {"early"}
  ScannerRuns <- EveryRun
  RetryPasses = 2
  CursorEvery = 2
  FaultKinds = {"crash", "error", "rebuild", "strip"}
  MaxFaults = 2
  MaxCorrections = 8
  Tip = 4
  Amounts = {1, 2}
  Delays = {2}
  MaxRequests = 2
  MaxLost = 1
  Readers = {"r1", "r2"}
  MaxHolds = 1
  MaxUnreadable = 2
CHECK_DEADLOCK FALSE
INVARIANTS
  CoveredIsHeld
  HeldWithPublication
  DecisionsOnRecord
  WithdrawalsAreTrue
  
PROPERTIES
  RangeClosesOnlyWhenApplied
  RangeNeverReopened
  OnlyReplayPublishesStale
