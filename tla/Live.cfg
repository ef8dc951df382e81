SPECIFICATION LiveSpec
CONSTANTS
  EndOfBlock = 9
  PubIds = {"p1"}
  RetryPasses = 2
  CursorEvery = 2
  FaultKinds = {"error"}
  MaxFaults = 1
  MaxCorrections = 8
  Pubs = {"p1"}
  Points = {"w1", "w2"}
  Owing = {"v1", "v2"}
  Settled <- SettledAt0
  Deadline <- DeadlineAt3
  ScheduledAt <- OneThenTwo
  PruneTolerance = 0
  MaxLateness = 1
  RetryDelay = 1
  ArchiveSkew = 1
  Concurrency = 2
  Weight <- LightAndHeavy
  InFlightBytes = 2
  LastSweep = 4
  MaxCrashes = 1
  MaxArchives = 0
CHECK_DEADLOCK FALSE
PROPERTIES
  HoldsEventuallyLift
  SlotsEventuallyRecorded
