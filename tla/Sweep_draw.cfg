SPECIFICATION SweepSpec
CONSTANTS
  Pubs = {"p1"}
  Points = {"w1", "w2"}
  Owing = {"v1", "v2"}
  Settled <- SettledAt0
  Deadline <- DeadlineAt3
  ScheduledAt <- OneThenTwo
  PruneTolerance = 0
  MaxLateness = 2
  RetryDelay = 1
  ArchiveSkew = 1
  Concurrency = 2
  Weight <- LightAndHeavy
  InFlightBytes = 2
  LastSweep = 5
  MaxCrashes = 0
  MaxArchives = 0
INVARIANTS
  RowsCarryTheDraw
