SPECIFICATION ProberSpec
CONSTANTS
  Validators = {v1, v2}
  ShardSizes = {2}
  Caps <- EveryCap
  Spacing = 2
  UnknownCooldown = 4
  SaveEvery = 1
  Minute = 3
  StartAt = 3
  MaxClock = 7
  MaxRestarts = 2
  MaxSaveFailures = 1
  MaxAsks = 3
  Pubs = {"p1"}
  Points = {"w1", "w2"}
  Owing = {"v1", "v2"}
  Settled <- SettledAt0
  Deadline <- DeadlineAt3
  ScheduledAt <- OneThenTwo
  PruneTolerance = 0
  MaxLateness = 1
  RetryDelay = 1
  ArchiveSkew = 1
  Concurrency = 2
  Weight <- LightAndHeavy
  InFlightBytes = 2
  LastSweep = 3
  MaxCrashes = 1
  MaxArchives = 1
CHECK_DEADLOCK FALSE
INVARIANTS
  CapsKept
  SpacingKept
  CrashForgetsAtMostOne
  OneRowPerSlot
  SampledOutWhole
  CompleteMeansRecorded
SYMMETRY Interchangeable
