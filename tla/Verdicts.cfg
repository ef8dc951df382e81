SPECIFICATION VerdictSpec
CONSTANTS
  Parts = {"probe", "obligation", "amendment", "retention", "exports"}
  ServeUntil = 3
  ProbeTolerance = 1
  Skews <- RightAheadOrBehind
  MaxProbeTime = 4
  NotFoundGuard = 1
  MaxBlockAge = 1
  MaxAddresses = 2
  MaxTime = 2
  v1 = v1
  v2 = v2
  v3 = v3
  Validators = {v1, v2, v3}
  Windows <- AllWindows
  Fractions <- ThreeReadings
  Lateness = 15
  MaxBlind = 1
  Vantages = {"a", "b"}
  ConfirmWindow = 1
  Rank <- AlphabeticalRank
  Worlds <- EveryWorld
  MustServeUntil = 2
  Tolerance = 1
  LastProbe = 1
  MaxTrouble = 1
  Signers = {"v1", "v2", "v3"}
  Promises <- ADayAndTheNext
  Landings <- FourLandings
  RollupAfter = 2
  RetainRaw = 3
  PruneDays = 3
  MaxDelay = 1
  MaxDay = 6
  Files = {"probes"}
  DayLength = 2
  ExportHour = 1
  Capacity <- TwoLines
  LastDay = 3
  MaxAhead = 2
  Keys = {1, 2}
  MaxInterrupts = 1
INVARIANTS
  HonestNeverFaulted
  OwnTroubleBlamesNobody
  ServedIsWatchedToTheEnd
  TwinsAgree
  AmendmentsOnRecord
  
  
  RolledIsFinal
  CountedOnce
  ExactlyOneExport
  NoLineIsStuck
  ExportsVerify
  CurrentKeySignedNewest
CHECK_DEADLOCK FALSE
