SPECIFICATION Spec
CONSTANTS
  EndOfBlock = 9
  PubIds = {"p1", "p2"}
  Points = {"early"}
  ScannerRuns <- OverlappingRanges
  RetryPasses = 2
  CursorEvery = 2
  FaultKinds = {}
  MaxFaults = 0
  MaxCorrections = 8
CHECK_DEADLOCK FALSE
INVARIANTS
  AgreesOrWithheld
