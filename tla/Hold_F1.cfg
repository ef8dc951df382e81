SPECIFICATION Spec
CONSTANTS
  EndOfBlock = 9
  PubIds = {"p1", "p2"}
  Points = {"early"}
  ScannerRuns <- PublicationAfterClose
  RetryPasses = 2
  CursorEvery = 2
  FaultKinds = {}
  MaxFaults = 0
  MaxCorrections = 8
CHECK_DEADLOCK FALSE
INVARIANTS
  ReleasedDeadlineIsProven
