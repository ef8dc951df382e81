SPECIFICATION FairSpec
CONSTANTS
  CursorEvery = 2
  MaxWrites = 3
  MaxRuns = 2
  FaultKinds <- EveryFault
  MaxFaults = 2
CHECK_DEADLOCK FALSE
INVARIANTS
  RecordIsWhole
PROPERTIES
  ImplementsLog
  EveryLineIsStored
