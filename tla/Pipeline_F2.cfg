SPECIFICATION PipelineSpec
CONSTANTS
  EndOfBlock = 9
  PubIds = {"p1"}
  ParamValues <- ThreeValues
  StartHeight = 3
  MaxHeight = 5
  RecEvery = 2
  CheckpointEvery = 3
  EventTx = 1
  PubTxs = {2}
  ChangeKinds = {"silent"}
  FaultKinds = {"crash"}
  MaxFaults = 1
  PartialWrites = FALSE
  Points = {}
  RetryPasses = 2
  CursorEvery = 2
  MaxCorrections = 4
  CollectorFaults = {}
  MaxCollectorFaults = 0
CONSTRAINT Dip
CHECK_DEADLOCK FALSE
INVARIANTS
  LaterPublicationIsRight
