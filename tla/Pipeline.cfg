SPECIFICATION PipelineSpec
CONSTANTS
  EndOfBlock = 9
  PubIds = {"p1"}
  ParamValues <- TwoValues
  StartHeight = 2
  MaxHeight = 4
  RecEvery = 2
  CheckpointEvery = 3
  EventTx = 1
  PubTxs = {2}
  ChangeKinds = {"silent", "tx"}
  FaultKinds = {}
  MaxFaults = 0
  PartialWrites = FALSE
  Points = {"early"}
  RetryPasses = 2
  CursorEvery = 2
  MaxCorrections = 4
  CollectorFaults = {"crash"}
  MaxCollectorFaults = 1
CHECK_DEADLOCK FALSE
INVARIANTS
  LaterPublicationIsRight
  StoreFollowsRecord
PROPERTIES
  ClosedDeadlineIsRight
