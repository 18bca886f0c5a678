CONSTANTS
  SeqRange = 32
  SeqHigh = 27
  SeqLow = 4
  Scenarios <- ScenarioSet
  Sizes = {1, 3, 5}
  SendBuffer = 2
  MaxMessageSize = 0
  MaxChunkCount = 2
  RecvBuffer = 6
  MaxCalls = 4
  MaxSubs = 2
  MaxItems = 2
  PerPublish = 1
  MaxNumber = 2
  MaxLost = 1
  MaxFd = 3
SPECIFICATION Spec
INVARIANTS
  NoWriteAfterClose ConnectGoodIsConnected
  WholeAndInOrder GoodIsOwnAnswer NothingRefused
  NotificationsMatch
CHECK_DEADLOCK FALSE
