SPECIFICATION EngineSpec
CONSTANTS
  Corrupt = corrupt
  Symbols = {"X"}
  FeedSymbols = {"X", "Z"}
  Subscribers = {c1}
  BufCap = 1
  Topic <- MCTopic
  Requests <- MCRequests
  QueueCap = 1
  MaxCmds = 3
  MaxFails = 1
  MaxCrashes = 1
  MaxHalts = 1
CHECK_DEADLOCK FALSE
INVARIANTS EngineTypeOK AnsweredIsDurable OrdersExact BooksAreReplay KeysIncrease HaltStopsOrders FeedHasNoGaps ClosedOnce SinkNeverBlocks
