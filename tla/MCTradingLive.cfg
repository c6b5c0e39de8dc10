SPECIFICATION TradingSpec
CONSTANTS
  Users = {u1}
  System = system
  Assets = {"base", "quote"}
  Keys = {}
  Amounts = {0, 1, 2}
  Handlers = {h1, h2}
  Prices = {0, 1, 2}
  Qtys = {0, 1}
  Symbols <- AlsoUnknown
  Funds = 2
  QueueCap = 2
  RecentTradeCap = 2
  Faults = {"sync"}
  MaxCrashes = 0
  MaxHalts = 1
CHECK_DEADLOCK FALSE
INVARIANTS NothingStaysLocked
PROPERTIES RequestsFinish
