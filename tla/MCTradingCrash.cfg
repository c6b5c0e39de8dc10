SPECIFICATION TradingSpec
CONSTANTS
  Users = {u1, u2}
  System = system
  Assets = {"base", "quote"}
  Keys = {}
  Amounts = {0, 1, 2}
  Handlers = {h1, h2}
  Prices = {1, 2}
  Qtys = {1, 2}
  Symbols <- OnlyTraded
  Funds = 2
  QueueCap = 2
  RecentTradeCap = 2
  Faults = {"crash"}
  MaxCrashes = 1
  MaxHalts = 0
SYMMETRY Symmetry
CHECK_DEADLOCK FALSE
INVARIANTS EveryFillSettled
