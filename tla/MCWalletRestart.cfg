SPECIFICATION WalletSpec
CONSTANTS
  u1 = u1
  coin = coin
  token = token
  Users = {u1}
  System = system
  Assets = {coin}
  Keys = {}
  Amounts = {1}
  Procs = {p1, p2}
  Outputs = {}
  Destinations = {d1}
  WithdrawLimit = 1
  Required = 1
  Funds = 2
  Faulty = TRUE
  Remembers = FALSE
  MaxCalls = 3
  MaxOrders = 0
INVARIANTS BroadcastOnce
