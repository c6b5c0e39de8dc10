SPECIFICATION WalletSpec
CONSTANTS
  u1 = u1
  coin = coin
  token = token
  Users = {u1}
  System = system
  Assets = {coin}
  Keys = {}
  Amounts = {0, 1, 2}
  Procs = {p1, p2}
  Outputs <- OneAsset
  Destinations = {d1}
  WithdrawLimit = 1
  Required = 1
  Funds = 2
  Faulty = TRUE
  Remembers = TRUE
  MaxCalls = 5
  MaxOrders = 1
SYMMETRY ProcSymmetry
INVARIANTS WalletTypeOK Solvency StatusHonest CreditedIsPosted OneAddress
