SPECIFICATION PostSpec
CONSTANTS
  u1 = u1
  u2 = u2
  base = base
  quote = quote
  Users = {u1, u2}
  System = system
  Assets = {base, quote}
  Keys <- MCKeys
  Amounts = {0, 1, 2, 3}
  Sessions = {s1, s2}
  Calls <- MCCalls
  MaxCalls = 5
CHECK_DEADLOCK FALSE
INVARIANTS NoOverdraft AckedIsPosted PostInv Conservation BalancesMatchEntries
PROPERTIES PostReturns ImplementsLedger
