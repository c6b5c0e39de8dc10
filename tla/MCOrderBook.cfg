SPECIFICATION Spec
CONSTANTS
  Ids = {a, b, c}
  NoId = NoId
  Prices = {0, 1, 2}
  Qtys = {0, 1, 2}
  MaxPrice = 2
  MaxSeq = 4
INVARIANTS
  BookConsistent
  TimePriority
  Uncrossed
  BookInv
PROPERTIES
  PriceTimePriority
  MatchTerminates
  ImplementsAtomicBook
