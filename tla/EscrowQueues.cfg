SPECIFICATION GivenSpec
CONSTANTS
  Place = {x1, x2}
  Event = {e1}
  Witness = {w1, w2}
  BackerThresholds = {1, 2}
  MaxEntries = 3
  MaxPerKey = 2
  MaxAttachments = 2
  MaxAge = 0
  MaxTime = 1
  MaxGiven = 3
  NoEntry = NoEntry
SYMMETRY Symmetry
INVARIANTS
  QueuesBounded
  PromotedWhenReceipted
PROPERTY
  FreshIsKept
