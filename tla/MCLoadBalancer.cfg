SPECIFICATION MCSpec
CONSTANTS
  NumStandalone = 2
  NumHybrid = 2
  Request = {r1, r2, r3, r4}
  CacheSize = 2
INVARIANTS
  NeverOvercounts
PROPERTIES
  StickySession
