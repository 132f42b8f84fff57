SPECIFICATION FairSpec
CONSTANTS
  Request = {r1, r2, r3}
  Rate <- MCRate
  Capacity <- MCCapacity
  Need <- MCNeed
  MaxConcurrent = 1
  Timeout = 1
  Workers = 2
  Horizon = 6
INVARIANTS NeverAheadOfRate SimultaneousCalls
PROPERTIES EveryoneAnswered
CHECK_DEADLOCK FALSE
