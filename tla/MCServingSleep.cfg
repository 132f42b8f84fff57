SPECIFICATION Spec
CONSTANTS
  NumStandalone = 1
  NumHybrid = 1
  Request = {r1, r2}
  CacheSize = 1
  PartialRollout = TRUE
  EnginePauses = TRUE
  ResponseLength = 2
  DynamicMaxTokens = FALSE
  Slack = 0
  MaxTurns <- OneTurn
  r1 = r1
  r2 = r2
  MaxVersion = 1
  ValidateAt = {1}
INVARIANTS
  SafeSleep
