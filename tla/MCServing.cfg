SPECIFICATION FairSpec
CONSTANTS
  NumStandalone = 1
  NumHybrid = 1
  Request = {r1, r2}
  CacheSize = 1
  PartialRollout = TRUE
  EnginePauses = TRUE
  ResponseLength = 1
  DynamicMaxTokens = TRUE
  Slack = 1
  MaxTurns <- Turns
  r1 = r1
  r2 = r2
  MaxVersion = 2
  ValidateAt = {1}
INVARIANTS
  ServingTypeOK
  ServersAsExpected
  VersionsBracketed
  IdleDuringTransfer
PROPERTIES
  ImplementsGeneration
  TurnsAnswered
