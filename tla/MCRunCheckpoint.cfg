SPECIFICATION FairSpec
CONSTANTS
  TotalSteps = 6
  RequiredSamples = 1
  TriggerSync = 2
  MaxInFlight = 2
  SaveFreq = 2
  Esi = TRUE
  Parts <- ActorAndCritic
  Keeps <- KeepOneOrTwo
  DataSize = 8
  MaxRestarts = 2
INVARIANTS NamedIsComplete NeverTwice SkippedBounded NoMoreThanPlanned EndSaved Retained
PROPERTIES EndsOrTorn
CHECK_DEADLOCK FALSE
