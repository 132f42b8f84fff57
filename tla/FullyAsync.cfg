SPECIFICATION FairSpec
CONSTANTS
  TotalSteps = 5
  RequiredSamples = 2
  TriggerSync = 1
  StaleNum = 3
  StaleDen = 4
  Replicas = 1
  TasksPerReplica = 2
  PendingSize = 1
  TestFreq = 2
  MaxFailures = 1
INVARIANTS
  ConcurrencyLimit
  NeverTwice
  SamplesAccountedFor
  RolloutBudget
  PlannedStepsDone
PROPERTIES
  TerminatesOrStarves
