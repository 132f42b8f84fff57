SPECIFICATION FairSpec
CONSTANTS
  TotalSteps = 5
  RequiredSamples = 1
  TriggerSync = 1
  StaleNum = 1
  StaleDen = 2
  Replicas = 1
  TasksPerReplica = 1
  PendingSize = 1
  TestFreq = 2
  MaxFailures = 0
PROPERTIES
  TrainerKeepsConsuming
