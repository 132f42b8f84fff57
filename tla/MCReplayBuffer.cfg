SPECIFICATION FairSpec
CONSTANTS
  Rounds <- ValidateAndTrain
  BatchSize = 1
  N = 2
  MaxFailures = 1
INVARIANTS FinishedAreWhole TrainsOnItsOwn LateOnlyOfFailed
PROPERTIES SampleReturns
