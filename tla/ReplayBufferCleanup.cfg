SPECIFICATION Spec
CONSTANTS
  Rounds <- TwoValidations
  BatchSize = 1
  N = 2
  MaxFailures = 0
INVARIANTS CleanedUp
