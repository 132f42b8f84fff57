SPECIFICATION MicroSpec
CONSTANTS
  Lengths = {1, 3, 4}
  BatchSizes <- Sizes
  MaxTokenLen = 4
  MinMicroBatch = 0
  Divisors = {1, 2}
  DpSizes = {1, 2, 3, 4}
  GroupSize = 2
INVARIANTS BalancedHeap PartitionsSound Restored GroupsTogether
CHECK_DEADLOCK FALSE
