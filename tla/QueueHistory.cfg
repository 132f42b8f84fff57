SPECIFICATION HistorySpec
CONSTANTS
  Item = {s1, s2}
  Consumers = {c1, c2, c3}
  MaxQueueSize = 2
  MaxPuts = 5
  MaxValidate = 2
INVARIANTS
  NoLostWakeup
  EntriesAccountedFor
PROPERTIES
  ImplementsChannel
