SPECIFICATION Spec
CONSTANTS
  Counters <- MCCounters
  Responses <- MCResponses
  Usages <- MCUsages
  Flushes = {f1}
  FlushTTL = 2
  DefaultBan = 1
  MaxIn = 1
  MaxClock = 2
  WritesFail = FALSE
INVARIANTS RecoversAtReset
CHECK_DEADLOCK FALSE
