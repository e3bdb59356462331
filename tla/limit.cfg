SPECIFICATION Spec
CONSTANTS
  Counters <- MCCounters
  Responses <- MCResponses
  Usages <- MCUsages
  Flushes = {f1}
  FlushTTL = 2
  DefaultBan = 1
  MaxIn = 1
  MaxClock = 2
  WritesFail = TRUE
INVARIANTS MirrorAgrees ScopedLimitsStayScoped
BackoffAfter429
LimitsExpire
CHECK_DEADLOCK FALSE
