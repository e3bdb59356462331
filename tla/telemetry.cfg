SPECIFICATION Spec
CONSTANTS
  Requests = {r1, r2}
  SESSION_TTL = 1
  EVENT_BATCH_INTERVAL = 1
  GROWTHBOOK_INTERVAL = 3
  PENDING_HARD_TIMEOUT = 2
  Jitters = {0, 2}
  EVENT_BATCH_MAX_COMPLETIONS = 1
  COMPLETION_QUEUE = 1
  AUDIT_QUEUE_CAPACITY = 2
INVARIANTS ReportedOnce InFlightCovers
PROPERTY SessionsEnd
