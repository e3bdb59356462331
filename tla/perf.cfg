SPECIFICATION FairSpec
CONSTANTS
  r1 = r1
  r2 = r2
  Requests = {r1, r2}
  Scenarios <- BodyAndTable
  QUEUE_SIZE = 1
  BATCH = 2
  RETRIES = 2
  ACTIVE_LIMIT = 1
  SWEEP = 1
  KEEP = 0
INVARIANTS RecordJustified GapsCounted
PROPERTIES RecordsSettle OldRowsGo
CHECK_DEADLOCK FALSE
