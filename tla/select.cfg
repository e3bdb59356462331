SPECIFICATION SelectionSpec
CONSTANTS
  Requests = {"r1", "r2"}
  Accounts = {1, 2}
  Sessions = {"s"}
  Classes = {"opus"}
  Hash <- MCHash
  ClassOf <- MCClassOf
  Excluded <- MCExcluded
  Allowed <- MCAllowed
  NoList = NoList
  Priorities = {1, 2}
  SCHEDULABLE_TTL = 1
  STICKY_SESSION_TTL = 1
  MaxQuery = 1
  StoresFail = TRUE
  MaxTime = 2
  MaxEdits = 1
INVARIANTS RestrictionsHold StalenessBounded
