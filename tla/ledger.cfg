SPECIFICATION RefreshSpec
CONSTANTS
  e1 = e1
  e2 = e2
  e3 = e3
  k1 = k1
  k2 = k2
  p1 = p1
  p2 = p2
  Attempts = {e1, e2, e3}
  Keys = {k1, k2}
  Key <- Keyed
  Instances = {p1, p2}
  Homes <- Pairs
  Versions = {1, 2, 3}
  Builtin = 1
  Covers <- LateCovers
  Served <- ServedBy
  QueueCapacity = 1
  BatchSize = 2
  MaxRetry = 1
  PageSize = 1
  WritesFail = TRUE
  PricingFails = {p1}
  MaxRestarts <- FirstRestarts
INVARIANTS Conservation StoredEventsHaveRows
PROPERTIES PricedRowsFinal EventsSettle UnpricedRowsBackfilled
