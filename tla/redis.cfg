SPECIFICATION RedisSpec
CONSTANTS
  r1 = r1 r2 = r2 r3 = r3 r4 = r4 r5 = r5
  Requests = {r1, r2, r3, r4, r5}
  MaxSlots = 2
  SLOT_TTL = 2
  CallsFail = TRUE
SYMMETRY AnyRequest
INVARIANTS OverrunBounded CountAccounted
CHECK_DEADLOCK FALSE
