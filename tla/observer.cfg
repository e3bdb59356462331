SPECIFICATION ObserverSpec
CONSTANTS
  SseBodies <- MCSseBodies
  JsonBodies <- MCJsonBodies
  Encodings = {"identity", "coded", "unsupported"}
  SSE_LINE_LIMIT = 2
  JSON_LIMIT = 3
INVARIANTS OneOutcome OutcomeIsMeaning
CHECK_DEADLOCK FALSE
