SPECIFICATION OAuthFairSpec
CONSTANTS
  Callers = {c1, c2}
  LockTTL = 1
  WaitAttempts = 2
  Buffer = 1
  Life = 2
  MaxHold = 2
  MaxGrants = 3
INVARIANTS HolderOwnsLock RefreshTokenUsable
PROPERTIES LockRespected CallersFinish
