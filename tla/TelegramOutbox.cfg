SPECIFICATION SilentSpec
CONSTANTS
  k1 = k1
  k2 = k2
  a1 = a1
  a2 = a2
  NoAttempt = NoAttempt
  NoKey = NoKey
  NoAlarm = NoAlarm
  Keys <- TwoKeys
  Attempts <- TwoAttempts
  SEND_LEASE = 2
  MIN_SEND_INTERVAL = 1
  RetryDelays = {1, 3}
  MaxDelay = 3
  RETENTION = 1
  OUTBOX_CLEANUP_LIMIT = 1
  MaxFailures = 1
INVARIANTS ChatIsHeld ShownOnce
PROPERTIES ImplementsPromise NothingWaits
