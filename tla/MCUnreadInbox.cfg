SPECIFICATION MCSpec
CONSTANTS
  t1 = t1
  t2 = t2
  t3 = t3
  a1 = a1
  a2 = a2
  u1 = u1
  u2 = u2
  q1 = q1
  q2 = q2
  Tickets <- MCTickets
  Attempts <- MCAttempts
  NoAttempt = NoAttempt
  INBOX_MAX_UNREAD = 2
  INBOX_CLEANUP_LIMIT = 1
  LEASE = 1
  TTL = 2
  Updates <- MCUpdates
  Runs <- MCRuns
  NoUpdate = NoUpdate
  UPDATE_CLAIM_LEASE = 2
  PROCESSED_EVENT_CLEANUP_LIMIT = 1
  MaxMishaps = 2
  IdRuns = {1, 2}
  MaxIds = 2
  b1 = b1
  b2 = b2
  Events <- MCEvents
  Body <- MCBody
  NoKey = NoKey
  NoHash = NoHash
  STATS_RECEIPT_RETENTION = 2
  STATS_RECEIPT_CLEANUP_LIMIT = 1
  STATS_MAX_BATCH = 2
  QUEUE_RETENTION = 1
  Batches <- MCBatches
  LastDay = 3
INVARIANTS TypesOK CapHolds HandledOnce LeaseKeepsApart ResolvedIsLive NobodyLockedOut EventsCountedOnce
PROPERTIES LeaseIsExclusive OldestFirst UpdatesSettle
CHECK_DEADLOCK FALSE
