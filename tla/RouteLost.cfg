SPECIFICATION Spec
CONSTANTS
  t1 = t1
  t2 = t2
  d1 = d1
  d2 = d2
  NoAttempt = NoAttempt
  NoTicket = NoTicket
  NoAlarm = NoAlarm
  INBOX_CLEANUP_LIMIT = 1
  EXPIRY_SWEEP_LIMIT = 1
  LEASE = 1
  RETENTION = 1
  Tickets <- OneTicket
  Drains <- OneDrain
  INBOX_MAX_UNREAD = 1
  INBOX_DELIVERY_LIMIT = 1
  TTL = 1
  MAX_RETRIES = 0
  Repeatable = {}
  Undeliverable = {}
  Malformed = {}
  MaxFailures = 1
INVARIANTS DeliveredKeepsRoute
