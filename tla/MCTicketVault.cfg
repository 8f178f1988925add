SPECIFICATION MCSpec
CONSTANTS
  t1 = t1
  t2 = t2
  t3 = t3
  p1 = p1
  p2 = p2
  p3 = p3
  k1 = k1
  k2 = k2
  r1 = r1
  r2 = r2
  c1 = c1
  Tickets <- MCTickets
  TTL = 2
  EXPIRY_SWEEP_LIMIT = 1
  NoAlarm = NoAlarm
  MaxStores = 4
  Reports <- MCReports
  FIRST_STRIKE_WINDOW = 1
  FIRST_STRIKE_UNIQUE_REPORTERS = 3
  FIRST_SUSPENSION_DURATION = 2
  PROBATION_DURATION = 3
  PROBATION_WINDOW = 2
  PROBATION_UNIQUE_REPORTERS = 2
  REPORT_EVENT_RETENTION = 4
  People <- MCPeople
  ChatRuns <- MCRuns
  Casts <- MCCasts
  LABEL_LIMIT = 1
  MaxResets = 1
  Jobs = {1, 2, 3}
  Mails <- MCMails
  Consumers <- MCConsumers
  OUTBOX_CHAT_CONCURRENCY = 2
  OUTBOX_MAX_BATCH = 3
  OUTBOX_MAX_RETRIES = 1
  MaxCuts = 1
INVARIANTS TypesOK AlarmCovers
PROPERTIES NoRevival ExpiryScrubs SanctionIsEarned AcceptedOnTerms ConfirmedOnly LanesAreKept
