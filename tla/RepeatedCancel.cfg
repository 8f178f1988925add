\* A cancel is lost after it has set the status; the cancel is repeated.
CONSTANTS
  r1 = r1
  r2 = r2
  c1 = c1
  c2 = c2
  Requests <- TwoRequests
  Callers <- TwoCallers
  NoRequest = NoRequest
  REQUEST_TTL = 1
  DISMISS_COOLDOWN = 1
  ACCEPTED_COOLDOWN = 2
  DECLINED_COOLDOWN = 2
  ACCEPT_LEASE = 1
  MaxFailures = 1
SYMMETRY AllSymmetry
SPECIFICATION Spec
INVARIANT RepeatedCancelReleases
