\* Two profiles in turn, nothing goes wrong.
CONSTANTS
  p1 = p1
  p2 = p2
  Profiles <- TwoProfiles
  NoProfile = NoProfile
  MAX_INDEX_ATTEMPTS = 2
  MAX_RETRIES = 2
  MaxPairs = 2
  MaxWork = 1
  MaxFailures = 0
SPECIFICATION Spec
INVARIANT ResetHides
