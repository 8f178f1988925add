\* Two calls at a time on the two requests of a pair; two invocations, one that
\* searches and one that asks, for the suggestions of a person.
CONSTANTS
  r1 = r1
  r2 = r2
  c1 = c1
  c2 = c2
  Requests <- TwoRequests
  Callers <- TwoCallers
  NoRequest = NoRequest
  REQUEST_TTL = 1
  DISMISS_COOLDOWN = 1
  ACCEPTED_COOLDOWN = 2
  DECLINED_COOLDOWN = 2
  ACCEPT_LEASE = 1
  MaxFailures = 1
  p1 = p1
  p2 = p2
  s1 = s1
  s2 = s2
  Candidates <- TwoCandidates
  Fit <- OneGoodFit
  MIN_RECIPROCAL_SCORE = 35
  EXPOSURE_RECENT_PENALTY = 6
  EXPOSURE_LOW_BOOST = 4
  MAX_SUGGESTION_RESULTS = 1
  SUGGESTION_SEARCH_LIMIT = 2
  EXPOSURE_TOKEN_MAX = 1
  EXPOSURE_TOKEN_TTL = 1
  SUGGESTION_TTL = 1
  PAIR_LOCK_TTL = 1
  PAIR_DISMISS_COOLDOWN = 1
  Handlers <- TwoHandlers
  Tasks <- SearchAndAsk
  MaxRefs = 2
  MaxMoves = 1
SYMMETRY AllSymmetry
SPECIFICATION MCSpec
INVARIANTS TypesOK PairIsHeld AcceptIsExclusive OutcomeIsTrue
PROPERTIES CooldownStands SuggestedWasEligible DismissedIsLeftAlone SuggestionFateStands
CHECK_DEADLOCK FALSE
