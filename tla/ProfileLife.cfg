\* One profile, two messages at work, one fault; two questions with two answers
\* each, two buttons at work.
CONSTANTS
  p1 = p1
  p2 = p2
  h1 = h1
  h2 = h2
  Profiles <- OneProfile
  NoProfile = NoProfile
  MAX_INDEX_ATTEMPTS = 2
  MAX_RETRIES = 2
  MaxPairs = 2
  MaxWork = 2
  MaxFailures = 1
  PROFILE_QUESTION_COUNT = 2
  Choices = {1, 2}
  NoAnswer = NoAnswer
  Presses <- TwoPresses
  MaxRestarts = 2
SPECIFICATION MCSpec
INVARIANTS TypesOK OneVectorPair CurrentIsSound SessionIsTrue
PROPERTIES ResetStands IndexSettles
CHECK_DEADLOCK FALSE
