\* Two calls that two workers serve with one client.  A finite number of
\* calls is made, and then nothing is left to do.
CONSTANTS
  c1 = c1
  c2 = c2
  Calls = {c1, c2}
  Workers = 2
  Timeout = {2}
  RoundTimeout = 2
  MaxAttempts = 2
  MaxWords = 1
  Answers <- Streams
SYMMETRY CallSymmetry
SPECIFICATION EngineSpec
INVARIANTS
  EngineTypeOK
  WholeAnswersOnly
  BreaksAreMarked
PROPERTIES
  TimeoutsAreReal
  LoneCallsAreMetered
  RegenerationHasTime
CHECK_DEADLOCK FALSE
