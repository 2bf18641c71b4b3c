\* One room is played to its end, and its run is logged while MLflow fails.
CONSTANTS
  Rounds = 2
  Timed = TRUE
  MaxPlayers = 4
  Metadata <- Turns
  MaxLost = 1
SPECIFICATION TrackingSpec
INVARIANTS
  MetricsTellTheGame
  RunsAreClosed
CHECK_DEADLOCK FALSE
