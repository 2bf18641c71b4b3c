\* Is a vote that names nobody a false accusation?
CONSTANTS
  Rounds = 2
  Timed = TRUE
  MaxPlayers = 4
  Metadata <- Turns
  MaxLost = 1
SPECIFICATION TrackingSpec
INVARIANTS
  FalseAccusationsAreVotes
CHECK_DEADLOCK FALSE
