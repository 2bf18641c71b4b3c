\* One room, requests of every kind, time that passes between a refusal and
\* the search for its reason, and an event sink that raises.
CONSTANTS
  Rounds = 2
  Timed = TRUE
  MaxPlayers = 4
  MaxFailures = 2
SPECIFICATION RepliesSpec
INVARIANTS
  RepliesTellTheTruth
  RowsTellTheLog
PROPERTIES
  RefusalsHaveTheirReason
  PlaysTheGame
