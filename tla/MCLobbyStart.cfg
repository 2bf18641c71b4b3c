\* Is a start refused only when humans are missing, as the specification says?
CONSTANTS
  Rounds = 2
  Timed = TRUE
  MaxPlayers = 6
  Host = host
  Joiners = {j1, j2}
SPECIFICATION LobbySpec
PROPERTIES
  RefusedOnlyForWantOfHumans
CHECK_DEADLOCK FALSE
