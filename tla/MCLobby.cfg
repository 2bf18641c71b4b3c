\* A host that keeps asking to start, and three joins, interleaved.
CONSTANTS
  Rounds = 2
  Timed = TRUE
  MaxPlayers = 6
  Host = host
  Joiners = {j1, j2, j3}
SPECIFICATION LobbySpec
SYMMETRY Symmetry
INVARIANTS
  LobbyTypeOK
  RosterStaysFair
  OneByOneIsSound
CHECK_DEADLOCK FALSE
