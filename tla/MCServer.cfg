\* One room: requests, the AI turn, the timer and a sink that may raise.
CONSTANTS
  Rounds = 2
  Timed = TRUE
  MaxPlayers = 4
  NumRooms = 1
  Prompts = 2
  MaxFailures = 1
SPECIFICATION ServerSpec
INVARIANTS
  ServerTypeOK
  ImpostorAnswersLast
  OneCallPerRound
  NoRoundWaitsForTheImpostor
  RunsTellTheGame
PROPERTIES
  RoomsPlayTheGame
