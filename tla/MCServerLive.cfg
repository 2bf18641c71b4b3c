\* Two rooms under one timer: is every game revealed and its run offered?
CONSTANTS
  Rounds = 1
  Timed = TRUE
  MaxPlayers = 3
  NumRooms = 2
  Prompts = 1
  MaxFailures = 0
SPECIFICATION FairServer
PROPERTIES
  EveryRoomIsRevealed
