\* Does the timer serve every room when the event sink raises once?
CONSTANTS
  Rounds = 1
  Timed = TRUE
  MaxPlayers = 3
  NumRooms = 2
  Prompts = 1
  MaxFailures = 1
SPECIFICATION FairServer
PROPERTIES
  ExpiryNeedsNoClient
