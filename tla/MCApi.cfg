\* A host and a guest; a third human is one whose join lost its reply.
CONSTANTS
  Rounds = 2
  Timed = TRUE
  MaxPlayers = 4
  b1 = b1
  b2 = b2
  Browsers = {b1, b2}
  MaxLate = 1
SPECIFICATION ApiSpec
INVARIANTS
  
  VotesShownAreCast
  ScreensTellThePast
  RecordsAreWhole
PROPERTIES
  ScreensOnlyAdvance
  EveryoneSeesTheEnd
  FakePlaysTheGame
