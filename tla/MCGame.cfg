\* Every call of the domain, in every order, on games of up to 5 players; time
\* passes and the timer polls.
CONSTANTS
  Rounds = 3
  Timed = TRUE
  MaxPlayers = 5
SPECIFICATION FairSpec
INVARIANTS
  TypeOK
  RoundsAreComplete
  RosterIsFair
  BallotsAreSound
  ReasonsHaveEvidence
  LogIsTheGame
PROPERTIES
  PhasesAdvance
  RecordsOnlyGrow
  NothingAfterTheBell
  FollowsLifecycle
  EveryGameEnds
