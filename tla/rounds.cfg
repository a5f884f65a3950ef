CONSTANTS
  First = p1
  Second = p2
  RunLoop = runLoop
  Setup = setup
  Game = "rps"
  MaxRounds = 2
  Polls = 1
  SetupMayFire = TRUE
  MaxTimers = 5
SPECIFICATION FairSpec
CHECK_DEADLOCK FALSE
INVARIANTS TypeOK OneChecker OneTimer SavedAsAnnounced
PROPERTIES SilentGameEnds
