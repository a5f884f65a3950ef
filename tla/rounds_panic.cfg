CONSTANTS
  First = p1
  Second = p2
  RunLoop = runLoop
  Setup = setup
  Game = "mines"
  MaxRounds = 2
  Polls = 1
  SetupMayFire = TRUE
  MaxTimers = 5
SPECIFICATION Spec
CHECK_DEADLOCK FALSE
INVARIANTS SetupClosedOnce
