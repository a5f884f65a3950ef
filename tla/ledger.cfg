SPECIFICATION Spec
CONSTANTS
  Users = {1, 2}
  Workers = {k1, k2}
  NoOne = noOne
  StartGems = 3
  MinBet = 1
  MaxBet = 2
  BonusGems = 5
  LowBalance = 1
  CaseCost = 1
  CasePrizes = {2}
  WheelHalves = {0, 3}
  Bets <- MCBets
  Deltas <- MCDeltas
  MaxOps = 3
INVARIANTS TypeOK NoDebt Booked
PROPERTIES Finishes
CHECK_DEADLOCK FALSE
