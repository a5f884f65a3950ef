SPECIFICATION Spec
CONSTANTS
  Users = {u1}
  Nobody = Nobody
  Games = {g1, g2}
  NoGame = NoGame
  Calls = {c1, c2, c3}
  Bets = {1, 3}
  MaxRounds = 3
  Prize <- FirstPrizes
  StartGems = 4
SYMMETRY CallsAndGames
INVARIANTS TypeOK NothingIsLost PaidOnce GameIsFound
PROPERTY EndedStays
CHECK_DEADLOCK FALSE
