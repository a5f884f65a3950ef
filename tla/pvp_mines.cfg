CONSTANTS
  u1 = u1
  u2 = u2
  u3 = u3
  c1 = c1
  c2 = c2
  c3 = c3
  NoUser = NoUser
  NoConn = NoConn
  Users = {u1, u2, u3}
  Conns = {c1, c2, c3}
  Keys <- MinesKeys
  UserOf <- OnceUserOf
  KeyOf <- MinesKeyOf
  StartBalance = 1
  MaxRequests = 2
  DbMayFail = TRUE
SPECIFICATION FairSpec
CHECK_DEADLOCK FALSE
INVARIANTS CreditsGoToStakers
PROPERTIES EscrowSpec StakesAreSettled
