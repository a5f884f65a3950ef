CONSTANTS
  u1 = u1
  u2 = u2
  u3 = u3
  c1 = c1
  c2 = c2
  c3 = c3
  NoUser = NoUser
  NoConn = NoConn
  Users = {u1, u2, u3}
  Conns = {c1, c2, c3}
  Keys <- RpsKeys
  UserOf <- OnceUserOf
  KeyOf <- RpsKeyOf
  StartBalance = 2
  MaxRequests = 2
  DbMayFail = FALSE
SPECIFICATION Spec
SYMMETRY RpsSymmetry
CHECK_DEADLOCK FALSE
INVARIANTS TypeOK MatchedAlike PaidFromStakes LeaverIsSeen
