SPECIFICATION Spec
CONSTANTS
  Users = {u1, u2, u3}
  Nobody = nobody
  Requests = {j1, j2}
  Thresholds = {2}
  Reward <- MCReward
  Cost <- MCCost
  MaxLevel = 2
  Grants <- MCGrants
  MaxCodes = 2
  MaxGK = 2
  MaxGrants = 1
SYMMETRY Same
INVARIANTS TypeOK GkIsEarned
PROPERTIES ReferrerStays
CHECK_DEADLOCK FALSE
