SPECIFICATION Spec
CONSTANTS
  Users = {u1}
  Nobody = nobody
  Quests = {1, 2}
  OneTime = {1}
  Target <- MCTarget
  Counts <- MCCounts
  Results = {"win", "lose"}
  Games = {g1, g2}
  Claims = {c1}
  MaxRows = 2
  LastDay = 1
  MaxFaults = 1
SYMMETRY Same
INVARIANTS TypeOK ProgressIsPlayed
PROPERTIES PromiseKept
CHECK_DEADLOCK FALSE
