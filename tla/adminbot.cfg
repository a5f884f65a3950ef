SPECIFICATION BotSpec
CONSTANTS
  p1 = p1
  p2 = p2
  People = {p1, p2}
  Admins = {p1}
  Receivers = {u1}
  LastStep = 2
  Writes <- MCWrites
  MaxMessages = 3
  MaxRestarts = 2
INVARIANTS BotTypeOK DoneAsAsked
PROPERTIES Answered
CHECK_DEADLOCK FALSE
