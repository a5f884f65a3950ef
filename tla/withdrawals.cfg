SPECIFICATION Spec
CONSTANTS
  Users = {u1}
  Addresses = {a1}
  NoWallet = NoWallet
  Nobody = Nobody
  NoRow = NoRow
  Withdrawals = {w1, w2}
  Calls = {c1, c2}
  Amounts = {600}
  StartCoins = 1300
  MaxWithdrawCoinsPerDay = 1000
  MaxPayments = 2
SYMMETRY CallsAndRows
INVARIANTS TypeOK Backed OwnerRefundedOnce SettledOnce OnePending DailyLimit
CHECK_DEADLOCK FALSE
