SPECIFICATION Spec
CONSTANTS
  u1 = u1
  u2 = u2
  h1 = h1
  h2 = h2
  h3 = h3
  h4 = h4
  a1 = a1
  Users = {u1, u2}
  Nobody = nobody
  Stranger = stranger
  Hashes = {h1, h2, h3, h4}
  NoRow = noRow
  Addresses = {a1}
  NoWallet = noWallet
  Payment <- MCPayment
  Watcher = watcher
  Requests = {d}
  TypedHashes = {h1}
  ManualNanos = {2}
  NanoTON = 20
  Window = 2
  MaxFaults = 2
INVARIANTS TypeOK ConfirmedIsCredited
PROPERTIES PromiseKept PaymentIsRecorded
CHECK_DEADLOCK FALSE
