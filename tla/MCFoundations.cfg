SPECIFICATION MCSpec
CONSTANTS
  Account = {a, b, c}
  Kind = {deposit, withdrawal}
  Task = {mint, sweep}
  Call = {c1, c2, c3, c4}
  Round = {r1, r2}
  MaxConcurrent = 2
  MaxSweeps = 3
  MaxUpgrades = 4
  FeePerSig = 5000
  Rent = 890880
  MaxPerSweep = 10
  Minimum = 1786760
  Deposit = {1, 2, 3, 4, 5, 6, 7, 8, 9, 10}
  Main = 11
  Low = 2000000
  High = 3000000
  BatchSizes = {1, 2, 3, 10}
  MaxTransfers = 10
  MaxTxSize = 1232
  BytesPerSignature = 64
  Providers = 4
  Threshold = 3
  MaxFaulty = 4
  Deposits = 2
INVARIANTS GuardsAreExact KeyIsNeverLost TransactionsAreAcceptable ConclusionsAreTrue
PROPERTIES KeyArrives ForgeriesConcludeNothing
CHECK_DEADLOCK FALSE
