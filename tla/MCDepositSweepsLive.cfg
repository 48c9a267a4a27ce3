SPECIFICATION FairSpec
CONSTANTS
  Account = {a}
  FeePerSig = 1
  Rent = 1
  MaxPerSweep = 1
  Minimum = 4
  Payments = {4}
  MaxRpc = 1
  MaxAge = 1
  Lag = 1
  MaxDeposits = 2
  MaxPayments = 2
  MaxUpgrades = 1
PROPERTY
  QueuedIsSettled
