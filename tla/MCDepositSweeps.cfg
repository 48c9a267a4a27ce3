SPECIFICATION Spec
CONSTANTS
  Account = {a, b}
  FeePerSig = 1
  Rent = 1
  MaxPerSweep = 2
  Minimum = 4
  Payments = {4}
  MaxRpc = 1
  MaxAge = 0
  Lag = 2
  MaxDeposits = 3
  MaxPayments = 2
  MaxUpgrades = 1
SYMMETRY Accounts
INVARIANTS
  NoAssertionFails
  InFlightIsLive
  DroppedNeverLands
  MintsAreBacked
  MintedWasPaid
