CONSTANTS
  Account = {1, 2}
  Burn = {1, 2, 3}
  Amounts = {2}
  SweepAmount = 5
  MaxRpc = 2
  MaxSign = 2
  MaxSweeps = 2
  MaxUpgrades = 1
  MaxPerTx = 2
  Fee = 1
  Rent = 1
  PageSize = 2
SPECIFICATION Spec
INVARIANTS
  PaidAtMostOnce
  OneMessagePerNonceValue
  OutcomeReported
  BoundToOneTransaction
  OnlySubmittedCanLand
  NoAssertionFails
  BalanceAccounted
  LandingIsFunded
  PagesListEveryRequest
PROPERTY
  ImplementsPayouts
