SPECIFICATION MCSpec
CONSTANTS
  Deposit = {1, 2}
  Window = 2
  Drift = 1
  MaxSkew = 1
  MaxPerRound = 2
  MaxCredit = 1
  MaxTime = 5
  MaxUpgrades = 1
  Burn = {1, 2, 3, 4, 5}
  Amounts = {1, 2, 4}
  MaxBalance = 14
  MaxPerTx = 2
  Fee = 2
  Rent = 3
INVARIANT BatchesMatch
CHECK_DEADLOCK FALSE
