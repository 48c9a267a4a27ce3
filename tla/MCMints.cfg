SPECIFICATION FairSpec
CONSTANTS
  Deposit = {1, 2}
  Window = 2
  Drift = 1
  MaxSkew = 1
  MaxPerRound = 2
  MaxCredit = 1
  MaxTime = 5
  MaxUpgrades = 1
INVARIANTS
  MintedAtMostOnce
  MintedIsOnLedger
  NoAssertionFails
PROPERTY
  PendingIsResolved
