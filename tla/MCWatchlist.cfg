SPECIFICATION Spec
CONSTANTS
  Account = {a, b, c}
  WatchWindow = 3
  MaxWatched = 2
  BurstSlots = {0, 1}
  SteadyGap = 2
  MaxTime = 9
  MaxCount = 2
  MaxNow = 4
  MaxDeposits = 2
  MaxUpgrades = 1
SYMMETRY Accounts
INVARIANTS
  NeverWatchedInFlight
  PromiseKept
  ScansWithinSlots
