CONSTANTS
  Account = {1, 2}
  Burn = {1, 2}
  Amounts = {2}
  SweepAmount = 5
  MaxRpc = 2
  MaxSign = 1
  MaxSweeps = 2
  MaxUpgrades = 1
  MaxPerTx = 1
  Fee = 1
  Rent = 1
  PageSize = 2
SPECIFICATION FairSpec
PROPERTY
  AcceptedIsSettled
