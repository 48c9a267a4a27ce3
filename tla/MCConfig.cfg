SPECIFICATION ConfigSpec
CONSTANTS
  Key = {k1, k2, k3, k4}
  Value = {v1, v2}
  Ttl = 1
  Capacity = 3
  MaxTime = 3
  Keys = {k1, k2, k3}
  Values = {v1, v2}
  MaxSeq = 6
  Word = 32
  Rent = 3
  FeePerSig = 1
  MaxSignatures = 5
  GetBalanceCycles = 2
  Canister = {rpc, ledger, anonymous}
  Anonymous = anonymous
  MinimumDeposits = {7, 8, 9}
  MinimumWithdrawals = {4, 6}
  WithdrawalFees = {1, 3}
  RequiredCycles = {2, 4}
  DepositFees = {0, 2}
  AutomaticFees = {3, 4}
  Address = {a, b, c, system, main}
  a = a
  b = b
  Reserved = {system}
  Main = main
  Malformed = Malformed
  NonceLists <- MCNonceLists
  Amounts = {4, 6, 8}
  Attached = {1, 2, 4}
  Withdrawal = {w}
  None = None
  MaxGiven = 2
INVARIANTS
  DestinationsArePayable WithdrawalsPayRent DepositsPayTheirSweep ChargeIsCovered
CHECK_DEADLOCK FALSE
