SPECIFICATION ConfigSpec
CONSTANTS
  Key = {k1, k2, k3, k4}
  Value = {v1, v2}
  Ttl = 1
  Capacity = 3
  MaxTime = 3
  Keys = {k1, k2, k3}
  Values = {v1, v2}
  MaxSeq = 6
  Word = 32
  Rent = 3
  FeePerSig = 1
  MaxSignatures = 5
  GetBalanceCycles = 2
  Canister = {rpc, ledger}
  Anonymous = anonymous
  MinimumDeposits = {8}
  MinimumWithdrawals = {4}
  WithdrawalFees = {1, 30}
  RequiredCycles = {2}
  DepositFees = {0}
  AutomaticFees = {}
  Address = {a, b, c, system, main}
  a = a
  b = b
  Reserved = {system}
  Main = main
  Malformed = Malformed
  NonceLists <- MCNonceLists
  Amounts = {4, 6}
  Attached = {}
  Withdrawal = {w1}
  None = None
  MaxGiven = 2
INVARIANT BurnedCoversFee
CHECK_DEADLOCK FALSE
