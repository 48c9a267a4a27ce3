SPECIFICATION MCSpec
CONSTANTS
  None = None
  Error = Error
  Rent = 2
  Amounts = {1, 3}
  Names = {"x", "y"}
  FirstEvents <- MCFirstEvents
  Recordable <- AllEvents
  MaxEvents = 6
  FirstBatch = 1
  MaxPerResponse = 2
INVARIANTS StoredEventsSurvive CollectedLogReplays
CHECK_DEADLOCK FALSE
