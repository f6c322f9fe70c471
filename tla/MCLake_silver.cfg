CONSTANTS
  Queries = {"silver"}
  Records <- Reused
  Delay = 2
  Sizes = {2, 4}
  MaxTime = 10
  MaxAmount = 99
  HighAmount = 50
  RapidTxnCount = 2
  MultiDevice = 2
  FarBoxes <- Far
  Grid = 2
  MaxInput = 4
  MaxFaults = 2
SPECIFICATION Spec
INVARIANT SilverOneRowPerTransaction
INVARIANT OnTimeKept
PROPERTY SilverExactlyOnce
CHECK_DEADLOCK FALSE
