CONSTANTS
  Queries = {"gold"}
  Records <- Spread
  Delay = 2
  Sizes = {2, 4}
  MaxTime = 10
  MaxAmount = 99
  HighAmount = 50
  RapidTxnCount = 2
  MultiDevice = 2
  FarBoxes <- Far
  Grid = 2
  MaxInput = 4
  MaxFaults = 1
SPECIFICATION Spec
INVARIANT TypeOK
INVARIANT GoldOneRowPerWindow
INVARIANT GoldCountsOnce
INVARIANT WindowsNested
INVARIANT OnTimeKept
PROPERTY GoldExactlyOnce
CHECK_DEADLOCK FALSE
