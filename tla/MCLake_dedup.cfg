CONSTANTS
  Queries = {"silver"}
  Records <- Spread
  Delay = 2
  Sizes = {2, 4}
  MaxTime = 10
  MaxAmount = 99
  HighAmount = 50
  RapidTxnCount = 2
  MultiDevice = 2
  FarBoxes <- Far
  Grid = 2
  MaxInput = 3
  MaxFaults = 0
SPECIFICATION Spec
INVARIANT DedupStateBounded
