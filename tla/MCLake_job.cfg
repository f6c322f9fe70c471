CONSTANTS
  Queries = {"silver", "gold"}
  Records <- OneRecord
  Delay = 2
  Sizes = {2, 4}
  MaxTime = 10
  MaxAmount = 99
  HighAmount = 50
  RapidTxnCount = 2
  MultiDevice = 2
  FarBoxes <- Far
  Grid = 2
  MaxInput = 2
  MaxFaults = 1
SPECIFICATION FairSpec
PROPERTY EveryRecordTaken
CHECK_DEADLOCK FALSE
