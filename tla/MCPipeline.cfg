CONSTANTS
  Programs = {"app", "late", "invalid"}
  MaxCount = 2
  Steps <- Longer
  Delay = 10
  MaxTime = 1000
  MaxRuns = 2
  MaxFaults = 1
  MaxMessages = 2
SPECIFICATION FairSpec
INVARIANT OneRowEndToEnd
INVARIANT OnTimeReachesSilver
INVARIANT PrintedTheFirst
PROPERTY FirstRunReachesSilver
PROPERTY InspectionEnds
CHECK_DEADLOCK FALSE
