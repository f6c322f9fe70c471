CONSTANTS
  Programs = {"app"}
  MaxCount = 1
  Steps = {1}
  Delay = 1000
  MaxTime = 1000
  MaxRuns = 2
  MaxFaults = 0
  MaxMessages = 1
SPECIFICATION Spec
INVARIANT EveryTransactionReachesSilver
CHECK_DEADLOCK FALSE
