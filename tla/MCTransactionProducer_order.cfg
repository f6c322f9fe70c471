SPECIFICATION Spec
CONSTANTS
  Seeds = {s1}
  Accounts = {acct}
  AccountOf <- OneAccount
  MaxCount = 2
  Waves = 2
  MaxRuns = 1
  MaxFaults = 1
  MaxInFlight = 2
  QueueLimit = 2
CHECK_DEADLOCK FALSE
INVARIANT PerAccountOrder
