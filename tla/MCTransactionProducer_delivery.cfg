SPECIFICATION FairSpec
CONSTANTS
  Seeds = {s1}
  Accounts = {acct}
  AccountOf <- OneAccount
  MaxCount = 3
  Waves = 2
  MaxRuns = 2
  MaxFaults = 3
  MaxInFlight = 2
  QueueLimit = 2
CHECK_DEADLOCK FALSE
INVARIANT TypeOK
INVARIANT ExitZeroMeansDelivered
INVARIANT EveryEventAccountedFor
INVARIANT OnlyRetriesDisturb
PROPERTY RunEnds
