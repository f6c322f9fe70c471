SPECIFICATION FairSpec
CONSTANTS
  Instances = {a}
  NoOne = NoOne
  MaxRaw = 2
  MaxFaults = 0
PROPERTY EveryRecordPublished
