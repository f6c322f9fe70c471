SPECIFICATION LiveSpec
CONSTANTS
  Instances = {a}
  NoOne = NoOne
  MaxRaw = 3
  MaxFaults = 4
INVARIANT DuplicatesBoundedByFaults
PROPERTY CommittedNeverRegresses
 
PROPERTY RoutableEventuallyPublished
