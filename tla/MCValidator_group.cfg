SPECIFICATION Spec
CONSTANTS
  Instances = {a, b}
  NoOne = NoOne
  MaxRaw = 3
  MaxFaults = 3
SYMMETRY MCSymmetry
INVARIANT TypeOK
INVARIANT NoLoss
INVARIANT FirstPublishedInOrder
PROPERTY RelaysAtLeastOnce
