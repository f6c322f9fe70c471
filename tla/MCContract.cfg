CONSTANTS
  Values <- FieldValues
  LastInstant = 3999
  MaxCents = 99
  MaxInt = 7
SPECIFICATION Spec
INVARIANT TypeOK
INVARIANT ErrorTypeNamesAViolation
INVARIANT FixturesGetTheirType
INVARIANT StreamReadsTheEvent
INVARIANT OnlyTheUnwritableRaise
CHECK_DEADLOCK FALSE
