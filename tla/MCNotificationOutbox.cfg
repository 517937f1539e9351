\* Safety: two rows, two runs, any two faults.
SPECIFICATION Spec
CONSTANTS
  Rows = {r1, r2}
  Keys = {k1}
  NoKey = NoKey
  NoRow = NoRow
  Workers = {w1, w2}
  BatchSize = 2
  LeaseTime = 2
  MaxAttempts = 2
  RetryBase = 3
  RetryMax = 1
  MaxFaults = 2
SYMMETRY Symmetry
INVARIANTS
  SentIsJustified
  DuplicatesNeedFaults
PROPERTIES
  ImplementsContract
\* Once every row is purged the bounded table has nothing left to do.
CHECK_DEADLOCK FALSE
