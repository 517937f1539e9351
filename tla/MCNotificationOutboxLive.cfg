\* Liveness: two rows, two runs, one fault; no symmetry.
SPECIFICATION FairSpec
CONSTANTS
  Rows = {r1, r2}
  Keys = {k1}
  NoKey = NoKey
  NoRow = NoRow
  Workers = {w1, w2}
  BatchSize = 2
  LeaseTime = 1
  MaxAttempts = 2
  RetryBase = 1
  RetryMax = 1
  MaxFaults = 1
PROPERTIES
  EveryRowSettles
\* Once every row is purged the bounded table has nothing left to do.
CHECK_DEADLOCK FALSE
