\* Two responses, two overlapping runs, any two faults.
SPECIFICATION FairSpec
CONSTANTS
  Responses = {r1, r2}
  Runs = {p1, p2}
  NoRun = NoRun
  Orphaned = Orphaned
  NoRow = NoRow
  ClaimTimeout = 1
  MaxEdits = 1
  MaxFaults = 2
INVARIANTS
  OneMessagePerChannel
PROPERTIES
  FreshClaimIsKept
  DueIsReminded
\* With the edits used up and nothing due, the job has nothing to do.
CHECK_DEADLOCK FALSE
