\* What the documentation says of reminder_sent, with one failed enqueue.
SPECIFICATION Spec
CONSTANTS
  Responses = {r1, r2}
  Runs = {p1, p2}
  NoRun = NoRun
  Orphaned = Orphaned
  NoRow = NoRow
  ClaimTimeout = 1
  MaxEdits = 1
  MaxFaults = 1
PROPERTIES
  SentMeansAllChannels
\* With the edits used up and nothing due, the job has nothing to do.
CHECK_DEADLOCK FALSE
