\* Three runs; the lease lasts three heartbeats, as leaseMs / 3 makes it.
SPECIFICATION FairSpec
CONSTANTS
  Runs = {p1, p2, p3}
  NoRun = NoRun
  LeaseTime = 3
  HeartbeatEvery = 1
  MaxInFlight = 2
  MaxFaults = 3
INVARIANTS
  ExclusiveUnlessBeatsMissed
PROPERTIES
  LiveLeaseIsKept
  JobRunsAgain
