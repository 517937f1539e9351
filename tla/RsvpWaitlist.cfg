\* Two members compete for the one seat of a role; a request and the waitlist
\* job overlap, and coordinators change one thing.
SPECIFICATION Spec
CONSTANTS
  Members = {m1, m2}
  Roles = {MENTOR}
  Lead = m1
  Nobody = Nobody
  NoReply = NoReply
  Requests = {q1}
  Job = Job
  MaxCapacity = 1
  MaxEdits = 1
  MaxFaults = 0
INVARIANTS
  OversoldByOverlapOnly
\* A closed event that nobody answers any more is at rest.
CHECK_DEADLOCK FALSE
