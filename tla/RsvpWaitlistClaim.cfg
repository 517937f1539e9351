\* What the promotion message promises the member.
SPECIFICATION Spec
CONSTANTS
  Members = {m1, m2}
  Roles = {MENTOR}
  Lead = m1
  Nobody = Nobody
  NoReply = NoReply
  Requests = {q1}
  Job = Job
  MaxCapacity = 1
  MaxEdits = 1
  MaxFaults = 0
PROPERTIES
  OfferIsHonoured
\* A closed event that nobody answers any more is at rest.
CHECK_DEADLOCK FALSE
