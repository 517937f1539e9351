\* One member, with calls that break off.
SPECIFICATION FairSpec
CONSTANTS
  Members = {m1}
  Roles = {MENTOR}
  Lead = Nobody
  Nobody = Nobody
  NoReply = NoReply
  Requests = {q1}
  Job = Job
  MaxCapacity = 1
  MaxEdits = 1
  MaxFaults = 2
PROPERTIES
  VacancyIsOffered
\* A closed event that nobody answers any more is at rest.
CHECK_DEADLOCK FALSE
