\* A behaviour ends where its part does: all requests made, nothing due.
SPECIFICATION Spec
CONSTANTS
  Things = {x1, x2}
  Actors = {u1, u2}
  Lone = {o}
  Household = {x1, x2}
  SeatRoles = {"MENTOR"}
  Providers = {"openai"}
  None = None
  Tables = 2
  MaxDelete = 2
  BatchSize = 1
  MaxRequests = 3
  MaxWrites = 1
  MaxTyped = 1
  MaxLimit = 1
  MaxGuests = 1
  MaxSeats = 3
  MaxApplies = 2
  RowIds = {r1, r2}
  MaxHands = 1
  MaxRuns = 2
  MaxCalls = 2
  MaxDate = 2
  MaxDue = 3
  MaxAged = 2
SYMMETRY Symmetry
INVARIANTS
  TypesOK EventsRunTheirCourse SeatsAddUp OneLetterPerLead TemplatesMatch TwinsAreExplained PagesKnowTheirMembers ConsentIsKept NumberNamesMeant DeletesStayBounded
PROPERTIES
  SavesWhatWasSeen
CHECK_DEADLOCK FALSE
