\* A behaviour ends where its part does: a letter sent, a page at rest.
SPECIFICATION Spec
CONSTANTS
  Things = {x1, x2}
  Actors = {u1, u2}
  Lone = {o}
  Stock = Stock
  Job = Job
  Targets = {Group, List}
  Guides = {Group}
  SeatRoles = {"MENTOR"}
  All = All
  Failed = Failed
  None = None
  TTL = 2
  PageSize = 1
  MaxPhotos = 2
  MaxCapacity = 0
  MaxWithdrawals = 1
  MaxPresses = 2
  MaxChanges = 1
  MaxEdits = 0
  MaxFaults = 1
  MaxLate = 1
  MaxRows = 2
SYMMETRY Symmetry
INVARIANTS
  TypesOK LettersGoOnce PanelsAgree DecisionsFollowWishes PhotosStay SeatsFollowAnswers AnswersStand
PROPERTIES
  NoLetterAfterNo LastSuperadminStays
CHECK_DEADLOCK FALSE
