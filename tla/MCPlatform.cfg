\* A behaviour ends where its part does: a page left, a table full.
SPECIFICATION Spec
CONSTANTS
  Things = {x1, x2}
  Actors = {u1, u2}
  Lone = {o}
  Default = Default
  Demo = Demo
  Failed = Failed
  None = None
  RowKinds = {"temporary_demo", "admin"}
  Lists = {"admins"}
  TTL = 2
  Delay = 1
  MaxRows = 2
  MaxWrites = 1
  MaxLoads = 2
  MaxGen = 2
  MaxCalls = 2
  MaxEdits = 1
  MaxFaults = 1
  MaxCapacity = 2
  MaxProfiles = 2
  MaxStart = 1
  MaxTouches = 1
SYMMETRY Symmetry
INVARIANTS
  TypesOK AccessFollowsOrders PanelsTellTheTenant AccountsStayApart ReadsAreFresh NoTextLost RelayedOnce ApplicationsInOrder
CHECK_DEADLOCK FALSE
