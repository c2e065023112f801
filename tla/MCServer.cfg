CONSTANTS
  a = a
  b = b
  Clients <- MCClients
  Rows = 2
  Cols = 2
  Walls <- Diagonal
  Routes <- MCRoutes
  Goals <- East
  Stuck <- NoClients
  Capacity = 1
  Departures = 1
  Empty = Empty
  Wall = Wall
  Trail = Trail
  Display = Display
  Nobody = Nobody
SYMMETRY Ids
SPECIFICATION Spec
INVARIANTS
  TypeOK
  MarksAreExact
  PrintAgrees
PROPERTY SettledForEver
CONSTRAINTS
  WallsStay
  LeftWhileSending
CHECK_DEADLOCK FALSE
