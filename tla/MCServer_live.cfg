CONSTANTS
  a = a
  b = b
  Clients <- MCClients
  Rows = 1
  Cols = 1
  Walls <- NoWalls
  Routes <- MCRoutes
  Goals <- Origin
  Stuck <- OneClient
  Capacity = 1
  Departures = 1
  Empty = Empty
  Wall = Wall
  Trail = Trail
  Display = Display
  Nobody = Nobody
SPECIFICATION FairSpec
PROPERTY PlannersKeepPlanning
CHECK_DEADLOCK FALSE
