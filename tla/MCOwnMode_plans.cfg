CONSTANTS
  drive = drive
  planner = planner
  display = display
  main_ = main_
  Nobody = Nobody
  Drive <- drive
  Planner <- planner
  Display <- display
  Main <- main_
  Threads <- MCThreads
  Cells <- Corridor
  Plans <- CorridorPlans
  Velocities <- Forward
  StartCell <- Origin
  StartDirection = 0
  StartVelocity = 1
  Goals <- Ends
SPECIFICATION FairSpec
PROPERTY PlannerKeepsPlanning
CHECK_DEADLOCK FALSE
