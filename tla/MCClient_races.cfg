CONSTANTS
  drive = drive
  main_ = main_
  update_ = update_
  Nobody = Nobody
  Drive <- drive
  Main <- main_
  Update <- update_
  Threads <- MCThreads
  Cells <- Corridor
  Plans <- CorridorPlans
  Velocities <- Forward
  StartCell <- Origin
  StartDirection = 0
  StartVelocity = 1
  Commands <- RaceCommands
SPECIFICATION FairSpec
INVARIANTS
  PathIsPieceOfOnePlan
  DebtIsPaid
PROPERTIES
  StrandedForEver
  WaitEnds
CHECK_DEADLOCK FALSE
