CONSTANTS
  drive = drive
  main_ = main_
  update_ = update_
  Nobody = Nobody
  Drive <- drive
  Main <- main_
  Update <- update_
  Threads <- MCThreads
  Cells <- Square
  Plans <- SquarePlans
  Velocities <- Speeds
  StartCell <- Origin
  StartDirection = 0
  StartVelocity = 1
  Commands <- AllCommands
SPECIFICATION Spec
INVARIANTS
  TypeOK
  PoseExplained
CONSTRAINT FaultFree
CHECK_DEADLOCK FALSE
