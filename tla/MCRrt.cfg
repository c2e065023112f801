CONSTANTS
  Rows = 4
  Cols = 4
  Floors <- MCFloors
  RobotMarks <- MCRobotMarks
  Starts <- MCStarts
  Goals <- MCGoals
  MaxChanges = 1
  MaxNodes = 4
SPECIFICATION Spec
INVARIANTS
  TypeOK
  ResultIsRoute
  EndsClosest
  FailsForAReason
  MapComesBackClear
CHECK_DEADLOCK FALSE
