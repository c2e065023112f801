CONSTANTS
  Buttons <- DriveButtons
  MaxPresses = 3
SPECIFICATION Spec
INVARIANT DrivesAsAsked
CHECK_DEADLOCK FALSE
