CONSTANTS
  Buttons <- MCButtons
  MaxPresses = 3
SPECIFICATION FairSpec
INVARIANTS
  TypeOK
  Follows
  EndsAtRest
PROPERTIES
  QuitEnds
  OrphanForEver
CHECK_DEADLOCK FALSE
