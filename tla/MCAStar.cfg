CONSTANTS
  Rows = 3
  Cols = 3
  Maps <- MCMaps
  Starts <- MCStarts
  Goals <- MCGoals
  MaxRetargets = 1
SPECIFICATION FairSpec
INVARIANTS
  TypeOK
  ResultIsRoute
  QueueIsOrdered
  FindsClosestUndisturbed
PROPERTIES
  Terminates
  KeepsPromise
CHECK_DEADLOCK FALSE
