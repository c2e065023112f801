CONSTANTS
  a = a
  b = b
  At = At
  Nul = Nul
  SensorIds = {7, 8}
  Clients <- TwoClients
  Poses <- MCPoses
  Moving <- MCMoving
  Commands <- MCCommands
  Chosen = 7
  InUp <- MCInUp
  InDown <- MCInDown
  Cuts <- MCCuts
  MaxOdd = 1
  Lines <- MCLines
  Rows <- MCRows
  Columns <- MCColumns
  Constructed <- MCConstructed
SPECIFICATION FairSpec
INVARIANTS
  SessionTypeOK
  ViewExplained
  LabelFollows
  EndsForAReason
PROPERTIES
  QuitSpreads
CHECK_DEADLOCK FALSE
