CONSTANTS
  NumSensors = 2
  Place <- MCPlace
  Wide <- MCWide
  Size = 4
  Lookalikes <- MCLookalikes
  Packets = 2
  Buffer = 4
  Callers = {udp}
SPECIFICATION Spec
INVARIANTS
  TypeOK
  PairExplained
PROPERTIES
  PhaseKept
CHECK_DEADLOCK FALSE
