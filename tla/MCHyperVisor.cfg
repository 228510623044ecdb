CONSTANTS
  Calls = {a, b, c}
  Names = {n1}
  Commands = {"pause", "unpause", "powerOff"}
SPECIFICATION FairSpec
INVARIANTS
  TypeOK
  SessionsEnd
  WholeAtRest
PROPERTIES
  EveryCallEnds
CHECK_DEADLOCK FALSE
