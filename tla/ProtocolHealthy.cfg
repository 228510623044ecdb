CONSTANTS
  v1 = v1
  v2 = v2
  c1 = c1
  c2 = c2
  VMs = {v1, v2}
  CmdIds = {c1, c2}
  Host = Host
  NoConn = NoConn
  NoDetails = NoDetails
  KnownVMs = {v1, v2}
  Mute = {}
  Faults = {}
  MaxConns = 1
  Room = 3
CONSTANT Target <- TargetBoth
SPECIFICATION FairSpec
INVARIANTS
  TypeOK
  AssertedResultIsKnown
PROPERTIES
  EventuallyAnswered
  ImplementsService
CHECK_DEADLOCK FALSE
