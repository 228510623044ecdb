CONSTANTS
  v1 = v1
  v2 = v2
  c1 = c1
  c2 = c2
  VMs = {v1}
  CmdIds = {c1}
  Host = Host
  NoConn = NoConn
  NoDetails = NoDetails
  KnownVMs = {v1}
  Mute = {}
  Faults = {"restart"}
  MaxConns = 2
  Room = 3
CONSTANT Target <- TargetFirst
SPECIFICATION Spec
INVARIANTS
  AssertedResultIsKnown
CHECK_DEADLOCK FALSE
