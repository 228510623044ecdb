CONSTANTS
  Conns = {a, b, c}
  NoConn = NoConn
  Room = 2
  Publishers = {a, b}
  Eager = {a}
  Breakable = {b}
  BrokerEnds = TRUE
CONSTANT Topics <- MCTopics
CONSTANT Msgs <- MCMsgs
CONSTANT Interests <- MCInterests
CONSTANT MaxMsgs <- MCMaxMsgs
SPECIFICATION FairSpec
INVARIANTS
  CTypeOK
  NoLeakedSubscriber
  LockDiscipline
  SameOrderEverywhere
PROPERTIES
  BroadcastEnds
  ImplementsOrder
CHECK_DEADLOCK FALSE
