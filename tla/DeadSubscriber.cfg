CONSTANTS
  Conns = {a, b, c}
  NoConn = NoConn
  Room = 2
  Publishers = {a, b}
  Eager = {}
  Breakable = {b}
  BrokerEnds = FALSE
CONSTANT Topics <- MCTopics
CONSTANT Msgs <- MCMsgs
CONSTANT Interests <- MCInterests
CONSTANT MaxMsgs <- MCMaxMsgs
SPECIFICATION FairSpec
PROPERTIES
  SentToAllSubscribers
CHECK_DEADLOCK FALSE
