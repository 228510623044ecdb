CONSTANTS
  c1 = c1
  c2 = c2
  c3 = c3
CONSTANT CmdIds <- Commands
CONSTANT Cost <- CostOf
SPECIFICATION ESpec
INVARIANTS
  SignaledIsAnswered
CHECK_DEADLOCK FALSE
