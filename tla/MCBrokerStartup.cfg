CONSTANT Delay <- OneSecond
CONSTANT BrokerTimeout <- AMinute
CONSTANT Moments <- SomeMoments
CONSTANT MaxDelay <- AMinute
SPECIFICATION FairSpec
INVARIANTS
  TypeOK
  PortIsClosedAgain
PROPERTIES
  GivesUpForCause
  HostDecides
  ServesAgain
CHECK_DEADLOCK FALSE
