SPECIFICATION FairSpec
CONSTANTS
  Program <- LifeCycle
  MaxSessions = 2
  MaxEvents = 1
  Bad = Bad
  NoValue = NoValue
  None = None
CHECK_DEADLOCK FALSE
PROPERTIES
  StartReturns
