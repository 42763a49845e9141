SPECIFICATION LeavingSpec
CONSTANTS
  Session = {s1}
  MaxConns = 1
  WithApple = s1
  MaxCalls = 1
  MaxIn = 1
  MaxOut = 1
CHECK_DEADLOCK FALSE
PROPERTIES
  ClosedIsLeft
