SPECIFICATION DrainingSpec
CONSTANTS
  Conn = {c1, c2}
  Session = {s1}
  MaxMessages = 1
  None = None
CHECK_DEADLOCK FALSE
INVARIANTS
  TypeOK
  AckNotLost
  LiveReachable
  StartedRouteServed
PROPERTIES
  EveryStartReturns
  LostAgentReported
