SPECIFICATION FairSpec
CONSTANTS
  Session = {s1, s2}
  MaxConns = 2
  WithApple = s1
  MaxCalls = 1
  MaxIn = 1
  MaxOut = 1
CHECK_DEADLOCK FALSE
INVARIANTS
  MappedIsPumped
PROPERTIES
  SessionsAreReleased
  EndIsToldOnce
