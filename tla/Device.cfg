SPECIFICATION InstanceSpec
CONSTANTS
  Request = {r1, r2}
  Task = {t1, t2}
  Chunks = 1
  InboxCap = 1
  MaxConns = 2
  None = None
CHECK_DEADLOCK FALSE
INVARIANTS
  TypeOK
  FinishedMeansPlayed
  FedIsTracked
PROPERTIES
  FinishAnswered
  SilenceNoticed
