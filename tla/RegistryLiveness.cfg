SPECIFICATION DrainingSpec
CONSTANTS
  AgentId = {a1}
  Conn = {c1}
  Request = {r1, r2}
  SuppliedId = {t1}
  GeneratedId = {}
  MaxChunks = 1
  FlakyConn = {c1}
  None = None
CHECK_DEADLOCK FALSE
PROPERTIES
  EveryRequestAnswered
  SilentAgentDropped
