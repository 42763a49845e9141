SPECIFICATION Spec
CONSTANTS
  AgentId = {a1}
  Conn = {c1, c2}
  Request = {r1}
  SuppliedId = {}
  GeneratedId = {g1}
  MaxChunks = 1
  FlakyConn = {}
  None = None
CHECK_DEADLOCK FALSE
INVARIANTS
  ConnectedIsRegistered
