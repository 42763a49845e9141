SPECIFICATION Spec
CONSTANTS
  AgentId = {a1}
  Conn = {c1, c2}
  Request = {r1, r2}
  SuppliedId = {}
  GeneratedId = {g1, g2}
  MaxChunks = 1
  FlakyConn = {}
  None = None
SYMMETRY Symmetry
CHECK_DEADLOCK FALSE
INVARIANTS
  RouteHasOwner
  WaiterHasOwner
  RegistrationIsServed
  NotStranded
