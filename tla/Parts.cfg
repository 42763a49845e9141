SPECIFICATION PartsSpec
CONSTANTS
  Proc = {p1}
  MaxVersion = 4
  MaxCrashes = 2
  MaxFaults = 2
  apple = apple
  minimax = minimax
  Provider = {apple, minimax}
  Command = {c1, c2}
  Catalog <- ExampleCatalog
  Unknown = Unknown
  Id = {x, y, z}
  Capability = {k, l}
  NoId = NoId
  DeviceId = {d, d2}
  EndpointId = {e, e2}
  NoDevice = NoDevice
  NoMatch = NoMatch
  MaxAppends = 4
  MaxCommits = 2
CHECK_DEADLOCK FALSE
INVARIANTS
  NeverTorn
  SomethingToRun
  AppliedIsNewer
  CommandsTakeEffect
  TextInOrder
  FinishCoversCommit
PROPERTIES
  UpdatesArrive
  CommittedTaskEnds
  GatewayServesTable
