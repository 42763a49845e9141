SPECIFICATION ScenarioSpec
CONSTANTS
  Session = {1, 2, 3, 4, 5}
  Provider <- Served
  MaxFrames = 4
  MaxPushed = 1
  CommandCap = 1
  EventCap = 1
  NoSession = NoSession
CHECK_DEADLOCK FALSE
INVARIANTS
  TypeOK
  TtsCompletion
PROPERTIES
  FollowsProtocol
  AskedEnds
  BridgesReleased
  HandlerReturns
