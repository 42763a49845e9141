SPECIFICATION ScenarioSpec
CONSTANTS
  Session = {1}
  Provider <- Failing
  MaxFrames = 2
  MaxPushed = 0
  CommandCap = 1
  EventCap = 1
  NoSession = NoSession
CHECK_DEADLOCK FALSE
PROPERTIES
  StayingClientTold
