SPECIFICATION FairSpec
CONSTANTS
  Program <- AllPrograms
  MaxSessions = 2
  MaxEvents = 1
  Bad = Bad
  NoValue = NoValue
  None = None
CHECK_DEADLOCK FALSE
INVARIANTS
  RunningSessionIsKnown
  AnswerIsOwn
  AudioReachesMeant
PROPERTIES
  CallsReturn
  CommandsFinish
