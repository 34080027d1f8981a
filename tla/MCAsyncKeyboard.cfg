SPECIFICATION FairSpec
CONSTANTS
  TaskQueueCap = 5
  NumTasks = 3
  ScancodeQueueCap = 3
  KbTask = 1
  MaxKeys = 7
INVARIANTS
  TypeOK
  ParkedHasNoUnseenScancode
  WakerProtocol
  HandlerNeverFreesWaker
  EveryScancodeAccounted
  NoPanicWithinBudget
PROPERTIES
  ImplementsChannel
