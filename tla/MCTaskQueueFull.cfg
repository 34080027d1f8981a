SPECIFICATION FairSpec
CONSTANTS
  TaskQueueCap = 3
  NumTasks = 2
  ScancodeQueueCap = 2
  KbTask = 1
  MaxKeys = 5
INVARIANTS
  WakeNeverFindsQueueFull
