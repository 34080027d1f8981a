SPECIFICATION MCSpec
CONSTANTS
  TaskQueueCap = 3
  NumTasks = 4
  ta = ta
  tb = tb
  tc = tc
  td = td
  Tasks = {ta, tb, tc, td}
  MaxPolls = 3
INVARIANTS
  ExecutorTypeOK
  WokenIsQueued
  LiveTaskBookkeeping
  RoundRobin
PROPERTIES
  WokenIsPolled
