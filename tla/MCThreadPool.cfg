SPECIFICATION Spec
CONSTANTS
  Tasks = {k1, k2}
  Pushers = {p1}
  MaxThreads = 3
  NoTask = NoTask
CHECK_DEADLOCK FALSE
INVARIANTS TypeOK TaskInOnePlace NoneAsleepOverTask StopIsComplete
PROPERTIES QueueDrains StopEnds
