SPECIFICATION Spec
CONSTANTS
  ToWorker = {m1, m2}
  Timers = {x1}
  STRunner = STRunner
  ToCreator = {r1, r2}
  DefaultWait = 1
  NoEvent = NoEvent
CHECK_DEADLOCK FALSE
PROPERTY DtorReturnsOnceHeard
