SPECIFICATION Spec
CONSTANTS
  MaxTimers = 2
  Delays = {0, 1}
  MaxExpirys = 1
  Messages = {}
  Posters = {}
  DefaultWait = 2
  Handled = {TRUE, FALSE}
  NoEvent = NoEvent
  STRunner = STRunner
INVARIANTS TypeOK OnePlace FunctionHeld Accounted NeverEarly KnownInTime
PROPERTIES CallsAllowed TimerFires
