SPECIFICATION Safety
CONSTANTS
  MaxTimers = 1
  Delays = {0, 1}
  MaxExpirys = 2
  Messages = {m1, m2}
  Posters = {p1}
  DefaultWait = 2
  Handled = {TRUE, FALSE}
  NoEvent = NoEvent
  STRunner = STRunner
PROPERTIES IsEventLoop
