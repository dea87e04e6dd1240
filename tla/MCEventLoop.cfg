SPECIFICATION Spec
CONSTANTS
  e1=e1 e2=e2 p1=p1 p2=p2 rHigh=rHigh rMid=rMid rLow=rLow
  Events = {e1,e2}
  Posters = {p1,p2}
  LoopRunners = {rHigh, rMid, rLow}
  Priority <- MCPriority
  DefaultWait = 2
  Handled = {TRUE, FALSE}
  NoEvent = NoEvent
INVARIANTS TypeOK PassExact
PROPERTIES IsMailbox TerminateStopsWhenDrained
