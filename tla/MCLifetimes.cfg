SPECIFICATION Spec
CONSTANTS
  Workers = {w1, w2}
  Events = {e1, e2}
  Mref = Mref
  Handles = {w1, w2, Mref, h1, h2}
  Values = {w1, w2, 1, Undefined}
  Undefined = Undefined
  NoValue = NoValue
  NoRef = NoRef
  None = None
SYMMETRY Symmetry
CHECK_DEADLOCK FALSE
INVARIANTS TypeOK EventsCounted RefsCounted TargetIsSender RefsDieAtHome AllReclaimed FreeListExact
PROPERTIES KeepsValues GrowsWhenFull
