SPECIFICATION Spec
CONSTANTS
  Callbacks = {f, g}
  NotCallable = null
  MaxRegistrations = 4
  MaxDepth = 2
INVARIANTS TypeOK CallsInOrder OncePerDispatch CallsBounded FailsWithReason OneOnListener
