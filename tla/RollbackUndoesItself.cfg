SPECIFICATION Spec
CONSTANTS
  e1 = e1
  e2 = e2
  w1 = w1
  w2 = w2
  Execs = {e1, e2}
  Workers = {w1}
  NoEvent = NoEvent
  MaxAttempts = 1
  MaxPolls = 1
  MaxFaults = 0
PROPERTIES
  RollbackUndoesItself
\* A run that is over may leave nothing to do.
CHECK_DEADLOCK FALSE
