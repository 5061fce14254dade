SPECIFICATION Spec
CONSTANTS
  e1 = e1
  e2 = e2
  w1 = w1
  w2 = w2
  Execs = {e1}
  Workers = {w1, w2}
  NoEvent = NoEvent
  MaxAttempts = 1
  MaxPolls = 1
  MaxFaults = 1
SYMMETRY MCSym
INVARIANTS
  IInv
  NoOrphanJob
  RacePublishesOnce
PROPERTIES
  KeepsPromise
\* A run that is over may leave nothing to do.
CHECK_DEADLOCK FALSE
