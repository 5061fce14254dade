SPECIFICATION FairSpec
CONSTANTS
  e1 = e1
  e2 = e2
  w1 = w1
  w2 = w2
  Execs = {e1}
  Workers = {w1}
  NoEvent = NoEvent
  MaxAttempts = 2
  MaxPolls = 2
  MaxFaults = 1
INVARIANTS
  OneLiveEvent
  SubmitOnce
  RunMatchesOutbox
  SwapNeedsVerdict
PROPERTIES
  NoSubmitOnceCancelled
  EventsSettle
  RunsEnd
  CancelCarriedOut
  FailedIsCleaned
\* A run that is over may leave nothing to do.
CHECK_DEADLOCK FALSE
