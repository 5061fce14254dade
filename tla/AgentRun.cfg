SPECIFICATION FairSpec
CONSTANTS
  w1 = w1
  w2 = w2
  a1 = a1
  a2 = a2
  Workers = {w1, w2}
  Answers = {a1, a2}
  Useful = {a1, a2}
  MaxRepairs = 1
  MaxTroubles = 1
INVARIANTS
  IInv
  RepairsBounded
  AnsweredForGood
  CompletedIsFrozen
PROPERTIES
  FrozenOnlyIfPassed
  GenerationEnds
\* A run that is over leaves nothing to do.
CHECK_DEADLOCK FALSE
