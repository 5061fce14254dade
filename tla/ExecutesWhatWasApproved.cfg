SPECIFICATION Spec
CONSTANTS
  boss = boss
  ann = ann
  bob = bob
  p1 = p1
  p2 = p2
  k1 = k1
  k2 = k2
  Users = {boss}
  Creator = boss
  Nobody = Nobody
  Preps = {p1}
  Keys = {k1}
  NoKey = NoKey
  MaxAgentRuns = 2
  MaxPlans = 2
  MaxRequests = 1
SYMMETRY MCSym
INVARIANTS
  ExecutesWhatWasApproved
\* Everything may be decided and committed.
CHECK_DEADLOCK FALSE
