\* Two dispatchers and two sessions under a cap of one; the reaper of leases
\* lets both dispatchers have the task at once.
CONSTANTS
  Tasks = {t1}
  Calls = {c1, c2}
  Workers = {w1, w2}
  Hooks = {h1, h2}
  c2 = c2
  w2 = w2
  NoTask = NoTask
  NoCall = NoCall
  Limit = 1
  MaxAttempts = 2
  FaultBound = 1
SPECIFICATION FairSpec
CONSTRAINT Narrow
CHECK_DEADLOCK FALSE
INVARIANT CapHolds
PROPERTIES
  SlotIsFreed
  ParkedCallIsSettled
