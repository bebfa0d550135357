\* One plan of one call task and two workers that may take it from each other.
CONSTANTS
  c1 = c1
  p1 = p1
  NoTask = NoTask
  Contacts = {c1}
  Plans = {p1}
  Tasks = {t1}
  Workers = {w1, w2}
  CallTasks = {t1}
  ContactOf <- MCContactOf
  PlanOf <- MCPlanOf
  MaxAttempts = 2
  AttemptBound = 2
  BatchBound = 1
SPECIFICATION FairSpec
CHECK_DEADLOCK FALSE
INVARIANTS
  StoppedPlanIsQuiet
  OneLateTouchPerWorker
  ClaimIsExclusive
PROPERTIES
  FinalIsFinal
  ClaimedTaskIsReleased
